---------------------- MODULE MetricsAggregators_proofs ----------------------
(***************************************************************************)
(* Theorems about MetricsAggregators, for journals of any length, any      *)
(* users, any number of journals and any timings: each aggregator computes *)
(* of a sorted journal what the journal says as a set of lines, and the    *)
(* mean of the figures is where all journals but two are.                  *)
(*                                                                         *)
(* The aggregators run through the lines; what they have at line m is a    *)
(* count over the first m lines.  A claim about every m is proved by the   *)
(* smallest m at which it fails.  A fold or a sum is a function chosen by  *)
(* its recursion, so a function of that recursion is shown to exist first. *)
(***************************************************************************)
EXTENDS MetricsAggregators, FiniteSetTheorems, TLAPS

-------------------------------------------------------------------------------
(* The smallest and the largest number of a set.                           *)

\* Every induction below takes the smallest number at which a claim fails.
LEMMA Smallest ==
  ASSUME NEW T \in SUBSET Nat, T # {}
  PROVE  \E x \in T : \A y \in T : x <= y
<1>1. \E x \in T : \A y \in T : ~(<<y, x>> \in OpToRel(<, Nat))
  BY NatLessThanWellFounded, WFMin
<1>2. PICK x \in T : \A y \in T : ~(<<y, x>> \in OpToRel(<, Nat))
  BY <1>1
<1>3. \A y \in T : ~(y < x)
  BY <1>2 DEF OpToRel
<1> QED
  BY <1>3

\* The earliest of a set of timestamps is in it and none is earlier.
LEMMA MinIsLeast ==
  ASSUME NEW T \in SUBSET Nat, T # {}
  PROVE  Min(T) \in T /\ \A y \in T : Min(T) <= y
  BY Smallest DEF Min

LEMMA MaxOfRange == \A k \in Nat \ {0} : Max(1..k) = k /\ (1..k) \ {k} = 1..(k - 1)
<1> SUFFICES ASSUME NEW k \in Nat \ {0} PROVE Max(1..k) = k /\ (1..k) \ {k} = 1..(k - 1)
  OBVIOUS
<1>1. k \in 1..k /\ \A y \in 1..k : k >= y
  OBVIOUS
<1>2. \A x \in 1..k : (\A y \in 1..k : x >= y) => x = k
  OBVIOUS
<1> QED
  BY <1>1, <1>2 DEF Max

\* A set of places in a sequence has a last one.
LEMMA MaxIsMember ==
  ASSUME NEW n \in Nat, NEW T \in SUBSET (0..n), T # {}
  PROVE  Max(T) \in T /\ \A y \in T : Max(T) >= y
<1> DEFINE Gaps == {n - y : y \in T}
<1>0. Gaps \in SUBSET Nat /\ Gaps # {}
  <2>1. \A y \in T : n - y \in Nat
    OBVIOUS
  <2> QED
    BY <2>1
<1>1. PICK d \in Gaps : \A e \in Gaps : d <= e
  <2> HIDE DEF Gaps
  <2> QED
    BY <1>0, Smallest
<1>2. PICK x \in T : d = n - x
  BY <1>1
<1>3. \A y \in T : n - x <= n - y
  BY <1>1, <1>2
<1>4. \A y \in T : x >= y
  BY <1>3
<1> QED
  BY <1>4 DEF Max

-------------------------------------------------------------------------------
(* Functions defined by recursion on the subsets of a finite set.          *)

\* it is base on the empty set, and on any other set what F makes of the set
\* and of its value without the element c picks.
Recurs(it, D, base, c, F) ==
  it = [s \in SUBSET D |-> IF s = {} THEN base ELSE F[<<s, it[s \ {c[s]}]>>]]

\* The sizes of the subsets of a finite set, by which recursion goes down.
LEMMA SubsetSize ==
  ASSUME NEW D, IsFiniteSet(D), NEW s \in SUBSET D
  PROVE  /\ IsFiniteSet(s) /\ Cardinality(s) \in Nat /\ Cardinality(s) <= Cardinality(D)
         /\ Cardinality(s) = 0 <=> s = {}
         /\ \A x \in s : Cardinality(s \ {x}) = Cardinality(s) - 1
  BY FS_Subset, FS_CardinalityType, FS_RemoveElement, FS_EmptySet

\* There is a function that satisfies the recursion, whatever elements c picks.
LEMMA RecursionExists ==
  ASSUME NEW D, IsFiniteSet(D), NEW V, NEW base \in V, NEW c,
         \A s \in SUBSET D : s # {} => c[s] \in s,
         NEW F \in [(SUBSET D) \X V -> V]
  PROVE  \E it \in [SUBSET D -> V] : Recurs(it, D, base, c, F)
<1> DEFINE Upto(n) == {s \in SUBSET D : Cardinality(s) <= n}
           Fits(g, n) == /\ g \in [Upto(n) -> V]
                         /\ \A s \in Upto(n) :
                              g[s] = IF s = {} THEN base ELSE F[<<s, g[s \ {c[s]}]>>]
           Bad == {n \in Nat : ~\E g : Fits(g, n)}
<1>2. \E g : Fits(g, 0)
  <2>1. ASSUME NEW s \in Upto(0) PROVE s = {}
    <3>1. s \in SUBSET D /\ Cardinality(s) <= 0
      OBVIOUS
    <3>2. Cardinality(s) \in Nat /\ (Cardinality(s) = 0 <=> s = {})
      BY SubsetSize
    <3> QED
      BY <3>1, <3>2
  <2>2. Fits([s \in Upto(0) |-> base], 0)
    BY <2>1
  <2> QED
    BY <2>2
<1>3. ASSUME NEW n \in Nat, \E g : Fits(g, n) PROVE \E g : Fits(g, n + 1)
  <2>1. PICK g : Fits(g, n)
    BY <1>3
  <2> DEFINE h == [s \in Upto(n + 1) |-> IF s = {} THEN base ELSE F[<<s, g[s \ {c[s]}]>>]]
  <2>2. ASSUME NEW s \in Upto(n + 1), s # {}
        PROVE  s \ {c[s]} \in Upto(n) /\ s \ {c[s]} \in Upto(n + 1)
    <3>1. s \in SUBSET D /\ Cardinality(s) <= n + 1
      OBVIOUS
    <3>2. c[s] \in s /\ s \ {c[s]} \in SUBSET D
      BY <2>2
    <3>3. Cardinality(s) \in Nat /\ Cardinality(s \ {c[s]}) = Cardinality(s) - 1
      BY <3>2, SubsetSize
    <3>4. Cardinality(s \ {c[s]}) <= n /\ Cardinality(s \ {c[s]}) <= n + 1
      BY <3>1, <3>3
    <3> QED
      BY <3>2, <3>4
  <2>3. ASSUME NEW s \in Upto(n) PROVE s \in Upto(n + 1) /\ h[s] = g[s]
    <3>1. s \in SUBSET D /\ Cardinality(s) <= n
      OBVIOUS
    <3>2. Cardinality(s) \in Nat
      BY SubsetSize
    <3>5. Cardinality(s) <= n + 1
      BY <3>1, <3>2
    <3>3. s \in Upto(n + 1)
      BY <3>1, <3>5
    <3>4. g[s] = IF s = {} THEN base ELSE F[<<s, g[s \ {c[s]}]>>]
      BY <2>1
    <3> QED
      BY <3>3, <3>4
  <2>4. h \in [Upto(n + 1) -> V]
    BY <2>1, <2>2
  <2>5. ASSUME NEW s \in Upto(n + 1)
        PROVE  h[s] = IF s = {} THEN base ELSE F[<<s, h[s \ {c[s]}]>>]
    BY <2>2, <2>3
  <2> HIDE DEF h
  <2>6. Fits(h, n + 1)
    BY <2>4, <2>5
  <2> QED
    BY <2>6
<1> HIDE DEF Fits
<1>4. Bad = {}
  <2> SUFFICES ASSUME Bad # {} PROVE FALSE
    OBVIOUS
  <2>1. PICK n \in Bad : \A k \in Bad : n <= k
    BY Smallest
  <2>2. n # 0 /\ n - 1 \in Nat /\ n - 1 \notin Bad /\ (n - 1) + 1 = n
    BY <1>2, <2>1
  <2> QED
    BY <1>3, <2>1, <2>2
<1>5. PICK g : Fits(g, Cardinality(D))
  BY <1>4, FS_CardinalityType
<1>6. Upto(Cardinality(D)) = SUBSET D
  BY SubsetSize
<1>7. g \in [SUBSET D -> V] /\ Recurs(g, D, base, c, F)
  BY <1>5, <1>6 DEF Fits, Recurs
<1> QED
  BY <1>7

\* FoldLeft over a sequence of length n goes through the sets 1..n, 1..(n - 1), ...
Folds(it, n, base, F) ==
  it = [s \in SUBSET (1..n) |-> IF s = {} THEN base ELSE F[<<Max(s), it[s \ {Max(s)}]>>]]

\* There is a function to fold with, so that what CHOOSE picks does satisfy it.
LEMMA FoldExists ==
  ASSUME NEW n \in Nat, NEW V, NEW base \in V, NEW F \in [(1..n) \X V -> V]
  PROVE  \E it \in [SUBSET (1..n) -> V] : Folds(it, n, base, F)
<1> DEFINE D == 1..n
           c == [s \in SUBSET D |-> Max(s)]
           G == [p \in (SUBSET D) \X V |->
                   IF p[1] = {} THEN base ELSE F[<<Max(p[1]), p[2]>>]]
<1>1. ASSUME NEW s \in SUBSET D, s # {} PROVE Max(s) \in s /\ Max(s) \in D
  <2>1. s \in SUBSET (0..n)
    OBVIOUS
  <2> QED
    BY <1>1, <2>1, MaxIsMember
<1>2. \A s \in SUBSET D : s # {} => c[s] \in s
  BY <1>1
<1>3. G \in [(SUBSET D) \X V -> V]
  BY <1>1
<1>4. IsFiniteSet(D)
  BY FS_Interval
<1>5. PICK it \in [SUBSET D -> V] : Recurs(it, D, base, c, G)
  <2> HIDE DEF c, G, D
  <2> QED
    BY <1>2, <1>3, <1>4, RecursionExists
<1>6. ASSUME NEW s \in SUBSET D, s # {}
      PROVE  G[<<s, it[s \ {c[s]}]>>] = F[<<Max(s), it[s \ {Max(s)}]>>]
  <2>1. s \ {Max(s)} \in SUBSET D
    OBVIOUS
  <2>2. it[s \ {Max(s)}] \in V /\ c[s] = Max(s)
    BY <2>1, <1>5
  <2> QED
    BY <1>6, <2>2
<1>7. it = [s \in SUBSET D |-> IF s = {} THEN base ELSE F[<<Max(s), it[s \ {Max(s)}]>>]]
  <2> HIDE DEF G, c, D
  <2> QED
    BY <1>5, <1>6 DEF Recurs
<1> QED
  BY <1>5, <1>7 DEF Folds

-------------------------------------------------------------------------------
(* The lines of a sorted journal, and those before the break.              *)

Chronological(log) ==
  /\ log \in Seq(LogLine) /\ log # <<>>
  /\ \A i, j \in DOMAIN log : i < j => log[i].ts <= log[j].ts

\* What a line of a journal holds.
LEMMA LineTypes ==
  ASSUME NEW log \in Seq(LogLine), NEW i \in DOMAIN log
  PROVE  /\ log[i] \in LogLine /\ log[i].ts \in 0..MaxTime /\ log[i].start \in Nat
         /\ log[i].allowed \in BOOLEAN /\ log[i].user \in Users
         /\ log[i].attempt \in Attempts /\ MaxTime \in Nat /\ log[i].ts \in Nat
         /\ log \in [1..Len(log) -> LogLine] /\ Len(log) \in Nat /\ i \in 1..Len(log)
<1>1. log[i] \in LogLine /\ Len(log) \in Nat /\ i \in 1..Len(log) /\ log \in [1..Len(log) -> LogLine]
  OBVIOUS
<1>2. log[i].ts \in 0..MaxTime /\ MaxTime \in Nat
  BY <1>1, TimesAssumption DEF LogLine
<1> QED
  BY <1>1, <1>2 DEF LogLine

\* The first line of a sorted journal is the earliest.
LEMMA FirstIsStart ==
  ASSUME NEW log, Chronological(log)
  PROVE  /\ 1 \in DOMAIN log /\ DOMAIN log = 1..Len(log) /\ Len(log) \in Nat \ {0}
         /\ First(log) = StartTime(log) /\ StartTime(log) \in Nat
         /\ \A i \in DOMAIN log : StartTime(log) <= log[i].ts /\ log[i].ts \in Nat
<1>1. log \in Seq(LogLine) /\ 1 \in DOMAIN log /\ DOMAIN log = 1..Len(log) /\ Len(log) \in Nat \ {0}
  BY DEF Chronological
<1>2. \A i \in DOMAIN log : log[i].ts \in Nat
  BY <1>1, LineTypes
<1>3. \A i \in DOMAIN log : log[1].ts <= log[i].ts
  BY <1>1, <1>2 DEF Chronological
<1> DEFINE T == {l.ts : l \in ToSet(log)}
<1>4. \A x \in T : \E i \in DOMAIN log : x = log[i].ts
  BY DEF ToSet
<1>5. log[1].ts \in T
  BY <1>1 DEF ToSet
<1>6. T \in SUBSET Nat /\ T # {}
  BY <1>2, <1>4, <1>5
<1>7. Min(T) \in T /\ Min(T) <= log[1].ts
  <2> HIDE DEF T
  <2> QED
    BY <1>5, <1>6, MinIsLeast
<1>8. PICK i \in DOMAIN log : Min(T) = log[i].ts
  BY <1>4, <1>7
<1>9. Min(T) = log[1].ts
  <2> HIDE DEF T
  <2>1. log[i].ts \in Nat /\ log[1].ts \in Nat /\ log[1].ts <= log[i].ts
    BY <1>1, <1>2, <1>3
  <2> QED
    BY <1>7, <1>8, <2>1
<1> QED
  BY <1>1, <1>2, <1>3, <1>9 DEF First, StartTime

\* The lines before the break are those within the duration, in their order.
Prefix(log, k) ==
  /\ k \in 0..Len(log)
  /\ Measured(log) \in Seq(LogLine) /\ Len(Measured(log)) = k
  /\ DOMAIN Measured(log) = 1..k
  /\ \A i \in 1..k : Measured(log)[i] = log[i]
  /\ \A i \in DOMAIN log : i <= k <=> InTime(log, log[i])

\* The break leaves out exactly the lines that are not in time.
LEMMA MeasuredPrefix ==
  ASSUME NEW log, Chronological(log)
  PROVE  \E k \in Nat : Prefix(log, k)
<1> DEFINE late == {i \in DOMAIN log : IsLate(log, log[i])}
           n == Len(log)
<1>1. /\ log \in Seq(LogLine) /\ DOMAIN log = 1..n /\ n \in Nat
      /\ First(log) = StartTime(log) /\ StartTime(log) \in Nat
      /\ \A i \in DOMAIN log : log[i].ts \in Nat
      /\ Duration \in Nat
  BY FirstIsStart, TimesAssumption DEF Chronological
<1>2. \A i \in DOMAIN log : InTime(log, log[i]) <=> i \notin late
  BY <1>1 DEF InTime, IsLate
<1>3. \A i \in late, j \in DOMAIN log : i < j => j \in late
  <2> SUFFICES ASSUME NEW i \in late, NEW j \in DOMAIN log, i < j PROVE j \in late
    OBVIOUS
  <2>1. log[i].ts <= log[j].ts
    BY DEF Chronological
  <2> QED
    BY <1>1, <2>1 DEF IsLate
<1> DEFINE k == IF late = {} THEN n ELSE Min(late) - 1
<1>4. /\ k \in 0..n
      /\ \A i \in DOMAIN log : i <= k <=> i \notin late
  <2>1. CASE late = {}
    BY <1>1, <2>1
  <2>2. CASE late # {}
    <3>1. late \in SUBSET Nat
      BY <1>1
    <3>2. Min(late) \in late /\ \A y \in late : Min(late) <= y
      <4> HIDE DEF late
      <4> QED
        BY <2>2, <3>1, MinIsLeast
    <3>3. Min(late) \in 1..n
      BY <1>1, <3>2
    <3>4. k = Min(late) - 1
      BY <2>2
    <3> HIDE DEF k, late
    <3>5. \A i \in DOMAIN log : i <= k <=> i \notin late
      BY <1>1, <1>3, <3>2, <3>3, <3>4
    <3> QED
      BY <3>3, <3>4, <3>5, <1>1
  <2> QED
    BY <2>1, <2>2
<1>5. Measured(log) = IF late = {} THEN log ELSE SubSeq(log, 1, k)
  BY DEF Measured
<1> HIDE DEF k, late
<1>6. /\ Measured(log) \in Seq(LogLine) /\ Len(Measured(log)) = k
      /\ \A i \in 1..k : Measured(log)[i] = log[i]
  <2>1. CASE late = {}
    <3>1. k = n
      BY <2>1 DEF k
    <3> QED
      BY <1>1, <1>5, <2>1, <3>1
  <2>2. CASE late # {}
    <3>1. Measured(log) = SubSeq(log, 1, k)
      BY <1>5, <2>2
    <3>2. \A S : \A s \in Seq(S) : \A m \in 0..Len(s) :
            /\ SubSeq(s, 1, m) \in Seq(S) /\ Len(SubSeq(s, 1, m)) = m
            /\ \A i \in 1..m : SubSeq(s, 1, m)[i] = s[i]
      OBVIOUS
    <3> QED
      BY <1>1, <1>4, <3>1, <3>2
  <2> QED
    BY <2>1, <2>2
<1>7. DOMAIN Measured(log) = 1..k
  BY <1>6
<1> QED
  BY <1>1, <1>2, <1>4, <1>6, <1>7 DEF Prefix

-------------------------------------------------------------------------------
(* The sliding sum.                                                        *)

\* The responses to an attempt at millisecond i, and in the Span up to it
AtMs(log, a, i) ==
  {j \in DOMAIN log : log[j].attempt = a /\ InTime(log, log[j]) /\ When(log, log[j]) = i}
Recent(log, a, i) ==
  {j \in DOMAIN log : /\ log[j].attempt = a /\ InTime(log, log[j])
                      /\ When(log, log[j]) \in (i - Span + 1)..i}

\* requests_per_ms_by_attempts at a millisecond
LEMMA PerMsCounts ==
  ASSUME NEW log, Chronological(log), NEW a, NEW i
  PROVE  PerMs(log, a, i) = Cardinality(AtMs(log, a, i))
<1>1. PICK k \in Nat : Prefix(log, k)
  BY MeasuredPrefix
<1>2. DOMAIN log = 1..Len(log) /\ Len(log) \in Nat /\ First(log) = StartTime(log)
  BY FirstIsStart
<1>3. {j \in 1..k : Measured(log)[j].attempt = a /\ Offset(log, Measured(log)[j]) = i}
        = AtMs(log, a, i)
  BY <1>1, <1>2 DEF Prefix, AtMs, Offset, When
<1> QED
  BY <1>1, <1>3 DEF PerMs, Count, Prefix

\* The window of a millisecond is that of the one before, with the newest
\* millisecond and without the oldest.
LEMMA RecentMoves ==
  ASSUME NEW log, Chronological(log), NEW a, NEW i \in Nat
  PROVE  /\ Cardinality(Recent(log, a, i)) \in Nat
         /\ Cardinality(Recent(log, a, i))
              = (IF i = 0 THEN 0 ELSE Cardinality(Recent(log, a, i - 1)))
                + Cardinality(AtMs(log, a, i))
                - (IF i >= Span THEN Cardinality(AtMs(log, a, i - Span)) ELSE 0)
<1>1. /\ DOMAIN log = 1..Len(log) /\ Len(log) \in Nat /\ First(log) = StartTime(log)
      /\ StartTime(log) \in Nat
      /\ \A j \in DOMAIN log : StartTime(log) <= log[j].ts /\ log[j].ts \in Nat
  BY FirstIsStart
<1>2. \A j \in DOMAIN log : When(log, log[j]) \in Nat
  BY <1>1 DEF When
<1>3. Span \in Nat \ {0}
  BY TimesAssumption
<1>4. IsFiniteSet(DOMAIN log)
  BY <1>1, FS_Interval
<1> DEFINE New == AtMs(log, a, i)
           Old == IF i >= Span THEN AtMs(log, a, i - Span) ELSE {}
           Before == IF i = 0 THEN {} ELSE Recent(log, a, i - 1)
           Now == Recent(log, a, i)
<1>5. \A j \in DOMAIN log :
        /\ j \in New <=> log[j].attempt = a /\ InTime(log, log[j]) /\ When(log, log[j]) = i
        /\ j \in Now <=> /\ log[j].attempt = a /\ InTime(log, log[j])
                         /\ When(log, log[j]) > i - Span /\ When(log, log[j]) <= i
        /\ j \in Before <=> /\ log[j].attempt = a /\ InTime(log, log[j])
                            /\ When(log, log[j]) >= i - Span /\ When(log, log[j]) < i
        /\ j \in Old <=> /\ log[j].attempt = a /\ InTime(log, log[j])
                         /\ When(log, log[j]) = i - Span
  BY <1>2, <1>3 DEF AtMs, Recent
<1>6. New \subseteq DOMAIN log /\ Old \subseteq DOMAIN log /\ Before \subseteq DOMAIN log
      /\ Now \subseteq DOMAIN log
  BY DEF AtMs, Recent
<1>7. /\ Cardinality(Old) = IF i >= Span THEN Cardinality(AtMs(log, a, i - Span)) ELSE 0
      /\ Cardinality(Before) = IF i = 0 THEN 0 ELSE Cardinality(Recent(log, a, i - 1))
  BY FS_EmptySet
<1> HIDE DEF New, Old, Before, Now
<1>8. Now \cup Old = Before \cup New /\ Now \cap Old = {} /\ Before \cap New = {}
  BY <1>2, <1>3, <1>5, <1>6
<1>9. IsFiniteSet(Now) /\ IsFiniteSet(Old) /\ IsFiniteSet(Before) /\ IsFiniteSet(New)
  BY <1>4, <1>6, FS_Subset
<1>10. /\ Cardinality(Now) \in Nat /\ Cardinality(Old) \in Nat
       /\ Cardinality(Before) \in Nat /\ Cardinality(New) \in Nat
  BY <1>9, FS_CardinalityType
<1>11. /\ Cardinality(Now \cup Old) = Cardinality(Now) + Cardinality(Old) - Cardinality(Now \cap Old)
       /\ Cardinality(Before \cup New)
            = Cardinality(Before) + Cardinality(New) - Cardinality(Before \cap New)
  BY <1>9, FS_Union
<1>12. Cardinality(Now \cap Old) = 0 /\ Cardinality(Before \cap New) = 0
       /\ Cardinality(Now \cup Old) = Cardinality(Before \cup New)
  BY <1>8, FS_EmptySet
<1>13. Cardinality(Now) = Cardinality(Before) + Cardinality(New) - Cardinality(Old)
  BY <1>10, <1>11, <1>12
<1> QED
  BY <1>7, <1>10, <1>13 DEF Now, New

\* The sliding sum counts the responses of the window at every millisecond.
LEMMA RpsCounts ==
  ASSUME NEW log, Chronological(log), NEW a, NEW i \in 0..(Duration - 1)
  PROVE  Rps(log, a)[i] = Cardinality(Recent(log, a, i))
<1> DEFINE D == 0..(Duration - 1)
           Step(f) == [n \in D |-> (IF n = 0 THEN 0 ELSE f[n - 1])
                                     + PerMs(log, a, n) - Leaves(log, a, n)]
           w == [n \in D |-> Cardinality(Recent(log, a, n))]
           sum == CHOOSE f : f = Step(f)
<1>1. Duration \in Nat /\ Span \in Nat \ {0}
  BY TimesAssumption
<1>2. \A n \in D : /\ n \in Nat
                   /\ Cardinality(Recent(log, a, n))
                        = (IF n = 0 THEN 0 ELSE Cardinality(Recent(log, a, n - 1)))
                            + PerMs(log, a, n) - Leaves(log, a, n)
  BY <1>1, RecentMoves, PerMsCounts DEF Leaves
<1>3. w = Step(w)
  <2>1. \A n \in D : n # 0 => n - 1 \in D
    BY <1>1
  <2>2. \A n \in D : w[n] = Step(w)[n]
    BY <1>2, <2>1
  <2> QED
    BY <2>2
<1>4. sum = Step(sum)
  BY <1>3
<1>5. Rps(log, a) = sum
  BY DEF Rps
<1> HIDE DEF sum
<1> DEFINE Bad == {n \in D : sum[n] # Cardinality(Recent(log, a, n))}
<1>6. Bad = {}
  <2> SUFFICES ASSUME Bad # {} PROVE FALSE
    OBVIOUS
  <2>1. PICK n \in Bad : \A m \in Bad : n <= m
    <3>1. Bad \in SUBSET Nat
      BY <1>1
    <3> HIDE DEF Bad
    <3> QED
      BY <3>1, Smallest
  <2>2. n # 0 => n - 1 \in D /\ n - 1 \notin Bad
    BY <1>1, <2>1
  <2>3. sum[n] = (IF n = 0 THEN 0 ELSE sum[n - 1]) + PerMs(log, a, n) - Leaves(log, a, n)
    BY <1>4
  <2> QED
    BY <1>2, <2>2, <2>3
<1> QED
  BY <1>5, <1>6

-------------------------------------------------------------------------------
(* The vector of what is in flight.                                        *)

\* The milliseconds of the vector of the in-flight aggregator
FlightTimes == 0..(Duration + Span - 1)
Ground == [i \in FlightTimes |-> 0]
TakeOff(log, v, l) == IF l.allowed THEN Fly(v, Offset(log, l)) ELSE v

\* The function that FoldLeft defines, on the sets of lines it has taken in
Air(log) ==
  CHOOSE it : it = [s \in SUBSET DOMAIN Measured(log) |->
    IF s = {} THEN Ground
    ELSE TakeOff(log, it[s \ {Max(s)}], Measured(log)[Max(s)])]

LEMMA InflyIsAir == ASSUME NEW log PROVE Infly(log) = Air(log)[DOMAIN Measured(log)]
  BY DEF Infly, FoldLeft, MapThenFoldSet, Air, TakeOff, Ground, FlightTimes

\* It takes in the lines one after the other.
LEMMA AirRecurs ==
  ASSUME NEW log, Chronological(log)
  PROVE  Air(log) = [s \in SUBSET DOMAIN Measured(log) |->
           IF s = {} THEN Ground
           ELSE TakeOff(log, Air(log)[s \ {Max(s)}], Measured(log)[Max(s)])]
<1>1. PICK k \in Nat : Prefix(log, k)
  BY MeasuredPrefix
<1> DEFINE M == Measured(log)
           D == 1..k
           V == [FlightTimes -> Nat]
           F == [p \in D \X V |-> TakeOff(log, p[2], M[p[1]])]
<1>2. DOMAIN M = D
  BY <1>1 DEF Prefix
<1>3. Ground \in V
  BY DEF Ground
<1>4. ASSUME NEW v \in V, NEW l PROVE TakeOff(log, v, l) \in V
  BY DEF TakeOff, Fly
<1>5. F \in [D \X V -> V]
  BY <1>4
<1>6. PICK it \in [SUBSET D -> V] : Folds(it, k, Ground, F)
  <2>1. k \in Nat /\ F \in [(1..k) \X V -> V]
    BY <1>1, <1>5
  <2> HIDE DEF F, V
  <2> QED
    BY <1>3, <2>1, FoldExists
<1>7. ASSUME NEW s \in SUBSET D, s # {}
      PROVE  F[<<Max(s), it[s \ {Max(s)}]>>] = TakeOff(log, it[s \ {Max(s)}], M[Max(s)])
  <2>1. s \in SUBSET (0..k)
    OBVIOUS
  <2>2. Max(s) \in D
    BY <1>7, <2>1, MaxIsMember
  <2>3. it[s \ {Max(s)}] \in V
    BY <1>6
  <2> QED
    BY <2>2, <2>3
<1>8. it = [s \in SUBSET D |->
              IF s = {} THEN Ground ELSE TakeOff(log, it[s \ {Max(s)}], M[Max(s)])]
  <2> HIDE DEF F, V, D, M
  <2> QED
    BY <1>6, <1>7 DEF Folds, D
<1>9. it = [s \in SUBSET DOMAIN M |->
              IF s = {} THEN Ground ELSE TakeOff(log, it[s \ {Max(s)}], M[Max(s)])]
  BY <1>2, <1>8
<1> HIDE DEF F, V, D
<1> QED
  BY <1>9 DEF Air

\* Of the first m lines, those of the admissions in flight at millisecond i
Aloft(log, m, i) ==
  {j \in 1..m : /\ log[j].allowed
                /\ Offset(log, log[j]) <= i /\ i < Offset(log, log[j]) + Span}

\* One more line adds itself to those in flight at i, or nothing.
LEMMA AloftStep ==
  ASSUME NEW log, NEW m \in Nat, NEW i
  PROVE  /\ Cardinality(Aloft(log, 0, i)) = 0
         /\ Cardinality(Aloft(log, m, i)) \in Nat
         /\ Cardinality(Aloft(log, m + 1, i)) = Cardinality(Aloft(log, m, i))
              + (IF m + 1 \in Aloft(log, m + 1, i) THEN 1 ELSE 0)
<1>1. Aloft(log, 0, i) = {}
  BY DEF Aloft
<1>2. m + 1 \notin Aloft(log, m, i) /\ Aloft(log, m, i) \subseteq 1..m
  BY DEF Aloft
<1>3. Aloft(log, m + 1, i)
        = IF m + 1 \in Aloft(log, m + 1, i) THEN Aloft(log, m, i) \cup {m + 1} ELSE Aloft(log, m, i)
  BY DEF Aloft
<1>4. IsFiniteSet(Aloft(log, m, i))
  <2>1. IsFiniteSet(1..m)
    BY FS_Interval
  <2> QED
    BY <1>2, <2>1, FS_Subset
<1>5. Cardinality(Aloft(log, m, i)) \in Nat
  BY <1>4, FS_CardinalityType
<1>6. Cardinality(Aloft(log, m, i) \cup {m + 1}) = Cardinality(Aloft(log, m, i)) + 1
  BY <1>2, <1>4, FS_AddElement
<1>7. Cardinality(Aloft(log, 0, i)) = 0
  BY <1>1, FS_EmptySet
<1> QED
  BY <1>3, <1>5, <1>6, <1>7

\* What one line does to the vector is what it does to the counts.
LEMMA TakeOffCounts ==
  ASSUME NEW log, Chronological(log), NEW m \in Nat, m + 1 \in DOMAIN log
  PROVE  TakeOff(log, [i \in FlightTimes |-> Cardinality(Aloft(log, m, i))], log[m + 1])
           = [i \in FlightTimes |-> Cardinality(Aloft(log, m + 1, i))]
<1> DEFINE v == [i \in FlightTimes |-> Cardinality(Aloft(log, m, i))]
           w == TakeOff(log, v, log[m + 1])
           o == Offset(log, log[m + 1])
<1>1. o \in Nat /\ Span \in Nat \ {0} /\ log[m + 1].allowed \in BOOLEAN
  BY FirstIsStart, LineTypes, TimesAssumption DEF Offset, Chronological
<1>2. \A i \in FlightTimes : i \in Int
  BY TimesAssumption DEF FlightTimes
<1>3. w = [i \in FlightTimes |->
             IF log[m + 1].allowed /\ i \in o..(o + Span - 1) THEN v[i] + 1 ELSE v[i]]
  BY DEF TakeOff, Fly
<1>4. ASSUME NEW i \in FlightTimes PROVE w[i] = Cardinality(Aloft(log, m + 1, i))
  <2>1. m + 1 \in Aloft(log, m + 1, i) <=> log[m + 1].allowed /\ i \in o..(o + Span - 1)
    <3>1. m + 1 \in 1..(m + 1)
      OBVIOUS
    <3>2. m + 1 \in Aloft(log, m + 1, i) <=> log[m + 1].allowed /\ o <= i /\ i < o + Span
      BY <3>1 DEF Aloft
    <3> HIDE DEF o
    <3> QED
      BY <1>1, <1>2, <3>2
  <2>2. v[i] = Cardinality(Aloft(log, m, i))
    OBVIOUS
  <2>3. w[i] = IF log[m + 1].allowed /\ i \in o..(o + Span - 1) THEN v[i] + 1 ELSE v[i]
    BY <1>3
  <2> HIDE DEF w, o, v
  <2> QED
    BY <2>1, <2>2, <2>3, AloftStep
<1>5. w = [i \in FlightTimes |-> w[i]]
  BY <1>3
<1> HIDE DEF w
<1>6. w = [i \in FlightTimes |-> Cardinality(Aloft(log, m + 1, i))]
  BY <1>4, <1>5
<1> QED
  BY <1>6 DEF w

\* After m lines the vector holds the counts of the first m lines.
LEMMA AirCounts ==
  ASSUME NEW log, Chronological(log), NEW k \in Nat, Prefix(log, k)
  PROVE  \A m \in 0..k :
           Air(log)[1..m] = [i \in FlightTimes |-> Cardinality(Aloft(log, m, i))]
<1> DEFINE Tally(m) == [i \in FlightTimes |-> Cardinality(Aloft(log, m, i))]
           Bad == {m \in 0..k : Air(log)[1..m] # Tally(m)}
<1>1. /\ DOMAIN Measured(log) = 1..k /\ DOMAIN log = 1..Len(log) /\ Len(log) \in Nat
      /\ k <= Len(log) /\ \A i \in 1..k : Measured(log)[i] = log[i]
  BY FirstIsStart DEF Prefix
<1>2. Air(log)[1..0] = Tally(0)
  <2>1. Air(log)[{}] = Ground
    <3>1. {} \in SUBSET DOMAIN Measured(log)
      OBVIOUS
    <3> QED
      BY <3>1, AirRecurs
  <2>2. \A i \in FlightTimes : Cardinality(Aloft(log, 0, i)) = 0
    BY AloftStep
  <2>3. 1..0 = {}
    OBVIOUS
  <2> QED
    BY <2>1, <2>2, <2>3 DEF Ground
<1>3. ASSUME NEW m \in Nat, m + 1 \in 0..k, Air(log)[1..m] = Tally(m)
      PROVE  Air(log)[1..(m + 1)] = Tally(m + 1)
  <2>1. /\ 1..(m + 1) \in SUBSET DOMAIN Measured(log) /\ 1..(m + 1) # {}
        /\ m + 1 \in 1..k /\ m + 1 \in DOMAIN log
    BY <1>1, <1>3
  <2>2. Max(1..(m + 1)) = m + 1 /\ (1..(m + 1)) \ {m + 1} = 1..m
    <3>1. m + 1 \in Nat \ {0} /\ (m + 1) - 1 = m
      OBVIOUS
    <3> QED
      BY <3>1, MaxOfRange
  <2> DEFINE s == 1..(m + 1)
  <2>3. Air(log)[s] = TakeOff(log, Air(log)[s \ {Max(s)}], Measured(log)[Max(s)])
    <3> HIDE DEF s
    <3> QED
      BY <2>1, AirRecurs DEF s
  <2>4. Air(log)[s] = TakeOff(log, Tally(m), log[m + 1])
    BY <1>1, <1>3, <2>1, <2>2, <2>3
  <2> QED
    BY <2>1, <2>4, TakeOffCounts
<1> HIDE DEF Tally
<1>4. Bad = {}
  <2> SUFFICES ASSUME Bad # {} PROVE FALSE
    OBVIOUS
  <2>1. PICK m \in Bad : \A n \in Bad : m <= n
    <3>1. Bad \in SUBSET Nat
      OBVIOUS
    <3> HIDE DEF Bad
    <3> QED
      BY <3>1, Smallest
  <2>2. m # 0 /\ m - 1 \in Nat /\ (m - 1) + 1 = m /\ m - 1 \in 0..k /\ m \in 0..k
    BY <1>2, <2>1
  <2>3. Air(log)[1..(m - 1)] = Tally(m - 1)
    BY <2>1, <2>2
  <2>4. Air(log)[1..((m - 1) + 1)] = Tally((m - 1) + 1)
    BY <1>3, <2>2, <2>3
  <2> QED
    BY <2>1, <2>2, <2>4
<1> QED
  BY <1>4 DEF Tally

\* After the last of them it holds the admissions in flight.
LEMMA InflyCounts ==
  ASSUME NEW log, Chronological(log)
  PROVE  \A i \in FlightTimes : /\ Infly(log)[i] = Flying(log, i)
                                /\ Flying(log, i) \in Nat
<1>1. PICK k \in Nat : Prefix(log, k)
  BY MeasuredPrefix
<1>2. Infly(log) = [i \in FlightTimes |-> Cardinality(Aloft(log, k, i))]
  <2>1. k \in 0..k /\ DOMAIN Measured(log) = 1..k
    BY <1>1 DEF Prefix
  <2>2. Air(log)[1..k] = [i \in FlightTimes |-> Cardinality(Aloft(log, k, i))]
    BY <1>1, <2>1, AirCounts
  <2> QED
    BY <2>1, <2>2, InflyIsAir
<1>3. ASSUME NEW i \in FlightTimes PROVE Cardinality(Aloft(log, k, i)) = Flying(log, i)
  <2>1. Aloft(log, k, i) =
          {j \in DOMAIN log : /\ log[j].allowed /\ InTime(log, log[j])
                              /\ When(log, log[j]) <= i /\ i < When(log, log[j]) + Span}
    BY <1>1, FirstIsStart DEF Aloft, Prefix, Offset, When
  <2> QED
    BY <2>1 DEF Flying, Count
<1> QED
  BY <1>1, <1>2, <1>3, AloftStep

-------------------------------------------------------------------------------
(* Sums.                                                                   *)

Pick(s) == CHOOSE x \in s : TRUE

\* it sums f up over every subset of D.
Adds(it, f, D) ==
  it = [s \in SUBSET D |-> IF s = {} THEN 0 ELSE f[Pick(s)] + it[s \ {Pick(s)}]]

\* There is a function that sums f up.
LEMMA AddsExists ==
  ASSUME NEW D, IsFiniteSet(D), NEW f \in [D -> Nat]
  PROVE  \E it \in [SUBSET D -> Nat] : Adds(it, f, D)
<1> DEFINE c == [s \in SUBSET D |-> Pick(s)]
           F == [p \in (SUBSET D) \X Nat |-> IF p[1] = {} THEN 0 ELSE f[Pick(p[1])] + p[2]]
<1>1. \A s \in SUBSET D : s # {} => Pick(s) \in s /\ Pick(s) \in D
  BY DEF Pick
<1>2. \A s \in SUBSET D : s # {} => c[s] \in s
  BY <1>1
<1>3. F \in [(SUBSET D) \X Nat -> Nat]
  BY <1>1
<1>4. PICK it \in [SUBSET D -> Nat] : Recurs(it, D, 0, c, F)
  <2> HIDE DEF c, F
  <2> QED
    BY <1>2, <1>3, RecursionExists
<1>5. ASSUME NEW s \in SUBSET D, s # {}
      PROVE  F[<<s, it[s \ {c[s]}]>>] = f[Pick(s)] + it[s \ {Pick(s)}]
  <2>1. s \ {Pick(s)} \in SUBSET D /\ c[s] = Pick(s)
    OBVIOUS
  <2>2. it[s \ {Pick(s)}] \in Nat
    BY <2>1, <1>4
  <2> QED
    BY <1>5, <2>1, <2>2
<1>6. it = [s \in SUBSET D |-> IF s = {} THEN 0 ELSE f[Pick(s)] + it[s \ {Pick(s)}]]
  <2> HIDE DEF F, c
  <2> QED
    BY <1>4, <1>5 DEF Recurs
<1> QED
  BY <1>4, <1>6 DEF Adds

\* A sum of numbers is a number, is positive exactly when one of them is, and is
\* bounded by the bounds of its terms.
LEMMA SumFacts ==
  ASSUME NEW D, IsFiniteSet(D), NEW f \in [D -> Nat], NEW it, Adds(it, f, D)
  PROVE  /\ it[D] \in Nat
         /\ it[D] > 0 <=> \E x \in D : f[x] > 0
         /\ \A lo, hi \in Nat :
              (\A x \in D : lo <= f[x] /\ f[x] <= hi)
                => lo * Cardinality(D) <= it[D] /\ it[D] <= hi * Cardinality(D)
<1> DEFINE Good(s) ==
             /\ it[s] \in Nat
             /\ it[s] > 0 <=> \E x \in s : f[x] > 0
             /\ \A lo, hi \in Nat :
                  (\A x \in D : lo <= f[x] /\ f[x] <= hi)
                    => lo * Cardinality(s) <= it[s] /\ it[s] <= hi * Cardinality(s)
           Bad == {n \in Nat : \E s \in SUBSET D : Cardinality(s) = n /\ ~Good(s)}
<1>1. ASSUME NEW s \in SUBSET D, s = {} PROVE Good(s)
  <2>1. it[s] = 0
    BY <1>1 DEF Adds
  <2>2. Cardinality(s) = 0
    BY <1>1, FS_EmptySet
  <2>3. \A x \in Nat : x * 0 = 0
    OBVIOUS
  <2> QED
    BY <1>1, <2>1, <2>2, <2>3
<1>2. ASSUME NEW s \in SUBSET D, s # {}, Good(s \ {Pick(s)}) PROVE Good(s)
  <2> DEFINE x == Pick(s)
             r == s \ {x}
  <2>1. x \in s /\ x \in D /\ r \in SUBSET D
    BY <1>2 DEF Pick
  <2>2. it[s] = f[x] + it[r] /\ f[x] \in Nat
    BY <1>2, <2>1 DEF Adds
  <2>3. Cardinality(s) = Cardinality(r) + 1 /\ Cardinality(r) \in Nat
    <3>1. Cardinality(r) = Cardinality(s) - 1 /\ Cardinality(s) \in Nat
      BY <2>1, SubsetSize
    <3>2. Cardinality(r) \in Nat
      BY <2>1, SubsetSize
    <3> HIDE DEF r
    <3> QED
      BY <3>1, <3>2
  <2>4. s = r \cup {x}
    BY <2>1
  <2>5. Good(r)
    BY <1>2
  <2> HIDE DEF x, r
  <2>6. it[s] \in Nat
    BY <2>2, <2>5
  <2>7. it[s] > 0 <=> \E y \in s : f[y] > 0
    <3>1. \A y \in s : f[y] \in Nat
      OBVIOUS
    <3> QED
      BY <2>2, <2>4, <2>5, <3>1
  <2>8. ASSUME NEW lo \in Nat, NEW hi \in Nat, \A y \in D : lo <= f[y] /\ f[y] <= hi
        PROVE  lo * Cardinality(s) <= it[s] /\ it[s] <= hi * Cardinality(s)
    <3> DEFINE n == Cardinality(r)
    <3>1. lo * n <= it[r] /\ it[r] <= hi * n
      BY <2>5, <2>8
    <3>2. lo <= f[x] /\ f[x] <= hi
      BY <2>1, <2>8
    <3>3. n \in Nat /\ Cardinality(s) = n + 1
      BY <2>3
    <3> HIDE DEF n
    <3> DEFINE low == lo * n
               high == hi * n
    <3>4. /\ lo * (n + 1) = low + lo /\ hi * (n + 1) = high + hi
          /\ low \in Int /\ high \in Int
      BY <3>3
    <3>5. low <= it[r] /\ it[r] <= high
      BY <3>1
    <3> HIDE DEF low, high
    <3>6. low + lo <= it[s] /\ it[s] <= high + hi
      BY <2>2, <2>5, <3>2, <3>4, <3>5
    <3> QED
      BY <3>3, <3>4, <3>6
  <2> QED
    BY <2>6, <2>7, <2>8
<1> HIDE DEF Good
<1>3. Bad = {}
  <2> SUFFICES ASSUME Bad # {} PROVE FALSE
    OBVIOUS
  <2>1. PICK n \in Bad : \A m \in Bad : n <= m
    <3>1. Bad \in SUBSET Nat
      OBVIOUS
    <3> HIDE DEF Bad
    <3> QED
      BY <3>1, Smallest
  <2>2. PICK s \in SUBSET D : Cardinality(s) = n /\ ~Good(s)
    BY <2>1
  <2>3. s # {}
    BY <1>1, <2>2
  <2>4. Pick(s) \in s /\ s \ {Pick(s)} \in SUBSET D
    BY <2>3 DEF Pick
  <2>5. Cardinality(s \ {Pick(s)}) = n - 1
    BY <2>2, <2>4, SubsetSize
  <2>6. Cardinality(s \ {Pick(s)}) \in Nat /\ n \in Nat
    BY <2>1, <2>4, SubsetSize
  <2>7. n - 1 \notin Bad /\ n - 1 \in Nat
    BY <2>1, <2>5, <2>6
  <2>8. Good(s \ {Pick(s)})
    BY <2>4, <2>5, <2>7
  <2> QED
    BY <1>2, <2>2, <2>3, <2>8
<1>4. Good(D)
  <2>1. Cardinality(D) \in Nat
    BY FS_CardinalityType
  <2> QED
    BY <1>3, <2>1
<1> QED
  BY <1>4 DEF Good

\* A sum as the library folds it
LEMMA SumOnSet ==
  ASSUME NEW f, NEW D, IsFiniteSet(D), \A x \in D : f[x] \in Nat
  PROVE  /\ SumFunctionOnSet(f, D) \in Nat
         /\ \A lo, hi \in Nat :
              (\A x \in D : lo <= f[x] /\ f[x] <= hi)
                => /\ lo * Cardinality(D) <= SumFunctionOnSet(f, D)
                   /\ SumFunctionOnSet(f, D) <= hi * Cardinality(D)
<1> DEFINE Sum == CHOOSE it : Adds(it, f, D)
           g == [x \in D |-> f[x]]
<1>1. SumFunctionOnSet(f, D) = Sum[D]
  BY DEF SumFunctionOnSet, FoldFunctionOnSet, MapThenFoldSet, Adds, Pick
<1>2. \A it : Adds(it, g, D) <=> Adds(it, f, D)
  <2>1. \A s \in SUBSET D : s # {} => g[Pick(s)] = f[Pick(s)]
    BY DEF Pick
  <2> QED
    BY <2>1 DEF Adds
<1>3. g \in [D -> Nat]
  OBVIOUS
<1>4. \E it : Adds(it, f, D)
  <2> HIDE DEF g
  <2> QED
    BY <1>2, <1>3, AddsExists
<1>5. Adds(Sum, g, D)
  BY <1>2, <1>4
<1> HIDE DEF Sum
<1> QED
  BY <1>1, <1>3, <1>5, SumFacts

-------------------------------------------------------------------------------
(* The overflow.                                                           *)

\* The overflow is the sum of the excesses of the milliseconds after the warm-up.
LEMMA OverflowSums ==
  ASSUME NEW log, Chronological(log)
  PROVE  \E it : /\ Adds(it, [i \in WarmUp..(Duration - 1) |-> Excess(Flying(log, i))],
                         WarmUp..(Duration - 1))
                 /\ Overflow(log) = it[WarmUp..(Duration - 1)]
<1> DEFINE W == WarmUp..(Duration - 1)
           f == [i \in W |-> Excess(Infly(log)[i])]
           g == [i \in W |-> Excess(Flying(log, i))]
           Sum == CHOOSE it : it = [s \in SUBSET W |-> IF s = {} THEN 0
                                      ELSE Excess(Infly(log)[Pick(s)]) + it[s \ {Pick(s)}]]
<1>1. Overflow(log) = Sum[W]
  BY DEF Overflow, MapThenSumSet, MapThenFoldSet, Pick
<1>2. \A i \in W : i \in FlightTimes
  BY TimesAssumption DEF FlightTimes
<1>3. f = g
  BY <1>2, InflyCounts
<1>4. g \in [W -> Nat]
  <2>1. \A x \in Nat : Excess(x) \in Nat
    <3>1. ASSUME NEW x \in Nat PROVE Excess(x) \in Nat
      <4>1. CASE x > Capacity
        <5>1. x - Capacity \in Nat
          BY <4>1, TimesAssumption
        <5>2. \A y \in Nat : y * y \in Nat
          OBVIOUS
        <5> QED
          BY <5>1, <5>2 DEF Excess
      <4>2. CASE ~(x > Capacity)
        BY <4>2 DEF Excess
      <4> QED
        BY <4>1, <4>2
    <3> QED
      BY <3>1
  <2> QED
    BY <1>2, <2>1, InflyCounts
<1>5. IsFiniteSet(W)
  BY TimesAssumption, FS_Interval
<1>6. \A it : Adds(it, g, W) <=>
        it = [s \in SUBSET W |-> IF s = {} THEN 0
                ELSE Excess(Infly(log)[Pick(s)]) + it[s \ {Pick(s)}]]
  <2>1. \A s \in SUBSET W : s # {} => g[Pick(s)] = Excess(Infly(log)[Pick(s)])
    <3>1. \A s \in SUBSET W : s # {} => Pick(s) \in W
      BY DEF Pick
    <3> HIDE DEF W
    <3> QED
      BY <1>3, <3>1
  <2> HIDE DEF W, g
  <2> QED
    BY <2>1 DEF Adds
<1>7. \E it : Adds(it, g, W)
  <2> HIDE DEF g, W
  <2> QED
    BY <1>4, <1>5, AddsExists
<1>8. Adds(Sum, g, W)
  <2> HIDE DEF g, W
  <2> QED
    BY <1>6, <1>7
<1> QED
  BY <1>1, <1>8

LEMMA OverflowFacts ==
  ASSUME NEW log, Chronological(log)
  PROVE  /\ Overflow(log) \in Nat
         /\ Overflow(log) > 0 <=>
              \E i \in WarmUp..(Duration - 1) : Flying(log, i) > Capacity
<1> DEFINE W == WarmUp..(Duration - 1)
           g == [i \in W |-> Excess(Flying(log, i))]
<1>1. PICK it : Adds(it, g, W) /\ Overflow(log) = it[W]
  BY OverflowSums
<1>2. \A i \in W : Flying(log, i) \in Nat
  BY TimesAssumption, InflyCounts DEF FlightTimes
<1>3. ASSUME NEW x \in Nat
      PROVE  Excess(x) \in Nat /\ (Excess(x) > 0 <=> x > Capacity)
  <2>1. CASE x > Capacity
    <3>1. x - Capacity \in Nat \ {0}
      BY <2>1, TimesAssumption
    <3>2. \A y \in Nat \ {0} : y * y \in Nat /\ y * y > 0
      <4>1. ASSUME NEW y \in Nat \ {0} PROVE y * y \in Nat /\ y * y > 0
        OBVIOUS
      <4> QED
        BY <4>1
    <3> QED
      BY <2>1, <3>1, <3>2 DEF Excess
  <2>2. CASE ~(x > Capacity)
    BY <2>2 DEF Excess
  <2> QED
    BY <2>1, <2>2
<1>4. g \in [W -> Nat] /\ \A i \in W : g[i] > 0 <=> Flying(log, i) > Capacity
  BY <1>2, <1>3
<1>5. IsFiniteSet(W)
  BY TimesAssumption, FS_Interval
<1>6. it[W] \in Nat /\ (it[W] > 0 <=> \E i \in W : g[i] > 0)
  <2> HIDE DEF g, W
  <2> QED
    BY <1>1, <1>4, <1>5, SumFacts
<1> QED
  BY <1>1, <1>4, <1>6

\* No admission is counted outside the vector.
LEMMA FlightsFit ==
  ASSUME NEW log, Chronological(log), NEW l \in ToSet(Measured(log))
  PROVE  Offset(log, l) \in Nat /\ Offset(log, l) < Duration
<1>1. PICK k \in Nat : Prefix(log, k)
  BY MeasuredPrefix
<1>2. PICK i \in 1..k : l = log[i]
  BY <1>1 DEF ToSet, Prefix
<1>3. i \in DOMAIN log /\ InTime(log, log[i])
  BY <1>1, FirstIsStart DEF Prefix
<1>4. /\ First(log) = StartTime(log) /\ StartTime(log) \in Nat /\ log[i].ts \in Nat
      /\ StartTime(log) <= log[i].ts
  BY <1>3, FirstIsStart
<1> QED
  BY <1>2, <1>3, <1>4, TimesAssumption DEF InTime, Offset

-------------------------------------------------------------------------------
(* The users.                                                              *)

\* What MetricsAggregatorUser keeps while it runs through the lines
UserState ==
  [time : [Users -> Nat], closed : SUBSET Users,
   attempt1 : Nat, attempt2 : Nat, rejected : Nat]

\* A subtraction of timestamps that does not go below zero does not wrap around.
LEMMA WordRemainder ==
  ASSUME NEW x \in Int
  PROVE  x % Word \in Nat /\ (0 <= x /\ x <= MaxTime => x % Word = x)
<1>1. Word \in Nat \ {0} /\ Word > MaxTime /\ MaxTime \in Nat
  BY TimesAssumption
<1> DEFINE q == x \div Word
           r == x % Word
<1>2. q \in Int /\ r \in Nat /\ r < Word /\ x = Word * q + r
  <2>1. \A n \in Int, d \in Nat \ {0} :
          n \div d \in Int /\ n % d \in 0..(d - 1) /\ n = d * (n \div d) + (n % d)
    OBVIOUS
  <2> QED
    BY <1>1, <2>1
<1>3. ASSUME 0 <= x, x <= MaxTime PROVE r = x
  <2> HIDE DEF q, r
  <2>1. \A d \in Nat : Word * (d + 1) >= Word /\ Word * (-d - 1) <= -Word
    BY <1>1
  <2>2. q <= 0
    <3>1. SUFFICES ASSUME q > 0 PROVE FALSE
      BY <1>2
    <3>2. q - 1 \in Nat /\ (q - 1) + 1 = q
      BY <1>2, <3>1
    <3>3. Word * q >= Word
      BY <2>1, <3>2
    <3> DEFINE p == Word * q
    <3>4. p \in Int /\ p >= Word /\ x = p + r
      BY <1>1, <1>2, <3>3
    <3> HIDE DEF p
    <3> QED
      BY <1>1, <1>2, <1>3, <3>4
  <2>3. q >= 0
    <3>1. SUFFICES ASSUME q < 0 PROVE FALSE
      BY <1>2
    <3>2. -q - 1 \in Nat /\ -(-q - 1) - 1 = q
      BY <1>2, <3>1
    <3>3. Word * q <= -Word
      BY <2>1, <3>2
    <3> DEFINE p == Word * q
    <3>4. p \in Int /\ p <= -Word /\ x = p + r
      BY <1>1, <1>2, <3>3
    <3> HIDE DEF p
    <3> QED
      BY <1>1, <1>2, <1>3, <3>4
  <2>4. q = 0
    BY <1>2, <2>2, <2>3
  <2> QED
    BY <1>1, <1>2, <2>4
<1> QED
  BY <1>2, <1>3

\* What one line does to each field
LEMMA UserLineFields ==
  ASSUME NEW s \in UserState, NEW l \in LogLine
  PROVE  /\ UserLine(s, l) \in UserState
         /\ UserLine(s, l).closed = s.closed \cup (IF l.allowed THEN {l.user} ELSE {})
         /\ UserLine(s, l).attempt1 = s.attempt1 + (IF l.attempt = 1 THEN 1 ELSE 0)
         /\ UserLine(s, l).attempt2
              = s.attempt2 + (IF l.attempt = 2 /\ l.allowed THEN 1 ELSE 0)
         /\ UserLine(s, l).rejected
              = s.rejected + (IF l.attempt = 2 /\ ~l.allowed THEN 1 ELSE 0)
         /\ \A u \in Users : u # l.user => UserLine(s, l).time[u] = s.time[u]
         /\ LET began == IF l.attempt = 0 THEN l.ts ELSE s.time[l.user]
            IN  UserLine(s, l).time[l.user]
                  = IF l.allowed THEN (l.ts - began) % Word ELSE began
<1> DEFINE c == Counted(s, l)
           u == l.user
<1>1. /\ l.ts \in Nat /\ u \in Users /\ l.allowed \in BOOLEAN
      /\ l.attempt = 0 \/ l.attempt = 1 \/ l.attempt = 2
  BY DEF LogLine, Attempts
<1>2. /\ s.time \in [Users -> Nat] /\ s.closed \in SUBSET Users
      /\ s.attempt1 \in Nat /\ s.attempt2 \in Nat /\ s.rejected \in Nat
  BY DEF UserState
<1>3. /\ c \in UserState
      /\ c.closed = s.closed
      /\ c.attempt1 = s.attempt1 + (IF l.attempt = 1 THEN 1 ELSE 0)
      /\ c.attempt2 = s.attempt2 + (IF l.attempt = 2 /\ l.allowed THEN 1 ELSE 0)
      /\ c.rejected = s.rejected + (IF l.attempt = 2 /\ ~l.allowed THEN 1 ELSE 0)
      /\ c.time = IF l.attempt = 0 THEN [s.time EXCEPT ![u] = l.ts] ELSE s.time
  <2>1. CASE l.attempt = 0
    <3>1. c = [s EXCEPT !.time[u] = l.ts]
      BY <2>1 DEF Counted
    <3> QED
      BY <1>1, <1>2, <2>1, <3>1 DEF UserState
  <2>2. CASE l.attempt = 1
    <3>1. c = [s EXCEPT !.attempt1 = @ + 1]
      BY <2>2 DEF Counted
    <3> QED
      BY <1>1, <1>2, <2>2, <3>1 DEF UserState
  <2>3. CASE l.attempt = 2 /\ l.allowed
    <3>1. c = [s EXCEPT !.attempt2 = @ + 1]
      BY <2>3 DEF Counted
    <3> QED
      BY <1>1, <1>2, <2>3, <3>1 DEF UserState
  <2>4. CASE l.attempt = 2 /\ ~l.allowed
    <3>1. c = [s EXCEPT !.rejected = @ + 1]
      BY <2>4 DEF Counted
    <3> QED
      BY <1>1, <1>2, <2>4, <3>1 DEF UserState
  <2> QED
    BY <1>1, <2>1, <2>2, <2>3, <2>4
<1>4. /\ c.time \in [Users -> Nat]
      /\ c.time[u] = IF l.attempt = 0 THEN l.ts ELSE s.time[u]
      /\ \A v \in Users : v # u => c.time[v] = s.time[v]
  <2>1. c.time \in [Users -> Nat]
    BY <1>3 DEF UserState
  <2> HIDE DEF c
  <2> QED
    BY <1>1, <1>2, <1>3, <2>1
<1> HIDE DEF c
<1>5. CASE ~l.allowed
  BY <1>1, <1>3, <1>4, <1>5 DEF UserLine, c
<1>6. CASE l.allowed
  <2> DEFINE x == (l.ts - c.time[u]) % Word
  <2>1. UserLine(s, l) = [c EXCEPT !.closed = @ \cup {u}, !.time[u] = x]
    BY <1>6 DEF UserLine, Close, c
  <2>2. x \in Nat
    <3>1. l.ts - c.time[u] \in Int
      BY <1>1, <1>4
    <3> QED
      BY <3>1, WordRemainder
  <2> HIDE DEF x, u
  <2>3. /\ UserLine(s, l) \in UserState
        /\ UserLine(s, l).closed = c.closed \cup {u}
        /\ UserLine(s, l).attempt1 = c.attempt1
        /\ UserLine(s, l).attempt2 = c.attempt2
        /\ UserLine(s, l).rejected = c.rejected
        /\ UserLine(s, l).time = [c.time EXCEPT ![u] = x]
    <3>1. /\ c.closed \cup {u} \in SUBSET Users
          /\ [c.time EXCEPT ![u] = x] \in [Users -> Nat]
      BY <1>1, <1>2, <1>3, <1>4, <2>2
    <3>2. c = [time |-> c.time, closed |-> c.closed, attempt1 |-> c.attempt1,
               attempt2 |-> c.attempt2, rejected |-> c.rejected]
          /\ c.attempt1 \in Nat /\ c.attempt2 \in Nat /\ c.rejected \in Nat
      BY <1>3 DEF UserState
    <3>3. UserLine(s, l) = [time |-> [c.time EXCEPT ![u] = x], closed |-> c.closed \cup {u},
               attempt1 |-> c.attempt1, attempt2 |-> c.attempt2, rejected |-> c.rejected]
      BY <2>1, <3>2
    <3> QED
      BY <3>1, <3>2, <3>3 DEF UserState
  <2>4. /\ UserLine(s, l).time[u] = x
        /\ \A v \in Users : v # u => UserLine(s, l).time[v] = c.time[v]
    BY <1>1, <1>4, <2>3
  <2>5. x = (l.ts - (IF l.attempt = 0 THEN l.ts ELSE s.time[u])) % Word
    BY <1>4 DEF x
  <2>6. UserLine(s, l).time[u] = (l.ts - (IF l.attempt = 0 THEN l.ts ELSE s.time[u])) % Word
    BY <2>4, <2>5
  <2>7. \A v \in Users : v # u => UserLine(s, l).time[v] = s.time[v]
    BY <1>4, <2>4
  <2>8. UserLine(s, l).closed = s.closed \cup {u}
    BY <1>3, <2>3
  <2> QED
    BY <1>3, <1>6, <2>3, <2>6, <2>7, <2>8 DEF u
<1> QED
  BY <1>1, <1>5, <1>6

\* The function that FoldLeft defines for the users
Tally(log) ==
  CHOOSE it : it = [s \in SUBSET DOMAIN Measured(log) |->
    IF s = {} THEN UserStart ELSE UserLine(it[s \ {Max(s)}], Measured(log)[Max(s)])]

LEMMA StatsIsTally == ASSUME NEW log PROVE UserStats(log) = Tally(log)[DOMAIN Measured(log)]
  BY DEF UserStats, FoldLeft, MapThenFoldSet, Tally

LEMMA UserStartType == UserStart \in UserState
  BY DEF UserStart, UserState

\* It takes in the lines one after the other.
LEMMA TallyRecurs ==
  ASSUME NEW log, Chronological(log)
  PROVE  Tally(log) = [s \in SUBSET DOMAIN Measured(log) |->
           IF s = {} THEN UserStart
           ELSE UserLine(Tally(log)[s \ {Max(s)}], Measured(log)[Max(s)])]
<1>1. PICK k \in Nat : Prefix(log, k)
  BY MeasuredPrefix
<1> DEFINE M == Measured(log)
           D == 1..k
           F == [p \in D \X UserState |-> UserLine(p[2], M[p[1]])]
<1>2. DOMAIN M = D
  BY <1>1 DEF Prefix
<1>3. \A i \in D : M[i] \in LogLine
  BY <1>1 DEF Prefix
<1>5. F \in [D \X UserState -> UserState]
  <2> HIDE DEF M, D
  <2>1. ASSUME NEW p \in D \X UserState PROVE UserLine(p[2], M[p[1]]) \in UserState
    BY <1>3, UserLineFields
  <2> QED
    BY <2>1
<1>6. PICK it \in [SUBSET D -> UserState] : Folds(it, k, UserStart, F)
  <2>1. k \in Nat /\ F \in [(1..k) \X UserState -> UserState]
    BY <1>1, <1>5
  <2> HIDE DEF F
  <2> QED
    BY <2>1, FoldExists, UserStartType
<1>7. ASSUME NEW s \in SUBSET D, s # {}
      PROVE  F[<<Max(s), it[s \ {Max(s)}]>>] = UserLine(it[s \ {Max(s)}], M[Max(s)])
  <2>1. s \in SUBSET (0..k)
    OBVIOUS
  <2>2. Max(s) \in D
    BY <1>7, <2>1, MaxIsMember
  <2>3. it[s \ {Max(s)}] \in UserState
    BY <1>6
  <2> QED
    BY <2>2, <2>3
<1>8. it = [s \in SUBSET D |->
              IF s = {} THEN UserStart ELSE UserLine(it[s \ {Max(s)}], M[Max(s)])]
  <2> HIDE DEF F, D, M
  <2> QED
    BY <1>6, <1>7 DEF Folds, D
<1>9. it = [s \in SUBSET DOMAIN M |->
              IF s = {} THEN UserStart ELSE UserLine(it[s \ {Max(s)}], M[Max(s)])]
  BY <1>2, <1>8
<1> HIDE DEF F, D
<1> QED
  BY <1>9 DEF Tally

\* Of the first m lines, those of attempt a with a verdict of oks
Chosen(log, m, a, oks) == {j \in 1..m : log[j].attempt = a /\ log[j].allowed \in oks}

\* One more line adds itself to those of its attempt and verdict.
LEMMA ChosenStep ==
  ASSUME NEW log, NEW m \in Nat, NEW a, NEW oks
  PROVE  /\ Cardinality(Chosen(log, m, a, oks)) \in Nat
         /\ Cardinality(Chosen(log, m + 1, a, oks)) = Cardinality(Chosen(log, m, a, oks))
              + (IF log[m + 1].attempt = a /\ log[m + 1].allowed \in oks THEN 1 ELSE 0)
<1>2. m + 1 \notin Chosen(log, m, a, oks) /\ Chosen(log, m, a, oks) \subseteq 1..m
  BY DEF Chosen
<1>3. Chosen(log, m + 1, a, oks)
        = IF log[m + 1].attempt = a /\ log[m + 1].allowed \in oks
          THEN Chosen(log, m, a, oks) \cup {m + 1} ELSE Chosen(log, m, a, oks)
  BY DEF Chosen
<1>4. IsFiniteSet(Chosen(log, m, a, oks))
  <2>1. IsFiniteSet(1..m)
    BY FS_Interval
  <2> QED
    BY <1>2, <2>1, FS_Subset
<1>5. Cardinality(Chosen(log, m, a, oks)) \in Nat
  BY <1>4, FS_CardinalityType
<1>6. Cardinality(Chosen(log, m, a, oks) \cup {m + 1}) = Cardinality(Chosen(log, m, a, oks)) + 1
  BY <1>2, <1>4, FS_AddElement
<1> QED
  BY <1>3, <1>5, <1>6

\* The lines of a user are its attempts in turn, and only the last is admitted.
UserTurns(log) ==
  \A i, j \in DOMAIN log :
    log[i].user = log[j].user =>
      /\ log[i].attempt = log[j].attempt => i = j
      /\ log[i].attempt < log[j].attempt => log[i].ts < log[j].ts /\ ~log[i].allowed

\* The first attempt of a user and its admission, as its time tells them
Timed(log, m, time) ==
  \A i \in 1..m :
    log[i].attempt = 0 =>
      /\ (\A j \in 1..m : log[j].user = log[i].user => ~log[j].allowed)
           => time[log[i].user] = log[i].ts
      /\ \A j \in 1..m :
           log[j].user = log[i].user /\ log[j].allowed
             => time[log[i].user] = log[j].ts - log[i].ts

\* s is what the first m lines make of the maps and the counts.
Tallied(log, m, s) ==
  /\ s \in UserState
  /\ s.closed = {log[j].user : j \in {i \in 1..m : log[i].allowed}}
  /\ s.attempt1 = Cardinality(Chosen(log, m, 1, BOOLEAN))
  /\ s.attempt2 = Cardinality(Chosen(log, m, 2, {TRUE}))
  /\ s.rejected = Cardinality(Chosen(log, m, 2, {FALSE}))
  /\ UserTurns(log) => Timed(log, m, s.time)

LEMMA TalliedStart == ASSUME NEW log PROVE Tallied(log, 0, UserStart)
<1>1. ASSUME NEW a, NEW oks PROVE Cardinality(Chosen(log, 0, a, oks)) = 0
  <2>1. Chosen(log, 0, a, oks) = {}
    BY DEF Chosen
  <2> QED
    BY <2>1, FS_EmptySet
<1>2. 1..0 = {}
  OBVIOUS
<1>3. Timed(log, 0, UserStart.time)
  BY <1>2 DEF Timed
<1> QED
  BY <1>1, <1>2, <1>3, UserStartType DEF Tallied, UserStart

\* The earlier lines of the user of line n, in the order of the timestamps
LEMMA EarlierLines ==
  ASSUME NEW log, Chronological(log), UserTurns(log), NEW n \in DOMAIN log, NEW j \in 1..(n - 1),
         log[j].user = log[n].user
  PROVE  log[j].attempt < log[n].attempt /\ ~log[j].allowed
<1>1. n \in Nat /\ n \in 1..Len(log) /\ Len(log) \in Nat /\ DOMAIN log = 1..Len(log)
  BY FirstIsStart
<1>2. j \in DOMAIN log /\ j < n /\ j # n
  BY <1>1
<1>3. log[j].ts <= log[n].ts /\ log[j].ts \in Nat /\ log[n].ts \in Nat
  BY <1>2, FirstIsStart DEF Chronological
<1>4. log[j].attempt \in Attempts /\ log[n].attempt \in Attempts
  BY <1>2, LineTypes DEF Chronological
<1>5. log[j].attempt # log[n].attempt /\ ~(log[n].attempt < log[j].attempt)
  BY <1>2, <1>3 DEF UserTurns
<1>6. log[j].attempt < log[n].attempt
  BY <1>4, <1>5 DEF Attempts
<1> QED
  BY <1>2, <1>6 DEF UserTurns

\* What one line does to the maps and counts keeps them a tally of the lines so far.
LEMMA TalliedLine ==
  ASSUME NEW log, Chronological(log), NEW m \in Nat, m + 1 \in DOMAIN log,
         NEW s, Tallied(log, m, s)
  PROVE  Tallied(log, m + 1, UserLine(s, log[m + 1]))
<1> DEFINE l == log[m + 1]
           t == UserLine(s, l)
           u == l.user
<1>1. /\ l \in LogLine /\ l.ts \in 0..MaxTime /\ l.allowed \in BOOLEAN /\ u \in Users
      /\ l.attempt \in Attempts /\ MaxTime \in Nat
  BY LineTypes DEF Chronological
<1>2. s \in UserState
  BY DEF Tallied
<1>3. /\ t \in UserState
      /\ t.closed = s.closed \cup (IF l.allowed THEN {u} ELSE {})
      /\ t.attempt1 = s.attempt1 + (IF l.attempt = 1 THEN 1 ELSE 0)
      /\ t.attempt2 = s.attempt2 + (IF l.attempt = 2 /\ l.allowed THEN 1 ELSE 0)
      /\ t.rejected = s.rejected + (IF l.attempt = 2 /\ ~l.allowed THEN 1 ELSE 0)
      /\ \A v \in Users : v # u => t.time[v] = s.time[v]
      /\ LET began == IF l.attempt = 0 THEN l.ts ELSE s.time[u]
         IN  t.time[u] = IF l.allowed THEN (l.ts - began) % Word ELSE began
  <2> HIDE DEF l
  <2> QED
    BY <1>1, <1>2, UserLineFields
<1>4. \A j \in 1..m : j \in 1..(m + 1) /\ j \in DOMAIN log /\ j \in 1..((m + 1) - 1)
  BY FirstIsStart
<1>5. 1..(m + 1) = (1..m) \cup {m + 1} /\ m + 1 \notin 1..m
  OBVIOUS
<1>6. t.closed = {log[j].user : j \in {i \in 1..(m + 1) : log[i].allowed}}
  <2>1. s.closed = {log[j].user : j \in {i \in 1..m : log[i].allowed}}
    BY DEF Tallied
  <2> HIDE DEF t
  <2> QED
    BY <1>1, <1>3, <1>5, <2>1
<1>7. /\ t.attempt1 = Cardinality(Chosen(log, m + 1, 1, BOOLEAN))
      /\ t.attempt2 = Cardinality(Chosen(log, m + 1, 2, {TRUE}))
      /\ t.rejected = Cardinality(Chosen(log, m + 1, 2, {FALSE}))
  <2>1. /\ Cardinality(Chosen(log, m + 1, 1, BOOLEAN))
             = Cardinality(Chosen(log, m, 1, BOOLEAN)) + (IF l.attempt = 1 /\ l.allowed \in BOOLEAN THEN 1 ELSE 0)
        /\ Cardinality(Chosen(log, m + 1, 2, {TRUE}))
             = Cardinality(Chosen(log, m, 2, {TRUE})) + (IF l.attempt = 2 /\ l.allowed \in {TRUE} THEN 1 ELSE 0)
        /\ Cardinality(Chosen(log, m + 1, 2, {FALSE}))
             = Cardinality(Chosen(log, m, 2, {FALSE})) + (IF l.attempt = 2 /\ l.allowed \in {FALSE} THEN 1 ELSE 0)
    <3>1. ASSUME NEW a, NEW oks
          PROVE  Cardinality(Chosen(log, m + 1, a, oks))
                   = Cardinality(Chosen(log, m, a, oks)) + (IF l.attempt = a /\ l.allowed \in oks THEN 1 ELSE 0)
      BY ChosenStep
    <3> HIDE DEF l
    <3> QED
      BY <3>1
  <2>2. /\ s.attempt1 = Cardinality(Chosen(log, m, 1, BOOLEAN))
        /\ s.attempt2 = Cardinality(Chosen(log, m, 2, {TRUE}))
        /\ s.rejected = Cardinality(Chosen(log, m, 2, {FALSE}))
    BY DEF Tallied
  <2>3. (l.allowed \in {TRUE} <=> l.allowed) /\ (l.allowed \in {FALSE} <=> ~l.allowed)
    BY <1>1
  <2> HIDE DEF t, l
  <2> QED
    BY <1>1, <1>3, <2>1, <2>2, <2>3
<1>8. ASSUME UserTurns(log) PROVE Timed(log, m + 1, t.time)
  <2>1. Timed(log, m, s.time)
    BY <1>8 DEF Tallied
  <2>2. ASSUME NEW j \in 1..m, log[j].user = u
        PROVE  log[j].attempt < l.attempt /\ ~log[j].allowed
    <3>1. m + 1 \in DOMAIN log /\ j \in 1..((m + 1) - 1)
      BY <1>4
    <3> QED
      BY <1>8, <2>2, <3>1, EarlierLines
  <2>3. \A j \in 1..m : /\ log[j].ts \in 0..MaxTime /\ log[j].ts <= l.ts
                        /\ log[j].user \in Users /\ log[j].attempt \in Attempts
    <3>1. ASSUME NEW j \in 1..m
          PROVE  /\ log[j].ts \in 0..MaxTime /\ log[j].ts <= l.ts
                 /\ log[j].user \in Users /\ log[j].attempt \in Attempts
      <4>1. j \in DOMAIN log /\ j < m + 1
        BY <1>4
      <4> QED
        BY <4>1, LineTypes DEF Chronological
    <3> QED
      BY <3>1
  <2> SUFFICES ASSUME NEW i \in 1..(m + 1), log[i].attempt = 0
               PROVE  /\ (\A j \in 1..(m + 1) : log[j].user = log[i].user => ~log[j].allowed)
                           => t.time[log[i].user] = log[i].ts
                      /\ \A j \in 1..(m + 1) :
                           log[j].user = log[i].user /\ log[j].allowed
                             => t.time[log[i].user] = log[j].ts - log[i].ts
    BY DEF Timed
  <2>4. CASE i = m + 1
    \* The first attempt: no earlier line of the user can be.
    <3>1. \A j \in 1..m : log[j].user # u
      <4>1. ASSUME NEW j \in 1..m, log[j].user = u PROVE FALSE
        <5>1. log[j].attempt < 0 /\ log[j].attempt \in Attempts
          BY <2>2, <2>3, <2>4, <4>1
        <5> QED
          BY <5>1 DEF Attempts
      <4> QED
        BY <4>1
    <3>2. ASSUME l.allowed PROVE t.time[u] = 0
      <4>1. t.time[u] = (l.ts - l.ts) % Word /\ l.ts - l.ts = 0
        BY <1>1, <1>3, <2>4, <3>2
      <4>2. 0 % Word = 0
        BY <1>1, WordRemainder
      <4> QED
        BY <4>1, <4>2
    <3>3. ~l.allowed => t.time[u] = l.ts
      BY <1>3, <2>4
    <3>4. l.ts - l.ts = 0
      BY <1>1
    <3> HIDE DEF t
    <3> QED
      BY <1>5, <2>4, <3>1, <3>2, <3>3, <3>4
  <2>5. CASE i \in 1..m /\ log[i].user # u
    <3>1. t.time[log[i].user] = s.time[log[i].user]
      BY <1>3, <2>3, <2>5
    <3>2. \A j \in 1..(m + 1) : log[j].user = log[i].user => j \in 1..m
      BY <1>5, <2>5
    <3>3. \A j \in 1..m : j \in 1..(m + 1)
      BY <1>4
    <3> HIDE DEF t
    <3> QED
      BY <2>1, <2>5, <3>1, <3>2, <3>3 DEF Timed
  <2>6. CASE i \in 1..m /\ log[i].user = u
    <3>1. l.attempt # 0 /\ \A j \in 1..m : log[j].user = u => ~log[j].allowed
      <4>1. log[i].attempt < l.attempt
        BY <2>2, <2>6
      <4> QED
        BY <2>2, <4>1
    <3>2. s.time[u] = log[i].ts
      BY <2>1, <2>6, <3>1 DEF Timed
    <3>3. t.time[u] = IF l.allowed THEN (l.ts - log[i].ts) % Word ELSE log[i].ts
      BY <1>3, <3>1, <3>2
    <3>4. (l.ts - log[i].ts) % Word = l.ts - log[i].ts
      <4>1. /\ l.ts - log[i].ts \in Int /\ 0 <= l.ts - log[i].ts
            /\ l.ts - log[i].ts <= MaxTime
        BY <1>1, <2>3, <2>6
      <4> QED
        BY <4>1, WordRemainder
    <3> HIDE DEF t
    <3> QED
      BY <1>5, <2>6, <3>1, <3>3, <3>4
  <2> QED
    BY <1>5, <2>4, <2>5, <2>6
<1> QED
  BY <1>3, <1>6, <1>7, <1>8 DEF Tallied

\* After m lines the maps and counts are a tally of the first m lines.
LEMMA TallyHolds ==
  ASSUME NEW log, Chronological(log), NEW k \in Nat, Prefix(log, k)
  PROVE  \A m \in 0..k : Tallied(log, m, Tally(log)[1..m])
<1> DEFINE Bad == {m \in 0..k : ~Tallied(log, m, Tally(log)[1..m])}
<1>1. /\ DOMAIN Measured(log) = 1..k /\ DOMAIN log = 1..Len(log) /\ Len(log) \in Nat
      /\ k <= Len(log) /\ \A i \in 1..k : Measured(log)[i] = log[i]
  BY FirstIsStart DEF Prefix
<1>2. Tallied(log, 0, Tally(log)[1..0])
  <2>1. {} \in SUBSET DOMAIN Measured(log)
    OBVIOUS
  <2>2. Tally(log)[{}] = UserStart
    BY <2>1, TallyRecurs
  <2>3. 1..0 = {}
    OBVIOUS
  <2> QED
    BY <2>2, <2>3, TalliedStart
<1>3. ASSUME NEW m \in Nat, m + 1 \in 0..k, Tallied(log, m, Tally(log)[1..m])
      PROVE  Tallied(log, m + 1, Tally(log)[1..(m + 1)])
  <2>1. /\ 1..(m + 1) \in SUBSET DOMAIN Measured(log) /\ 1..(m + 1) # {}
        /\ m + 1 \in 1..k /\ m + 1 \in DOMAIN log
    <3>1. m + 1 \in 1..k /\ m + 1 \in DOMAIN log
      BY <1>1, <1>3
    <3>2. 1..(m + 1) \subseteq 1..k /\ 1..(m + 1) # {}
      BY <3>1
    <3> QED
      BY <1>1, <3>1, <3>2
  <2>2. Max(1..(m + 1)) = m + 1 /\ (1..(m + 1)) \ {m + 1} = 1..m
    <3>1. m + 1 \in Nat \ {0} /\ (m + 1) - 1 = m
      OBVIOUS
    <3> QED
      BY <3>1, MaxOfRange
  <2> DEFINE s == 1..(m + 1)
  <2>3. Tally(log)[s] = UserLine(Tally(log)[s \ {Max(s)}], Measured(log)[Max(s)])
    <3> HIDE DEF s
    <3> QED
      BY <2>1, TallyRecurs DEF s
  <2>4. Tally(log)[s] = UserLine(Tally(log)[1..m], log[m + 1])
    BY <1>1, <2>1, <2>2, <2>3
  <2> QED
    BY <1>3, <2>1, <2>4, TalliedLine
<1>4. Bad = {}
  <2> SUFFICES ASSUME Bad # {} PROVE FALSE
    OBVIOUS
  <2>1. PICK m \in Bad : \A n \in Bad : m <= n
    <3>1. Bad \in SUBSET Nat
      OBVIOUS
    <3> HIDE DEF Bad
    <3> QED
      BY <3>1, Smallest
  <2>2. m # 0 /\ m - 1 \in Nat /\ (m - 1) + 1 = m /\ m - 1 \in 0..k /\ m \in 0..k
    BY <1>2, <2>1
  <2>3. Tallied(log, m - 1, Tally(log)[1..(m - 1)])
    BY <2>1, <2>2
  <2>4. Tallied(log, (m - 1) + 1, Tally(log)[1..((m - 1) + 1)])
    BY <1>3, <2>2, <2>3
  <2> QED
    BY <2>1, <2>2, <2>4
<1> QED
  BY <1>4

\* After the last of them they are a tally of the lines in time.
LEMMA StatsTallied ==
  ASSUME NEW log, Chronological(log)
  PROVE  \E k \in Nat : Prefix(log, k) /\ Tallied(log, k, UserStats(log))
<1>1. PICK k \in Nat : Prefix(log, k)
  BY MeasuredPrefix
<1>2. k \in 0..k /\ DOMAIN Measured(log) = 1..k
  BY <1>1 DEF Prefix
<1>3. Tallied(log, k, Tally(log)[1..k])
  BY <1>1, <1>2, TallyHolds
<1> QED
  BY <1>1, <1>2, <1>3, StatsIsTally

\* No line comes twice, so that lines are counted by their places.
LEMMA LinesCounted ==
  ASSUME NEW log, Chronological(log), UserTurns(log), NEW k \in Nat, Prefix(log, k),
         NEW a, NEW oks
  PROVE  Cardinality({l \in ToSet(log) : InTime(log, l) /\ l.attempt = a /\ l.allowed \in oks})
           = Cardinality(Chosen(log, k, a, oks))
<1> DEFINE C == Chosen(log, k, a, oks)
           L == {l \in ToSet(log) : InTime(log, l) /\ l.attempt = a /\ l.allowed \in oks}
           f == [j \in C |-> log[j]]
<1>1. \A j \in C : j \in DOMAIN log /\ InTime(log, log[j])
  BY FirstIsStart DEF Chosen, Prefix
<1>2. \A j \in DOMAIN log : InTime(log, log[j]) => j \in 1..k
  BY FirstIsStart DEF Prefix
<1>3. f \in Bijection(C, L)
  <2>1. f \in [C -> L]
    BY <1>1 DEF ToSet, Chosen
  <2>2. \A i, j \in C : f[i] = f[j] => i = j
    BY <1>1 DEF UserTurns
  <2>3. \A l \in L : \E j \in C : f[j] = l
    BY <1>2 DEF ToSet, Chosen
  <2> HIDE DEF C, L, f
  <2> QED
    BY <2>1, <2>2, <2>3 DEF Bijection, Injection, Surjection, IsInjective
<1>4. IsFiniteSet(C)
  <2>1. IsFiniteSet(1..k) /\ C \subseteq 1..k
    BY FS_Interval DEF Chosen
  <2> QED
    BY <2>1, FS_Subset
<1> HIDE DEF C, L, f
<1>5. Cardinality(L) = Cardinality(C)
  BY <1>3, <1>4, FS_Bijection DEF ExistsBijection
<1> QED
  BY <1>5 DEF C, L

\* A journal that has been read is sorted and has the attempts of its users in turn.
Read == phase = "sorted" => Chronological(logs) /\ UserTurns(logs)

LEMMA RpsHolds == Read => RpsRight
<1> SUFFICES ASSUME Read, phase = "sorted",
                    NEW a \in Attempts, NEW i \in 0..(Duration - 1)
             PROVE  Rps(logs, a)[i] =
                      Count(logs, LAMBDA l : /\ l.attempt = a /\ InTime(logs, l)
                                             /\ When(logs, l) \in (i - Span + 1)..i)
  BY DEF RpsRight
<1>1. Chronological(logs)
  BY DEF Read
<1> QED
  BY <1>1, RpsCounts DEF Count, Recent

LEMMA FlightsHold == Read => FlightsRight
<1> SUFFICES ASSUME Read, phase = "sorted" PROVE FlightsRight
  BY DEF FlightsRight
<1>1. Chronological(logs)
  BY DEF Read
<1>2. \A l \in ToSet(Measured(logs)) :
        Offset(logs, l) >= 0 /\ Offset(logs, l) + Span - 1 < Duration + Span
  <2>1. ASSUME NEW l \in ToSet(Measured(logs))
        PROVE  Offset(logs, l) >= 0 /\ Offset(logs, l) + Span - 1 < Duration + Span
    <3>1. Offset(logs, l) \in Nat /\ Offset(logs, l) < Duration
      BY <1>1, <2>1, FlightsFit
    <3> QED
      BY <3>1, TimesAssumption
  <2> QED
    BY <2>1
<1>3. \A i \in 0..(Duration + Span - 1) : Infly(logs)[i] = Flying(logs, i)
  BY <1>1, InflyCounts DEF FlightTimes
<1>4. Overflow(logs) > 0 <=> \E i \in WarmUp..(Duration - 1) : Flying(logs, i) > Capacity
  BY <1>1, OverflowFacts
<1> QED
  BY <1>2, <1>3, <1>4 DEF FlightsRight

LEMMA UsersHold == Read => UsersRight
<1> SUFFICES ASSUME Read, phase = "sorted" PROVE UsersRight
  BY DEF UsersRight
<1> DEFINE s == UserStats(logs)
           lines == {l \in ToSet(logs) : InTime(logs, l)}
           Third(ok) == {l \in lines : l.attempt = LastAttempt /\ l.allowed = ok}
<1>1. Chronological(logs) /\ UserTurns(logs)
  BY DEF Read
<1>2. PICK k \in Nat : Prefix(logs, k) /\ Tallied(logs, k, s)
  BY <1>1, StatsTallied
<1>3. lines = {logs[j] : j \in 1..k} /\ \A j \in 1..k : j \in DOMAIN logs
  <2>1. DOMAIN logs = 1..Len(logs) /\ Len(logs) \in Nat /\ k \in 0..Len(logs)
        /\ \A i \in DOMAIN logs : i <= k <=> InTime(logs, logs[i])
    BY <1>1, <1>2, FirstIsStart DEF Prefix
  <2> QED
    BY <2>1 DEF ToSet
<1>4. s.closed = {l.user : l \in {m \in lines : m.allowed}}
  <2>1. s.closed = {logs[j].user : j \in {i \in 1..k : logs[i].allowed}}
    BY <1>2 DEF Tallied
  <2> HIDE DEF s, lines
  <2> QED
    BY <1>3, <2>1
<1>5. \A l, first \in lines :
        l.allowed /\ first.user = l.user /\ first.attempt = 0
          => s.time[l.user] = l.ts - first.ts
  <2>1. Timed(logs, k, s.time)
    BY <1>1, <1>2 DEF Tallied
  <2> HIDE DEF s, lines
  <2> QED
    BY <1>3, <2>1 DEF Timed
<1>6. /\ s.attempt1 = Cardinality(Chosen(logs, k, 1, BOOLEAN))
      /\ s.attempt2 = Cardinality(Chosen(logs, k, 2, {TRUE}))
      /\ s.rejected = Cardinality(Chosen(logs, k, 2, {FALSE}))
  BY <1>2 DEF Tallied
<1>7. \A a, oks :
        Cardinality({l \in ToSet(logs) : InTime(logs, l) /\ l.attempt = a /\ l.allowed \in oks})
          = Cardinality(Chosen(logs, k, a, oks))
  BY <1>1, <1>2, LinesCounted
<1>8. \A l \in lines : l.allowed \in BOOLEAN
  <2>1. \A j \in DOMAIN logs : logs[j].allowed \in BOOLEAN
    BY <1>1, LineTypes DEF Chronological
  <2> HIDE DEF lines
  <2> QED
    BY <1>3, <2>1
<1>9. s.attempt1 = Cardinality({l \in lines : l.attempt = 1})
  <2>1. {l \in ToSet(logs) : InTime(logs, l) /\ l.attempt = 1 /\ l.allowed \in BOOLEAN}
          = {l \in lines : l.attempt = 1}
    BY <1>8
  <2> QED
    BY <1>6, <1>7, <2>1
<1>10. s.attempt2 = Cardinality(Third(TRUE)) /\ s.rejected = Cardinality(Third(FALSE))
  <2>1. ASSUME NEW ok
        PROVE  {l \in ToSet(logs) : InTime(logs, l) /\ l.attempt = 2 /\ l.allowed \in {ok}}
                 = Third(ok)
    BY DEF LastAttempt
  <2>2. Cardinality(Third(TRUE)) = Cardinality(Chosen(logs, k, 2, {TRUE}))
    BY <1>7, <2>1
  <2>3. Cardinality(Third(FALSE)) = Cardinality(Chosen(logs, k, 2, {FALSE}))
    BY <1>7, <2>1
  <2> HIDE DEF s, Third
  <2> QED
    BY <1>6, <2>2, <2>3
<1> HIDE DEF s
<1> QED
  BY <1>4, <1>5, <1>9, <1>10 DEF UsersRight, s

-------------------------------------------------------------------------------
(* Sorting.                                                                *)

LEMMA RangeSize == \A n \in Nat : IsFiniteSet(1..n) /\ Cardinality(1..n) = n
<1> SUFFICES ASSUME NEW n \in Nat PROVE IsFiniteSet(1..n) /\ Cardinality(1..n) = n
  OBVIOUS
<1>1. IsFiniteSet(1..n) /\ Cardinality(1..n) = IF 1 > n THEN 0 ELSE n - 1 + 1
  BY FS_Interval
<1> QED
  BY <1>1

UpTo(v, i) == {j \in DOMAIN v : v[j] < v[i] \/ (v[j] = v[i] /\ j <= i)}

\* A rank is a place.
LEMMA RankRange ==
  ASSUME NEW v \in Seq(Nat), NEW i \in DOMAIN v
  PROVE  /\ Rank(v, i) = Cardinality(UpTo(v, i)) /\ IsFiniteSet(UpTo(v, i))
         /\ Rank(v, i) \in DOMAIN v
<1>1. DOMAIN v = 1..Len(v) /\ Len(v) \in Nat /\ v[i] \in Nat
  OBVIOUS
<1>2. UpTo(v, i) \subseteq 1..Len(v) /\ i \in UpTo(v, i)
  BY <1>1 DEF UpTo
<1>3. IsFiniteSet(1..Len(v)) /\ Cardinality(1..Len(v)) = Len(v)
  BY <1>1, RangeSize
<1>4. IsFiniteSet(UpTo(v, i)) /\ Cardinality(UpTo(v, i)) <= Len(v)
  BY <1>2, <1>3, FS_Subset
<1>5. Cardinality(UpTo(v, i)) \in Nat /\ Cardinality(UpTo(v, i)) # 0
  BY <1>2, <1>4, FS_CardinalityType, FS_EmptySet
<1>6. Cardinality(UpTo(v, i)) \in 1..Len(v)
  BY <1>1, <1>4, <1>5
<1> QED
  BY <1>1, <1>4, <1>6 DEF Rank, UpTo

\* The rank tells which of two places comes first.
LEMMA RankOrder ==
  ASSUME NEW v \in Seq(Nat), NEW i \in DOMAIN v, NEW j \in DOMAIN v,
         v[i] < v[j] \/ (v[i] = v[j] /\ i < j)
  PROVE  Rank(v, i) < Rank(v, j)
<1>1. \A n \in DOMAIN v : v[n] \in Nat /\ n \in Nat
  OBVIOUS
<1>2. UpTo(v, i) \subseteq UpTo(v, j) /\ j \in UpTo(v, j) /\ j \notin UpTo(v, i)
  BY <1>1 DEF UpTo
<1>3. /\ IsFiniteSet(UpTo(v, j)) /\ IsFiniteSet(UpTo(v, i))
      /\ Rank(v, i) = Cardinality(UpTo(v, i)) /\ Rank(v, j) = Cardinality(UpTo(v, j))
  BY RankRange
<1>4. /\ Cardinality(UpTo(v, i)) <= Cardinality(UpTo(v, j))
      /\ Cardinality(UpTo(v, i)) # Cardinality(UpTo(v, j))
  BY <1>2, <1>3, FS_Subset
<1>5. Rank(v, i) \in Nat /\ Rank(v, j) \in Nat
  BY <1>3, FS_CardinalityType
<1> QED
  BY <1>3, <1>4, <1>5

\* Every rank is taken, by one place.
LEMMA RankPlace ==
  ASSUME NEW v \in Seq(Nat), NEW k \in DOMAIN v
  PROVE  /\ \E i \in DOMAIN v : Rank(v, i) = k
         /\ \A i, j \in DOMAIN v : Rank(v, i) = Rank(v, j) => i = j
<1> DEFINE D == DOMAIN v
           r == [i \in D |-> Rank(v, i)]
<1>1. r \in [D -> D]
  BY RankRange
<1>2. \A i, j \in D : Rank(v, i) = Rank(v, j) => i = j
  <2> SUFFICES ASSUME NEW i \in D, NEW j \in D, Rank(v, i) = Rank(v, j) PROVE i = j
    OBVIOUS
  <2>1. v[i] \in Nat /\ v[j] \in Nat /\ i \in Nat /\ j \in Nat
    OBVIOUS
  <2>2. Rank(v, i) \in Nat /\ Rank(v, j) \in Nat
    BY RankRange
  <2>3. ~(v[i] < v[j] \/ (v[i] = v[j] /\ i < j))
    BY <2>2, RankOrder
  <2>4. ~(v[j] < v[i] \/ (v[j] = v[i] /\ j < i))
    BY <2>2, RankOrder
  <2> QED
    BY <2>1, <2>3, <2>4
<1>3. r \in Injection(D, D)
  BY <1>1, <1>2 DEF Injection, IsInjective
<1>4. IsFiniteSet(D)
  <2>1. D = 1..Len(v) /\ Len(v) \in Nat
    OBVIOUS
  <2> QED
    BY <2>1, FS_Interval
<1>5. r \in Surjection(D, D)
  <2> HIDE DEF r, D
  <2> QED
    BY <1>3, <1>4, FS_Injection
<1>6. \A d \in D : \E i \in D : r[i] = d
  <2> HIDE DEF r, D
  <2> QED
    BY <1>5 DEF Surjection
<1> QED
  BY <1>2, <1>6

\* The figures are rearranged, in ascending order.
LEMMA SortedFacts ==
  ASSUME NEW v \in Seq(Nat)
  PROVE  /\ Sorted(v) \in Seq(Nat) /\ Len(Sorted(v)) = Len(v) /\ Sorted(v) \in Rearranged(v)
         /\ \A i, j \in DOMAIN Sorted(v) : i < j => Sorted(v)[i] <= Sorted(v)[j]
<1> DEFINE D == DOMAIN v
           p == [k \in D |-> CHOOSE i \in D : Rank(v, i) = k]
<1>1. \A k \in D : p[k] \in D /\ Rank(v, p[k]) = k
  <2>1. ASSUME NEW k \in D PROVE p[k] \in D /\ Rank(v, p[k]) = k
    <3>1. \E i \in D : Rank(v, i) = k
      BY RankPlace
    <3> QED
      BY <3>1
  <2> QED
    BY <2>1
<1>2. Sorted(v) = [k \in D |-> v[p[k]]]
  BY DEF Sorted
<1>3. D = 1..Len(v) /\ Len(v) \in Nat /\ \A i \in D : v[i] \in Nat /\ i \in Nat
  OBVIOUS
<1>4. p \in Bijection(D, D)
  <2>1. p \in [D -> D]
    BY <1>1
  <2>2. \A i, j \in D : p[i] = p[j] => i = j
    BY <1>1
  <2>3. \A i \in D : p[Rank(v, i)] = i /\ Rank(v, i) \in D
    <3>1. ASSUME NEW i \in D PROVE p[Rank(v, i)] = i /\ Rank(v, i) \in D
      <4>1. Rank(v, i) \in D
        BY RankRange
      <4>2. p[Rank(v, i)] \in D /\ Rank(v, p[Rank(v, i)]) = Rank(v, i)
        BY <1>1, <4>1
      <4> HIDE DEF p
      <4> QED
        BY <4>1, <4>2, RankPlace
    <3> QED
      BY <3>1
  <2> HIDE DEF p, D
  <2> QED
    BY <2>1, <2>2, <2>3 DEF Bijection, Injection, Surjection, IsInjective
<1> HIDE DEF p
<1>5. Sorted(v) \in Seq(Nat) /\ Len(Sorted(v)) = Len(v) /\ DOMAIN Sorted(v) = D
  <2>1. Sorted(v) \in [1..Len(v) -> Nat]
    BY <1>1, <1>2, <1>3
  <2>2. \A n \in Nat : \A s \in [1..n -> Nat] : s \in Seq(Nat) /\ Len(s) = n
    OBVIOUS
  <2>3. Sorted(v) \in Seq(Nat) /\ Len(Sorted(v)) = Len(v)
    BY <1>3, <2>1, <2>2
  <2> QED
    BY <1>2, <2>3
<1>6. Sorted(v) \in Rearranged(v)
  BY <1>2, <1>4 DEF Rearranged
<1>7. \A i, j \in D : i < j => Sorted(v)[i] <= Sorted(v)[j]
  <2> SUFFICES ASSUME NEW i \in D, NEW j \in D, i < j, v[p[j]] < v[p[i]] PROVE FALSE
    BY <1>1, <1>2, <1>3
  <2>1. Rank(v, p[j]) < Rank(v, p[i])
    BY <1>1, RankOrder
  <2> QED
    BY <1>1, <1>3, <2>1
<1> QED
  BY <1>5, <1>6, <1>7

-------------------------------------------------------------------------------
(* The figures of a journal are numbers.                                   *)

LEMMA QuotientIsNat == \A x \in Nat, d \in Nat \ {0} : x \div d \in Nat
  OBVIOUS

\* The mean delay of a journal with a line in time is a number.
LEMMA DelayIsNat ==
  ASSUME NEW log, Chronological(log), NEW k \in Nat, Prefix(log, k), k # 0
  PROVE  Delay(log) \in Nat
<1> DEFINE M == Measured(log)
           D == DOMAIN M
           g == [i \in D |-> (M[i].ts - M[i].start) % Word]
           Sum == CHOOSE it : it = [s \in SUBSET D |-> IF s = {} THEN 0
                    ELSE ((M[Pick(s)].ts - M[Pick(s)].start) % Word) + it[s \ {Pick(s)}]]
<1>1. Delay(log) = (Parts * Sum[D]) \div Len(M)
  BY DEF Delay, MapThenSumSet, MapThenFoldSet, Pick
<1>2. D = 1..k /\ Len(M) = k /\ \A i \in D : M[i] \in LogLine
  BY DEF Prefix
<1>3. g \in [D -> Nat]
  <2>1. \A i \in D : M[i].ts - M[i].start \in Int
    BY <1>2 DEF LogLine
  <2>2. \A i \in D : (M[i].ts - M[i].start) % Word \in Nat
    BY <2>1, WordRemainder
  <2> QED
    BY <2>2
<1>4. IsFiniteSet(D)
  BY <1>2, FS_Interval
<1>5. \A it : Adds(it, g, D) <=>
        it = [s \in SUBSET D |-> IF s = {} THEN 0
                ELSE ((M[Pick(s)].ts - M[Pick(s)].start) % Word) + it[s \ {Pick(s)}]]
  <2>1. \A s \in SUBSET D : s # {} => g[Pick(s)] = (M[Pick(s)].ts - M[Pick(s)].start) % Word
    <3>1. \A s \in SUBSET D : s # {} => Pick(s) \in D
      BY DEF Pick
    <3> HIDE DEF D
    <3> QED
      BY <3>1
  <2> HIDE DEF D, g, M
  <2> QED
    BY <2>1 DEF Adds
<1>6. Adds(Sum, g, D)
  <2>1. \E it : Adds(it, g, D)
    <3> HIDE DEF g, D
    <3> QED
      BY <1>3, <1>4, AddsExists
  <2> HIDE DEF g, D, M
  <2> QED
    BY <1>5, <2>1
<1>7. Sum[D] \in Nat
  <2> HIDE DEF g, D, Sum
  <2> QED
    BY <1>3, <1>4, <1>6, SumFacts
<1>8. Parts * Sum[D] \in Nat
  <2> DEFINE x == Sum[D]
  <2>1. x \in Nat
    BY <1>7
  <2> HIDE DEF x
  <2>2. Parts * x \in Nat
    BY <2>1, JournalsAssumption
  <2> QED
    BY <2>2 DEF x
<1> HIDE DEF Sum
<1> QED
  BY <1>1, <1>2, <1>8, QuotientIsNat

\* No more users are closed than there are lines.
LEMMA ClosedIsFinite ==
  ASSUME NEW log, NEW k \in Nat, NEW s, Tallied(log, k, s)
  PROVE  IsFiniteSet(s.closed)
<1> DEFINE A == {i \in 1..k : log[i].allowed}
           f == [j \in A |-> log[j].user]
<1>1. IsFiniteSet(A)
  <2>1. IsFiniteSet(1..k)
    BY FS_Interval
  <2> QED
    BY <2>1, FS_Subset
<1>2. f \in Surjection(A, s.closed)
  <2>1. s.closed = {log[j].user : j \in A}
    BY DEF Tallied
  <2>2. f \in [A -> s.closed] /\ \A u \in s.closed : \E j \in A : f[j] = u
    BY <2>1
  <2> HIDE DEF f, A
  <2> QED
    BY <2>2 DEF Surjection
<1> HIDE DEF f, A
<1> QED
  BY <1>1, <1>2, FS_Surjection

\* The mean time is a number if a user is closed, which Collect requires.
LEMMA MeanTimeIsNat ==
  ASSUME NEW s \in UserState, IsFiniteSet(s.closed), s.closed # {}
  PROVE  MeanTime(s) \in Nat
<1>1. s.time \in [Users -> Nat] /\ s.closed \in SUBSET Users
  BY DEF UserState
<1>2. SumFunctionOnSet(s.time, s.closed) \in Nat
  <2>1. \A u \in s.closed : s.time[u] \in Nat
    BY <1>1
  <2> QED
    BY <2>1, SumOnSet
<1>3. Cardinality(s.closed) \in Nat \ {0}
  BY FS_CardinalityType, FS_EmptySet
<1>4. Parts * SumFunctionOnSet(s.time, s.closed) \in Nat
  BY <1>2, JournalsAssumption
<1> QED
  BY <1>3, <1>4, QuotientIsNat DEF MeanTime

LEMMA FiguresAreNat ==
  ASSUME NEW log, Chronological(log), UserStats(log).closed # {}
  PROVE  \A m \in Metrics : FigureOf(log)[m] \in Nat
<1> DEFINE s == UserStats(log)
<1>1. PICK k \in Nat : Prefix(log, k) /\ Tallied(log, k, s)
  BY StatsTallied
<1>2. s \in UserState /\ IsFiniteSet(s.closed)
  BY <1>1, ClosedIsFinite DEF Tallied
<1>3. k # 0
  <2>1. s.closed = {log[j].user : j \in {i \in 1..k : log[i].allowed}}
    BY <1>1 DEF Tallied
  <2>2. 1..0 = {}
    OBVIOUS
  <2> HIDE DEF s
  <2>3. SUFFICES ASSUME k = 0 PROVE s.closed = {}
    BY DEF s
  <2> QED
    BY <2>1, <2>2, <2>3
<1>4. Delay(log) \in Nat
  BY <1>1, <1>3, DelayIsNat
<1>5. Overflow(log) \in Nat
  BY OverflowFacts
<1>6. MeanTime(s) \in Nat
  BY <1>2, MeanTimeIsNat
<1>7. Parts * s.attempt1 \in Nat /\ Parts * s.attempt2 \in Nat /\ Parts * s.rejected \in Nat
  <2>1. s.attempt1 \in Nat /\ s.attempt2 \in Nat /\ s.rejected \in Nat /\ Parts \in Nat
    BY <1>2, JournalsAssumption DEF UserState
  <2>2. \A a, b \in Nat : a * b \in Nat
    OBVIOUS
  <2> QED
    BY <2>1, <2>2
<1> QED
  BY <1>4, <1>5, <1>6, <1>7 DEF FigureOf, Metrics

-------------------------------------------------------------------------------
(* The invariant.                                                          *)

\* Until it is sorted, a journal has the attempts of a user in turn.
InTurn(log) ==
  \A i, j \in DOMAIN log :
    i < j /\ log[i].user = log[j].user => log[i].attempt < log[j].attempt

Ascending(v) == \A i, j \in DOMAIN v : i < j => v[i] <= v[j]

\* A journal that is read has a line.
Begun == phase \in {"measured", "sorted"} => logs # <<>>

Turned == UserTurns(logs) /\ (phase = "measuring" => InTurn(logs))

\* Every metric has a figure of every journal collected.
Collected == \A m \in Metrics : Len(figures[m]) = Len(figures["delay"])

Ranked ==
  phase = "averaged" =>
    Len(figures["delay"]) = Journals /\ \A m \in Metrics : Ascending(figures[m])

IInv == TypeOK /\ Begun /\ Turned /\ Collected /\ Ranked

LEMMA InvInit == Init => IInv
<1> SUFFICES ASSUME Init PROVE IInv
  OBVIOUS
<1>1. logs = <<>> /\ DOMAIN logs = {} /\ logs \in Seq(LogLine) /\ phase = "measuring"
  BY DEF Init
<1>2. \A m \in Metrics : figures[m] = <<>> /\ "delay" \in Metrics
  BY DEF Init, Metrics
<1>3. figures \in [Metrics -> Seq(Nat)]
  BY DEF Init
<1> QED
  BY <1>1, <1>2, <1>3
  DEF IInv, TypeOK, Begun, Turned, Collected, Ranked, UserTurns, InTurn

\* The line logged is later than all of its user, of which none is admitted.
LEMMA InvAddLog == IInv /\ AddLog => IInv'
<1> SUFFICES ASSUME IInv, AddLog PROVE IInv'
  OBVIOUS
<1>1. PICK u \in Users, t \in 0..MaxTime, lag \in Lags, a \in Attempts, ok \in BOOLEAN :
        LET line == [ts |-> t, start |-> t - lag, allowed |-> ok, user |-> u, attempt |-> a]
        IN  line.start >= 0 /\ MayFollow(line) /\ logs' = Append(logs, line)
  BY DEF AddLog
<1> DEFINE line == [ts |-> t, start |-> t - lag, allowed |-> ok, user |-> u, attempt |-> a]
           n == Len(logs)
<1>2. t - lag >= 0 /\ MayFollow(line) /\ logs' = Append(logs, line)
  BY <1>1
<1>3. logs \in Seq(LogLine) /\ n \in Nat /\ DOMAIN logs = 1..n
  BY DEF IInv, TypeOK
<1>4. MaxTime \in Nat /\ RetryDelay \in Nat \ {0} /\ lag \in Nat /\ t \in Nat /\ t - lag \in Nat /\ t - lag <= t
  BY <1>2, TimesAssumption
<1>5. line \in LogLine
  BY <1>4 DEF LogLine
<1>6. phase = "measuring" /\ phase' = "measuring" /\ figures' = figures
  BY DEF AddLog
<1>7. UserTurns(logs) /\ InTurn(logs)
  BY <1>6 DEF IInv, Turned
<1>8. ASSUME NEW i \in 1..n, logs[i].user = u
      PROVE  logs[i].attempt < a /\ logs[i].ts < t /\ ~logs[i].allowed
  <2> DEFINE own == UserLines(logs, u)
             x == Max(own)
  <2>1. own \in SUBSET (0..n) /\ i \in own
    BY <1>3, <1>8 DEF UserLines
  <2>2. x \in own /\ x >= i
    <3> HIDE DEF own
    <3> QED
      BY <1>3, <2>1, MaxIsMember
  <2>3. x \in 1..n /\ logs[x].user = u
    BY <1>3, <2>2 DEF UserLines
  <2>4. ~logs[x].allowed /\ a = logs[x].attempt + 1 /\ t - lag >= logs[x].ts + RetryDelay
    BY <1>2, <2>1 DEF MayFollow
  <2> HIDE DEF x, own
  <2>5. logs[x].attempt \in Attempts /\ logs[x].ts \in Nat
    BY <1>3, <2>3, LineTypes
  <2>6. logs[i].attempt \in Attempts /\ logs[i].ts \in Nat
    BY <1>3, LineTypes
  <2>7. logs[x].ts < t /\ logs[x].attempt < a
    BY <1>4, <2>4, <2>5 DEF Attempts
  <2>8. CASE i = x
    BY <2>4, <2>7, <2>8
  <2>9. CASE i # x
    <3>1. i < x
      BY <2>2, <2>3, <2>9
    <3>2. logs[i].attempt < logs[x].attempt
      BY <1>3, <1>7, <1>8, <2>3, <3>1 DEF InTurn
    <3>3. logs[i].ts < logs[x].ts /\ ~logs[i].allowed
      BY <1>3, <1>7, <1>8, <2>3, <3>2 DEF UserTurns
    <3> QED
      BY <1>4, <2>5, <2>6, <2>7, <3>2, <3>3 DEF Attempts
  <2> QED
    BY <2>8, <2>9
<1> HIDE DEF n
<1>9. /\ DOMAIN logs' = 1..(n + 1) /\ logs' \in Seq(LogLine) /\ logs'[n + 1] = line
      /\ \A i \in 1..n : logs'[i] = logs[i]
  <2> HIDE DEF line
  <2> QED
    BY <1>2, <1>3, <1>5 DEF n
<1>10. \A i \in 1..(n + 1) : i = n + 1 \/ i \in 1..n
  BY <1>3
<1>11. \A i \in 1..n : i < n + 1 /\ ~(n + 1 < i)
  BY <1>3
<1>12. \A i \in 1..n : logs[i].attempt \in Attempts
  BY <1>3, LineTypes
<1>13. \A x, y \in Attempts : x < y => x # y /\ ~(y < x)
  BY DEF Attempts
<1>14. line.user = u /\ line.attempt = a /\ line.ts = t
  OBVIOUS
<1> HIDE DEF line
<1>15. InTurn(logs)'
  <2> SUFFICES ASSUME NEW i \in 1..(n + 1), NEW j \in 1..(n + 1), i < j, logs'[i].user = logs'[j].user
               PROVE  logs'[i].attempt < logs'[j].attempt
    BY <1>9 DEF InTurn
  <2>1. i \in 1..n
    BY <1>10, <1>11, <1>3
  <2>2. CASE j \in 1..n
    BY <1>3, <1>7, <1>9, <2>1, <2>2 DEF InTurn
  <2>3. CASE j = n + 1
    BY <1>8, <1>9, <1>14, <2>1, <2>3
  <2> QED
    BY <1>10, <2>2, <2>3
<1>16. UserTurns(logs)'
  <2> SUFFICES ASSUME NEW i \in 1..(n + 1), NEW j \in 1..(n + 1), logs'[i].user = logs'[j].user
               PROVE  /\ logs'[i].attempt = logs'[j].attempt => i = j
                      /\ logs'[i].attempt < logs'[j].attempt
                           => logs'[i].ts < logs'[j].ts /\ ~logs'[i].allowed
    BY <1>9 DEF UserTurns
  <2>1. CASE i \in 1..n /\ j \in 1..n
    BY <1>3, <1>7, <1>9, <2>1 DEF UserTurns
  <2>2. CASE i \in 1..n /\ j = n + 1
    BY <1>8, <1>9, <1>12, <1>13, <1>14, <2>2
  <2>3. CASE i = n + 1 /\ j \in 1..n
    BY <1>8, <1>9, <1>12, <1>13, <1>14, <2>3
  <2>4. CASE i = n + 1 /\ j = n + 1
    BY <1>9, <1>14, <2>4 DEF Attempts
  <2> QED
    BY <1>10, <2>1, <2>2, <2>3, <2>4
<1> QED
  BY <1>6, <1>9, <1>15, <1>16 DEF IInv, TypeOK, Begun, Turned, Collected, Ranked

LEMMA InvEndMeasurement == IInv /\ EndMeasurement => IInv'
BY DEF IInv, EndMeasurement, TypeOK, Begun, Turned, Collected, Ranked

\* Sorting keeps the lines, so the attempts of a user keep their timestamps.
LEMMA InvGetLogs == IInv /\ GetLogs => IInv'
<1> SUFFICES ASSUME IInv, GetLogs PROVE IInv'
  OBVIOUS
<1>1. logs' \in Rearranged(logs) /\ \A i, j \in DOMAIN logs' : i < j => ~Comes(logs'[j], logs'[i])
  BY DEF GetLogs
<1>2. PICK p \in Bijection(DOMAIN logs, DOMAIN logs) : logs' = [i \in DOMAIN logs |-> logs[p[i]]]
  BY <1>1 DEF Rearranged
<1> DEFINE D == DOMAIN logs
<1>3. logs \in Seq(LogLine) /\ Len(logs) \in Nat /\ D = 1..Len(logs) /\ logs # <<>> /\ UserTurns(logs)
  BY DEF IInv, TypeOK, Begun, Turned, GetLogs
<1>4. p \in [D -> D] /\ \A i, j \in D : p[i] = p[j] => i = j
  BY <1>2 DEF Bijection, Injection, IsInjective
<1>5. DOMAIN logs' = D /\ \A i \in D : logs'[i] = logs[p[i]] /\ logs[p[i]] \in LogLine
  BY <1>2, <1>3, <1>4
<1>6. logs' \in Seq(LogLine) /\ Len(logs') = Len(logs)
  <2>1. logs' \in [1..Len(logs) -> LogLine]
    BY <1>2, <1>3, <1>5
  <2>2. \A n \in Nat : \A s \in [1..n -> LogLine] : s \in Seq(LogLine) /\ Len(s) = n
    OBVIOUS
  <2> QED
    BY <1>3, <2>1, <2>2
<1>7. logs' # <<>>
  <2>1. Len(logs) # 0
    BY <1>3
  <2> QED
    BY <1>6, <2>1
<1>8. UserTurns(logs)'
  <2> SUFFICES ASSUME NEW i \in D, NEW j \in D, logs'[i].user = logs'[j].user
               PROVE  /\ logs'[i].attempt = logs'[j].attempt => i = j
                      /\ logs'[i].attempt < logs'[j].attempt
                           => logs'[i].ts < logs'[j].ts /\ ~logs'[i].allowed
    BY <1>5 DEF UserTurns
  <2>1. p[i] \in D /\ p[j] \in D /\ logs[p[i]].user = logs[p[j]].user
    BY <1>4, <1>5
  <2>2. /\ logs[p[i]].attempt = logs[p[j]].attempt => p[i] = p[j]
        /\ logs[p[i]].attempt < logs[p[j]].attempt
             => logs[p[i]].ts < logs[p[j]].ts /\ ~logs[p[i]].allowed
    BY <1>3, <2>1 DEF UserTurns
  <2> QED
    BY <1>4, <1>5, <2>2
<1>9. \A i, j \in DOMAIN logs' : i < j => logs'[i].ts <= logs'[j].ts
  <2> SUFFICES ASSUME NEW i \in D, NEW j \in D, i < j PROVE logs'[i].ts <= logs'[j].ts
    BY <1>5
  <2>1. ~(logs'[j].ts < logs'[i].ts)
    BY <1>1, <1>5 DEF Comes
  <2>2. logs'[j].ts \in Nat /\ logs'[i].ts \in Nat
    <3>1. logs'[i] \in LogLine /\ logs'[j] \in LogLine
      BY <1>5
    <3> QED
      BY <3>1, TimesAssumption DEF LogLine
  <2> QED
    BY <2>1, <2>2
<1> QED
  BY <1>6, <1>7, <1>8, <1>9 DEF IInv, TypeOK, Begun, Turned, Collected, Ranked, GetLogs

\* The figures of one more journal are numbers, one for each metric.
LEMMA Pushed ==
  ASSUME figures \in [Metrics -> Seq(Nat)], Collected, NEW figure, Push(figure),
         \A m \in Metrics : figure[m] \in Nat
  PROVE  /\ figures' \in [Metrics -> Seq(Nat)]
         /\ Collected'
<1>1. \A m \in Metrics : figures'[m] = Append(figures[m], figure[m])
  BY DEF Push
<1>2. \A m \in Metrics : Append(figures[m], figure[m]) \in Seq(Nat)
                         /\ Len(Append(figures[m], figure[m])) = Len(figures[m]) + 1
  OBVIOUS
<1>3. figures' = [m \in Metrics |-> Append(figures[m], figure[m])] /\ "delay" \in Metrics
  BY DEF Push, Metrics
<1> QED
  BY <1>1, <1>2, <1>3 DEF Collected

LEMMA InvCollect == IInv /\ Collect => IInv'
<1> SUFFICES ASSUME IInv, Collect PROVE IInv'
  OBVIOUS
<1>1. Chronological(logs)
  BY DEF IInv, TypeOK, Begun, Collect, Chronological
<1>2. \A m \in Metrics : FigureOf(logs)[m] \in Nat
  BY <1>1, FiguresAreNat DEF Collect
<1>3. figures' \in [Metrics -> Seq(Nat)] /\ Collected'
  <2> DEFINE f == FigureOf(logs)
  <2>1. Push(f) /\ figures \in [Metrics -> Seq(Nat)] /\ Collected /\ \A m \in Metrics : f[m] \in Nat
    BY <1>2 DEF IInv, TypeOK, Collect
  <2> HIDE DEF f
  <2> QED
    BY <2>1, Pushed
<1>4. logs' = <<>> /\ logs' \in Seq(LogLine) /\ DOMAIN logs' = {} /\ phase' = "collecting"
  BY DEF Collect
<1> QED
  BY <1>3, <1>4 DEF IInv, TypeOK, Begun, Turned, Ranked, UserTurns

LEMMA InvCollectOther == IInv /\ CollectOther => IInv'
<1> SUFFICES ASSUME IInv, CollectOther PROVE IInv'
  OBVIOUS
<1>1. PICK x \in Others : Push([m \in Metrics |-> x])
  BY DEF CollectOther
<1>2. figures' \in [Metrics -> Seq(Nat)] /\ Collected'
  <2> DEFINE f == [m \in Metrics |-> x]
  <2>1. Push(f) /\ figures \in [Metrics -> Seq(Nat)] /\ Collected /\ \A m \in Metrics : f[m] \in Nat
    BY <1>1, JournalsAssumption DEF IInv, TypeOK
  <2> HIDE DEF f
  <2> QED
    BY <2>1, Pushed
<1>3. logs' = logs /\ phase = "collecting" /\ phase' = "collecting"
  BY DEF CollectOther
<1> QED
  BY <1>2, <1>3 DEF IInv, TypeOK, Begun, Turned, Ranked

LEMMA InvAverage == IInv /\ Average => IInv'
<1> SUFFICES ASSUME IInv, Average PROVE IInv'
  OBVIOUS
<1>1. logs' = logs /\ phase = "collecting" /\ phase' = "averaged" /\ Len(figures["delay"]) = Journals
  BY DEF Average
<1>2. \A m \in Metrics : figures[m] \in Seq(Nat) /\ figures'[m] = Sorted(figures[m])
  BY DEF Average, IInv, TypeOK
<1>3. \A m \in Metrics : /\ figures'[m] \in Seq(Nat)
                         /\ Len(figures'[m]) = Len(figures[m])
                         /\ Ascending(figures'[m])
  <2> SUFFICES ASSUME NEW m \in Metrics
               PROVE  /\ figures'[m] \in Seq(Nat)
                      /\ Len(figures'[m]) = Len(figures[m])
                      /\ Ascending(figures'[m])
    OBVIOUS
  <2> DEFINE v == figures[m]
  <2>1. v \in Seq(Nat) /\ figures'[m] = Sorted(v)
    BY <1>2
  <2> HIDE DEF v
  <2>2. /\ Sorted(v) \in Seq(Nat) /\ Len(Sorted(v)) = Len(v)
        /\ \A i, j \in DOMAIN Sorted(v) : i < j => Sorted(v)[i] <= Sorted(v)[j]
    BY <2>1, SortedFacts
  <2> QED
    BY <2>1, <2>2 DEF Ascending, v
<1>4. figures' \in [Metrics -> Seq(Nat)]
  <2>1. figures' = [m \in Metrics |-> figures'[m]]
    BY DEF Average
  <2> QED
    BY <1>3, <2>1
<1>5. Collected' /\ Len(figures'["delay"]) = Journals
  BY <1>1, <1>3 DEF IInv, Collected, Metrics
<1> QED
  BY <1>1, <1>3, <1>4, <1>5 DEF IInv, TypeOK, Begun, Turned, Ranked

LEMMA Invariance == Spec => []IInv
<1>1. IInv /\ UNCHANGED vars => IInv'
  BY DEF vars, IInv, TypeOK, Begun, Turned, Collected, Ranked, InTurn, UserTurns, Ascending
<1>2. IInv /\ [Next]_vars => IInv'
  BY <1>1, InvAddLog, InvEndMeasurement, InvGetLogs, InvCollect, InvCollectOther, InvAverage
  DEF Next
<1> QED
  BY <1>2, InvInit, PTL DEF Spec

-------------------------------------------------------------------------------
(* The means.                                                              *)

\* A quotient is where its dividend is, in multiples of the divisor.
LEMMA QuotientBounds ==
  ASSUME NEW x \in Nat, NEW d \in Nat \ {0}, NEW lo \in Nat, NEW hi \in Nat,
         lo * d <= x, x <= hi * d
  PROVE  lo <= x \div d /\ x \div d <= hi
<1> DEFINE q == x \div d
           r == x % d
<1>1. q \in Nat /\ r \in Nat /\ r < d /\ x = d * q + r
  OBVIOUS
<1> HIDE DEF q, r
<1>2. \A a, b \in Nat : a < b => a * d + d <= b * d
  <2> SUFFICES ASSUME NEW a \in Nat, NEW b \in Nat, a < b PROVE a * d + d <= b * d
    OBVIOUS
  <2>1. (b - a - 1) \in Nat /\ (b - a - 1) * d >= 0
    OBVIOUS
  <2>2. (b - a - 1) * d = b * d - a * d - d
    OBVIOUS
  <2> QED
    BY <2>1, <2>2
<1>3. d * q = q * d /\ q * d \in Nat /\ lo * d \in Nat /\ hi * d \in Nat
  BY <1>1
<1>4. ~(q < lo)
  <2> SUFFICES ASSUME q < lo PROVE FALSE
    OBVIOUS
  <2>1. q * d + d <= lo * d
    BY <1>1, <1>2
  <2> QED
    BY <1>1, <1>3, <2>1
<1>5. ~(hi < q)
  <2> SUFFICES ASSUME hi < q PROVE FALSE
    OBVIOUS
  <2>1. hi * d + d <= q * d
    BY <1>1, <1>2
  <2> QED
    BY <1>1, <1>3, <2>1
<1>6. lo <= q /\ q <= hi
  BY <1>1, <1>4, <1>5
<1> QED
  BY <1>6 DEF q

LEMMA PlacesAreFinite ==
  \A a, b \in Nat : IsFiniteSet(a..b) /\ Cardinality(a..b) = IF a > b THEN 0 ELSE b - a + 1
BY FS_Interval

\* Of ascending figures all but two of which are in a range, the two lowest and
\* the two highest aside, none is outside: with it, two more would be.
LEMMA KeptInRange ==
  ASSUME NEW v \in Seq(Nat), Ascending(v), Len(v) = Journals, NEW lo \in Nat, NEW hi \in Nat,
         Cardinality({i \in DOMAIN v : v[i] \in lo..hi}) >= Journals - 2
  PROVE  \A k \in Kept : lo <= v[k] /\ v[k] <= hi
<1> DEFINE In == {i \in DOMAIN v : v[i] \in lo..hi}
<1>1. Journals \in Nat /\ Journals > 4 /\ DOMAIN v = 1..Journals
  BY JournalsAssumption
<1>2. \A i \in DOMAIN v : v[i] \in Nat /\ i \in Nat
  OBVIOUS
<1>3. ASSUME NEW a \in Nat, NEW b \in Nat, b - a + 1 = Journals - 3, In \subseteq a..b
      PROVE  FALSE
  <2>1. IsFiniteSet(a..b) /\ Cardinality(a..b) = Journals - 3
    <3>1. IsFiniteSet(a..b) /\ Cardinality(a..b) = IF a > b THEN 0 ELSE b - a + 1
      BY PlacesAreFinite
    <3>2. ~(a > b)
      BY <1>1, <1>3
    <3> QED
      BY <1>3, <3>1, <3>2
  <2>2. IsFiniteSet(In) /\ Cardinality(In) <= Cardinality(a..b)
    BY <1>3, <2>1, FS_Subset
  <2>3. Cardinality(In) \in Nat
    BY <2>2, FS_CardinalityType
  <2> QED
    BY <1>1, <2>1, <2>2, <2>3
<1> SUFFICES ASSUME NEW k \in Kept, ~(lo <= v[k] /\ v[k] <= hi) PROVE FALSE
  OBVIOUS
<1>4. k \in DOMAIN v /\ k \in Nat /\ k >= 3 /\ k <= Journals - 2
  BY <1>1 DEF Kept
<1>5. CASE v[k] < lo
  <2>1. ASSUME NEW i \in In PROVE i \in 4..Journals
    <3>1. i \in Nat /\ i <= Journals /\ v[i] \in Nat /\ lo <= v[i] /\ v[k] \in Nat /\ i \in DOMAIN v
      BY <1>1, <1>2, <1>4
    <3>2. i # k /\ ~(i < k)
      <4>1. i < k => v[i] <= v[k]
        BY <1>4, <3>1 DEF Ascending
      <4> QED
        BY <1>5, <3>1, <4>1
    <3> QED
      BY <1>1, <1>4, <3>1, <3>2
  <2>2. Journals - 4 + 1 = Journals - 3
    BY <1>1
  <2> QED
    BY <1>1, <1>3, <2>1, <2>2
<1>6. CASE hi < v[k]
  <2>1. ASSUME NEW i \in In PROVE i \in 1..(Journals - 3)
    <3>1. i \in Nat /\ i >= 1 /\ v[i] \in Nat /\ v[i] <= hi /\ v[k] \in Nat /\ i \in DOMAIN v
      BY <1>1, <1>2, <1>4
    <3>2. i # k /\ ~(k < i)
      <4>1. k < i => v[k] <= v[i]
        BY <1>4, <3>1 DEF Ascending
      <4> QED
        BY <1>6, <3>1, <4>1
    <3> QED
      BY <1>1, <1>4, <3>1, <3>2
  <2>2. Journals - 3 \in Nat /\ Journals - 3 - 1 + 1 = Journals - 3
    BY <1>1
  <2> QED
    BY <1>1, <1>3, <2>1, <2>2
<1>7. v[k] \in Nat
  BY <1>2, <1>4
<1> QED
  BY <1>5, <1>6, <1>7

\* The mean of the figures kept is where they are.
LEMMA MeanInRange ==
  ASSUME NEW v \in Seq(Nat), Len(v) = Journals, NEW lo \in Nat, NEW hi \in Nat,
         \A k \in Kept : lo <= v[k] /\ v[k] <= hi
  PROVE  /\ SumFunctionOnSet(v, Kept) \div (Journals - 4) \in Nat
         /\ lo <= SumFunctionOnSet(v, Kept) \div (Journals - 4)
         /\ SumFunctionOnSet(v, Kept) \div (Journals - 4) <= hi
<1>1. Journals \in Nat /\ Journals > 4 /\ Journals - 4 \in Nat \ {0} /\ Journals - 2 \in Nat
  BY JournalsAssumption
<1>2. IsFiniteSet(Kept) /\ Cardinality(Kept) = Journals - 4
  <2>1. Kept = 3..(Journals - 2) /\ 3 \in Nat
    BY DEF Kept
  <2>2. /\ IsFiniteSet(3..(Journals - 2))
        /\ Cardinality(3..(Journals - 2)) =
             IF 3 > Journals - 2 THEN 0 ELSE Journals - 2 - 3 + 1
    BY <1>1, PlacesAreFinite
  <2> QED
    BY <1>1, <2>1, <2>2
<1>3. \A k \in Kept : v[k] \in Nat
  BY <1>1 DEF Kept
<1> DEFINE S == SumFunctionOnSet(v, Kept)
<1>4. S \in Nat /\ lo * (Journals - 4) <= S /\ S <= hi * (Journals - 4)
  BY <1>2, <1>3, SumOnSet
<1> HIDE DEF S
<1>5. S \div (Journals - 4) \in Nat /\ lo <= S \div (Journals - 4) /\ S \div (Journals - 4) <= hi
  BY <1>1, <1>4, QuotientBounds, QuotientIsNat
<1> QED
  BY <1>5 DEF S

LEMMA MeanHolds == IInv => MeanIsRobust
<1> SUFFICES ASSUME IInv, phase = "averaged", NEW m \in Metrics
             PROVE  LET v == figures[m]
                        AtLeast(n, S) == Cardinality({i \in DOMAIN v : v[i] \in S}) >= n
                    IN  /\ \A lo, hi \in ToSet(v) :
                             AtLeast(Journals - 2, lo..hi) => Mean(m) \in lo..hi
                        /\ Spread(m) >= 0
                        /\ AtLeast(Journals - 2, 0..(Mean(m) + Spread(m)))
  BY DEF MeanIsRobust
<1> DEFINE v == figures[m]
           mean == SumFunctionOnSet(v, Kept) \div (Journals - 4)
<1>1. v \in Seq(Nat) /\ Len(v) = Journals /\ Ascending(v)
  BY DEF IInv, TypeOK, Ranked, Collected
<1>2. Mean(m) = mean /\ Spread(m) = v[Journals - 2] - mean
  BY DEF Mean, Spread
<1>3. Journals \in Nat /\ Journals > 4 /\ Journals - 2 \in 1..Journals /\ DOMAIN v = 1..Journals
  BY <1>1, JournalsAssumption
<1>4. \A i \in 1..Journals : v[i] \in Nat /\ i \in Nat
  BY <1>1, <1>3
<1> DEFINE top == v[Journals - 2]
<1>5. top \in Nat /\ 0 \in Nat
  BY <1>3, <1>4
<1>6. ASSUME NEW lo \in ToSet(v), NEW hi \in ToSet(v),
             Cardinality({i \in DOMAIN v : v[i] \in lo..hi}) >= Journals - 2
      PROVE  mean \in lo..hi
  <2>1. lo \in Nat /\ hi \in Nat
    BY <1>3, <1>4 DEF ToSet
  <2> HIDE DEF v
  <2>2. \A k \in Kept : lo <= v[k] /\ v[k] <= hi
    BY <1>1, <1>6, <2>1, KeptInRange
  <2>3. mean \in Nat /\ lo <= mean /\ mean <= hi
    BY <1>1, <2>1, <2>2, MeanInRange
  <2> HIDE DEF mean
  <2> QED
    BY <2>1, <2>3
<1>7. \A i \in 1..(Journals - 2) : v[i] \in 0..top
  <2> SUFFICES ASSUME NEW i \in 1..(Journals - 2) PROVE v[i] \in 0..top
    OBVIOUS
  <2>1. i \in 1..Journals /\ (i = Journals - 2 \/ i < Journals - 2)
    BY <1>3
  <2>2. v[i] \in Nat /\ (i < Journals - 2 => v[i] <= top)
    BY <1>1, <1>3, <1>4, <2>1 DEF Ascending
  <2>3. v[i] \in Nat /\ v[i] <= top
    BY <1>5, <2>1, <2>2
  <2> HIDE DEF v, top
  <2> QED
    BY <1>5, <2>3
<1>8. mean \in Nat /\ mean <= top
  <2>1. \A k \in Kept : 0 <= v[k] /\ v[k] <= top
    <3>1. \A k \in Kept : k \in 1..(Journals - 2)
      BY <1>3 DEF Kept
    <3> HIDE DEF v, top
    <3> QED
      BY <1>5, <1>7, <3>1
  <2> HIDE DEF v, top
  <2> QED
    BY <1>1, <1>5, <2>1, MeanInRange
<1>9. Cardinality({i \in DOMAIN v : v[i] \in 0..top}) >= Journals - 2
  <2> DEFINE low == {i \in DOMAIN v : v[i] \in 0..top}
  <2>1. 1..(Journals - 2) \subseteq low /\ low \subseteq 1..Journals
    BY <1>3, <1>7
  <2> HIDE DEF low
  <2>2. Journals - 2 \in Nat /\ IsFiniteSet(1..Journals) /\ Cardinality(1..(Journals - 2)) = Journals - 2
    BY <1>3, RangeSize
  <2>3. IsFiniteSet(low) /\ Cardinality(1..(Journals - 2)) <= Cardinality(low)
    BY <2>1, <2>2, FS_Subset
  <2>4. Cardinality(low) \in Nat
    BY <2>3, FS_CardinalityType
  <2>5. Cardinality(low) >= Journals - 2
    BY <2>2, <2>3, <2>4
  <2> QED
    BY <2>5 DEF low
<1> HIDE DEF mean
<1>10. Spread(m) >= 0 /\ mean + Spread(m) = top
  <2>1. Spread(m) = top - mean
    BY <1>2
  <2> HIDE DEF top
  <2> QED
    BY <1>5, <1>8, <2>1
<1> QED
  BY <1>2, <1>6, <1>9, <1>10

-------------------------------------------------------------------------------
(* The theorems.                                                           *)

\* The journal holds lines a measurement can log, sorted by timestamp once an
\* aggregator has read it, and every figure collected is a number.
THEOREM TypeCorrect == Spec => []TypeOK
<1>1. IInv => TypeOK
  BY DEF IInv
<1> QED
  BY <1>1, Invariance, PTL

LEMMA InvRead == IInv => Read
BY DEF IInv, TypeOK, Begun, Turned, Read, Chronological

\* MetricsAggregatorRPS: however many lines a journal has and however they tie,
\* the sliding sum is at every millisecond of the duration the number of
\* responses to an attempt in the last Span milliseconds.
THEOREM RpsCorrect == Spec => []RpsRight
BY Invariance, InvRead, RpsHolds, PTL

\* MetricsAggregatorInfly and its overflow: the vector counts the admissions in
\* flight, no line is counted outside of it, and the overflow is positive exactly
\* when more than the capacity are in flight at some millisecond after the warm-up.
THEOREM FlightsCorrect == Spec => []FlightsRight
BY Invariance, InvRead, FlightsHold, PTL

\* MetricsAggregatorUser: one pass over the sorted journal closes exactly the
\* users admitted within the duration, each with the time from its first
\* response to its admission, and counts the attempts; no subtraction of
\* timestamps wraps around.
THEOREM UsersCorrect == Spec => []UsersRight
BY Invariance, InvRead, UsersHold, PTL

\* main.cpp: however many journals are averaged, two failed measurements spoil
\* no mean, and at most two journals lie above the mean and its spread.
THEOREM MeanCorrect == Spec => []MeanIsRobust
BY Invariance, MeanHolds, PTL

===============================================================================
