-------------------------- MODULE SystemClock_proofs --------------------------
(***************************************************************************)
(* Theorems about the programs that read the system clock from one thread: *)
(* SimpleBuckets, in which no stretch of time admits more than its         *)
(* allowance, and Pacing, which sends the requests of every entry of the   *)
(* workload evenly over a slot of its own.  They hold for any capacity,    *)
(* rate, period, slot and workload, and any number of times the clock is   *)
(* set back.                                                               *)
(***************************************************************************)
EXTENDS SimpleBuckets, Pacing, FiniteSetTheorems, TLAPS

\* The clock, however often it was set back, is not ahead of the real time, and
\* no admission is from the future.
Past == now <= Start + elapsed /\ \A i \in DOMAIN admitted : admitted[i] <= elapsed

Typed == TypeOK /\ Past

\* The last refill was made at the real time e, when the clock had been set back
\* s times; unless it was again since, it shows the time that passed.
Linked(e, s) ==
  /\ e <= elapsed /\ s <= setBacks
  /\ s = setBacks => now - lastRefill = elapsed - e

\* m is the sum of what was admitted from some time on and what may be admitted
\* still: a window for each of a renewals since then and one for the window that
\* was open.  Renewals come RefillTime apart unless the clock is set back.
WindowFill(e, s, from, m) ==
  IF from <= e
  THEN \E a \in Int : /\ m <= TokensToAdd * (1 + a)
                      /\ RefillTime * (a - 1 - s) <= e - from
  ELSE m <= TokensToAdd

\* The same of the bucket, in parts of a token: it is refilled by every call, so
\* nothing was admitted after the last refill.
BucketFill(e, s, from, n, m) ==
  IF from <= e
  THEN m <= RefillRate * (e - from) + Unit * MaxCapacity * (1 + s)
  ELSE n = 0

Fill(e, s, from, n, t) ==
  IF algorithm = "FixedWindow"
  THEN WindowFill(e, s, from, n + t)
  ELSE BucketFill(e, s, from, n, Unit * n + t)

Filling ==
  \E e, s \in Nat :
    Linked(e, s) /\ \A from \in Nat : Fill(e, s, from, Cardinality(GivenFrom(from)), tokens)

-------------------------------------------------------------------------------
(* Products and quotients.                                                 *)

LEMMA Distribute ==
  ASSUME NEW r \in Int, NEW x \in Int
  PROVE  r * (x + 1) = r * x + r /\ r * x \in Int
OBVIOUS

LEMMA ProductOrder ==
  ASSUME NEW r \in Nat, NEW x \in Int, NEW y \in Int, x <= y
  PROVE  r * x <= r * y /\ r * x \in Int /\ r * y \in Int
<1>1. PICK d \in Nat : y = x + d
  <2>1. y - x \in Nat /\ y = x + (y - x)
    OBVIOUS
  <2> QED
    BY <2>1
<1>2. r * y = r * x + r * d /\ r * d \in Nat /\ r * x \in Int
  BY <1>1
<1> QED
  BY <1>2

LEMMA Quotient ==
  ASSUME NEW a \in Int, NEW b \in Nat \ {0}, NEW n \in Int, b * a <= n
  PROVE  a <= n \div b /\ n \div b \in Int
<1>1. n \div b \in Int /\ n % b \in 0..(b - 1) /\ n = b * (n \div b) + (n % b)
  OBVIOUS
<1> DEFINE q == n \div b
<1>2. q \in Int /\ b * q > n - b
  BY <1>1
<1> HIDE DEF q
<1>3. SUFFICES ASSUME q + 1 <= a PROVE FALSE
  BY <1>1, <1>2 DEF q
<1>4. b * (q + 1) <= b * a
  BY <1>2, <1>3, ProductOrder
<1>5. b * (q + 1) = b * q + b
  BY <1>2, Distribute
<1> QED
  BY <1>2, <1>4, <1>5

-------------------------------------------------------------------------------
(* Types and admissions.                                                   *)

LEMMA Numbers ==
  ASSUME Typed
  PROVE  /\ now \in Nat /\ elapsed \in Nat /\ elapsed <= MaxTime /\ setBacks \in Nat
         /\ tokens \in Nat /\ lastRefill \in Nat /\ lastRefill <= Start + MaxTime
         /\ now <= Start + MaxTime
         /\ Full \in Nat /\ TokensToAdd \in Nat /\ RefillTime \in Nat \ {0} /\ RefillRate \in Nat
         /\ Unit \in Nat \ {0} /\ MaxCapacity \in Nat /\ Unit * MaxCapacity \in Nat
         /\ MaxCapacity * Unit = Unit * MaxCapacity /\ Word \in Nat \ {0} /\ MaxTime \in Nat
         /\ Word > 2 * (Start + MaxTime) /\ Start \in Nat
  BY ClockAssumption, WindowAssumption, BucketAssumption DEF Typed, TypeOK, ClockOK, Full

\* The history, and what appending to it does
LEMMA History ==
  ASSUME Typed
  PROVE  /\ admitted \in Seq(0..MaxTime) /\ elapsed \in 0..MaxTime
         /\ DOMAIN admitted = 1..Len(admitted) /\ Len(admitted) \in Nat
         /\ \A i \in DOMAIN admitted : admitted[i] \in Nat /\ admitted[i] <= elapsed
<1>1. admitted \in Seq(0..MaxTime) /\ elapsed \in 0..MaxTime
  BY DEF Typed, TypeOK, ClockOK
<1>2. \A S : \A s \in Seq(S) : /\ DOMAIN s = 1..Len(s) /\ Len(s) \in Nat
                               /\ \A i \in DOMAIN s : s[i] \in S
  OBVIOUS
<1>3. \A i \in DOMAIN admitted : admitted[i] \in Nat
  BY <1>1, <1>2, ClockAssumption
<1> QED
  BY <1>1, <1>2, <1>3 DEF Typed, Past

LEMMA Appended ==
  ASSUME NEW S, NEW s \in Seq(S), NEW x \in S
  PROVE  /\ Append(s, x) \in Seq(S) /\ DOMAIN Append(s, x) = DOMAIN s \cup {Len(s) + 1}
         /\ Len(s) + 1 \notin DOMAIN s
         /\ \A i \in DOMAIN s : Append(s, x)[i] = s[i]
         /\ Append(s, x)[Len(s) + 1] = x
  OBVIOUS

LEMMA SinceType == ASSUME Typed PROVE Since(lastRefill) \in Nat
<1>1. now - lastRefill \in Int /\ Word \in Nat \ {0}
  BY Numbers
<1>2. \A x \in Int, w \in Nat \ {0} : x % w \in 0..(w - 1)
  OBVIOUS
<1>3. (now - lastRefill) % Word \in 0..(Word - 1)
  BY <1>1, <1>2
<1> QED
  BY <1>1, <1>3 DEF Since

\* As long as the clock is not set back it measures the time since the refill.
LEMMA SinceLinked ==
  ASSUME Typed, NEW e \in Nat, NEW s \in Nat, Linked(e, s), s = setBacks
  PROVE  Since(lastRefill) = elapsed - e
<1>1. now - lastRefill = elapsed - e /\ e <= elapsed
  BY DEF Linked
<1>2. elapsed - e \in 0..(Word - 1) /\ Word \in Nat \ {0}
  BY <1>1, Numbers
<1>3. \A w \in Nat \ {0} : \A x \in 0..(w - 1) : x % w = x
  OBVIOUS
<1>4. (elapsed - e) % Word = elapsed - e
  BY <1>2, <1>3
<1> QED
  BY <1>1, <1>4 DEF Since

LEMMA FilledType ==
  ASSUME Typed PROVE Filled \in 0..(MaxCapacity * Unit)
                     /\ Filled <= tokens + RefillRate * Since(lastRefill)
<1> DEFINE d == RefillRate * Since(lastRefill)
           c == MaxCapacity * Unit
<1>1. d \in Nat /\ c \in Nat /\ tokens \in Nat
  BY Numbers, SinceType
<1>2. Filled = Least(tokens + d, c)
  BY DEF Filled
<1> HIDE DEF d, c
<1>3. Filled \in 0..c /\ Filled <= tokens + d
  BY <1>1, <1>2 DEF Least
<1> QED
  BY <1>3 DEF c, d

\* What a call refills to
Refilled == IF algorithm = "FixedWindow" THEN Renewed ELSE Filled
Price == IF algorithm = "FixedWindow" THEN 1 ELSE Unit

LEMMA CheckShape ==
  ASSUME Typed, CheckWindow \/ CheckBucket
  PROVE  /\ Check(Refilled, Price) /\ UNCHANGED <<clock, algorithm>>
         /\ Refilled \in 0..Full /\ Price \in Nat \ {0}
         /\ lastRefill' = IF algorithm = "FixedWindow" THEN RenewedAt ELSE now
<1>1. Renewed \in 0..TokensToAdd \/ algorithm # "FixedWindow"
  BY Numbers DEF Renewed, Typed, TypeOK, Full
<1>2. Refilled \in 0..Full
  BY <1>1, FilledType, Numbers DEF Refilled, Full
<1>3. Price \in Nat \ {0}
  BY Numbers DEF Price
<1>4. /\ Check(Refilled, Price) /\ UNCHANGED <<clock, algorithm>>
      /\ lastRefill' = IF algorithm = "FixedWindow" THEN RenewedAt ELSE now
  BY DEF CheckWindow, CheckBucket, Refilled, Price, Typed, TypeOK
<1> QED
  BY <1>2, <1>3, <1>4

LEMMA TypeInit == Init => Typed
<1> SUFFICES ASSUME Init PROVE Typed
  OBVIOUS
<1>1. tokens \in 0..Full
  BY Init, WindowAssumption, BucketAssumption DEF Init, Full
<1>2. ClockOK /\ now <= Start + elapsed /\ lastRefill \in 0..(Start + MaxTime)
  BY ClockAssumption DEF Init, ClockInit, ClockOK
<1>3. admitted \in Seq(0..MaxTime) /\ DOMAIN admitted = {}
  BY DEF Init
<1> QED
  BY <1>1, <1>2, <1>3 DEF Init, Typed, TypeOK, Past

LEMMA TypeStep == Typed /\ [Next]_vars => Typed'
<1> SUFFICES ASSUME Typed, [Next]_vars PROVE Typed'
  OBVIOUS
<1>1. CASE PassTime
  <2>1. UNCHANGED <<algorithm, tokens, lastRefill, admitted>> /\ Full' = Full
    BY <1>1 DEF PassTime, Full
  <2>2. ClockOK' /\ now' <= Start + elapsed' /\ elapsed <= elapsed' /\ elapsed' \in Nat
    <3>1. CASE Pass
      BY <3>1, ClockAssumption DEF Pass, Typed, TypeOK, ClockOK, Past
    <3>2. CASE SetBack
      BY <3>2, ClockAssumption DEF SetBack, Typed, TypeOK, ClockOK, Past
    <3> QED
      BY <1>1, <3>1, <3>2 DEF PassTime, Tick
  <2>3. ASSUME NEW i \in DOMAIN admitted PROVE admitted[i] <= elapsed'
    <3>1. admitted[i] \in Nat /\ admitted[i] <= elapsed
      BY History
    <3> QED
      BY <2>2, <3>1, Numbers
  <2> QED
    BY <2>1, <2>2, <2>3 DEF Typed, TypeOK, Past
<1>2. CASE CheckWindow \/ CheckBucket
  <2>1. /\ Check(Refilled, Price) /\ UNCHANGED <<clock, algorithm>> /\ Refilled \in 0..Full
        /\ Price \in Nat \ {0} /\ lastRefill' = IF algorithm = "FixedWindow" THEN RenewedAt ELSE now
    BY <1>2, CheckShape
  <2>2. tokens' \in 0..Full /\ Full' = Full
    <3>1. Full' = Full /\ Full \in Nat
      BY <2>1, Numbers DEF Full
    <3>2. \/ Refilled >= Price /\ tokens' = Refilled - Price
          \/ tokens' = Refilled
      BY <2>1 DEF Check
    <3> QED
      BY <2>1, <3>1, <3>2
  <2>3. lastRefill' \in 0..(Start + MaxTime)
    BY <2>1, Numbers DEF RenewedAt
  <2>4. admitted' \in Seq(0..MaxTime) /\ \A i \in DOMAIN admitted' : admitted'[i] <= elapsed
    <3>1. CASE admitted' = Append(admitted, elapsed)
      <4>1. /\ Append(admitted, elapsed) \in Seq(0..MaxTime)
            /\ DOMAIN Append(admitted, elapsed) = DOMAIN admitted \cup {Len(admitted) + 1}
            /\ \A i \in DOMAIN admitted : Append(admitted, elapsed)[i] = admitted[i]
            /\ Append(admitted, elapsed)[Len(admitted) + 1] = elapsed
        BY History, Appended
      <4>2. \A i \in DOMAIN admitted : admitted[i] <= elapsed
        BY History
      <4>3. elapsed <= elapsed
        BY Numbers
      <4> QED
        BY <3>1, <4>1, <4>2, <4>3
    <3>2. CASE UNCHANGED admitted
      BY <3>2, History
    <3> QED
      BY <2>1, <3>1, <3>2 DEF Check
  <2>5. UNCHANGED <<now, elapsed, setBacks>>
    BY <2>1 DEF clock
  <2> QED
    BY <2>1, <2>2, <2>3, <2>4, <2>5 DEF Typed, TypeOK, ClockOK, Past
<1>3. CASE UNCHANGED vars
  BY <1>3 DEF vars, clock, Typed, TypeOK, ClockOK, Past, Full
<1> QED
  BY <1>1, <1>2, <1>3 DEF Next

\* Neither algorithm is ever in debt, or holds more than it is filled to.
THEOREM TypeCorrect == Spec => []TypeOK
<1>1. Typed => TypeOK
  BY DEF Typed
<1> QED
  BY <1>1, TypeInit, TypeStep, PTL DEF Spec

LEMMA Counts ==
  ASSUME Typed, NEW from \in Nat
  PROVE  /\ IsFiniteSet(GivenFrom(from)) /\ Cardinality(GivenFrom(from)) \in Nat
         /\ from > elapsed => Cardinality(GivenFrom(from)) = 0
<1>1. DOMAIN admitted = 1..Len(admitted) /\ Len(admitted) \in Nat
  BY History
<1>2. IsFiniteSet(DOMAIN admitted)
  BY <1>1, FS_Interval
<1>3. IsFiniteSet(GivenFrom(from))
  BY <1>2, FS_Subset DEF GivenFrom
<1>4. ASSUME from > elapsed PROVE GivenFrom(from) = {}
  <2>1. \A i \in DOMAIN admitted : admitted[i] \in Nat /\ admitted[i] <= elapsed
    BY History
  <2> QED
    BY <1>4, <2>1, Numbers DEF GivenFrom
<1> QED
  BY <1>3, <1>4, FS_CardinalityType, FS_EmptySet

\* An admission takes what it costs out of the tokens that were refilled.
LEMMA CheckCounts ==
  ASSUME Typed, CheckWindow \/ CheckBucket, NEW from \in Nat
  PROVE  \E n, m \in Nat :
           /\ n = Cardinality(GivenFrom(from)) /\ m = Cardinality(GivenFrom(from)')
           /\ Price * m + tokens' <= Price * n + Refilled
           /\ from > elapsed => n = 0 /\ m = 0
<1> DEFINE n == Cardinality(GivenFrom(from))
<1>1. /\ Check(Refilled, Price) /\ Refilled \in 0..Full /\ Price \in Nat \ {0} /\ Full \in Nat
  BY CheckShape, Numbers
<1>2. n \in Nat /\ IsFiniteSet(GivenFrom(from)) /\ (from > elapsed => n = 0)
  BY Counts
<1>3. /\ Price * n \in Nat /\ Price * (n + 1) = Price * n + Price
  BY <1>1, <1>2, Distribute
<1>4. ASSUME admitted' = Append(admitted, elapsed), from <= elapsed, tokens' = Refilled - Price
      PROVE  Cardinality(GivenFrom(from)') = n + 1
  <2>1. /\ DOMAIN admitted' = DOMAIN admitted \cup {Len(admitted) + 1}
        /\ Len(admitted) + 1 \notin DOMAIN admitted
        /\ \A i \in DOMAIN admitted : admitted'[i] = admitted[i]
        /\ admitted'[Len(admitted) + 1] = elapsed
    BY <1>4, History, Appended
  <2>2. GivenFrom(from)' = GivenFrom(from) \cup {Len(admitted) + 1}
    BY <1>4, <2>1 DEF GivenFrom
  <2>3. Len(admitted) + 1 \notin GivenFrom(from)
    BY <2>1 DEF GivenFrom
  <2> QED
    BY <1>2, <2>2, <2>3, FS_AddElement
<1>5. ASSUME admitted' = Append(admitted, elapsed), ~(from <= elapsed)
      PROVE  GivenFrom(from)' = GivenFrom(from)
  <2>1. /\ DOMAIN admitted' = DOMAIN admitted \cup {Len(admitted) + 1}
        /\ \A i \in DOMAIN admitted : admitted'[i] = admitted[i]
        /\ admitted'[Len(admitted) + 1] = elapsed
    BY <1>5, History, Appended
  <2> QED
    BY <1>5, <2>1, Numbers DEF GivenFrom
<1>6. UNCHANGED admitted => GivenFrom(from)' = GivenFrom(from)
  BY DEF GivenFrom
<1> HIDE DEF n
<1>7. tokens' \in Int /\ tokens' <= Refilled
  BY <1>1 DEF Check
<1>8. CASE GivenFrom(from)' = GivenFrom(from)
  <2>1. Cardinality(GivenFrom(from)') = n
    BY <1>8 DEF n
  <2>2. Price * n + tokens' <= Price * n + Refilled
    BY <1>1, <1>3, <1>7
  <2> QED
    BY <1>2, <2>1, <2>2 DEF n
<1>9. CASE GivenFrom(from)' # GivenFrom(from)
  <2>1. /\ admitted' = Append(admitted, elapsed) /\ from <= elapsed
        /\ tokens' = Refilled - Price
    BY <1>1, <1>5, <1>6, <1>9 DEF Check
  <2>2. Cardinality(GivenFrom(from)') = n + 1
    BY <1>4, <2>1
  <2>3. Price * (n + 1) + tokens' <= Price * n + Refilled
    BY <1>1, <1>3, <2>1
  <2>4. ~(from > elapsed)
    BY <2>1, Numbers
  <2> QED
    BY <1>2, <2>2, <2>3, <2>4 DEF n
<1> QED
  BY <1>8, <1>9

-------------------------------------------------------------------------------
(* What renewals and refills add.                                          *)

LEMMA WindowLess ==
  ASSUME NEW e, NEW s, NEW from, NEW m \in Int, NEW l \in Int, l <= m, Typed,
         WindowFill(e, s, from, m)
  PROVE  WindowFill(e, s, from, l)
<1>1. CASE from <= e
  <2>1. PICK a \in Int : m <= TokensToAdd * (1 + a) /\ RefillTime * (a - 1 - s) <= e - from
    BY <1>1 DEF WindowFill
  <2>2. TokensToAdd * (1 + a) \in Int
    BY Numbers
  <2>3. l <= TokensToAdd * (1 + a)
    BY <2>1, <2>2
  <2> QED
    BY <1>1, <2>1, <2>3 DEF WindowFill
<1>2. CASE ~(from <= e)
  BY <1>2, Numbers DEF WindowFill
<1> QED
  BY <1>1, <1>2

LEMMA WindowRenewed ==
  ASSUME Typed, Over, NEW e \in Nat, NEW s \in Nat, Linked(e, s), NEW from \in Nat, NEW n \in Nat,
         WindowFill(e, s, from, n + tokens), from > elapsed => n = 0
  PROVE  WindowFill(elapsed, setBacks, from, n + TokensToAdd)
<1> DEFINE K == TokensToAdd
<1>0. /\ K \in Nat /\ RefillTime \in Nat \ {0} /\ tokens \in Nat /\ elapsed \in Nat
      /\ setBacks \in Nat /\ e <= elapsed /\ s <= setBacks
  BY Numbers DEF Linked
<1>1. CASE ~(from <= elapsed)
  BY <1>0, <1>1 DEF WindowFill
<1>2. CASE from <= elapsed /\ ~(from <= e)
  <2>1. n <= K
    BY <1>0, <1>2 DEF WindowFill
  <2>2. K * 1 = K /\ K * (1 + 1) = K * 1 + K
    BY <1>0, Distribute
  <2>3. RefillTime * (1 - 1 - setBacks) <= RefillTime * 0 /\ RefillTime * 0 = 0
    BY <1>0, ProductOrder
  <2>4. RefillTime * (1 - 1 - setBacks) \in Int
    BY <1>0
  <2>5. n + K <= K * (1 + 1) /\ RefillTime * (1 - 1 - setBacks) <= elapsed - from
    BY <1>0, <1>2, <2>1, <2>2, <2>3, <2>4
  <2> QED
    BY <1>2, <2>5 DEF WindowFill
<1>3. CASE from <= elapsed /\ from <= e
  <2>1. PICK a \in Int : n + tokens <= K * (1 + a) /\ RefillTime * (a - 1 - s) <= e - from
    BY <1>3 DEF WindowFill
  <2>2. /\ K * (1 + (a + 1)) = K * (1 + a) + K /\ K * (1 + a) \in Int
    <3>1. 1 + (a + 1) = (1 + a) + 1 /\ 1 + a \in Int
      OBVIOUS
    <3> QED
      BY <1>0, <3>1, Distribute
  <2>3. n + K <= K * (1 + (a + 1))
    BY <1>0, <2>1, <2>2
  <2>4. RefillTime * ((a + 1) - 1 - setBacks) <= elapsed - from
    <3> DEFINE u == a - 1 - s
    <3>1. u \in Int /\ RefillTime * u \in Int /\ RefillTime * (u + 1) = RefillTime * u + RefillTime
      BY <1>0, Distribute
    <3>2. RefillTime * u <= e - from
      BY <2>1
    <3>3. CASE s = setBacks
      <4>1. RefillTime <= elapsed - e
        BY <3>3, SinceLinked, Numbers DEF Over
      <4>2. (a + 1) - 1 - setBacks = u + 1
        BY <1>0, <3>3
      <4> HIDE DEF u
      <4> QED
        BY <1>0, <3>1, <3>2, <4>1, <4>2
    <3>4. CASE s # setBacks
      <4> DEFINE v == (a + 1) - 1 - setBacks
      <4>1. v \in Int /\ v <= u
        BY <1>0, <3>4
      <4> HIDE DEF u, v
      <4>2. RefillTime * v <= RefillTime * u /\ RefillTime * v \in Int
        BY <1>0, <3>1, <4>1, ProductOrder
      <4>3. RefillTime * v <= elapsed - from
        BY <1>0, <3>1, <3>2, <4>2
      <4> QED
        BY <4>3 DEF v
    <3> QED
      BY <3>3, <3>4
  <2>5. a + 1 \in Int
    OBVIOUS
  <2> QED
    BY <1>3, <2>3, <2>4, <2>5 DEF WindowFill
<1> QED
  BY <1>1, <1>2, <1>3

\* A bucket filled after the clock was set back may be full at once; otherwise it
\* holds what dripped in since the last call.
LEMMA BucketRefilled ==
  ASSUME Typed, NEW e \in Nat, NEW s \in Nat, Linked(e, s), NEW from \in Nat, NEW n \in Nat,
         BucketFill(e, s, from, n, Unit * n + tokens), from <= elapsed
  PROVE  Unit * n + Filled <= RefillRate * (elapsed - from) + Unit * MaxCapacity * (1 + setBacks)
<1> DEFINE C == Unit * MaxCapacity
           u == Unit * n
           full == C * (1 + setBacks)
           all == RefillRate * (elapsed - from)
<1>0. /\ C \in Nat /\ u \in Nat /\ tokens \in Nat /\ elapsed \in Nat /\ setBacks \in Nat
      /\ e <= elapsed /\ s <= setBacks /\ RefillRate \in Nat
      /\ Filled \in 0..C /\ Filled <= tokens + RefillRate * Since(lastRefill)
  BY Numbers, FilledType DEF Linked
<1>1. all \in Nat /\ full \in Nat /\ C <= full
  <2> HIDE DEF C
  <2>1. elapsed - from \in Nat /\ 1 + setBacks \in Nat /\ 1 <= 1 + setBacks
    BY <1>0
  <2>2. RefillRate * (elapsed - from) \in Nat
    BY <1>0, <2>1
  <2>3. C * 1 <= C * (1 + setBacks) /\ C * 1 = C /\ C * (1 + setBacks) \in Int
    BY <1>0, <2>1, ProductOrder
  <2> QED
    BY <1>0, <2>2, <2>3
<1>2. CASE ~(from <= e)
  <2>1. u = 0
    BY <1>2, Numbers DEF BucketFill
  <2> HIDE DEF u, full, all, C
  <2>2. u + Filled <= all + full
    BY <1>0, <1>1, <2>1
  <2> QED
    BY <2>2 DEF u, all, full, C
<1>3. CASE from <= e
  <2> DEFINE past == RefillRate * (e - from)
             then == C * (1 + s)
  <2>1. u + tokens <= past + then
    BY <1>3 DEF BucketFill
  <2>2. past \in Nat /\ then \in Int /\ C * (1 + setBacks) \in Int
    <3> HIDE DEF C
    <3>1. e - from \in Nat
      BY <1>3
    <3> QED
      BY <1>0, <3>1
  <2>3. CASE s = setBacks
    <3> DEFINE drip == RefillRate * (elapsed - e)
    <3>1. Filled <= tokens + drip
      BY <1>0, <2>3, SinceLinked
    <3>2. all = past + drip /\ drip \in Int
      <4>1. elapsed - from = (e - from) + (elapsed - e)
        BY <1>0
      <4>2. \A x, y \in Int : RefillRate * (x + y) = RefillRate * x + RefillRate * y
        BY <1>0
      <4> QED
        BY <1>0, <4>1, <4>2
    <3>3. full = then
      BY <2>3
    <3>4. Filled \in Nat
      BY <1>0
    <3> HIDE DEF u, full, all, C, past, then, drip
    <3>5. u + Filled <= all + full
      BY <1>0, <1>1, <2>1, <2>2, <3>1, <3>2, <3>3, <3>4
    <3> QED
      BY <3>5 DEF u, all, full, C
  <2>4. CASE s # setBacks
    <3>1. past <= all
      <4>1. e - from <= elapsed - from
        BY <1>0
      <4> QED
        BY <1>0, <4>1, ProductOrder
    <3>2. then + C <= full
      <4> HIDE DEF C
      <4>1. C * ((1 + s) + 1) = C * (1 + s) + C
        BY <1>0, Distribute
      <4>2. (1 + s) + 1 <= 1 + setBacks
        BY <1>0, <2>4
      <4>3. C * ((1 + s) + 1) <= C * (1 + setBacks)
        BY <1>0, <4>2, ProductOrder
      <4> QED
        BY <4>1, <4>3
    <3>3. Filled \in 0..C
      BY <1>0
    <3> HIDE DEF u, full, all, C, past, then
    <3>4. u + Filled <= all + full
      BY <1>0, <1>1, <2>1, <2>2, <3>1, <3>2, <3>3
    <3> QED
      BY <3>4 DEF u, all, full, C
  <2> QED
    BY <2>3, <2>4
<1> QED
  BY <1>2, <1>3

-------------------------------------------------------------------------------
(* The invariant.                                                          *)

LEMMA FillingInit == Init => Filling
<1> SUFFICES ASSUME Init PROVE Filling
  OBVIOUS
<1>0. Typed
  BY TypeInit
<1>1. /\ elapsed = 0 /\ setBacks = 0 /\ now = lastRefill /\ tokens = 0
  BY DEF Init, ClockInit
<1>2. Linked(0, 0)
  BY <1>0, <1>1, Numbers DEF Linked
<1>3. \A from : GivenFrom(from) = {}
  BY DEF Init, GivenFrom
<1>4. ASSUME NEW from \in Nat PROVE Fill(0, 0, from, 0, 0)
  <2>1. /\ 0 <= TokensToAdd * (1 + 0) /\ RefillTime * (0 - 1 - 0) <= 0 - 0
        /\ 0 <= TokensToAdd /\ 0 + 0 = 0
    BY <1>0, Numbers
  <2>2. WindowFill(0, 0, from, 0)
    BY <2>1 DEF WindowFill
  <2>3. Unit * 0 + 0 <= RefillRate * (0 - 0) + Unit * MaxCapacity * (1 + 0)
    BY <1>0, Numbers
  <2>4. BucketFill(0, 0, from, 0, Unit * 0 + 0)
    BY <2>3 DEF BucketFill
  <2> QED
    BY <2>1, <2>2, <2>4 DEF Fill
<1>5. ASSUME NEW from \in Nat
      PROVE  Fill(0, 0, from, Cardinality(GivenFrom(from)), tokens)
  <2>1. Cardinality(GivenFrom(from)) = 0
    BY <1>3, FS_EmptySet
  <2> QED
    BY <1>1, <1>4, <2>1
<1>6. 0 \in Nat
  OBVIOUS
<1> QED
  BY <1>2, <1>5, <1>6 DEF Filling

LEMMA FillingStep == Typed /\ Filling /\ [Next]_vars => Filling'
<1> SUFFICES ASSUME Typed, Filling, [Next]_vars PROVE Filling'
  OBVIOUS
<1>0. PICK e, s \in Nat :
        Linked(e, s) /\ \A from \in Nat : Fill(e, s, from, Cardinality(GivenFrom(from)), tokens)
  BY DEF Filling
<1>1. CASE PassTime \/ UNCHANGED vars
  <2>1. UNCHANGED <<algorithm, tokens, lastRefill, admitted>>
    BY <1>1 DEF PassTime, vars
  <2>2. Linked(e, s)'
    BY <1>0, <1>1, Numbers DEF PassTime, Tick, Pass, SetBack, Linked, vars, clock
  <2>3. ASSUME NEW from \in Nat PROVE Fill(e, s, from, Cardinality(GivenFrom(from)), tokens)'
    BY <1>0, <2>1 DEF Fill, WindowFill, BucketFill, GivenFrom
  <2> QED
    BY <2>2, <2>3 DEF Filling
<1>2. CASE CheckWindow \/ CheckBucket
  <2>1. /\ UNCHANGED <<now, elapsed, setBacks, algorithm>> /\ Refilled \in 0..Full
        /\ lastRefill' = IF algorithm = "FixedWindow" THEN RenewedAt ELSE now
    BY <1>2, CheckShape DEF clock
  <2>2. tokens' \in Nat
    BY <1>2, TypeStep, Numbers DEF Typed, TypeOK, Full
  <2>3. CASE algorithm = "FixedWindow" /\ ~Over
    <3>1. lastRefill' = lastRefill /\ Refilled = tokens /\ Price = 1
      BY <2>1, <2>3 DEF RenewedAt, Refilled, Renewed, Price
    <3>2. Linked(e, s)'
      BY <1>0, <2>1, <3>1 DEF Linked
    <3>3. ASSUME NEW from \in Nat PROVE Fill(e, s, from, Cardinality(GivenFrom(from)), tokens)'
      <4>1. PICK n, m \in Nat :
              /\ n = Cardinality(GivenFrom(from)) /\ m = Cardinality(GivenFrom(from)')
              /\ Price * m + tokens' <= Price * n + Refilled
        BY <1>2, CheckCounts
      <4>2. m + tokens' <= n + tokens /\ tokens \in Nat
        BY <2>2, <3>1, <4>1, Numbers
      <4>3. WindowFill(e, s, from, n + tokens)
        BY <1>0, <2>3, <4>1 DEF Fill
      <4>4. PICK l \in Nat : l = m + tokens'
        <5>1. m + tokens' \in Nat
          BY <2>2, <4>1
        <5> QED
          BY <5>1
      <4>5. WindowFill(e, s, from, l)
        <5>1. PICK k \in Nat : k = n + tokens
          BY <4>2
        <5>2. l <= k
          BY <4>2, <4>4, <5>1
        <5>3. WindowFill(e, s, from, k)
          BY <4>3, <5>1
        <5> QED
          BY <5>2, <5>3, WindowLess
      <4> QED
        BY <2>1, <2>3, <4>1, <4>4, <4>5 DEF Fill, WindowFill
    <3> QED
      BY <3>2, <3>3 DEF Filling
  <2>4. CASE algorithm = "FixedWindow" /\ Over
    <3>1. lastRefill' = now /\ Refilled = TokensToAdd /\ Price = 1
      BY <2>1, <2>4 DEF RenewedAt, Refilled, Renewed, Price
    <3>2. PICK t, b \in Nat : t = elapsed /\ b = setBacks
      BY Numbers
    <3>3. Linked(t, b)'
      BY <2>1, <3>1, <3>2, Numbers DEF Linked
    <3>4. ASSUME NEW from \in Nat PROVE Fill(t, b, from, Cardinality(GivenFrom(from)), tokens)'
      <4>1. PICK n, m \in Nat :
              /\ n = Cardinality(GivenFrom(from)) /\ m = Cardinality(GivenFrom(from)')
              /\ Price * m + tokens' <= Price * n + Refilled
              /\ from > elapsed => n = 0 /\ m = 0
        BY <1>2, CheckCounts
      <4>2. m + tokens' <= n + TokensToAdd /\ TokensToAdd \in Nat
        BY <2>2, <3>1, <4>1, Numbers
      <4>3. WindowFill(e, s, from, n + tokens)
        BY <1>0, <2>4, <4>1 DEF Fill
      <4>4. WindowFill(t, b, from, n + TokensToAdd)
        BY <1>0, <2>4, <3>2, <4>1, <4>3, WindowRenewed
      <4>5. PICK l \in Nat : l = m + tokens'
        <5>1. m + tokens' \in Nat
          BY <2>2, <4>1
        <5> QED
          BY <5>1
      <4>6. WindowFill(t, b, from, l)
        <5>1. l <= n + TokensToAdd /\ n + TokensToAdd \in Nat
          BY <4>2, <4>5
        <5> QED
          BY <4>4, <5>1, WindowLess
      <4> QED
        BY <2>1, <2>4, <4>1, <4>5, <4>6 DEF Fill, WindowFill
    <3> QED
      BY <3>3, <3>4 DEF Filling
  <2>5. CASE algorithm # "FixedWindow"
    <3>1. lastRefill' = now /\ Refilled = Filled /\ Price = Unit
      BY <2>1, <2>5 DEF Refilled, Price
    <3>2. PICK t, b \in Nat : t = elapsed /\ b = setBacks
      BY Numbers
    <3>3. Linked(t, b)'
      BY <2>1, <3>1, <3>2, Numbers DEF Linked
    <3>4. ASSUME NEW from \in Nat PROVE Fill(t, b, from, Cardinality(GivenFrom(from)), tokens)'
      <4>1. PICK n, m \in Nat :
              /\ n = Cardinality(GivenFrom(from)) /\ m = Cardinality(GivenFrom(from)')
              /\ Price * m + tokens' <= Price * n + Refilled
              /\ from > elapsed => n = 0 /\ m = 0
        BY <1>2, CheckCounts
      <4>2. BucketFill(t, b, from, m, Unit * m + tokens')
        <5>1. CASE from <= t
          <6>1. BucketFill(e, s, from, n, Unit * n + tokens)
            BY <1>0, <2>5, <4>1 DEF Fill
          <6> DEFINE x == Unit * n + Filled
                     y == Unit * m + tokens'
                     z == RefillRate * (t - from) + Unit * MaxCapacity * (1 + b)
          <6>2. x <= z
            BY <1>0, <3>2, <5>1, <6>1, BucketRefilled
          <6>3. y <= x
            BY <3>1, <4>1
          <6>4. x \in Int /\ y \in Int /\ z \in Int
            <7>1. Filled \in Int /\ Unit \in Nat /\ RefillRate \in Nat /\ Unit * MaxCapacity \in Nat
              BY FilledType, Numbers
            <7>2. Unit * n \in Int /\ Unit * m \in Int /\ RefillRate * (t - from) \in Int
                  /\ Unit * MaxCapacity * (1 + b) \in Int
              BY <7>1
            <7> QED
              BY <2>2, <7>1, <7>2
          <6> HIDE DEF x, y, z
          <6>5. y <= z
            BY <6>2, <6>3, <6>4
          <6> QED
            BY <5>1, <6>5 DEF BucketFill, y, z
        <5>2. CASE ~(from <= t)
          <6>1. from > elapsed
            BY <3>2, <5>2
          <6> QED
            BY <4>1, <5>2, <6>1 DEF BucketFill
        <5> QED
          BY <5>1, <5>2
      <4> QED
        BY <2>1, <2>5, <4>1, <4>2 DEF Fill, BucketFill
    <3> QED
      BY <3>3, <3>4 DEF Filling
  <2> QED
    BY <2>3, <2>4, <2>5
<1> QED
  BY <1>1, <1>2 DEF Next

LEMMA RateHolds == Typed /\ Filling => RateHeld
<1> SUFFICES ASSUME Typed, Filling, NEW from \in 0..elapsed
             PROVE  Unit * Cardinality(GivenFrom(from)) <= Allowance(elapsed - from)
  BY DEF RateHeld
<1>1. PICK e, s \in Nat : Linked(e, s) /\ Fill(e, s, from, Cardinality(GivenFrom(from)), tokens)
  BY DEF Filling
<1>2. PICK n \in Nat : n = Cardinality(GivenFrom(from))
  BY Counts
<1>3. /\ from \in Nat /\ from <= elapsed /\ elapsed \in Nat /\ setBacks \in Nat /\ tokens \in Nat
      /\ e <= elapsed /\ s <= setBacks /\ elapsed - from \in Nat
      /\ Unit \in Nat \ {0} /\ TokensToAdd \in Nat /\ RefillTime \in Nat \ {0}
      /\ RefillRate \in Nat /\ Unit * MaxCapacity \in Nat
  BY <1>1, Numbers DEF Linked
<1>4. CASE algorithm = "FixedWindow"
  <2> DEFINE d == (elapsed - from) \div RefillTime
  <2>1. d \in Nat
    BY <1>3
  <2>2. ASSUME NEW a \in Int, a <= d + 1 + setBacks, n <= TokensToAdd * (1 + a)
        PROVE  Unit * n <= Unit * TokensToAdd * (d + 2 + setBacks)
    <3> HIDE DEF d
    <3> DEFINE x == TokensToAdd * (1 + a)
               y == TokensToAdd * (d + 2 + setBacks)
    <3>1. 1 + a <= d + 2 + setBacks /\ 1 + a \in Int /\ d + 2 + setBacks \in Int
      BY <1>3, <2>1, <2>2
    <3>2. x <= y /\ x \in Int /\ y \in Int
      BY <1>3, <3>1, ProductOrder
    <3>3. Unit * TokensToAdd * (d + 2 + setBacks) = Unit * y
      BY <1>3, <3>1
    <3> HIDE DEF y
    <3>4. n <= y
      BY <2>2, <3>2
    <3> QED
      BY <1>3, <3>2, <3>3, <3>4, ProductOrder
  <2>3. CASE from <= e
    <3>1. PICK a \in Int : n + tokens <= TokensToAdd * (1 + a) /\ RefillTime * (a - 1 - s) <= e - from
      BY <1>1, <1>2, <1>4, <2>3 DEF Fill, WindowFill
    <3>2. RefillTime * (a - 1 - s) \in Int /\ TokensToAdd * (1 + a) \in Int
      BY <1>3
    <3>3. RefillTime * (a - 1 - s) <= elapsed - from
      BY <1>3, <3>1, <3>2
    <3>4. a - 1 - s <= d
      BY <1>3, <3>3, Quotient
    <3> HIDE DEF d
    <3>5. a <= d + 1 + setBacks
      BY <1>3, <2>1, <3>4
    <3>6. n <= TokensToAdd * (1 + a)
      BY <1>3, <3>1, <3>2
    <3>7. Unit * n <= Unit * TokensToAdd * (d + 2 + setBacks)
      BY <2>2, <3>5, <3>6
    <3> QED
      BY <1>2, <1>4, <3>7 DEF Allowance, d
  <2>4. CASE ~(from <= e)
    <3>1. n <= TokensToAdd * (1 + 0)
      BY <1>1, <1>2, <1>3, <1>4, <2>4 DEF Fill, WindowFill
    <3> HIDE DEF d
    <3>2. Unit * n <= Unit * TokensToAdd * (d + 2 + setBacks)
      BY <1>3, <2>1, <2>2, <3>1
    <3> QED
      BY <1>2, <1>4, <3>2 DEF Allowance, d
  <2> QED
    BY <2>3, <2>4
<1>5. CASE algorithm # "FixedWindow"
  <2>1. BucketFill(e, s, from, n, Unit * n + tokens)
    BY <1>1, <1>2, <1>5 DEF Fill
  <2>2. Unit * n + Filled <= RefillRate * (elapsed - from) + Unit * MaxCapacity * (1 + setBacks)
    BY <1>1, <1>3, <2>1, BucketRefilled
  <2> DEFINE x == Unit * n
             z == RefillRate * (elapsed - from) + Unit * MaxCapacity * (1 + setBacks)
  <2>3. x \in Int /\ z \in Int /\ Filled \in Nat
    <3>1. RefillRate * (elapsed - from) \in Int /\ Unit * MaxCapacity * (1 + setBacks) \in Int
      BY <1>3
    <3> QED
      BY <1>3, <3>1, FilledType
  <2>4. x + Filled <= z
    BY <2>2
  <2> HIDE DEF x, z
  <2>5. x <= z
    BY <2>3, <2>4
  <2> QED
    BY <1>2, <1>5, <2>5 DEF Allowance, x, z
<1> QED
  BY <1>4, <1>5

\* No stretch of time admits more than its allowance, wherever it begins and ends
\* and however often the clock is set back.
THEOREM RateCorrect == Spec => []RateHeld
<1>1. Init => Typed /\ Filling
  BY TypeInit, FillingInit
<1>2. Typed /\ Filling /\ [Next]_vars => Typed' /\ Filling'
  BY TypeStep, FillingStep
<1> QED
  BY <1>1, <1>2, RateHolds, PTL DEF Spec

-------------------------------------------------------------------------------
(* The pacing of the sender.                                               *)

Sending == pc \in {"send", "pace", "spin"}

\* An entry is under way only with requests left and once it has begun.
PacingTyped ==
  /\ PacingTypeOK
  /\ now <= Start + elapsed
  /\ Sending => left > 0 /\ began # <<>>
  /\ sends # <<>> => began # <<>>

\* Each entry began in its turn and in a slot of its own.
BegunInTurn ==
  /\ \A k \in DOMAIN began : DueAt(k) <= began[k] /\ began[k] <= DueAt(k) + late
  /\ \A j, k \in DOMAIN began : j < k => began[j] \div Slot < began[k] \div Slot

\* Neither is the next entry later than what the thread has lost: the last wait
\* is over when the slot is, or at once.
NextInTurn ==
  LET n == Len(began)
  IN  /\ n > 0 => end = (began[n] \div Slot) * Slot + Slot /\ began[n] <= now
      /\ now <= DueAt(n + 1) + late
      /\ pc \in {"entry", "done"} => DueAt(n + 1) <= now /\ (n > 0 => end <= now)
      /\ pc = "spin" => until <= DueAt(n + 1) + late /\ (left = 1 => end <= until)
      /\ pc = "sleep" => n = 0

Scheduled == setBacks = 0 => BegunInTurn /\ NextInTurn

\* A time may be shared among as many requests in parts of q and q + 1 ticks.
Shared(q, requests, time) == q * requests <= time /\ time <= (q + 1) * requests

\* The requests of an entry are q or q + 1 ticks apart, and so will be those that
\* are left; the last of them comes before the slot ends.
SpreadBy(q) ==
  LET m == Len(sends)
  IN  /\ \A i \in 1..(m - 1) : sends[i + 1] - sends[i] \in q..(q + 1)
      /\ \A i \in DOMAIN sends : began[Len(began)] <= sends[i] /\ sends[i] < end
      /\ pc \in {"send", "pace"} => now < end /\ Shared(q, left, end - now)
      /\ pc = "send" /\ m > 0 => now - sends[m] \in q..(q + 1)
      /\ pc = "pace" => m > 0 /\ sends[m] = now
      /\ pc = "spin" => /\ m > 0 /\ until - sends[m] \in q..(q + 1)
                        /\ now <= until /\ (left > 1 => until < end)
                        /\ Shared(q, left - 1, end - until)

Spread == setBacks = 0 /\ late = 0 => \E q \in Nat : SpreadBy(q)

-------------------------------------------------------------------------------
(* Slots and shares.                                                       *)

LEMMA SlotParts ==
  ASSUME NEW t \in Int
  PROVE  /\ t \div Slot \in Int /\ (t \div Slot) * Slot \in Int
         /\ (t \div Slot) * Slot <= t /\ t < (t \div Slot) * Slot + Slot
<1>1. Slot \in Nat \ {0}
  BY SlotAssumption
<1>2. \A b \in Nat \ {0} : /\ t \div b \in Int /\ t % b \in 0..(b - 1)
                           /\ t = b * (t \div b) + (t % b)
  OBVIOUS
<1>3. t \div Slot \in Int /\ t % Slot \in 0..(Slot - 1) /\ t = Slot * (t \div Slot) + (t % Slot)
  BY <1>1, <1>2
<1> DEFINE q == t \div Slot
<1>4. Slot * q = q * Slot /\ q * Slot \in Int
  BY <1>1, <1>3
<1> HIDE DEF q
<1> QED
  BY <1>1, <1>3, <1>4 DEF q

\* A time past the end of a slot is in a later one.
LEMMA LaterSlot ==
  ASSUME NEW t \in Int, NEW u \in Int, (t \div Slot) * Slot + Slot <= u
  PROVE  t \div Slot < u \div Slot
<1> DEFINE p == t \div Slot
           q == u \div Slot
<1>1. p \in Int /\ q \in Int /\ u < q * Slot + Slot /\ p * Slot + Slot <= u /\ Slot \in Nat \ {0}
  BY SlotParts, SlotAssumption
<1> HIDE DEF p, q
<1>2. SUFFICES ASSUME q <= p PROVE FALSE
  BY <1>1 DEF p, q
<1>3. Slot * q <= Slot * p
  BY <1>1, <1>2, ProductOrder
<1> QED
  BY <1>1, <1>3

LEMMA SameSlot ==
  ASSUME NEW t \in Int, NEW u \in Int, t <= u, u < (t \div Slot) * Slot + Slot
  PROVE  u \div Slot = t \div Slot
<1> DEFINE p == t \div Slot
           q == u \div Slot
<1>1. /\ p \in Int /\ q \in Int /\ Slot \in Nat \ {0}
      /\ p * Slot <= t /\ u < p * Slot + Slot
      /\ q * Slot <= u /\ u < q * Slot + Slot
  BY SlotParts, SlotAssumption
<1>2. t <= u
  OBVIOUS
<1> HIDE DEF p, q
<1>3. ~(q + 1 <= p)
  <2>1. SUFFICES ASSUME q + 1 <= p PROVE FALSE
    OBVIOUS
  <2>2. Slot * (q + 1) <= Slot * p
    BY <1>1, <2>1, ProductOrder
  <2> QED
    BY <1>1, <1>2, <2>2
<1>4. ~(p + 1 <= q)
  <2>1. SUFFICES ASSUME p + 1 <= q PROVE FALSE
    OBVIOUS
  <2>2. Slot * (p + 1) <= Slot * q
    BY <1>1, <2>1, ProductOrder
  <2> QED
    BY <1>1, <2>2
<1> QED
  BY <1>1, <1>3, <1>4 DEF p, q

\* Turns begin with a slot; what begins later than its turn is over no earlier
\* than the next one begins.
LEMMA Turns ==
  /\ StartFrom \in Nat /\ Start < StartFrom
  /\ \A k \in Int : DueAt(k) \in Int /\ DueAt(k + 1) = DueAt(k) + Slot
  /\ \A k \in Int, t \in Int : DueAt(k) <= t => DueAt(k + 1) <= (t \div Slot) * Slot + Slot
<1>1. /\ Slot \in Nat \ {0} /\ SlotsPerSecond \in Nat \ {0} /\ Start \in Nat
  BY SlotAssumption, RpsAssumption, ClockAssumption
<1> DEFINE second == SlotsPerSecond * Slot
           s == Start \div second
<1>2. second \in Nat \ {0}
  BY <1>1
<1>3. s \in Nat /\ Start < (s + 1) * second
  <2> HIDE DEF second
  <2>1. \A b \in Nat \ {0} : /\ Start \div b \in Nat /\ Start % b \in 0..(b - 1)
                            /\ Start = b * (Start \div b) + (Start % b)
    BY <1>1
  <2>2. s \in Nat /\ Start % second \in 0..(second - 1) /\ Start = second * s + (Start % second)
    BY <1>2, <2>1
  <2> HIDE DEF s
  <2> QED
    BY <1>2, <2>2
<1> HIDE DEF s
<1>4. PICK m \in Int : StartFrom = Slot * m
  <2>1. (s + 1) * second = Slot * ((s + 1) * SlotsPerSecond) /\ (s + 1) * SlotsPerSecond \in Int
    BY <1>1, <1>3
  <2> QED
    BY <2>1 DEF StartFrom, s
<1>5. StartFrom \in Nat /\ Start < StartFrom
  BY <1>2, <1>3 DEF StartFrom, s
<1>6. ASSUME NEW k \in Int PROVE DueAt(k) = Slot * (m + k - 1) /\ DueAt(k) \in Int
  BY <1>1, <1>4 DEF DueAt
<1>7. ASSUME NEW k \in Int PROVE DueAt(k + 1) = DueAt(k) + Slot
  BY <1>1, <1>6, <1>5 DEF DueAt
<1>8. ASSUME NEW k \in Int, NEW t \in Int, DueAt(k) <= t
      PROVE  DueAt(k + 1) <= (t \div Slot) * Slot + Slot
  <2>1. m + k - 1 <= t \div Slot
    <3>1. m + k - 1 \in Int /\ Slot * (m + k - 1) <= t
      BY <1>6, <1>8
    <3> QED
      BY <1>1, <3>1, Quotient
  <2>2. Slot * (m + k - 1) <= Slot * (t \div Slot)
    BY <1>1, <2>1, SlotParts, ProductOrder
  <2>3. Slot * (t \div Slot) = (t \div Slot) * Slot
    BY <1>1, SlotParts
  <2> QED
    BY <1>6, <1>7, <2>2, <2>3, SlotParts, SlotAssumption
<1> QED
  BY <1>5, <1>6, <1>7, <1>8

LEMMA FirstShare ==
  ASSUME NEW l \in Nat \ {0}, NEW r \in Nat
  PROVE  r \div l \in Nat /\ Shared(r \div l, l, r)
<1>1. r \div l \in Nat /\ r % l \in 0..(l - 1) /\ r = l * (r \div l) + (r % l)
  OBVIOUS
<1> DEFINE d == r \div l
<1> HIDE DEF d
<1> QED
  BY <1>1 DEF Shared, d

\* Taking one share leaves the rest to be shared in the same way, and nothing only
\* to nobody.
LEMMA NextShare ==
  ASSUME NEW l \in Nat \ {0}, NEW r \in Nat \ {0}, NEW q \in Nat, Shared(q, l, r)
  PROVE  /\ r \div l \in q..(q + 1) /\ r \div l <= r
         /\ Shared(q, l - 1, r - (r \div l))
         /\ l > 1 => r \div l < r
<1> DEFINE d == r \div l
<1>1. d \in Nat /\ r % l \in 0..(l - 1) /\ r = l * d + (r % l)
  OBVIOUS
<1>2. q * l <= r /\ r <= (q + 1) * l
  BY DEF Shared
<1> HIDE DEF d
<1>3. q <= d
  <2>1. SUFFICES ASSUME d + 1 <= q PROVE FALSE
    BY <1>1
  <2>2. l * (d + 1) <= l * q
    BY <1>1, <2>1, ProductOrder
  <2> QED
    BY <1>1, <1>2, <2>2
<1>4. d <= q + 1
  <2>1. SUFFICES ASSUME q + 2 <= d PROVE FALSE
    BY <1>1
  <2>2. l * (q + 2) <= l * d
    BY <1>1, <2>1, ProductOrder
  <2> QED
    BY <1>1, <1>2, <2>2
<1>5. CASE d = q
  BY <1>1, <1>2, <1>5 DEF Shared
<1>6. CASE d = q + 1
  BY <1>1, <1>2, <1>6 DEF Shared
<1> QED
  BY <1>1, <1>3, <1>4, <1>5, <1>6 DEF d

-------------------------------------------------------------------------------
(* Types.                                                                  *)

\* Quotients keep the order.
LEMMA QuotientOrder ==
  ASSUME NEW x \in Int, NEW y \in Int, x <= y, NEW b \in Nat \ {0}
  PROVE  x \div b <= y \div b /\ x \div b \in Int /\ y \div b \in Int
<1>1. /\ x \div b \in Int /\ x % b \in 0..(b - 1) /\ x = b * (x \div b) + (x % b)
      /\ y \div b \in Int
  OBVIOUS
<1> DEFINE a == x \div b
<1>2. b * a \in Int
  BY <1>1
<1> HIDE DEF a
<1>3. b * a <= y
  BY <1>1, <1>2 DEF a
<1> QED
  BY <1>1, <1>3, Quotient DEF a

\* Rounding keeps the order and is exact for whole numbers.
LEMMA RoundOrder ==
  ASSUME NEW x \in Nat, NEW y \in Nat, x <= y, NEW b \in Nat \ {0}
  PROVE  Round(x, b) \in Nat /\ Round(y, b) \in Nat /\ Round(x, b) <= Round(y, b)
<1>1. 2 * x + b \in Nat /\ 2 * y + b \in Nat /\ 2 * b \in Nat \ {0} /\ 2 * x + b <= 2 * y + b
  OBVIOUS
<1>2. \A n \in Nat, d \in Nat \ {0} : n \div d \in Nat
  OBVIOUS
<1> QED
  BY <1>1, <1>2, QuotientOrder DEF Round

LEMMA RoundAbove ==
  ASSUME NEW x \in Nat, NEW b \in Nat \ {0}
  PROVE  x \div b <= Round(x, b)
<1>1. x \div b \in Nat /\ x % b \in 0..(b - 1) /\ x = b * (x \div b) + (x % b)
  OBVIOUS
<1> DEFINE a == x \div b
<1>2. 2 * b * a \in Int /\ b * a \in Int /\ 2 * b * a = 2 * (b * a)
  BY <1>1
<1> HIDE DEF a
<1>3. 2 * b * a <= 2 * x + b
  BY <1>1, <1>2 DEF a
<1>4. a <= (2 * x + b) \div (2 * b)
  BY <1>1, <1>3, Quotient DEF a
<1> QED
  BY <1>4 DEF Round, a

\* A share of at most the whole, rounded, is at most the whole.
LEMMA RoundWithin ==
  ASSUME NEW z \in Nat, NEW b \in Nat \ {0}, NEW x \in Nat, x <= b * z
  PROVE  Round(x, b) \in 0..z
<1>1. Round(b * z, b) = z
  <2> DEFINE q == (2 * (b * z) + b) \div (2 * b)
  <2>1. /\ b * z \in Nat /\ 2 * (b * z) + b \in Nat /\ 2 * b \in Nat \ {0}
    OBVIOUS
  <2>2. \A n \in Nat, d \in Nat \ {0} : /\ n \div d \in Nat /\ n % d \in 0..(d - 1)
                                      /\ n = d * (n \div d) + (n % d)
    OBVIOUS
  <2>3. /\ q \in Nat /\ (2 * (b * z) + b) % (2 * b) \in 0..(2 * b - 1)
        /\ 2 * (b * z) + b = (2 * b) * q + ((2 * (b * z) + b) % (2 * b))
    BY <2>1, <2>2
  <2> HIDE DEF q
  <2>4. (2 * b) * q = 2 * (b * q) /\ b * q \in Nat
    BY <2>3
  <2>5. ~(q + 1 <= z)
    <3>1. SUFFICES ASSUME q + 1 <= z PROVE FALSE
      OBVIOUS
    <3>2. b * (q + 1) <= b * z
      BY <2>3, <3>1, ProductOrder
    <3>3. b * (q + 1) = b * q + b
      BY <2>3, Distribute
    <3> QED
      BY <2>1, <2>3, <2>4, <3>2, <3>3
  <2>6. ~(z + 1 <= q)
    <3>1. SUFFICES ASSUME z + 1 <= q PROVE FALSE
      OBVIOUS
    <3>2. b * (z + 1) <= b * q
      BY <2>3, <3>1, ProductOrder
    <3>3. b * (z + 1) = b * z + b
      BY Distribute
    <3> QED
      BY <2>1, <2>3, <2>4, <3>2, <3>3
  <2> QED
    BY <2>1, <2>3, <2>5, <2>6 DEF Round, q
<1>2. b * z \in Nat
  OBVIOUS
<1> QED
  BY <1>1, <1>2, RoundOrder

Lowest == RpsMin \div SlotsPerSecond
Highest == Round(RpsMax, SlotsPerSecond)

LEMMA Rates ==
  /\ RpsMin \in Nat /\ RpsMax \in Nat /\ RpsMin <= RpsMax /\ SlotsPerSecond \in Nat \ {0}
  /\ Delta \in Nat /\ RpsMin + Delta = RpsMax /\ Scale \in Nat \ {0} /\ Slots \in Nat
  /\ Lowest \in Nat /\ Highest \in Nat
<1>1. /\ RpsMin \in Nat /\ RpsMax \in Nat /\ RpsMin <= RpsMax /\ SlotsPerSecond \in Nat \ {0}
      /\ DurationSeconds \in Nat /\ Scale \in Nat \ {0}
  BY RpsAssumption
<1>2. Delta \in Nat /\ RpsMin + Delta = RpsMax /\ Slots \in Nat
  BY <1>1 DEF Delta, Slots
<1>3. Highest \in Nat
  BY <1>1, RoundOrder DEF Highest
<1>4. \A n \in Nat, d \in Nat \ {0} : n \div d \in Nat
  OBVIOUS
<1> QED
  BY <1>1, <1>2, <1>3, <1>4 DEF Lowest

\* What a rate between the two gives, truncated or rounded
LEMMA SteadyRate ==
  ASSUME NEW x \in Nat, RpsMin <= x, x <= RpsMax
  PROVE  x \div SlotsPerSecond \in Lowest..Highest /\ Round(x, SlotsPerSecond) \in Lowest..Highest
<1>1. /\ x \div SlotsPerSecond \in Int /\ Lowest <= x \div SlotsPerSecond
  BY Rates, QuotientOrder DEF Lowest
<1>2. x \div SlotsPerSecond <= Round(x, SlotsPerSecond)
  BY Rates, RoundAbove
<1>3. Round(x, SlotsPerSecond) \in Nat /\ Round(x, SlotsPerSecond) <= Highest
  BY Rates, RoundOrder DEF Highest
<1> QED
  BY <1>1, <1>2, <1>3, Rates

LEMMA ParabolicRate ==
  ASSUME NEW s \in 0..Scale
  PROVE  (RpsMin * Scale + s * Delta) \div (Scale * SlotsPerSecond) \in Lowest..Highest
<1> DEFINE n == RpsMin * Scale + s * Delta
           d == Scale * SlotsPerSecond
           a == n \div d
<1>1. s \in Nat /\ s <= Scale
  BY Rates
<1>2. n \in Nat /\ d \in Nat \ {0}
  BY <1>1, Rates
<1>3. Scale * RpsMin <= n /\ n <= Scale * RpsMax
  <2>1. Delta * s <= Delta * Scale /\ 0 <= Delta * s /\ Delta * s \in Int /\ Delta * Scale \in Int
    BY <1>1, Rates, ProductOrder
  <2>2. /\ n = Scale * RpsMin + Delta * s /\ Scale * RpsMax = Scale * RpsMin + Delta * Scale
        /\ Scale * RpsMin \in Int
    BY <1>1, Rates
  <2> HIDE DEF n
  <2> QED
    BY <2>1, <2>2
<1>4. a \in Nat /\ n % d \in 0..(d - 1) /\ n = d * a + (n % d)
  <2> HIDE DEF n, d
  <2>1. \A i \in Nat, j \in Nat \ {0} : i \div j \in Nat /\ i % j \in 0..(j - 1)
                                      /\ i = j * (i \div j) + (i % j)
    OBVIOUS
  <2> QED
    BY <1>2, <2>1
<1>5. Lowest <= a
  <2>1. SlotsPerSecond * Lowest <= RpsMin /\ SlotsPerSecond * Lowest \in Int
    <3>1. \A i \in Nat, j \in Nat \ {0} : i \div j \in Nat /\ i % j \in 0..(j - 1)
                                      /\ i = j * (i \div j) + (i % j)
      OBVIOUS
    <3>2. /\ Lowest \in Nat /\ RpsMin % SlotsPerSecond \in 0..(SlotsPerSecond - 1)
          /\ RpsMin = SlotsPerSecond * Lowest + (RpsMin % SlotsPerSecond)
      BY <3>1, Rates DEF Lowest
    <3> QED
      BY <3>2, Rates
  <2>2. Scale * (SlotsPerSecond * Lowest) <= Scale * RpsMin
    BY <2>1, Rates, ProductOrder
  <2>3. d * Lowest = Scale * (SlotsPerSecond * Lowest) /\ d * Lowest \in Int /\ Scale * RpsMin \in Int
    BY Rates
  <2> HIDE DEF n, d, a
  <2>4. d * Lowest <= n
    BY <1>2, <1>3, <2>2, <2>3
  <2> QED
    BY <1>2, <2>4, Rates, Quotient DEF a
<1>6. a <= Highest
  <2>1. SlotsPerSecond * a <= RpsMax
    <3>1. SUFFICES ASSUME RpsMax + 1 <= SlotsPerSecond * a PROVE FALSE
      BY <1>4, Rates
    <3>2. Scale * (RpsMax + 1) <= Scale * (SlotsPerSecond * a)
      BY <1>4, <3>1, Rates, ProductOrder
    <3>3. d * a = Scale * (SlotsPerSecond * a) /\ d * a \in Int
      BY <1>4, Rates
    <3>4. Scale * (RpsMax + 1) = Scale * RpsMax + Scale /\ Scale * RpsMax \in Int
      BY Rates
    <3> HIDE DEF n, d, a
    <3> QED
      BY <1>2, <1>3, <1>4, <3>2, <3>3, <3>4, Rates
  <2>2. a <= RpsMax \div SlotsPerSecond
    <3> HIDE DEF n, d, a
    <3>1. a \in Int /\ RpsMax \in Int /\ SlotsPerSecond \in Nat \ {0}
      BY <1>4, Rates
    <3> QED
      BY <2>1, <3>1, Quotient
  <2>3. RpsMax \div SlotsPerSecond <= Highest /\ RpsMax \div SlotsPerSecond \in Int
    BY SteadyRate, Rates
  <2> HIDE DEF a
  <2> QED
    BY <1>4, <2>2, <2>3, Rates
<1> HIDE DEF n, d
<1> QED
  BY <1>4, <1>5, <1>6, Rates DEF n, d

LEMMA SinusoidRate ==
  ASSUME NEW s \in (-Scale)..Scale
  PROVE  Round(RpsMin + Delta \div 2 + Swing(s), SlotsPerSecond) \in Lowest..Highest
<1> DEFINE h == Delta \div 2
<1>1. h \in Nat /\ 2 * h <= Delta
  BY Rates
<1> HIDE DEF h
<1>2. Swing(s) \in (-h)..h
  <2>1. CASE s >= 0
    <3>1. h * s <= h * Scale /\ h * s \in Nat
      BY <1>1, <2>1, Rates, ProductOrder
    <3>2. s * h = h * s /\ Scale * h = h * Scale
      BY <1>1, Rates
    <3>3. Round(s * h, Scale) \in 0..h
      BY <1>1, <3>1, <3>2, Rates, RoundWithin
    <3> QED
      BY <1>1, <3>3 DEF Swing, h
  <2>2. CASE s < 0
    <3>1. h * (-s) <= h * Scale /\ h * (-s) \in Nat
      BY <1>1, <2>2, Rates, ProductOrder
    <3>2. h * (-s) = -(s * h) /\ Scale * h = h * Scale /\ s * h \in Int
      BY <1>1, Rates
    <3>3. Round(-(s * h), Scale) \in 0..h
      BY <1>1, <3>1, <3>2, Rates, RoundWithin
    <3>4. CASE s * h = 0
      <4>1. Round(s * h, Scale) \in 0..h
        BY <3>3, <3>4
      <4> QED
        BY <1>1, <4>1 DEF Swing, h
    <3>5. CASE s * h # 0
      <4>1. s * h < 0
        BY <3>1, <3>2, <3>5
      <4>2. Round(s * h, Scale) = -Round(-(s * h), Scale)
        BY <3>2, <4>1 DEF Round
      <4>3. Round(s * h, Scale) \in (-h)..h
        BY <1>1, <3>3, <4>2
      <4> QED
        BY <4>3 DEF Swing, h
    <3> QED
      BY <3>4, <3>5
  <2> QED
    BY <2>1, <2>2, Rates
<1> DEFINE x == RpsMin + h + Swing(s)
<1>3. x \in Nat /\ RpsMin <= x /\ x <= RpsMax
  BY <1>1, <1>2, Rates
<1> HIDE DEF x
<1>4. Round(x, SlotsPerSecond) \in Lowest..Highest
  BY <1>3, SteadyRate
<1> QED
  BY <1>4 DEF x, h

LEMMA GeneratedRates == Generated \subseteq [Entries -> Lowest..Highest]
<1>1. Static \in [Entries -> Lowest..Highest]
  BY SteadyRate, Rates DEF Static
<1>2. Spikes \in [Entries -> Lowest..Highest]
  BY SteadyRate, Rates DEF Spikes
<1>3. ASSUME NEW sine \in [Entries -> {x \in Sines : x >= 0}]
      PROVE  Parabolic(sine) \in [Entries -> Lowest..Highest]
  <2>1. \A i \in Entries : sine[i] \in Sines /\ sine[i] >= 0
    OBVIOUS
  <2>2. \A x \in Sines : x \in Int /\ x <= Scale
    BY RpsAssumption
  <2>3. \A i \in Entries : sine[i] \in 0..Scale
    BY <2>1, <2>2, Rates
  <2> QED
    BY <2>3, ParabolicRate DEF Parabolic
<1>4. ASSUME NEW sine \in [Entries -> Sines]
      PROVE  Sinusoid(sine) \in [Entries -> Lowest..Highest]
  <2>1. \A i \in Entries : sine[i] \in (-Scale)..Scale
    BY RpsAssumption
  <2> QED
    BY <2>1, SinusoidRate DEF Sinusoid
<1> QED
  BY <1>1, <1>2, <1>3, <1>4 DEF Generated

LEMMA PacingTypedInit == PacingInit => PacingTyped
<1> SUFFICES ASSUME PacingInit PROVE PacingTyped
  OBVIOUS
<1>1. rps \in [Entries -> Lowest..Highest]
  BY GeneratedRates DEF PacingInit
<1> QED
  BY <1>1, ClockAssumption, SlotAssumption, Rates
     DEF PacingInit, ClockInit, ClockOK, PacingTyped, PacingTypeOK, Sending, Lowest, Highest

LEMMA PacingNumbers ==
  ASSUME PacingTyped
  PROVE  /\ now \in Nat /\ elapsed \in Nat /\ elapsed <= MaxTime /\ setBacks \in Nat
         /\ now <= Start + elapsed /\ Start \in Nat /\ MaxTime \in Nat
         /\ late \in Nat /\ MaxLate \in Nat /\ left \in Nat /\ end \in Nat /\ until \in Nat
         /\ Slot \in Nat \ {0} /\ Slots \in Nat /\ entry \in 0..Slots
         /\ began \in Seq(Nat) /\ sends \in Seq(Nat)
         /\ rps \in [Entries -> Nat]
<1>1. \A i \in Lowest..Highest : i \in Nat
  BY Rates
<1>2. rps \in [Entries -> Lowest..Highest]
  BY DEF PacingTyped, PacingTypeOK, Lowest, Highest
<1>3. rps \in [Entries -> Nat]
  BY <1>1, <1>2
<1> QED
  BY <1>3, ClockAssumption, SlotAssumption, Rates
     DEF PacingTyped, PacingTypeOK, ClockOK

LEMMA ShareTypes ==
  ASSUME PacingTyped, left > 0
  PROVE  Remaining \in Nat /\ Share \in Nat
<1>1. Remaining \in Nat /\ left \in Nat \ {0}
  BY PacingNumbers DEF Remaining
<1>2. \A n \in Nat, d \in Nat \ {0} : n \div d \in Nat
  OBVIOUS
<1> QED
  BY <1>1, <1>2 DEF Share

LEMMA AppendedTime ==
  ASSUME NEW s \in Seq(Nat), NEW t \in Nat
  PROVE  /\ Append(s, t) \in Seq(Nat) /\ Append(s, t) # <<>> /\ Len(s) \in Nat
         /\ Len(Append(s, t)) = Len(s) + 1 /\ DOMAIN s = 1..Len(s)
         /\ DOMAIN Append(s, t) = 1..(Len(s) + 1)
         /\ \A i \in 1..Len(s) : Append(s, t)[i] = s[i]
         /\ Append(s, t)[Len(s) + 1] = t
  OBVIOUS

LEMMA PacingTypedStep == PacingTyped /\ [PacingNext]_pacingVars => PacingTyped'
<1> SUFFICES ASSUME PacingTyped, [PacingNext]_pacingVars PROVE PacingTyped'
  OBVIOUS
<1> USE PacingNumbers
<1>1. CASE Wake \/ SkipEntry \/ Finish
  <2>1. /\ UNCHANGED <<now, elapsed, setBacks, late, rps, left, end, until, began, sends>>
        /\ pc' \in {"entry", "done"}
    BY <1>1 DEF Wake, SkipEntry, Finish, Goto, clock
  <2>2. entry' \in 0..Slots
    BY <1>1 DEF Wake, SkipEntry, Finish
  <2> QED
    BY <2>1, <2>2 DEF PacingTyped, PacingTypeOK, Sending, ClockOK
<1>2. CASE StartEntry
  <2>1. entry \in Entries
    BY <1>2 DEF StartEntry, Entries
  <2>2. SlotEnd \in Nat
    <3> DEFINE x == (now \div Slot) * Slot
    <3>1. x \in Int /\ now < x + Slot /\ now \in Nat
      BY SlotParts
    <3> HIDE DEF x
    <3> QED
      BY <3>1 DEF SlotEnd, x
  <2>3. rps[entry] \in Nat /\ rps[entry] > 0
    BY <1>2, <2>1 DEF StartEntry
  <2>4. began' \in Seq(Nat) /\ began' # <<>> /\ sends' = <<>>
    BY <1>2, AppendedTime DEF StartEntry
  <2>5. entry' \in 0..Slots
    BY <1>2 DEF StartEntry
  <2> QED
    BY <1>2, <2>2, <2>3, <2>4, <2>5
       DEF StartEntry, Goto, PacingTyped, PacingTypeOK, Sending, ClockOK, clock
<1>3. CASE Send
  <2>1. sends' \in Seq(Nat)
    BY <1>3, AppendedTime DEF Send
  <2> QED
    BY <1>3, <2>1 DEF Send, Goto, PacingTyped, PacingTypeOK, Sending, ClockOK, clock
<1>4. CASE Pace
  <2>1. Share \in Nat
    BY <1>4, ShareTypes DEF Pace, Goto, PacingTyped, Sending
  <2> QED
    BY <1>4, <2>1 DEF Pace, Goto, PacingTyped, PacingTypeOK, Sending, ClockOK, clock
<1>5. CASE EndSpin
  <2>1. /\ UNCHANGED <<now, elapsed, setBacks, late, rps, entry, end, until, began, sends>>
        /\ left' = left - 1 /\ pc = "spin" /\ pc' = IF left = 1 THEN "entry" ELSE "send"
    BY <1>5 DEF EndSpin, Goto, clock
  <2>2. left > 0 /\ began # <<>>
    BY <2>1 DEF PacingTyped, Sending
  <2>3. left' \in Nat /\ (pc' = "send" => left' > 0) /\ pc' \in {"entry", "send"}
    BY <2>1, <2>2
  <2>4. PacingTypeOK'
    BY <2>1, <2>3 DEF PacingTyped, PacingTypeOK, ClockOK
  <2>5. Sending' => left' > 0 /\ began' # <<>>
    BY <2>1, <2>2, <2>3 DEF Sending
  <2> QED
    BY <2>1, <2>4, <2>5 DEF PacingTyped
<1>6. CASE PassWaiting \/ PassLate
  <2>1. /\ now' = now + 1 /\ elapsed' = elapsed + 1 /\ elapsed < MaxTime /\ late' \in 0..MaxLate
        /\ UNCHANGED <<setBacks, rps, pc, entry, left, end, until, began, sends>>
    BY <1>6 DEF PassWaiting, PassLate, Pass, threadVars, PacingTyped, PacingTypeOK
  <2>2. /\ now \in Nat /\ elapsed \in Nat /\ now <= Start + elapsed
        /\ Start \in Nat /\ MaxTime \in Nat
    OBVIOUS
  <2>3. /\ now + 1 \in 0..(Start + MaxTime) /\ elapsed + 1 \in 0..MaxTime
        /\ now + 1 <= Start + (elapsed + 1)
    BY <2>1, <2>2
  <2> QED
    BY <2>1, <2>3 DEF PacingTyped, PacingTypeOK, Sending, ClockOK
<1>7. CASE TurnBack
  BY <1>7, ClockAssumption
     DEF TurnBack, SetBack, PacingTyped, PacingTypeOK, Sending, ClockOK, clock, threadVars
<1>8. CASE UNCHANGED pacingVars
  BY <1>8 DEF pacingVars, threadVars, clock, PacingTyped, PacingTypeOK, Sending, ClockOK
<1> QED
  BY <1>1, <1>2, <1>3, <1>4, <1>5, <1>6, <1>7, <1>8 DEF PacingNext, Thread

-------------------------------------------------------------------------------
(* The schedule.                                                           *)

LEMMA FirstDue == DueAt(1) = StartFrom
<1>1. (1 - 1) * Slot = 0
  BY SlotAssumption
<1> QED
  BY <1>1, Turns DEF DueAt

LEMMA ScheduledInit == PacingInit => Scheduled
<1> SUFFICES ASSUME PacingInit PROVE Scheduled
  OBVIOUS
<1>1. began = <<>> /\ Len(began) = 0 /\ DOMAIN began = {} /\ pc = "sleep" /\ now = Start /\ late = 0
  BY DEF PacingInit, ClockInit
<1>2. now <= DueAt(0 + 1) + late
  BY <1>1, FirstDue, Turns, ClockAssumption
<1> QED
  BY <1>1, <1>2 DEF Scheduled, BegunInTurn, NextInTurn

\* What holds while an entry is under way
LEMMA UnderWay ==
  ASSUME PacingTyped, BegunInTurn, NextInTurn, Sending, NEW n \in Nat, n = Len(began)
  PROVE  /\ n > 0 /\ left > 0 /\ began[n] \in Nat /\ DueAt(n + 1) \in Int
         /\ end = (began[n] \div Slot) * Slot + Slot
         /\ DueAt(n + 1) <= end /\ end <= DueAt(n + 1) + late
<1>1. began \in Seq(Nat) /\ began # <<>> /\ left > 0
  BY PacingNumbers DEF PacingTyped
<1>2. \A s \in Seq(Nat) : s # <<>> => Len(s) > 0 /\ Len(s) \in DOMAIN s /\ s[Len(s)] \in Nat
  OBVIOUS
<1>3. n > 0 /\ n \in DOMAIN began /\ began[n] \in Nat
  BY <1>1, <1>2
<1>4. end = (began[n] \div Slot) * Slot + Slot
  BY <1>3 DEF NextInTurn
<1>5. DueAt(n) <= began[n] /\ began[n] <= DueAt(n) + late
  BY <1>3 DEF BegunInTurn
<1>6. DueAt(n) \in Int /\ DueAt(n + 1) \in Int /\ DueAt(n + 1) = DueAt(n) + Slot /\ DueAt(n + 1) <= end
  BY <1>3, <1>4, <1>5, Turns
<1> DEFINE x == (began[n] \div Slot) * Slot
<1>7. x \in Int /\ x <= began[n] /\ end = x + Slot
  BY <1>3, <1>4, SlotParts
<1> HIDE DEF x
<1>8. end <= DueAt(n + 1) + late
  <2>1. late \in Nat /\ Slot \in Nat
    BY PacingNumbers
  <2>2. began[n] \in Int /\ DueAt(n) \in Int
    BY <1>3, <1>6
  <2>3. x + Slot <= (DueAt(n) + Slot) + late
    BY <1>5, <1>7, <2>1, <2>2
  <2> QED
    BY <1>6, <1>7, <2>3
<1> QED
  BY <1>1, <1>3, <1>4, <1>6, <1>8

\* A share is no more than what is left of the slot, and the last is all of it.
LEMMA ShareBounds ==
  ASSUME PacingTyped, left > 0
  PROVE  /\ Share \in Nat /\ Share <= Remaining /\ Remaining \in Nat
         /\ left = 1 => Share = Remaining
<1>1. left \in Nat \ {0} /\ Remaining \in Nat /\ Share \in Nat
  BY PacingNumbers, ShareTypes
<1>2. \A r \in Nat, l \in Nat \ {0} : r \div l <= r /\ r \div 1 = r
  <2> SUFFICES ASSUME NEW r \in Nat, NEW l \in Nat \ {0} PROVE r \div l <= r /\ r \div 1 = r
    OBVIOUS
  <2>1. r \div l \in Nat /\ r % l \in 0..(l - 1) /\ r = l * (r \div l) + (r % l)
    OBVIOUS
  <2> DEFINE d == r \div l
  <2> HIDE DEF d
  <2>2. d * 1 <= d * l /\ d * l = l * d /\ d * l \in Int /\ d * 1 = d
    BY <2>1, ProductOrder DEF d
  <2> QED
    BY <2>1, <2>2 DEF d
<1> QED
  BY <1>1, <1>2 DEF Share

\* A step that moves neither the clock nor the schedule keeps the past.
LEMMA BegunKept ==
  ASSUME PacingTyped, BegunInTurn, began' = began, late' \in Nat, late <= late'
  PROVE  BegunInTurn'
<1>1. PICK l \in Nat : l = late'
  OBVIOUS
<1>2. late \in Nat /\ began \in Seq(Nat) /\ late <= l
  BY <1>1, PacingNumbers
<1>3. ASSUME NEW k \in DOMAIN began PROVE DueAt(k) <= began[k] /\ began[k] <= DueAt(k) + l
  <2>1. k \in Int /\ began[k] \in Nat
    BY <1>2
  <2>2. DueAt(k) \in Int /\ DueAt(k) <= began[k] /\ began[k] <= DueAt(k) + late
    BY <2>1, Turns DEF BegunInTurn
  <2> QED
    BY <1>2, <2>1, <2>2
<1> QED
  BY <1>1, <1>3 DEF BegunInTurn

LEMMA ScheduledStart ==
  ASSUME PacingTyped, BegunInTurn, NextInTurn, StartEntry
  PROVE  BegunInTurn' /\ NextInTurn'
<1>1. PICK n \in Nat : n = Len(began)
  BY PacingNumbers, AppendedTime
<1>2. /\ began' = Append(began, now) /\ end' = SlotEnd /\ pc = "entry" /\ pc' = "send"
      /\ UNCHANGED <<now, late>>
  BY DEF StartEntry, Goto, clock
<1>3. /\ began \in Seq(Nat) /\ now \in Nat /\ late \in Nat /\ Slot \in Nat
  BY PacingNumbers
<1>4. /\ DOMAIN began = 1..n /\ Len(began') = n + 1 /\ DOMAIN began' = 1..(n + 1)
      /\ \A k \in 1..n : began'[k] = began[k] /\ began[k] \in Nat
      /\ began'[n + 1] = now
  BY <1>1, <1>2, <1>3, AppendedTime
<1>5. /\ DueAt(n + 1) <= now /\ now <= DueAt(n + 1) + late
      /\ n > 0 => end = (began[n] \div Slot) * Slot + Slot /\ end <= now
  BY <1>1, <1>2 DEF NextInTurn
<1>6. ASSUME NEW k \in DOMAIN began' PROVE DueAt(k) <= began'[k] /\ began'[k] <= DueAt(k) + late
  BY <1>4, <1>5, <1>6 DEF BegunInTurn
<1>7. ASSUME NEW j \in DOMAIN began', NEW k \in DOMAIN began', j < k
      PROVE  began'[j] \div Slot < began'[k] \div Slot
  <2>1. CASE k <= n
    BY <1>4, <1>7, <2>1 DEF BegunInTurn
  <2>2. CASE k = n + 1
    <3>1. n > 0 /\ n \in 1..n /\ j \in 1..n
      BY <1>4, <1>7, <2>2
    <3>2. began[n] \div Slot < now \div Slot
      <4>1. /\ began[n] \in Int /\ now \in Int
            /\ (began[n] \div Slot) * Slot + Slot <= now
        BY <1>3, <1>4, <1>5, <3>1
      <4> QED
        BY <4>1, LaterSlot
    <3>3. CASE j = n
      BY <1>4, <2>2, <3>1, <3>2, <3>3
    <3>4. CASE j < n
      <4>1. began[j] \div Slot < began[n] \div Slot
        BY <1>4, <3>1, <3>4 DEF BegunInTurn
      <4>2. began[j] \div Slot \in Int /\ began[n] \div Slot \in Int /\ now \div Slot \in Int
        BY <1>3, <1>4, <3>1, SlotParts
      <4>3. began[j] \div Slot < now \div Slot
        BY <3>2, <4>1, <4>2
      <4> QED
        BY <1>4, <2>2, <3>1, <4>3
    <3> QED
      BY <3>1, <3>3, <3>4
  <2> QED
    BY <1>4, <1>7, <2>1, <2>2
<1>8. BegunInTurn'
  BY <1>2, <1>6, <1>7 DEF BegunInTurn
<1>9. now <= DueAt((n + 1) + 1) + late
  <2>1. n + 1 \in Int
    OBVIOUS
  <2>2. DueAt(n + 1) \in Int /\ DueAt((n + 1) + 1) = DueAt(n + 1) + Slot
    BY <2>1, Turns
  <2> QED
    BY <1>3, <1>5, <2>2
<1>10. end' = (began'[n + 1] \div Slot) * Slot + Slot
  BY <1>2, <1>4 DEF SlotEnd
<1>11. now <= now
  BY <1>3
<1> QED
  BY <1>2, <1>4, <1>8, <1>9, <1>10, <1>11 DEF NextInTurn

LEMMA ScheduledStep == PacingTyped /\ Scheduled /\ [PacingNext]_pacingVars => Scheduled'
<1> SUFFICES ASSUME PacingTyped, Scheduled, [PacingNext]_pacingVars, setBacks' = 0
             PROVE  BegunInTurn' /\ NextInTurn'
  BY DEF Scheduled
<1>1. PICK n \in Nat : n = Len(began)
  BY PacingNumbers, AppendedTime
<1>2. /\ now \in Nat /\ late \in Nat /\ end \in Nat /\ until \in Nat /\ setBacks \in Nat
      /\ began \in Seq(Nat) /\ DueAt(n + 1) \in Int
  BY PacingNumbers, Turns
<1>3. ~TurnBack
  BY <1>2 DEF TurnBack, SetBack
<1>4. setBacks = 0
  BY <1>3 DEF PacingNext, Thread, Wake, StartEntry, SkipEntry, Send, Pace, EndSpin, Finish,
              PassWaiting, PassLate, Pass, pacingVars, clock
<1>5. BegunInTurn /\ NextInTurn
  BY <1>4 DEF Scheduled
<1>6. /\ n > 0 => end = (began[n] \div Slot) * Slot + Slot /\ began[n] <= now
      /\ now <= DueAt(n + 1) + late
      /\ pc \in {"entry", "done"} => DueAt(n + 1) <= now /\ (n > 0 => end <= now)
      /\ pc = "spin" => until <= DueAt(n + 1) + late /\ (left = 1 => end <= until)
      /\ pc = "sleep" => n = 0
  BY <1>1, <1>5 DEF NextInTurn
<1>7. CASE StartEntry
  BY <1>5, <1>7, ScheduledStart
<1>8. CASE PassWaiting \/ PassLate
  <2>1. UNCHANGED <<pc, left, end, until, began>> /\ now' = now + 1
    BY <1>8 DEF PassWaiting, PassLate, Pass, threadVars
  <2>2. late' \in Nat /\ late <= late' /\ now + 1 <= DueAt(n + 1) + late'
    <3>1. CASE PassWaiting
      <4>1. late' = late /\ ((pc = "sleep" /\ now < StartFrom) \/ (pc = "spin" /\ now < until))
        BY <3>1 DEF PassWaiting, Waits
      <4>2. now < DueAt(n + 1) + late
        <5>1. CASE pc = "sleep"
          <6>1. n + 1 = 1 /\ now < StartFrom
            BY <1>6, <4>1, <5>1
          <6>2. DueAt(n + 1) = StartFrom
            BY <6>1, FirstDue
          <6> QED
            BY <1>2, <6>1, <6>2
        <5>2. CASE pc # "sleep"
          BY <1>2, <1>6, <4>1, <5>2
        <5> QED
          BY <5>1, <5>2
      <4> QED
        BY <1>2, <4>1, <4>2
    <3>2. CASE PassLate
      <4>1. late' = late + 1
        BY <3>2 DEF PassLate
      <4>2. now + 1 <= DueAt(n + 1) + (late + 1)
        BY <1>2, <1>6
      <4> QED
        BY <1>2, <4>1, <4>2
    <3> QED
      BY <1>8, <3>1, <3>2
  <2>3. BegunInTurn'
    BY <1>5, <2>1, <2>2, BegunKept
  <2>4. n > 0 => began[n] \in Nat /\ began[n] <= now + 1
    BY <1>1, <1>2, <1>6
  <2>5. pc \in {"entry", "done"} => DueAt(n + 1) <= now + 1 /\ (n > 0 => end <= now + 1)
    BY <1>2, <1>6
  <2>6. pc = "spin" => until <= DueAt(n + 1) + late'
    BY <1>2, <1>6, <2>2
  <2> QED
    BY <1>1, <1>6, <2>1, <2>2, <2>3, <2>4, <2>5, <2>6 DEF NextInTurn
<1>9. CASE Wake \/ SkipEntry \/ Finish \/ Send \/ Pace \/ EndSpin \/ UNCHANGED pacingVars
  <2>1. UNCHANGED <<now, late, end, began>>
    BY <1>9 DEF Wake, SkipEntry, Finish, Send, Pace, EndSpin, pacingVars, threadVars, clock
  <2>2. BegunInTurn'
    BY <1>2, <1>5, <2>1, BegunKept
  <2>3. pc' = "sleep" => pc = "sleep"
    BY <1>9 DEF Wake, SkipEntry, Finish, Send, Pace, EndSpin, pacingVars, threadVars, Goto
  <2>4. pc' \in {"entry", "done"} => DueAt(n + 1) <= now /\ (n > 0 => end <= now)
    <3>1. CASE Wake
      BY <1>2, <1>6, <3>1, FirstDue DEF Wake, Goto
    <3>2. CASE SkipEntry \/ Finish
      BY <1>6, <3>2 DEF SkipEntry, Finish, Goto
    <3>3. CASE Send \/ Pace
      BY <3>3 DEF Send, Pace, Goto
    <3>4. CASE EndSpin
      <4>1. pc = "spin" /\ now >= until /\ (pc' = "entry" => left = 1) /\ pc' # "done"
        BY <3>4 DEF EndSpin, Goto
      <4>2. DueAt(n + 1) <= end
        BY <1>1, <1>5, <4>1, UnderWay DEF Sending
      <4> QED
        BY <1>2, <1>6, <4>1, <4>2
    <3>5. CASE UNCHANGED pacingVars
      BY <1>6, <3>5 DEF pacingVars, threadVars
    <3> QED
      BY <1>9, <3>1, <3>2, <3>3, <3>4, <3>5
  <2>5. pc' = "spin" => until' <= DueAt(n + 1) + late /\ (left' = 1 => end <= until')
    <3>1. CASE Pace
      <4>1. pc = "pace" /\ until' = now + Share /\ left' = left
        BY <3>1 DEF Pace, Goto
      <4>2. left > 0 /\ end <= DueAt(n + 1) + late
        BY <1>1, <1>5, <4>1, UnderWay DEF Sending
      <4>3. Share \in Nat /\ Share <= Remaining /\ (left = 1 => Share = Remaining)
        BY <4>2, ShareBounds
      <4>4. now + Remaining <= DueAt(n + 1) + late /\ end <= now + Remaining /\ Remaining \in Nat
        BY <1>2, <1>6, <4>2 DEF Remaining
      <4>5. now + Share <= DueAt(n + 1) + late /\ (left = 1 => end <= now + Share)
        BY <1>2, <4>3, <4>4
      <4> QED
        BY <4>1, <4>5
    <3>2. CASE ~Pace
      <4>1. pc' = "spin" => UNCHANGED pacingVars
        BY <1>9, <3>2 DEF Wake, SkipEntry, Finish, Send, EndSpin, Goto
      <4> QED
        BY <1>6, <4>1 DEF pacingVars, threadVars
    <3> QED
      BY <3>1, <3>2
  <2> QED
    BY <1>1, <1>6, <2>1, <2>2, <2>3, <2>4, <2>5 DEF NextInTurn
<1> QED
  BY <1>3, <1>7, <1>8, <1>9 DEF PacingNext, Thread

-------------------------------------------------------------------------------
(* The requests of an entry.                                               *)

LEMMA SpreadInit == PacingInit => Spread
<1> SUFFICES ASSUME PacingInit PROVE Spread
  OBVIOUS
<1>1. sends = <<>> /\ Len(sends) = 0 /\ DOMAIN sends = {} /\ pc = "sleep"
  BY DEF PacingInit
<1>2. SpreadBy(0)
  BY <1>1 DEF SpreadBy
<1> QED
  BY <1>2 DEF Spread

LEMMA SpreadSend ==
  ASSUME PacingTyped, NextInTurn, NEW q \in Nat, SpreadBy(q), Send
  PROVE  SpreadBy(q)'
<1>1. PICK n, m \in Nat : n = Len(began) /\ m = Len(sends)
  BY PacingNumbers, AppendedTime
<1>2. /\ sends' = Append(sends, now) /\ pc = "send" /\ pc' = "pace"
      /\ UNCHANGED <<now, end, began, left>>
  BY DEF Send, Goto, clock
<1>3. sends \in Seq(Nat) /\ began \in Seq(Nat) /\ now \in Nat
  BY PacingNumbers
<1>4. /\ DOMAIN sends = 1..m /\ Len(sends') = m + 1 /\ DOMAIN sends' = 1..(m + 1)
      /\ \A i \in 1..m : sends'[i] = sends[i]
      /\ sends'[m + 1] = now
  BY <1>1, <1>2, <1>3, AppendedTime
<1>5. /\ \A i \in 1..(m - 1) : sends[i + 1] - sends[i] \in q..(q + 1)
      /\ \A i \in 1..m : began[n] <= sends[i] /\ sends[i] < end
      /\ now < end /\ Shared(q, left, end - now)
      /\ m > 0 => now - sends[m] \in q..(q + 1)
  BY <1>1, <1>2, <1>4 DEF SpreadBy
<1>6. began[n] <= now
  <2>1. Sending
    BY <1>2 DEF Sending
  <2>2. n > 0
    BY <1>1, <1>3, <2>1, AppendedTime DEF PacingTyped
  <2> QED
    BY <1>1, <2>2 DEF NextInTurn
<1>7. ASSUME NEW i \in 1..((m + 1) - 1) PROVE sends'[i + 1] - sends'[i] \in q..(q + 1)
  <2>1. CASE i = m
    BY <1>4, <1>5, <2>1
  <2>2. CASE i < m
    <3>1. i \in 1..(m - 1) /\ i \in 1..m /\ i + 1 \in 1..m
      BY <2>2
    <3> QED
      BY <1>4, <1>5, <3>1
  <2> QED
    BY <2>1, <2>2
<1>8. ASSUME NEW i \in DOMAIN sends' PROVE began[n] <= sends'[i] /\ sends'[i] < end
  BY <1>4, <1>5, <1>6
<1>9. m + 1 > 0
  OBVIOUS
<1> QED
  BY <1>1, <1>2, <1>4, <1>5, <1>7, <1>8, <1>9 DEF SpreadBy

LEMMA SpreadPace ==
  ASSUME PacingTyped, NEW q \in Nat, SpreadBy(q), Pace
  PROVE  SpreadBy(q)'
<1>1. PICK m \in Nat : m = Len(sends)
  BY PacingNumbers, AppendedTime
<1>2. /\ pc = "pace" /\ pc' = "spin" /\ until' = now + Share
      /\ UNCHANGED <<now, end, began, left, sends>>
  BY DEF Pace, Goto, clock
<1>3. left > 0
  BY <1>2 DEF PacingTyped, Sending
<1>4. left \in Nat \ {0} /\ now \in Nat /\ end \in Nat
  BY <1>3, PacingNumbers
<1>5. now < end /\ Shared(q, left, end - now) /\ m > 0 /\ sends[m] = now
  BY <1>1, <1>2 DEF SpreadBy
<1>6. end - now \in Nat \ {0} /\ Remaining = end - now
  BY <1>4, <1>5 DEF Remaining
<1>7. Share = (end - now) \div left /\ Share \in Nat
  BY <1>3, <1>6, ShareTypes DEF Share
<1>8. /\ Share \in q..(q + 1) /\ Shared(q, left - 1, (end - now) - Share)
      /\ left > 1 => Share < end - now
  BY <1>4, <1>5, <1>6, <1>7, NextShare
<1>9. PICK u \in Nat : u = now + Share
  BY <1>4, <1>7
<1>10. /\ u - sends[m] \in q..(q + 1) /\ now <= u /\ (left > 1 => u < end)
       /\ end - u = (end - now) - Share
  BY <1>4, <1>5, <1>7, <1>8, <1>9
<1>11. Shared(q, left - 1, end - u)
  BY <1>8, <1>10
<1>12. until' = u
  BY <1>2, <1>9
<1> QED
  BY <1>1, <1>2, <1>5, <1>10, <1>11, <1>12 DEF SpreadBy

LEMMA SpreadStart ==
  ASSUME PacingTyped, StartEntry
  PROVE  \E q \in Nat : SpreadBy(q)'
<1>1. /\ sends' = <<>> /\ pc' = "send" /\ now' = now /\ end' = SlotEnd /\ left' = rps[entry]
      /\ rps[entry] > 0 /\ entry < Slots
  BY DEF StartEntry, Goto, clock
<1>2. now \in Nat /\ rps[entry] \in Nat \ {0} /\ SlotEnd \in Nat
  <2>1. entry \in Entries
    BY <1>1, PacingNumbers DEF Entries
  <2>2. SlotEnd \in Nat
    BY <1>1, PacingTypedStep DEF PacingNext, Thread, PacingTyped, PacingTypeOK
  <2> QED
    BY <1>1, <2>1, <2>2, PacingNumbers
<1>3. now < SlotEnd
  BY <1>2, SlotParts DEF SlotEnd
<1>4. PICK e \in Nat, l \in Nat \ {0} : e = SlotEnd /\ l = rps[entry]
  BY <1>2
<1>5. e - now \in Nat /\ now < e
  BY <1>2, <1>3, <1>4
<1>6. PICK q \in Nat : Shared(q, l, e - now)
  BY <1>4, <1>5, FirstShare
<1>7. Len(sends') = 0 /\ DOMAIN sends' = {}
  BY <1>1
<1>8. SpreadBy(q)'
  BY <1>1, <1>4, <1>5, <1>6, <1>7 DEF SpreadBy
<1> QED
  BY <1>8

LEMMA SpreadStep == PacingTyped /\ Scheduled /\ Spread /\ [PacingNext]_pacingVars => Spread'
<1> SUFFICES ASSUME PacingTyped, Scheduled, Spread, [PacingNext]_pacingVars,
                    setBacks' = 0, late' = 0
             PROVE  \E q \in Nat : SpreadBy(q)'
  BY DEF Spread
<1>1. /\ now \in Nat /\ late \in Nat /\ end \in Nat /\ until \in Nat /\ setBacks \in Nat
      /\ left \in Nat /\ sends \in Seq(Nat)
  BY PacingNumbers
<1>2. ~TurnBack /\ ~PassLate
  BY <1>1 DEF TurnBack, SetBack, PassLate
<1>3. setBacks = 0 /\ late = 0
  BY <1>2 DEF PacingNext, Thread, Wake, StartEntry, SkipEntry, Send, Pace, EndSpin, Finish,
              PassWaiting, Pass, pacingVars, clock
<1>4. NextInTurn
  BY <1>3 DEF Scheduled
<1>5. PICK q \in Nat : SpreadBy(q)
  BY <1>3 DEF Spread
<1>6. CASE StartEntry
  BY <1>6, SpreadStart
<1>7. CASE Send
  BY <1>4, <1>5, <1>7, SpreadSend
<1>8. CASE Pace
  BY <1>5, <1>8, SpreadPace
<1>9. CASE EndSpin
  <2>1. /\ pc = "spin" /\ now >= until /\ left' = left - 1
        /\ pc' = IF left = 1 THEN "entry" ELSE "send"
        /\ UNCHANGED <<now, end, began, sends>>
    BY <1>9 DEF EndSpin, Goto, clock
  <2>2. now <= until /\ left > 0
    BY <1>5, <2>1 DEF SpreadBy, PacingTyped, Sending
  <2>3. now = until
    BY <1>1, <2>1, <2>2
  <2>4. CASE left = 1
    <3>1. pc' = "entry"
      BY <2>1, <2>4
    <3> QED
      BY <1>5, <2>1, <3>1 DEF SpreadBy
  <2>5. CASE left # 1
    <3>1. pc' = "send" /\ left > 1
      BY <1>1, <2>1, <2>2, <2>5
    <3>2. SpreadBy(q)'
      BY <1>5, <2>1, <2>3, <3>1 DEF SpreadBy
    <3> QED
      BY <3>2
  <2> QED
    BY <2>4, <2>5
<1>10. CASE PassWaiting
  <2>1. /\ now' = now + 1 /\ UNCHANGED <<pc, end, began, sends, until, left>>
        /\ pc = "sleep" \/ (pc = "spin" /\ now < until)
    BY <1>10 DEF PassWaiting, Waits, Pass, threadVars
  <2>2. pc = "spin" => now + 1 <= until
    BY <1>1, <2>1
  <2>3. SpreadBy(q)'
    BY <1>5, <2>1, <2>2 DEF SpreadBy
  <2> QED
    BY <2>3
<1>11. CASE Wake \/ SkipEntry \/ Finish
  <2>1. UNCHANGED <<now, end, began, sends>> /\ pc' \in {"entry", "done"}
    BY <1>11 DEF Wake, SkipEntry, Finish, Goto, clock
  <2> QED
    BY <1>5, <2>1 DEF SpreadBy
<1>12. CASE UNCHANGED pacingVars
  BY <1>5, <1>12 DEF SpreadBy, pacingVars, threadVars, clock
<1> QED
  BY <1>2, <1>6, <1>7, <1>8, <1>9, <1>10, <1>11, <1>12 DEF PacingNext, Thread

-------------------------------------------------------------------------------
(* The theorems.                                                           *)

LEMMA EvenlySent ==
  ASSUME PacingTyped, NextInTurn, NEW q \in Nat, SpreadBy(q)
  PROVE  Even
<1>1. PICK n, m \in Nat : n = Len(began) /\ m = Len(sends)
  BY PacingNumbers, AppendedTime
<1>2. began \in Seq(Nat) /\ sends \in Seq(Nat) /\ DOMAIN sends = 1..m
  BY <1>1, PacingNumbers, AppendedTime
<1>3. ASSUME NEW i \in DOMAIN sends PROVE sends[i] \div Slot = began[n] \div Slot
  <2>1. n > 0 /\ began[n] \in Nat /\ sends[i] \in Nat
    <3>1. sends # <<>>
      BY <1>2
    <3>2. \A s \in Seq(Nat) : s # <<>> => Len(s) > 0 /\ s[Len(s)] \in Nat
      OBVIOUS
    <3> QED
      BY <1>1, <1>2, <3>1, <3>2 DEF PacingTyped
  <2>2. began[n] <= sends[i] /\ sends[i] < (began[n] \div Slot) * Slot + Slot
    BY <1>1, <2>1 DEF SpreadBy, NextInTurn
  <2> QED
    BY <2>1, <2>2, SameSlot
<1>4. ASSUME NEW i \in 1..(m - 1), NEW j \in 1..(m - 1)
      PROVE  sends[i + 1] - sends[i] <= (sends[j + 1] - sends[j]) + 1
  <2>1. sends[i + 1] - sends[i] \in q..(q + 1) /\ sends[j + 1] - sends[j] \in q..(q + 1)
    BY <1>1 DEF SpreadBy
  <2> QED
    BY <2>1
<1> QED
  BY <1>1, <1>3, <1>4 DEF Even

LEMMA WellPacedHolds == PacingTyped /\ Scheduled /\ Spread => WellPaced
<1> SUFFICES ASSUME PacingTyped, Scheduled, Spread, setBacks = 0
             PROVE  OnSchedule /\ (late = 0 => Even)
  BY DEF WellPaced
<1>1. BegunInTurn /\ NextInTurn
  BY DEF Scheduled
<1>2. OnSchedule
  BY <1>1 DEF BegunInTurn, NextInTurn, OnSchedule
<1>3. late = 0 => Even
  BY <1>1, EvenlySent DEF Spread
<1> QED
  BY <1>2, <1>3

LEMMA PacingInvariance == PacingSpec => [](PacingTyped /\ Scheduled /\ Spread)
<1>1. PacingInit => PacingTyped /\ Scheduled /\ Spread
  BY PacingTypedInit, ScheduledInit, SpreadInit
<1>2. PacingTyped /\ Scheduled /\ Spread /\ [PacingNext]_pacingVars
        => (PacingTyped /\ Scheduled /\ Spread)'
  BY PacingTypedStep, ScheduledStep, SpreadStep
<1> QED
  BY <1>1, <1>2, PTL DEF PacingSpec

\* Every variable of the pacing keeps its type, and each of the four workloads
\* keeps to the rates it was given, for any rates and any values of the sine.
THEOREM PacingTypeCorrect == PacingSpec => []PacingTypeOK
<1>1. PacingTyped => PacingTypeOK
  BY DEF PacingTyped
<1> QED
  BY <1>1, PacingInvariance, PTL

\* However the thread is delayed, no entry begins before its turn or later than
\* the time that was lost, and no two in one slot; without delays the requests of
\* an entry fall in its slot, their distances even to a tick.
THEOREM WellPacedCorrect == PacingSpec => []WellPaced
  BY PacingInvariance, WellPacedHolds, PTL

===============================================================================
