------------------- MODULE LeakyBucketCentralizedSet_proofs -------------------
(***************************************************************************)
(* Theorems about LeakyBucketCentralizedSet: for any requests, batch size, *)
(* period and queue cap, and any number of times the clock is set back,    *)
(* both bounds on the rate hold, and every request is answered once.       *)
(***************************************************************************)
EXTENDS LeakyBucketCentralizedSet, FiniteSetTheorems, TLAPS

\* The clock, however often it was set back, is not ahead of the real time.
Behind == now <= Start + elapsed

\* Batches are booked under the start of their period.
Aligned == \E k \in Int : lastCheck = TimeDelta * k

Typed ==
  /\ LoopOK /\ Behind
  /\ queue \subseteq Response
  /\ lastCheck \in 0..(Start + MaxTime) /\ Aligned
  /\ processed \in 0..RequestsToProcess
  /\ pc # "admit" => processed = 0

\* A prepared response is a rejection of a request that was read and is in the
\* queue once.
Prepared ==
  /\ \A q \in queue : /\ Asked(q) \in Requests /\ Asked(q) \notin unread
                      /\ ~q.allowed /\ q.retry = (q.attempt < LastAttempt)
  /\ \A p, q \in queue : Asked(p) = Asked(q) => p = q

Sizes == IsFiniteSet(queue) /\ Cardinality(queue) <= QueueCap + 1

LEMMA OneMore ==
  ASSUME NEW S, IsFiniteSet(S), NEW x
  PROVE  /\ IsFiniteSet(S \cup {x}) /\ Cardinality(S) \in Nat
         /\ Cardinality(S \cup {x}) \in Nat /\ Cardinality(S \cup {x}) <= Cardinality(S) + 1
<1>1. Cardinality(S) \in Nat
  BY FS_CardinalityType
<1>2. /\ IsFiniteSet(S \cup {x})
      /\ Cardinality(S \cup {x}) = IF x \in S THEN Cardinality(S) ELSE Cardinality(S) + 1
  BY FS_AddElement
<1> QED
  BY <1>1, <1>2

LEMMA OneLess ==
  ASSUME NEW S, IsFiniteSet(S), NEW x \in S
  PROVE  /\ IsFiniteSet(S \ {x}) /\ Cardinality(S) \in Nat
         /\ Cardinality(S \ {x}) \in Nat /\ Cardinality(S \ {x}) = Cardinality(S) - 1
<1>1. Cardinality(S) \in Nat
  BY FS_CardinalityType
<1>2. /\ IsFiniteSet(S \ {x})
      /\ Cardinality(S \ {x}) = Cardinality(S) - 1
  BY FS_RemoveElement
<1>3. Cardinality(S \ {x}) \in Nat
  BY <1>2, FS_CardinalityType
<1> QED
  BY <1>1, <1>2, <1>3

-------------------------------------------------------------------------------
(* Products and quotients.                                                 *)

LEMMA Distribute ==
  ASSUME NEW r \in Int, NEW x \in Int
  PROVE  r * (x + 1) = r * x + r /\ r * x \in Int
OBVIOUS

LEMMA ProductOrder ==
  ASSUME NEW r \in Nat, NEW x \in Int, NEW y \in Int, x <= y
  PROVE  r * x <= r * y /\ r * x \in Int /\ r * y \in Int
<1>1. PICK d \in Nat : y = x + d
  <2>1. y - x \in Nat /\ y = x + (y - x)
    OBVIOUS
  <2> QED
    BY <2>1
<1>2. r * y = r * x + r * d /\ r * d \in Nat /\ r * x \in Int
  BY <1>1
<1> QED
  BY <1>2

LEMMA Quotient ==
  ASSUME NEW a \in Int, NEW b \in Nat \ {0}, NEW n \in Int, a * b <= n
  PROVE  a <= n \div b /\ n \div b \in Int
<1>1. n \div b \in Int /\ n % b \in 0..(b - 1) /\ n = b * (n \div b) + (n % b)
  OBVIOUS
<1> DEFINE q == n \div b
<1>2. q \in Int /\ b * q > n - b
  BY <1>1
<1> HIDE DEF q
<1>3. SUFFICES ASSUME q + 1 <= a PROVE FALSE
  BY <1>1, <1>2 DEF q
<1>4. b * (q + 1) <= b * a
  BY <1>2, <1>3, ProductOrder
<1>5. b * (q + 1) = b * q + b
  BY <1>2, Distribute
<1> QED
  BY <1>2, <1>4, <1>5

LEMMA PeriodStart ==
  ASSUME NEW t \in Nat, TimeDelta \in Nat \ {0}
  PROVE  /\ PeriodOf(t) \in Nat /\ t % TimeDelta \in 0..(TimeDelta - 1)
         /\ PeriodOf(t) = t - (t % TimeDelta) /\ PeriodOf(t) <= t
         /\ \E k \in Int : PeriodOf(t) = TimeDelta * k
<1>1. /\ t \div TimeDelta \in Nat /\ t % TimeDelta \in 0..(TimeDelta - 1)
      /\ t = TimeDelta * (t \div TimeDelta) + (t % TimeDelta)
  OBVIOUS
<1> DEFINE k == t \div TimeDelta
           m == t % TimeDelta
<1>2. k \in Nat /\ TimeDelta * k \in Nat
  BY <1>1
<1> HIDE DEF k, m
<1>3. t - m = TimeDelta * k /\ m \in 0..(TimeDelta - 1)
  BY <1>1, <1>2 DEF k, m
<1> QED
  BY <1>2, <1>3 DEF m, PeriodOf

\* Two starts of periods are a period apart.
LEMMA PeriodsApart ==
  ASSUME NEW d \in Nat \ {0}, NEW j \in Int, NEW k \in Int, d * j < d * k
  PROVE  d * j + d <= d * k
<1>1. j < k
  <2> SUFFICES ASSUME k <= j PROVE FALSE
    OBVIOUS
  <2> QED
    BY ProductOrder
<1>2. d * (j + 1) <= d * k
  BY <1>1, ProductOrder
<1> QED
  BY <1>2, Distribute

-------------------------------------------------------------------------------
(* Types.                                                                  *)

LEMMA RejectionType ==
  ASSUME Typed, NEW r \in Requests
  PROVE  /\ Rejection(r) \in Response /\ Asked(Rejection(r)) = r
         /\ ~Rejection(r).allowed /\ Rejection(r).retry = (Rejection(r).attempt < LastAttempt)
<1>1. /\ r \in [id : Nat, attempt : Attempts] /\ now \in Nat
      /\ (r.attempt < LastAttempt) \in BOOLEAN
  BY RequestsAssumption, ClockAssumption DEF Typed, LoopOK, ClockOK, Attempts, LastAttempt
<1>2. r = [id |-> r.id, attempt |-> r.attempt] /\ r.id \in Nat /\ r.attempt \in Attempts
  BY <1>1
<1> QED
  BY <1>1, <1>2 DEF Rejection, Response, Asked

\* What AddRequest does to the queue: the request is read, and its prepared
\* response is put in, or another is taken out.
LEMMA AddShape ==
  ASSUME Typed, Sizes, AddRequest
  PROVE  \E r \in unread :
           /\ unread' = unread \ {r}
           /\ queue' \subseteq queue \cup {Rejection(r)}
           /\ IsFiniteSet(queue') /\ Cardinality(queue') <= QueueCap + 1
           /\ out' \subseteq out \cup queue \cup {Rejection(r)}
           /\ UNCHANGED <<clock, sent, admitted>> /\ pc = "read" /\ pc' = "update"
<1>1. PICK r \in unread :
        /\ Read(r)
        /\ Enqueue(Rejection(r)) \/ Evict(Rejection(r)) \/ TurnAway(Rejection(r))
  BY DEF AddRequest
<1> DEFINE new == Rejection(r)
<1> HIDE DEF new
<1>2. IsFiniteSet(queue) /\ Cardinality(queue) \in Nat /\ QueueCap \in Nat
  BY FS_CardinalityType, QueueAssumption DEF Sizes
<1>3. /\ queue' \subseteq queue \cup {new} /\ out' \subseteq out \cup queue \cup {new}
      /\ IsFiniteSet(queue') /\ Cardinality(queue') <= QueueCap + 1
  <2>1. CASE Enqueue(new)
    <3>1. queue' = queue \cup {new} /\ out' = out /\ Cardinality(queue) <= QueueCap
      BY <1>2, <2>1 DEF Enqueue, QueueFull
    <3>2. /\ IsFiniteSet(queue') /\ Cardinality(queue') \in Nat
          /\ Cardinality(queue') <= Cardinality(queue) + 1
      BY <1>2, <3>1, OneMore
    <3> QED
      BY <1>2, <3>1, <3>2
  <2>2. CASE Evict(new)
    <3>1. PICK last \in queue : /\ out' = out \cup {last}
                                /\ queue' = (queue \ {last}) \cup {new}
      BY <2>2 DEF Evict
    <3>2. IsFiniteSet(queue \ {last}) /\ Cardinality(queue \ {last}) = Cardinality(queue) - 1
      BY <1>2, OneLess
    <3>3. /\ IsFiniteSet(queue') /\ Cardinality(queue') \in Nat
          /\ Cardinality(queue') <= Cardinality(queue \ {last}) + 1
      BY <3>1, <3>2, OneMore
    <3> QED
      BY <1>2, <3>1, <3>2, <3>3 DEF Sizes
  <2>3. CASE TurnAway(new)
    BY <1>2, <2>3 DEF TurnAway, Sizes
  <2> QED
    BY <1>1, <2>1, <2>2, <2>3 DEF new
<1> QED
  BY <1>1, <1>3 DEF new, Read, Goto

\* What Release does: the first response is admitted.
LEMMA ReleaseShape ==
  ASSUME Typed, Prepared, Release
  PROVE  \E x \in queue : \E a, g :
           /\ IsFirst(x, queue) /\ queue' = queue \ {x}
           /\ a \in Response /\ a.allowed /\ ~a.retry /\ Asked(a) = Asked(x)
           /\ out' = out \cup {a}
           /\ g.at = elapsed /\ admitted' = admitted \cup {g}
           /\ g \in [of : Requests, at : 0..MaxTime]
           /\ processed' = processed + 1 /\ processed < RequestsToProcess
           /\ UNCHANGED <<clock, sent, unread, lastCheck>> /\ pc = "admit" /\ pc' = "admit"
<1>1. PICK x \in queue : IsFirst(x, queue) /\ Give(x) /\ queue' = queue \ {x}
  BY DEF Release
<1> DEFINE a == [x EXCEPT !.allowed = TRUE, !.retry = FALSE, !.ts = now]
           g == [of |-> Asked(x), at |-> elapsed]
<1>2. now \in Nat /\ elapsed \in 0..MaxTime
  BY ClockAssumption DEF Typed, LoopOK, ClockOK
<1>3. x \in Response
  BY DEF Typed
<1>4. a \in Response /\ a.allowed /\ ~a.retry /\ Asked(a) = Asked(x)
  BY <1>2, <1>3 DEF Response, Asked
<1>5. g \in [of : Requests, at : 0..MaxTime] /\ g.at = elapsed
  BY <1>2 DEF Prepared
<1>6. processed < RequestsToProcess
  BY BucketAssumption DEF Typed, Release, BatchFull
<1>7. /\ out' = out \cup {a} /\ admitted' = admitted \cup {g}
      /\ processed' = processed + 1
      /\ UNCHANGED <<clock, sent, unread, lastCheck>> /\ pc = "admit" /\ pc' = "admit"
  BY <1>1 DEF Release, Give
<1> HIDE DEF a, g
<1> QED
  BY <1>1, <1>4, <1>5, <1>6, <1>7

\* The other steps move no request.
LEMMA Steps ==
  ASSUME [Next]_vars, ~Release, ~Add
  PROVE  UNCHANGED <<unread, admitted, queue>> /\ out' \cup sent' = out \cup sent
  BY DEF Next, vars, PassTime, Wait, Open, Mark, EndBatch, FlushResponses, Flush,
         Idle, ReadNothing, Goto, answerVars

LEMMA ClockStep ==
  ASSUME Typed, [Next]_vars
  PROVE  ClockOK' /\ Behind'
<1>1. CASE PassTime
  <2>1. CASE Pass
    BY <2>1, ClockAssumption DEF Pass, Typed, LoopOK, ClockOK, Behind
  <2>2. CASE SetBack
    BY <2>2, ClockAssumption DEF SetBack, Typed, LoopOK, ClockOK, Behind
  <2> QED
    BY <1>1, <2>1, <2>2 DEF PassTime, Tick
<1>2. CASE ~PassTime
  <2>1. UNCHANGED clock
    BY <1>2 DEF Next, vars, Wait, Open, Mark, Release, EndBatch, FlushResponses, Flush,
               Idle, ReadNothing, Add, AddRequest, Read
  <2> QED
    BY <2>1 DEF clock, Typed, LoopOK, ClockOK, Behind
<1> QED
  BY <1>1, <1>2

LEMMA TypeInit == Init => Typed /\ Prepared /\ Sizes
<1> SUFFICES ASSUME Init PROVE Typed /\ Prepared /\ Sizes
  OBVIOUS
<1>1. IsFiniteSet({}) /\ Cardinality({}) = 0
  BY FS_EmptySet
<1>2. /\ Start \in Nat /\ lastCheck \in Nat /\ lastCheck <= Start
      /\ \E k \in Int : lastCheck = TimeDelta * k
  BY ClockAssumption, BucketAssumption, PeriodStart DEF Init
<1> QED
  BY <1>1, <1>2, ClockAssumption, QueueAssumption, BucketAssumption
     DEF Init, LoopInit, ClockInit, Typed, LoopOK, ClockOK, Behind, Aligned, Prepared, Sizes

LEMMA TypeStep ==
  ASSUME Typed, Prepared, Sizes, [Next]_vars
  PROVE  Typed'
<1>0. ClockOK' /\ Behind'
  BY ClockStep
<1>1. CASE Release
  <2>1. PICK x, a, g :
          /\ x \in queue /\ queue' = queue \ {x} /\ a \in Response /\ out' = out \cup {a}
          /\ admitted' = admitted \cup {g} /\ g \in [of : Requests, at : 0..MaxTime]
          /\ processed' = processed + 1 /\ processed < RequestsToProcess
          /\ UNCHANGED <<sent, unread, lastCheck>> /\ pc = "admit" /\ pc' = "admit"
    BY <1>1, ReleaseShape
  <2> QED
    BY <1>0, <2>1, BucketAssumption DEF Typed, LoopOK, Aligned
<1>2. CASE Add
  <2>1. PICK r \in unread :
          /\ unread' = unread \ {r}
          /\ queue' \subseteq queue \cup {Rejection(r)}
          /\ out' \subseteq out \cup queue \cup {Rejection(r)}
          /\ UNCHANGED <<sent, admitted>> /\ pc = "read" /\ pc' = "update"
    BY <1>2, AddShape DEF Add
  <2>2. Rejection(r) \in Response
    BY RejectionType DEF Typed, LoopOK
  <2> QED
    BY <1>0, <1>2, <2>1, <2>2 DEF Add, Typed, LoopOK, Aligned
<1>3. CASE ~Release /\ ~Add
  <2>1. UNCHANGED <<unread, admitted, queue>> /\ out' \cup sent' = out \cup sent
    BY <1>3, Steps
  <2>2. lastCheck' = lastCheck \/ lastCheck' = PeriodOf(now)
    BY <1>3 DEF Next, vars, PassTime, Wait, Open, Mark, EndBatch, FlushResponses, Idle
  <2>3. lastCheck' \in 0..(Start + MaxTime) /\ Aligned'
    <3>1. CASE lastCheck' = lastCheck
      BY <3>1 DEF Typed, Aligned
    <3>2. CASE lastCheck' = PeriodOf(now)
      <4>1. now \in Nat /\ now <= Start + MaxTime /\ Start \in Nat /\ MaxTime \in Nat
        BY ClockAssumption DEF Typed, LoopOK, ClockOK
      <4>2. /\ PeriodOf(now) \in Nat /\ PeriodOf(now) <= now
            /\ \E k \in Int : PeriodOf(now) = TimeDelta * k
        BY <4>1, BucketAssumption, PeriodStart
      <4> QED
        BY <3>2, <4>1, <4>2 DEF Aligned
    <3> QED
      BY <2>2, <3>1, <3>2
  <2>4. (processed' = processed /\ pc' = pc) \/ (processed' = processed /\ pc # "admit")
        \/ processed' = 0
    BY <1>3 DEF Next, vars, PassTime, Wait, Open, Mark, EndBatch, FlushResponses, Flush,
               Idle, ReadNothing, Goto
  <2>5. pc' \in {"update", "expire", "mark", "admit", "book", "flush", "read"}
    BY <1>3 DEF Next, vars, PassTime, Wait, Open, Mark, EndBatch, FlushResponses, Flush,
               Idle, ReadNothing, Goto, Typed, LoopOK
  <2> QED
    BY <1>0, <2>1, <2>3, <2>4, <2>5, BucketAssumption DEF Typed, LoopOK
<1> QED
  BY <1>1, <1>2, <1>3

LEMMA PreparedStep ==
  ASSUME Typed, Prepared, Sizes, [Next]_vars
  PROVE  Prepared'
<1>1. CASE Add
  <2>1. PICK r \in unread : /\ unread' = unread \ {r}
                            /\ queue' \subseteq queue \cup {Rejection(r)}
    BY <1>1, AddShape DEF Add
  <2>2. /\ r \in Requests /\ Asked(Rejection(r)) = r
        /\ ~Rejection(r).allowed /\ Rejection(r).retry = (Rejection(r).attempt < LastAttempt)
    BY RejectionType DEF Typed, LoopOK
  <2> DEFINE new == Rejection(r)
  <2> HIDE DEF new
  <2> QED
    BY <2>1, <2>2 DEF Prepared, new
<1>2. CASE ~Add
  <2>1. queue' \subseteq queue /\ UNCHANGED unread
    BY <1>2, Steps DEF Release
  <2> QED
    BY <2>1 DEF Prepared
<1> QED
  BY <1>1, <1>2

LEMMA SizesStep ==
  ASSUME Typed, Prepared, Sizes, [Next]_vars
  PROVE  Sizes'
<1>1. CASE Release
  <2>1. PICK x \in queue : queue' = queue \ {x}
    BY <1>1 DEF Release
  <2>2. /\ IsFiniteSet(queue') /\ Cardinality(queue') = Cardinality(queue) - 1
        /\ Cardinality(queue) \in Nat
    BY <2>1, OneLess DEF Sizes
  <2> QED
    BY <2>2, QueueAssumption DEF Sizes
<1>2. CASE Add
  BY <1>2, AddShape DEF Add, Sizes
<1>3. CASE ~Release /\ ~Add
  BY <1>3, Steps DEF Sizes
<1> QED
  BY <1>1, <1>2, <1>3

-------------------------------------------------------------------------------
(* The rates.  The argument follows the batches: s of the times the clock  *)
(* was set back have brought a batch forward, and b is a time at or before *)
(* the start of the period of the last batch.  Unless a set-back is still  *)
(* to do so, the limiter sees no more time pass since the start of that    *)
(* period than passed since b.                                             *)

Counted == IsFiniteSet(admitted) /\ \A g \in admitted : g.at <= elapsed

\* Admissions of the batch under way; a batch that is over counts as full.
Spent == IF pc = "admit" THEN processed ELSE RequestsToProcess

Linked(s, b) ==
  /\ s <= setBacks /\ b <= elapsed
  /\ s = setBacks => lastCheck <= now /\ now - lastCheck <= elapsed - b
  /\ s = setBacks /\ pc = "mark" => now - lastCheck >= TimeDelta

\* Each of a batches had a period of its own since the limiter was constructed;
\* a set-back brings one batch forward and costs the period of another.
Batches ==
  \E a \in Int, s \in Nat :
    /\ Linked(s, a * TimeDelta - (Start % TimeDelta))
    /\ Cardinality(admitted) + (RequestsToProcess - Spent) <= RequestsToProcess * (a + 2 * s)

\* Given counts the admissions of TimeDelta milliseconds from t on, when the last
\* batch began at e: they are of that batch, or also of those before it back to
\* the one that t fell into, or of those before it.
Peak(e, s, b, t, given) ==
  IF e < t THEN given <= Spent
  ELSE IF e < t + TimeDelta
  THEN \E a \in Int : /\ a * TimeDelta <= 2 * TimeDelta - 1 + b - t
                      /\ given <= RequestsToProcess * (a + 2 * s) + Spent
  ELSE given <= RequestsToProcess * (3 + 2 * s)

Peaks ==
  \E e, s \in Nat : \E b \in Int :
    /\ e - TimeDelta < b /\ b <= e /\ e <= elapsed /\ Linked(s, b)
    /\ \A t \in Nat : Peak(e, s, b, t, Cardinality(GivenIn(t, TimeDelta)))

LEMMA Numbers ==
  ASSUME Typed
  PROVE  /\ now \in Nat /\ elapsed \in Nat /\ lastCheck \in Int /\ setBacks \in Nat
         /\ TimeDelta \in Nat \ {0} /\ RequestsToProcess \in Nat
         /\ Spent \in Nat /\ Spent <= RequestsToProcess
         /\ \A g \in admitted : g.at \in Int
  BY ClockAssumption, BucketAssumption DEF Typed, LoopOK, ClockOK, Spent

LEMMA Counts ==
  ASSUME Typed, Counted
  PROVE  /\ Cardinality(admitted) \in Nat
         /\ \A t : IsFiniteSet(GivenIn(t, TimeDelta)) /\ Cardinality(GivenIn(t, TimeDelta)) \in Nat
<1>1. \A t : GivenIn(t, TimeDelta) \subseteq admitted
  BY DEF GivenIn
<1>2. \A t : IsFiniteSet(GivenIn(t, TimeDelta))
  BY <1>1, FS_Subset DEF Counted
<1> QED
  BY <1>2, FS_CardinalityType DEF Counted

\* A step marks a batch, admits a request, or neither.
LEMMA Shape ==
  ASSUME Typed, Prepared, Sizes, [Next]_vars
  PROVE  \/ Mark
         \/ /\ \E g : admitted' = admitted \cup {g} /\ g.at = elapsed
            /\ Spent' = Spent + 1 /\ UNCHANGED <<clock, lastCheck>> /\ pc' # "mark"
         \/ /\ UNCHANGED <<admitted, lastCheck>> /\ Spent <= Spent'
            /\ PassTime \/ UNCHANGED clock
            /\ pc' = "mark" => Open \/ pc = "mark"
<1>1. CASE Release
  <2>1. pc = "admit" /\ pc' = "admit" /\ processed' = processed + 1
    BY <1>1 DEF Release
  <2> QED
    BY <1>1, <2>1, ReleaseShape DEF Spent
<1>2. CASE Add
  <2>1. /\ UNCHANGED <<clock, admitted, lastCheck>> /\ pc = "read" /\ pc' = "update"
    BY <1>2, AddShape DEF Add
  <2> QED
    BY <2>1, BucketAssumption DEF Spent
<1>3. CASE ~Release /\ ~Add /\ ~Mark
  <2>1. UNCHANGED <<admitted, lastCheck>> /\ (PassTime \/ UNCHANGED clock)
    BY <1>3, Steps DEF Next, vars, Wait, Open, EndBatch, FlushResponses, Flush, Idle, ReadNothing,
         PassTime, answerVars
  <2>2. pc' = "mark" => Open \/ pc = "mark"
    BY <1>3 DEF Next, vars, PassTime, Wait, EndBatch, FlushResponses, Flush, Idle,
         ReadNothing, Goto
  <2>3. Spent' = Spent \/ Spent' = RequestsToProcess
    BY <1>3 DEF Next, vars, PassTime, Wait, Open, EndBatch, FlushResponses, Flush, Idle,
         ReadNothing, Goto, Spent
  <2> QED
    BY <2>1, <2>2, <2>3, Numbers
<1> QED
  BY <1>1, <1>2, <1>3

LEMMA CountedStep ==
  ASSUME Typed, Prepared, Sizes, Counted, [Next]_vars
  PROVE  Counted'
<1>1. CASE PassTime
  <2>1. elapsed' \in Int /\ elapsed <= elapsed' /\ admitted' = admitted
    BY <1>1, Numbers DEF PassTime, Tick, Pass, SetBack, answerVars
  <2> QED
    BY <2>1, Numbers DEF Counted
<1>2. CASE \E g : admitted' = admitted \cup {g} /\ g.at = elapsed /\ UNCHANGED clock
  <2>1. elapsed <= elapsed
    BY Numbers
  <2> QED
    BY <1>2, <2>1, OneMore DEF Counted, clock
<1>3. CASE UNCHANGED <<clock, admitted>>
  BY <1>3 DEF Counted, clock
<1>4. CASE Mark
  BY <1>3, <1>4 DEF Mark, answerVars
<1> QED
  BY <1>1, <1>2, <1>3, <1>4, Shape

\* Time that passes keeps the link; so does a set-back, which leaves one more
\* that may bring a batch forward.
LEMMA LinkStep ==
  ASSUME Typed, [Next]_vars, NEW s \in Nat, NEW b \in Int, Linked(s, b),
         lastCheck' = lastCheck, PassTime \/ UNCHANGED clock,
         pc' = "mark" => Open \/ pc = "mark"
  PROVE  Linked(s, b)'
<1>1. CASE Pass /\ pc' = pc
  BY <1>1, Numbers DEF Pass, Linked
<1>2. CASE SetBack
  BY <1>2, Numbers DEF SetBack, Linked
<1>3. CASE UNCHANGED clock /\ Open
  <2>1. CASE s = setBacks
    <3>1. now - lastCheck \in Nat /\ now - lastCheck < Word
      BY <2>1, Numbers, ClockAssumption DEF Linked, Typed, LoopOK, ClockOK
    <3>2. (now - lastCheck) % Word = now - lastCheck
      BY <3>1, ClockAssumption
    <3> QED
      BY <1>3, <3>2 DEF Open, Due, Since, Linked, clock
  <2>2. CASE s # setBacks
    BY <1>3, <2>2 DEF Linked, clock
  <2> QED
    BY <2>1, <2>2
<1>4. CASE UNCHANGED clock /\ ~Open
  BY <1>4 DEF Linked, clock
<1> QED
  BY <1>1, <1>2, <1>3, <1>4 DEF PassTime, Tick

\* A batch is marked a period after b, or a set-back brought it forward, and is
\* linked to the start of its own period.
LEMMA LinkMark ==
  ASSUME Typed, Mark, NEW s \in Nat, NEW b \in Int, Linked(s, b)
  PROVE  /\ b + TimeDelta + (now % TimeDelta) <= elapsed \/ s + 1 <= setBacks
         /\ \A r \in Nat, c \in Int :
              r <= setBacks /\ c + (now % TimeDelta) <= elapsed => Linked(r, c)'
<1>1. now \in Nat /\ PeriodOf(now) = now - (now % TimeDelta) /\ now % TimeDelta \in 0..(TimeDelta - 1)
  BY Numbers, PeriodStart
<1>2. ASSUME s = setBacks PROVE b + TimeDelta + (now % TimeDelta) <= elapsed
  <2>1. lastCheck <= now /\ now - lastCheck <= elapsed - b /\ now - lastCheck >= TimeDelta
    BY <1>2 DEF Mark, Goto, Linked
  <2>2. PICK j \in Int : lastCheck = TimeDelta * j
    BY DEF Typed, Aligned
  <2>3. PICK k \in Int : PeriodOf(now) = TimeDelta * k
    BY <1>1, Numbers, PeriodStart
  <2> DEFINE x == TimeDelta * j
             y == TimeDelta * k
             m == now % TimeDelta
  <2>4. x \in Int /\ y \in Int /\ (x < y => x + TimeDelta <= y)
    BY Numbers, Distribute, PeriodsApart
  <2> HIDE DEF x, y, m
  <2>5. x = lastCheck /\ y = now - m /\ m \in 0..(TimeDelta - 1)
    BY <1>1, <2>2, <2>3 DEF x, y, m
  <2>6. x < y
    BY <1>1, <2>1, <2>4, <2>5, Numbers
  <2> QED
    BY <1>1, <2>1, <2>4, <2>5, <2>6, Numbers DEF m
<1>3. s # setBacks => s + 1 <= setBacks
  BY Numbers DEF Linked
<1>4. /\ elapsed' = elapsed /\ setBacks' = setBacks /\ now' = now /\ lastCheck' = PeriodOf(now)
      /\ pc' = "admit"
  BY DEF Mark, Goto, clock
<1>5. ASSUME NEW r \in Nat, NEW c \in Int, r <= setBacks, c + (now % TimeDelta) <= elapsed
      PROVE  Linked(r, c)'
  <2>1. now - lastCheck' = now % TimeDelta /\ now % TimeDelta \in Nat /\ lastCheck' \in Int
    BY <1>1, <1>4
  <2>2. lastCheck' <= now /\ c <= elapsed /\ now - lastCheck' <= elapsed - c
    BY <1>1, <1>5, <2>1, Numbers
  <2> QED
    BY <1>4, <1>5, <2>2 DEF Linked
<1> QED
  BY <1>2, <1>3, <1>5

LEMMA BatchesStep ==
  ASSUME Typed, Typed', Prepared, Sizes, Counted, Batches, [Next]_vars
  PROVE  Batches'
<1> DEFINE R == RequestsToProcess
           p == Start % TimeDelta
<1>1. PICK a \in Int, s \in Nat :
        /\ Linked(s, a * TimeDelta - p)
        /\ Cardinality(admitted) + (R - Spent) <= R * (a + 2 * s)
  BY DEF Batches
<1>2. /\ a * TimeDelta \in Int /\ p \in Int /\ a * TimeDelta - p \in Int
      /\ R * (a + 2 * s) \in Int /\ R * (a + 2 * s + 1) = R * (a + 2 * s) + R
  BY Numbers, Distribute, ClockAssumption
<1>3. /\ Cardinality(admitted) \in Nat /\ Spent \in Nat /\ Spent' \in Nat /\ R \in Nat
      /\ Spent <= R
  BY Numbers, Counts DEF Typed, LoopOK, Spent
<1> HIDE DEF p
<1>4. CASE Mark
  <2>1. Spent = R /\ Spent' = 0 /\ admitted' = admitted
    BY <1>4 DEF Mark, Goto, Spent, Typed, answerVars
  <2>2. Cardinality(admitted') + (R - Spent') <= R * (a + 2 * s + 1)
    BY <1>1, <1>2, <1>3, <2>1
  <2>3. now % TimeDelta \in 0..(TimeDelta - 1)
    BY Numbers, PeriodStart
  <2>4. CASE a * TimeDelta - p + TimeDelta + (now % TimeDelta) <= elapsed
    <3>1. (a + 1) * TimeDelta - p = a * TimeDelta - p + TimeDelta /\ (a + 1) * TimeDelta - p \in Int
      <4>1. (a + 1) * TimeDelta = a * TimeDelta + TimeDelta
        BY Numbers
      <4> QED
        BY <1>2, <4>1, Numbers
    <3>2. Linked(s, (a + 1) * TimeDelta - p)'
      BY <1>1, <1>2, <1>4, <2>4, <3>1, LinkMark DEF Linked
    <3>3. (a + 1) + 2 * s = a + 2 * s + 1 /\ a + 1 \in Int
      OBVIOUS
    <3> QED
      BY <2>2, <3>2, <3>3 DEF Batches, p
  <2>5. CASE s + 1 <= setBacks
    <3>1. (a - 1) * TimeDelta - p = a * TimeDelta - p - TimeDelta /\ (a - 1) * TimeDelta - p \in Int
      <4>1. (a - 1) * TimeDelta = a * TimeDelta - TimeDelta
        BY Numbers
      <4> QED
        BY <1>2, <4>1, Numbers
    <3>2. a * TimeDelta - p <= elapsed
      BY <1>1 DEF Linked
    <3>3. (a - 1) * TimeDelta - p + (now % TimeDelta) <= elapsed
      BY <1>2, <2>3, <3>1, <3>2, Numbers
    <3>4. Linked(s + 1, (a - 1) * TimeDelta - p)'
      BY <1>1, <1>2, <1>4, <2>5, <3>1, <3>3, LinkMark
    <3>5. (a - 1) + 2 * (s + 1) = a + 2 * s + 1 /\ s + 1 \in Nat /\ a - 1 \in Int
      OBVIOUS
    <3> QED
      BY <2>2, <3>4, <3>5 DEF Batches, p
  <2> QED
    BY <1>1, <1>2, <1>4, <2>4, <2>5, LinkMark
<1>5. CASE /\ \E g : admitted' = admitted \cup {g}
           /\ Spent' = Spent + 1 /\ UNCHANGED <<clock, lastCheck>> /\ pc' # "mark"
  <2>1. Cardinality(admitted') \in Nat /\ Cardinality(admitted') <= Cardinality(admitted) + 1
    BY <1>5, OneMore DEF Counted
  <2>2. Cardinality(admitted') + (R - Spent') <= R * (a + 2 * s)
    BY <1>1, <1>2, <1>3, <1>5, <2>1
  <2>3. Linked(s, a * TimeDelta - p)'
    BY <1>1, <1>2, <1>5, LinkStep
  <2> QED
    BY <2>2, <2>3 DEF Batches, p
<1>6. CASE /\ UNCHANGED <<admitted, lastCheck>> /\ Spent <= Spent'
           /\ PassTime \/ UNCHANGED clock
           /\ pc' = "mark" => Open \/ pc = "mark"
  <2>1. Cardinality(admitted') + (R - Spent') <= R * (a + 2 * s)
    BY <1>1, <1>2, <1>3, <1>6
  <2>2. Linked(s, a * TimeDelta - p)'
    BY <1>1, <1>2, <1>6, LinkStep
  <2> QED
    BY <2>1, <2>2 DEF Batches, p
<1> QED
  BY <1>4, <1>5, <1>6, Shape

LEMMA Multiples ==
  ASSUME Typed, NEW a \in Int, NEW s \in Nat
  PROVE  /\ a * TimeDelta \in Int /\ RequestsToProcess * (a + 2 * s) \in Int
         /\ (a + 1) * TimeDelta = a * TimeDelta + TimeDelta
         /\ (a - 1) * TimeDelta = a * TimeDelta - TimeDelta
         /\ RequestsToProcess * ((a + 1) + 2 * s) = RequestsToProcess * (a + 2 * s) + RequestsToProcess
         /\ RequestsToProcess * ((a - 1) + 2 * (s + 1)) = RequestsToProcess * (a + 2 * s) + RequestsToProcess
<1>1. /\ (a + 1) + 2 * s = (a + 2 * s) + 1 /\ (a - 1) + 2 * (s + 1) = (a + 2 * s) + 1
      /\ a + 2 * s \in Int
  OBVIOUS
<1>2. RequestsToProcess * ((a + 2 * s) + 1) = RequestsToProcess * (a + 2 * s) + RequestsToProcess
  BY <1>1, Numbers, Distribute
<1>3. /\ TimeDelta * (a + 1) = TimeDelta * a + TimeDelta
      /\ TimeDelta * ((a - 1) + 1) = TimeDelta * (a - 1) + TimeDelta
      /\ (a - 1) + 1 = a
  BY Numbers, Distribute
<1>4. TimeDelta * a \in Int /\ TimeDelta * (a - 1) \in Int /\ TimeDelta * (a + 1) \in Int
  BY Numbers
<1>5. /\ a * TimeDelta = TimeDelta * a /\ (a + 1) * TimeDelta = TimeDelta * (a + 1)
      /\ (a - 1) * TimeDelta = TimeDelta * (a - 1)
  BY Numbers
<1>6. /\ a * TimeDelta \in Int /\ (a + 1) * TimeDelta = a * TimeDelta + TimeDelta
      /\ (a - 1) * TimeDelta = a * TimeDelta - TimeDelta
  <2> DEFINE x == TimeDelta * a
             y == TimeDelta * (a - 1)
             z == TimeDelta * (a + 1)
  <2>1. z = x + TimeDelta /\ x = y + TimeDelta /\ x \in Int /\ y \in Int /\ z \in Int
    BY <1>3, <1>4
  <2> HIDE DEF x, y, z
  <2>2. y = x - TimeDelta
    BY <2>1, Numbers
  <2> QED
    BY <1>5, <2>1, <2>2 DEF x, y, z
<1>7. RequestsToProcess * (a + 2 * s) \in Int
  BY <1>1, Numbers
<1> QED
  BY <1>1, <1>2, <1>6, <1>7

\* However the window lies, three batches and two for each set-back bound it.
LEMMA PeakBound ==
  ASSUME Typed, NEW e \in Nat, NEW s \in Nat, NEW b \in Int, NEW t \in Nat, NEW n \in Nat,
         b <= e, Peak(e, s, b, t, n)
  PROVE  n <= RequestsToProcess * (3 + 2 * s) /\ RequestsToProcess * (3 + 2 * s) \in Nat
<1> DEFINE z == RequestsToProcess * (3 + 2 * s)
           y == RequestsToProcess * (2 + 2 * s)
<1>1. z = y + RequestsToProcess /\ y \in Nat /\ z \in Nat
  <2>1. (2 + 2 * s) + 1 = 3 + 2 * s /\ 2 + 2 * s \in Int
    OBVIOUS
  <2>2. RequestsToProcess * ((2 + 2 * s) + 1) = y + RequestsToProcess
    BY <2>1, Numbers, Distribute
  <2>3. z = y + RequestsToProcess
    BY <2>1, <2>2
  <2> QED
    BY <2>3, Numbers
<1>2. CASE e < t
  <2> HIDE DEF y, z
  <2>1. n <= z
    BY <1>1, <1>2, Numbers DEF Peak
  <2> QED
    BY <1>1, <2>1 DEF z
<1>3. CASE ~(e < t) /\ e < t + TimeDelta
  <2>1. PICK a \in Int : /\ a * TimeDelta <= 2 * TimeDelta - 1 + b - t
                         /\ n <= RequestsToProcess * (a + 2 * s) + Spent
    BY <1>3 DEF Peak
  <2>2. a <= 2
    <3> SUFFICES ASSUME 3 <= a PROVE FALSE
      BY <2>1
    <3>1. TimeDelta * 3 <= TimeDelta * a /\ TimeDelta * a = a * TimeDelta /\ a * TimeDelta \in Int
      BY Numbers, ProductOrder
    <3> QED
      BY <1>3, <2>1, <3>1, Numbers
  <2> DEFINE x == RequestsToProcess * (a + 2 * s)
  <2>3. x <= y /\ x \in Int
    <3>1. a + 2 * s <= 2 + 2 * s /\ a + 2 * s \in Int /\ 2 + 2 * s \in Int
      BY <2>2
    <3> QED
      BY <3>1, ProductOrder, Numbers
  <2>4. n <= x + Spent
    BY <2>1
  <2> HIDE DEF x, y, z
  <2>5. n <= z
    BY <1>1, <2>3, <2>4, Numbers
  <2> QED
    BY <1>1, <2>5 DEF z
<1>4. CASE ~(e < t) /\ ~(e < t + TimeDelta)
  BY <1>1, <1>4 DEF Peak
<1> QED
  BY <1>1, <1>2, <1>3, <1>4

\* A batch that begins at f counts towards each window that reaches it.
LEMMA PeakMark ==
  ASSUME Typed, Mark, NEW e \in Nat, NEW s \in Nat, NEW b \in Int,
         NEW f \in Nat, NEW r \in Nat, NEW c \in Int, NEW t \in Nat, NEW n \in Nat,
         b <= e, e <= f, f - TimeDelta < c, c <= f,
         (r = s /\ b + TimeDelta <= c) \/ r = s + 1,
         f < t => n = 0, Peak(e, s, b, t, n)
  PROVE  Peak(f, r, c, t, n)'
<1> DEFINE R == RequestsToProcess
<1>1. Spent = R /\ Spent' = 0
  BY DEF Mark, Goto, Spent, Typed
<1>2. CASE f < t
  BY <1>1, <1>2 DEF Peak
<1>3. CASE ~(f < t) /\ f < t + TimeDelta
  <2> SUFFICES \E a \in Int : /\ a * TimeDelta <= 2 * TimeDelta - 1 + c - t
                              /\ n <= R * (a + 2 * r) + 0
    BY <1>1, <1>3 DEF Peak
  <2>1. CASE e < t
    <3>1. n <= R
      BY <1>1, <2>1 DEF Peak
    <3>2. 1 * TimeDelta <= 2 * TimeDelta - 1 + c - t
      BY <1>3, Numbers
    <3>3. n <= R * (1 + 2 * r) + 0
      <4>1. R * 1 <= R * (1 + 2 * r) /\ R * (1 + 2 * r) \in Int
        <5>1. 1 <= 1 + 2 * r /\ 1 + 2 * r \in Int
          OBVIOUS
        <5> QED
          BY <5>1, ProductOrder, Numbers
      <4> DEFINE x == R * (1 + 2 * r)
      <4>2. R <= x /\ x \in Int
        BY <4>1, Numbers
      <4> HIDE DEF x
      <4>3. n <= x + 0
        BY <3>1, <4>2, Numbers
      <4> QED
        BY <4>3 DEF x
    <3> QED
      BY <3>2, <3>3
  <2>2. CASE ~(e < t)
    <3>1. PICK a \in Int : /\ a * TimeDelta <= 2 * TimeDelta - 1 + b - t
                           /\ n <= R * (a + 2 * s) + R
      BY <1>1, <1>3, <2>2, Numbers DEF Peak
    <3> DEFINE x == a * TimeDelta
               y == R * (a + 2 * s)
    <3>2. x <= 2 * TimeDelta - 1 + b - t /\ n <= y + R /\ x \in Int /\ y \in Int
      BY <3>1, Multiples
    <3>3. CASE r = s /\ b + TimeDelta <= c
      <4>1. (a + 1) * TimeDelta = x + TimeDelta /\ R * ((a + 1) + 2 * s) = y + R
        BY Multiples
      <4> HIDE DEF x, y
      <4>2. x + TimeDelta <= 2 * TimeDelta - 1 + c - t /\ n <= (y + R) + 0
        BY <3>2, <3>3, Numbers
      <4>3. a + 1 \in Int
        OBVIOUS
      <4> QED
        BY <3>3, <4>1, <4>2, <4>3
    <3>4. CASE r = s + 1
      <4>1. (a - 1) * TimeDelta = x - TimeDelta /\ R * ((a - 1) + 2 * (s + 1)) = y + R
        BY Multiples
      <4> HIDE DEF x, y
      <4>2. x - TimeDelta <= 2 * TimeDelta - 1 + c - t /\ n <= (y + R) + 0
        BY <3>2, Numbers
      <4>3. a - 1 \in Int
        OBVIOUS
      <4> QED
        BY <3>4, <4>1, <4>2, <4>3
    <3> QED
      BY <3>3, <3>4
  <2> QED
    BY <2>1, <2>2
<1>4. CASE ~(f < t) /\ ~(f < t + TimeDelta)
  <2> DEFINE x == R * (3 + 2 * s)
             y == R * (3 + 2 * r)
  <2>1. n <= x /\ x \in Nat
    BY PeakBound
  <2>2. x <= y /\ y \in Int
    <3>1. 3 + 2 * s <= 3 + 2 * r /\ 3 + 2 * s \in Int /\ 3 + 2 * r \in Int
      OBVIOUS
    <3> QED
      BY <3>1, ProductOrder, Numbers
  <2> HIDE DEF x, y
  <2>3. n <= y
    BY <2>1, <2>2
  <2> QED
    BY <1>4, <2>3 DEF Peak, y
<1> QED
  BY <1>2, <1>3, <1>4

\* A window that reaches the last batch has room for what the batch admits.
LEMMA PeakGrows ==
  ASSUME Typed, Typed', NEW e \in Nat, NEW s \in Nat, NEW b \in Int, NEW t \in Nat,
         NEW n \in Nat, NEW k \in Nat, Peak(e, s, b, t, n),
         \/ k <= n /\ Spent <= Spent'
         \/ k <= n + 1 /\ e < t + TimeDelta /\ Spent' = Spent + 1
  PROVE  Peak(e, s, b, t, k)'
<1>1. Spent \in Nat /\ Spent' \in Nat
  BY Numbers DEF Typed, Spent
<1>2. CASE e < t
  BY <1>1, <1>2, Numbers DEF Peak
<1>3. CASE ~(e < t) /\ e < t + TimeDelta
  <2>1. PICK a \in Int : /\ a * TimeDelta <= 2 * TimeDelta - 1 + b - t
                         /\ n <= RequestsToProcess * (a + 2 * s) + Spent
    BY <1>3 DEF Peak
  <2> DEFINE x == RequestsToProcess * (a + 2 * s)
  <2>2. n <= x + Spent /\ x \in Int
    BY <2>1, Multiples
  <2> HIDE DEF x
  <2>3. PICK u, v \in Nat : u = Spent /\ v = Spent'
    BY <1>1
  <2>4. (k <= n /\ u <= v) \/ (k <= n + 1 /\ v = u + 1)
    BY <2>3
  <2>5. n <= x + u
    BY <2>2, <2>3
  <2>6. k <= x + v
    BY <2>2, <2>4, <2>5
  <2> QED
    BY <1>3, <2>1, <2>3, <2>6 DEF Peak, x
<1>4. CASE ~(e < t) /\ ~(e < t + TimeDelta)
  <2> DEFINE x == RequestsToProcess * (3 + 2 * s)
  <2>1. n <= x /\ x \in Int
    BY <1>4, Numbers DEF Peak
  <2> HIDE DEF x
  <2>2. k <= x
    BY <1>4, <2>1
  <2> QED
    BY <1>4, <2>2 DEF Peak, x
<1> QED
  BY <1>2, <1>3, <1>4

LEMMA PeaksStep ==
  ASSUME Typed, Typed', Prepared, Sizes, Counted, Counted', Peaks, [Next]_vars
  PROVE  Peaks'
<1> DEFINE G(t) == Cardinality(GivenIn(t, TimeDelta))
<1>1. PICK e \in Nat, s \in Nat, b \in Int :
        /\ e - TimeDelta < b /\ b <= e /\ e <= elapsed /\ Linked(s, b)
        /\ \A t \in Nat : Peak(e, s, b, t, G(t))
  BY DEF Peaks
<1>2. \A t : G(t) \in Nat /\ G(t)' \in Nat
  <2>1. \A t : GivenIn(t, TimeDelta)' \subseteq admitted'
    BY DEF GivenIn
  <2>2. \A t : G(t)' \in Nat
    BY <2>1, FS_Subset, FS_CardinalityType DEF Counted
  <2> QED
    BY <2>2, Counts
<1>3. CASE Mark
  <2>1. PICK f \in Nat, c \in Int : f = elapsed /\ c = elapsed - (now % TimeDelta)
    BY Numbers, PeriodStart
  <2>2. now % TimeDelta \in 0..(TimeDelta - 1)
    BY Numbers, PeriodStart
  <2>3. f - TimeDelta < c /\ c <= f
    BY <2>1, <2>2, Numbers
  <2>4. PICK r \in Nat : r <= setBacks /\ ((r = s /\ b + TimeDelta <= c) \/ r = s + 1)
    <3>1. b + TimeDelta + (now % TimeDelta) <= elapsed \/ s + 1 <= setBacks
      BY <1>1, <1>3, LinkMark
    <3>2. now % TimeDelta \in Int
      BY Numbers, PeriodStart
    <3>3. CASE b + TimeDelta + (now % TimeDelta) <= elapsed
      <4>1. b + TimeDelta <= c
        BY <2>1, <3>2, <3>3, Numbers
      <4> QED
        BY <1>1, <4>1 DEF Linked
    <3> QED
      BY <3>1, <3>3
  <2>5. Linked(r, c)'
    <3>1. c + (now % TimeDelta) <= elapsed
      BY <2>1, <2>2, Numbers
    <3> QED
      BY <1>1, <1>3, <2>4, <3>1, LinkMark
  <2>6. admitted' = admitted /\ elapsed' = elapsed
    BY <1>3 DEF Mark, answerVars, clock
  <2>7. ASSUME NEW t \in Nat PROVE Peak(f, r, c, t, G(t))'
    <3>1. G(t)' = G(t)
      BY <2>6 DEF GivenIn
    <3>2. f < t => G(t) = 0
      <4> SUFFICES ASSUME f < t PROVE G(t) = 0
        OBVIOUS
      <4>1. \A g \in admitted : ~(t <= g.at)
        BY <2>1, Numbers DEF Counted
      <4> QED
        BY <4>1, FS_EmptySet DEF GivenIn
    <3>3. Peak(e, s, b, t, G(t)) /\ G(t) \in Nat /\ e <= f
      BY <1>1, <1>2, <2>1
    <3> HIDE DEF G
    <3>4. PICK n \in Nat : n = G(t) /\ n = G(t)'
      BY <3>1, <3>3
    <3>5. Peak(f, r, c, t, n)'
      BY <1>1, <1>3, <2>3, <2>4, <3>2, <3>3, <3>4, PeakMark
    <3> QED
      BY <3>4, <3>5 DEF Peak
  <2>8. f <= f /\ f <= elapsed'
    BY <2>1, <2>6
  <2> QED
    BY <2>3, <2>5, <2>7, <2>8 DEF Peaks
<1>4. CASE /\ \E g : admitted' = admitted \cup {g} /\ g.at = elapsed
           /\ Spent' = Spent + 1 /\ UNCHANGED <<clock, lastCheck>> /\ pc' # "mark"
  <2>1. PICK g : admitted' = admitted \cup {g} /\ g.at = elapsed
    BY <1>4
  <2>2. Linked(s, b)'
    BY <1>1, <1>4, LinkStep
  <2>3. ASSUME NEW t \in Nat PROVE Peak(e, s, b, t, G(t))'
    <3>1. PICK n \in Nat, k \in Nat : n = G(t) /\ k = G(t)'
      BY <1>2
    <3>2. CASE e < t + TimeDelta
      <4>1. GivenIn(t, TimeDelta)' \subseteq GivenIn(t, TimeDelta) \cup {g}
        BY <2>1 DEF GivenIn
      <4>2. /\ IsFiniteSet(GivenIn(t, TimeDelta) \cup {g})
            /\ Cardinality(GivenIn(t, TimeDelta) \cup {g}) \in Nat
            /\ Cardinality(GivenIn(t, TimeDelta) \cup {g}) <= G(t) + 1
        BY Counts, OneMore
      <4>3. G(t)' \in Nat /\ G(t)' <= Cardinality(GivenIn(t, TimeDelta) \cup {g})
        BY <4>1, <4>2, FS_Subset, FS_CardinalityType
      <4>4. k <= n + 1
        BY <3>1, <4>2, <4>3
      <4>5. Peak(e, s, b, t, n)
        BY <1>1, <3>1
      <4>6. Peak(e, s, b, t, k)'
        BY <1>4, <3>2, <4>4, <4>5, PeakGrows
      <4> QED
        BY <3>1, <4>6 DEF Peak
    <3>3. CASE ~(e < t + TimeDelta)
      <4>1. ~(g.at < t + TimeDelta)
        BY <1>1, <2>1, <3>3, Numbers
      <4>2. GivenIn(t, TimeDelta)' = GivenIn(t, TimeDelta)
        BY <2>1, <4>1 DEF GivenIn
      <4>3. k = n /\ Peak(e, s, b, t, n) /\ k <= n
        BY <1>1, <3>1, <4>2
      <4>4. Spent <= Spent'
        BY <1>4, Numbers
      <4>5. Peak(e, s, b, t, k)'
        BY <4>3, <4>4, PeakGrows
      <4> QED
        BY <3>1, <4>5 DEF Peak
    <3> QED
      BY <3>2, <3>3
  <2>4. e <= elapsed'
    BY <1>1, <1>4 DEF clock
  <2> QED
    BY <1>1, <2>2, <2>3, <2>4 DEF Peaks
<1>5. CASE /\ UNCHANGED <<admitted, lastCheck>> /\ Spent <= Spent'
           /\ PassTime \/ UNCHANGED clock
           /\ pc' = "mark" => Open \/ pc = "mark"
  <2>1. Linked(s, b)'
    BY <1>1, <1>5, LinkStep
  <2>2. ASSUME NEW t \in Nat PROVE Peak(e, s, b, t, G(t))'
    <3>1. PICK n \in Nat : n = G(t) /\ n = G(t)'
      BY <1>2, <1>5 DEF GivenIn
    <3>2. Peak(e, s, b, t, n) /\ n <= n
      <4>1. Peak(e, s, b, t, n)
        BY <1>1, <3>1
      <4> QED
        BY <4>1
    <3>3. Peak(e, s, b, t, n)'
      BY <1>5, <3>2, PeakGrows
    <3> QED
      BY <3>1, <3>3 DEF Peak
  <2>3. e <= elapsed'
    BY <1>1, <1>5, Numbers DEF PassTime, Tick, Pass, SetBack, clock
  <2> QED
    BY <1>1, <2>1, <2>2, <2>3 DEF Peaks
<1> QED
  BY <1>3, <1>4, <1>5, Shape

LEMMA RateInit == Init => Counted /\ Batches /\ Peaks
<1> SUFFICES ASSUME Init PROVE Counted /\ Batches /\ Peaks
  OBVIOUS
<1>1. /\ admitted = {} /\ pc = "update" /\ elapsed = 0 /\ setBacks = 0
      /\ now = Start /\ lastCheck = PeriodOf(Start)
  BY DEF Init, LoopInit, ClockInit
<1>2. IsFiniteSet({}) /\ Cardinality({}) = 0
  BY FS_EmptySet
<1>3. Spent = RequestsToProcess /\ Start \in Nat /\ TimeDelta \in Nat \ {0} /\ RequestsToProcess \in Nat
  BY <1>1, ClockAssumption, BucketAssumption DEF Spent
<1> DEFINE p == Start % TimeDelta
<1>4. p \in 0..(TimeDelta - 1) /\ PeriodOf(Start) = Start - p
  BY <1>3, PeriodStart
<1> HIDE DEF p
<1>5. Counted
  BY <1>1, <1>2 DEF Counted
<1>6. ASSUME NEW b \in Int, b = 0 - p PROVE Linked(0, b)
  <2>1. b <= 0 /\ lastCheck <= now /\ now - lastCheck = p /\ p = 0 - b
    BY <1>1, <1>3, <1>4, <1>6
  <2> QED
    BY <1>1, <1>4, <1>6, <2>1 DEF Linked
<1>7. Batches
  <2>1. 0 * TimeDelta - p = 0 - p /\ 0 - p \in Int /\ RequestsToProcess * (0 + 2 * 0) = 0
    BY <1>3, <1>4
  <2>2. Cardinality(admitted) + (RequestsToProcess - Spent) <= RequestsToProcess * (0 + 2 * 0)
    BY <1>1, <1>2, <1>3, <2>1
  <2>3. Linked(0, 0 * TimeDelta - p)
    BY <1>6, <2>1
  <2> QED
    BY <2>2, <2>3 DEF Batches, p
<1>8. Peaks
  <2>1. PICK b \in Int : b = 0 - p
    BY <1>4
  <2>2. ASSUME NEW t \in Nat PROVE Peak(0, 0, b, t, Cardinality(GivenIn(t, TimeDelta)))
    <3>1. GivenIn(t, TimeDelta) = {}
      BY <1>1 DEF GivenIn
    <3>2. Peak(0, 0, b, t, 0)
      <4>1. CASE 0 < t
        BY <1>3, <4>1 DEF Peak
      <4>2. CASE ~(0 < t)
        <5>1. /\ 0 * TimeDelta <= 2 * TimeDelta - 1 + b - t
              /\ 0 <= RequestsToProcess * (0 + 2 * 0) + Spent
          BY <1>3, <1>4, <2>1, <4>2
        <5> QED
          BY <1>3, <4>2, <5>1 DEF Peak
      <4> QED
        BY <4>1, <4>2
    <3> QED
      BY <1>2, <3>1, <3>2
  <2>3. 0 - TimeDelta < b /\ b <= 0 /\ 0 <= elapsed
    BY <1>1, <1>3, <1>4, <2>1
  <2> QED
    BY <1>6, <2>1, <2>2, <2>3 DEF Peaks
<1> QED
  BY <1>5, <1>7, <1>8

LEMMA LongRunHolds ==
  ASSUME Typed, Counted, Batches
  PROVE  LongRunRate
<1> DEFINE p == Start % TimeDelta
<1>1. PICK a \in Int, s \in Nat :
        /\ Linked(s, a * TimeDelta - p)
        /\ Cardinality(admitted) + (RequestsToProcess - Spent) <= RequestsToProcess * (a + 2 * s)
  BY DEF Batches
<1>2. p \in Nat
  <2>1. p \in 0..(TimeDelta - 1) /\ Start \in Nat
    BY Numbers, PeriodStart, ClockAssumption
  <2> QED
    BY <2>1, Numbers
<1> DEFINE q == (p + elapsed) \div TimeDelta
<1>3. a <= q /\ q \in Int
  <2> HIDE DEF p
  <2>1. a * TimeDelta <= p + elapsed /\ p + elapsed \in Int
    <3>1. a * TimeDelta \in Int
      BY Numbers
    <3> QED
      BY <1>1, <1>2, <3>1, Numbers DEF Linked
  <2> QED
    BY <2>1, Numbers, Quotient
<1> HIDE DEF q
<1>4. a + 2 * s <= q + 2 * setBacks /\ q + 2 * setBacks \in Int /\ a + 2 * s \in Int
  BY <1>1, <1>3, Numbers DEF Linked
<1> DEFINE x == RequestsToProcess * (a + 2 * s)
           y == RequestsToProcess * (q + 2 * setBacks)
<1>5. x <= y /\ x \in Int /\ y \in Int
  BY <1>4, Numbers, ProductOrder
<1>6. Cardinality(admitted) + (RequestsToProcess - Spent) <= x
  BY <1>1
<1> HIDE DEF x, y
<1>7. Cardinality(admitted) <= y
  BY <1>5, <1>6, Numbers, Counts
<1> QED
  BY <1>7 DEF y, q, LongRunRate

LEMMA PeakHolds ==
  ASSUME Typed, Counted, Peaks
  PROVE  PeakRate
<1>1. PICK e \in Nat, s \in Nat, b \in Int :
        /\ b <= e /\ Linked(s, b)
        /\ \A t \in Nat : Peak(e, s, b, t, Cardinality(GivenIn(t, TimeDelta)))
  BY DEF Peaks
<1>2. SUFFICES ASSUME NEW t \in Nat
               PROVE  Cardinality(GivenIn(t, TimeDelta)) <= RequestsToProcess * (3 + 2 * setBacks)
  BY Numbers DEF PeakRate
<1> DEFINE x == RequestsToProcess * (3 + 2 * s)
           y == RequestsToProcess * (3 + 2 * setBacks)
<1>3. PICK n \in Nat : n = Cardinality(GivenIn(t, TimeDelta))
  BY Counts
<1>4. Peak(e, s, b, t, n)
  BY <1>1, <1>3
<1>5. n <= x /\ x \in Nat
  BY <1>1, <1>4, PeakBound
<1>6. x <= y /\ y \in Int
  <2>1. 3 + 2 * s <= 3 + 2 * setBacks /\ 3 + 2 * s \in Int /\ 3 + 2 * setBacks \in Int
    BY <1>1, Numbers DEF Linked
  <2> QED
    BY <2>1, ProductOrder, Numbers
<1> HIDE DEF x, y
<1>7. n <= y
  BY <1>5, <1>6
<1> QED
  BY <1>3, <1>7 DEF y

-------------------------------------------------------------------------------
(* The promise of a limiter.                                               *)

Answers == out \cup sent

\* The instance counts with the same Cardinality.
LEMMA SameCardinality == ASSUME NEW S PROVE Promise!Cardinality(S) = Cardinality(S)
  BY DEF Promise!Cardinality, Cardinality

\* Dropping one response from the queue drops the request it is for from the
\* requests that wait.
LEMMA WaitingLess ==
  ASSUME Prepared, NEW x \in queue
  PROVE  {Asked(q) : q \in queue \ {x}} = {Asked(q) : q \in queue} \ {Asked(x)}
  BY DEF Prepared

LEMMA ReleaseAdmits ==
  ASSUME Typed, Prepared, Release
  PROVE  Promise!Admit(0)
<1>1. PICK x, a :
        /\ x \in queue /\ queue' = queue \ {x}
        /\ a \in Response /\ a.allowed /\ ~a.retry /\ Asked(a) = Asked(x)
        /\ out' = out \cup {a} /\ UNCHANGED <<sent, unread>>
  BY ReleaseShape
<1> DEFINE W == [n \in {0} |-> {Asked(q) : q \in queue}]
           A == [n \in {0} |-> Answers]
<1>2. W' = [W EXCEPT ![0] = @ \ {Asked(x)}] /\ Asked(x) \in W[0]
  <2>1. {Asked(q) : q \in queue'} = {Asked(q) : q \in queue} \ {Asked(x)}
    BY <1>1, WaitingLess
  <2>2. x \in queue
    BY <1>1
  <2> QED
    BY <2>1, <2>2
<1>3. a.id = Asked(x).id /\ a.attempt = Asked(x).attempt
  <2>1. Asked(a).id = a.id /\ Asked(a).attempt = a.attempt
    BY DEF Asked
  <2> QED
    BY <1>1, <2>1
<1>4. A' = [A EXCEPT ![0] = @ \cup {a}] /\ a \in A'[0]
  BY <1>1 DEF Answers
<1>5. Cardinality(Promise!InFlight(A[0], a.ts)) < 1
  <2>1. \A b \in A[0] : b.ts \in Nat
    BY DEF Typed, LoopOK, Answers, Response
  <2>2. a.ts \in Nat
    BY <1>1 DEF Response
  <2> HIDE DEF A
  <2>3. Promise!InFlight(A[0], a.ts) = {}
    BY <2>1, <2>2 DEF Promise!InFlight
  <2> QED
    BY <2>3, FS_EmptySet
<1>6. \E b \in A'[0] : /\ Promise!Admits(b, Asked(x))
                       /\ Cardinality(Promise!InFlight(A[0], b.ts)) < 1
                       /\ A' = [A EXCEPT ![0] = @ \cup {b}]
  <2> HIDE DEF A
  <2> QED
    BY <1>1, <1>3, <1>4, <1>5 DEF Promise!Admits
<1>7. \E r \in W[0] :
         /\ W' = [W EXCEPT ![0] = @ \ {r}]
         /\ \E b \in A'[0] : /\ Promise!Admits(b, r)
                             /\ Cardinality(Promise!InFlight(A[0], b.ts)) < 1
                             /\ A' = [A EXCEPT ![0] = @ \cup {b}]
  <2> HIDE DEF A, W
  <2> QED
    BY <1>2, <1>6
<1> QED
  BY <1>1, <1>7, SameCardinality DEF Promise!Admit, Answers

LEMMA AddTakes ==
  ASSUME Typed, Prepared, Add
  PROVE  \E r \in unread : Promise!Take(0, r) \/ Promise!TakeAndReject(0, r)
<1>1. PICK r \in unread :
        /\ unread' = unread \ {r} /\ sent' = sent
        /\ Enqueue(Rejection(r)) \/ Evict(Rejection(r)) \/ TurnAway(Rejection(r))
        /\ pc = "read" /\ pc' = "update"
  BY DEF Add, AddRequest, Read, Goto
<1> DEFINE new == Rejection(r)
           W == [n \in {0} |-> {Asked(q) : q \in queue}]
           A == [n \in {0} |-> Answers]
<1>2. Asked(new) = r /\ ~new.allowed /\ new.retry = (new.attempt < LastAttempt)
  BY RejectionType DEF Typed, LoopOK
<1> HIDE DEF new
<1>3. r \notin W[0]
  BY DEF Prepared
<1>4. ASSUME Enqueue(new) PROVE Promise!Take(0, r)
  <2>1. queue' = queue \cup {new} /\ out' = out
    BY <1>4 DEF Enqueue
  <2>2. W' = [W EXCEPT ![0] = @ \cup {r}]
    BY <1>2, <2>1
  <2> QED
    BY <1>1, <2>1, <2>2 DEF Promise!Take, Answers
<1>5. ASSUME NEW b, out' = out \cup {b},
             ~b.allowed, b.retry = (b.attempt < LastAttempt),
             Asked(b) \in W[0] \cup {r},
             {Asked(q) : q \in queue'} = ({Asked(q) : q \in queue} \cup {r}) \ {Asked(b)}
      PROVE  Promise!TakeAndReject(0, r)
  <2>1. A' = [A EXCEPT ![0] = @ \cup {b}] /\ b \in A'[0]
    BY <1>1, <1>5 DEF Answers
  <2>2. W' = [W EXCEPT ![0] = (@ \cup {r}) \ {Asked(b)}]
    BY <1>5
  <2>3. /\ b.id = Asked(b).id /\ b.attempt = Asked(b).attempt
        /\ ~b.allowed /\ b.retry = (Asked(b).attempt < LastAttempt)
    BY <1>5 DEF Asked
  <2>4. Promise!Rejects(b, Asked(b))
    BY <2>3 DEF Promise!Rejects, Promise!LastAttempt, LastAttempt
  <2> QED
    BY <1>1, <1>5, <2>1, <2>2, <2>4 DEF Promise!TakeAndReject, Answers
<1>6. ASSUME Evict(new) PROVE Promise!TakeAndReject(0, r)
  <2>1. PICK last \in queue :
          out' = out \cup {last} /\ queue' = (queue \ {last}) \cup {new}
    BY <1>6 DEF Evict
  <2>2. ~last.allowed /\ last.retry = (last.attempt < LastAttempt) /\ Asked(last) # r
    BY <1>1 DEF Prepared
  <2>3. {Asked(q) : q \in queue \ {last}} = {Asked(q) : q \in queue} \ {Asked(last)}
    BY WaitingLess
  <2>4. {Asked(q) : q \in queue'} = ({Asked(q) : q \in queue} \cup {r}) \ {Asked(last)}
    BY <1>2, <2>1, <2>2, <2>3
  <2> QED
    BY <1>5, <2>1, <2>2, <2>4
<1>7. ASSUME TurnAway(new) PROVE Promise!TakeAndReject(0, r)
  <2>1. out' = out \cup {new} /\ queue' = queue
    BY <1>7 DEF TurnAway
  <2>2. {Asked(q) : q \in queue'} = ({Asked(q) : q \in queue} \cup {r}) \ {Asked(new)}
    BY <1>2, <1>3, <2>1
  <2> QED
    BY <1>2, <1>5, <2>1, <2>2
<1> QED
  BY <1>1, <1>4, <1>6, <1>7 DEF new

LEMMA LimiterStep ==
  ASSUME Typed, Prepared, [Next]_vars
  PROVE  [Promise!Next]_(Promise!vars)
<1>1. CASE Release
  BY <1>1, ReleaseAdmits DEF Promise!Next
<1>2. CASE Add
  BY <1>2, AddTakes DEF Promise!Next
<1>3. CASE ~Release /\ ~Add
  BY <1>3, Steps DEF Promise!vars
<1> QED
  BY <1>1, <1>2, <1>3

-------------------------------------------------------------------------------
(* The order of the retries.                                               *)

\* The bucket prefers retries as the sliding window does, with which it shares
\* add_request: what it admits is the first in line, what it rejects the last.
RetriesFirst == [][KeepsRetryOrder]_vars

LEMMA RetryOrderStep ==
  ASSUME Typed, Prepared, [Next]_vars, ~UNCHANGED vars
  PROVE  KeepsRetryOrder
<1>1. \A q \in queue : q.attempt \in Int
  BY DEF Typed, Response, Attempts
<1>2. CASE Release
  <2>1. PICK x, a :
          /\ x \in queue /\ IsFirst(x, queue) /\ queue' = queue \ {x}
          /\ a.allowed /\ Asked(a) = Asked(x) /\ out' = out \cup {a} /\ sent' = sent
    BY <1>2, ReleaseShape
  <2>2. a.attempt = x.attempt
    <3>1. Asked(a).attempt = a.attempt /\ Asked(x).attempt = x.attempt
      BY DEF Asked
    <3> QED
      BY <2>1, <3>1
  <2>3. \A q \in queue : x.attempt >= q.attempt
    BY <1>1, <2>1 DEF IsFirst, Before
  <2> QED
    BY <2>1, <2>2, <2>3 DEF KeepsRetryOrder
<1>3. CASE Add
  <2>1. PICK r \in unread :
          /\ sent' = sent
          /\ Enqueue(Rejection(r)) \/ Evict(Rejection(r)) \/ TurnAway(Rejection(r))
    BY <1>3 DEF Add, AddRequest, Read
  <2> DEFINE new == Rejection(r)
  <2>2. new.attempt \in Int /\ ~new.allowed
    BY RejectionType DEF Typed, LoopOK, Response, Attempts
  <2> HIDE DEF new
  <2>3. CASE Enqueue(new)
    BY <2>1, <2>3 DEF Enqueue, KeepsRetryOrder
  <2>4. CASE Evict(new)
    <3>1. PICK last \in queue :
            /\ IsLast(last, queue) /\ Before(new, last)
            /\ out' = out \cup {last} /\ queue' = (queue \ {last}) \cup {new}
      BY <2>4 DEF Evict
    <3>2. \A q \in queue' : last.attempt <= q.attempt
      BY <1>1, <2>2, <3>1 DEF IsLast, Before
    <3>3. ~last.allowed
      BY DEF Prepared
    <3> QED
      BY <2>1, <3>1, <3>2, <3>3 DEF KeepsRetryOrder
  <2>5. CASE TurnAway(new)
    <3>1. PICK last \in queue : IsLast(last, queue) /\ ~Before(new, last)
      BY <2>5 DEF TurnAway
    <3>2. out' = out \cup {new} /\ queue' = queue
      BY <2>5 DEF TurnAway
    <3>3. \A q \in queue : new.attempt <= q.attempt
      BY <1>1, <2>2, <3>1 DEF IsLast, Before
    <3> QED
      BY <2>1, <2>2, <3>2, <3>3 DEF KeepsRetryOrder
  <2> QED
    BY <2>1, <2>3, <2>4, <2>5 DEF new
<1>4. CASE ~Release /\ ~Add
  <2>1. (out \cup sent)' = out \cup sent
    BY <1>4, Steps
  <2> QED
    BY <2>1 DEF KeepsRetryOrder
<1> QED
  BY <1>2, <1>3, <1>4

-------------------------------------------------------------------------------
(* The theorems.                                                           *)

IInv == Typed /\ Prepared /\ Sizes /\ Counted /\ Batches /\ Peaks

LEMMA Invariance == Spec => []IInv
<1>1. Init => IInv
  BY TypeInit, RateInit DEF IInv
<1>2. IInv /\ [Next]_vars => IInv'
  BY TypeStep, PreparedStep, SizesStep, CountedStep, BatchesStep, PeaksStep DEF IInv
<1> QED
  BY <1>1, <1>2, PTL DEF Spec

\* Every variable keeps its type; the queue never holds more than one response
\* above its cap, and no batch is larger than RequestsToProcess.
THEOREM TypeCorrect == Spec => []TypeOK
<1>1. IInv => TypeOK
  BY DEF IInv, Typed, Sizes, TypeOK, QueueOK
<1> QED
  BY <1>1, Invariance, PTL

\* In the long run there is one batch for every period that began, and at most
\* two more for each time the clock is set back.
THEOREM LongRunCorrect == Spec => []LongRunRate
<1>1. IInv => LongRunRate
  BY LongRunHolds DEF IInv
<1> QED
  BY <1>1, Invariance, PTL

\* No TimeDelta milliseconds hold more than three batches, and two for each
\* time the clock is set back.
THEOREM PeakCorrect == Spec => []PeakRate
<1>1. IInv => PeakRate
  BY PeakHolds DEF IInv
<1> QED
  BY <1>1, Invariance, PTL

\* Every request that is read is answered exactly once, with the right flags:
\* the limiter refines the abstract one.
THEOREM LimiterCorrect == Spec => ImplementsLimiter
<1>1. Init => Promise!Init
  BY DEF Init, LoopInit, Promise!Init
<1>2. IInv /\ [Next]_vars => [Promise!Next]_(Promise!vars)
  BY LimiterStep DEF IInv
<1> QED
  BY <1>1, <1>2, Invariance, PTL DEF Spec, ImplementsLimiter, Promise!Spec

\* No admission of the bucket overtakes a later attempt, and no rejection spares
\* an earlier one.
THEOREM RetriesFirstCorrect == Spec => RetriesFirst
<1>1. IInv /\ [Next]_vars => [KeepsRetryOrder]_vars
  BY RetryOrderStep DEF IInv
<1> QED
  BY <1>1, Invariance, PTL DEF Spec, RetriesFirst

===============================================================================
