--------------------- MODULE LeakyBucketCentralized_proofs ---------------------
(***************************************************************************)
(* Theorems about LeakyBucketCentralized: for any requests, batch size,    *)
(* distance of batches and queue cap, and any number of times the clock is *)
(* set back, both bounds on the rate hold, and every request is answered   *)
(* once.                                                                   *)
(***************************************************************************)
EXTENDS LeakyBucketCentralized, SequenceTheorems, FiniteSetTheorems, TLAPS

\* The clock, however often it was set back, is not ahead of the real time.
Behind == now <= Start + elapsed

Typed ==
  /\ LoopOK /\ Behind
  /\ queue \in Seq(Response) /\ Len(queue) <= QueueCap + 1
  /\ lastCheck \in 0..(Start + MaxTime)
  /\ processed \in 0..RequestsToProcess
  /\ pc # "admit" => processed = 0

\* A prepared response is a rejection of a request that was read and is in the
\* queue once.
Prepared ==
  /\ \A i \in DOMAIN queue :
       /\ Asked(queue[i]) \in Requests /\ Asked(queue[i]) \notin unread
       /\ ~queue[i].allowed /\ queue[i].retry = (queue[i].attempt < LastAttempt)
  /\ \A i, j \in DOMAIN queue : Asked(queue[i]) = Asked(queue[j]) => i = j

-------------------------------------------------------------------------------
(* Sequences and finite sets.                                              *)

LEMMA Appended ==
  ASSUME NEW S, NEW s \in Seq(S), NEW x \in S
  PROVE  /\ Append(s, x) \in Seq(S) /\ Len(Append(s, x)) = Len(s) + 1 /\ Len(s) \in Nat
         /\ DOMAIN s = 1..Len(s) /\ DOMAIN Append(s, x) = 1..(Len(s) + 1)
         /\ \A i \in 1..Len(s) : Append(s, x)[i] = s[i]
         /\ Append(s, x)[Len(s) + 1] = x
  OBVIOUS

LEMMA Tailed ==
  ASSUME NEW S, NEW s \in Seq(S), s # <<>>
  PROVE  /\ Tail(s) \in Seq(S) /\ Len(Tail(s)) = Len(s) - 1 /\ Len(s) \in Nat \ {0}
         /\ DOMAIN s = 1..Len(s) /\ DOMAIN Tail(s) = 1..(Len(s) - 1)
         /\ \A i \in 1..(Len(s) - 1) : Tail(s)[i] = s[i + 1]
         /\ Head(s) = s[1] /\ Head(s) \in S
  BY EmptySeq, HeadTailProperties

LEMMA OneMore ==
  ASSUME NEW S, IsFiniteSet(S), NEW x
  PROVE  /\ IsFiniteSet(S \cup {x}) /\ Cardinality(S) \in Nat
         /\ Cardinality(S \cup {x}) \in Nat /\ Cardinality(S \cup {x}) <= Cardinality(S) + 1
<1>1. Cardinality(S) \in Nat
  BY FS_CardinalityType
<1>2. /\ IsFiniteSet(S \cup {x})
      /\ Cardinality(S \cup {x}) = IF x \in S THEN Cardinality(S) ELSE Cardinality(S) + 1
  BY FS_AddElement
<1> QED
  BY <1>1, <1>2

-------------------------------------------------------------------------------
(* Products and quotients.                                                 *)

LEMMA Distribute ==
  ASSUME NEW r \in Int, NEW x \in Int
  PROVE  r * (x + 1) = r * x + r /\ r * x \in Int
OBVIOUS

LEMMA ProductOrder ==
  ASSUME NEW r \in Nat, NEW x \in Int, NEW y \in Int, x <= y
  PROVE  r * x <= r * y /\ r * x \in Int /\ r * y \in Int
<1>1. PICK d \in Nat : y = x + d
  <2>1. y - x \in Nat /\ y = x + (y - x)
    OBVIOUS
  <2> QED
    BY <2>1
<1>2. r * y = r * x + r * d /\ r * d \in Nat /\ r * x \in Int
  BY <1>1
<1> QED
  BY <1>2

LEMMA Quotient ==
  ASSUME NEW a \in Int, NEW b \in Nat \ {0}, NEW n \in Int, a * b <= n
  PROVE  a <= n \div b /\ n \div b \in Int
<1>1. n \div b \in Int /\ n % b \in 0..(b - 1) /\ n = b * (n \div b) + (n % b)
  OBVIOUS
<1> DEFINE q == n \div b
<1>2. q \in Int /\ b * q > n - b
  BY <1>1
<1> HIDE DEF q
<1>3. SUFFICES ASSUME q + 1 <= a PROVE FALSE
  BY <1>1, <1>2 DEF q
<1>4. b * (q + 1) <= b * a
  BY <1>2, <1>3, ProductOrder
<1>5. b * (q + 1) = b * q + b
  BY <1>2, Distribute
<1> QED
  BY <1>2, <1>4, <1>5

-------------------------------------------------------------------------------
(* Types.                                                                  *)

LEMMA ClockStep ==
  ASSUME Typed, [Next]_vars
  PROVE  ClockOK' /\ Behind'
<1>1. CASE PassTime
  <2>1. CASE Pass
    BY <2>1, ClockAssumption DEF Pass, Typed, LoopOK, ClockOK, Behind
  <2>2. CASE SetBack
    BY <2>2, ClockAssumption DEF SetBack, Typed, LoopOK, ClockOK, Behind
  <2> QED
    BY <1>1, <2>1, <2>2 DEF PassTime, Tick
<1>2. CASE ~PassTime
  <2>1. UNCHANGED clock
    BY <1>2 DEF Next, vars, Wait, Open, Mark, Release, EndBatch, FlushResponses, Flush,
               Idle, ReadNothing, AddRequest, Read
  <2> QED
    BY <2>1 DEF clock, Typed, LoopOK, ClockOK, Behind
<1> QED
  BY <1>1, <1>2

LEMMA RejectionType ==
  ASSUME Typed, NEW r \in Requests
  PROVE  /\ Rejection(r) \in Response /\ Asked(Rejection(r)) = r
         /\ ~Rejection(r).allowed /\ Rejection(r).retry = (Rejection(r).attempt < LastAttempt)
<1>1. /\ r \in [id : Nat, attempt : Attempts] /\ now \in Nat
      /\ (r.attempt < LastAttempt) \in BOOLEAN
  BY RequestsAssumption, ClockAssumption DEF Typed, LoopOK, ClockOK, Attempts, LastAttempt
<1>2. r = [id |-> r.id, attempt |-> r.attempt] /\ r.id \in Nat /\ r.attempt \in Attempts
  BY <1>1
<1> QED
  BY <1>1, <1>2 DEF Rejection, Response, Asked

\* What AddRequest does: the request is read, and its prepared response is
\* appended to the queue or given.
LEMMA AddShape ==
  ASSUME Typed, AddRequest
  PROVE  \E r \in unread :
           /\ unread' = unread \ {r} /\ r \in Requests
           /\ \/ Enqueue(Rejection(r)) /\ queue' = Append(queue, Rejection(r)) /\ out' = out
              \/ TurnAway(Rejection(r)) /\ queue' = queue /\ out' = out \cup {Rejection(r)}
           /\ UNCHANGED <<clock, sent, admitted, lastCheck, processed>>
           /\ pc = "read" /\ pc' = "update"
<1> QED
  BY DEF AddRequest, Read, Goto, Enqueue, TurnAway, Typed, LoopOK

\* What Release does: the head of the queue is admitted.
LEMMA ReleaseShape ==
  ASSUME Typed, Prepared, Release
  PROVE  \E x, a, g :
           /\ x = queue[1] /\ 1 \in DOMAIN queue /\ x \in Response
           /\ queue' = Tail(queue)
           /\ a \in Response /\ a.allowed /\ ~a.retry /\ Asked(a) = Asked(x)
           /\ out' = out \cup {a}
           /\ g.of \in Requests /\ g.at = elapsed /\ admitted' = admitted \cup {g}
           /\ g \in [of : Requests, at : 0..MaxTime]
           /\ processed' = processed + 1 /\ processed < RequestsToProcess
           /\ UNCHANGED <<clock, sent, unread, lastCheck>> /\ pc = "admit" /\ pc' = "admit"
<1> DEFINE x == Head(queue)
           a == [x EXCEPT !.allowed = TRUE, !.retry = FALSE, !.ts = now]
           g == [of |-> Asked(x), at |-> elapsed]
<1>1. x = queue[1] /\ 1 \in DOMAIN queue /\ x \in Response
  BY Tailed DEF Typed, Release
<1>2. now \in Nat /\ elapsed \in 0..MaxTime
  BY ClockAssumption DEF Typed, LoopOK, ClockOK
<1>3. a \in Response /\ a.allowed /\ ~a.retry /\ Asked(a) = Asked(x)
  <2> HIDE DEF x
  <2> QED
    BY <1>1, <1>2 DEF Response, Asked
<1>4. g \in [of : Requests, at : 0..MaxTime] /\ g.of \in Requests /\ g.at = elapsed
  BY <1>1, <1>2 DEF Prepared
<1>5. processed < RequestsToProcess
  BY BucketAssumption DEF Typed, Release, BatchFull
<1>6. /\ out' = out \cup {a} /\ admitted' = admitted \cup {g}
      /\ queue' = Tail(queue) /\ processed' = processed + 1
      /\ UNCHANGED <<clock, sent, unread, lastCheck>> /\ pc = "admit" /\ pc' = "admit"
  BY DEF Release, Give
<1> HIDE DEF x, a, g
<1> QED
  BY <1>1, <1>3, <1>4, <1>5, <1>6

\* The other steps move no request.
LEMMA Steps ==
  ASSUME [Next]_vars, ~Release, ~AddRequest
  PROVE  UNCHANGED <<unread, admitted, queue>> /\ out' \cup sent' = out \cup sent
  BY DEF Next, vars, PassTime, Wait, Open, Mark, EndBatch, FlushResponses, Flush,
         Idle, ReadNothing, Goto, answerVars

LEMMA TypeInit == Init => Typed /\ Prepared
<1> SUFFICES ASSUME Init PROVE Typed /\ Prepared
  OBVIOUS
<1>1. /\ <<>> \in Seq(Response) /\ Len(<<>>) = 0
      /\ \A q : q = <<>> => DOMAIN q = {}
  OBVIOUS
<1> QED
  BY <1>1, ClockAssumption, QueueAssumption, BucketAssumption
     DEF Init, LoopInit, ClockInit, Typed, LoopOK, ClockOK, Behind, Prepared

LEMMA TypeStep ==
  ASSUME Typed, Prepared, [Next]_vars
  PROVE  Typed'
<1>0. ClockOK' /\ Behind'
  BY ClockStep
<1>1. CASE Release
  <2>1. PICK x, a, g :
          /\ queue' = Tail(queue)
          /\ a \in Response /\ out' = out \cup {a}
          /\ admitted' = admitted \cup {g} /\ g \in [of : Requests, at : 0..MaxTime]
          /\ processed' = processed + 1 /\ processed < RequestsToProcess
          /\ UNCHANGED <<sent, unread, lastCheck>> /\ pc = "admit" /\ pc' = "admit"
    BY <1>1, ReleaseShape
  <2>2. queue' \in Seq(Response) /\ Len(queue') = Len(queue) - 1 /\ Len(queue) \in Nat
    BY <1>1, <2>1, Tailed DEF Typed, Release
  <2> QED
    BY <1>0, <2>1, <2>2, QueueAssumption, BucketAssumption DEF Typed, LoopOK
<1>2. CASE AddRequest
  <2>1. PICK r \in unread :
          /\ unread' = unread \ {r} /\ r \in Requests
          /\ \/ Enqueue(Rejection(r)) /\ queue' = Append(queue, Rejection(r)) /\ out' = out
             \/ TurnAway(Rejection(r)) /\ queue' = queue /\ out' = out \cup {Rejection(r)}
          /\ UNCHANGED <<clock, sent, admitted, lastCheck, processed>>
          /\ pc = "read" /\ pc' = "update"
    BY <1>2, AddShape
  <2>2. Rejection(r) \in Response
    BY <2>1, RejectionType
  <2>3. queue' \in Seq(Response) /\ Len(queue') <= QueueCap + 1
    <3>1. CASE Enqueue(Rejection(r)) /\ queue' = Append(queue, Rejection(r))
      BY <2>2, <3>1, Appended, QueueAssumption DEF Enqueue, Typed
    <3> QED
      BY <2>1, <3>1 DEF Typed
  <2> QED
    BY <1>0, <2>1, <2>2, <2>3 DEF Typed, LoopOK
<1>3. CASE ~Release /\ ~AddRequest
  <2>1. UNCHANGED <<unread, admitted, queue>> /\ out' \cup sent' = out \cup sent
    BY <1>3, Steps
  <2>2. lastCheck' = lastCheck \/ lastCheck' = now
    BY <1>3 DEF Next, vars, PassTime, Wait, Open, Mark, EndBatch, FlushResponses, Idle
  <2>3. (processed' = processed /\ pc' = pc) \/ (processed' = processed /\ pc # "admit")
        \/ processed' = 0
    BY <1>3 DEF Next, vars, PassTime, Wait, Open, Mark, EndBatch, FlushResponses, Flush,
               Idle, ReadNothing, Goto
  <2>4. pc' \in {"update", "expire", "mark", "admit", "book", "flush", "read"}
    BY <1>3 DEF Next, vars, PassTime, Wait, Open, Mark, EndBatch, FlushResponses, Flush,
               Idle, ReadNothing, Goto, Typed, LoopOK
  <2>5. now \in 0..(Start + MaxTime)
    BY DEF Typed, LoopOK, ClockOK
  <2> QED
    BY <1>0, <2>1, <2>2, <2>3, <2>4, <2>5, BucketAssumption DEF Typed, LoopOK
<1> QED
  BY <1>1, <1>2, <1>3

LEMMA PreparedStep ==
  ASSUME Typed, Prepared, [Next]_vars
  PROVE  Prepared'
<1>1. CASE Release
  <2>1. queue' = Tail(queue) /\ unread' = unread
    BY <1>1 DEF Release
  <2>2. /\ DOMAIN queue = 1..Len(queue) /\ DOMAIN queue' = 1..(Len(queue) - 1)
        /\ Len(queue) \in Nat
        /\ \A i \in 1..(Len(queue) - 1) : queue'[i] = queue[i + 1]
    BY <1>1, <2>1, Tailed DEF Typed, Release
  <2>3. \A i \in DOMAIN queue' : i + 1 \in DOMAIN queue /\ queue'[i] = queue[i + 1] /\ i \in Int
    BY <2>2
  <2> QED
    BY <2>1, <2>3 DEF Prepared
<1>2. CASE AddRequest
  <2>1. PICK r \in unread :
          /\ unread' = unread \ {r} /\ r \in Requests
          /\ queue' = queue \/ queue' = Append(queue, Rejection(r))
    BY <1>2, AddShape
  <2> DEFINE new == Rejection(r)
  <2>2. /\ new \in Response /\ Asked(new) = r
        /\ ~new.allowed /\ new.retry = (new.attempt < LastAttempt)
    BY <2>1, RejectionType
  <2> HIDE DEF new
  <2>3. CASE queue' = queue
    BY <2>1, <2>3 DEF Prepared
  <2>4. CASE queue' = Append(queue, new)
    <3>1. /\ DOMAIN queue = 1..Len(queue) /\ DOMAIN queue' = 1..(Len(queue) + 1)
          /\ Len(queue) \in Nat
          /\ \A i \in 1..Len(queue) : queue'[i] = queue[i]
          /\ queue'[Len(queue) + 1] = new
      BY <2>2, <2>4, Appended DEF Typed
    <3>2. \A i \in DOMAIN queue' : \/ i \in DOMAIN queue /\ queue'[i] = queue[i]
                                   \/ i = Len(queue) + 1 /\ queue'[i] = new
      BY <3>1
    <3> QED
      BY <2>1, <2>2, <3>2 DEF Prepared
  <2> QED
    BY <2>1, <2>3, <2>4 DEF new
<1>3. CASE ~Release /\ ~AddRequest
  BY <1>3, Steps DEF Prepared
<1> QED
  BY <1>1, <1>2, <1>3

-------------------------------------------------------------------------------
(* The rates.  The argument follows the batches: s of the times the clock  *)
(* was set back have brought a batch forward, and b is a time at or before *)
(* the last batch.  Unless a set-back is still to do so, the limiter sees  *)
(* no more time pass since that batch than passed since b.                 *)

Counted == IsFiniteSet(admitted) /\ \A g \in admitted : g.at <= elapsed

\* Admissions of the batch under way; a batch that is over counts as full.
Spent == IF pc = "admit" THEN processed ELSE RequestsToProcess

Linked(s, b) ==
  /\ s <= setBacks /\ b <= elapsed
  /\ s = setBacks => lastCheck <= now /\ now - lastCheck <= elapsed - b
  /\ s = setBacks /\ pc = "mark" => now - lastCheck >= TimeDelta

\* With a + s batches begun, a of them at their distance from the one before.
Batches ==
  \E a, s \in Nat :
    /\ Linked(s, a * TimeDelta)
    /\ Cardinality(admitted) + (RequestsToProcess - Spent) <= RequestsToProcess * (a + s)

\* How many admissions TimeDelta milliseconds from t on can hold when the last
\* batch began at e: only that batch, it and those before, or those before.
Peak(e, s, t) ==
  IF e < t THEN Spent
  ELSE IF e < t + TimeDelta THEN RequestsToProcess * (1 + s) + Spent
  ELSE RequestsToProcess * (2 + s)

Peaks ==
  \E e, s \in Nat :
    /\ Linked(s, e)
    /\ \A t \in Nat : Cardinality(GivenIn(t, TimeDelta)) <= Peak(e, s, t)

LEMMA Numbers ==
  ASSUME Typed
  PROVE  /\ now \in Int /\ elapsed \in Nat /\ lastCheck \in Int /\ setBacks \in Nat
         /\ TimeDelta \in Nat \ {0} /\ RequestsToProcess \in Nat
         /\ Spent \in Nat /\ Spent <= RequestsToProcess
         /\ \A g \in admitted : g.at \in Int
  BY ClockAssumption, BucketAssumption DEF Typed, LoopOK, ClockOK, Spent

LEMMA Counts ==
  ASSUME Typed, Counted
  PROVE  /\ Cardinality(admitted) \in Nat
         /\ \A t : IsFiniteSet(GivenIn(t, TimeDelta)) /\ Cardinality(GivenIn(t, TimeDelta)) \in Nat
<1>1. \A t : GivenIn(t, TimeDelta) \subseteq admitted
  BY DEF GivenIn
<1>2. \A t : IsFiniteSet(GivenIn(t, TimeDelta))
  BY <1>1, FS_Subset DEF Counted
<1> QED
  BY <1>2, FS_CardinalityType DEF Counted

\* A step marks a batch, admits a request, or neither.
LEMMA Shape ==
  ASSUME Typed, Prepared, [Next]_vars
  PROVE  \/ Mark
         \/ /\ \E g : admitted' = admitted \cup {g} /\ g.at = elapsed
            /\ Spent' = Spent + 1 /\ UNCHANGED <<clock, lastCheck>> /\ pc' # "mark"
         \/ /\ UNCHANGED <<admitted, lastCheck>> /\ Spent <= Spent'
            /\ PassTime \/ UNCHANGED clock
            /\ pc' = "mark" => Open \/ pc = "mark"
<1>1. CASE Release
  <2>1. pc = "admit" /\ pc' = "admit" /\ processed' = processed + 1
    BY <1>1 DEF Release
  <2> QED
    BY <1>1, <2>1, ReleaseShape DEF Spent
<1>2. CASE AddRequest
  <2>1. /\ UNCHANGED <<clock, admitted, lastCheck>> /\ pc = "read" /\ pc' = "update"
    BY <1>2, AddShape
  <2> QED
    BY <2>1, BucketAssumption DEF Spent
<1>3. CASE ~Release /\ ~AddRequest /\ ~Mark
  <2>1. UNCHANGED <<admitted, lastCheck>> /\ (PassTime \/ UNCHANGED clock)
    BY <1>3, Steps DEF Next, vars, Wait, Open, EndBatch, FlushResponses, Flush, Idle, ReadNothing,
         PassTime, answerVars
  <2>2. pc' = "mark" => Open \/ pc = "mark"
    BY <1>3 DEF Next, vars, PassTime, Wait, EndBatch, FlushResponses, Flush, Idle,
         ReadNothing, Goto
  <2>3. Spent' = Spent \/ Spent' = RequestsToProcess
    BY <1>3 DEF Next, vars, PassTime, Wait, Open, EndBatch, FlushResponses, Flush, Idle,
         ReadNothing, Goto, Spent
  <2> QED
    BY <2>1, <2>2, <2>3, Numbers
<1> QED
  BY <1>1, <1>2, <1>3

LEMMA CountedStep ==
  ASSUME Typed, Prepared, Counted, [Next]_vars
  PROVE  Counted'
<1>1. CASE PassTime
  <2>1. elapsed' \in Int /\ elapsed <= elapsed' /\ admitted' = admitted
    BY <1>1, Numbers DEF PassTime, Tick, Pass, SetBack, answerVars
  <2> QED
    BY <2>1, Numbers DEF Counted
<1>2. CASE \E g : admitted' = admitted \cup {g} /\ g.at = elapsed /\ UNCHANGED clock
  <2>1. elapsed <= elapsed
    BY Numbers
  <2> QED
    BY <1>2, <2>1, OneMore DEF Counted, clock
<1>3. CASE UNCHANGED <<clock, admitted>>
  BY <1>3 DEF Counted, clock
<1>4. CASE Mark
  BY <1>3, <1>4 DEF Mark, answerVars
<1> QED
  BY <1>1, <1>2, <1>3, <1>4, Shape

\* Time that passes keeps the link; so does a set-back, which leaves one more
\* that may bring a batch forward.
LEMMA LinkStep ==
  ASSUME Typed, [Next]_vars, NEW s \in Nat, NEW b \in Nat, Linked(s, b),
         lastCheck' = lastCheck, PassTime \/ UNCHANGED clock,
         pc' = "mark" => Open \/ pc = "mark"
  PROVE  Linked(s, b)'
<1>1. CASE Pass /\ pc' = pc
  BY <1>1, Numbers DEF Pass, Linked
<1>2. CASE SetBack
  BY <1>2, Numbers DEF SetBack, Linked
<1>3. CASE UNCHANGED clock /\ Open
  <2>1. CASE s = setBacks
    <3>1. now - lastCheck \in Nat /\ now - lastCheck < Word
      BY <2>1, Numbers, ClockAssumption DEF Linked, Typed, LoopOK, ClockOK
    <3>2. (now - lastCheck) % Word = now - lastCheck
      BY <3>1, ClockAssumption
    <3> QED
      BY <1>3, <3>2 DEF Open, Due, Since, Linked, clock
  <2>2. CASE s # setBacks
    BY <1>3, <2>2 DEF Linked, clock
  <2> QED
    BY <2>1, <2>2
<1>4. CASE UNCHANGED clock /\ ~Open
  BY <1>4 DEF Linked, clock
<1> QED
  BY <1>1, <1>2, <1>3, <1>4 DEF PassTime, Tick

\* A batch is marked TimeDelta milliseconds after b, or a set-back brought it
\* forward, and is linked to the present.
LEMMA LinkMark ==
  ASSUME Typed, Mark, NEW s \in Nat, NEW b \in Nat, Linked(s, b)
  PROVE  /\ b + TimeDelta <= elapsed \/ s + 1 <= setBacks
         /\ \A r, c \in Nat : r <= setBacks /\ c <= elapsed => Linked(r, c)'
<1>1. b + TimeDelta <= elapsed \/ s + 1 <= setBacks
  <2>1. CASE s = setBacks
    BY <2>1, Numbers DEF Mark, Goto, Linked
  <2>2. CASE s # setBacks
    BY <2>2, Numbers DEF Linked
  <2> QED
    BY <2>1, <2>2
<1>2. /\ elapsed' = elapsed /\ setBacks' = setBacks /\ now' = now /\ lastCheck' = now
      /\ pc' = "admit"
  BY DEF Mark, Goto, clock
<1> QED
  BY <1>1, <1>2, Numbers DEF Linked

LEMMA BatchesStep ==
  ASSUME Typed, Typed', Prepared, Counted, Batches, [Next]_vars
  PROVE  Batches'
<1> DEFINE R == RequestsToProcess
<1>1. PICK a \in Nat, s \in Nat :
        /\ Linked(s, a * TimeDelta)
        /\ Cardinality(admitted) + (R - Spent) <= R * (a + s)
  BY DEF Batches
<1>2. a * TimeDelta \in Nat /\ R * (a + s) \in Int /\ R * (a + s + 1) = R * (a + s) + R
  BY Numbers, Distribute
<1>3. /\ Cardinality(admitted) \in Nat /\ Spent \in Nat /\ Spent' \in Nat /\ R \in Nat
      /\ Spent <= R
  BY Numbers, Counts DEF Typed, LoopOK, Spent
<1>4. CASE Mark
  <2>1. Spent = R /\ Spent' = 0 /\ admitted' = admitted
    BY <1>4 DEF Mark, Goto, Spent, Typed, answerVars
  <2>2. Cardinality(admitted') + (R - Spent') <= R * (a + s + 1)
    BY <1>1, <1>2, <1>3, <2>1
  <2>3. CASE a * TimeDelta + TimeDelta <= elapsed
    <3>1. (a + 1) * TimeDelta = a * TimeDelta + TimeDelta /\ (a + 1) * TimeDelta \in Nat
      BY Numbers
    <3>2. Linked(s, (a + 1) * TimeDelta)'
      BY <1>1, <1>2, <1>4, <2>3, <3>1, LinkMark DEF Linked
    <3>3. (a + 1) + s = a + s + 1 /\ a + 1 \in Nat
      OBVIOUS
    <3> QED
      BY <2>2, <3>2, <3>3 DEF Batches
  <2>4. CASE s + 1 <= setBacks
    <3>1. Linked(s + 1, a * TimeDelta)'
      BY <1>1, <1>2, <1>4, <2>4, LinkMark DEF Linked
    <3>2. a + (s + 1) = a + s + 1 /\ s + 1 \in Nat
      OBVIOUS
    <3> QED
      BY <2>2, <3>1, <3>2 DEF Batches
  <2> QED
    BY <1>1, <1>2, <1>4, <2>3, <2>4, LinkMark
<1>5. CASE /\ \E g : admitted' = admitted \cup {g}
           /\ Spent' = Spent + 1 /\ UNCHANGED <<clock, lastCheck>> /\ pc' # "mark"
  <2>1. Cardinality(admitted') \in Nat /\ Cardinality(admitted') <= Cardinality(admitted) + 1
    BY <1>5, OneMore DEF Counted
  <2>2. Cardinality(admitted') + (R - Spent') <= R * (a + s)
    BY <1>1, <1>2, <1>3, <1>5, <2>1
  <2>3. Linked(s, a * TimeDelta)'
    BY <1>1, <1>2, <1>5, LinkStep
  <2> QED
    BY <2>2, <2>3 DEF Batches
<1>6. CASE /\ UNCHANGED <<admitted, lastCheck>> /\ Spent <= Spent'
           /\ PassTime \/ UNCHANGED clock
           /\ pc' = "mark" => Open \/ pc = "mark"
  <2>1. Cardinality(admitted') + (R - Spent') <= R * (a + s)
    BY <1>1, <1>2, <1>3, <1>6
  <2>2. Linked(s, a * TimeDelta)'
    BY <1>1, <1>2, <1>6, LinkStep
  <2> QED
    BY <2>1, <2>2 DEF Batches
<1> QED
  BY <1>4, <1>5, <1>6, Shape

LEMMA PeakBounds ==
  ASSUME Typed, NEW e \in Nat, NEW s \in Nat, NEW t \in Nat
  PROVE  /\ Peak(e, s, t) <= RequestsToProcess * (2 + s)
         /\ e < t => Peak(e, s, t) <= RequestsToProcess * (1 + s)
         /\ Peak(e, s, t) \in Nat
         /\ RequestsToProcess * (1 + s) \in Nat /\ RequestsToProcess * (2 + s) \in Nat
         /\ RequestsToProcess * (1 + s) <= RequestsToProcess * (2 + s)
<1>1. RequestsToProcess * (2 + s) = RequestsToProcess * (1 + s) + RequestsToProcess
  <2>1. 2 + s = (1 + s) + 1 /\ 1 + s \in Int
    OBVIOUS
  <2> QED
    BY <2>1, Numbers, Distribute
<1>2. RequestsToProcess * (1 + s) = RequestsToProcess * s + RequestsToProcess
  <2>1. 1 + s = s + 1
    OBVIOUS
  <2> QED
    BY <2>1, Numbers, Distribute
<1>3. RequestsToProcess * s \in Nat
  BY Numbers
<1> DEFINE x == RequestsToProcess * s
           y == RequestsToProcess * (1 + s)
           z == RequestsToProcess * (2 + s)
<1>4. z = y + RequestsToProcess /\ y = x + RequestsToProcess /\ x \in Nat
  BY <1>1, <1>2, <1>3
<1>5. Peak(e, s, t) = IF e < t THEN Spent ELSE IF e < t + TimeDelta THEN y + Spent ELSE z
  BY DEF Peak
<1> HIDE DEF x, y, z
<1>6. /\ Peak(e, s, t) <= z /\ (e < t => Peak(e, s, t) <= y)
      /\ Peak(e, s, t) \in Nat /\ y \in Nat /\ z \in Nat /\ y <= z
  BY <1>4, <1>5, Numbers
<1> QED
  BY <1>6 DEF y, z

LEMMA PeaksStep ==
  ASSUME Typed, Typed', Prepared, Counted, Peaks, [Next]_vars
  PROVE  Peaks'
<1> DEFINE G(t) == Cardinality(GivenIn(t, TimeDelta))
           R == RequestsToProcess
<1>1. PICK e \in Nat, s \in Nat :
        Linked(s, e) /\ \A t \in Nat : G(t) <= Peak(e, s, t)
  BY DEF Peaks
<1>2. \A t : G(t) \in Nat
  BY Counts
<1>3. \A t \in Nat : G(t) <= R * (2 + s) /\ (e < t => G(t) <= R * (1 + s))
  <2> SUFFICES ASSUME NEW t \in Nat
               PROVE  G(t) <= R * (2 + s) /\ (e < t => G(t) <= R * (1 + s))
    OBVIOUS
  <2>1. G(t) <= Peak(e, s, t) /\ G(t) \in Nat
    BY <1>1, <1>2
  <2>2. /\ Peak(e, s, t) <= R * (2 + s) /\ (e < t => Peak(e, s, t) <= R * (1 + s))
        /\ Peak(e, s, t) \in Nat /\ R * (1 + s) \in Nat /\ R * (2 + s) \in Nat
    BY PeakBounds
  <2> DEFINE n == G(t)
             y == R * (1 + s)
             z == R * (2 + s)
  <2> HIDE DEF G, n, y, z
  <2>3. n <= z /\ (e < t => n <= y)
    BY <2>1, <2>2 DEF n, y, z
  <2> QED
    BY <2>3 DEF n, y, z
<1>4. CASE Mark
  <2>1. Spent' = 0 /\ admitted' = admitted /\ elapsed' = elapsed
    BY <1>4 DEF Mark, Goto, Spent, Typed, answerVars, clock
  <2>2. PICK r \in Nat : /\ r <= setBacks
                         /\ \/ r = s /\ e + TimeDelta <= elapsed
                            \/ r = s + 1
    <3>1. e + TimeDelta <= elapsed \/ s + 1 <= setBacks
      BY <1>1, <1>4, LinkMark
    <3> QED
      BY <1>1, <3>1 DEF Linked
  <2>3. PICK f \in Nat : f = elapsed
    BY Numbers
  <2>5. Linked(r, f)'
    BY <1>1, <1>4, <2>2, <2>3, LinkMark
  <2>4. ASSUME NEW t \in Nat PROVE G(t)' <= Peak(f, r, t)'
    <3>1. G(t)' = G(t)
      BY <2>1 DEF GivenIn
    <3>2. CASE f < t
      <4>1. \A g \in admitted : ~(t <= g.at)
        BY <2>3, <3>2, Numbers DEF Counted
      <4>2. G(t) = 0
        BY <4>1, FS_EmptySet DEF GivenIn
      <4> QED
        BY <2>1, <3>1, <3>2, <4>2 DEF Peak
    <3>3. CASE ~(f < t) /\ f < t + TimeDelta
      <4>1. r = s => e < t
        BY <2>2, <2>3, <3>3, Numbers
      <4>2. G(t) <= R * (1 + r)
        <5>1. CASE r = s
          BY <1>3, <4>1, <5>1
        <5>2. CASE r = s + 1
          <6>1. 1 + r = 2 + s
            BY <5>2
          <6> QED
            BY <1>3, <6>1
        <5> QED
          BY <2>2, <5>1, <5>2
      <4>3. Peak(f, r, t)' = R * (1 + r) + 0
        BY <2>1, <3>3 DEF Peak
      <4>4. R * (1 + r) \in Nat
        BY PeakBounds
      <4> QED
        BY <3>1, <4>2, <4>3, <4>4
    <3>4. CASE ~(f < t) /\ ~(f < t + TimeDelta)
      <4>1. R * (2 + s) <= R * (2 + r) /\ R * (2 + s) \in Int /\ R * (2 + r) \in Int
        <5>1. 2 + s <= 2 + r /\ 2 + s \in Int /\ 2 + r \in Int
          BY <2>2
        <5> QED
          BY <5>1, ProductOrder, Numbers
      <4>2. Peak(f, r, t)' = R * (2 + r)
        BY <2>1, <3>4 DEF Peak
      <4>3. G(t) <= R * (2 + s) /\ G(t) \in Nat
        BY <1>2, <1>3
      <4> HIDE DEF G
      <4> QED
        BY <3>1, <4>1, <4>2, <4>3
    <3> QED
      BY <3>2, <3>3, <3>4
  <2> QED
    BY <2>4, <2>5 DEF Peaks
<1>5. CASE /\ \E g : admitted' = admitted \cup {g} /\ g.at = elapsed
           /\ Spent' = Spent + 1 /\ UNCHANGED <<clock, lastCheck>> /\ pc' # "mark"
  <2>1. PICK g : admitted' = admitted \cup {g} /\ g.at = elapsed
    BY <1>5
  <2>2. Linked(s, e)'
    BY <1>1, <1>5, LinkStep
  <2>3. ASSUME NEW t \in Nat PROVE G(t)' <= Peak(e, s, t)'
    <3>1. G(t) <= Peak(e, s, t) /\ G(t) \in Nat
      BY <1>1, <1>2
    <3>2. CASE e < t + TimeDelta
      <4>1. GivenIn(t, TimeDelta)' \subseteq GivenIn(t, TimeDelta) \cup {g}
        BY <2>1 DEF GivenIn
      <4>2. /\ IsFiniteSet(GivenIn(t, TimeDelta) \cup {g})
            /\ Cardinality(GivenIn(t, TimeDelta) \cup {g}) \in Nat
            /\ Cardinality(GivenIn(t, TimeDelta) \cup {g}) <= G(t) + 1
        BY Counts, OneMore
      <4>3. G(t)' \in Nat /\ G(t)' <= Cardinality(GivenIn(t, TimeDelta) \cup {g})
        BY <4>1, <4>2, FS_Subset, FS_CardinalityType
      <4>4. Peak(e, s, t)' = Peak(e, s, t) + 1
        <5>1. R * (1 + s) \in Nat /\ Spent \in Nat
          BY PeakBounds, Numbers
        <5> QED
          BY <1>5, <3>2, <5>1 DEF Peak
      <4>5. Peak(e, s, t) \in Nat
        BY PeakBounds
      <4> DEFINE n == Cardinality(GivenIn(t, TimeDelta) \cup {g})
      <4> HIDE DEF G, n
      <4>6. n \in Nat /\ n <= G(t) + 1 /\ G(t)' <= n /\ G(t)' \in Nat
        BY <4>2, <4>3 DEF n, G
      <4> QED
        BY <3>1, <4>4, <4>5, <4>6
    <3>3. CASE ~(e < t + TimeDelta)
      <4>1. ~(g.at < t + TimeDelta)
        BY <1>1, <2>1, <3>3, Numbers DEF Linked
      <4>2. GivenIn(t, TimeDelta)' = GivenIn(t, TimeDelta)
        BY <2>1, <4>1 DEF GivenIn
      <4>3. ~(e < t)
        BY <3>3, Numbers
      <4> QED
        BY <3>1, <3>3, <4>2, <4>3 DEF Peak
    <3> QED
      BY <3>2, <3>3
  <2> QED
    BY <2>2, <2>3 DEF Peaks
<1>6. CASE /\ UNCHANGED <<admitted, lastCheck>> /\ Spent <= Spent'
           /\ PassTime \/ UNCHANGED clock
           /\ pc' = "mark" => Open \/ pc = "mark"
  <2>1. Linked(s, e)'
    BY <1>1, <1>6, LinkStep
  <2>2. ASSUME NEW t \in Nat PROVE G(t)' <= Peak(e, s, t)'
    <3>1. G(t) <= Peak(e, s, t) /\ G(t) \in Nat /\ G(t)' = G(t)
      BY <1>1, <1>2, <1>6 DEF GivenIn
    <3>2. Peak(e, s, t) <= Peak(e, s, t)' /\ Peak(e, s, t) \in Nat /\ Peak(e, s, t)' \in Nat
      <4>1. /\ R * (1 + s) \in Nat /\ R * (2 + s) \in Nat
            /\ Spent \in Nat /\ Spent' \in Nat
        <5>1. Spent \in Nat /\ Spent' \in Nat
          BY Numbers DEF Typed, Spent
        <5> QED
          BY <5>1, PeakBounds
      <4> QED
        BY <1>6, <4>1 DEF Peak
    <3> HIDE DEF G
    <3> QED
      BY <3>1, <3>2
  <2> QED
    BY <2>1, <2>2 DEF Peaks
<1> QED
  BY <1>4, <1>5, <1>6, Shape

LEMMA RateInit == Init => Counted /\ Batches /\ Peaks
<1> SUFFICES ASSUME Init PROVE Counted /\ Batches /\ Peaks
  OBVIOUS
<1>1. /\ admitted = {} /\ pc = "update" /\ elapsed = 0 /\ setBacks = 0
      /\ now = Start /\ lastCheck = Start
  BY DEF Init, LoopInit, ClockInit
<1>2. IsFiniteSet({}) /\ Cardinality({}) = 0
  BY FS_EmptySet
<1>3. Spent = RequestsToProcess /\ Start \in Nat /\ TimeDelta \in Nat /\ RequestsToProcess \in Nat
  BY <1>1, ClockAssumption, BucketAssumption DEF Spent
<1>4. Counted
  BY <1>1, <1>2 DEF Counted
<1>5. Linked(0, 0)
  BY <1>1, <1>3 DEF Linked
<1>6. Batches
  <2>1. 0 * TimeDelta = 0 /\ RequestsToProcess * (0 + 0) = 0
    BY <1>3
  <2> QED
    BY <1>1, <1>2, <1>3, <1>5, <2>1 DEF Batches
<1>7. Peaks
  <2>1. ASSUME NEW t \in Nat PROVE Cardinality(GivenIn(t, TimeDelta)) <= Peak(0, 0, t)
    <3>1. GivenIn(t, TimeDelta) = {}
      BY <1>1 DEF GivenIn
    <3>2. Peak(0, 0, t) \in Nat
      BY TypeInit, PeakBounds
    <3> QED
      BY <1>2, <3>1, <3>2
  <2> QED
    BY <1>5, <2>1 DEF Peaks
<1> QED
  BY <1>4, <1>6, <1>7

LEMMA LongRunHolds ==
  ASSUME Typed, Counted, Batches
  PROVE  LongRunRate
<1>1. PICK a \in Nat, s \in Nat :
        /\ Linked(s, a * TimeDelta)
        /\ Cardinality(admitted) + (RequestsToProcess - Spent) <= RequestsToProcess * (a + s)
  BY DEF Batches
<1>2. a <= elapsed \div TimeDelta /\ elapsed \div TimeDelta \in Int
  BY <1>1, Numbers, Quotient DEF Linked
<1>3. a + s <= (elapsed \div TimeDelta) + setBacks /\ (elapsed \div TimeDelta) + setBacks \in Int
  BY <1>1, <1>2, Numbers DEF Linked
<1> DEFINE x == RequestsToProcess * (a + s)
           y == RequestsToProcess * ((elapsed \div TimeDelta) + setBacks)
<1>4. x <= y /\ x \in Int /\ y \in Int
  BY <1>3, Numbers, ProductOrder
<1> HIDE DEF x, y
<1>5. Cardinality(admitted) <= y
  BY <1>1, <1>4, Numbers, Counts DEF x
<1> QED
  BY <1>5 DEF y, LongRunRate

LEMMA PeakHolds ==
  ASSUME Typed, Counted, Peaks
  PROVE  PeakRate
<1>1. PICK e \in Nat, s \in Nat :
        /\ Linked(s, e)
        /\ \A t \in Nat : Cardinality(GivenIn(t, TimeDelta)) <= Peak(e, s, t)
  BY DEF Peaks
<1>2. SUFFICES ASSUME NEW t \in Nat
               PROVE  Cardinality(GivenIn(t, TimeDelta)) <= RequestsToProcess * (2 + setBacks)
  BY Numbers DEF PeakRate
<1> DEFINE n == Cardinality(GivenIn(t, TimeDelta))
           x == RequestsToProcess * (2 + s)
           y == RequestsToProcess * (2 + setBacks)
<1>3. n <= Peak(e, s, t) /\ n \in Nat
  BY <1>1, Counts
<1>4. Peak(e, s, t) <= x /\ Peak(e, s, t) \in Nat
  BY PeakBounds
<1>5. x <= y /\ x \in Int /\ y \in Int
  <2>1. 2 + s <= 2 + setBacks /\ 2 + s \in Int /\ 2 + setBacks \in Int
    BY <1>1, Numbers DEF Linked
  <2> QED
    BY <2>1, ProductOrder, Numbers
<1> HIDE DEF n, x, y
<1>6. n <= y
  BY <1>3, <1>4, <1>5
<1> QED
  BY <1>6 DEF n, y

-------------------------------------------------------------------------------
(* The promise of a limiter.                                               *)

Answers == out \cup sent
Waiting == {Asked(q) : q \in Range(queue)}

\* The instance counts with the same Cardinality.
LEMMA SameCardinality == ASSUME NEW S PROVE Promise!Cardinality(S) = Cardinality(S)
  BY DEF Promise!Cardinality, Cardinality

LEMMA WaitingIs == Waiting = {Asked(queue[i]) : i \in DOMAIN queue}
  BY DEF Waiting, Range

\* The head leaves the queue with its request, which waits there only once.
LEMMA WaitingLess ==
  ASSUME Typed, Prepared, queue # <<>>, queue' = Tail(queue)
  PROVE  Waiting' = Waiting \ {Asked(queue[1])} /\ Asked(queue[1]) \in Waiting
<1>1. /\ DOMAIN queue = 1..Len(queue) /\ DOMAIN queue' = 1..(Len(queue) - 1)
      /\ Len(queue) \in Nat \ {0}
      /\ \A i \in 1..(Len(queue) - 1) : queue'[i] = queue[i + 1]
  BY Tailed DEF Typed
<1>2. Waiting' = {Asked(queue'[i]) : i \in DOMAIN queue'}
  BY DEF Waiting, Range
<1>3. /\ 1 \in DOMAIN queue
      /\ \A i \in DOMAIN queue' : /\ i + 1 \in DOMAIN queue /\ i + 1 # 1
                                  /\ queue'[i] = queue[i + 1]
      /\ \A i \in DOMAIN queue : i = 1 \/ \E j \in DOMAIN queue' : queue'[j] = queue[i]
  <2>1. \A i \in DOMAIN queue : i = 1 \/ (i - 1 \in DOMAIN queue' /\ queue'[i - 1] = queue[i])
    BY <1>1
  <2> QED
    BY <1>1, <2>1
<1>4. \A i, j \in DOMAIN queue : Asked(queue[i]) = Asked(queue[j]) => i = j
  BY DEF Prepared
<1>5. \A w : w \in Waiting' => w \in Waiting \ {Asked(queue[1])}
  BY <1>2, <1>3, <1>4, WaitingIs
<1>6. \A w : w \in Waiting \ {Asked(queue[1])} => w \in Waiting'
  BY <1>2, <1>3, WaitingIs
<1> QED
  BY <1>3, <1>5, <1>6, WaitingIs

LEMMA WaitingMore ==
  ASSUME Typed, NEW x \in Response, queue' = Append(queue, x)
  PROVE  Waiting' = Waiting \cup {Asked(x)}
<1>1. /\ DOMAIN queue = 1..Len(queue) /\ DOMAIN queue' = 1..(Len(queue) + 1)
      /\ Len(queue) \in Nat
      /\ \A i \in 1..Len(queue) : queue'[i] = queue[i]
      /\ queue'[Len(queue) + 1] = x
  BY Appended DEF Typed
<1>2. Waiting' = {Asked(queue'[i]) : i \in DOMAIN queue'}
  BY DEF Waiting, Range
<1>3. /\ \A i \in DOMAIN queue : i \in DOMAIN queue' /\ queue'[i] = queue[i]
      /\ \A i \in DOMAIN queue' : queue'[i] = x \/ (i \in DOMAIN queue /\ queue'[i] = queue[i])
      /\ \E i \in DOMAIN queue' : queue'[i] = x
  BY <1>1
<1> QED
  BY <1>2, <1>3, WaitingIs

LEMMA ReleaseAdmits ==
  ASSUME Typed, Prepared, Release
  PROVE  Promise!Admit(0)
<1>1. PICK x, a :
        /\ x = queue[1] /\ queue' = Tail(queue)
        /\ a \in Response /\ a.allowed /\ ~a.retry /\ Asked(a) = Asked(x)
        /\ out' = out \cup {a} /\ UNCHANGED <<sent, unread>>
  BY ReleaseShape
<1> DEFINE W == [n \in {0} |-> Waiting]
           A == [n \in {0} |-> Answers]
<1>2. Waiting' = Waiting \ {Asked(x)} /\ Asked(x) \in Waiting
  BY <1>1, WaitingLess DEF Release
<1>3. a.id = Asked(x).id /\ a.attempt = Asked(x).attempt
  <2>1. Asked(a).id = a.id /\ Asked(a).attempt = a.attempt
    BY DEF Asked
  <2> QED
    BY <1>1, <2>1
<1>4. A' = [A EXCEPT ![0] = @ \cup {a}] /\ a \in A'[0]
  BY <1>1 DEF Answers
<1>5. Cardinality(Promise!InFlight(A[0], a.ts)) < 1
  <2>1. \A b \in A[0] : b.ts \in Nat
    BY DEF Typed, LoopOK, Answers, Response
  <2>2. a.ts \in Nat
    BY <1>1 DEF Response
  <2> HIDE DEF A
  <2>3. Promise!InFlight(A[0], a.ts) = {}
    BY <2>1, <2>2 DEF Promise!InFlight
  <2> QED
    BY <2>3, FS_EmptySet
<1>6. \E b \in A'[0] : /\ Promise!Admits(b, Asked(x))
                       /\ Cardinality(Promise!InFlight(A[0], b.ts)) < 1
                       /\ A' = [A EXCEPT ![0] = @ \cup {b}]
  <2> HIDE DEF A
  <2> QED
    BY <1>1, <1>3, <1>4, <1>5 DEF Promise!Admits
<1>7. W' = [W EXCEPT ![0] = @ \ {Asked(x)}] /\ Asked(x) \in W[0]
  BY <1>2
<1>8. \E r \in W[0] :
         /\ W' = [W EXCEPT ![0] = @ \ {r}]
         /\ \E b \in A'[0] : /\ Promise!Admits(b, r)
                             /\ Cardinality(Promise!InFlight(A[0], b.ts)) < 1
                             /\ A' = [A EXCEPT ![0] = @ \cup {b}]
  <2> HIDE DEF A, W
  <2> QED
    BY <1>6, <1>7
<1> QED
  BY <1>1, <1>8, SameCardinality DEF Promise!Admit, Answers, Waiting

LEMMA AddTakes ==
  ASSUME Typed, Prepared, AddRequest
  PROVE  \E r \in unread : Promise!Take(0, r) \/ Promise!TakeAndReject(0, r)
<1>1. PICK r \in unread :
        /\ unread' = unread \ {r} /\ r \in Requests
        /\ \/ queue' = Append(queue, Rejection(r)) /\ out' = out
           \/ queue' = queue /\ out' = out \cup {Rejection(r)}
        /\ sent' = sent
  BY AddShape
<1> DEFINE new == Rejection(r)
           W == [n \in {0} |-> Waiting]
           A == [n \in {0} |-> Answers]
<1>2. /\ new \in Response /\ Asked(new) = r
      /\ ~new.allowed /\ new.retry = (new.attempt < LastAttempt)
  BY <1>1, RejectionType
<1> HIDE DEF new
<1>3. ASSUME queue' = Append(queue, new), out' = out PROVE Promise!Take(0, r)
  <2>1. Waiting' = Waiting \cup {r}
    BY <1>2, <1>3, WaitingMore
  <2>2. W' = [W EXCEPT ![0] = @ \cup {r}]
    BY <2>1
  <2> QED
    BY <1>1, <1>3, <2>2 DEF Promise!Take, Answers, Waiting
<1>4. ASSUME queue' = queue, out' = out \cup {new} PROVE Promise!TakeAndReject(0, r)
  <2>1. r \notin Waiting /\ Waiting' = Waiting
    BY <1>4, WaitingIs DEF Prepared, Waiting
  <2>2. W' = [W EXCEPT ![0] = (@ \cup {r}) \ {r}] /\ r \in W[0] \cup {r}
    BY <2>1
  <2>3. A' = [A EXCEPT ![0] = @ \cup {new}] /\ new \in A'[0]
    BY <1>1, <1>4 DEF Answers
  <2>4. new.id = r.id /\ new.attempt = r.attempt
    BY <1>2 DEF Asked
  <2>5. Promise!Rejects(new, r)
    BY <1>2, <2>4 DEF Promise!Rejects, Promise!LastAttempt, LastAttempt
  <2> QED
    BY <1>1, <2>2, <2>3, <2>5 DEF Promise!TakeAndReject, Answers, Waiting
<1> QED
  BY <1>1, <1>3, <1>4 DEF new

LEMMA LimiterStep ==
  ASSUME Typed, Prepared, [Next]_vars
  PROVE  [Promise!Next]_(Promise!vars)
<1>1. CASE Release
  BY <1>1, ReleaseAdmits DEF Promise!Next
<1>2. CASE AddRequest
  BY <1>2, AddTakes DEF Promise!Next
<1>3. CASE ~Release /\ ~AddRequest
  BY <1>3, Steps DEF Promise!vars
<1> QED
  BY <1>1, <1>2, <1>3

-------------------------------------------------------------------------------
(* The theorems.                                                           *)

IInv == Typed /\ Prepared /\ Counted /\ Batches /\ Peaks

LEMMA Invariance == Spec => []IInv
<1>1. Init => IInv
  BY TypeInit, RateInit DEF IInv
<1>2. IInv /\ [Next]_vars => IInv'
  BY TypeStep, PreparedStep, CountedStep, BatchesStep, PeaksStep DEF IInv
<1> QED
  BY <1>1, <1>2, PTL DEF Spec

\* Every variable keeps its type; the queue never holds more than one response
\* above its cap, and no batch is larger than RequestsToProcess.
THEOREM TypeCorrect == Spec => []TypeOK
<1>1. IInv => TypeOK
  BY DEF IInv, Typed, TypeOK
<1> QED
  BY <1>1, Invariance, PTL

\* In the long run there is one batch for every TimeDelta milliseconds, and at
\* most one more for each time the clock is set back.
THEOREM LongRunCorrect == Spec => []LongRunRate
<1>1. IInv => LongRunRate
  BY LongRunHolds DEF IInv
<1> QED
  BY <1>1, Invariance, PTL

\* No TimeDelta milliseconds hold more than two batches, and one for each time
\* the clock is set back.
THEOREM PeakCorrect == Spec => []PeakRate
<1>1. IInv => PeakRate
  BY PeakHolds DEF IInv
<1> QED
  BY <1>1, Invariance, PTL

\* Every request that is read is answered exactly once, with the right flags:
\* the limiter refines the abstract one.
THEOREM LimiterCorrect == Spec => ImplementsLimiter
<1>1. Init => Promise!Init
  <2>1. ASSUME queue = <<>> PROVE Waiting = {}
    BY <2>1 DEF Waiting, Range
  <2> QED
    BY <2>1 DEF Init, LoopInit, Promise!Init, Waiting
<1>2. IInv /\ [Next]_vars => [Promise!Next]_(Promise!vars)
  BY LimiterStep DEF IInv
<1> QED
  BY <1>1, <1>2, Invariance, PTL DEF Spec, ImplementsLimiter, Promise!Spec

===============================================================================
