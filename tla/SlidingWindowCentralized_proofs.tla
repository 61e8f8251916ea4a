-------------------- MODULE SlidingWindowCentralized_proofs --------------------
(***************************************************************************)
(* Theorems about SlidingWindowCentralized: for any requests, window,      *)
(* life and queue cap, and any number of times the clock is set back, the  *)
(* window holds in any stretch of real time, every request is answered     *)
(* once, and retries go first.                                             *)
(***************************************************************************)
EXTENDS SlidingWindowCentralized, FiniteSetTheorems, TLAPS

\* The clock, however often it was set back, is not ahead of the real time.
Behind == now <= Start + elapsed

Typed ==
  /\ LoopOK /\ Behind
  /\ queue \subseteq Response
  /\ infly \subseteq [of : Requests, end : 0..(Start + MaxTime + Life)]

\* A prepared response is a rejection of a request that was read and is in the
\* queue once.
Prepared ==
  /\ \A q \in queue : /\ Asked(q) \in Requests /\ Asked(q) \notin unread
                      /\ ~q.allowed /\ q.retry = (q.attempt < LastAttempt)
  /\ \A p, q \in queue : Asked(p) = Asked(q) => p = q

\* The tests of the code ask for equality with the window; it is safe, because
\* an entry is only made where there is room.
Sizes ==
  /\ IsFiniteSet(queue) /\ Cardinality(queue) <= QueueCap + 1
  /\ IsFiniteSet(infly) /\ Cardinality(infly) <= Window
  /\ pc = "book" => Cardinality(infly) < Window /\ \E x \in queue : IsFirst(x, queue)

LEMMA OneMore ==
  ASSUME NEW S, IsFiniteSet(S), NEW x
  PROVE  /\ IsFiniteSet(S \cup {x}) /\ Cardinality(S) \in Nat
         /\ Cardinality(S \cup {x}) \in Nat /\ Cardinality(S \cup {x}) <= Cardinality(S) + 1
<1>1. Cardinality(S) \in Nat
  BY FS_CardinalityType
<1>2. /\ IsFiniteSet(S \cup {x})
      /\ Cardinality(S \cup {x}) = IF x \in S THEN Cardinality(S) ELSE Cardinality(S) + 1
  BY FS_AddElement
<1> QED
  BY <1>1, <1>2

LEMMA OneLess ==
  ASSUME NEW S, IsFiniteSet(S), NEW x \in S
  PROVE  /\ IsFiniteSet(S \ {x}) /\ Cardinality(S) \in Nat
         /\ Cardinality(S \ {x}) \in Nat /\ Cardinality(S \ {x}) = Cardinality(S) - 1
<1>1. Cardinality(S) \in Nat
  BY FS_CardinalityType
<1>2. /\ IsFiniteSet(S \ {x})
      /\ Cardinality(S \ {x}) = Cardinality(S) - 1
  BY FS_RemoveElement
<1>3. Cardinality(S \ {x}) \in Nat
  BY <1>2, FS_CardinalityType
<1> QED
  BY <1>1, <1>2, <1>3

-------------------------------------------------------------------------------
(* The steps.                                                              *)

LEMMA RejectionType ==
  ASSUME Typed, NEW r \in Requests
  PROVE  /\ Rejection(r) \in Response /\ Asked(Rejection(r)) = r
         /\ ~Rejection(r).allowed /\ Rejection(r).retry = (Rejection(r).attempt < LastAttempt)
<1>1. /\ r \in [id : Nat, attempt : Attempts] /\ now \in Nat
      /\ (r.attempt < LastAttempt) \in BOOLEAN
  BY RequestsAssumption, ClockAssumption DEF Typed, LoopOK, ClockOK, Attempts, LastAttempt
<1>2. r = [id |-> r.id, attempt |-> r.attempt] /\ r.id \in Nat /\ r.attempt \in Attempts
  BY <1>1
<1> QED
  BY <1>1, <1>2 DEF Rejection, Response, Asked

\* What AddRequest does to the queue: the request is read, and its prepared
\* response is put in, or another is taken out.
LEMMA AddShape ==
  ASSUME Typed, Sizes, AddRequest
  PROVE  \E r \in unread :
           /\ unread' = unread \ {r}
           /\ queue' \subseteq queue \cup {Rejection(r)}
           /\ IsFiniteSet(queue') /\ Cardinality(queue') <= QueueCap + 1
           /\ out' \subseteq out \cup queue \cup {Rejection(r)}
           /\ UNCHANGED <<clock, sent, admitted>> /\ pc = "read" /\ pc' = "update"
<1>1. PICK r \in unread :
        /\ Read(r)
        /\ Enqueue(Rejection(r)) \/ Evict(Rejection(r)) \/ TurnAway(Rejection(r))
  BY DEF AddRequest
<1> DEFINE new == Rejection(r)
<1> HIDE DEF new
<1>2. IsFiniteSet(queue) /\ Cardinality(queue) \in Nat /\ QueueCap \in Nat
  BY FS_CardinalityType, QueueAssumption DEF Sizes
<1>3. /\ queue' \subseteq queue \cup {new} /\ out' \subseteq out \cup queue \cup {new}
      /\ IsFiniteSet(queue') /\ Cardinality(queue') <= QueueCap + 1
  <2>1. CASE Enqueue(new)
    <3>1. queue' = queue \cup {new} /\ out' = out /\ Cardinality(queue) <= QueueCap
      BY <1>2, <2>1 DEF Enqueue, QueueFull
    <3>2. /\ IsFiniteSet(queue') /\ Cardinality(queue') \in Nat
          /\ Cardinality(queue') <= Cardinality(queue) + 1
      BY <1>2, <3>1, OneMore
    <3> QED
      BY <1>2, <3>1, <3>2
  <2>2. CASE Evict(new)
    <3>1. PICK last \in queue : /\ out' = out \cup {last}
                                /\ queue' = (queue \ {last}) \cup {new}
      BY <2>2 DEF Evict
    <3>2. IsFiniteSet(queue \ {last}) /\ Cardinality(queue \ {last}) = Cardinality(queue) - 1
      BY <1>2, OneLess
    <3>3. /\ IsFiniteSet(queue') /\ Cardinality(queue') \in Nat
          /\ Cardinality(queue') <= Cardinality(queue \ {last}) + 1
      BY <3>1, <3>2, OneMore
    <3> QED
      BY <1>2, <3>1, <3>2, <3>3 DEF Sizes
  <2>3. CASE TurnAway(new)
    BY <1>2, <2>3 DEF TurnAway, Sizes
  <2> QED
    BY <1>1, <2>1, <2>2, <2>3 DEF new
<1> QED
  BY <1>1, <1>3 DEF new, Read, Goto

\* A step passes time, expires an entry, stamps or books an admission, takes a
\* request, or moves no request and no time.
LEMMA Steps ==
  ASSUME [Next]_vars, ~PassTime, ~Expire, ~Stamp, ~Book, ~Add
  PROVE  /\ UNCHANGED <<clock, unread, admitted, queue, infly>>
         /\ out' \cup sent' = out \cup sent
         /\ pc' # "book" \/ UNCHANGED pc
  BY DEF Next, vars, Return, Proceed, ExpireDone, AdmitDone, FlushResponses, Flush,
         Idle, ReadNothing, Goto, answerVars

LEMMA ClockStep ==
  ASSUME Typed, [Next]_vars
  PROVE  ClockOK' /\ Behind'
<1>1. CASE PassTime
  <2>1. CASE Pass
    BY <2>1, ClockAssumption DEF Pass, Typed, LoopOK, ClockOK, Behind
  <2>2. CASE SetBack
    BY <2>2, ClockAssumption DEF SetBack, Typed, LoopOK, ClockOK, Behind
  <2> QED
    BY <1>1, <2>1, <2>2 DEF PassTime, Tick
<1>2. CASE ~PassTime
  <2>1. UNCHANGED clock
    BY <1>2 DEF Next, vars, Return, Proceed, Expire, ExpireDone, Stamp, Book, AdmitDone,
               FlushResponses, Flush, Idle, ReadNothing, Add, AddRequest, Read
  <2> QED
    BY <2>1 DEF clock, Typed, LoopOK, ClockOK, Behind
<1> QED
  BY <1>1, <1>2

LEMMA TypeInit == Init => Typed /\ Prepared /\ Sizes
<1> SUFFICES ASSUME Init PROVE Typed /\ Prepared /\ Sizes
  OBVIOUS
<1>1. IsFiniteSet({}) /\ Cardinality({}) = 0
  BY FS_EmptySet
<1> QED
  BY <1>1, ClockAssumption, QueueAssumption, WindowAssumption
     DEF Init, LoopInit, ClockInit, Typed, LoopOK, ClockOK, Behind, Prepared, Sizes

LEMMA TypeStep ==
  ASSUME Typed, Prepared, Sizes, [Next]_vars
  PROVE  Typed'
<1> USE DEF Typed, LoopOK
<1>0. ClockOK' /\ Behind'
  BY ClockStep
<1>1. CASE PassTime
  BY <1>0, <1>1 DEF PassTime, answerVars
<1>2. CASE Expire
  BY <1>0, <1>2 DEF Expire, answerVars
<1>3. CASE Stamp
  <2>1. PICK x \in queue : Give(x)
    BY <1>3 DEF Stamp
  <2>2. [x EXCEPT !.allowed = TRUE, !.retry = FALSE, !.ts = now] \in Response
    <3>1. x \in Response /\ now \in Nat
      BY ClockAssumption DEF ClockOK
    <3> QED
      BY <3>1 DEF Response
  <2>3. [of |-> Asked(x), at |-> elapsed] \in [of : Requests, at : 0..MaxTime]
    BY DEF Prepared, ClockOK
  <2> QED
    BY <1>0, <1>3, <2>1, <2>2, <2>3 DEF Stamp, Give, Goto
<1>4. CASE Book
  <2>1. PICK x \in queue : /\ infly' = infly \cup {[of |-> Asked(x), end |-> EndOfLife]}
                           /\ queue' = queue \ {x}
    BY <1>4 DEF Book
  <2>2. [of |-> Asked(x), end |-> EndOfLife] \in [of : Requests, end : 0..(Start + MaxTime + Life)]
    BY ClockAssumption, WindowAssumption DEF Prepared, ClockOK, EndOfLife
  <2> QED
    BY <1>0, <1>4, <2>1, <2>2 DEF Book, Goto, answerVars
<1>5. CASE Add
  <2>1. PICK r \in unread : /\ unread' = unread \ {r}
                            /\ queue' \subseteq queue \cup {Rejection(r)}
                            /\ out' \subseteq out \cup queue \cup {Rejection(r)}
                            /\ UNCHANGED <<sent, admitted>> /\ pc' = "update"
    BY <1>5, AddShape DEF Add
  <2>2. Rejection(r) \in Response
    BY RejectionType
  <2> QED
    BY <1>0, <1>5, <2>1, <2>2 DEF Add
<1>6. CASE ~PassTime /\ ~Expire /\ ~Stamp /\ ~Book /\ ~Add
  <2>1. UNCHANGED <<unread, admitted, queue, infly>> /\ out' \cup sent' = out \cup sent
    BY <1>6, Steps
  <2>2. pc' \in {"update", "expire", "mark", "admit", "book", "flush", "read"}
    BY <1>6 DEF Next, vars, Return, Proceed, ExpireDone, AdmitDone, FlushResponses, Flush,
               Idle, ReadNothing, Goto
  <2> QED
    BY <1>0, <2>1, <2>2
<1> QED
  BY <1>1, <1>2, <1>3, <1>4, <1>5, <1>6

LEMMA PreparedStep ==
  ASSUME Typed, Prepared, Sizes, [Next]_vars
  PROVE  Prepared'
<1>1. CASE Add
  <2>1. PICK r \in unread : /\ unread' = unread \ {r}
                            /\ queue' \subseteq queue \cup {Rejection(r)}
    BY <1>1, AddShape DEF Add
  <2>2. /\ r \in Requests /\ Asked(Rejection(r)) = r
        /\ ~Rejection(r).allowed /\ Rejection(r).retry = (Rejection(r).attempt < LastAttempt)
    BY RejectionType DEF Typed, LoopOK
  <2> DEFINE new == Rejection(r)
  <2> HIDE DEF new
  <2> QED
    BY <2>1, <2>2 DEF Prepared, new
<1>2. CASE ~Add
  <2>1. queue' \subseteq queue /\ UNCHANGED unread
    BY <1>2, Steps DEF PassTime, Expire, Stamp, Book, answerVars
  <2> QED
    BY <2>1 DEF Prepared
<1> QED
  BY <1>1, <1>2

LEMMA SizesStep ==
  ASSUME Typed, Prepared, Sizes, [Next]_vars
  PROVE  Sizes'
<1>0. Cardinality(infly) \in Nat /\ Cardinality(queue) \in Nat /\ Window \in Nat /\ QueueCap \in Nat
  BY FS_CardinalityType, WindowAssumption, QueueAssumption DEF Sizes
<1>1. CASE PassTime
  BY <1>1 DEF PassTime, answerVars, Sizes
<1>2. CASE Expire
  <2>1. PICK e \in infly : infly' = infly \ {e}
    BY <1>2 DEF Expire, Expired
  <2>2. IsFiniteSet(infly') /\ Cardinality(infly') = Cardinality(infly) - 1
    BY <2>1, FS_RemoveElement DEF Sizes
  <2> QED
    BY <1>0, <1>2, <2>2 DEF Expire, Sizes
<1>3. CASE Stamp
  <2>1. Cardinality(infly) < Window
    BY <1>0, <1>3 DEF Stamp, Full, Sizes
  <2> QED
    BY <1>3, <2>1 DEF Stamp, Sizes, Goto
<1>4. CASE Book
  <2>1. PICK x \in queue : /\ infly' = infly \cup {[of |-> Asked(x), end |-> EndOfLife]}
                           /\ queue' = queue \ {x}
    BY <1>4 DEF Book
  <2>2. IsFiniteSet(queue') /\ Cardinality(queue') <= Cardinality(queue)
    BY <1>0, <2>1, OneLess DEF Sizes
  <2>3. IsFiniteSet(infly') /\ Cardinality(infly') <= Cardinality(infly) + 1
    BY <2>1, OneMore DEF Sizes
  <2>4. Cardinality(infly) < Window /\ pc' = "admit"
    BY <1>4 DEF Book, Goto, Sizes
  <2>5. Cardinality(infly') \in Nat /\ Cardinality(queue') \in Nat
    BY <2>2, <2>3, FS_CardinalityType
  <2> QED
    BY <1>0, <2>2, <2>3, <2>4, <2>5 DEF Sizes
<1>5. CASE Add
  BY <1>5, AddShape DEF Add, Sizes
<1>6. CASE ~PassTime /\ ~Expire /\ ~Stamp /\ ~Book /\ ~Add
  BY <1>6, Steps DEF Sizes
<1> QED
  BY <1>1, <1>2, <1>3, <1>4, <1>5, <1>6

-------------------------------------------------------------------------------
(* The rate.  An admission whose life is not over has its entry in infly,  *)
(* or is about to get it, and no entry expires before the life is over.    *)

BeingBooked(r) == pc = "book" /\ \E x \in queue : IsFirst(x, queue) /\ Asked(x) = r
Gone(r) == r \notin unread /\ \A q \in queue : Asked(q) # r

\* A request is admitted at most once, and leaves the queue for it.
AdmittedOnce ==
  /\ IsFiniteSet(admitted)
  /\ \A g \in admitted : g.at <= elapsed /\ (Gone(g.of) \/ BeingBooked(g.of))
  /\ \A e \in infly : Gone(e.of)
  /\ \A g, h \in admitted : g.of = h.of => g = h

Alive == {g \in admitted : g.at + Life > elapsed}

InFlight ==
  /\ \A g \in Alive : BeingBooked(g.of) \/ \E e \in infly : e.of = g.of
  /\ \A e \in infly, g \in admitted :
       e.of = g.of => g.at + Life - elapsed <= e.end - now

LEMMA OneFirst ==
  ASSUME Typed, NEW x, NEW y, IsFirst(x, queue), IsFirst(y, queue)
  PROVE  x = y
<1>1. \A q \in queue : q.attempt \in Int /\ q.ts \in Int /\ q.id \in Int
  BY DEF Typed, Response, Attempts
<1> QED
  BY <1>1 DEF IsFirst, Before

LEMMA Numbers ==
  ASSUME Typed
  PROVE  /\ now \in Int /\ elapsed \in Int /\ Life \in Int
         /\ \A g \in admitted : g.at \in Int
         /\ \A e \in infly : e.end \in Int
  BY ClockAssumption, WindowAssumption DEF Typed, LoopOK, ClockOK

LEMMA OnceStep ==
  ASSUME Typed, Prepared, Sizes, AdmittedOnce, [Next]_vars
  PROVE  AdmittedOnce'
<1> USE DEF AdmittedOnce
<1>1. CASE PassTime
  <2>1. elapsed <= elapsed'
    BY <1>1, Numbers DEF PassTime, Tick, Pass, SetBack
  <2>2. elapsed' \in Int
    BY <1>1, Numbers DEF PassTime, Tick, Pass, SetBack
  <2>3. \A g \in admitted : g.at <= elapsed'
    BY <2>1, <2>2, Numbers
  <2> QED
    BY <1>1, <2>3 DEF PassTime, answerVars, Gone, BeingBooked
<1>2. CASE Expire
  BY <1>2 DEF Expire, Expired, clock, answerVars, Gone, BeingBooked
<1>3. CASE Stamp
  <2>1. PICK x \in queue : /\ IsFirst(x, queue)
                           /\ admitted' = admitted \cup {[of |-> Asked(x), at |-> elapsed]}
    BY <1>3 DEF Stamp, Give
  <2>2. \A g \in admitted : Gone(g.of) /\ Gone(g.of)'
    BY <1>3 DEF Stamp, Goto, BeingBooked, Gone
  <2>3. BeingBooked(Asked(x))'
    BY <1>3, <2>1 DEF Stamp, Goto, BeingBooked
  <2>4. IsFiniteSet(admitted')
    BY <2>1, OneMore
  <2>7. elapsed' = elapsed /\ elapsed <= elapsed
    BY <1>3, Numbers DEF Stamp, clock
  <2>5. \A g \in admitted : g.of # Asked(x)
    BY <2>2 DEF Gone
  <2>6. \A e \in infly' : Gone(e.of)'
    BY <1>3 DEF Stamp, Gone
  <2> QED
    BY <2>1, <2>2, <2>3, <2>4, <2>5, <2>6, <2>7
<1>4. CASE Book
  <2>1. PICK x \in queue : /\ IsFirst(x, queue) /\ queue' = queue \ {x}
                           /\ infly' = infly \cup {[of |-> Asked(x), end |-> EndOfLife]}
    BY <1>4 DEF Book
  <2>2. UNCHANGED <<elapsed, unread, admitted>>
    BY <1>4 DEF Book, clock, answerVars
  <2>3. Gone(Asked(x))'
    BY <2>1, <2>2 DEF Gone, Prepared
  <2>4. \A r : Gone(r) => Gone(r)'
    BY <2>1, <2>2 DEF Gone
  <2>5. \A r : BeingBooked(r) => r = Asked(x)
    BY <2>1, OneFirst DEF BeingBooked
  <2> QED
    BY <2>1, <2>2, <2>3, <2>4, <2>5
<1>5. CASE Add
  <2>1. PICK r \in unread : /\ unread' = unread \ {r}
                            /\ queue' \subseteq queue \cup {Rejection(r)}
                            /\ UNCHANGED <<clock, admitted>> /\ pc = "read"
    BY <1>5, AddShape DEF Add
  <2>2. Asked(Rejection(r)) = r
    BY RejectionType DEF Typed, LoopOK
  <2>3. \A s : Gone(s) => Gone(s)'
    BY <2>1, <2>2 DEF Gone
  <2>4. \A s : ~BeingBooked(s)
    BY <2>1 DEF BeingBooked
  <2> QED
    BY <1>5, <2>1, <2>3, <2>4 DEF Add, clock
<1>6. CASE ~PassTime /\ ~Expire /\ ~Stamp /\ ~Book /\ ~Add
  <2>1. UNCHANGED <<clock, unread, admitted, queue, infly>> /\ (pc' # "book" \/ UNCHANGED pc)
    BY <1>6, Steps
  <2>2. pc = "book" => pc' = "book"
    BY <1>6 DEF Next, vars, Return, Proceed, ExpireDone, AdmitDone, FlushResponses, Flush,
               Idle, ReadNothing, Goto
  <2> QED
    BY <2>1, <2>2 DEF clock, Gone, BeingBooked
<1> QED
  BY <1>1, <1>2, <1>3, <1>4, <1>5, <1>6

LEMMA InFlightStep ==
  ASSUME Typed, Prepared, Sizes, AdmittedOnce, InFlight, [Next]_vars
  PROVE  InFlight'
<1> USE DEF InFlight, Alive
<1>1. CASE PassTime
  <2>1. UNCHANGED <<pc, queue, infly, admitted>>
    BY <1>1 DEF PassTime, answerVars
  <2>2. \A r : BeingBooked(r)' <=> BeingBooked(r)
    BY <2>1 DEF BeingBooked
  <2>3. elapsed' \in Int /\ now' \in Int /\ elapsed <= elapsed' /\ now' - elapsed' <= now - elapsed
    BY <1>1, Numbers DEF PassTime, Tick, Pass, SetBack
  <2>4. \A g \in admitted : g.at + Life > elapsed' => g.at + Life > elapsed
    BY <2>3, Numbers
  <2>5. \A e \in infly, g \in admitted : e.of = g.of => g.at + Life - elapsed' <= e.end - now'
    BY <2>3, Numbers
  <2> QED
    BY <2>1, <2>2, <2>4, <2>5
<1>2. CASE Expire
  <2>1. PICK x \in infly : now >= x.end /\ infly' = infly \ {x}
    BY <1>2 DEF Expire, Expired
  <2>2. \A g \in Alive : x.of # g.of
    BY <2>1, Numbers
  <2>3. UNCHANGED <<pc, queue, admitted, elapsed, now>>
    BY <1>2 DEF Expire, clock, answerVars
  <2> QED
    BY <2>1, <2>2, <2>3 DEF BeingBooked
<1>3. CASE Stamp
  <2>1. PICK x \in queue : /\ IsFirst(x, queue)
                           /\ admitted' = admitted \cup {[of |-> Asked(x), at |-> elapsed]}
    BY <1>3 DEF Stamp, Give
  <2>2. BeingBooked(Asked(x))' /\ \A r : ~BeingBooked(r)
    BY <1>3, <2>1 DEF Stamp, Goto, BeingBooked
  <2>3. UNCHANGED <<elapsed, now, infly>>
    BY <1>3 DEF Stamp, clock
  <2>4. \A e \in infly : e.of # Asked(x)
    BY DEF AdmittedOnce, Gone
  <2> QED
    BY <2>1, <2>2, <2>3, <2>4
<1>4. CASE Book
  <2>1. PICK x \in queue : /\ IsFirst(x, queue)
                           /\ infly' = infly \cup {[of |-> Asked(x), end |-> EndOfLife]}
    BY <1>4 DEF Book
  <2>2. UNCHANGED <<elapsed, now, admitted>>
    BY <1>4 DEF Book, clock, answerVars
  <2>3. \A r : BeingBooked(r) => r = Asked(x)
    BY <2>1, OneFirst DEF BeingBooked
  <2>4. \A g \in admitted : g.at + Life - elapsed <= EndOfLife - now
    BY Numbers DEF EndOfLife, AdmittedOnce
  <2> DEFINE new == [of |-> Asked(x), end |-> EndOfLife]
  <2>5. new.of = Asked(x) /\ new.end = EndOfLife /\ infly' = infly \cup {new}
    BY <2>1
  <2> HIDE DEF new
  <2>6. \A g \in Alive : \E e \in infly' : e.of = g.of
    BY <2>3, <2>5
  <2>7. \A e \in infly', g \in admitted : e.of = g.of => g.at + Life - elapsed <= e.end - now
    BY <2>4, <2>5
  <2> QED
    BY <2>2, <2>6, <2>7
<1>5. CASE Add
  <2>1. UNCHANGED <<clock, admitted>> /\ pc = "read"
    BY <1>5, AddShape DEF Add
  <2>2. \A r : ~BeingBooked(r)
    BY <2>1 DEF BeingBooked
  <2> QED
    BY <1>5, <2>1, <2>2 DEF Add, clock
<1>6. CASE ~PassTime /\ ~Expire /\ ~Stamp /\ ~Book /\ ~Add
  <2>1. UNCHANGED <<clock, unread, admitted, queue, infly>>
    BY <1>6, Steps
  <2>2. pc = "book" <=> pc' = "book"
    BY <1>6 DEF Next, vars, Return, Proceed, ExpireDone, AdmitDone, FlushResponses, Flush,
               Idle, ReadNothing, Goto
  <2> QED
    BY <2>1, <2>2 DEF clock, BeingBooked
<1> QED
  BY <1>1, <1>2, <1>3, <1>4, <1>5, <1>6

\* Where nothing is being booked, each admission that is alive has an entry of
\* its own.
LEMMA AliveFit ==
  ASSUME Sizes, AdmittedOnce, InFlight, pc # "book"
  PROVE  IsFiniteSet(Alive) /\ Cardinality(Alive) <= Cardinality(infly)
<1> DEFINE entry == [g \in Alive |-> CHOOSE e \in infly : e.of = g.of]
<1>1. \A g \in Alive : entry[g] \in infly /\ entry[g].of = g.of
  BY DEF InFlight, BeingBooked
<1>2. \A g, h \in Alive : g.of = h.of => g = h
  BY DEF Alive, AdmittedOnce
<1>3. entry \in Injection(Alive, infly)
  <2>1. entry \in [Alive -> infly]
    BY <1>1
  <2>2. \A g, h \in Alive : entry[g] = entry[h] => g = h
    <3> HIDE DEF entry
    <3> QED
      BY <1>1, <1>2
  <2> HIDE DEF entry
  <2> QED
    BY <2>1, <2>2 DEF Injection, IsInjective
<1> QED
  BY <1>3, FS_Injection DEF Sizes

LEMMA RateStep ==
  ASSUME Typed, Sizes, AdmittedOnce, AdmittedOnce', InFlight, RateHeld, [Next]_vars
  PROVE  RateHeld'
<1>1. CASE PassTime
  <2>1. admitted' = admitted /\ elapsed' \in Int /\ elapsed' <= elapsed + 1
    BY <1>1, Numbers DEF PassTime, Tick, Pass, SetBack, answerVars
  <2>2. ASSUME NEW t \in 0..elapsed' PROVE Cardinality(GivenIn(t, Life)') <= Window
    <3>1. CASE t \in 0..elapsed
      BY <2>1, <3>1 DEF RateHeld, GivenIn
    <3>2. CASE t \notin 0..elapsed
      <4>1. \A g \in admitted : ~(t <= g.at)
        BY <2>1, <3>2, Numbers DEF AdmittedOnce
      <4>2. GivenIn(t, Life)' = {}
        BY <2>1, <4>1 DEF GivenIn
      <4> QED
        BY <4>2, FS_EmptySet, WindowAssumption
    <3> QED
      BY <3>1, <3>2
  <2> QED
    BY <2>2 DEF RateHeld
<1>2. CASE Stamp
  <2>1. PICK new : admitted' = admitted \cup {new}
    BY <1>2 DEF Stamp, Give
  <2>2. elapsed' = elapsed /\ pc # "book"
    BY <1>2 DEF Stamp, clock, Goto
  <2>3. IsFiniteSet(Alive) /\ Cardinality(Alive) + 1 <= Window
    <3>1. IsFiniteSet(Alive) /\ Cardinality(Alive) <= Cardinality(infly)
      BY <2>2, AliveFit
    <3>2. Cardinality(Alive) \in Nat /\ Cardinality(infly) \in Nat
      BY <3>1, FS_CardinalityType DEF Sizes
    <3>3. Cardinality(infly) # Window
      BY <1>2 DEF Stamp, Full
    <3> QED
      BY <3>1, <3>2, <3>3, WindowAssumption DEF Sizes
  <2>4. ASSUME NEW t \in 0..elapsed PROVE Cardinality(GivenIn(t, Life)') <= Window
    <3>1. CASE t + Life > elapsed
      <4>1. GivenIn(t, Life)' \subseteq Alive \cup {new}
        BY <2>1, <3>1, Numbers DEF GivenIn, Alive
      <4>2. /\ IsFiniteSet(Alive \cup {new}) /\ Cardinality(Alive \cup {new}) \in Nat
            /\ Cardinality(Alive) \in Nat
            /\ Cardinality(Alive \cup {new}) <= Cardinality(Alive) + 1
        BY <2>3, OneMore
      <4>3. /\ Cardinality(GivenIn(t, Life)') <= Cardinality(Alive \cup {new})
            /\ Cardinality(GivenIn(t, Life)') \in Nat
        BY <4>1, <4>2, FS_Subset, FS_CardinalityType
      <4> QED
        BY <2>3, <4>2, <4>3, WindowAssumption
    <3>2. CASE ~(t + Life > elapsed)
      <4>1. PICK x : new = [of |-> Asked(x), at |-> elapsed] \/ new \in admitted
        BY <1>2, <2>1 DEF Stamp, Give
      <4>2. GivenIn(t, Life)' = GivenIn(t, Life)
        BY <2>1, <3>2, <4>1, Numbers DEF GivenIn
      <4> QED
        BY <4>2 DEF RateHeld
    <3> QED
      BY <3>1, <3>2
  <2> QED
    BY <2>2, <2>4 DEF RateHeld
<1>3. CASE ~PassTime /\ ~Stamp
  <2>1. UNCHANGED <<admitted, elapsed>>
    <3>1. CASE Add
      BY <3>1, AddShape DEF Add, clock
    <3> QED
      BY <1>3, <3>1 DEF Next, vars, Return, Proceed, Expire, ExpireDone, Book, AdmitDone,
               FlushResponses, Flush, Idle, ReadNothing, clock, answerVars
  <2> QED
    BY <2>1 DEF RateHeld, GivenIn
<1> QED
  BY <1>1, <1>2, <1>3

LEMMA RateInit == Init => AdmittedOnce /\ InFlight /\ RateHeld
<1> SUFFICES ASSUME Init PROVE AdmittedOnce /\ InFlight /\ RateHeld
  OBVIOUS
<1>1. admitted = {} /\ infly = {}
  BY DEF Init, LoopInit
<1>2. IsFiniteSet({}) /\ Cardinality({}) = 0
  BY FS_EmptySet
<1>3. \A t \in 0..elapsed : GivenIn(t, Life) = {}
  BY <1>1 DEF GivenIn
<1> QED
  BY <1>1, <1>2, <1>3, WindowAssumption DEF AdmittedOnce, InFlight, Alive, RateHeld

-------------------------------------------------------------------------------
(* The promise of a limiter.                                               *)

Answers == out \cup sent

\* The instance counts with the same Cardinality.
LEMMA SameCardinality == ASSUME NEW S PROVE Promise!Cardinality(S) = Cardinality(S)
  BY DEF Promise!Cardinality, Cardinality

\* Dropping one response from the queue drops the request it is for from the
\* requests that wait.
LEMMA WaitingLess ==
  ASSUME Prepared, NEW x \in queue
  PROVE  {Asked(q) : q \in queue \ {x}} = {Asked(q) : q \in queue} \ {Asked(x)}
  BY DEF Prepared

LEMMA StampAdmits ==
  ASSUME Typed, Prepared, Stamp
  PROVE  Promise!Admit(0)
<1>1. PICK x \in queue : IsFirst(x, queue) /\ Give(x)
  BY DEF Stamp
<1> DEFINE a == [x EXCEPT !.allowed = TRUE, !.retry = FALSE, !.ts = now]
           W == [n \in {0} |-> {Asked(q) : q \in Waiting}]
           A == [n \in {0} |-> Answers]
<1>2. a.allowed /\ ~a.retry /\ a.id = Asked(x).id /\ a.attempt = Asked(x).attempt
  <2>1. x \in Response
    BY DEF Typed
  <2> QED
    BY <2>1 DEF Response, Asked
<1>3. W[0] = {Asked(q) : q \in queue}
  BY DEF Stamp, Goto, Waiting
<1>4. Waiting' = queue \ {x}
  <2>1. Waiting' = {q \in queue : ~IsFirst(q, queue)}
    BY DEF Stamp, Goto, Waiting, IsFirst
  <2>2. \A q \in queue : IsFirst(q, queue) => q = x
    BY <1>1, OneFirst
  <2> QED
    BY <1>1, <2>1, <2>2
<1>5. W' = [W EXCEPT ![0] = @ \ {Asked(x)}]
  <2>1. {Asked(q) : q \in Waiting}' = {Asked(q) : q \in queue} \ {Asked(x)}
    BY <1>4, WaitingLess
  <2> QED
    BY <1>3, <2>1
<1>6. A' = [A EXCEPT ![0] = @ \cup {a}] /\ a \in A'[0]
  BY <1>1 DEF Give, Stamp, Answers
<1>7. Cardinality(Promise!InFlight(A[0], a.ts)) < 1
  <2>1. \A b \in A[0] : b.ts \in Nat
    BY DEF Typed, LoopOK, Answers, Response
  <2>2. a.ts \in Nat
    BY ClockAssumption DEF Typed, LoopOK, ClockOK, Response
  <2> HIDE DEF a, A
  <2>3. Promise!InFlight(A[0], a.ts) = {}
    BY <2>1, <2>2 DEF Promise!InFlight
  <2> QED
    BY <2>3, FS_EmptySet
<1>8. Asked(x) \in W[0] /\ unread' = unread
  BY <1>3 DEF Stamp
<1>9. \E b \in A'[0] : /\ Promise!Admits(b, Asked(x))
                       /\ Cardinality(Promise!InFlight(A[0], b.ts)) < 1
                       /\ A' = [A EXCEPT ![0] = @ \cup {b}]
  <2> HIDE DEF a, A
  <2> QED
    BY <1>2, <1>6, <1>7 DEF Promise!Admits
<1>10. \E r \in W[0] :
         /\ W' = [W EXCEPT ![0] = @ \ {r}]
         /\ \E b \in A'[0] : /\ Promise!Admits(b, r)
                             /\ Cardinality(Promise!InFlight(A[0], b.ts)) < 1
                             /\ A' = [A EXCEPT ![0] = @ \cup {b}]
  <2> HIDE DEF A, W
  <2> QED
    BY <1>5, <1>8, <1>9
<1> QED
  BY <1>8, <1>10, SameCardinality DEF Promise!Admit, Answers

LEMMA AddTakes ==
  ASSUME Typed, Prepared, Add
  PROVE  \E r \in unread : Promise!Take(0, r) \/ Promise!TakeAndReject(0, r)
<1>1. PICK r \in unread :
        /\ unread' = unread \ {r} /\ sent' = sent
        /\ Enqueue(Rejection(r)) \/ Evict(Rejection(r)) \/ TurnAway(Rejection(r))
        /\ pc = "read" /\ pc' = "update"
  BY DEF Add, AddRequest, Read, Goto
<1> DEFINE new == Rejection(r)
           W == [n \in {0} |-> {Asked(q) : q \in Waiting}]
           A == [n \in {0} |-> Answers]
<1>2. Asked(new) = r /\ ~new.allowed /\ new.retry = (new.attempt < LastAttempt)
  BY RejectionType DEF Typed, LoopOK
<1> HIDE DEF new
<1>3. W = [n \in {0} |-> {Asked(q) : q \in queue}] /\ W' = [n \in {0} |-> {Asked(q) : q \in queue'}]
  BY <1>1 DEF Waiting
<1>4. r \notin W[0]
  BY <1>3 DEF Prepared
<1>5. ASSUME Enqueue(new) PROVE Promise!Take(0, r)
  <2>1. queue' = queue \cup {new} /\ out' = out
    BY <1>5 DEF Enqueue
  <2>2. W' = [W EXCEPT ![0] = @ \cup {r}]
    BY <1>2, <1>3, <2>1
  <2> QED
    BY <1>1, <2>1, <2>2 DEF Promise!Take, Answers
<1>6. ASSUME NEW b, out' = out \cup {b},
             ~b.allowed, b.retry = (b.attempt < LastAttempt),
             Asked(b) \in W[0] \cup {r},
             {Asked(q) : q \in queue'} = ({Asked(q) : q \in queue} \cup {r}) \ {Asked(b)}
      PROVE  Promise!TakeAndReject(0, r)
  <2>1. A' = [A EXCEPT ![0] = @ \cup {b}] /\ b \in A'[0]
    BY <1>1, <1>6 DEF Answers
  <2>2. W' = [W EXCEPT ![0] = (@ \cup {r}) \ {Asked(b)}]
    BY <1>3, <1>6
  <2>3. /\ b.id = Asked(b).id /\ b.attempt = Asked(b).attempt
        /\ ~b.allowed /\ b.retry = (Asked(b).attempt < LastAttempt)
    BY <1>6 DEF Asked
  <2>4. Promise!Rejects(b, Asked(b))
    BY <2>3 DEF Promise!Rejects, Promise!LastAttempt, LastAttempt
  <2> QED
    BY <1>1, <1>6, <2>1, <2>2, <2>4 DEF Promise!TakeAndReject, Answers
<1>7. ASSUME Evict(new) PROVE Promise!TakeAndReject(0, r)
  <2>1. PICK last \in queue :
          out' = out \cup {last} /\ queue' = (queue \ {last}) \cup {new}
    BY <1>7 DEF Evict
  <2>2. ~last.allowed /\ last.retry = (last.attempt < LastAttempt) /\ Asked(last) # r
    BY <1>1 DEF Prepared
  <2>3. {Asked(q) : q \in queue \ {last}} = {Asked(q) : q \in queue} \ {Asked(last)}
    BY WaitingLess
  <2>4. {Asked(q) : q \in queue'} = ({Asked(q) : q \in queue} \cup {r}) \ {Asked(last)}
    BY <1>2, <2>1, <2>2, <2>3
  <2> QED
    BY <1>3, <1>6, <2>1, <2>2, <2>4
<1>8. ASSUME TurnAway(new) PROVE Promise!TakeAndReject(0, r)
  <2>1. out' = out \cup {new} /\ queue' = queue
    BY <1>8 DEF TurnAway
  <2>2. {Asked(q) : q \in queue'} = ({Asked(q) : q \in queue} \cup {r}) \ {Asked(new)}
    BY <1>2, <1>3, <1>4, <2>1
  <2> QED
    BY <1>2, <1>6, <2>1, <2>2
<1> QED
  BY <1>1, <1>5, <1>7, <1>8 DEF new

\* Every step of the limiter is a step of the abstract one or leaves it alone;
\* what is booked was already answered.
LEMMA LimiterStep ==
  ASSUME Typed, Prepared, Sizes, [Next]_vars
  PROVE  [Promise!Next]_(Promise!vars)
<1>1. CASE Stamp
  BY <1>1, StampAdmits DEF Promise!Next
<1>2. CASE Add
  BY <1>2, AddTakes DEF Promise!Next
<1>3. CASE ~Stamp /\ ~Add
  <2>1. UNCHANGED <<unread, Waiting, Answers>>
    <3>1. CASE Book
      <4>1. PICK x \in queue : IsFirst(x, queue) /\ queue' = queue \ {x}
        BY <3>1 DEF Book
      <4>2. \A q \in queue : IsFirst(q, queue) => q = x
        BY <4>1, OneFirst
      <4>3. Waiting = queue \ {x} /\ Waiting' = queue \ {x}
        BY <3>1, <4>1, <4>2 DEF Waiting, Book, Goto
      <4> QED
        BY <3>1, <4>3 DEF Book, answerVars, Answers
    <3>2. CASE ~Book
      BY <1>3, <3>2 DEF Next, vars, PassTime, Return, Proceed, Expire, ExpireDone, AdmitDone,
           FlushResponses, Flush, Idle, ReadNothing, Goto, answerVars, Waiting, Answers
    <3> QED
      BY <3>1, <3>2
  <2> QED
    BY <2>1 DEF Promise!vars, Answers
<1> QED
  BY <1>1, <1>2, <1>3

LEMMA RetryOrderStep ==
  ASSUME Typed, Prepared, Sizes, [Next]_vars, ~UNCHANGED vars
  PROVE  KeepsRetryOrder
<1>1. \A q \in queue : q.attempt \in Int
  BY DEF Typed, Response, Attempts
<1>2. CASE Stamp
  <2>1. PICK x \in queue : IsFirst(x, queue) /\ Give(x)
    BY <1>2 DEF Stamp
  <2> DEFINE a == [x EXCEPT !.allowed = TRUE, !.retry = FALSE, !.ts = now]
  <2>2. a.allowed = TRUE /\ a.attempt = x.attempt /\ out' = out \cup {a}
    BY <2>1 DEF Give, Typed, Response
  <2> HIDE DEF a
  <2>3. \A q \in queue : x.attempt >= q.attempt
    BY <1>1, <2>1 DEF IsFirst, Before
  <2> QED
    BY <1>2, <2>2, <2>3 DEF KeepsRetryOrder, Stamp
<1>3. CASE Add
  <2>1. PICK r \in unread :
          /\ sent' = sent
          /\ Enqueue(Rejection(r)) \/ Evict(Rejection(r)) \/ TurnAway(Rejection(r))
    BY <1>3 DEF Add, AddRequest, Read
  <2> DEFINE new == Rejection(r)
  <2>2. new.attempt \in Int /\ ~new.allowed
    BY RejectionType DEF Typed, LoopOK, Response, Attempts
  <2> HIDE DEF new
  <2>3. CASE Enqueue(new)
    BY <2>1, <2>3 DEF Enqueue, KeepsRetryOrder
  <2>4. CASE Evict(new)
    <3>1. PICK last \in queue :
            /\ IsLast(last, queue) /\ Before(new, last)
            /\ out' = out \cup {last} /\ queue' = (queue \ {last}) \cup {new}
      BY <2>4 DEF Evict
    <3>2. \A q \in queue' : last.attempt <= q.attempt
      BY <1>1, <2>2, <3>1 DEF IsLast, Before
    <3>3. ~last.allowed
      BY DEF Prepared
    <3> QED
      BY <2>1, <3>1, <3>2, <3>3 DEF KeepsRetryOrder
  <2>5. CASE TurnAway(new)
    <3>1. PICK last \in queue : IsLast(last, queue) /\ ~Before(new, last)
      BY <2>5 DEF TurnAway
    <3>2. out' = out \cup {new} /\ queue' = queue
      BY <2>5 DEF TurnAway
    <3>3. \A q \in queue : new.attempt <= q.attempt
      BY <1>1, <2>2, <3>1 DEF IsLast, Before
    <3> QED
      BY <2>1, <2>2, <3>2, <3>3 DEF KeepsRetryOrder
  <2> QED
    BY <2>1, <2>3, <2>4, <2>5 DEF new
<1>4. CASE ~Stamp /\ ~Add
  <2>1. (out \cup sent)' = out \cup sent
    BY <1>4 DEF Next, vars, PassTime, Return, Proceed, Expire, ExpireDone, Book, AdmitDone,
         FlushResponses, Flush, Idle, ReadNothing, answerVars
  <2> QED
    BY <2>1 DEF KeepsRetryOrder
<1> QED
  BY <1>2, <1>3, <1>4

-------------------------------------------------------------------------------
(* The theorems.                                                           *)

IInv == Typed /\ Prepared /\ Sizes /\ AdmittedOnce /\ InFlight /\ RateHeld

LEMMA Invariance == Spec => []IInv
<1>1. Init => IInv
  BY TypeInit, RateInit DEF IInv
<1>2. IInv /\ [Next]_vars => IInv'
  BY TypeStep, PreparedStep, SizesStep, OnceStep, InFlightStep, RateStep DEF IInv
<1> QED
  BY <1>1, <1>2, PTL DEF Spec

\* Every variable keeps its type; no more than the window is in flight, and the
\* queue never holds more than one response above its cap.
THEOREM TypeCorrect == Spec => []TypeOK
<1>1. IInv => TypeOK
  BY DEF IInv, Typed, Sizes, TypeOK, QueueOK
<1> QED
  BY <1>1, Invariance, PTL

\* No Life milliseconds of real time hold more than Window admissions, however
\* often the clock is set back.
THEOREM RateCorrect == Spec => []RateHeld
<1>1. IInv => RateHeld
  BY DEF IInv
<1> QED
  BY <1>1, Invariance, PTL

\* Every request that is read is answered exactly once, with the right flags:
\* the limiter refines the abstract one.
THEOREM LimiterCorrect == Spec => ImplementsLimiter
<1>1. Init => Promise!Init
  BY DEF Init, LoopInit, Promise!Init, Waiting
<1>2. IInv /\ [Next]_vars => [Promise!Next]_(Promise!vars)
  BY LimiterStep DEF IInv
<1> QED
  BY <1>1, <1>2, Invariance, PTL DEF Spec, ImplementsLimiter, Promise!Spec

\* No admission overtakes a later attempt, and no rejection spares an earlier
\* one.
THEOREM RetriesFirstCorrect == Spec => RetriesFirst
<1>1. IInv /\ [Next]_vars => [KeepsRetryOrder]_vars
  BY RetryOrderStep DEF IInv
<1> QED
  BY <1>1, Invariance, PTL DEF Spec, RetriesFirst

===============================================================================
