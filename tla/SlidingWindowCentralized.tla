----------------------- MODULE SlidingWindowCentralized -----------------------
(***************************************************************************)
(* One limiter for the whole server: a request is admitted while fewer     *)
(* than Window admissions are in flight, and each is in flight for Life    *)
(* milliseconds.  The stamp of an admission, the end of its life and the   *)
(* two tests of expiry are separate reads of a clock that may be set back. *)
(***************************************************************************)
EXTENDS PriorityLimiter

CONSTANTS
  Window,  \* infly_window_size_ (100 in main.cpp's comment)
  Life     \* how long an admitted request stays in flight, ms (100)

\* A window of nothing would read *begin() of an empty set at line 38.
ASSUME WindowAssumption == Window \in Nat \ {0} /\ Life \in Nat \ {0}

VARIABLE infly   \* infly_end_timestamps_: each end with the request it is for

vars == <<clock, pc, out, sent, unread, admitted, queue, infly>>

Init == LoopInit /\ queue = {} /\ infly = {}

\* Slip: one entry more.
FullLate == Cardinality(infly) = Window + 1

Full == Cardinality(infly) = Window
Expired == {e \in infly : now >= e.end}

Return ==
  /\ Goto("update", "flush")
  /\ Full /\ Expired = {}
  /\ UNCHANGED <<clock, answerVars, unread, queue, infly>>

Proceed ==
  /\ Goto("update", "expire")
  /\ ~Full \/ Expired # {}
  /\ UNCHANGED <<clock, answerVars, unread, queue, infly>>

Expire ==
  /\ pc = "expire"
  /\ \E e \in Expired :
       /\ \A f \in infly : e.end <= f.end
       /\ infly' = infly \ {e}
  /\ UNCHANGED <<clock, pc, answerVars, unread, queue>>

ExpireDone ==
  /\ Goto("expire", "admit")
  /\ Expired = {}
  /\ UNCHANGED <<clock, answerVars, unread, queue, infly>>

Stamp ==
  /\ Goto("admit", "book")
  /\ ~Full
  /\ \E x \in queue : IsFirst(x, queue) /\ Give(x)
  /\ UNCHANGED <<clock, sent, unread, queue, infly>>

\* Slip: a life one millisecond short.
EndOfLifeEarly == now + Life - 1

EndOfLife == now + Life

Book ==
  /\ Goto("book", "admit")
  /\ \E x \in queue :
       /\ IsFirst(x, queue)
       /\ infly' = infly \cup {[of |-> Asked(x), end |-> EndOfLife]}
       /\ queue' = queue \ {x}
  /\ UNCHANGED <<clock, answerVars, unread>>

AdmitDone ==
  /\ Goto("admit", "flush")
  /\ queue = {} \/ Full
  /\ UNCHANGED <<clock, answerVars, unread, queue, infly>>

FlushResponses == Flush /\ UNCHANGED <<queue, infly>>
Idle == ReadNothing /\ UNCHANGED <<queue, infly>>
Add == AddRequest /\ UNCHANGED infly
PassTime == Tick /\ UNCHANGED <<pc, answerVars, unread, queue, infly>>

Next ==
  \/ PassTime
  \/ Return \/ Proceed \/ Expire \/ ExpireDone
  \/ Stamp \/ Book \/ AdmitDone
  \/ FlushResponses \/ Idle \/ Add

Spec == Init /\ [][Next]_vars

-------------------------------------------------------------------------------
\* Type invariant.  The tests of the code ask for equality with the window,
\* which is safe only while no set outgrows it.
TypeOK ==
  /\ LoopOK /\ QueueOK
  /\ infly \subseteq [of : Requests, end : 0..(Start + MaxTime + Life)]
  /\ Cardinality(infly) <= Window

\* In any Life milliseconds that really pass at most Window requests are
\* admitted, however often the clock is set back in between: that only makes
\* entries live longer.
RateHeld == \A t \in 0..elapsed : Cardinality(GivenIn(t, Life)) <= Window

\* The response between lines 53 and 55 is answered and still in the queue; it
\* leaves before anything else can happen to it.
Waiting == IF pc = "book" THEN {q \in queue : ~IsFirst(q, queue)} ELSE queue

Promise == INSTANCE Limiter WITH
  Nodes <- {0}, Window <- 1, Life <- 0,
  waiting <- [n \in {0} |-> {Asked(q) : q \in Waiting}],
  answers <- [n \in {0} |-> out \cup sent]

\* Every request taken is answered exactly once, with the right flags.
ImplementsLimiter == Promise!Spec

\* No admission overtakes a later attempt, and no rejection spares an earlier
\* one: evicted or turned away, it was the last in line.
RetriesFirst == [][KeepsRetryOrder]_vars

===============================================================================
