------------------------ MODULE LeakyBucketCentralized ------------------------
(***************************************************************************)
(* A queue from which at most RequestsToProcess requests leave at a time,  *)
(* and not again until TimeDelta milliseconds later.  The test whether a   *)
(* batch is due, the time it is booked under and the stamp of each         *)
(* admission are separate reads of a clock that may be set back.           *)
(***************************************************************************)
EXTENDS QueuedLimiter, Sequences, Functions

CONSTANTS
  TimeDelta,          \* time_delta_
  RequestsToProcess   \* requests_to_process_

ASSUME BucketAssumption == TimeDelta \in Nat \ {0} /\ RequestsToProcess \in Nat

VARIABLES
  queue,       \* responses_
  lastCheck,   \* last_check_time_
  processed    \* processed_requests of the update under way, else 0

vars == <<clock, pc, out, sent, unread, admitted, queue, lastCheck, processed>>

Init == LoopInit /\ queue = <<>> /\ lastCheck = Start /\ processed = 0

\* Slip: a batch one millisecond early.
DueEarly == Since(lastCheck) + 1 >= TimeDelta

Due == Since(lastCheck) >= TimeDelta

Wait ==
  /\ Goto("update", "flush")
  /\ ~Due
  /\ UNCHANGED <<clock, answerVars, unread, queue, lastCheck, processed>>

Open ==
  /\ Goto("update", "mark")
  /\ Due
  /\ UNCHANGED <<clock, answerVars, unread, queue, lastCheck, processed>>

\* Slip: the time of the batch is not kept.
MarkForgotten ==
  /\ Goto("mark", "admit")
  /\ UNCHANGED <<clock, answerVars, unread, queue, lastCheck, processed>>

Mark ==
  /\ Goto("mark", "admit")
  /\ lastCheck' = now
  /\ UNCHANGED <<clock, answerVars, unread, queue, processed>>

\* Slip: one admission more.
BatchFullLate == processed = RequestsToProcess + 1

BatchFull == processed = RequestsToProcess

Release ==
  /\ pc = "admit"
  /\ queue # <<>> /\ ~BatchFull
  /\ Give(Head(queue))
  /\ queue' = Tail(queue)
  /\ processed' = processed + 1
  /\ UNCHANGED <<clock, pc, sent, unread, lastCheck>>

EndBatch ==
  /\ Goto("admit", "flush")
  /\ queue = <<>> \/ BatchFull
  /\ processed' = 0
  /\ UNCHANGED <<clock, answerVars, unread, queue, lastCheck>>

\* Slip: the response that finds no place is lost.
TurnAwaySilently(new) ==
  /\ Len(queue) > QueueCap
  /\ UNCHANGED <<out, queue>>

TurnAway(new) ==
  /\ Len(queue) > QueueCap
  /\ out' = out \cup {new}
  /\ UNCHANGED queue

Enqueue(new) ==
  /\ Len(queue) <= QueueCap
  /\ queue' = Append(queue, new)
  /\ UNCHANGED out

AddRequest ==
  /\ \E r \in unread :
       Read(r) /\ (TurnAway(Rejection(r)) \/ Enqueue(Rejection(r)))
  /\ UNCHANGED <<lastCheck, processed>>

FlushResponses == Flush /\ UNCHANGED <<queue, lastCheck, processed>>
Idle == ReadNothing /\ UNCHANGED <<queue, lastCheck, processed>>
PassTime == Tick /\ UNCHANGED <<pc, answerVars, unread, queue, lastCheck, processed>>

Next ==
  \/ PassTime
  \/ Wait \/ Open \/ Mark \/ Release \/ EndBatch
  \/ FlushResponses \/ Idle \/ AddRequest

Spec == Init /\ [][Next]_vars

-------------------------------------------------------------------------------
\* Type invariant, with the length of the queue and of a batch.
TypeOK ==
  /\ LoopOK
  /\ queue \in Seq(Response) /\ Len(queue) <= QueueCap + 1
  /\ lastCheck \in 0..(Start + MaxTime)
  /\ processed \in 0..RequestsToProcess

\* Since the limiter was constructed there was at most one batch for every
\* TimeDelta milliseconds that really passed, and one for each time the clock
\* was set back, for then the unsigned difference of line 30 is huge.
LongRunRate ==
  Cardinality(admitted) <= RequestsToProcess * ((elapsed \div TimeDelta) + setBacks)

\* Any TimeDelta milliseconds hold at most two batches, and one for each time
\* the clock was set back: the stamps of a batch may be late, but never later
\* than the batch that follows, and the one after that keeps its distance.
PeakRate ==
  \A t \in 0..elapsed :
    Cardinality(GivenIn(t, TimeDelta)) <= RequestsToProcess * (2 + setBacks)

Promise == INSTANCE Limiter WITH
  Nodes <- {0}, Window <- 1, Life <- 0,
  waiting <- [n \in {0} |-> {Asked(q) : q \in Range(queue)}],
  answers <- [n \in {0} |-> out \cup sent]

\* Every request taken is answered exactly once, with the right flags.  Rates
\* are stated above: in this instance an admission is in flight no time at all.
ImplementsLimiter == Promise!Spec

===============================================================================
