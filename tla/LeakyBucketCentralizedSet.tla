----------------------- MODULE LeakyBucketCentralizedSet -----------------------
(***************************************************************************)
(* The leaky bucket with a priority queue, whose batches belong to the     *)
(* periods of TimeDelta milliseconds that the clock is divided into: the   *)
(* time a batch is booked under is rounded down to the start of its period.*)
(***************************************************************************)
EXTENDS PriorityLimiter

CONSTANTS
  TimeDelta,          \* time_delta_
  RequestsToProcess   \* requests_to_process_

ASSUME BucketAssumption == TimeDelta \in Nat \ {0} /\ RequestsToProcess \in Nat

VARIABLES
  lastCheck,   \* last_check_time_
  processed    \* processed_requests of the update under way, else 0

vars == <<clock, pc, out, sent, unread, admitted, queue, lastCheck, processed>>

PeriodOf(t) == t - (t % TimeDelta)

Init == LoopInit /\ queue = {} /\ lastCheck = PeriodOf(Start) /\ processed = 0

\* Slip: a batch one millisecond early.
DueEarly == Since(lastCheck) + 1 >= TimeDelta

Due == Since(lastCheck) >= TimeDelta

Wait ==
  /\ Goto("update", "flush")
  /\ ~Due
  /\ UNCHANGED <<clock, answerVars, unread, queue, lastCheck, processed>>

Open ==
  /\ Goto("update", "mark")
  /\ Due
  /\ UNCHANGED <<clock, answerVars, unread, queue, lastCheck, processed>>

\* Slip: the time of the batch is not kept.
MarkForgotten ==
  /\ Goto("mark", "admit")
  /\ UNCHANGED <<clock, answerVars, unread, queue, lastCheck, processed>>

Mark ==
  /\ Goto("mark", "admit")
  /\ lastCheck' = PeriodOf(now)
  /\ UNCHANGED <<clock, answerVars, unread, queue, processed>>

BatchFull == processed = RequestsToProcess

Release ==
  /\ pc = "admit"
  /\ ~BatchFull
  /\ \E x \in queue :
       /\ IsFirst(x, queue)
       /\ Give(x)
       /\ queue' = queue \ {x}
  /\ processed' = processed + 1
  /\ UNCHANGED <<clock, pc, sent, unread, lastCheck>>

EndBatch ==
  /\ Goto("admit", "flush")
  /\ queue = {} \/ BatchFull
  /\ processed' = 0
  /\ UNCHANGED <<clock, answerVars, unread, queue, lastCheck>>

Add == AddRequest /\ UNCHANGED <<lastCheck, processed>>
FlushResponses == Flush /\ UNCHANGED <<queue, lastCheck, processed>>
Idle == ReadNothing /\ UNCHANGED <<queue, lastCheck, processed>>
PassTime == Tick /\ UNCHANGED <<pc, answerVars, unread, queue, lastCheck, processed>>

Next ==
  \/ PassTime
  \/ Wait \/ Open \/ Mark \/ Release \/ EndBatch
  \/ FlushResponses \/ Idle \/ Add

Spec == Init /\ [][Next]_vars

-------------------------------------------------------------------------------
\* Type invariant, with the size of the queue and of a batch.
TypeOK ==
  /\ LoopOK /\ QueueOK
  /\ lastCheck \in 0..(Start + MaxTime)
  /\ processed \in 0..RequestsToProcess

\* While the clock runs forward there is at most one batch for each period that
\* began since the limiter was constructed; the rounded time costs a second
\* batch whenever the clock is set back.
LongRunRate ==
  Cardinality(admitted) <= RequestsToProcess
             * ((((Start % TimeDelta) + elapsed) \div TimeDelta) + 2 * setBacks)

\* Batches keep no distance from one another, only one to a period: any
\* TimeDelta milliseconds may hold the end of a late batch, a batch at the end
\* of its period, and one at the start of the next.
PeakRate ==
  \A t \in 0..elapsed :
    Cardinality(GivenIn(t, TimeDelta)) <= RequestsToProcess * (3 + 2 * setBacks)

Promise == INSTANCE Limiter WITH
  Nodes <- {0}, Window <- 1, Life <- 0,
  waiting <- [n \in {0} |-> {Asked(q) : q \in queue}],
  answers <- [n \in {0} |-> out \cup sent]

\* Every request taken is answered exactly once, with the right flags.  Rates
\* are stated above: in this instance an admission is in flight no time at all.
ImplementsLimiter == Promise!Spec

===============================================================================
