---------------------------- MODULE PriorityLimiter ----------------------------
(***************************************************************************)
(* add_request of the two centralized limiters with a priority queue: a    *)
(* full queue gives up its last response for one that goes before it.      *)
(***************************************************************************)
EXTENDS QueuedLimiter

VARIABLE queue   \* responses_

\* PriorityResponse::operator<, where the priority is 2 less the attempt
Before(x, y) ==
  \/ x.attempt > y.attempt
  \/ x.attempt = y.attempt /\ x.ts < y.ts
  \/ x.attempt = y.attempt /\ x.ts = y.ts /\ x.id < y.id

IsFirst(x, S) == x \in S /\ \A y \in S \ {x} : Before(x, y)
IsLast(x, S) == x \in S /\ \A y \in S \ {x} : Before(y, x)

\* Slip: one response more.
QueueFullLate == Cardinality(queue) > QueueCap + 1

QueueFull == Cardinality(queue) > QueueCap

Enqueue(new) ==
  /\ ~QueueFull
  /\ queue' = queue \cup {new}
  /\ UNCHANGED out

\* Slip: the first response gives way instead of the last.
EvictFirst(new) ==
  /\ QueueFull
  /\ \E last \in queue :
       /\ IsFirst(last, queue)
       /\ out' = out \cup {last}
       /\ queue' = (queue \ {last}) \cup {new}

\* Slip: the evicted response is dropped.
EvictSilently(new) ==
  /\ QueueFull
  /\ \E last \in queue :
       /\ IsLast(last, queue)
       /\ Before(new, last)
       /\ queue' = (queue \ {last}) \cup {new}
  /\ UNCHANGED out

Evict(new) ==
  /\ QueueFull
  /\ \E last \in queue :
       /\ IsLast(last, queue)
       /\ Before(new, last)
       /\ out' = out \cup {last}
       /\ queue' = (queue \ {last}) \cup {new}

TurnAway(new) ==
  /\ QueueFull
  /\ \E last \in queue : IsLast(last, queue) /\ ~Before(new, last)
  /\ out' = out \cup {new}
  /\ UNCHANGED queue

AddRequest ==
  \E r \in unread :
    /\ Read(r)
    /\ Enqueue(Rejection(r)) \/ Evict(Rejection(r)) \/ TurnAway(Rejection(r))

QueueOK == queue \subseteq Response /\ Cardinality(queue) <= QueueCap + 1

\* A response that leaves the queue, or is turned away at the door, leaves no
\* response behind that should have had its place.
KeepsRetryOrder ==
  \A a \in (out \cup sent)' \ (out \cup sent) : \A q \in queue' :
    Asked(q) # Asked(a) =>
      IF a.allowed THEN a.attempt >= q.attempt ELSE a.attempt <= q.attempt

===============================================================================
