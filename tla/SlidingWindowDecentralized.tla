---------------------- MODULE SlidingWindowDecentralized ----------------------
(***************************************************************************)
(* The limiter that main.cpp runs: NodesNumber objects of the class        *)
(* SlidingWindowDecentralized, each driven by the loop of its own Worker   *)
(* thread (update, flush the responses, read one request, add it).  The    *)
(* nodes share no lock: a node learns what the others admitted by reading  *)
(* the sizes of their in-flight sets one after the other, every            *)
(* SyncPeriod, and works with that sum until the next time.                *)
(*                                                                         *)
(* Every call of system_clock::now() is a read of the variable now, which  *)
(* may advance between any two steps.  A step of a node is the code        *)
(* between two accesses to something another thread writes, or between     *)
(* two reads of the clock that may differ.                                 *)
(***************************************************************************)
EXTENDS Integers, FiniteSets

CONSTANTS
  NodesNumber,  \* number of nodes, one Worker each (5 in main.cpp)
  Window,       \* infly_window_size_, the limit on requests in flight (110)
  Life,         \* how long an admitted request stays in flight, ms (100)
  SyncPeriod,   \* age at which a node renews its summary, ms (10)
  QueueCap,     \* size of responses_ above which a request is turned away (10)
  Requests,     \* the requests sent, as [id, attempt]
  MaxTime       \* bound on the clock (model checking only)

Attempts == 0..2
LastAttempt == 2

ASSUME NodesAssumption == NodesNumber \in Nat \ {0}
ASSUME LimitsAssumption == /\ Window \in Nat
                           /\ Life \in Nat
                           /\ SyncPeriod \in Nat
                           /\ QueueCap \in Nat
                           /\ MaxTime \in Nat
ASSUME RequestsAssumption == Requests \subseteq [id : Nat, attempt : Attempts]

Nodes == 0..(NodesNumber - 1)

VARIABLES
  now,       \* the system clock, in milliseconds since the start
  pc,        \* where the worker of each node stands
  at,        \* i of line 44, the node whose size is read next, or 0
  summary,   \* summary_length_
  lastSync,  \* last_sync_timestamp_
  infly,     \* infly_end_timestamps_: each end with the admission it is for
  queue,     \* responses_: the rejections prepared for the waiting requests
  stamp,     \* the timestamp read at line 63, 0 once it is used
  out,       \* responses_to_process_
  sent,      \* responses the worker has written to its pipe
  unread     \* requests no worker has read yet

nodeVars == <<at, summary, lastSync, infly, queue, stamp, out, sent, unread>>
vars == <<now, pc, nodeVars>>

Pcs == {"update", "sync", "gate", "expire", "admit", "book", "flush", "read"}

Response == [id : Nat, attempt : Attempts, allowed : BOOLEAN,
             retry : BOOLEAN, ts : Nat]

-------------------------------------------------------------------------------
Init ==
  /\ now = 0
  /\ pc = [n \in Nodes |-> "update"]
  /\ at = [n \in Nodes |-> 0]
  /\ summary = [n \in Nodes |-> 0]
  /\ lastSync = [n \in Nodes |-> 0]
  /\ infly = [n \in Nodes |-> {}]
  /\ queue = [n \in Nodes |-> {}]
  /\ stamp = [n \in Nodes |-> 0]
  /\ out = [n \in Nodes |-> {}]
  /\ sent = [n \in Nodes |-> {}]
  /\ unread = Requests

Goto(n, from, to) == pc[n] = from /\ pc' = [pc EXCEPT ![n] = to]

Tick == now < MaxTime /\ now' = now + 1 /\ UNCHANGED <<pc, nodeVars>>

-------------------------------------------------------------------------------
(* update(), the synchronisation: the sizes of all nodes are added up one  *)
(* at a time, while their owners go on.                                    *)

\* Slip: the sum starts from its old value.
StartSyncKeeping(n) ==
  /\ Goto(n, "update", "sync")
  /\ now > lastSync[n] + SyncPeriod
  /\ at' = [at EXCEPT ![n] = 0]
  /\ UNCHANGED <<now, summary, lastSync, infly, queue, stamp, out, sent, unread>>

StartSync(n) ==
  /\ Goto(n, "update", "sync")
  /\ now > lastSync[n] + SyncPeriod
  /\ summary' = [summary EXCEPT ![n] = 0]
  /\ at' = [at EXCEPT ![n] = 0]
  /\ UNCHANGED <<now, lastSync, infly, queue, stamp, out, sent, unread>>

SkipSync(n) ==
  /\ Goto(n, "update", "gate")
  /\ now <= lastSync[n] + SyncPeriod
  /\ UNCHANGED <<now, nodeVars>>

ReadSize(n) ==
  /\ pc[n] = "sync"
  /\ at[n] < NodesNumber
  /\ summary' = [summary EXCEPT ![n] = @ + Cardinality(infly[at[n]])]
  /\ at' = [at EXCEPT ![n] = @ + 1]
  /\ UNCHANGED <<now, pc, lastSync, infly, queue, stamp, out, sent, unread>>

EndSync(n) ==
  /\ Goto(n, "sync", "gate")
  /\ at[n] = NodesNumber
  /\ lastSync' = [lastSync EXCEPT ![n] = now]
  /\ at' = [at EXCEPT ![n] = 0]
  /\ UNCHANGED <<now, summary, infly, queue, stamp, out, sent, unread>>

-------------------------------------------------------------------------------
(* update(), the window.  Line 49 reads *begin() of the set even when the  *)
(* set is empty, which is undefined: a full node with nothing in flight of *)
(* its own may take either branch.                                         *)

\* Slip: one request too many.
FullLate(n) == summary[n] > Window

Full(n) == summary[n] >= Window
Expired(n) == {e \in infly[n] : now >= e.end}

Return(n) ==
  /\ Goto(n, "gate", "flush")
  /\ Full(n)
  /\ Expired(n) = {}
  /\ UNCHANGED <<now, nodeVars>>

Proceed(n) ==
  /\ Goto(n, "gate", "expire")
  /\ ~Full(n) \/ infly[n] = {} \/ Expired(n) # {}
  /\ UNCHANGED <<now, nodeVars>>

Expire(n) ==
  /\ pc[n] = "expire"
  /\ \E e \in Expired(n) :
       /\ \A f \in infly[n] : e.end <= f.end
       /\ infly' = [infly EXCEPT ![n] = @ \ {e}]
  /\ UNCHANGED <<now, pc, at, summary, lastSync, queue, stamp, out, sent, unread>>

ExpireDone(n) ==
  /\ Goto(n, "expire", "admit")
  /\ Expired(n) = {}
  /\ UNCHANGED <<now, nodeVars>>

\* PriorityResponse::operator<, where the priority is 2 less the attempt
Before(x, y) ==
  \/ x.attempt > y.attempt
  \/ x.attempt = y.attempt /\ x.ts < y.ts
  \/ x.attempt = y.attempt /\ x.ts = y.ts /\ x.id < y.id

IsFirst(x, S) == x \in S /\ \A y \in S \ {x} : Before(x, y)

\* Slip: the wrong end of the queue.
IsLastWrongEnd(x, S) == x \in S /\ \A y \in S \ {x} : Before(x, y)

IsLast(x, S) == x \in S /\ \A y \in S \ {x} : Before(y, x)

\* The response is stamped first; the end of its life is read off the clock
\* again, after it.
Stamp(n) ==
  /\ Goto(n, "admit", "book")
  /\ queue[n] # {}
  /\ ~Full(n)
  /\ stamp' = [stamp EXCEPT ![n] = now]
  /\ UNCHANGED <<now, at, summary, lastSync, infly, queue, out, sent, unread>>

Admission(n, x) ==
  [x EXCEPT !.allowed = TRUE, !.retry = FALSE, !.ts = stamp[n]]

\* Slip: a life one millisecond short.
EndOfLifeEarly == now + Life - 1

EndOfLife == now + Life

Book(n) ==
  /\ Goto(n, "book", "admit")
  /\ \E x \in queue[n] :
       /\ IsFirst(x, queue[n])
       /\ out' = [out EXCEPT ![n] = @ \cup {Admission(n, x)}]
       /\ infly' = [infly EXCEPT ![n] =
                      @ \cup {[of |-> Admission(n, x), end |-> EndOfLife]}]
       /\ queue' = [queue EXCEPT ![n] = @ \ {x}]
  /\ summary' = [summary EXCEPT ![n] = @ + 1]
  /\ stamp' = [stamp EXCEPT ![n] = 0]
  /\ UNCHANGED <<now, at, lastSync, sent, unread>>

AdmitDone(n) ==
  /\ Goto(n, "admit", "flush")
  /\ queue[n] = {} \/ Full(n)
  /\ UNCHANGED <<now, nodeVars>>

-------------------------------------------------------------------------------
(* The rest of the worker's loop.                                          *)

Flush(n) ==
  /\ Goto(n, "flush", "read")
  /\ sent' = [sent EXCEPT ![n] = @ \cup out[n]]
  /\ out' = [out EXCEPT ![n] = {}]
  /\ UNCHANGED <<now, at, summary, lastSync, infly, queue, stamp, unread>>

ReadNothing(n) ==
  /\ Goto(n, "read", "update")
  /\ UNCHANGED <<now, nodeVars>>

Rejection(r) ==
  [id |-> r.id, attempt |-> r.attempt, allowed |-> FALSE,
   retry |-> r.attempt < LastAttempt, ts |-> now]

\* Slip: a queue with one place more.
QueueFullLate(n) == Cardinality(queue[n]) > QueueCap + 1

QueueFull(n) == Cardinality(queue[n]) > QueueCap

Enqueue(n, new) ==
  /\ ~QueueFull(n)
  /\ queue' = [queue EXCEPT ![n] = @ \cup {new}]
  /\ UNCHANGED out

\* Slip: the evicted response is dropped.
EvictSilently(n, new) ==
  /\ QueueFull(n)
  /\ \E last \in queue[n] :
       /\ IsLast(last, queue[n])
       /\ Before(new, last)
       /\ queue' = [queue EXCEPT ![n] = (@ \ {last}) \cup {new}]
  /\ UNCHANGED out

\* The last response of a full queue gives way to one that goes before it.
Evict(n, new) ==
  /\ QueueFull(n)
  /\ \E last \in queue[n] :
       /\ IsLast(last, queue[n])
       /\ Before(new, last)
       /\ out' = [out EXCEPT ![n] = @ \cup {last}]
       /\ queue' = [queue EXCEPT ![n] = (@ \ {last}) \cup {new}]

TurnAway(n, new) ==
  /\ QueueFull(n)
  /\ \E last \in queue[n] : IsLast(last, queue[n]) /\ ~Before(new, last)
  /\ out' = [out EXCEPT ![n] = @ \cup {new}]
  /\ UNCHANGED queue

AddRequest(n) ==
  /\ Goto(n, "read", "update")
  /\ \E r \in unread :
       /\ unread' = unread \ {r}
       /\ \/ Enqueue(n, Rejection(r))
          \/ Evict(n, Rejection(r))
          \/ TurnAway(n, Rejection(r))
  /\ UNCHANGED <<now, at, summary, lastSync, infly, stamp, sent>>

-------------------------------------------------------------------------------
Step(n) ==
  \/ StartSync(n) \/ SkipSync(n) \/ ReadSize(n) \/ EndSync(n)
  \/ Return(n) \/ Proceed(n) \/ Expire(n) \/ ExpireDone(n)
  \/ Stamp(n) \/ Book(n) \/ AdmitDone(n)
  \/ Flush(n) \/ ReadNothing(n) \/ AddRequest(n)

Next == Tick \/ \E n \in Nodes : Step(n)

Spec == Init /\ [][Next]_vars

-------------------------------------------------------------------------------
(* What the nodes promise together, whichever way they decide: the limiter *)
(* whose waiting requests are those in the queues and whose answers are    *)
(* the responses on their way to the pipes or in them.                     *)

\* The responses of a node
Answers(n) == out[n] \cup sent[n]

\* The request a response answers
Asked(x) == [id |-> x.id, attempt |-> x.attempt]

Limit == INSTANCE Limiter WITH
  waiting <- [n \in Nodes |-> {Asked(q) : q \in queue[n]}],
  answers <- [n \in Nodes |-> Answers(n)]

-------------------------------------------------------------------------------
Typed ==
  /\ now \in Nat
  /\ pc \in [Nodes -> Pcs]
  /\ at \in [Nodes -> 0..NodesNumber]
  /\ summary \in [Nodes -> Nat]
  /\ lastSync \in [Nodes -> Nat]
  /\ infly \in [Nodes -> SUBSET [of : Response, end : Nat]]
  /\ queue \in [Nodes -> SUBSET Response]
  /\ stamp \in [Nodes -> Nat]
  /\ out \in [Nodes -> SUBSET Response]
  /\ sent \in [Nodes -> SUBSET Response]
  /\ unread \in SUBSET Requests

\* responses_ never holds more than QueueCap + 1 responses: the test of
\* add_request is size() > 10, so it is the eleventh that fits.
QueueBounded == \A n \in Nodes : Cardinality(queue[n]) <= QueueCap + 1

\* Type invariant: every variable of the nodes and of the clock has its type,
\* where the type of a queue bounds its size.
TypeOK == Typed /\ QueueBounded

\* A node never keeps more requests in flight than the window, however stale
\* the sizes it added up are: update() admits on summary_length_ alone, and
\* never lowers it when it drops an expired entry.
WindowHeld == \A n \in Nodes : Cardinality(infly[n]) <= Window

\* The count MetricsAggregatorInfly makes from the journal: at every
\* millisecond, the admissions of one node stamped within the last Life
\* milliseconds are at most the window.  The stamp and the end of life are two
\* reads of the clock, and expired entries are dropped at a third.
RateHeld ==
  \A n \in Nodes, t \in 0..MaxTime :
    Cardinality(Limit!InFlight(Answers(n), t)) <= Window

\* A response that leaves the queue, or is turned away at the door, leaves no
\* response behind that should have had its place.
KeepsRetryOrder ==
  \A n \in Nodes : \A a \in Answers(n)' \ Answers(n) : \A q \in queue'[n] :
    IF a.allowed THEN a.attempt >= q.attempt ELSE a.attempt <= q.attempt

\* The limit prefers retries: a response is admitted only when none left behind
\* is of a later attempt, and rejected only when none left behind is of an
\* earlier one, whether it was evicted or found the queue full.
RetriesFirst == [][KeepsRetryOrder]_vars

\* The nodes implement the abstract limiter: every request read is answered
\* exactly once by the node that read it, as an admission or as a rejection
\* with the right retry flag, and never more than Window admissions of a node
\* fall in one life.
ImplementsLimiter == Limit!Spec

-------------------------------------------------------------------------------
(* The inductive invariant behind the safety properties.                   *)

Finite ==
  \A n \in Nodes : IsFiniteSet(infly[n]) /\ IsFiniteSet(queue[n])

\* A summary always covers what the node itself has in flight, except between
\* the moment a synchronisation clears it and the moment it reads the node's
\* own size.
CountsOwn ==
  \A n \in Nodes :
    (pc[n] = "sync" => at[n] > n) => Cardinality(infly[n]) <= summary[n]

\* The room found at line 56 is still there at line 65.
RoomToBook == \A n \in Nodes : pc[n] = "book" => ~Full(n)

\* What has left the in-flight set had its full life, counted from its stamp,
\* by now and by the stamp of the admission under way.
InFlightOrPast ==
  \A n \in Nodes :
    /\ stamp[n] <= now
    /\ \A e \in infly[n] : e.of.ts + Life <= e.end
    /\ \A a \in Answers(n) : a.allowed =>
         \/ \E e \in infly[n] : e.of = a
         \/ a.ts + Life <= (IF pc[n] = "book" THEN stamp[n] ELSE now)

\* A request is in one place: unread, or waiting once.
OnePlace ==
  \A n \in Nodes : \A x \in queue[n] :
    /\ Asked(x) \notin unread
    /\ ~x.allowed /\ x.retry = (x.attempt < LastAttempt)
    /\ \A y \in queue[n] : Asked(x) = Asked(y) => x = y

\* Everything the proofs need to know of a reachable state, the safety
\* invariants among it.
IInv ==
  /\ Typed /\ Finite /\ CountsOwn /\ RoomToBook /\ WindowHeld
  /\ InFlightOrPast /\ RateHeld /\ QueueBounded /\ OnePlace

===============================================================================
