--------------------------------- MODULE Pipe ---------------------------------
(***************************************************************************)
(* A pipe between threads: a std::queue, which is not made for threads,    *)
(* behind a mutex that every operation holds from its first to its last    *)
(* access.  An access that looks at the queue and one that changes it are  *)
(* steps of their own, so that two operations that overlapped could lose   *)
(* or duplicate an item.                                                   *)
(***************************************************************************)
EXTENDS Integers, Sequences

CONSTANTS
  Threads,   \* the threads that hold a reader or a writer of the pipe
  Items,     \* what may be written
  None,      \* std::nullopt
  Nobody,    \* the owner of a free mutex
  MaxLength  \* bound on the queue (model checking only)

ASSUME NobodyAssumption == Nobody \notin Threads
ASSUME NoneAssumption == None \notin Items
ASSUME LengthAssumption == MaxLength \in Nat

VARIABLES
  mutex,  \* the thread that holds mutex_
  queue,  \* queue_
  pc,     \* where each thread stands
  seen,   \* queue_ as an operation under way has found it
  item,   \* the argument of a write; what a read returns
  size    \* what a GetSize returns

pipeVars == <<mutex, queue, pc, seen, item, size>>

Waiting == {"write", "read", "size"}
Holding == {"push", "store", "test", "pop", "count", "done"}

PipeInit ==
  /\ mutex = Nobody
  /\ queue = <<>>
  /\ pc = [t \in Threads |-> "idle"]
  /\ seen = [t \in Threads |-> <<>>]
  /\ item = [t \in Threads |-> None]
  /\ size = [t \in Threads |-> 0]

Goto(t, from, to) == pc[t] = from /\ pc' = [pc EXCEPT ![t] = to]

Call(t) ==
  /\ \/ /\ Len(queue) < MaxLength
        /\ \E i \in Items : Goto(t, "idle", "write") /\ item' = [item EXCEPT ![t] = i]
     \/ Goto(t, "idle", "read") /\ UNCHANGED item
     \/ Goto(t, "idle", "size") /\ UNCHANGED item
  /\ UNCHANGED <<mutex, queue, seen, size>>

\* Slip: an operation does not wait for the mutex.
LockAtOnce(t) == mutex' = t

\* std::lock_guard: waits until the mutex is free.
Lock(t) == mutex = Nobody /\ mutex' = t

LockToWrite(t) ==
  /\ Goto(t, "write", "push")
  /\ Lock(t)
  /\ UNCHANGED <<queue, seen, item, size>>

LockToRead(t) ==
  /\ Goto(t, "read", "test")
  /\ Lock(t)
  /\ UNCHANGED <<queue, seen, item, size>>

LockToCount(t) ==
  /\ Goto(t, "size", "count")
  /\ Lock(t)
  /\ UNCHANGED <<queue, seen, item, size>>

\* push: the end of the queue is found, then the item is stored behind it.
FindEnd(t) ==
  /\ Goto(t, "push", "store")
  /\ seen' = [seen EXCEPT ![t] = queue]
  /\ UNCHANGED <<mutex, queue, item, size>>

Store(t) ==
  /\ Goto(t, "store", "done")
  /\ queue' = Append(seen[t], item[t])
  /\ UNCHANGED <<mutex, seen, item, size>>

FindEmpty(t) ==
  /\ Goto(t, "test", "done")
  /\ queue = <<>>
  /\ item' = [item EXCEPT ![t] = None]
  /\ UNCHANGED <<mutex, queue, seen, size>>

\* front: the first item is copied, then the queue is popped.
FindFront(t) ==
  /\ Goto(t, "test", "pop")
  /\ queue # <<>>
  /\ seen' = [seen EXCEPT ![t] = queue]
  /\ UNCHANGED <<mutex, queue, item, size>>

Pop(t) ==
  /\ Goto(t, "pop", "done")
  /\ item' = [item EXCEPT ![t] = Head(seen[t])]
  /\ queue' = Tail(queue)
  /\ UNCHANGED <<mutex, seen, size>>

Count(t) ==
  /\ Goto(t, "count", "done")
  /\ size' = [size EXCEPT ![t] = Len(queue)]
  /\ UNCHANGED <<mutex, queue, seen, item>>

\* The guard unlocks on every way out, the early return of read among them.
Unlock(t) ==
  /\ Goto(t, "done", "idle")
  /\ mutex' = Nobody
  /\ seen' = [seen EXCEPT ![t] = <<>>]
  /\ UNCHANGED <<queue, item, size>>

Step(t) ==
  \/ Call(t)
  \/ LockToWrite(t) \/ LockToRead(t) \/ LockToCount(t)
  \/ FindEnd(t) \/ Store(t)
  \/ FindEmpty(t) \/ FindFront(t) \/ Pop(t)
  \/ Count(t)
  \/ Unlock(t)

PipeNext == \E t \in Threads : Step(t)

PipeSpec == PipeInit /\ [][PipeNext]_pipeVars

-------------------------------------------------------------------------------
PipeTyped ==
  /\ mutex \in Threads \cup {Nobody}
  /\ queue \in Seq(Items)
  /\ pc \in [Threads -> {"idle"} \cup Waiting \cup Holding]
  /\ seen \in [Threads -> Seq(Items)]
  /\ item \in [Threads -> Items \cup {None}]
  /\ size \in [Threads -> Nat]

\* The thread inside an operation is the one that holds the mutex.
Exclusive == \A t \in Threads : pc[t] \in Holding <=> mutex = t

\* Type invariant, in which the mutex has one owner, the only thread that is
\* inside an operation.
PipeTypeOK == PipeTyped /\ Exclusive

\* The operation under way, whatever step of it a thread has come to
Doing(t) ==
  CASE pc[t] \in {"write", "push", "store"} -> "write"
    [] pc[t] \in {"read", "test", "pop"} -> "read"
    [] pc[t] \in {"size", "count"} -> "size"
    [] OTHER -> pc[t]

Queue == INSTANCE Fifo WITH
  contents <- queue,
  doing <- [t \in Threads |-> Doing(t)]

\* The pipe is a first-in-first-out queue to its threads, however their calls
\* overlap: no item is lost, duplicated, reordered or made up, and an empty
\* answer or a size is true at one instant of the call.  This is what lets the
\* testbed take an operation of a pipe as one step.
ImplementsFifo == Queue!Spec

-------------------------------------------------------------------------------
(* The inductive invariant behind the refinement.                          *)

\* What an operation has found in the queue is still there.
Fresh ==
  \A t \in Threads :
    /\ pc[t] \in {"store", "pop"} => seen[t] = queue
    /\ pc[t] = "pop" => queue # <<>>
    /\ pc[t] \in {"write", "push", "store"} => item[t] \in Items

PipeInv == PipeTyped /\ Exclusive /\ Fresh

===============================================================================
