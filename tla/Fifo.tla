--------------------------------- MODULE Fifo ---------------------------------
(***************************************************************************)
(* What a pipe promises to the threads that share it: each call of write,  *)
(* read or GetSize takes effect at one instant between its call and its    *)
(* return, on a first-in-first-out queue.                                  *)
(***************************************************************************)
EXTENDS Integers, Sequences

CONSTANTS Threads, Items, None

VARIABLES
  contents,  \* the items in the pipe
  doing,     \* the operation under way in each thread
  item,      \* the argument of a write; what a read returns
  size       \* what a GetSize returns

vars == <<contents, doing, item, size>>

Init ==
  /\ contents = <<>>
  /\ doing = [t \in Threads |-> "idle"]
  /\ item = [t \in Threads |-> None]
  /\ size = [t \in Threads |-> 0]

Goto(t, from, to) == doing[t] = from /\ doing' = [doing EXCEPT ![t] = to]

Call(t) ==
  /\ \/ \E i \in Items : Goto(t, "idle", "write") /\ item' = [item EXCEPT ![t] = i]
     \/ Goto(t, "idle", "read") /\ UNCHANGED item
     \/ Goto(t, "idle", "size") /\ UNCHANGED item
  /\ UNCHANGED <<contents, size>>

Write(t) ==
  /\ Goto(t, "write", "done")
  /\ contents' = Append(contents, item[t])
  /\ UNCHANGED <<item, size>>

Read(t) ==
  /\ Goto(t, "read", "done")
  /\ \/ /\ contents = <<>>
        /\ item' = [item EXCEPT ![t] = None]
        /\ UNCHANGED contents
     \/ /\ contents # <<>>
        /\ item' = [item EXCEPT ![t] = Head(contents)]
        /\ contents' = Tail(contents)
  /\ UNCHANGED size

GetSize(t) ==
  /\ Goto(t, "size", "done")
  /\ size' = [size EXCEPT ![t] = Len(contents)]
  /\ UNCHANGED <<contents, item>>

Return(t) ==
  /\ Goto(t, "done", "idle")
  /\ UNCHANGED <<contents, item, size>>

Next == \E t \in Threads : Call(t) \/ Write(t) \/ Read(t) \/ GetSize(t) \/ Return(t)

Spec == Init /\ [][Next]_vars

===============================================================================
