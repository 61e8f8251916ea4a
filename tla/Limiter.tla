-------------------------------- MODULE Limiter --------------------------------
(***************************************************************************)
(* What a limiting algorithm promises to the worker that drives it: each   *)
(* request given to add_request is answered once through get_responses,    *)
(* admitted or rejected, a rejection asks for a retry unless it answers    *)
(* the last attempt, and the admissions of a node keep to the window.      *)
(***************************************************************************)
EXTENDS Integers, FiniteSets

CONSTANTS Nodes, Window, Life, Requests

VARIABLES
  unread,   \* requests no node has taken yet
  waiting,  \* the requests each node has taken and not answered
  answers   \* the responses each node has given

vars == <<unread, waiting, answers>>

LastAttempt == 2

Init ==
  /\ unread = Requests
  /\ waiting = [n \in Nodes |-> {}]
  /\ answers = [n \in Nodes |-> {}]

Rejects(a, r) ==
  /\ a.id = r.id /\ a.attempt = r.attempt
  /\ ~a.allowed
  /\ a.retry = (r.attempt < LastAttempt)

Admits(a, r) ==
  a.id = r.id /\ a.attempt = r.attempt /\ a.allowed /\ ~a.retry

\* Admissions of a set that are in flight at time t
InFlight(S, t) == {a \in S : a.allowed /\ a.ts <= t /\ t < a.ts + Life}

Take(n, r) ==
  /\ r \in unread
  /\ unread' = unread \ {r}
  /\ waiting' = [waiting EXCEPT ![n] = @ \cup {r}]
  /\ UNCHANGED answers

\* A request is taken and some request, the new one or one that waited, is
\* rejected to make room.
TakeAndReject(n, r) ==
  /\ r \in unread
  /\ unread' = unread \ {r}
  /\ \E victim \in waiting[n] \cup {r} :
       /\ waiting' = [waiting EXCEPT ![n] = (@ \cup {r}) \ {victim}]
       /\ \E a \in answers'[n] :
            /\ Rejects(a, victim)
            /\ answers' = [answers EXCEPT ![n] = @ \cup {a}]

Admit(n) ==
  /\ \E r \in waiting[n] :
       /\ waiting' = [waiting EXCEPT ![n] = @ \ {r}]
       /\ \E a \in answers'[n] :
            /\ Admits(a, r)
            /\ Cardinality(InFlight(answers[n], a.ts)) < Window
            /\ answers' = [answers EXCEPT ![n] = @ \cup {a}]
  /\ UNCHANGED unread

Next ==
  \E n \in Nodes :
    \/ \E r \in unread : Take(n, r) \/ TakeAndReject(n, r)
    \/ Admit(n)

Spec == Init /\ [][Next]_vars

===============================================================================
