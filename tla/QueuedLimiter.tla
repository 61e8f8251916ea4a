----------------------------- MODULE QueuedLimiter -----------------------------
(***************************************************************************)
(* What the centralized limiters share: one object driven by the loop of   *)
(* one Worker, which prepares a rejection for every request it is given    *)
(* and turns it into an admission when its turn comes.  Each limiter adds  *)
(* its queue and its update().                                             *)
(***************************************************************************)
EXTENDS SystemClock, FiniteSets

CONSTANTS
  QueueCap,  \* size of responses_ above which a request is turned away
  Requests   \* the requests sent, as [id, attempt]

Attempts == 0..2
LastAttempt == 2

ASSUME QueueAssumption == QueueCap \in Nat
ASSUME RequestsAssumption == Requests \subseteq [id : Nat, attempt : Attempts]

VARIABLES
  pc,        \* where the worker stands in its loop
  out,       \* responses_to_process_
  sent,      \* responses the worker has written to its pipe
  unread,    \* requests the worker has not read yet
  admitted   \* history: the requests admitted, each with the elapsed time

answerVars == <<out, sent, admitted>>

Response == [id : Nat, attempt : Attempts, allowed : BOOLEAN,
             retry : BOOLEAN, ts : Nat]

LoopInit ==
  /\ ClockInit
  /\ pc = "update"
  /\ out = {} /\ sent = {} /\ unread = Requests
  /\ admitted = {}

LoopOK ==
  /\ ClockOK
  /\ pc \in {"update", "expire", "mark", "admit", "book", "flush", "read"}
  /\ out \subseteq Response /\ sent \subseteq Response
  /\ unread \subseteq Requests
  /\ admitted \subseteq [of : Requests, at : 0..MaxTime]

Goto(from, to) == pc = from /\ pc' = to

\* construct_response: only the third attempt is rejected for good
Rejection(r) ==
  [id |-> r.id, attempt |-> r.attempt, allowed |-> FALSE,
   retry |-> r.attempt < LastAttempt, ts |-> now]

Asked(x) == [id |-> x.id, attempt |-> x.attempt]

\* The prepared rejection turned into an admission and pushed for the worker
Give(x) ==
  /\ out' = out \cup {[x EXCEPT !.allowed = TRUE, !.retry = FALSE, !.ts = now]}
  /\ admitted' = admitted \cup {[of |-> Asked(x), at |-> elapsed]}

Flush ==
  /\ Goto("flush", "read")
  /\ sent' = sent \cup out
  /\ out' = {}
  /\ UNCHANGED <<clock, unread, admitted>>

ReadNothing == Goto("read", "update") /\ UNCHANGED <<clock, unread, answerVars>>

Read(r) ==
  /\ Goto("read", "update")
  /\ r \in unread
  /\ unread' = unread \ {r}
  /\ UNCHANGED <<clock, sent, admitted>>

\* Admissions made in the span milliseconds from time t on
GivenIn(t, span) == {g \in admitted : t <= g.at /\ g.at < t + span}

===============================================================================
