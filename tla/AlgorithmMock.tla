----------------------------- MODULE AlgorithmMock -----------------------------
(***************************************************************************)
(* A worker that is given the mock algorithm, or any other whose           *)
(* get_responses returns a null pointer: FixedWindow and the token buckets *)
(* do so, too.  The loop is the one of Worker::start; check_request, where *)
(* these algorithms decide, is called nowhere.                             *)
(***************************************************************************)
EXTENDS Sequences

CONSTANT Requests  \* the requests sent to the worker

\* A pointer is <<>> when it is null and <<x>> when it points to x.
Null == <<>>

VARIABLES
  pc,         \* where the worker stands; "dead" when the process is
  responses,  \* the pointer of line 52
  unread,     \* requests the worker has not read yet
  taken,      \* requests given to add_request
  passed      \* requests answered with an admission

vars == <<pc, responses, unread, taken, passed>>

Init ==
  /\ pc = "update"
  /\ responses = Null
  /\ unread = Requests
  /\ taken = {} /\ passed = {}

GetResponses == Null

\* update() of the mock does nothing
Update ==
  /\ pc = "update"
  /\ pc' = "flush"
  /\ responses' = GetResponses
  /\ UNCHANGED <<unread, taken, passed>>

\* Line 53 calls empty() through the pointer.  Reading a queue at address 0
\* ends the process.
FlushNull ==
  /\ pc = "flush" /\ responses = Null
  /\ pc' = "dead"
  /\ UNCHANGED <<responses, unread, taken, passed>>

Flush ==
  /\ pc = "flush" /\ responses # Null
  /\ pc' = "read"
  /\ passed' = passed \cup Head(responses)
  /\ UNCHANGED <<responses, unread, taken>>

\* add_request of the mock does nothing
Read ==
  /\ pc = "read"
  /\ pc' = "update"
  /\ \E r \in unread : unread' = unread \ {r} /\ taken' = taken \cup {r}
  /\ UNCHANGED <<responses, passed>>

Next == Update \/ FlushNull \/ Flush \/ Read

FairSpec == Init /\ [][Next]_vars /\ WF_vars(Next)

-------------------------------------------------------------------------------
\* What the mock's README says of it: it lets every request pass, and serves
\* for demonstrations and tests.
LetsEveryRequestPass == \A r \in Requests : <>(r \in passed)

===============================================================================
