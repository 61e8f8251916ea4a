----------------------------- MODULE Testbed_proofs -----------------------------
(***************************************************************************)
(* Proofs about Testbed, for any numbers of users and workers and any      *)
(* delays, and about the Pipe its parts are connected by.                  *)
(***************************************************************************)
EXTENDS Testbed, Pipe, FiniteSetTheorems, TLAPS

\* What may be retried, and what a limiter may answer: a rejected request is to be
\* retried if it has an attempt left, after the delay counted from the rejection.
Again == {r \in Retry : r.attempt < LastAttempt}
Answers == {a \in Response :
  /\ a.retry <=> ~a.allowed /\ a.attempt < LastAttempt
  /\ a.retry => a.due = a.ts + RetryDelay[a.attempt]}

\* No attempt is past the last, because only earlier ones are to be retried.
AttemptsLeft ==
  /\ retries \in SUBSET Again /\ retryPipe \in Seq(Again)
  /\ holding \in [Workers -> SUBSET Answers]
  /\ outbox \in [Workers -> Seq(Answers)]
  /\ held \in SUBSET Answers

\* Main has a user to count as long as it is sending a request.
UsersLeft == main \in {"write", "count"} => users < Users

Typed == TypeOK /\ AttemptsLeft

LEMMA SequenceFacts ==
  ASSUME NEW S, NEW s \in Seq(S)
  PROVE  /\ \A x \in S : Append(s, x) \in Seq(S)
         /\ s # <<>> => Head(s) \in S /\ Tail(s) \in Seq(S)
  OBVIOUS

LEMMA WorkersFacts == \A w \in Workers : w \in Nat /\ w + 1 \in 0..WorkersNumber
  BY WorkersAssumption DEF Workers

LEMMA RejectionType ==
  ASSUME now \in Nat, NEW r \in Request PROVE Rejection(r) \in Answers
<1>1. r.attempt < LastAttempt => now + RetryDelay[r.attempt] \in Nat
  BY DelayAssumption DEF Request, Attempts, LastAttempt
<1>2. r.attempt \in Attempts /\ r.id \in Nat /\ r.user \in Nat /\ r.ts \in Nat
  BY DEF Request
<1>3. (IF r.attempt < LastAttempt THEN now + RetryDelay[r.attempt] ELSE 0) \in Nat
  BY <1>1
<1>4. (r.attempt < LastAttempt) \in BOOLEAN
  BY <1>2 DEF Attempts, LastAttempt
<1> QED
  BY <1>2, <1>3, <1>4 DEF Rejection, Answers, Response

LEMMA AdmissionType ==
  ASSUME now \in Nat, NEW a \in Answers PROVE Admission(a) \in Answers
  BY DEF Admission, Answers, Response

LEMMA TypeInit == Init => Typed /\ UsersLeft
  BY UsersAssumption, WorkersAssumption
     DEF Init, SenderInit, ServerInit, WorkersInit, Typed, TypeOK, AttemptsLeft,
         UsersLeft, Workers

LEMMA TypeMain == ASSUME Typed, UsersLeft, Main PROVE Typed'
<1> USE DEF Typed, TypeOK, AttemptsLeft, serverVars, workerVars, senderVars
<1>1. CASE MainLoad
  <2>1. [id |-> currentId, user |-> users, attempt |-> 0, ts |-> now] \in Request
    BY UsersAssumption DEF Request, Attempts, LastAttempt
  <2> QED
    BY <1>1, <2>1 DEF MainLoad
<1>2. CASE MainWrite
  <2>1. PICK r \in first : Write(r)
    BY <1>2 DEF MainWrite
  <2>2. requestPipe' \in Seq(Request) /\ sent' \in SUBSET Request
    BY <2>1, SequenceFacts DEF Write
  <2> QED
    BY <1>2, <2>2 DEF MainWrite
<1>3. CASE MainCount
  <2>1. users' \in 0..Users /\ currentId' \in Nat
    BY <1>3, UsersAssumption DEF MainCount, UsersLeft
  <2>2. main' = "load"
    BY <1>3 DEF MainCount
  <2> QED
    BY <1>3, <2>1, <2>2 DEF MainCount
<1>4. CASE StopSender
  BY <1>4 DEF StopSender
<1>5. CASE JoinRetrier
  BY <1>5 DEF JoinRetrier
<1>6. CASE JoinServer \/ JoinReader \/ Finish
  BY <1>6 DEF JoinServer, JoinReader, Finish
<1>7. ASSUME NEW w \in Workers, StopWorker(w) PROVE Typed'
  BY <1>7 DEF StopWorker
<1> QED
  BY <1>1, <1>2, <1>3, <1>4, <1>5, <1>6, <1>7 DEF Main

LEMMA TypeRetrier == ASSUME Typed, Retrier PROVE Typed'
<1> USE DEF Typed, TypeOK, AttemptsLeft, serverVars, workerVars
<1>1. CASE CheckRunning \/ NothingDue
  BY <1>1 DEF CheckRunning, NothingDue
<1>2. CASE Poll
  <2>1. retryPipe # <<>> =>
          /\ Head(retryPipe) \in Again /\ Tail(retryPipe) \in Seq(Again)
          /\ Head(retryPipe) \in Retry /\ Tail(retryPipe) \in Seq(Retry)
    BY SequenceFacts
  <2>2. retryPipe' \in Seq(Again) /\ retryPipe' \in Seq(Retry)
    BY <1>2, <2>1 DEF Poll
  <2>3. retries' \in SUBSET Again /\ retries' \in SUBSET Retry
    BY <1>2, <2>1 DEF Poll, Insert
  <2> QED
    BY <1>2, <2>2, <2>3 DEF Poll
<1>3. CASE PickDue
  <2>1. ASSUME NEW r \in retries
        PROVE  [id |-> currentId, user |-> r.user, attempt |-> r.attempt + 1, ts |-> now]
                 \in Request
    <3>1. r.user \in Nat /\ r.attempt \in Attempts /\ r.attempt < LastAttempt
      BY DEF Again, Retry
    <3>2. r.attempt + 1 \in Attempts
      BY <3>1 DEF Attempts, LastAttempt
    <3> QED
      BY <3>1, <3>2 DEF Request
  <2> QED
    BY <1>3, <2>1 DEF PickDue
<1>4. CASE WriteRetry
  <2>1. PICK r \in next : Write(r)
    BY <1>4 DEF WriteRetry
  <2>2. requestPipe' \in Seq(Request) /\ sent' \in SUBSET Request
    BY <2>1, SequenceFacts DEF Write
  <2> QED
    BY <1>4, <2>2 DEF WriteRetry
<1>5. CASE CountRetry
  BY <1>5 DEF CountRetry
<1> QED
  BY <1>1, <1>2, <1>3, <1>4, <1>5 DEF Retrier

LEMMA TypeServer == ASSUME Typed, Server PROVE Typed'
<1> USE DEF Typed, TypeOK, AttemptsLeft, senderVars, workerVars
<1>1. CASE TestMore \/ TestSize \/ TestCounts
  BY <1>1 DEF TestMore, TestSize, TestCounts
<1>2. CASE Dispatch
  <2>1. requestPipe # <<>> =>
          Head(requestPipe) \in Request /\ Tail(requestPipe) \in Seq(Request)
    BY SequenceFacts
  <2>2. requestPipe' \in Seq(Request)
    BY <1>2, <2>1 DEF Dispatch
  <2>3. received' \in Nat
    BY <1>2 DEF Dispatch
  <2>4. inbox' \in [Workers -> Seq(Request)]
    <3>1. CASE requestPipe = <<>>
      BY <1>2, <3>1 DEF Dispatch
    <3>2. CASE requestPipe # <<>>
      <4>1. PICK w \in Workers :
              inbox' = [inbox EXCEPT ![w] = Append(@, Head(requestPipe))]
        BY <1>2, <3>2 DEF Dispatch
      <4>2. Append(inbox[w], Head(requestPipe)) \in Seq(Request)
        BY <2>1, <3>2, SequenceFacts
      <4> QED
        BY <4>1, <4>2
    <3> QED
      BY <3>1, <3>2
  <2> QED
    BY <1>2, <2>2, <2>3, <2>4 DEF Dispatch
<1> QED
  BY <1>1, <1>2 DEF Server

LEMMA TypeReader == ASSUME Typed, Reader PROVE Typed'
<1> USE DEF Typed, TypeOK, AttemptsLeft, senderVars, workerVars
<1>1. CASE CheckReader \/ EndPass
  BY <1>1, WorkersAssumption DEF CheckReader, EndPass
<1>2. ASSUME NEW w \in Workers, Collect(w) PROVE Typed'
  <2> outbox[w] # <<>> =>
        /\ Head(outbox[w]) \in Answers /\ Tail(outbox[w]) \in Seq(Answers)
        /\ Head(outbox[w]) \in Response /\ Tail(outbox[w]) \in Seq(Response)
    BY SequenceFacts
  <2>1. /\ held' \in SUBSET Answers /\ held' \in SUBSET Response
        /\ outbox' \in [Workers -> Seq(Answers)]
        /\ outbox' \in [Workers -> Seq(Response)]
    BY <1>2 DEF Collect
  <2> QED
    BY <1>2, <2>1, WorkersFacts DEF Collect
<1>3. CASE Log
  <2>1. PICK a \in held :
          /\ journal' = journal \cup {LogLine(a)}
          /\ retryPipe' = IF a.retry
                            THEN Append(retryPipe, [id |-> a.id, user |-> a.user,
                                                    attempt |-> a.attempt, due |-> a.due])
                            ELSE retryPipe
    BY <1>3 DEF Log
  <2>2. a.retry =>
          [id |-> a.id, user |-> a.user, attempt |-> a.attempt, due |-> a.due] \in Again
    BY DEF Answers, Response, Again, Retry
  <2>3. retryPipe' \in Seq(Again) /\ retryPipe' \in Seq(Retry)
    BY <2>1, <2>2, SequenceFacts DEF Again
  <2>4. \A line \in journal' : line.attempt \in Attempts
    <3>1. LogLine(a).attempt \in Attempts
      BY DEF LogLine, Response
    <3> QED
      BY <2>1, <3>1
  <2> QED
    BY <1>3, <2>3, <2>4 DEF Log
<1> QED
  BY <1>1, <1>2, <1>3 DEF Reader

LEMMA TypeWorker == ASSUME Typed, NEW w \in Workers, Worker(w) PROVE Typed'
<1> USE DEF Typed, TypeOK, AttemptsLeft, senderVars, serverVars
<1>1. CASE TakeRequest(w)
  <2>1. inbox' \in [Workers -> Seq(Request)]
    BY <1>1, SequenceFacts DEF TakeRequest
  <2>2. /\ holding' \in [Workers -> SUBSET Answers]
        /\ holding' \in [Workers -> SUBSET Response]
    BY <1>1, SequenceFacts, RejectionType DEF TakeRequest, Answers
  <2> QED
    BY <1>1, <2>1, <2>2 DEF TakeRequest
<1>2. CASE Answer(w)
  <2>1. PICK a \in holding[w] :
          /\ holding' = [holding EXCEPT ![w] = @ \ {a}]
          /\ \E answer \in {a, Admission(a)} :
               outbox' = [outbox EXCEPT ![w] = Append(@, answer)]
    BY <1>2 DEF Answer
  <2>2. Admission(a) \in Answers
    BY AdmissionType
  <2>3. /\ outbox' \in [Workers -> Seq(Answers)]
        /\ outbox' \in [Workers -> Seq(Response)]
    BY <2>1, <2>2, SequenceFacts DEF Answers
  <2>4. /\ holding' \in [Workers -> SUBSET Answers]
        /\ holding' \in [Workers -> SUBSET Response]
    BY <2>1
  <2> QED
    BY <1>2, <2>3, <2>4 DEF Answer
<1>3. CASE EndWorker(w)
  BY <1>3 DEF EndWorker
<1> QED
  BY <1>1, <1>2, <1>3 DEF Worker

LEMMA TypeStep == Typed /\ UsersLeft /\ [Next]_vars => Typed'
<1> SUFFICES ASSUME Typed, UsersLeft, [Next]_vars PROVE Typed'
  OBVIOUS
<1>1. CASE Tick
  BY <1>1 DEF Tick, Typed, TypeOK, AttemptsLeft, senderVars, serverVars, workerVars
<1>2. CASE UNCHANGED vars
  BY <1>2 DEF Typed, TypeOK, AttemptsLeft, vars, senderVars, serverVars, workerVars
<1> QED
  BY <1>1, <1>2, TypeMain, TypeRetrier, TypeServer, TypeReader, TypeWorker
     DEF Next, Terminating

\* What is not a step of main changes neither where it stands nor its counters.
LEMMA OnlyMain ==
  ASSUME [Next]_vars, ~Main
  PROVE  UNCHANGED <<main, users, first, noMore, readerOn, workerOn, running>>
  BY DEF Next, vars, senderVars, serverVars, workerVars, Tick, Terminating,
         Retrier, CheckRunning, Poll, NothingDue, PickDue, WriteRetry, CountRetry,
         Server, TestMore, TestSize, TestCounts, Dispatch,
         Reader, CheckReader, Collect, Log, EndPass,
         Worker, TakeRequest, Answer, EndWorker

LEMMA UsersLeftStep == UsersLeft /\ [Next]_vars => UsersLeft'
<1> SUFFICES ASSUME UsersLeft, [Next]_vars PROVE UsersLeft'
  OBVIOUS
<1>1. CASE Main
  BY <1>1 DEF UsersLeft, Main, MainLoad, MainWrite, MainCount, StopSender, JoinRetrier,
              JoinServer, JoinReader, StopWorker, Finish, senderVars
<1>2. CASE ~Main
  BY <1>2, OnlyMain DEF UsersLeft
<1> QED
  BY <1>1, <1>2

\* Every variable keeps its type; in particular no attempt in the journal is past
\* the last, so that the vectors of the aggregators are indexed within bounds.
THEOREM TypeCorrect == Spec => []TypeOK
<1>1. Init => Typed /\ UsersLeft
  BY TypeInit
<1>2. Typed /\ UsersLeft /\ [Next]_vars => Typed' /\ UsersLeft'
  BY TypeStep, UsersLeftStep
<1>3. Typed => TypeOK
  BY DEF Typed
<1> QED
  BY <1>1, <1>2, <1>3, PTL DEF Spec


-------------------------------------------------------------------------------
(* The ids.  Each of the two sending threads reads current_id_, writes a   *)
(* request with it and raises it; meanwhile the other may only raise it.   *)

\* What main has sent has smaller ids than what it sends next.
MainIds ==
  /\ main # "write" => first = {}
  /\ \A r, s \in first : r = s
  /\ \A r \in first : r.attempt = 0 /\ r.id <= currentId
  /\ \A s \in sent : s.attempt = 0 =>
       /\ s.id <= currentId
       /\ main # "write" /\ main # "count" => s.id < currentId
       /\ \A r \in first : s.id < r.id

\* The same of the thread that sends retries.
RetrierIds ==
  /\ retrier # "write" => next = {}
  /\ \A r, s \in next : r = s
  /\ \A r \in next : r.attempt # 0 /\ r.id <= currentId
  /\ \A s \in sent : s.attempt # 0 =>
       /\ s.id <= currentId
       /\ retrier # "write" /\ retrier # "count" => s.id < currentId
       /\ \A r \in next : s.id < r.id

Ids == MainIds /\ RetrierIds /\ TwinsDiffer

LEMMA IdsInit == Init => Ids
  BY DEF Init, SenderInit, Ids, MainIds, RetrierIds, TwinsDiffer

\* Ids that are compared are numbers.
LEMMA IdsType ==
  ASSUME TypeOK
  PROVE  /\ currentId \in Nat
         /\ \A r \in first \cup next \cup sent : r.id \in Nat /\ r.attempt \in Nat
         /\ \A r \in retries : r.attempt + 1 # 0
<1>1. \A r \in Request : r.id \in Nat /\ r.attempt \in Nat
  BY DEF Request, Attempts, LastAttempt
<1>2. \A r \in Retry : r.attempt + 1 # 0
  BY DEF Retry, Attempts, LastAttempt
<1> QED
  BY <1>1, <1>2 DEF TypeOK

LEMMA IdsStep == TypeOK /\ Ids /\ [Next]_vars => Ids'
<1> SUFFICES ASSUME TypeOK, Ids, [Next]_vars PROVE Ids'
  OBVIOUS
<1> USE IdsType DEF Ids, MainIds, RetrierIds, TwinsDiffer
<1>1. CASE MainLoad
  BY <1>1 DEF MainLoad
<1>2. CASE MainWrite
  <2>1. PICK r \in first : Write(r)
    BY <1>2 DEF MainWrite
  <2>2. first = {r} /\ r.attempt = 0 /\ sent' = sent \cup {r}
    BY <2>1 DEF Write
  <2> QED
    BY <1>2, <2>2 DEF MainWrite
<1>3. CASE MainCount
  BY <1>3 DEF MainCount
<1>4. CASE PickDue
  BY <1>4 DEF PickDue
<1>5. CASE WriteRetry
  <2>1. PICK r \in next : Write(r)
    BY <1>5 DEF WriteRetry
  <2>2. next = {r} /\ r.attempt # 0 /\ sent' = sent \cup {r}
    BY <2>1 DEF Write
  <2> QED
    BY <1>5, <2>2 DEF WriteRetry
<1>6. CASE CountRetry
  BY <1>6 DEF CountRetry
<1>7. CASE StopSender \/ JoinRetrier \/ JoinServer \/ JoinReader \/ Finish
            \/ \E w \in Workers : StopWorker(w)
  BY <1>7 DEF StopSender, JoinRetrier, JoinServer, JoinReader, Finish, StopWorker,
              senderVars
<1>8. CASE CheckRunning \/ Poll \/ NothingDue
  BY <1>8 DEF CheckRunning, Poll, NothingDue
<1>9. CASE Tick \/ Server \/ Reader \/ (\E w \in Workers : Worker(w)) \/ UNCHANGED vars
  <2>1. UNCHANGED <<main, first, retrier, next, currentId, sent>>
    BY <1>9 DEF vars, senderVars, Tick, Server, TestMore, TestSize, TestCounts, Dispatch,
                Reader, CheckReader, Collect, Log, EndPass,
                Worker, TakeRequest, Answer, EndWorker
  <2> QED
    BY <2>1
<1> QED
  BY <1>1, <1>2, <1>3, <1>4, <1>5, <1>6, <1>7, <1>8, <1>9
     DEF Next, Main, Retrier, Terminating

\* However the two sending threads interleave, two requests with the same id are
\* a first attempt and a retry.
THEOREM TwinsCorrect == Spec => []TwinsDiffer
<1>1. TypeOK /\ Ids /\ [Next]_vars => Ids'
  BY IdsStep
<1>2. Ids => TwinsDiffer
  BY DEF Ids
<1> QED
  BY <1>1, <1>2, IdsInit, TypeCorrect, PTL DEF Spec

-------------------------------------------------------------------------------
(* Every request is in one place at a time: the pipe to the server, the    *)
(* pipe to a worker, its limiter, the pipe from it, the hand of the reader *)
(* or the journal.                                                         *)

\* The request that a response or a line of the journal is about
Origin(a) == [id |-> a.id, user |-> a.user, attempt |-> a.attempt, ts |-> a.start]

itself == [r \in Request |-> r]
origin == [a \in Answers |-> Origin(a)]

\* What the items of a sequence or set carry, and that none is carried twice
Carried(s, f) == {f[s[i]] : i \in 1..Len(s)}
Once(s, f) == \A i, j \in 1..Len(s) : f[s[i]] = f[s[j]] => i = j
CarriedBy(S, f) == {f[a] : a \in S}
OnceBy(S, f) == \A a, b \in S : f[a] = f[b] => a = b

Places == {<<p, 0>> : p \in {"pipe", "reader", "journal"}}
            \cup {"in", "limiter", "out"} \X Workers

\* The requests in each place
at == [p \in Places |->
  CASE p[1] = "pipe" -> Carried(requestPipe, itself)
    [] p[1] = "in" -> Carried(inbox[p[2]], itself)
    [] p[1] = "limiter" -> CarriedBy(holding[p[2]], origin)
    [] p[1] = "out" -> Carried(outbox[p[2]], origin)
    [] p[1] = "reader" -> CarriedBy(held, origin)
    [] p[1] = "journal" -> {Origin(l) : l \in journal}]

\* No place has a request twice.
Distinct ==
  /\ Once(requestPipe, itself)
  /\ \A w \in Workers : /\ Once(inbox[w], itself)
                        /\ OnceBy(holding[w], origin)
                        /\ Once(outbox[w], origin)
  /\ \A a, b \in held : a = b
  /\ \A k, l \in journal : Origin(k) = Origin(l) => k = l

\* Requests are in places of their own, and together in all of them.
Partition(K, S) ==
  /\ \A p, q \in Places : \A r \in K[p] : r \in K[q] => p = q
  /\ \A p \in Places : K[p] \subseteq S
  /\ \A r \in S : \E p \in Places : r \in K[p]

Conserved == Distinct /\ Partition(at, sent)

\* The counters of the server, which two threads write.
Counted ==
  /\ IsFiniteSet(sent) /\ IsFiniteSet(journal)
  /\ Cardinality(journal) = Cardinality(at[<<"journal", 0>>])
  /\ received = Cardinality(sent \ at[<<"pipe", 0>>])
  /\ processed = Cardinality(journal) + (IF held = {} THEN 0 ELSE 1)

\* How far the shutdown has come: nobody sends once the server has been told so,
\* each test the dispatching thread has passed stays true, and main has joined
\* what it was to join.
Stages ==
  /\ noMore <=> main \in {"joinServer", "joinReader", "stopWorkers", "done"}
  /\ noMore => retrier = "done"
  /\ server \in {"size", "counts", "done"} => noMore
  /\ server \in {"counts", "done"} => requestPipe = <<>>
  /\ server = "done" => received = processed
  /\ main \in {"joinReader", "stopWorkers", "done"} => server = "done"
  /\ main \in {"stopWorkers", "done"} => reader = "done"
  /\ reader # "pass" => held = {}

-------------------------------------------------------------------------------
(* Moving a request from one place to another.                             *)

LEMMA Added ==
  ASSUME NEW S, NEW s \in Seq(S), NEW x \in S, NEW f, Once(s, f), f[x] \notin Carried(s, f)
  PROVE  Once(Append(s, x), f) /\ Carried(Append(s, x), f) = Carried(s, f) \cup {f[x]}
<1> DEFINE t == Append(s, x)
<1>1. Len(s) \in Nat /\ Len(t) = Len(s) + 1 /\ t[Len(s) + 1] = x
      /\ \A i \in 1..Len(s) : t[i] = s[i]
  OBVIOUS
<1>2. 1..Len(t) = 1..Len(s) \cup {Len(s) + 1}
  BY <1>1
<1> HIDE DEF t
<1>3. Carried(t, f) = Carried(s, f) \cup {f[x]}
  BY <1>1, <1>2 DEF Carried
<1>4. Once(t, f)
  BY <1>1, <1>2 DEF Once, Carried
<1> QED
  BY <1>3, <1>4 DEF t

LEMMA Removed ==
  ASSUME NEW S, NEW s \in Seq(S), s # <<>>, NEW f, Once(s, f)
  PROVE  /\ Once(Tail(s), f)
         /\ Carried(Tail(s), f) = Carried(s, f) \ {f[Head(s)]}
         /\ f[Head(s)] \in Carried(s, f)
<1> DEFINE t == Tail(s)
<1>1. Len(s) \in Nat \ {0} /\ Len(t) = Len(s) - 1 /\ Head(s) = s[1]
      /\ \A i \in 1..Len(t) : t[i] = s[i + 1]
  OBVIOUS
<1> HIDE DEF t
<1>2. Once(t, f)
  BY <1>1 DEF Once
<1>3. ASSUME NEW i \in 1..Len(t) PROVE f[t[i]] \in Carried(s, f) /\ f[t[i]] # f[s[1]]
  <2>1. i + 1 \in 1..Len(s) /\ 1 \in 1..Len(s) /\ i + 1 # 1
    BY <1>1
  <2> QED
    BY <1>1, <2>1 DEF Carried, Once
<1>4. ASSUME NEW i \in 1..Len(s), f[s[i]] # f[s[1]] PROVE f[s[i]] \in Carried(t, f)
  <2>1. i - 1 \in 1..Len(t)
    BY <1>1, <1>4
  <2>2. t[i - 1] = s[i]
    BY <1>1, <2>1
  <2> QED
    BY <2>1, <2>2 DEF Carried
<1>5. Carried(t, f) = Carried(s, f) \ {f[s[1]]}
  BY <1>3, <1>4 DEF Carried
<1>6. f[s[1]] \in Carried(s, f)
  BY <1>1 DEF Carried
<1> QED
  BY <1>1, <1>2, <1>5, <1>6 DEF t

LEMMA AddedTo ==
  ASSUME NEW S, NEW x, NEW f, OnceBy(S, f), f[x] \notin CarriedBy(S, f)
  PROVE  /\ OnceBy(S \cup {x}, f)
         /\ CarriedBy(S \cup {x}, f) = CarriedBy(S, f) \cup {f[x]}
  BY DEF OnceBy, CarriedBy

LEMMA RemovedFrom ==
  ASSUME NEW S, NEW x \in S, NEW f, OnceBy(S, f)
  PROVE  /\ OnceBy(S \ {x}, f)
         /\ CarriedBy(S \ {x}, f) = CarriedBy(S, f) \ {f[x]}
         /\ f[x] \in CarriedBy(S, f)
  BY DEF OnceBy, CarriedBy

\* A request leaves one place for another, or is new in one.
Moves(r, from, to) ==
  /\ from # to
  /\ r \in at[from]
  /\ \A p \in Places :
       at'[p] = IF p = from THEN at[p] \ {r}
                ELSE IF p = to THEN at[p] \cup {r} ELSE at[p]

Enters(r, to) ==
  \A p \in Places : at'[p] = IF p = to THEN at[p] \cup {r} ELSE at[p]

LEMMA Moved ==
  ASSUME Partition(at, sent), UNCHANGED sent,
         NEW from \in Places, NEW to \in Places, NEW r, Moves(r, from, to)
  PROVE  Partition(at', sent')
<1> USE DEF Partition, Moves
<1>1. ASSUME NEW p \in Places, NEW q \in Places, NEW x \in at'[p], x \in at'[q]
      PROVE  p = q
  <2>1. CASE x = r
    BY <1>1, <2>1
  <2>2. CASE x # r
    BY <1>1, <2>2
  <2> QED
    BY <2>1, <2>2
<1>2. ASSUME NEW p \in Places, NEW x \in at'[p] PROVE x \in sent
  BY r \in sent, at[p] \subseteq sent
<1>3. ASSUME NEW x \in sent PROVE \E p \in Places : x \in at'[p]
  <2>1. CASE x = r
    BY <2>1
  <2>2. CASE x # r
    <3>1. PICK p \in Places : x \in at[p]
      OBVIOUS
    <3>2. x \in at'[p]
      BY <2>2, <3>1
    <3> QED
      BY <3>2
  <2> QED
    BY <2>1, <2>2
<1> QED
  BY <1>1, <1>2, <1>3

LEMMA Entered ==
  ASSUME Partition(at, sent), NEW to \in Places, NEW r, r \notin sent,
         sent' = sent \cup {r}, Enters(r, to)
  PROVE  Partition(at', sent')
<1> USE DEF Partition, Enters
<1>1. \A p \in Places : r \notin at[p]
  OBVIOUS
<1>2. ASSUME NEW p \in Places, NEW q \in Places, NEW x \in at'[p], x \in at'[q]
      PROVE  p = q
  BY <1>1, <1>2
<1>3. \A p \in Places : at'[p] \subseteq sent'
  OBVIOUS
<1>4. ASSUME NEW x \in sent' PROVE \E p \in Places : x \in at'[p]
  <2>1. CASE x = r
    BY <2>1
  <2>2. CASE x \in sent
    <3>1. PICK p \in Places : x \in at[p]
      BY <2>2
    <3>2. x \in at'[p]
      BY <3>1
    <3> QED
      BY <3>2
  <2> QED
    BY <2>1, <2>2
<1> QED
  BY <1>2, <1>3, <1>4

-------------------------------------------------------------------------------
(* Every request is in one place.                                          *)

AtFacts ==
  /\ at[<<"pipe", 0>>] = Carried(requestPipe, itself)
  /\ at[<<"reader", 0>>] = CarriedBy(held, origin)
  /\ at[<<"journal", 0>>] = {Origin(l) : l \in journal}
  /\ \A w \in Workers : /\ at[<<"in", w>>] = Carried(inbox[w], itself)
                        /\ at[<<"limiter", w>>] = CarriedBy(holding[w], origin)
                        /\ at[<<"out", w>>] = Carried(outbox[w], origin)

LEMMA At == AtFacts /\ AtFacts'
  BY DEF AtFacts, at, Places

LEMMA Kept ==
  /\ requestPipe' = requestPipe => at'[<<"pipe", 0>>] = at[<<"pipe", 0>>]
  /\ held' = held => at'[<<"reader", 0>>] = at[<<"reader", 0>>]
  /\ journal' = journal => at'[<<"journal", 0>>] = at[<<"journal", 0>>]
  /\ \A w \in Workers :
       /\ inbox'[w] = inbox[w] => at'[<<"in", w>>] = at[<<"in", w>>]
       /\ holding'[w] = holding[w] => at'[<<"limiter", w>>] = at[<<"limiter", w>>]
       /\ outbox'[w] = outbox[w] => at'[<<"out", w>>] = at[<<"out", w>>]
  BY At DEF AtFacts

LEMMA PlaceCases ==
  ASSUME NEW p \in Places
  PROVE  \/ p = <<"pipe", 0>> \/ p = <<"reader", 0>> \/ p = <<"journal", 0>>
         \/ \E w \in Workers : p = <<"in", w>>
         \/ \E w \in Workers : p = <<"limiter", w>>
         \/ \E w \in Workers : p = <<"out", w>>
  BY DEF Places

LEMMA ArePlaces ==
  /\ <<"pipe", 0>> \in Places /\ <<"reader", 0>> \in Places /\ <<"journal", 0>> \in Places
  /\ \A w \in Workers : /\ <<"in", w>> \in Places /\ <<"limiter", w>> \in Places
                        /\ <<"out", w>> \in Places
  BY DEF Places

LEMMA OriginFacts ==
  /\ \A r \in Request : itself[r] = r
  /\ \A a \in Answers : origin[a] = Origin(a) /\ Origin(LogLine(a)) = Origin(a)
  BY DEF itself, origin, Origin, LogLine

LEMMA RejectionOrigin ==
  ASSUME now \in Nat, NEW r \in Request PROVE origin[Rejection(r)] = r
<1>1. r = [id |-> r.id, user |-> r.user, attempt |-> r.attempt, ts |-> r.ts]
  BY DEF Request
<1> QED
  BY <1>1, RejectionType, OriginFacts DEF Origin, Rejection

LEMMA AdmissionOrigin ==
  ASSUME now \in Nat, NEW a \in Answers PROVE origin[Admission(a)] = origin[a]
<1>1. /\ Admission(a).id = a.id /\ Admission(a).user = a.user
      /\ Admission(a).attempt = a.attempt /\ Admission(a).start = a.start
  BY DEF Admission, Answers, Response
<1>2. origin[Admission(a)] = Origin(Admission(a)) /\ origin[a] = Origin(a)
  BY AdmissionType, OriginFacts
<1> QED
  BY <1>1, <1>2 DEF Origin

LEMMA ConservedInit == Init => Conserved
<1> SUFFICES ASSUME Init PROVE Conserved
  OBVIOUS
<1>1. /\ requestPipe = <<>> /\ held = {} /\ journal = {} /\ sent = {}
      /\ \A w \in Workers : inbox[w] = <<>> /\ holding[w] = {} /\ outbox[w] = <<>>
  BY DEF Init, ServerInit, WorkersInit
<1>2. \A f : Carried(<<>>, f) = {} /\ Once(<<>>, f) /\ CarriedBy({}, f) = {} /\ OnceBy({}, f)
  BY DEF Carried, Once, CarriedBy, OnceBy
<1>3. Distinct
  BY <1>1, <1>2 DEF Distinct
<1>4. \A p \in Places : at[p] = {}
  <2>1. AtFacts
    BY At
  <2>2. /\ Carried(<<>>, itself) = {} /\ Carried(<<>>, origin) = {}
        /\ CarriedBy({}, origin) = {}
    BY <1>2
  <2> QED
    BY <1>1, <2>1, <2>2, PlaceCases DEF AtFacts
<1> QED
  BY <1>1, <1>3, <1>4 DEF Conserved, Partition

\* Only these steps concern the places.
LEMMA Unmoved ==
  ASSUME Conserved, UNCHANGED <<requestPipe, inbox, holding, outbox, held, journal, sent>>
  PROVE  Conserved' /\ at' = at
<1>1. at' = at
  BY DEF at
<1> QED
  BY <1>1 DEF Conserved, Distinct, Partition

LEMMA WriteMoves ==
  ASSUME Typed, Conserved, NEW r \in Request, r \notin sent, Write(r),
         UNCHANGED <<inbox, holding, outbox, held, journal>>
  PROVE  Conserved' /\ at'[<<"pipe", 0>>] = at[<<"pipe", 0>>] \cup {r}
<1>1. r \notin at[<<"pipe", 0>>]
  BY ArePlaces DEF Conserved, Partition
<1>2. /\ Once(requestPipe', itself)
      /\ at'[<<"pipe", 0>>] = at[<<"pipe", 0>>] \cup {r}
  <2>1. requestPipe \in Seq(Request) /\ requestPipe' = Append(requestPipe, r)
    BY DEF Write, Typed, TypeOK
  <2>2. Once(requestPipe, itself) /\ itself[r] \notin Carried(requestPipe, itself)
    BY <1>1, OriginFacts, At DEF Conserved, Distinct, AtFacts
  <2> QED
    BY <2>1, <2>2, Added, OriginFacts, At DEF AtFacts
<1>3. Enters(r, <<"pipe", 0>>)
  <2>1. \A p \in Places : p # <<"pipe", 0>> => at'[p] = at[p]
    BY Kept, PlaceCases
  <2> QED
    BY <1>2, <2>1 DEF Enters
<1>4. Partition(at', sent')
  BY <1>3, Entered, ArePlaces DEF Conserved, Write
<1> QED
  BY <1>2, <1>4 DEF Conserved, Distinct

LEMMA DispatchMoves ==
  ASSUME Typed, Conserved, Dispatch, requestPipe # <<>>
  PROVE  /\ Conserved' /\ Head(requestPipe) \in at[<<"pipe", 0>>]
         /\ at'[<<"pipe", 0>>] = at[<<"pipe", 0>>] \ {Head(requestPipe)}
<1> DEFINE r == Head(requestPipe)
<1>1. r \in Request
  BY SequenceFacts DEF Typed, TypeOK
<1>2. PICK w \in Workers : inbox' = [inbox EXCEPT ![w] = Append(@, r)]
  BY DEF Dispatch
<1>3. /\ Once(requestPipe', itself)
      /\ at'[<<"pipe", 0>>] = at[<<"pipe", 0>>] \ {r} /\ r \in at[<<"pipe", 0>>]
  <2>1. requestPipe \in Seq(Request) /\ requestPipe' = Tail(requestPipe)
    BY DEF Dispatch, Typed, TypeOK
  <2>2. Once(requestPipe, itself)
    BY DEF Conserved, Distinct
  <2> QED
    BY <1>1, <2>1, <2>2, Removed, OriginFacts, At DEF AtFacts
<1> HIDE DEF r
<1>4. r \notin at[<<"in", w>>]
  BY <1>3, ArePlaces, <<"pipe", 0>> # <<"in", w>> DEF Conserved, Partition
<1>5. Once(inbox'[w], itself) /\ at'[<<"in", w>>] = at[<<"in", w>>] \cup {r}
  <2>1. inbox[w] \in Seq(Request) /\ inbox'[w] = Append(inbox[w], r)
    BY <1>2 DEF Typed, TypeOK
  <2>2. Once(inbox[w], itself) /\ itself[r] \notin Carried(inbox[w], itself)
    BY <1>1, <1>4, OriginFacts, At DEF Conserved, Distinct, AtFacts
  <2>3. /\ Once(Append(inbox[w], r), itself)
        /\ Carried(Append(inbox[w], r), itself) = Carried(inbox[w], itself) \cup {r}
    BY <1>1, <2>1, <2>2, Added, OriginFacts
  <2> QED
    BY <2>1, <2>3, At DEF AtFacts
<1>6. \A v \in Workers \ {w} : inbox'[v] = inbox[v]
  BY <1>2 DEF Typed, TypeOK
<1>7. UNCHANGED <<holding, outbox, held, journal, sent>>
  BY DEF Dispatch
<1>8. Moves(r, <<"pipe", 0>>, <<"in", w>>)
  <2>1. \A p \in Places : p # <<"pipe", 0>> /\ p # <<"in", w>> => at'[p] = at[p]
    BY <1>6, <1>7, Kept, PlaceCases
  <2> QED
    BY <1>3, <1>5, <2>1 DEF Moves
<1>9. Partition(at', sent')
  BY <1>7, <1>8, Moved, ArePlaces DEF Conserved
<1>10. Distinct'
  BY <1>3, <1>5, <1>6, <1>7 DEF Conserved, Distinct
<1> QED
  BY <1>3, <1>9, <1>10 DEF Conserved, r


LEMMA TakeMoves ==
  ASSUME Typed, Conserved, NEW w \in Workers, TakeRequest(w)
  PROVE  Conserved' /\ at'[<<"pipe", 0>>] = at[<<"pipe", 0>>]
<1> DEFINE r == Head(inbox[w])
<1>1. /\ inbox[w] \in Seq(Request) /\ inbox[w] # <<>> /\ inbox'[w] = Tail(inbox[w])
      /\ holding'[w] = holding[w] \cup {Rejection(r)} /\ now \in Nat
  BY DEF TakeRequest, Typed, TypeOK
<1>2. \A v \in Workers \ {w} : inbox'[v] = inbox[v] /\ holding'[v] = holding[v]
  BY DEF TakeRequest, Typed, TypeOK
<1>3. UNCHANGED <<requestPipe, outbox, held, journal, sent>>
  BY DEF TakeRequest, serverVars
<1>4. r \in Request
  BY <1>1, SequenceFacts
<1>5. /\ Once(inbox'[w], itself)
      /\ at'[<<"in", w>>] = at[<<"in", w>>] \ {r} /\ r \in at[<<"in", w>>]
  <2>1. Once(inbox[w], itself)
    BY DEF Conserved, Distinct
  <2>2. /\ Once(Tail(inbox[w]), itself)
        /\ Carried(Tail(inbox[w]), itself) = Carried(inbox[w], itself) \ {itself[r]}
        /\ itself[r] \in Carried(inbox[w], itself)
    BY <1>1, <2>1, Removed
  <2> QED
    BY <1>1, <1>4, <2>2, OriginFacts, At DEF AtFacts
<1> HIDE DEF r
<1>6. r \notin at[<<"limiter", w>>]
  BY <1>5, ArePlaces, <<"in", w>> # <<"limiter", w>> DEF Conserved, Partition
<1>7. /\ OnceBy(holding'[w], origin)
      /\ at'[<<"limiter", w>>] = at[<<"limiter", w>>] \cup {r}
  <2>1. origin[Rejection(r)] = r
    BY <1>1, <1>4, RejectionOrigin
  <2>2. OnceBy(holding[w], origin) /\ origin[Rejection(r)] \notin CarriedBy(holding[w], origin)
    BY <1>6, <2>1, At DEF Conserved, Distinct, AtFacts
  <2>3. /\ OnceBy(holding[w] \cup {Rejection(r)}, origin)
        /\ CarriedBy(holding[w] \cup {Rejection(r)}, origin)
             = CarriedBy(holding[w], origin) \cup {origin[Rejection(r)]}
    BY <2>2, AddedTo
  <2> QED
    BY <1>1, <2>1, <2>3, At DEF AtFacts
<1>8. Moves(r, <<"in", w>>, <<"limiter", w>>)
  <2>1. \A p \in Places : p # <<"in", w>> /\ p # <<"limiter", w>> => at'[p] = at[p]
    BY <1>2, <1>3, Kept, PlaceCases
  <2> QED
    BY <1>5, <1>7, <2>1 DEF Moves
<1>9. Partition(at', sent')
  BY <1>3, <1>8, Moved, ArePlaces DEF Conserved
<1>10. Distinct'
  BY <1>2, <1>3, <1>5, <1>7 DEF Conserved, Distinct
<1> QED
  BY <1>3, <1>9, <1>10, Kept DEF Conserved

LEMMA AnswerMoves ==
  ASSUME Typed, Conserved, NEW w \in Workers, Answer(w)
  PROVE  Conserved' /\ at'[<<"pipe", 0>>] = at[<<"pipe", 0>>]
<1>1. PICK a \in holding[w] :
        /\ holding' = [holding EXCEPT ![w] = @ \ {a}]
        /\ \E answer \in {a, Admission(a)} :
             outbox' = [outbox EXCEPT ![w] = Append(@, answer)]
  BY DEF Answer
<1>2. PICK answer \in {a, Admission(a)} :
        outbox' = [outbox EXCEPT ![w] = Append(@, answer)]
  BY <1>1
<1> DEFINE r == origin[a]
<1>3. a \in Answers /\ now \in Nat
  BY DEF Typed, TypeOK, AttemptsLeft
<1>4. answer \in Answers /\ origin[answer] = r
  BY <1>2, <1>3, AdmissionType, AdmissionOrigin
<1>5. /\ outbox[w] \in Seq(Answers) /\ outbox'[w] = Append(outbox[w], answer)
      /\ holding'[w] = holding[w] \ {a}
      /\ \A v \in Workers \ {w} : outbox'[v] = outbox[v] /\ holding'[v] = holding[v]
  BY <1>1, <1>2 DEF Typed, TypeOK, AttemptsLeft
<1>6. UNCHANGED <<requestPipe, inbox, held, journal, sent>>
  BY DEF Answer, serverVars
<1>7. /\ OnceBy(holding'[w], origin)
      /\ at'[<<"limiter", w>>] = at[<<"limiter", w>>] \ {r} /\ r \in at[<<"limiter", w>>]
  <2>1. OnceBy(holding[w], origin)
    BY DEF Conserved, Distinct
  <2>2. /\ OnceBy(holding[w] \ {a}, origin) /\ r \in CarriedBy(holding[w], origin)
        /\ CarriedBy(holding[w] \ {a}, origin) = CarriedBy(holding[w], origin) \ {r}
    BY <2>1, RemovedFrom
  <2> QED
    BY <1>5, <2>2, At DEF AtFacts
<1> HIDE DEF r
<1>8. r \notin at[<<"out", w>>]
  BY <1>7, ArePlaces, <<"out", w>> # <<"limiter", w>> DEF Conserved, Partition
<1>9. Once(outbox'[w], origin) /\ at'[<<"out", w>>] = at[<<"out", w>>] \cup {r}
  <2>1. Once(outbox[w], origin) /\ origin[answer] \notin Carried(outbox[w], origin)
    BY <1>4, <1>8, At DEF Conserved, Distinct, AtFacts
  <2>2. /\ Once(Append(outbox[w], answer), origin)
        /\ Carried(Append(outbox[w], answer), origin) = Carried(outbox[w], origin) \cup {r}
    BY <1>4, <1>5, <2>1, Added
  <2> QED
    BY <1>5, <2>2, At DEF AtFacts
<1>10. Moves(r, <<"limiter", w>>, <<"out", w>>)
  <2>1. \A p \in Places : p # <<"limiter", w>> /\ p # <<"out", w>> => at'[p] = at[p]
    BY <1>5, <1>6, Kept, PlaceCases
  <2> QED
    BY <1>7, <1>9, <2>1 DEF Moves
<1>11. Partition(at', sent')
  BY <1>6, <1>10, Moved, ArePlaces DEF Conserved
<1>12. Distinct'
  BY <1>5, <1>6, <1>7, <1>9 DEF Conserved, Distinct
<1> QED
  BY <1>6, <1>11, <1>12, Kept DEF Conserved

\* The response the reader holds leaves the outbox only when there is none.
LEMMA CollectMoves ==
  ASSUME Typed, Conserved, NEW w \in Workers, Collect(w), outbox[w] # <<>>
  PROVE  Conserved' /\ at'[<<"pipe", 0>>] = at[<<"pipe", 0>>] /\ at[<<"out", w>>] # {}
<1> DEFINE a == Head(outbox[w])
           r == origin[a]
<1>1. /\ outbox[w] \in Seq(Answers) /\ outbox'[w] = Tail(outbox[w])
      /\ held = {} /\ held' = {a}
      /\ \A v \in Workers \ {w} : outbox'[v] = outbox[v]
  BY DEF Collect, Typed, TypeOK, AttemptsLeft
<1>2. UNCHANGED <<requestPipe, inbox, holding, journal, sent>>
  BY DEF Collect
<1>3. a \in Answers
  BY <1>1, SequenceFacts
<1>4. /\ Once(outbox'[w], origin)
      /\ at'[<<"out", w>>] = at[<<"out", w>>] \ {r} /\ r \in at[<<"out", w>>]
  <2>1. Once(outbox[w], origin)
    BY DEF Conserved, Distinct
  <2>2. /\ Once(Tail(outbox[w]), origin)
        /\ Carried(Tail(outbox[w]), origin) = Carried(outbox[w], origin) \ {r}
        /\ r \in Carried(outbox[w], origin)
    BY <1>1, <2>1, Removed
  <2> QED
    BY <1>1, <2>2, At DEF AtFacts
<1>5. at'[<<"reader", 0>>] = at[<<"reader", 0>>] \cup {r}
  BY <1>1, At DEF AtFacts, CarriedBy
<1>6. Moves(r, <<"out", w>>, <<"reader", 0>>)
  <2> HIDE DEF a, r
  <2>1. \A p \in Places : p # <<"out", w>> /\ p # <<"reader", 0>> => at'[p] = at[p]
    BY <1>1, <1>2, Kept, PlaceCases
  <2> QED
    BY <1>4, <1>5, <2>1 DEF Moves
<1>7. Partition(at', sent')
  BY <1>2, <1>6, Moved, ArePlaces DEF Conserved
<1>8. Distinct'
  BY <1>1, <1>2, <1>4 DEF Conserved, Distinct
<1> QED
  BY <1>2, <1>4, <1>7, <1>8, Kept DEF Conserved

LEMMA LogMoves ==
  ASSUME Typed, Conserved, Log
  PROVE  /\ Conserved' /\ at'[<<"pipe", 0>>] = at[<<"pipe", 0>>]
         /\ \E line, r : /\ line \notin journal /\ journal' = journal \cup {line}
                         /\ r \notin at[<<"journal", 0>>]
                         /\ at'[<<"journal", 0>>] = at[<<"journal", 0>>] \cup {r}
         /\ held # {} /\ held' = {}
<1>1. PICK a \in held : journal' = journal \cup {LogLine(a)}
  BY DEF Log
<1>2. UNCHANGED <<requestPipe, inbox, holding, outbox, sent>> /\ held' = {}
  BY DEF Log, workerVars
<1>3. a \in Answers /\ held = {a}
  BY DEF Typed, AttemptsLeft, Conserved, Distinct
<1> DEFINE r == Origin(a)
<1>4. at[<<"reader", 0>>] = {r} /\ at'[<<"reader", 0>>] = {}
  BY <1>2, <1>3, OriginFacts, At DEF AtFacts, CarriedBy
<1>5. at'[<<"journal", 0>>] = at[<<"journal", 0>>] \cup {r}
  BY <1>1, <1>3, OriginFacts, At DEF AtFacts
<1> HIDE DEF r
<1>6. r \notin at[<<"journal", 0>>]
  BY <1>4, ArePlaces DEF Conserved, Partition
<1>7. \A l \in journal : Origin(l) # r
  BY <1>6, At DEF AtFacts
<1>8. Origin(LogLine(a)) = r
  BY <1>3, OriginFacts DEF r
<1>9. Moves(r, <<"reader", 0>>, <<"journal", 0>>)
  <2>1. \A p \in Places : p # <<"reader", 0>> /\ p # <<"journal", 0>> => at'[p] = at[p]
    BY <1>2, Kept, PlaceCases
  <2> QED
    BY <1>4, <1>5, <2>1 DEF Moves
<1>10. Partition(at', sent')
  BY <1>2, <1>9, Moved, ArePlaces DEF Conserved
<1>11. Distinct'
  BY <1>1, <1>2, <1>7, <1>8 DEF Conserved, Distinct
<1> QED
  <2>1. LogLine(a) \notin journal
    BY <1>7, <1>8
  <2> QED
    BY <1>1, <1>2, <1>3, <1>5, <1>6, <1>10, <1>11, <2>1, Kept DEF Conserved


placeVars == <<requestPipe, inbox, holding, outbox, held, journal, sent, received, processed>>

\* The steps that concern the places or the counters.
LEMMA Steps ==
  ASSUME [Next]_vars
  PROVE  \/ MainWrite \/ WriteRetry \/ Log
         \/ Dispatch /\ requestPipe # <<>>
         \/ \E w \in Workers : TakeRequest(w) \/ Answer(w)
         \/ \E w \in Workers : Collect(w) /\ outbox[w] # <<>>
         \/ UNCHANGED placeVars
<1> USE DEF placeVars
<1>1. CASE Tick \/ UNCHANGED vars
  BY <1>1 DEF Tick, vars, senderVars, serverVars, workerVars
<1>2. CASE Main
  BY <1>2 DEF Main, MainLoad, MainCount, StopSender, JoinRetrier, JoinServer, JoinReader,
              StopWorker, Finish, senderVars, serverVars, workerVars
<1>3. CASE Retrier
  BY <1>3 DEF Retrier, CheckRunning, Poll, NothingDue, PickDue, CountRetry, serverVars,
              workerVars
<1>4. CASE Server
  BY <1>4 DEF Server, TestMore, TestSize, TestCounts, Dispatch, workerVars
<1>5. CASE Reader
  <2>1. ASSUME NEW w \in Workers, Collect(w), outbox[w] = <<>> PROVE UNCHANGED placeVars
    BY <2>1 DEF Collect
  <2>2. CASE CheckReader \/ EndPass
    BY <2>2 DEF CheckReader, EndPass, workerVars
  <2> QED
    BY <1>5, <2>1, <2>2 DEF Reader
<1>6. CASE \E w \in Workers : Worker(w)
  <2>1. ASSUME NEW w \in Workers, EndWorker(w) PROVE UNCHANGED placeVars
    BY <2>1 DEF EndWorker, serverVars
  <2> QED
    BY <1>6, <2>1 DEF Worker
<1> HIDE DEF placeVars
<1> QED
  BY <1>1, <1>2, <1>3, <1>4, <1>5, <1>6 DEF Next, Terminating

\* What is sent was not sent before, for it has an id of its own.
LEMMA SentNew ==
  ASSUME Typed, Ids, MainWrite \/ WriteRetry
  PROVE  /\ \E r \in Request : r \notin sent /\ Write(r)
         /\ UNCHANGED <<inbox, holding, outbox, held, journal, received, processed>>
<1>1. CASE MainWrite
  <2>1. PICK r \in first : Write(r)
    BY <1>1 DEF MainWrite
  <2>2. r \notin sent /\ r \in Request
    BY IdsType DEF Typed, TypeOK, Ids, MainIds
  <2> QED
    BY <1>1, <2>1, <2>2 DEF MainWrite, serverVars, workerVars
<1>2. CASE WriteRetry
  <2>1. PICK r \in next : Write(r)
    BY <1>2 DEF WriteRetry
  <2>2. r \notin sent /\ r \in Request
    BY IdsType DEF Typed, TypeOK, Ids, RetrierIds
  <2> QED
    BY <1>2, <2>1, <2>2 DEF WriteRetry, serverVars, workerVars
<1> QED
  BY <1>1, <1>2

LEMMA ConservedStep == Typed /\ Ids /\ Conserved /\ [Next]_vars => Conserved'
<1> SUFFICES ASSUME Typed, Ids, Conserved, [Next]_vars PROVE Conserved'
  OBVIOUS
<1>1. CASE MainWrite \/ WriteRetry
  BY <1>1, SentNew, WriteMoves
<1>2. CASE UNCHANGED placeVars
  BY <1>2, Unmoved DEF placeVars
<1> QED
  BY <1>1, <1>2, Steps, DispatchMoves, TakeMoves, AnswerMoves, CollectMoves, LogMoves

LEMMA CountedInit == Init => Counted
<1> SUFFICES ASSUME Init PROVE Counted
  OBVIOUS
<1>1. journal = {} /\ sent = {} /\ held = {} /\ received = 0 /\ processed = 0
  BY DEF Init, ServerInit
<1>2. at[<<"journal", 0>>] = {}
  BY <1>1, At DEF AtFacts
<1> QED
  BY <1>1, <1>2, FS_EmptySet DEF Counted

LEMMA CountedStep == Typed /\ Ids /\ Conserved /\ Counted /\ [Next]_vars => Counted'
<1> SUFFICES ASSUME Typed, Ids, Conserved, Counted, [Next]_vars PROVE Counted'
  OBVIOUS
<1> DEFINE pipe == <<"pipe", 0>>
           logged == <<"journal", 0>>
<1>1. CASE MainWrite \/ WriteRetry
  <2>1. PICK r \in Request : r \notin sent /\ Write(r)
    BY <1>1, SentNew
  <2>2. UNCHANGED <<inbox, holding, outbox, held, journal, received, processed>>
    BY <1>1, SentNew
  <2>3. at'[pipe] = at[pipe] \cup {r} /\ at'[logged] = at[logged]
    BY <2>1, <2>2, WriteMoves, Kept
  <2>4. sent' = sent \cup {r} /\ sent' \ at'[pipe] = sent \ at[pipe]
    BY <2>1, <2>3 DEF Write
  <2>5. IsFiniteSet(sent')
    BY <2>4, FS_AddElement DEF Counted
  <2> QED
    BY <2>2, <2>3, <2>4, <2>5 DEF Counted
<1>2. CASE Dispatch /\ requestPipe # <<>>
  <2>1. PICK r : r \in at[pipe] /\ at'[pipe] = at[pipe] \ {r}
    BY <1>2, DispatchMoves
  <2>2. /\ received' = received + 1
        /\ UNCHANGED <<held, journal, processed, sent>> /\ at'[logged] = at[logged]
    BY <1>2, Kept DEF Dispatch
  <2>3. at[pipe] \subseteq sent
    BY ArePlaces DEF Conserved, Partition
  <2>4. sent' \ at'[pipe] = (sent \ at[pipe]) \cup {r} /\ r \notin sent \ at[pipe]
    BY <2>1, <2>2, <2>3
  <2>5. IsFiniteSet(sent \ at[pipe])
    BY FS_Subset DEF Counted
  <2>6. Cardinality(sent' \ at'[pipe]) = Cardinality(sent \ at[pipe]) + 1
    BY <2>4, <2>5, FS_AddElement
  <2> QED
    BY <2>2, <2>6 DEF Counted
<1>3. ASSUME NEW w \in Workers, TakeRequest(w) \/ Answer(w) PROVE Counted'
  <2>1. at'[pipe] = at[pipe]
    BY <1>3, TakeMoves, AnswerMoves
  <2>2. UNCHANGED <<held, journal, received, processed, sent>> /\ at'[logged] = at[logged]
    BY <1>3, Kept DEF TakeRequest, Answer, serverVars
  <2> QED
    BY <2>1, <2>2 DEF Counted
<1>4. ASSUME NEW w \in Workers, Collect(w), outbox[w] # <<>> PROVE Counted'
  <2>1. at'[pipe] = at[pipe]
    BY <1>4, CollectMoves
  <2>2. /\ UNCHANGED <<journal, received, sent>> /\ at'[logged] = at[logged]
        /\ processed' = processed + 1 /\ held = {} /\ held' # {}
    BY <1>4, Kept DEF Collect
  <2>3. Cardinality(journal) \in Nat
    BY FS_CardinalityType DEF Counted
  <2> QED
    BY <2>1, <2>2, <2>3 DEF Counted
<1>5. CASE Log
  <2>1. PICK line, r : /\ line \notin journal /\ journal' = journal \cup {line}
                       /\ r \notin at[logged] /\ at'[logged] = at[logged] \cup {r}
    BY <1>5, LogMoves
  <2>2. held # {} /\ held' = {} /\ at'[pipe] = at[pipe]
    BY <1>5, LogMoves
  <2>3. UNCHANGED <<received, processed, sent>>
    BY <1>5 DEF Log
  <2>4. at[logged] \subseteq sent
    BY ArePlaces DEF Conserved, Partition
  <2>5. IsFiniteSet(at[logged])
    BY <2>4, FS_Subset DEF Counted
  <2>6. /\ IsFiniteSet(journal') /\ Cardinality(journal') = Cardinality(journal) + 1
        /\ Cardinality(at'[logged]) = Cardinality(at[logged]) + 1
    BY <2>1, <2>5, FS_AddElement DEF Counted
  <2>7. Cardinality(journal) \in Nat
    BY FS_CardinalityType DEF Counted
  <2> QED
    BY <2>2, <2>3, <2>6, <2>7 DEF Counted
<1>6. CASE UNCHANGED placeVars
  <2>1. at' = at
    BY <1>6, Unmoved DEF placeVars
  <2> QED
    BY <1>6, <2>1 DEF Counted, placeVars
<1> QED
  BY <1>1, <1>2, <1>3, <1>4, <1>5, <1>6, Steps


-------------------------------------------------------------------------------
(* The shutdown.                                                           *)

\* Once the dispatching thread is done, and when the reader holds nothing, every
\* request is in the journal.
LEMMA AllLogged ==
  ASSUME Conserved, Counted, Stages, server = "done", held = {}
  PROVE  at[<<"journal", 0>>] = sent /\ Cardinality(journal) = Cardinality(sent)
<1>1. at[<<"pipe", 0>>] = {}
  BY At DEF Stages, AtFacts, Carried
<1>2. Cardinality(journal) = Cardinality(sent)
  <2>1. sent \ at[<<"pipe", 0>>] = sent
    BY <1>1
  <2>2. received = Cardinality(sent)
    BY <2>1 DEF Counted
  <2>3. Cardinality(journal) \in Nat
    BY FS_CardinalityType DEF Counted
  <2>4. processed = Cardinality(journal)
    BY <2>3 DEF Counted
  <2> QED
    BY <2>2, <2>4 DEF Stages
<1>3. at[<<"journal", 0>>] \subseteq sent
  BY ArePlaces DEF Conserved, Partition
<1> QED
  BY <1>2, <1>3, FS_Subset DEF Counted

\* So nothing is left to collect.
LEMMA NothingLeft ==
  ASSUME Typed, Conserved, Counted, Stages, NEW w \in Workers, Collect(w), outbox[w] # <<>>
  PROVE  server # "done"
<1> SUFFICES ASSUME server = "done" PROVE FALSE
  OBVIOUS
<1>1. at[<<"journal", 0>>] = sent
  BY AllLogged DEF Collect
<1>2. PICK r : r \in at[<<"out", w>>]
  BY CollectMoves
<1>3. r \in at[<<"journal", 0>>]
  BY <1>1, <1>2, ArePlaces DEF Conserved, Partition
<1> QED
  BY <1>2, <1>3, ArePlaces, <<"out", w>> # <<"journal", 0>> DEF Conserved, Partition

LEMMA StagesInit == Init => Stages
  BY DEF Init, SenderInit, ServerInit, Stages

LEMMA StagesStep == Typed /\ Conserved /\ Counted /\ Stages /\ [Next]_vars => Stages'
<1> SUFFICES ASSUME Typed, Conserved, Counted, Stages, [Next]_vars PROVE Stages'
  OBVIOUS
<1>1. CASE Main
  <2>1. ASSUME NEW w \in Workers, StopWorker(w) PROVE Stages'
    BY <2>1 DEF Stages, StopWorker, senderVars, serverVars
  <2>2. CASE MainLoad \/ MainWrite \/ MainCount \/ StopSender
    BY <2>2 DEF Stages, MainLoad, MainWrite, MainCount, StopSender, serverVars
  <2>3. CASE JoinRetrier \/ JoinServer \/ JoinReader \/ Finish
    BY <2>3 DEF Stages, JoinRetrier, JoinServer, JoinReader, Finish, senderVars, serverVars
  <2> QED
    BY <1>1, <2>1, <2>2, <2>3 DEF Main
<1>2. CASE Retrier
  BY <1>2 DEF Stages, Retrier, CheckRunning, Poll, NothingDue, PickDue, WriteRetry,
              CountRetry, serverVars
<1>3. CASE Server
  <2>1. CASE Dispatch
    BY <2>1 DEF Stages, Dispatch, senderVars
  <2>2. CASE TestMore \/ TestSize \/ TestCounts
    BY <2>2 DEF Stages, TestMore, TestSize, TestCounts, AllProcessed, senderVars
  <2> QED
    BY <1>3, <2>1, <2>2 DEF Server
<1>4. CASE Reader
  <2>1. ASSUME NEW w \in Workers, Collect(w) PROVE Stages'
    <3>1. CASE outbox[w] # <<>>
      BY <2>1, <3>1, NothingLeft DEF Stages, Collect, senderVars
    <3>2. CASE outbox[w] = <<>>
      BY <2>1, <3>2 DEF Stages, Collect, senderVars
    <3> QED
      BY <3>1, <3>2
  <2>2. CASE CheckReader \/ Log \/ EndPass
    BY <2>2 DEF Stages, CheckReader, Log, EndPass, senderVars
  <2> QED
    BY <1>4, <2>1, <2>2 DEF Reader
<1>5. CASE Tick \/ UNCHANGED vars \/ \E w \in Workers : Worker(w)
  BY <1>5 DEF Stages, Tick, vars, Worker, TakeRequest, Answer, EndWorker, senderVars,
              serverVars
<1> QED
  BY <1>1, <1>2, <1>3, <1>4, <1>5 DEF Next, Terminating

LEMMA Invariance == Spec => [](Typed /\ Conserved /\ Counted /\ Stages)
<1> DEFINE Inv == Typed /\ UsersLeft /\ Ids /\ Conserved /\ Counted /\ Stages
<1>1. Init => Inv
  BY TypeInit, IdsInit, ConservedInit, CountedInit, StagesInit
<1>2. Inv /\ [Next]_vars => Inv'
  <2>1. Typed => TypeOK
    BY DEF Typed
  <2> QED
    BY <2>1, TypeStep, UsersLeftStep, IdsStep, ConservedStep, CountedStep, StagesStep
<1> QED
  BY <1>1, <1>2, PTL DEF Spec

\* When wait() has returned, the journal holds exactly one line for every request
\* that was ever sent, and the server has counted as many.
THEOREM JournalCorrect == Spec => []JournalComplete
<1>1. Typed /\ Conserved /\ Counted /\ Stages => JournalComplete
  <2> SUFFICES ASSUME Typed, Conserved, Counted, Stages, main \in {"stopWorkers", "done"}
               PROVE  /\ {Origin(l) : l \in journal} = sent
                      /\ Cardinality(journal) = Cardinality(sent)
                      /\ processed = Cardinality(sent)
    BY DEF JournalComplete, Origin
  <2>1. server = "done" /\ held = {}
    BY DEF Stages
  <2>2. at[<<"journal", 0>>] = sent /\ Cardinality(journal) = Cardinality(sent)
    BY <2>1, AllLogged
  <2>3. Cardinality(sent) \in Nat
    BY FS_CardinalityType DEF Counted
  <2> QED
    BY <2>1, <2>2, <2>3, At DEF AtFacts, Counted
<1> QED
  BY <1>1, Invariance, PTL

-------------------------------------------------------------------------------
(* The turns of a user: a first attempt, then a retry for each rejection   *)
(* that leaves an attempt, at most one of them under way at a time.        *)

InTime == {a \in Response : a.start <= a.ts}
Line == [timestamp : Nat, start : Nat, allowed : BOOLEAN,
         user : Nat, id : Nat, attempt : Attempts]

\* Nothing is from the future, and nothing is answered before it is asked.
Timely ==
  /\ \A r \in first \cup next \cup sent : r.ts <= now
  /\ holding \in [Workers -> SUBSET InTime]
  /\ outbox \in [Workers -> Seq(InTime)]
  /\ held \in SUBSET InTime
  /\ journal \in SUBSET {l \in Line : l.start <= l.timestamp}

\* Main gives each user one first attempt.
FirstTurns ==
  /\ \A r \in first : r.user = users
  /\ \A s \in sent : s.attempt = 0 => s.user < users \/ (main = "count" /\ s.user = users)

\* A turn is taken once, after all earlier ones were rejected and waited for.
SentTurns ==
  /\ \A r, s \in next \cup sent : r.user = s.user /\ r.attempt = s.attempt => r = s
  /\ \A r \in next \cup sent : \A k \in 0..(r.attempt - 1) :
       \E l \in journal : /\ l.user = r.user /\ l.attempt = k /\ ~l.allowed
                          /\ l.timestamp + RetryDelay[k] <= r.ts

person == [x \in Retry |-> x.user]
Tokens == ToSet(retryPipe) \cup retries

\* The line of the journal that a retry is for
IsFor(x, l) ==
  /\ l.user = x.user /\ l.attempt = x.attempt /\ l.id = x.id /\ ~l.allowed
  /\ x.due = l.timestamp + RetryDelay[x.attempt]

\* A user waits for one retry at a time, which comes after all that was sent.
RetryTurns ==
  /\ Once(retryPipe, person)
  /\ \A x \in retries : x.user \notin Carried(retryPipe, person)
  /\ \A x, y \in retries : x.user = y.user => x = y
  /\ \A x \in Tokens :
       /\ \E l \in journal : IsFor(x, l)
       /\ \A r \in next \cup sent : r.user = x.user => r.attempt <= x.attempt

Turns == SentTurns /\ RetryTurns /\ RetriesKept

LEMMA TimelyInit == Init => Timely
  BY DEF Init, SenderInit, ServerInit, WorkersInit, Timely

LEMMA ReadIsSent ==
  ASSUME Typed, Conserved, NEW w \in Workers, inbox[w] # <<>>
  PROVE  Head(inbox[w]) \in sent /\ Head(inbox[w]) \in Request
<1>1. inbox[w] \in Seq(Request) /\ Head(inbox[w]) \in Request
  BY SequenceFacts DEF Typed, TypeOK
<1>2. itself[Head(inbox[w])] \in Carried(inbox[w], itself)
  BY <1>1, Removed DEF Conserved, Distinct
<1>3. Head(inbox[w]) \in at[<<"in", w>>]
  BY <1>1, <1>2, OriginFacts, At DEF AtFacts
<1> QED
  BY <1>1, <1>3, ArePlaces DEF Conserved, Partition

LEMMA StartsPast ==
  ASSUME Typed, Conserved, Timely, NEW w \in Workers, NEW a \in holding[w]
  PROVE  a.start <= now
<1>1. a \in Answers
  BY DEF Typed, AttemptsLeft
<1>2. origin[a] \in at[<<"limiter", w>>]
  BY At DEF AtFacts, CarriedBy
<1>3. Origin(a) \in sent
  BY <1>1, <1>2, OriginFacts, ArePlaces DEF Conserved, Partition
<1>4. Origin(a).ts = a.start
  BY DEF Origin
<1> QED
  BY <1>3, <1>4 DEF Timely

LEMMA TimelyStep ==
  ASSUME Typed, Conserved, Timely, [Next]_vars PROVE Timely'
<1>0. now \in Nat
  BY DEF Typed, TypeOK
<1>1. CASE Main
  <2>1. CASE MainLoad
    BY <1>0, <2>1 DEF MainLoad, Timely, serverVars, workerVars
  <2>2. CASE MainWrite
    BY <2>2 DEF MainWrite, Write, Timely, serverVars, workerVars
  <2>3. CASE ~MainLoad /\ ~MainWrite
    <3>1. UNCHANGED <<now, first, next, sent, holding, outbox, held, journal>>
      BY <1>1, <2>3 DEF Main, MainCount, StopSender, JoinRetrier, JoinServer, JoinReader,
                        StopWorker, Finish, senderVars, serverVars, workerVars
    <3> QED
      BY <3>1 DEF Timely
  <2> QED
    BY <2>1, <2>2, <2>3
<1>2. CASE Retrier
  <2>1. CASE PickDue
    BY <1>0, <2>1 DEF PickDue, Timely, serverVars, workerVars
  <2>2. CASE WriteRetry
    BY <2>2 DEF WriteRetry, Write, Timely, serverVars, workerVars
  <2>3. CASE CheckRunning \/ Poll \/ NothingDue \/ CountRetry
    BY <2>3 DEF CheckRunning, Poll, NothingDue, CountRetry, Timely, serverVars, workerVars
  <2> QED
    BY <1>2, <2>1, <2>2, <2>3 DEF Retrier
<1>3. CASE Server
  BY <1>3 DEF Server, TestMore, TestSize, TestCounts, Dispatch, Timely, senderVars, workerVars
<1>4. CASE Reader
  <2>1. ASSUME NEW w \in Workers, Collect(w) PROVE Timely'
    <3>1. outbox[w] \in Seq(InTime)
      BY DEF Timely
    <3>2. outbox[w] # <<>> => Head(outbox[w]) \in InTime /\ Tail(outbox[w]) \in Seq(InTime)
      BY <3>1, SequenceFacts
    <3>3. held' \in SUBSET InTime /\ outbox' \in [Workers -> Seq(InTime)]
      BY <2>1, <3>2 DEF Collect, Timely
    <3> QED
      BY <2>1, <3>3 DEF Collect, Timely, senderVars
  <2>2. CASE Log
    <3>1. ASSUME NEW a \in InTime
          PROVE  LogLine(a) \in Line /\ LogLine(a).start <= LogLine(a).timestamp
      BY DEF InTime, Response, LogLine, Line
    <3>2. journal' \in SUBSET {l \in Line : l.start <= l.timestamp}
      BY <2>2, <3>1 DEF Log, Timely
    <3> QED
      BY <2>2, <3>2 DEF Log, Timely, senderVars, workerVars
  <2>3. CASE CheckReader \/ EndPass
    BY <2>3 DEF CheckReader, EndPass, Timely, senderVars, workerVars
  <2> QED
    BY <1>4, <2>1, <2>2, <2>3 DEF Reader
<1>5. ASSUME NEW w \in Workers, TakeRequest(w) PROVE Timely'
  <2> DEFINE a == Rejection(Head(inbox[w]))
  <2>1. a \in Response /\ a.start = Head(inbox[w]).ts /\ a.ts = now
    BY <1>0, <1>5, ReadIsSent, RejectionType DEF TakeRequest, Answers, Rejection
  <2>2. a \in InTime
    BY <1>5, <2>1, ReadIsSent DEF TakeRequest, Timely, InTime
  <2> HIDE DEF a
  <2>3. holding' = [holding EXCEPT ![w] = @ \cup {a}]
    BY <1>5 DEF TakeRequest, a
  <2>4. holding' \in [Workers -> SUBSET InTime]
    BY <2>2, <2>3 DEF Timely
  <2> QED
    BY <1>5, <2>4 DEF TakeRequest, Timely, senderVars, serverVars
<1>6. ASSUME NEW w \in Workers, Answer(w) PROVE Timely'
  <2>1. PICK a \in holding[w] :
          /\ holding' = [holding EXCEPT ![w] = @ \ {a}]
          /\ \E answer \in {a, Admission(a)} :
               outbox' = [outbox EXCEPT ![w] = Append(@, answer)]
    BY <1>6 DEF Answer
  <2>2. a \in InTime /\ a \in Answers
    BY DEF Timely, Typed, AttemptsLeft
  <2>3. Admission(a) \in Response /\ Admission(a).start = a.start /\ Admission(a).ts = now
    BY <1>0, <2>2, AdmissionType DEF Answers, Admission, Response
  <2>4. a.start <= now
    BY <1>6, <2>1, StartsPast
  <2>5. Admission(a) \in InTime
    BY <2>3, <2>4 DEF InTime
  <2>6. outbox' \in [Workers -> Seq(InTime)] /\ holding' \in [Workers -> SUBSET InTime]
    BY <2>1, <2>2, <2>5, SequenceFacts DEF Timely
  <2> QED
    BY <1>6, <2>6 DEF Answer, Timely, senderVars, serverVars
<1>7. ASSUME NEW w \in Workers, EndWorker(w) PROVE Timely'
  BY <1>7 DEF EndWorker, Timely, senderVars, serverVars
<1>8. CASE Tick
  <2>1. now' = now + 1 /\ \A r \in first \cup next \cup sent : r.ts \in Nat
    BY <1>8 DEF Tick, Typed, TypeOK, Request
  <2> QED
    BY <1>0, <1>8, <2>1 DEF Tick, Timely, senderVars, serverVars, workerVars
<1>9. CASE UNCHANGED vars
  BY <1>9 DEF vars, Timely, senderVars, serverVars, workerVars
<1> QED
  BY <1>1, <1>2, <1>3, <1>4, <1>5, <1>6, <1>7, <1>8, <1>9 DEF Next, Worker, Terminating

LEMMA FirstTurnsInit == Init => FirstTurns
  BY DEF Init, SenderInit, FirstTurns

LEMMA FirstTurnsStep ==
  ASSUME Typed, Ids, FirstTurns, [Next]_vars PROVE FirstTurns'
<1>0. users \in Nat /\ \A s \in sent : s.user \in Nat
  BY UsersAssumption DEF Typed, TypeOK, Request
<1>1. CASE MainLoad
  BY <1>0, <1>1 DEF MainLoad, FirstTurns
<1>2. CASE MainWrite
  BY <1>2 DEF MainWrite, Write, FirstTurns
<1>3. CASE MainCount
  <2>1. first = {}
    BY <1>3 DEF MainCount, Ids, MainIds
  <2> QED
    BY <1>0, <1>3, <2>1 DEF MainCount, FirstTurns
<1>4. CASE WriteRetry
  BY <1>4 DEF WriteRetry, Write, FirstTurns, Ids, RetrierIds
<1>5. CASE ~MainLoad /\ ~MainWrite /\ ~MainCount /\ ~WriteRetry
  <2>1. UNCHANGED <<users, first, sent>> /\ (main' = main \/ main # "count")
    BY <1>5 DEF Next, vars, senderVars, serverVars, workerVars, Tick, Terminating,
         Main, StopSender, JoinRetrier, JoinServer, JoinReader, StopWorker, Finish,
         Retrier, CheckRunning, Poll, NothingDue, PickDue, CountRetry,
         Server, TestMore, TestSize, TestCounts, Dispatch,
         Reader, CheckReader, Collect, Log, EndPass,
         Worker, TakeRequest, Answer, EndWorker
  <2> QED
    BY <2>1 DEF FirstTurns
<1> QED
  BY <1>1, <1>2, <1>3, <1>4, <1>5

\* A line of the journal is about a request that was sent; a request that was
\* answered and not logged yet has none.
LEMMA LineSent ==
  ASSUME Conserved, NEW l \in journal PROVE Origin(l) \in sent
<1>1. Origin(l) \in at[<<"journal", 0>>]
  BY At DEF AtFacts
<1> QED
  BY <1>1, ArePlaces DEF Conserved, Partition

LEMMA LineOnce ==
  ASSUME Conserved, SentTurns, NEW k \in journal, NEW l \in journal,
         k.user = l.user, k.attempt = l.attempt
  PROVE  k = l
<1>1. Origin(k) \in sent /\ Origin(l) \in sent
  BY LineSent
<1>2. Origin(k).user = Origin(l).user /\ Origin(k).attempt = Origin(l).attempt
  BY DEF Origin
<1>3. Origin(k) = Origin(l)
  BY <1>1, <1>2 DEF SentTurns
<1> QED
  BY <1>3 DEF Conserved, Distinct

LEMMA HeldNotLogged ==
  ASSUME Typed, Conserved, SentTurns, NEW a \in held
  PROVE  /\ Origin(a) \in sent
         /\ \A l \in journal : l.user = a.user => l.attempt # a.attempt
<1>1. a \in Answers
  BY DEF Typed, AttemptsLeft
<1>2. Origin(a) \in at[<<"reader", 0>>]
  BY <1>1, OriginFacts, At DEF AtFacts, CarriedBy
<1>3. Origin(a) \in sent
  BY <1>2, ArePlaces DEF Conserved, Partition
<1>4. ASSUME NEW l \in journal, l.user = a.user, l.attempt = a.attempt PROVE FALSE
  <2>1. Origin(l) \in at[<<"journal", 0>>] /\ Origin(l) \in sent
    BY At, LineSent DEF AtFacts
  <2>2. Origin(l).user = Origin(a).user /\ Origin(l).attempt = Origin(a).attempt
    BY <1>4 DEF Origin
  <2>3. Origin(l) = Origin(a)
    BY <1>3, <2>1, <2>2 DEF SentTurns
  <2> QED
    BY <1>2, <2>1, <2>3, ArePlaces, <<"reader", 0>> # <<"journal", 0>>
       DEF Conserved, Partition
<1> QED
  BY <1>3, <1>4

LEMMA PipeTokens ==
  ASSUME NEW s \in Seq(Retry)
  PROVE  /\ \A x \in Retry : ToSet(Append(s, x)) = ToSet(s) \cup {x}
         /\ s # <<>> => ToSet(s) = ToSet(Tail(s)) \cup {Head(s)}
         /\ \A x \in ToSet(s) : x \in Retry /\ x.user \in Carried(s, person)
<1>1. ASSUME NEW x \in Retry PROVE ToSet(Append(s, x)) = ToSet(s) \cup {x}
  <2>1. /\ DOMAIN Append(s, x) = DOMAIN s \cup {Len(s) + 1}
        /\ Append(s, x)[Len(s) + 1] = x
        /\ \A i \in DOMAIN s : Append(s, x)[i] = s[i]
    OBVIOUS
  <2> QED
    BY <2>1 DEF ToSet
<1>2. ASSUME s # <<>> PROVE ToSet(s) = ToSet(Tail(s)) \cup {Head(s)}
  <2>1. /\ Len(s) \in Nat \ {0} /\ DOMAIN s = 1..Len(s) /\ Head(s) = s[1]
        /\ DOMAIN Tail(s) = 1..(Len(s) - 1)
        /\ \A i \in 1..(Len(s) - 1) : Tail(s)[i] = s[i + 1]
    BY <1>2
  <2>2. \A i \in 1..(Len(s) - 1) : i + 1 \in 1..Len(s)
    BY <2>1
  <2>3. ASSUME NEW i \in 1..Len(s), i # 1
        PROVE  i - 1 \in 1..(Len(s) - 1) /\ Tail(s)[i - 1] = s[i]
    <3>1. i - 1 \in 1..(Len(s) - 1) /\ (i - 1) + 1 = i
      BY <2>1, <2>3
    <3> QED
      BY <2>1, <3>1
  <2>4. ToSet(Tail(s)) \cup {Head(s)} \subseteq ToSet(s)
    BY <2>1, <2>2 DEF ToSet
  <2>5. ASSUME NEW i \in 1..Len(s) PROVE s[i] \in ToSet(Tail(s)) \cup {Head(s)}
    <3>1. CASE i = 1
      BY <2>1, <3>1
    <3>2. CASE i # 1
      <4> DEFINE j == i - 1
      <4>1. j \in DOMAIN Tail(s) /\ Tail(s)[j] = s[i]
        BY <2>1, <2>3, <3>2
      <4> HIDE DEF j
      <4> QED
        BY <4>1 DEF ToSet
    <3> QED
      BY <3>1, <3>2
  <2>6. ToSet(s) \subseteq ToSet(Tail(s)) \cup {Head(s)}
    BY <2>1, <2>5 DEF ToSet
  <2> QED
    BY <2>4, <2>6
<1>3. ASSUME NEW x \in ToSet(s) PROVE x \in Retry /\ x.user \in Carried(s, person)
  <2>1. PICK i \in 1..Len(s) : x = s[i]
    BY DEF ToSet
  <2>2. x \in Retry
    BY <2>1
  <2>3. person[x] = x.user
    BY <2>2 DEF person
  <2> QED
    BY <2>1, <2>2, <2>3 DEF Carried
<1> QED
  BY <1>1, <1>2, <1>3

\* The steps that concern the turns.
turnVars == <<sent, next, retries, retryPipe, journal>>

LEMMA TurnSteps ==
  ASSUME [Next]_vars
  PROVE  \/ MainWrite \/ WriteRetry \/ PickDue \/ Log
         \/ Poll /\ retryPipe # <<>>
         \/ UNCHANGED turnVars
<1> USE DEF turnVars
<1>1. CASE Tick \/ UNCHANGED vars
  BY <1>1 DEF Tick, vars, senderVars, serverVars
<1>2. CASE Main
  BY <1>2 DEF Main, MainLoad, MainCount, StopSender, JoinRetrier, JoinServer, JoinReader,
              StopWorker, Finish, senderVars, serverVars
<1>3. CASE Retrier
  BY <1>3 DEF Retrier, CheckRunning, Poll, NothingDue, CountRetry, serverVars
<1>4. CASE Server
  BY <1>4 DEF Server, TestMore, TestSize, TestCounts, Dispatch, senderVars
<1>5. CASE Reader
  BY <1>5 DEF Reader, CheckReader, Collect, EndPass, senderVars
<1>6. CASE \E w \in Workers : Worker(w)
  BY <1>6 DEF Worker, TakeRequest, Answer, EndWorker, senderVars, serverVars
<1> HIDE DEF turnVars
<1> QED
  BY <1>1, <1>2, <1>3, <1>4, <1>5, <1>6 DEF Next, Terminating

LEMMA TurnsInit == Init => Turns
<1> SUFFICES ASSUME Init PROVE Turns
  OBVIOUS
<1>1. sent = {} /\ next = {} /\ retries = {} /\ retryPipe = <<>> /\ journal = {}
  BY DEF Init, SenderInit, ServerInit
<1>2. ToSet(<<>>) = {} /\ Once(<<>>, person)
  BY DEF ToSet, Once
<1> QED
  BY <1>1, <1>2 DEF Turns, SentTurns, RetryTurns, RetriesKept, Tokens

LEMMA MainWriteTurns ==
  ASSUME Typed, Ids, FirstTurns, Turns, MainWrite PROVE Turns'
<1>1. PICK r \in first : Write(r)
  BY DEF MainWrite
<1>2. /\ sent' = sent \cup {r} /\ UNCHANGED <<next, retries, retryPipe, journal>>
  BY <1>1 DEF MainWrite, Write, serverVars
<1>3. r.attempt = 0 /\ \A s \in next \cup sent : s.user = r.user => s.attempt # 0
  <2>1. main = "write" /\ r.attempt = 0 /\ r.user = users
    BY DEF MainWrite, Ids, MainIds, FirstTurns
  <2>2. users \in Nat
    BY UsersAssumption DEF Typed, TypeOK
  <2> QED
    BY <2>1, <2>2 DEF FirstTurns, Ids, RetrierIds
<1>4. SentTurns'
  BY <1>2, <1>3 DEF Turns, SentTurns
<1>5. RetryTurns'
  <2>1. Tokens' = Tokens /\ \A x \in Tokens : 0 <= x.attempt
    <3>1. \A x \in Retry : 0 <= x.attempt
      BY DEF Retry, Attempts, LastAttempt
    <3> QED
      BY <1>2, <3>1, PipeTokens DEF Tokens, Typed, TypeOK
  <2> QED
    BY <1>2, <1>3, <2>1 DEF Turns, RetryTurns, IsFor
<1>6. RetriesKept'
  BY <1>2 DEF Turns, RetriesKept
<1> QED
  BY <1>4, <1>5, <1>6 DEF Turns

LEMMA WriteRetryTurns ==
  ASSUME Typed, Ids, Turns, WriteRetry PROVE Turns'
<1>1. PICK r \in next : Write(r)
  BY DEF WriteRetry
<1>2. /\ sent' = sent \cup {r} /\ next' = {}
      /\ UNCHANGED <<retries, retryPipe, journal>>
  BY <1>1 DEF WriteRetry, Write, serverVars
<1>3. next' \cup sent' = next \cup sent
  BY <1>2 DEF Ids, RetrierIds
<1>4. SentTurns'
  BY <1>2, <1>3 DEF Turns, SentTurns
<1>5. RetryTurns'
  BY <1>2, <1>3 DEF Turns, RetryTurns, IsFor, Tokens
<1>6. RetriesKept'
  BY <1>2, <1>3 DEF Turns, RetriesKept
<1> QED
  BY <1>4, <1>5, <1>6 DEF Turns

\* Two who wait are not the same user.
LEMMA TokensApart ==
  ASSUME Typed, RetryTurns
  PROVE  /\ \A x \in retries, y \in ToSet(retryPipe) : x.user # y.user
         /\ Tokens \subseteq Again
<1>1. \A y \in ToSet(retryPipe) : y.user \in Carried(retryPipe, person)
  BY PipeTokens DEF Typed, TypeOK
<1>2. \A y \in ToSet(retryPipe) : y \in Again
  BY DEF ToSet, Typed, AttemptsLeft
<1> QED
  BY <1>1, <1>2 DEF RetryTurns, Tokens, Typed, AttemptsLeft

\* All turns before that of a retry were taken in time for it to be sent when due.
LEMMA TurnsBefore ==
  ASSUME Typed, Conserved, Timely, SentTurns, NEW x \in Again, NEW l \in journal, IsFor(x, l),
         NEW k \in 0..x.attempt
  PROVE  \E m \in journal : /\ m.user = x.user /\ m.attempt = k /\ ~m.allowed
                            /\ m.timestamp + RetryDelay[k] <= x.due
<1>1. CASE k = x.attempt
  <2>1. l.timestamp + RetryDelay[k] \in Nat
    BY <1>1, DelayAssumption DEF Timely, Line, Again, Retry, Attempts, LastAttempt
  <2> QED
    BY <1>1, <2>1 DEF IsFor
<1>2. CASE k # x.attempt
  <2>1. x.attempt \in 0..(LastAttempt - 1) /\ k \in 0..(x.attempt - 1) /\ k \in 0..(LastAttempt - 1)
    BY <1>2 DEF Again, Retry, Attempts, LastAttempt
  <2>2. Origin(l) \in sent
    BY LineSent
  <2>3. Origin(l).user = x.user /\ Origin(l).attempt = x.attempt /\ Origin(l).ts = l.start
    BY DEF Origin, IsFor
  <2>4. PICK m \in journal : /\ m.user = x.user /\ m.attempt = k /\ ~m.allowed
                             /\ m.timestamp + RetryDelay[k] <= l.start
    BY <2>1, <2>2, <2>3 DEF SentTurns
  <2>5. /\ l.start \in Nat /\ l.timestamp \in Nat /\ l.start <= l.timestamp
        /\ m.timestamp \in Nat /\ RetryDelay[k] \in Nat /\ RetryDelay[x.attempt] \in Nat
    BY <2>1, DelayAssumption DEF Timely, Line
  <2>6. x.due = l.timestamp + RetryDelay[x.attempt]
    BY DEF IsFor
  <2>7. m.timestamp + RetryDelay[k] <= x.due
    BY <2>4, <2>5, <2>6
  <2> QED
    BY <2>4, <2>7
<1> QED
  BY <1>1, <1>2

LEMMA PickDueTurns ==
  ASSUME Typed, Ids, Conserved, Timely, Turns, PickDue PROVE Turns'
<1>1. PICK x \in retries :
        /\ x.due <= now /\ retries' = retries \ {x}
        /\ next' = {[id |-> currentId, user |-> x.user, attempt |-> x.attempt + 1, ts |-> now]}
  BY DEF PickDue, Due
<1> DEFINE q == [id |-> currentId, user |-> x.user, attempt |-> x.attempt + 1, ts |-> now]
<1>2. /\ next = {} /\ next' = {q} /\ UNCHANGED <<sent, retryPipe, journal>>
  BY <1>1 DEF PickDue, Ids, RetrierIds, serverVars
<1>3. q.user = x.user /\ q.attempt = x.attempt + 1 /\ q.ts = now
  OBVIOUS
<1> HIDE DEF q
<1>4. x \in Again /\ x.attempt \in Nat /\ x.due \in Nat /\ now \in Nat /\ x \in Tokens
  BY DEF Typed, TypeOK, AttemptsLeft, Again, Retry, Attempts, LastAttempt, Tokens
<1>5. PICK l \in journal : IsFor(x, l)
  BY <1>4 DEF Turns, RetryTurns
<1>6. \A s \in sent : s.user = q.user => s.attempt # q.attempt
  <2>1. \A s \in sent : s.attempt \in Nat
    BY IdsType DEF Typed
  <2> QED
    BY <1>3, <1>4, <2>1 DEF Turns, RetryTurns
<1>7. ASSUME NEW k \in 0..(q.attempt - 1)
      PROVE  \E m \in journal : /\ m.user = q.user /\ m.attempt = k /\ ~m.allowed
                                /\ m.timestamp + RetryDelay[k] <= q.ts
  <2>1. k \in 0..x.attempt
    BY <1>3, <1>4, <1>7
  <2>2. PICK m \in journal : /\ m.user = x.user /\ m.attempt = k /\ ~m.allowed
                             /\ m.timestamp + RetryDelay[k] <= x.due
    BY <1>4, <1>5, <2>1, TurnsBefore DEF Turns
  <2>3. m.timestamp + RetryDelay[k] \in Nat
    BY <1>4, <2>1, DelayAssumption DEF Timely, Line, Again, Retry, Attempts, LastAttempt
  <2>4. m.timestamp + RetryDelay[k] <= q.ts
    BY <1>1, <1>3, <1>4, <2>2, <2>3
  <2> QED
    BY <1>3, <2>2, <2>4
<1>8. SentTurns'
  BY <1>2, <1>6, <1>7 DEF Turns, SentTurns
<1>9. \A y \in Tokens' : y \in Tokens /\ y.user # x.user
  BY <1>1, <1>2, TokensApart DEF Turns, RetryTurns, Tokens
<1>10. RetryTurns'
  BY <1>1, <1>2, <1>3, <1>9 DEF Turns, RetryTurns, IsFor
<1>11. RetriesKept'
  <2>1. ASSUME NEW r \in Tokens PROVE r \in Tokens' \/ r = x
    BY <1>1, <1>2 DEF Tokens
  <2> QED
    BY <1>2, <1>3, <2>1 DEF Turns, RetriesKept, Tokens
<1> QED
  BY <1>8, <1>10, <1>11 DEF Turns

\* What the thread of check_retries finds in its pipe is kept, unless a twin is.
LEMMA PollTurns ==
  ASSUME Typed, Conserved, Turns, Poll, retryPipe # <<>> PROVE Turns'
<1> DEFINE x == Head(retryPipe)
<1>1. /\ retryPipe' = Tail(retryPipe) /\ retries' = Insert(x, retries)
      /\ UNCHANGED <<next, sent, journal>>
  BY DEF Poll, serverVars
<1>2. retryPipe \in Seq(Retry) /\ x \in Retry /\ retries \subseteq Retry
  BY SequenceFacts DEF Typed, TypeOK
<1>3. /\ Once(Tail(retryPipe), person)
      /\ Carried(Tail(retryPipe), person) = Carried(retryPipe, person) \ {x.user}
      /\ x.user \in Carried(retryPipe, person)
  <2>1. person[x] = x.user
    BY <1>2 DEF person
  <2> QED
    BY <1>2, <2>1, Removed DEF Turns, RetryTurns
<1>4. ToSet(retryPipe) = ToSet(Tail(retryPipe)) \cup {x}
  BY <1>2, PipeTokens
<1> HIDE DEF x
<1>5. x \in Tokens /\ Tokens' \subseteq Tokens
  BY <1>1, <1>4 DEF Tokens, Insert
<1>6. SentTurns'
  BY <1>1 DEF Turns, SentTurns
<1>7. RetryTurns'
  <2>1. \A y \in retries' : y.user \notin Carried(retryPipe', person)
    BY <1>1, <1>3 DEF Turns, RetryTurns, Insert
  <2>2. \A y, z \in retries' : y.user = z.user => y = z
    BY <1>1, <1>3 DEF Turns, RetryTurns, Insert
  <2> QED
    BY <1>1, <1>3, <1>5, <2>1, <2>2 DEF Turns, RetryTurns, IsFor
<1>8. RetriesKept'
  <2>1. CASE x \in retries'
    <3>1. Tokens' = Tokens
      BY <1>1, <1>4, <2>1 DEF Tokens, Insert
    <3> QED
      BY <1>1, <3>1 DEF Turns, RetriesKept, Tokens
  <2>2. CASE x \notin retries'
    <3>1. PICK y \in retries : y.due = x.due /\ y.id = x.id
      BY <1>1, <2>2 DEF Insert
    <3>2. y.user # x.user /\ y \in Tokens /\ y.attempt < LastAttempt
      BY <1>3 DEF Turns, RetryTurns, Tokens, Typed, AttemptsLeft, Again
    <3>3. PICK k \in journal : IsFor(y, k)
      BY <3>2 DEF Turns, RetryTurns
    <3>4. PICK m \in journal : IsFor(x, m)
      BY <1>5 DEF Turns, RetryTurns
    <3>5. ASSUME NEW l \in journal, l.user = x.user, l.attempt = x.attempt
          PROVE  /\ k.id = l.id /\ k.user # l.user /\ ~k.allowed /\ k.attempt < LastAttempt
                 /\ k.timestamp + RetryDelay[k.attempt] = l.timestamp + RetryDelay[l.attempt]
      <4>1. m = l
        BY <3>4, <3>5, LineOnce DEF Turns, IsFor
      <4> QED
        BY <3>1, <3>2, <3>3, <3>4, <4>1 DEF IsFor
    <3>6. Tokens \subseteq Tokens' \cup {x}
      BY <1>1, <1>4, <3>1 DEF Tokens, Insert
    <3> QED
      BY <1>1, <3>5, <3>6 DEF Turns, RetriesKept, Tokens
  <2> QED
    BY <2>1, <2>2
<1> QED
  BY <1>6, <1>7, <1>8 DEF Turns

\* A rejection that is logged is the last that is known of its user.
LEMMA LogIsNew ==
  ASSUME Typed, Conserved, Turns, NEW a \in held
  PROVE  /\ \A r \in next \cup sent : r.user = a.user => r.attempt <= a.attempt
         /\ \A x \in Tokens : x.user # a.user
<1>0. /\ a.attempt \in Nat /\ \A r \in next \cup sent : r.attempt \in Nat
      /\ \A x \in Tokens : x.attempt \in Nat
  <2>1. \A x \in Again : x.attempt \in Nat
    BY DEF Again, Retry, Attempts
  <2>2. a.attempt \in Nat
    BY DEF Typed, TypeOK, Response, Attempts
  <2> QED
    BY <2>1, <2>2, IdsType, TokensApart DEF Typed, Turns
<1>1. ASSUME NEW r \in next \cup sent, r.user = a.user, ~(r.attempt <= a.attempt) PROVE FALSE
  <2>1. a.attempt \in 0..(r.attempt - 1)
    BY <1>0, <1>1
  <2>2. PICK l \in journal : l.user = r.user /\ l.attempt = a.attempt
    BY <2>1 DEF Turns, SentTurns
  <2> QED
    BY <1>1, <2>2, HeldNotLogged DEF Turns
<1>2. ASSUME NEW x \in Tokens, x.user = a.user PROVE FALSE
  <2>1. PICK l \in journal : IsFor(x, l)
    BY DEF Turns, RetryTurns
  <2>2. Origin(l) \in sent /\ Origin(l).user = x.user /\ Origin(l).attempt = x.attempt
    BY <2>1, LineSent DEF Origin, IsFor
  <2>3. x.attempt <= a.attempt
    BY <1>1, <1>2, <2>2
  <2>4. Origin(a) \in sent /\ Origin(a).user = a.user /\ Origin(a).attempt = a.attempt
    BY HeldNotLogged DEF Turns, Origin
  <2>5. a.attempt <= x.attempt
    BY <1>2, <2>4 DEF Turns, RetryTurns
  <2>6. l.user = a.user /\ l.attempt = a.attempt
    BY <1>0, <1>2, <2>1, <2>3, <2>5 DEF IsFor
  <2> QED
    BY <2>6, HeldNotLogged DEF Turns
<1> QED
  BY <1>1, <1>2

LEMMA LogTurns ==
  ASSUME Typed, Conserved, Turns, Log PROVE Turns'
<1>1. PICK a \in held :
        /\ journal' = journal \cup {LogLine(a)}
        /\ retryPipe' = IF a.retry
                          THEN Append(retryPipe, [id |-> a.id, user |-> a.user,
                                                  attempt |-> a.attempt, due |-> a.due])
                          ELSE retryPipe
  BY DEF Log
<1> DEFINE x == [id |-> a.id, user |-> a.user, attempt |-> a.attempt, due |-> a.due]
           line == LogLine(a)
<1>2. UNCHANGED <<next, sent, retries>>
  BY DEF Log, senderVars
<1>3. /\ a \in Answers /\ a \in Response
      /\ a.retry <=> ~a.allowed /\ a.attempt < LastAttempt
      /\ a.retry => a.due = a.ts + RetryDelay[a.attempt]
  BY DEF Typed, AttemptsLeft, Answers
<1>4. /\ line.user = a.user /\ line.attempt = a.attempt /\ line.id = a.id
      /\ line.allowed = a.allowed /\ line.timestamp = a.ts
      /\ x.user = a.user /\ x.attempt = a.attempt /\ x.id = a.id /\ x.due = a.due
      /\ x \in Retry
  BY <1>3 DEF LogLine, Response, Retry
<1>5. journal' = journal \cup {line} /\ retryPipe' = IF a.retry THEN Append(retryPipe, x) ELSE retryPipe
  BY <1>1
<1> HIDE DEF x, line
<1>6. retryPipe \in Seq(Retry)
  BY DEF Typed, TypeOK
<1>7. SentTurns'
  BY <1>2, <1>5 DEF Turns, SentTurns
<1>8. ASSUME ~a.retry PROVE Turns'
  <2>1. Tokens' = Tokens
    BY <1>2, <1>5, <1>8 DEF Tokens
  <2>2. RetryTurns'
    BY <1>2, <1>5, <1>8, <2>1 DEF Turns, RetryTurns, IsFor
  <2>3. RetriesKept'
    BY <1>2, <1>3, <1>4, <1>5, <1>8 DEF Turns, RetriesKept
  <2> QED
    BY <1>7, <2>2, <2>3 DEF Turns
<1>9. ASSUME a.retry PROVE Turns'
  <2>1. retryPipe' = Append(retryPipe, x) /\ Tokens' = Tokens \cup {x}
    BY <1>2, <1>4, <1>5, <1>6, <1>9, PipeTokens DEF Tokens
  <2>2. IsFor(x, line)
    BY <1>3, <1>4, <1>9 DEF IsFor
  <2>3. /\ \A r \in next \cup sent : r.user = x.user => r.attempt <= x.attempt
        /\ \A y \in Tokens : y.user # x.user
    BY <1>4, LogIsNew
  <2>4. x.user \notin Carried(retryPipe, person)
    <3>1. \A i \in 1..Len(retryPipe) : retryPipe[i] \in Tokens /\ retryPipe[i] \in Retry
      BY <1>6 DEF Tokens, ToSet
    <3>2. \A i \in 1..Len(retryPipe) : person[retryPipe[i]] = retryPipe[i].user
      BY <3>1 DEF person
    <3> QED
      BY <2>3, <3>1, <3>2 DEF Carried
  <2>5. /\ Once(retryPipe', person)
        /\ Carried(retryPipe', person) = Carried(retryPipe, person) \cup {x.user}
    <3>1. person[x] = x.user
      BY <1>4 DEF person
    <3> QED
      BY <1>4, <1>6, <2>1, <2>4, <3>1, Added DEF Turns, RetryTurns
  <2>6. \A y \in Tokens' :
          /\ \E l \in journal' : IsFor(y, l)
          /\ \A r \in next \cup sent : r.user = y.user => r.attempt <= y.attempt
    BY <1>5, <2>1, <2>2, <2>3 DEF Turns, RetryTurns
  <2>7. RetryTurns'
    <3>1. \A y \in retries : y.user \notin Carried(retryPipe', person)
      BY <2>3, <2>5 DEF Turns, RetryTurns, Tokens
    <3>2. \A y \in Tokens' : \E l \in journal' : IsFor(y, l)
      BY <2>6
    <3> QED
      BY <1>2, <2>5, <2>6, <3>1 DEF Turns, RetryTurns, IsFor
  <2>8. RetriesKept'
    <3>1. \E r \in Tokens' : r.user = line.user /\ r.attempt = line.attempt
      BY <1>4, <2>1
    <3>2. Tokens \subseteq Tokens' /\ journal' = journal \cup {line}
      BY <1>5, <2>1
    <3> QED
      BY <1>2, <3>1, <3>2 DEF Turns, RetriesKept, Tokens
  <2> QED
    BY <1>7, <2>7, <2>8 DEF Turns
<1> QED
  BY <1>8, <1>9

LEMMA TurnsStep ==
  ASSUME Typed, Ids, Conserved, Timely, FirstTurns, Turns, [Next]_vars PROVE Turns'
<1>1. CASE UNCHANGED turnVars
  BY <1>1 DEF turnVars, Turns, SentTurns, RetryTurns, IsFor, RetriesKept, Tokens
<1> QED
  BY <1>1, TurnSteps, MainWriteTurns, WriteRetryTurns, PickDueTurns, PollTurns, LogTurns

LEMMA TurnsInvariance == Spec => [](Typed /\ Conserved /\ Timely /\ Turns)
<1> DEFINE Inv == Typed /\ UsersLeft /\ Ids /\ Conserved /\ Timely /\ FirstTurns /\ Turns
<1>1. Init => Inv
  BY TypeInit, IdsInit, ConservedInit, TimelyInit, FirstTurnsInit, TurnsInit
<1>2. Inv /\ [Next]_vars => Inv'
  <2>1. Typed => TypeOK
    BY DEF Typed
  <2> QED
    BY <2>1, TypeStep, UsersLeftStep, IdsStep, ConservedStep, TimelyStep, FirstTurnsStep,
       TurnsStep
<1> QED
  BY <1>1, <1>2, PTL DEF Spec

\* A line of a retry has the lines of all earlier attempts before it, each a
\* rejection whose delay was over when the retry was sent.
LEMMA LinesBefore ==
  ASSUME Conserved, SentTurns, NEW l \in journal, NEW k \in 0..(l.attempt - 1)
  PROVE  \E m \in journal : /\ m.user = l.user /\ m.attempt = k /\ ~m.allowed
                            /\ m.timestamp + RetryDelay[k] <= l.start
<1>1. Origin(l) \in sent
  BY LineSent
<1>2. Origin(l).user = l.user /\ Origin(l).attempt = l.attempt /\ Origin(l).ts = l.start
  BY DEF Origin
<1> QED
  BY <1>1, <1>2 DEF SentTurns

\* The attempts of a user are in the journal without a gap, once each, and all
\* but the last were rejected.
THEOREM TurnsCorrect == Spec => []AttemptsInTurn
<1>1. Typed /\ Conserved /\ Timely /\ Turns => AttemptsInTurn
  <2> SUFFICES ASSUME Conserved, Timely, Turns, NEW l \in journal
               PROVE  /\ l.attempt > 0 =>
                           \E k \in journal : /\ k.user = l.user
                                              /\ k.attempt = l.attempt - 1
                                              /\ ~k.allowed
                      /\ \A k \in journal : k.user = l.user /\ k.attempt = l.attempt => k = l
    BY DEF AttemptsInTurn
  <2>1. l.attempt \in Nat
    BY DEF Timely, Line, Attempts
  <2>2. l.attempt > 0 => l.attempt - 1 \in 0..(l.attempt - 1)
    BY <2>1
  <2> QED
    BY <2>2, LinesBefore, LineOnce DEF Turns
<1> QED
  BY <1>1, TurnsInvariance, PTL

\* No line ends before it starts, and a user waits out the delay after a
\* rejection before the next attempt is sent.
THEOREM ChronologyCorrect == Spec => []Chronology
<1>1. Typed /\ Conserved /\ Timely /\ Turns => Chronology
  <2> SUFFICES ASSUME Conserved, Timely, Turns, NEW l \in journal
               PROVE  /\ l.start <= l.timestamp
                      /\ \A k \in journal :
                           k.user = l.user /\ k.attempt = l.attempt + 1 =>
                             k.start >= l.timestamp + RetryDelay[l.attempt]
    BY DEF Chronology
  <2>1. l.start <= l.timestamp /\ l \in Line
    BY DEF Timely
  <2>2. ASSUME NEW k \in journal, k.user = l.user, k.attempt = l.attempt + 1
        PROVE  k.start >= l.timestamp + RetryDelay[l.attempt]
    <3>1. k \in Line
      BY DEF Timely
    <3>2. l.attempt \in 0..(k.attempt - 1) /\ l.attempt \in 0..(LastAttempt - 1)
      BY <2>1, <2>2, <3>1 DEF Line, Attempts, LastAttempt
    <3>3. PICK m \in journal : /\ m.user = k.user /\ m.attempt = l.attempt
                               /\ m.timestamp + RetryDelay[l.attempt] <= k.start
      BY <3>2, LinesBefore DEF Turns
    <3>4. m = l
      BY <2>2, <3>3, LineOnce DEF Turns
    <3>5. RetryDelay[l.attempt] \in Nat /\ l.timestamp \in Nat /\ k.start \in Nat
      BY <2>1, <3>1, <3>2, DelayAssumption DEF Line
    <3> QED
      BY <3>3, <3>4, <3>5
  <2> QED
    BY <2>1, <2>2
<1> QED
  BY <1>1, TurnsInvariance, PTL

\* The line is the next of its user: all earlier attempts are in the journal, are
\* rejections, and their delays were over when this one was sent; no later one is.
NextOfUser(line) ==
  /\ \A k \in journal : k.user = line.user =>
       /\ k.attempt < line.attempt /\ ~k.allowed
       /\ k.timestamp + RetryDelay[k.attempt] <= line.start
  /\ \A n \in 0..(line.attempt - 1) :
       \E k \in journal : k.user = line.user /\ k.attempt = n

\* What the aggregators take for granted of the order of the lines, of which they
\* make one pass (MayFollow of MetricsAggregators, whose journal this is).
LoggedInTurn == [][\A line \in journal' \ journal : NextOfUser(line)]_vars

LEMMA LogInTurn ==
  ASSUME Typed, Conserved, Timely, Turns, NEW a \in held
  PROVE  NextOfUser(LogLine(a))
<1>1. /\ LogLine(a).user = a.user /\ LogLine(a).attempt = a.attempt
      /\ LogLine(a).start = a.start
  BY DEF LogLine
<1>2. Origin(a) \in sent /\ Origin(a).user = a.user /\ Origin(a).attempt = a.attempt
      /\ Origin(a).ts = a.start
  BY HeldNotLogged DEF Turns, Origin
<1>3. a.attempt \in Attempts
  BY DEF Typed, TypeOK, Response
<1>4. \A n \in 0..(a.attempt - 1) :
        \E l \in journal : /\ l.user = a.user /\ l.attempt = n /\ ~l.allowed
                           /\ l.timestamp + RetryDelay[n] <= a.start
  BY <1>2 DEF Turns, SentTurns
<1>5. ASSUME NEW k \in journal, k.user = a.user
      PROVE  /\ k.attempt < a.attempt /\ ~k.allowed
             /\ k.timestamp + RetryDelay[k.attempt] <= a.start
  <2>1. k.attempt \in Attempts
    BY DEF Timely, Line
  <2>2. k.attempt # a.attempt
    BY <1>5, HeldNotLogged DEF Turns
  <2>3. ASSUME a.attempt < k.attempt PROVE FALSE
    <3>1. a.attempt \in 0..(k.attempt - 1)
      BY <1>3, <2>1, <2>3 DEF Attempts
    <3>2. PICK l \in journal : l.user = k.user /\ l.attempt = a.attempt
      BY <3>1, LinesBefore DEF Turns
    <3> QED
      BY <1>5, <3>2, HeldNotLogged DEF Turns
  <2>4. k.attempt < a.attempt /\ k.attempt \in 0..(a.attempt - 1)
    BY <1>3, <2>1, <2>2, <2>3 DEF Attempts
  <2>5. PICK l \in journal : /\ l.user = a.user /\ l.attempt = k.attempt /\ ~l.allowed
                             /\ l.timestamp + RetryDelay[k.attempt] <= a.start
    BY <1>4, <2>4
  <2>6. l = k
    BY <1>5, <2>5, LineOnce DEF Turns
  <2> QED
    BY <2>4, <2>5, <2>6
<1>6. \A n \in 0..(a.attempt - 1) : \E k \in journal : k.user = a.user /\ k.attempt = n
  BY <1>4
<1> QED
  BY <1>1, <1>5, <1>6 DEF NextOfUser

\* Every line is logged in its user's turn, as the aggregators assume.
THEOREM LoggedCorrect == Spec => LoggedInTurn
<1>1. Typed /\ Conserved /\ Timely /\ Turns /\ [Next]_vars =>
        [\A line \in journal' \ journal : NextOfUser(line)]_vars
  <2> SUFFICES ASSUME Typed, Conserved, Timely, Turns, [Next]_vars,
                      NEW line \in journal' \ journal
               PROVE  NextOfUser(line)
    OBVIOUS
  <2>1. Log
    BY TurnSteps DEF MainWrite, WriteRetry, PickDue, Poll, turnVars, senderVars, serverVars
  <2>2. PICK a \in held : journal' = journal \cup {LogLine(a)}
    BY <2>1 DEF Log
  <2> QED
    BY <2>2, LogInTurn
<1> QED
  BY <1>1, TurnsInvariance, PTL DEF Spec, LoggedInTurn

\* A user who is told to retry is not forgotten; only a twin, the retry of another
\* user with the same id and due time, may take the place of a retry.
THEOREM RetriesCorrect == Spec => []RetriesKept
<1>1. Turns => RetriesKept
  BY DEF Turns
<1> QED
  BY <1>1, TurnsInvariance, PTL

-------------------------------------------------------------------------------
(* The pipes between the threads: under its mutex a pipe is a queue.        *)

LEMMA PipeTypeInit == PipeInit => PipeTyped /\ Exclusive /\ Fresh
  BY NobodyAssumption DEF PipeInit, PipeTyped, Exclusive, Fresh, Holding

LEMMA QueueFacts ==
  ASSUME NEW s \in Seq(Items)
  PROVE  /\ Len(s) \in Nat
         /\ \A i \in Items : Append(s, i) \in Seq(Items)
         /\ s # <<>> => Head(s) \in Items /\ Tail(s) \in Seq(Items)
  OBVIOUS

\* A step is taken with the mutex held, except a call and the wait for it.
LEMMA PipeTypedStep == PipeInv /\ [PipeNext]_pipeVars => PipeTyped'
<1> SUFFICES ASSUME PipeInv, [PipeNext]_pipeVars PROVE PipeTyped'
  OBVIOUS
<1> USE DEF PipeInv, PipeTyped, Goto, Waiting, Holding
<1>1. CASE UNCHANGED pipeVars
  BY <1>1 DEF pipeVars
<1>2. ASSUME NEW t \in Threads, Call(t) PROVE PipeTyped'
  BY <1>2 DEF Call
<1>3. ASSUME NEW t \in Threads, LockToWrite(t) \/ LockToRead(t) \/ LockToCount(t) PROVE PipeTyped'
  BY <1>3 DEF LockToWrite, LockToRead, LockToCount, Lock
<1>4. ASSUME NEW t \in Threads, FindEnd(t) \/ FindEmpty(t) \/ FindFront(t) PROVE PipeTyped'
  BY <1>4 DEF FindEnd, FindEmpty, FindFront
<1>5. ASSUME NEW t \in Threads, Store(t) PROVE PipeTyped'
  <2>1. queue' \in Seq(Items)
    BY <1>5, QueueFacts DEF Store, Fresh
  <2> QED
    BY <1>5, <2>1 DEF Store
<1>6. ASSUME NEW t \in Threads, Pop(t) PROVE PipeTyped'
  <2>1. queue' \in Seq(Items) /\ Head(seen[t]) \in Items
    BY <1>6, QueueFacts DEF Pop, Fresh
  <2> QED
    BY <1>6, <2>1 DEF Pop
<1>7. ASSUME NEW t \in Threads, Count(t) PROVE PipeTyped'
  <2>1. Len(queue) \in Nat
    BY QueueFacts
  <2> QED
    BY <1>7, <2>1 DEF Count
<1>8. ASSUME NEW t \in Threads, Unlock(t) PROVE PipeTyped'
  BY <1>8 DEF Unlock
<1> QED
  BY <1>1, <1>2, <1>3, <1>4, <1>5, <1>6, <1>7, <1>8 DEF PipeNext, Step

\* Only a thread that finds the mutex free comes to hold it, and only its owner
\* gives it up.
LEMMA ExclusiveStep == PipeInv /\ [PipeNext]_pipeVars => Exclusive'
<1> SUFFICES ASSUME PipeInv, [PipeNext]_pipeVars PROVE Exclusive'
  OBVIOUS
<1> USE NobodyAssumption DEF PipeInv, PipeTyped, Exclusive, Goto, Waiting, Holding
<1>1. CASE UNCHANGED pipeVars
  BY <1>1 DEF pipeVars
<1>2. ASSUME NEW t \in Threads, Call(t) PROVE Exclusive'
  BY <1>2 DEF Call
<1>3. ASSUME NEW t \in Threads, LockToWrite(t) \/ LockToRead(t) \/ LockToCount(t)
      PROVE  Exclusive'
  BY <1>3 DEF LockToWrite, LockToRead, LockToCount, Lock
<1>4. ASSUME NEW t \in Threads,
             \/ FindEnd(t) \/ Store(t) \/ FindEmpty(t) \/ FindFront(t) \/ Pop(t) \/ Count(t)
      PROVE  Exclusive'
  BY <1>4 DEF FindEnd, Store, FindEmpty, FindFront, Pop, Count
<1>5. ASSUME NEW t \in Threads, Unlock(t) PROVE Exclusive'
  BY <1>5 DEF Unlock
<1> QED
  BY <1>1, <1>2, <1>3, <1>4, <1>5 DEF PipeNext, Step

\* The queue changes only under the mutex, so what its owner has found in it
\* stays true.
LEMMA FreshStep == PipeInv /\ [PipeNext]_pipeVars => Fresh'
<1> SUFFICES ASSUME PipeInv, [PipeNext]_pipeVars PROVE Fresh'
  OBVIOUS
<1> USE DEF PipeInv, PipeTyped, Fresh, Goto, Waiting, Holding
<1>1. CASE UNCHANGED pipeVars
  BY <1>1 DEF pipeVars
<1>2. ASSUME NEW t \in Threads, Call(t) PROVE Fresh'
  BY <1>2 DEF Call
<1>3. ASSUME NEW t \in Threads, LockToWrite(t) \/ LockToRead(t) \/ LockToCount(t)
      PROVE  Fresh'
  BY <1>3 DEF LockToWrite, LockToRead, LockToCount
<1>4. ASSUME NEW t \in Threads, FindEnd(t) \/ FindEmpty(t) \/ FindFront(t) \/ Count(t)
      PROVE  Fresh'
  BY <1>4 DEF FindEnd, FindEmpty, FindFront, Count
<1>5. ASSUME NEW t \in Threads, Store(t) \/ Pop(t) PROVE Fresh'
  <2>1. \A u \in Threads \ {t} : pc[u] \notin {"store", "pop"}
    BY <1>5 DEF Store, Pop, Exclusive
  <2> QED
    BY <1>5, <2>1 DEF Store, Pop
<1>6. ASSUME NEW t \in Threads, Unlock(t) PROVE Fresh'
  BY <1>6 DEF Unlock
<1> QED
  BY <1>1, <1>2, <1>3, <1>4, <1>5, <1>6 DEF PipeNext, Step

LEMMA PipeInvariance == PipeSpec => []PipeInv
<1>1. PipeInit => PipeInv
  BY PipeTypeInit DEF PipeInv
<1>2. PipeInv /\ [PipeNext]_pipeVars => PipeInv'
  BY PipeTypedStep, ExclusiveStep, FreshStep DEF PipeInv
<1> QED
  BY <1>1, <1>2, PTL DEF PipeSpec

\* The variables keep their types, and no two threads are inside an operation of
\* the pipe at once.
THEOREM PipeTypeCorrect == PipeSpec => []PipeTypeOK
<1>1. PipeInv => PipeTypeOK
  BY DEF PipeInv, PipeTypeOK
<1> QED
  BY <1>1, PipeInvariance, PTL

-------------------------------------------------------------------------------
(* The refinement: an operation takes effect at the step that changes the   *)
(* queue, finds it empty or counts it; its other steps are stutters.        *)

LEMMA QueueInit == PipeInit => Queue!Init
  BY DEF PipeInit, Queue!Init, Doing

\* A thread that goes from one place to another changes what it is doing, and
\* no other thread does.
LEMMA DoingGoto ==
  ASSUME PipeTyped, NEW t \in Threads, NEW from, NEW to, Goto(t, from, to)
  PROVE  [u \in Threads |-> Doing(u)]' =
           [[u \in Threads |-> Doing(u)] EXCEPT ![t] = Doing(t)']
  BY DEF PipeTyped, Goto, Doing

LEMMA QueueStep == PipeInv /\ [PipeNext]_pipeVars => [Queue!Next]_(Queue!vars)
<1> SUFFICES ASSUME PipeInv, [PipeNext]_pipeVars PROVE [Queue!Next]_(Queue!vars)
  OBVIOUS
<1> USE DEF PipeInv
<1>1. CASE UNCHANGED pipeVars
  BY <1>1 DEF pipeVars, Doing, Queue!vars
<1>2. ASSUME NEW t \in Threads, Call(t) PROVE Queue!Call(t)
  BY <1>2, DoingGoto DEF Call, Queue!Call, Queue!Goto, Goto, Doing, PipeTyped
<1>3. ASSUME NEW t \in Threads,
             \/ LockToWrite(t) \/ LockToRead(t) \/ LockToCount(t)
             \/ FindEnd(t) \/ FindFront(t)
      PROVE  UNCHANGED Queue!vars
  BY <1>3 DEF LockToWrite, LockToRead, LockToCount, FindEnd, FindFront, Goto, Doing,
              PipeTyped, Queue!vars
<1>4. ASSUME NEW t \in Threads, Store(t) PROVE Queue!Write(t)
  BY <1>4, DoingGoto DEF Store, Queue!Write, Queue!Goto, Goto, Doing, PipeTyped, Fresh
<1>5. ASSUME NEW t \in Threads, FindEmpty(t) \/ Pop(t) PROVE Queue!Read(t)
  BY <1>5, DoingGoto
     DEF FindEmpty, Pop, Queue!Read, Queue!Goto, Goto, Doing, PipeTyped, Fresh
<1>6. ASSUME NEW t \in Threads, Count(t) PROVE Queue!GetSize(t)
  BY <1>6, DoingGoto DEF Count, Queue!GetSize, Queue!Goto, Goto, Doing, PipeTyped
<1>7. ASSUME NEW t \in Threads, Unlock(t) PROVE Queue!Return(t)
  BY <1>7, DoingGoto DEF Unlock, Queue!Return, Queue!Goto, Goto, Doing, PipeTyped
<1> QED
  BY <1>1, <1>2, <1>3, <1>4, <1>5, <1>6, <1>7 DEF PipeNext, Step, Queue!Next

\* To its threads the pipe is a first-in-first-out queue, however their calls
\* overlap.
THEOREM FifoCorrect == PipeSpec => ImplementsFifo
<1> QED
  BY QueueInit, QueueStep, PipeInvariance, PTL DEF PipeSpec, ImplementsFifo, Queue!Spec

===============================================================================
