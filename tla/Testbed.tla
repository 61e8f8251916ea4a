------------------------------- MODULE Testbed -------------------------------
(***************************************************************************)
(* One measurement of main.cpp: the Sender's two threads (main, which      *)
(* plays the workload, and the one that sends retries), the Server's two   *)
(* (one hands requests out to the workers, one collects their responses    *)
(* into the journal and feeds retries back), the workers, the pipes        *)
(* between them, and the shutdown that main drives when the workload is    *)
(* over.                                                                   *)
(*                                                                         *)
(* A pipe is a sequence: every operation of Pipe holds its mutex, so a     *)
(* read or a write is one step.  The limiter of a worker is any algorithm  *)
(* that answers each request once (module Limiter without its window): it  *)
(* holds what add_request was given and answers it at some later time.     *)
(* The plain flags and counters the threads share (no_more_requests_,      *)
(* reader_running_, requests_processed_, running_) are read and written    *)
(* as the unoptimised build does: in memory, once per occurrence.          *)
(***************************************************************************)
EXTENDS Integers, FiniteSets, Sequences, SequencesExt

CONSTANTS
  WorkersNumber,  \* number of workers of the server (5 in main.cpp)
  Users,          \* number of users: the first attempts of the workload
  RetryDelay,     \* RetryDelay[k], how long after rejected attempt k to retry
  MaxTime         \* bound on the clock (model checking only)

LastAttempt == 2
Attempts == 0..LastAttempt
Workers == 0..(WorkersNumber - 1)

ASSUME WorkersAssumption == WorkersNumber \in Nat \ {0}
ASSUME UsersAssumption == Users \in Nat /\ MaxTime \in Nat
ASSUME DelayAssumption == RetryDelay \in [0..(LastAttempt - 1) -> Nat]

VARIABLES
  now,         \* the system clock
  main,        \* where the main thread stands
  users,       \* current_user_
  currentId,   \* current_id_
  first,       \* the request main is about to write: one or none
  running,     \* Sender's is_running_
  retrier,     \* where the thread of check_retries stands
  next,        \* the requests it is about to write: one or none
  retries,     \* retries_
  requestPipe, retryPipe,
  server,      \* where the server's dispatching thread stands
  noMore,      \* no_more_requests_
  received,    \* requests_received_
  reader,      \* where the server's reader thread stands
  pass,        \* the worker it reads next in this pass
  held,        \* the response it has counted and not logged yet: one or none
  readerOn,    \* reader_running_
  processed,   \* requests_processed_
  journal,     \* the lines of the LogsJournal
  inbox,       \* the pipe to each worker
  holding,     \* what the limiter of each worker has yet to answer
  outbox,      \* the pipe from each worker
  workerOn,    \* running_ of each worker
  worker,      \* where the thread of each worker stands
  sent         \* history: every request written to requestPipe

senderVars == <<users, currentId, first, running, retrier, next, retries>>
serverVars == <<server, noMore, received, reader, pass, held, readerOn,
                processed, journal>>
workerVars == <<inbox, holding, outbox, workerOn, worker>>
vars == <<now, main, senderVars, requestPipe, retryPipe, serverVars,
          workerVars, sent>>

Request == [id : Nat, user : Nat, attempt : Attempts, ts : Nat]
Response == [id : Nat, user : Nat, attempt : Attempts, start : Nat,
             allowed : BOOLEAN, retry : BOOLEAN, due : Nat, ts : Nat]
Retry == [id : Nat, user : Nat, attempt : Attempts, due : Nat]

-------------------------------------------------------------------------------
\* main constructs the pipes and the parts, starts the server and the thread of
\* check_retries, and all that comes before the first request.
SenderInit ==
  /\ users = 0 /\ currentId = 0 /\ first = {}
  /\ running = TRUE
  /\ retrier = "check" /\ next = {} /\ retries = {}

ServerInit ==
  /\ server = "more" /\ noMore = FALSE /\ received = 0
  /\ reader = "check" /\ pass = 0 /\ held = {} /\ readerOn = TRUE
  /\ processed = 0 /\ journal = {}

WorkersInit ==
  /\ inbox = [w \in Workers |-> <<>>]
  /\ holding = [w \in Workers |-> {}]
  /\ outbox = [w \in Workers |-> <<>>]
  /\ workerOn = [w \in Workers |-> TRUE]
  /\ worker = [w \in Workers |-> "run"]

Init ==
  /\ now = 0 /\ main = "load" /\ sent = {}
  /\ requestPipe = <<>> /\ retryPipe = <<>>
  /\ SenderInit /\ ServerInit /\ WorkersInit

Tick ==
  /\ now < MaxTime /\ now' = now + 1
  /\ UNCHANGED <<main, senderVars, requestPipe, retryPipe, serverVars,
                 workerVars, sent>>

Write(request) ==
  /\ requestPipe' = Append(requestPipe, request)
  /\ sent' = sent \cup {request}

-------------------------------------------------------------------------------
(* The main thread: send_request in a loop, then the shutdown.  The read,  *)
(* the use and the increment of current_id_ are three steps.               *)

MainLoad ==
  /\ main = "load" /\ users < Users
  /\ first' = {[id |-> currentId, user |-> users, attempt |-> 0, ts |-> now]}
  /\ main' = "write"
  /\ UNCHANGED <<now, users, currentId, running, retrier, next, retries,
                 requestPipe, retryPipe, serverVars, workerVars, sent>>

MainWrite ==
  /\ main = "write"
  /\ \E request \in first : Write(request)
  /\ first' = {}
  /\ main' = "count"
  /\ UNCHANGED <<now, users, currentId, running, retrier, next, retries,
                 retryPipe, serverVars, workerVars>>

MainCount ==
  /\ main = "count"
  /\ currentId' = currentId + 1
  /\ users' = users + 1
  /\ main' = "load"
  /\ UNCHANGED <<now, first, running, retrier, next, retries, requestPipe,
                 retryPipe, serverVars, workerVars, sent>>

\* The workload is over: is_running_ = false.
StopSender ==
  /\ main = "load" /\ users = Users
  /\ running' = FALSE
  /\ main' = "joinRetrier"
  /\ UNCHANGED <<now, users, currentId, first, retrier, next, retries,
                 requestPipe, retryPipe, serverVars, workerVars, sent>>

\* Slip: the reader is told to stop before the dispatching thread is joined.
JoinRetrierStopReader ==
  /\ main = "joinRetrier" /\ retrier = "done"
  /\ noMore' = TRUE /\ readerOn' = FALSE
  /\ main' = "joinServer"
  /\ UNCHANGED <<now, senderVars, requestPipe, retryPipe, server, received,
                 reader, pass, held, processed, journal, workerVars, sent>>

\* start_execution joins check_retries and returns; wait() begins.
JoinRetrier ==
  /\ main = "joinRetrier" /\ retrier = "done"
  /\ noMore' = TRUE
  /\ main' = "joinServer"
  /\ UNCHANGED <<now, senderVars, requestPipe, retryPipe, server, received,
                 reader, pass, held, readerOn, processed, journal, workerVars, sent>>

JoinServer ==
  /\ main = "joinServer" /\ server = "done"
  /\ readerOn' = FALSE
  /\ main' = "joinReader"
  /\ UNCHANGED <<now, senderVars, requestPipe, retryPipe, server, noMore,
                 received, reader, pass, held, processed, journal, workerVars, sent>>

JoinReader ==
  /\ main = "joinReader" /\ reader = "done"
  /\ main' = "stopWorkers"
  /\ UNCHANGED <<now, senderVars, requestPipe, retryPipe, serverVars,
                 workerVars, sent>>

\* stop(): the workers are stopped and joined one after the other, in order.
StopWorker(w) ==
  /\ main = "stopWorkers" /\ workerOn[w]
  /\ \A v \in 0..(w - 1) : worker[v] = "done"
  /\ workerOn' = [workerOn EXCEPT ![w] = FALSE]
  /\ UNCHANGED <<now, main, senderVars, requestPipe, retryPipe, serverVars,
                 inbox, holding, outbox, worker, sent>>

Finish ==
  /\ main = "stopWorkers" /\ \A w \in Workers : worker[w] = "done"
  /\ main' = "done"
  /\ UNCHANGED <<now, senderVars, requestPipe, retryPipe, serverVars,
                 workerVars, sent>>

Main ==
  \/ MainLoad \/ MainWrite \/ MainCount
  \/ StopSender \/ JoinRetrier \/ JoinServer \/ JoinReader
  \/ \E w \in Workers : StopWorker(w)
  \/ Finish

-------------------------------------------------------------------------------
(* check_retries.                                                          *)

CheckRunning ==
  /\ retrier = "check"
  /\ retrier' = IF running THEN "poll" ELSE "done"
  /\ UNCHANGED <<now, main, users, currentId, first, running, next, retries,
                 requestPipe, retryPipe, serverVars, workerVars, sent>>

\* Slip: the set tells retries apart by their due time alone.
InsertByDue(retry, S) ==
  IF \E r \in S : r.due = retry.due THEN S ELSE S \cup {retry}

\* std::set<Retry> keeps one retry of each due time and id: a second is lost.
Insert(retry, S) ==
  IF \E r \in S : r.due = retry.due /\ r.id = retry.id THEN S ELSE S \cup {retry}

Poll ==
  /\ retrier = "poll"
  /\ \/ /\ retryPipe = <<>>
        /\ UNCHANGED <<retries, retryPipe>>
     \/ /\ retryPipe # <<>>
        /\ retries' = Insert(Head(retryPipe), retries)
        /\ retryPipe' = Tail(retryPipe)
  /\ retrier' = "due"
  /\ UNCHANGED <<now, main, users, currentId, first, running, next,
                 requestPipe, serverVars, workerVars, sent>>

\* Retry::operator<
Sooner(r, s) == r.due < s.due \/ (r.due = s.due /\ r.id < s.id)

Due(r) == r.due <= now
Soonest(r) == r \in retries /\ \A s \in retries \ {r} : Sooner(r, s)

NothingDue ==
  /\ retrier = "due"
  /\ \A r \in retries : Soonest(r) => ~Due(r)
  /\ retrier' = "check"
  /\ UNCHANGED <<now, main, users, currentId, first, running, next, retries,
                 requestPipe, retryPipe, serverVars, workerVars, sent>>

PickDue ==
  /\ retrier = "due"
  /\ \E r \in retries :
       /\ Soonest(r) /\ Due(r)
       /\ retries' = retries \ {r}
       /\ next' = {[id |-> currentId, user |-> r.user,
                    attempt |-> r.attempt + 1, ts |-> now]}
  /\ retrier' = "write"
  /\ UNCHANGED <<now, main, users, currentId, first, running, requestPipe,
                 retryPipe, serverVars, workerVars, sent>>

WriteRetry ==
  /\ retrier = "write"
  /\ \E request \in next : Write(request)
  /\ next' = {}
  /\ retrier' = "count"
  /\ UNCHANGED <<now, main, users, currentId, first, running, retries,
                 retryPipe, serverVars, workerVars>>

\* Slip: the id of a retry is not used up.
CountRetryNot ==
  /\ retrier = "count"
  /\ retrier' = "check"
  /\ UNCHANGED <<now, main, users, currentId, first, running, next, retries,
                 requestPipe, retryPipe, serverVars, workerVars, sent>>

CountRetry ==
  /\ retrier = "count"
  /\ currentId' = currentId + 1
  /\ retrier' = "check"
  /\ UNCHANGED <<now, main, users, first, running, next, retries, requestPipe,
                 retryPipe, serverVars, workerVars, sent>>

Retrier ==
  CheckRunning \/ Poll \/ NothingDue \/ PickDue \/ WriteRetry \/ CountRetry

-------------------------------------------------------------------------------
(* The server's dispatching thread.  The three tests of its loop read      *)
(* three things other threads write, from left to right.                   *)

TestMore ==
  /\ server = "more"
  /\ server' = IF noMore THEN "size" ELSE "take"
  /\ UNCHANGED <<now, main, senderVars, requestPipe, retryPipe, noMore, received,
                 reader, pass, held, readerOn, processed, journal, workerVars, sent>>

TestSize ==
  /\ server = "size"
  /\ server' = IF requestPipe # <<>> THEN "take" ELSE "counts"
  /\ UNCHANGED <<now, main, senderVars, requestPipe, retryPipe, noMore, received,
                 reader, pass, held, readerOn, processed, journal, workerVars, sent>>

\* Slip: an empty pipe is taken for the end of the work.
AllProcessedAlways == TRUE

AllProcessed == received = processed

TestCounts ==
  /\ server = "counts"
  /\ server' = IF AllProcessed THEN "done" ELSE "take"
  /\ UNCHANGED <<now, main, senderVars, requestPipe, retryPipe, noMore, received,
                 reader, pass, held, readerOn, processed, journal, workerVars, sent>>

\* The worker is drawn at random.
Dispatch ==
  /\ server = "take"
  /\ \/ /\ requestPipe = <<>>
        /\ UNCHANGED <<requestPipe, received, inbox>>
     \/ /\ requestPipe # <<>>
        /\ requestPipe' = Tail(requestPipe)
        /\ received' = received + 1
        /\ \E w \in Workers :
             inbox' = [inbox EXCEPT ![w] = Append(@, Head(requestPipe))]
  /\ server' = "more"
  /\ UNCHANGED <<now, main, senderVars, retryPipe, noMore, reader, pass, held,
                 readerOn, processed, journal, holding, outbox, workerOn, worker, sent>>

Server == TestMore \/ TestSize \/ TestCounts \/ Dispatch

-------------------------------------------------------------------------------
(* The server's reader thread: reader_running_ is looked at once per pass  *)
(* over the workers, and a response is counted before it is logged.        *)

CheckReader ==
  /\ reader = "check"
  /\ reader' = IF readerOn THEN "pass" ELSE "done"
  /\ pass' = 0
  /\ UNCHANGED <<now, main, senderVars, requestPipe, retryPipe, server, noMore,
                 received, held, readerOn, processed, journal, workerVars, sent>>

Collect(w) ==
  /\ reader = "pass" /\ held = {} /\ pass = w
  /\ pass' = w + 1
  /\ \/ /\ outbox[w] = <<>>
        /\ UNCHANGED <<held, processed, outbox>>
     \/ /\ outbox[w] # <<>>
        /\ held' = {Head(outbox[w])}
        /\ processed' = processed + 1
        /\ outbox' = [outbox EXCEPT ![w] = Tail(@)]
  /\ UNCHANGED <<now, main, senderVars, requestPipe, retryPipe, server, noMore,
                 received, reader, readerOn, journal, inbox, holding, workerOn,
                 worker, sent>>

LogLine(a) ==
  [timestamp |-> a.ts, start |-> a.start, allowed |-> a.allowed,
   user |-> a.user, id |-> a.id, attempt |-> a.attempt]

Log ==
  /\ reader = "pass"
  /\ \E a \in held :
       /\ journal' = journal \cup {LogLine(a)}
       /\ retryPipe' = IF a.retry
                         THEN Append(retryPipe, [id |-> a.id, user |-> a.user,
                                                 attempt |-> a.attempt, due |-> a.due])
                         ELSE retryPipe
  /\ held' = {}
  /\ UNCHANGED <<now, main, senderVars, requestPipe, server, noMore, received,
                 reader, pass, readerOn, processed, workerVars, sent>>

EndPass ==
  /\ reader = "pass" /\ held = {} /\ pass = WorkersNumber
  /\ reader' = "check"
  /\ UNCHANGED <<now, main, senderVars, requestPipe, retryPipe, server, noMore,
                 received, pass, held, readerOn, processed, journal, workerVars, sent>>

Reader == CheckReader \/ (\E w \in Workers : Collect(w)) \/ Log \/ EndPass

-------------------------------------------------------------------------------
(* A worker and its limiter.                                               *)

\* Slip: a retry is asked for after the last attempt too.
RejectionAlwaysRetry(r) ==
  [id |-> r.id, user |-> r.user, attempt |-> r.attempt, start |-> r.ts,
   allowed |-> FALSE, retry |-> TRUE,
   due |-> IF r.attempt < LastAttempt THEN now + RetryDelay[r.attempt] ELSE 0,
   ts |-> now]

\* Slip: the delay is counted from when the request was sent.
RejectionDueFromStart(r) ==
  [id |-> r.id, user |-> r.user, attempt |-> r.attempt, start |-> r.ts,
   allowed |-> FALSE, retry |-> r.attempt < LastAttempt,
   due |-> IF r.attempt < LastAttempt THEN r.ts + RetryDelay[r.attempt] ELSE 0,
   ts |-> now]

\* construct_response: the rejection is made when the request is taken, with
\* the time of the retry, and kept until the request is answered.  The code reads
\* the clock for `due` and, right after, for `ts`: one read here, so what counts
\* from `ts` holds up to the time between the two (the delays are 500 ms or more).
Rejection(r) ==
  [id |-> r.id, user |-> r.user, attempt |-> r.attempt, start |-> r.ts,
   allowed |-> FALSE, retry |-> r.attempt < LastAttempt,
   due |-> IF r.attempt < LastAttempt THEN now + RetryDelay[r.attempt] ELSE 0,
   ts |-> now]

\* Slip: an admission still asks for a retry.
AdmissionKeepsRetry(a) == [a EXCEPT !.allowed = TRUE, !.ts = now]

Admission(a) == [a EXCEPT !.allowed = TRUE, !.retry = FALSE, !.ts = now]

TakeRequest(w) ==
  /\ worker[w] = "run" /\ inbox[w] # <<>>
  /\ inbox' = [inbox EXCEPT ![w] = Tail(@)]
  /\ holding' = [holding EXCEPT ![w] = @ \cup {Rejection(Head(inbox[w]))}]
  /\ UNCHANGED <<now, main, senderVars, requestPipe, retryPipe, serverVars,
                 outbox, workerOn, worker, sent>>

Answer(w) ==
  /\ worker[w] = "run"
  /\ \E a \in holding[w] :
       /\ holding' = [holding EXCEPT ![w] = @ \ {a}]
       /\ \E answer \in {a, Admission(a)} :
            outbox' = [outbox EXCEPT ![w] = Append(@, answer)]
  /\ UNCHANGED <<now, main, senderVars, requestPipe, retryPipe, serverVars,
                 inbox, workerOn, worker, sent>>

EndWorker(w) ==
  /\ worker[w] = "run" /\ ~workerOn[w]
  /\ worker' = [worker EXCEPT ![w] = "done"]
  /\ UNCHANGED <<now, main, senderVars, requestPipe, retryPipe, serverVars,
                 inbox, holding, outbox, workerOn, sent>>

Worker(w) == TakeRequest(w) \/ Answer(w) \/ EndWorker(w)

-------------------------------------------------------------------------------
\* The measurement is over and its threads are joined.
Terminating == main = "done" /\ UNCHANGED vars

Next ==
  \/ Tick \/ Main \/ Retrier \/ Server \/ Reader
  \/ \E w \in Workers : Worker(w)
  \/ Terminating

Spec == Init /\ [][Next]_vars

\* Every thread keeps being scheduled, and a limiter answers what it holds
\* (AllAnswered of MCSlidingWindowLive).
FairSpec ==
  /\ Spec
  /\ WF_vars(Main) /\ WF_vars(Retrier) /\ WF_vars(Server) /\ WF_vars(Reader)
  /\ \A w \in Workers :
       WF_vars(TakeRequest(w)) /\ WF_vars(Answer(w)) /\ WF_vars(EndWorker(w))

-------------------------------------------------------------------------------
\* Type invariant: every variable has its type.  The attempts in it matter, for
\* the aggregators index vectors of three elements with them.
TypeOK ==
  /\ now \in Nat
  /\ main \in {"load", "write", "count", "joinRetrier", "joinServer",
               "joinReader", "stopWorkers", "done"}
  /\ users \in 0..Users /\ currentId \in Nat /\ first \in SUBSET Request
  /\ running \in BOOLEAN
  /\ retrier \in {"check", "poll", "due", "write", "count", "done"}
  /\ next \in SUBSET Request /\ retries \in SUBSET Retry
  /\ requestPipe \in Seq(Request) /\ retryPipe \in Seq(Retry)
  /\ server \in {"more", "size", "counts", "take", "done"}
  /\ noMore \in BOOLEAN /\ received \in Nat
  /\ reader \in {"check", "pass", "done"}
  /\ pass \in 0..WorkersNumber /\ held \in SUBSET Response
  /\ readerOn \in BOOLEAN /\ processed \in Nat
  /\ \A line \in journal : line.attempt \in Attempts
  /\ inbox \in [Workers -> Seq(Request)]
  /\ holding \in [Workers -> SUBSET Response]
  /\ outbox \in [Workers -> Seq(Response)]
  /\ workerOn \in [Workers -> BOOLEAN]
  /\ worker \in [Workers -> {"run", "done"}]
  /\ sent \in SUBSET Request

\* The journal main aggregates is complete: when wait() has returned, every
\* request that was ever sent has exactly one line, and nothing else has.  The
\* dispatching thread leaves its loop on three tests of values other threads
\* change, and the reader counts a response before it logs it.
JournalComplete ==
  main \in {"stopWorkers", "done"} =>
    /\ {[id |-> l.id, user |-> l.user, attempt |-> l.attempt, ts |-> l.start] :
          l \in journal} = sent
    /\ Cardinality(journal) = Cardinality(sent)
    /\ processed = Cardinality(sent)

\* What is known of one user: the attempts in the journal are 0, 1, ... without
\* a gap, once each, and only the last of them can be an admission.
AttemptsInTurn ==
  \A l \in journal :
    /\ l.attempt > 0 =>
         \E k \in journal : /\ k.user = l.user
                            /\ k.attempt = l.attempt - 1
                            /\ ~k.allowed
    /\ \A k \in journal : k.user = l.user /\ k.attempt = l.attempt => k = l

\* Two threads take ids from current_id_ without taking turns, so an id may be
\* given twice: but never to two first attempts or to two retries.  The order
\* of a limiter's queue relies on it (response.id() is its last key).
TwinsDiffer ==
  \A r, s \in sent :
    r.id = s.id /\ (r.attempt = 0 <=> s.attempt = 0) => r = s

\* No line ends before it starts (the delay aggregator subtracts unsigned), and
\* a user waits out the delay after a rejection before the next attempt is sent,
\* however long the rejection was on its way to the thread that retries.
Chronology ==
  \A l \in journal :
    /\ l.start <= l.timestamp
    /\ \A k \in journal :
         k.user = l.user /\ k.attempt = l.attempt + 1 =>
           k.start >= l.timestamp + RetryDelay[l.attempt]

\* A user who is told to retry is not forgotten: the retry is in its pipe, waits
\* for its time, or was sent, even when the sender stops.  Only a twin may take
\* its place, the retry of another user whose request got the same id and which
\* fell due at the same time.
RetriesKept ==
  \A l \in journal :
    ~l.allowed /\ l.attempt < LastAttempt =>
      \/ \E r \in ToSet(retryPipe) \cup retries :
           r.user = l.user /\ r.attempt = l.attempt
      \/ \E r \in next \cup sent : r.user = l.user /\ r.attempt = l.attempt + 1
      \/ \E k \in journal :
           /\ k.id = l.id /\ k.user # l.user
           /\ ~k.allowed /\ k.attempt < LastAttempt
           /\ k.timestamp + RetryDelay[k.attempt]
                = l.timestamp + RetryDelay[l.attempt]

\* Every measurement ends: main gets through all its joins, whatever is still
\* in the pipes when the workload is over.
Termination == <>(main = "done")

===============================================================================
