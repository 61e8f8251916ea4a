# Verification of the RPS-limiter test bench

The repository is a test bench ("Тестовый стенд", `README.md`): it plays a
workload against a server of several workers, each driven by a rate-limiting
algorithm, and computes metrics from the journal of responses.  This directory
holds TLA+ models of it, TLC configurations that check them on small instances,
and proofs that TLAPS checks for every value of the constants.

## 1. The system

| part | state it keeps | operations | talks to |
|---|---|---|---|
| `Pipe<T>` (`pipe/pipe.h`) | a queue under a mutex | `read`, `write`, `GetSize` | every other part |
| `Sender` (`sender/`) | `current_id_` (atomic), `current_user_`, `is_running_` (atomic), the set `retries_` | main thread: `send_request` in a loop, then stop and join; `check_retries` in a second thread | writes the request pipe, reads the retry pipe |
| `Server` (`server/server.h`) | `no_more_requests_`, `reader_running_`, `requests_received_`, `requests_processed_` | dispatching thread, reader thread, `wait`, `stop` | request pipe → one pipe per worker; one pipe from each worker → journal and retry pipe |
| `Worker` (`server/worker/worker.h`) | `running_` | loop: `update`, flush the responses, read one request, `add_request` | its two pipes, its `Algorithm` |
| `SlidingWindowDecentralized` (what `main.cpp` runs, 5 nodes, window 110) | `summary_length_`, `last_sync_timestamp_`, `infly_end_timestamps_`, `responses_`, `responses_to_process_` | `update`, `add_request`, `get_responses` | reads the size of every other node's `infly_end_timestamps_`, without a lock |
| `SlidingWindowCentralized`, `LeakyBucketCentralized`, `LeakyBucketCentralizedSet` | queue, in-flight ends or time of the last batch | same interface | nothing shared |
| `FixedWindow`, `TokenBucketSimple`, `TokenBucketDecentralized` | tokens, time of the last refill | `check_request` | the last one reads the other nodes' counts |
| `AlgorithmMock` | none | lets every request pass | |
| `LogsJournal` | log lines | `add_log`, `get_logs` (sorts) | written by the reader thread, read by the aggregators |
| metrics aggregators | none | `aggregate` over the journals of ten measurements | journals |
| workloads | none | requests of every slot of 10 ms, computed when built | `Sender` |

What makes it hard:

- **Concurrency.** Six kinds of threads (main, retries, dispatch, reader, and
  one per worker).  Only pipes lock; flags and counters are plain members,
  nodes read each other's sets while their owners change them.
- **Time.** `system_clock::now()` is read again at almost every use, so a
  decision and the timestamp that records it are different instants.
- **Stale sums.** A node admits against a sum of sizes that is up to ten
  milliseconds old, never lowered when its own entries expire.
- **Bounded queues with eviction**, prepared rejections that wait in the queue
  and keep the timestamp of their arrival.
- **Shutdown** by flags, counters and joins while requests are still on the way.
- **Pacing** by spinning on the clock: the sender may be preempted anywhere, and
  a clock set back makes a spin longer.

What makes each part correct:

- limiter: each request given to `add_request` is answered exactly once, with
  the right flags; a node keeps to its window, in flight and over time as the
  aggregators count it; the queue is bounded; retries go first; every request
  is answered in the end;
- sender and server: ids shared by two requests stay harmless; each user's
  attempts follow one another after their delay; when `wait` returns the
  journal holds exactly one line per request; every measurement ends;
- pipe: a first-in-first-out queue to the threads that share it, however their
  calls overlap;
- pacing: the requests of an entry go out in its slot, evenly, and lost time is
  made up for and never added up;
- aggregators: each computes the quantity its name promises for every journal
  the server can produce, and two failed measurements spoil no mean.

## 2. Modules

| module | models |
|---|---|
| `SlidingWindowDecentralized` | all nodes, with the loops of their workers: `sliding_window_decentralized.h` and `worker.h:46-82` |
| `Limiter` | the abstract promise of an algorithm to its worker; no clock, no threads |
| `SlidingWindowDecentralized_proofs` | the inductive invariant and the theorems, one of them about all nodes together |
| `Testbed` | one measurement: both threads of `Sender`, both of `Server`, workers with an abstract limiter, all pipes, journal and shutdown |
| `Testbed_proofs` | types, ids, the complete journal, the turns of a user and the fate of retries; the mutex of a pipe has one owner, and `Pipe` implements `Fifo` |
| `Fifo` | the abstract promise of a pipe to its threads |
| `Pipe` | `pipe.h`: the mutex, and each access of the queue behind it |
| `Workloads` | the four workloads: how many requests each slot has |
| `Pacing` | `start_execution`: when the requests of a workload are sent |
| `SystemClock` | `system_clock::now()`: time passes, and may be set back |
| `SystemClock_proofs` | types and rate of `SimpleBuckets`; types and schedule of `Pacing` |
| `QueuedLimiter` | what the three centralized limiters share: the worker's loop, prepared rejections, the flush |
| `PriorityLimiter` | extends it by the priority queue and `add_request` of two of them |
| `SlidingWindowCentralized`, `LeakyBucketCentralizedSet` | extend `PriorityLimiter` by their `update` |
| `LeakyBucketCentralized` | extends `QueuedLimiter` by a plain queue and its `update` |
| `SlidingWindowCentralized_proofs`, `LeakyBucketCentralized_proofs`, `LeakyBucketCentralizedSet_proofs` | their types and rates, and that they implement `Limiter` |
| `SimpleBuckets` | `check_request` with `refill_bucket` of `FixedWindow` and `TokenBucketSimple` |
| `TokenBucketDecentralized` | the same, for nodes that read each other's counts |
| `TokenBucketDecentralized_proofs` | types, the bound on what one node admits, and that sums never fall |
| `AlgorithmMock` | the mock, under the loop of the present worker |
| `MetricsAggregators` | a journal, its sort, the numbers of the five aggregators and their means over the journals |
| `MetricsAggregators_proofs` | types, and what each aggregator computes, for every journal |
| `MC...` | instances for TLC |

### SlidingWindowDecentralized

`now` is the clock; `pc[n]` says where the worker of node `n` stands in its
loop.  One step is the code between two accesses to what another thread writes
or between two reads of the clock that may differ:

| step | code |
|---|---|
| `StartSync`, `SkipSync` | the test of line 42, `summary_length_ = 0` |
| `ReadSize` | one iteration of 44-46: one other node's size |
| `EndSync` | line 47, with its own read of the clock |
| `Return`, `Proceed` | line 49 |
| `Expire`, `ExpireDone` | one iteration of 52-54, its end |
| `Stamp`, `Book`, `AdmitDone` | 55-63, 64-67, the end of the loop |
| `Flush`, `ReadNothing`, `AddRequest` | `worker.h:52-61`; `AddRequest` is all of `add_request` |
| `Tick` | a millisecond passes, between any two steps |

Data that no property tells apart is left out: users, start and retry times
are in `Testbed`.  The multiset of end times is a set of records that keep the
admission each end belongs to (`of`), so equal ends stay distinct.  A request
is its id and attempt; `add_request` reads the clock twice in a row (110, 111),
which is one read here since both only order the queue.  A worker may find any
unread request in its pipe, or none.  `*begin()` of an empty set at line 49 is
undefined: both branches are allowed.  The operators named as slips next to a
definition are plausible mistakes in that code; nothing uses them, and each
breaks a property when put in the definition's place.

### Limiter and the refinement

`Limiter` has three variables: `unread`, `waiting[n]` and `answers[n]`.  A step
takes a request, or takes one and rejects one (the newcomer or one that waited),
or admits one that waited, provided fewer than `Window` admissions of that node
are alive at its stamp.  `SlidingWindowDecentralized` implements it with
`waiting[n]` the requests of its queue and `answers[n]` its responses
(`ImplementsLimiter`); all other steps stutter.  The workers of `Testbed` use
the first half of this promise: they answer each request they hold once, at
some time, either way.

### Testbed

Every thread has a variable that says where it stands: `main`, `retrier`,
`server`, `reader`, `worker[w]`.  The read of `current_id_`, the write to the
pipe and the increment are three steps in both sending threads.  The loop
condition of the dispatching thread is three steps (`TestMore`, `TestSize`,
`TestCounts`), since each reads what another thread writes.  The reader counts
(`Collect`) and logs (`Log`) in two.  `wait` and `stop` are the steps of `main`
from `JoinRetrier` on; `stop` stops and joins one worker after the other, and
the reader visits the workers in order (`pass`).  `retries_` drops a retry with
the due time and id of another, as `std::set` does; `RetriesKept` says that this
is the only way a retry is lost.  `construct_response` reads the clock for the
time of the retry and, right after, for the timestamp of the rejection; the
model reads it once, so what is counted from that timestamp (`Chronology`,
`RetriesKept`, `LoggedInTurn`) holds up to the time between the two reads;
the delays are 500 ms or more.  Main may send its next request at any time:
when it does is `Pacing`.  `sent` is a history variable.

### Pipe and Fifo

A call is one step, and so is each access it makes: `LockToWrite`, `FindEnd`,
`Store` (`write`, 41-44), `LockToRead`, `FindEmpty` or `FindFront` and `Pop` (`read`,
17-25), `LockToCount`, `Count` (`GetSize`, 64-67), and `Unlock`, the end of the
guard's scope on every way out.  An access that changes the queue does so to the
queue as an earlier access found it (`seen`), so that two operations that
overlapped would lose or duplicate an item.  `Fifo` has one step for each
operation; `Pipe` implements it: `Store`, `FindEmpty`, `Pop` and `Count` are
those steps, all others are calls, returns or stutters.  `Testbed` and the
limiters take an operation of a pipe as one step, which this refinement
justifies.

### Workloads and Pacing

`Workloads` computes the vectors of the four classes in whole numbers.  The sine
of the standard library may have any value of `Sines` at any entry (none below
zero for the half turn of the parabolic workload).  In `Pacing` a tick is a
microsecond, `Slot` the ten milliseconds of an entry; `StartEntry` and `SkipEntry`
are `sender.cpp:54-56`, `Send` line 57, `Pace` 58-60, `EndSpin` 61-65, `Wake` the
sleep before and `Finish` the end after.  Time passes by itself while the thread
sleeps or spins (`PassWaiting`); the time that passes at any other step is
counted in `late`, which stands for preemption and for the time the code takes.
`began` and `sends` are history.  `Pacing` and `Pipe` have names of their own for
what every module has (`PacingInit`, `PipeSpec`, ...), so that their proofs can
share a module with those of another.

### SystemClock

`elapsed` is the time that really passed, `now` what the clock shows; `SetBack`
moves `now` anywhere into the past, as a clock that is adjusted may.  Rates are
stated over `elapsed`.  `Since` is the unsigned 64-bit difference that lines 30
(fifo), 42 (set), 42 (fixed window) and 42 (token bucket) compute or compare:
it is huge when the stored time is ahead of the clock.
`TokenBucketDecentralized` subtracts signed times, and `SlidingWindowCentralized`
compares two times without a difference.

### The centralized limiters

`pc` goes through the loop of `worker.h:46-82` once more: the steps of `update`,
then `flush`, then `read`.  A step ends where the clock is read again: testing
whether a batch is due (`Open`, `Wait`), booking its time (`Mark`) and each
stamp (`Release`) are separate; so are `Stamp` and `Book` in the sliding window.
`admitted` is a history variable: the requests admitted, each with the `elapsed`
time of its admission.
All three implement `Limiter` with a single node.  `Limiter` limits admissions
alive at a stamp; these limiters state their rates themselves, so it is
instantiated with a life of nothing.

| action | sliding window | leaky bucket | leaky bucket, set |
|---|---|---|---|
| nothing to do / go on | `Return`, `Proceed` (38) | `Wait`, `Open` (30) | `Wait`, `Open` (42) |
| book-keeping | `Expire` (41-43) | `Mark` (33) | `Mark` (45-47) |
| admit | `Stamp`, `Book` (44-57) | `Release` (35-46) | `Release` (48-62) |
| end | `AdmitDone` | `EndBatch` | `EndBatch` |

### The buckets

The present worker calls `check_request` of no algorithm; the models let callers
call it at any time.  A call of `FixedWindow` or `TokenBucketSimple` reads the
clock once and is one step, `CheckWindow` or `CheckBucket`; which of the two a
behaviour is about is chosen at its start; `admitted` is a history variable, the
`elapsed` time of each admission.  `TokenBucketDecentralized` is
split like the sliding window: `StartSync`, `ReadCount` (one other node's
count), `EndSync`, `Refill`, then `Admit` or `Refuse`.  Tokens are doubles in
the code and whole parts of a token here, so rounding is left out.

### AlgorithmMock

`Update`, `FlushNull`, `Flush` and `Read` are the loop of the worker;
`GetResponses` is the null pointer the mock returns.  `FixedWindow` and the
token buckets return the same and would meet the same end.

### MetricsAggregators

`AddLog` appends a line in any order of timestamps that keeps a user's attempts
in turn (`MayFollow`), as the journal of `Testbed` is proved to do
(`LoggedInTurn`, section 4); `GetLogs` sorts
by timestamp and leaves equal ones in any order.  The aggregators are operators
of the sorted journal that keep the shape of the code: one pass that stops at
the first late line (`Measured`), the sliding sum (`Rps`), the vector that each
admission adds a flight to (`Fly`, `Infly`), the maps of the user metric
(`UserLine`), the mean `Delay`.  The properties compare them with the same
quantities counted from the set of lines.

One journal is followed line by line; then it hands its figures to the vectors
of all metrics (`Collect`), the other journals add figures of their own, any of
`Others` (`CollectOther`), and `Average` sorts the vectors.  `Mean` leaves out the
two lowest and the two highest.  The spread printed behind it is one-sided: the
distance from the mean to the highest figure kept.

## 3. What is checked

| run | instance | properties | shows |
|---|---|---|---|
| `nodes` | 2 nodes, window 1, life 2, sync period 1, queue 1+1, four requests, clock 0..2 | `TypeOK`, `WindowHeld`, `RateHeld`, `RetriesFirst`, `ImplementsLimiter` | sums of sizes that interleave with admissions, full windows and queues, who is evicted, the refinement |
| `answers` | 2 nodes, endless clock | `AllAnswered` | no request waits for ever |
| `testbed` | 2 users, 2 workers, clock 0..1 | `TypeOK`, `JournalComplete`, `TwinsDiffer`, `AttemptsInTurn`, `Chronology`, `RetriesKept`, `Termination` | what the journal holds, which retries are lost, and that every join is reached, up to the end of a measurement |
| `sliding_centralized` | window 1, life 2, queue 1+1, four requests, 4 ms, one set-back | `TypeOK`, `RateHeld`, `RetriesFirst`, `ImplementsLimiter` | at most a window per life in real time, even when the clock is set back |
| `leaky_fifo` | batches of 1 every 2 ms, queue 1+1, four requests, 4 ms, one set-back | `TypeOK`, `LongRunRate`, `PeakRate`, `ImplementsLimiter` | see below |
| `leaky_set` | the same, 5 ms | the same | see below |
| `buckets` | 2 tokens every 2 ms; capacity 2, 2/3 token per ms; 7 ms, two set-backs | `TypeOK`, `RateHeld` | admissions over every stretch of time |
| `token_buckets` | 2 nodes, capacity 1, half a token per ms, 4 ms, one set-back | `TypeOK`, `NodeConforms`, `SpentNeverFalls` | sums of counts that interleave with admissions |
| `journal` | 2 users, up to 4 lines, timestamps 0..5, duration 4, span 2, a retry after 1 ms at least, 6 journals | `TypeOK`, `RpsRight`, `FlightsRight`, `UsersRight`, `MeanIsRobust` | the aggregators, for every such journal and every order of equal timestamps, and the means |
| `pipe` | 3 threads, 2 items, at most 3 in the queue | `PipeTypeOK`, `ImplementsFifo` | operations that overlap |
| `pacing` | 3 entries of 0 to 3 requests, 4 ticks a slot, 2 ticks lost, one set-back | `PacingTypeOK`, `WellPaced`, `Finishes` | the schedule under delays; the end of the workload also when the clock is set back |
| `mock` | two requests | `LetsEveryRequestPass` (violated) | the finding below |

What the rates turn out to be.  A leaky bucket may put two batches into one
`TimeDelta` (`PeakRate`): a batch is due by one read of the clock and stamped
by later ones, so a late batch and the punctual next one can meet.  With periods
(`LeakyBucketCentralizedSet`) even three can, since the booked time is rounded
down; the long-run rate is one batch a period in both (`LongRunRate`).  A clock
set back gives the fixed window, the token bucket and the leaky bucket one
window, bucket or batch at once, because the negative difference is unsigned, and the
bucket with periods up to two; it gives nothing to the sliding window
or to a node of the decentralized token bucket, whose comparisons are signed.
Several nodes of the token bucket together may admit a capacity each before they
see one another's counts, so only one node's rate is stated.  Nodes of the sliding
window that add up the sizes while none has anything in flight may all fill their
windows; a window for each node is also the most there can be (`TotalHeld`,
section 4).

What the pacing turns out to be.  A sender that falls behind sends what is left
of the slot without a pause, and an entry that begins late still ends on time:
delays never add up beyond the time that was really lost.  An entry that rounds
to no request takes no time, so a workload below a hundred requests per second
runs ahead of its seconds; `DueAt` counts the entries with a request.  A clock
set back makes the spin as much longer; `Finishes` holds all the same,
`WellPaced` claims nothing then.

The finding.  `algorithm_mock/README.md` says the mock lets every request pass
and may serve for demonstrations and tests.  Under the present worker the first
pass of the loop dereferences the null pointer that `get_responses` returns
(`worker.h:52-53`), and `check_request`, which says yes, is called nowhere.

Bounds.  The window, the queue and the life are small enough for all limits to
be reached together: one entry fills a window, and three or four requests
leave one waiting, one evicted and one to come; with a life or period of 2 and
a clock that runs for 2 to 8 ms entries expire and their places are taken
again, and the rates of the limiters with one instance are seen over several
periods.  In `nodes` a queue of cap 1 (two responses) is what it takes to tell
its first place from its last; the four requests that fill it leave room for
one life of the clock and the beginning of the next, in 4.5 million states.  Two nodes are enough for a
sum that is wrong both ways (it misses an admission, or counts an entry already
dropped).  Two users are enough for two threads to draw the same id while a
retry is on its way.  Four lines are one user's three attempts and another's
first, or a flight of two.  Three threads are a writer, a reader and one more of
either kind; a queue of up to three items (a write is called while there is none,
and three may be under way) is empty, has one item or several.  Six journals leave two after the
trimming.  Two ticks lost are half a slot, and with up to three requests in a slot of four
ticks the shares are uneven and a late thread meets an exhausted slot.  The
bounds that are not in the code are `MaxTime` (after it the clock stands still
and everything else goes on; in `pacing` it is more than any behaviour needs),
`MaxSetBacks`, `MaxLines`, `Lags`, `Others`, `MaxLength` (a writer calls only
while the queue is shorter) and `MaxLate`; `Word` is far above every sum of
times, as 2^64 is.

Clock of the run `answers`.  Progress needs time that goes on for ever.
`MCSlidingWindowLive` keeps `now` at `MaxTime` and moves all other timestamps
into the past instead (`Rebase`), down to 0, which is older than any test asks.

Fairness.  Each worker's step, each thread and the passing of time are weakly
fair: the threads are runnable all the time (they poll, they never block except
in `join`), and the kernel schedules runnable threads.  Nothing is assumed about
which request a worker finds or about admissions.  That a thread gets through an
operation of a pipe takes a mutex that starves nobody, which the fairness of
each thread of `Testbed` includes.  `Pacing` needs its thread and the passing of
time to be fair.  `Testbed` assumes that a limiter answers what it holds; `AllAnswered` shows it for
the nodes.

Shared plain variables.  The build type is not set in `CMakeLists.txt`, so each
access is a memory access; the models take them as indivisible and in program
order.

## 4. What is proved

`SlidingWindowDecentralized_proofs`, for every number of nodes, window, life,
period, queue cap, set of requests and clock bound (assumptions: they are
natural numbers, at least one node, requests are pairs of an id and an attempt
0..2):

- `TypeCorrect`, `WindowCorrect`, `RateCorrect`: `Spec => []P` for `TypeOK`
  (which includes `QueueBounded`), `WindowHeld` and `RateHeld`;
- `RetriesFirstCorrect`: the action property `RetriesFirst`;
- `LimiterCorrect`: `Spec => ImplementsLimiter`;
- `TotalCorrect`: `Spec => []TotalHeld`, all nodes together have at most
  `NodesNumber * Window` admissions in flight.  No run checks it: it follows from
  `RateHeld` of each node, by adding up the nodes (`TotalGrows`).  The window of the
  whole server, 110, is what the nodes add up sizes for, but the code
  bounds the sum of the nodes by five times that only.

The argument.  `WindowHeld` is not inductive: `Book` admits on the summary, not
on the set.  `CountsOwn` says that the summary of a node is at least the size
of its own set, except between the moment a synchronisation clears it and the
moment it reads its own size; what other nodes do in between never matters,
since they only make it larger.  `RoomToBook` carries the test of line 56 to
line 65.  For the rate, `InFlightOrPast` says that an admission no longer in the
set has had its whole life by the stamp of the next one: so all admissions alive
at that stamp are in the set, which is smaller than the window
(`RoomInTheWindow`).  `OnePlace` (a request is unread or waits once) makes the
refinement exact.  `IInv` is the conjunction.

`TokenBucketDecentralized_proofs`, for every number of nodes, capacity, rate,
pair of periods and number of set-backs: `TypeCorrect` and `NodeConformsCorrect`
(`Spec => []P`), and `SpentCorrect`, the action property `SpentNeverFalls`.

- The bound of a node has the same shape as above: a node believes
  spent at least what it admitted itself, and so does the sum under way once it
  is past the node's own count (`CountsOwn`); so what it admitted stays within its
  limit (`WithinLimit`), and the limit is the capacity and what the rate earned up
  to the last raise, which is never later than the time that passed
  (`LimitEarned`).
- For the sums, `InTurn` gives each node a course of partial sums: what the
  first *i* nodes added to the sum it uses is, for each *i*, at most what they
  added to the sum under way, since counts only grow.  So the new sum
  is never below the one it replaces, and a limit, which was at most a capacity
  above the old sum, is at most a capacity above the new one (`LimitCapped`).

The pipe, in `Testbed_proofs`, for any threads and any items: `PipeTypeCorrect`,
`PipeSpec => []PipeTypeOK`, and `FifoCorrect`, `PipeSpec => ImplementsFifo`.  The
argument: a thread is inside an operation exactly when it holds the mutex (`Exclusive`),
so what it has found in the queue is still there when it changes the queue
(`Fresh`).

`SlidingWindowCentralized_proofs`, for every window, life, queue cap, set of
requests and number of set-backs: `TypeCorrect`, `RateCorrect`,
`LimiterCorrect`, `RetriesFirstCorrect`.  `Prepared` says that each entry of the
queue is the rejection of one request that was read.  The code tests the size of
`infly` for equality with the window; `Sizes` says why that is enough.  `InFlight`
says that each admission that is less than a life old has an entry that ends no
earlier: the clock is behind the real time (`Behind`), so an entry never expires
too soon.  As each request is admitted once (`AdmittedOnce`), the admissions
alive are no more than the entries (`AliveFit`), which are fewer than the window
where one is booked.

`LeakyBucketCentralized_proofs` and `LeakyBucketCentralizedSet_proofs`, for every
batch size, `TimeDelta`, queue cap, set of requests and number of set-backs:
`TypeCorrect`, `LongRunCorrect`, `PeakCorrect`, `LimiterCorrect`.  The rates are
about all admissions of a run, and the state remembers one time only.  The
inductive invariant ties that time, `lastCheck`, to the real time at which the
batch was marked (`Linked`): unless the clock was set back since, it has moved on as much as
the real time has.  `Batches` counts the batches against the real time of the last:
each is a period after the one before it, or was brought forward by a set-back
that no other batch has used.  `Peaks` bounds, for every stretch of `TimeDelta`,
what was admitted in it, by where it lies: it holds the last batch, or that and
earlier ones, or earlier ones only.  With periods the time is rounded down to
the start of its period (`Aligned`), so a window may touch one more batch, and a set-back both brings a batch
forward and costs the period of another; hence three batches, and two more for each
set-back.  `RetriesFirstCorrect`, for the bucket with the priority queue, is the
action property the sliding windows have too: the queue is sorted, so what is
released is not after what waits, and what is turned away is.  No run checks it for
this limiter, whose queue is the `PriorityLimiter` the run `sliding_centralized`
exercises.

The buckets, in `SystemClock_proofs`, for any tokens, capacity, rate, period and
number of set-backs: `TypeCorrect` and `RateCorrect`.  `Filling` says that the last refill
was made at a real time *e*, after *s* set-backs (`Linked`, as above), and bounds,
for every time a stretch may begin, the sum of what was admitted since and
what is left: by a window for each renewal and the one that was open
(`WindowFill`), or by a bucket, one more for each set-back, and what dripped in
(`BucketFill`).  An admission only moves a token from one part of this sum to the
other; a refill adds what the stretch has earned since *e*, or, when the
unsigned difference is huge, a bucket or window that a set-back accounts for.

The pacing, in `SystemClock_proofs`, for any rates, slot, sines and number of
set-backs: `PacingTypeCorrect`, `PacingSpec => []PacingTypeOK`, and
`WellPacedCorrect`, `PacingSpec => []WellPaced`.

- Types include the range of the entries.  `GeneratedRates` shows for each of the
  four classes that no entry leaves the given rates, whatever its roundings do:
  division and rounding keep the order (`QuotientOrder`, `RoundOrder`), and a
  rounded swing is at most the rounded half difference.
- `Scheduled` says that each entry began in its turn, in a slot after that of the
  one before, and later than its turn by at most the time lost
  (`BegunInTurn`); and that the next one will, since the last wait of an entry ends
  when its slot does, or at once if the slot is over (`NextInTurn`).
- `Spread` says that there is a *q* such that the requests sent are *q* or *q* + 1
  ticks apart and what is left of the slot can still be shared in parts of *q* and
  *q* + 1 ticks.  The share the code computes anew for each request is one of the
  two, and leaves a rest that can be shared likewise (`NextShare`).

`MetricsAggregators_proofs`, for journals of any length, any users, timestamps,
duration, span and number of journals above four: `TypeCorrect`, `RpsCorrect`,
`FlightsCorrect`, `UsersCorrect` and `MeanCorrect`, `Spec => []P` for `TypeOK`,
`RpsRight`, `FlightsRight`, `UsersRight` and `MeanIsRobust`.  The state has little to
do with it: `IInv` says that the lines of a user are its attempts in turn, also after the
sort (`Turned`: a retry is answered later than the rejection it follows, so equal
timestamps are of different users), that each metric has a figure of each
journal, and that the averaged vectors ascend.  The rest is about the operators.

- Each aggregator runs through a prefix of the lines, those in time
  (`MeasuredPrefix`).  A fold, and the sum over a set, is a function chosen by its
  recursion: `RecursionExists` and `AddsExists` show that there is one.  A claim
  about what the function has at line *m* is then proved by the smallest *m* at which
  it fails (`Smallest`), which takes no induction theorem.
- `RpsCounts`: the sliding sum is a count (`Recent`), since at each millisecond one
  group of lines enters it and another leaves (`RecentMoves`).
- `InflyCounts`: entry *i* of the vector counts the flights so far that are aloft at
  *i* (`AloftStep`); `FlightsFit`: none leaves the vector.  `OverflowFacts`: a
  sum of squares is positive when one of them is (`SumFacts`).
- `StatsTallied`: the counts of the user metric, the closed users, and, because the
  attempts come in turn, their times (`Timed`).
- `SortedFacts`: places have different ranks (`RankOrder`), so ranking is a
  bijection and the sorted vector a rearrangement.  `KeptInRange`: two lowest and
  two highest leave out every figure of two journals, whatever these have;
  `MeanInRange`: the mean of numbers in a range is in it, whole division included.

`Testbed_proofs`, for any numbers of users and workers and any delays:

- `TypeCorrect`, `Spec => []TypeOK`.  Types need `AttemptsLeft` beside them: a
  retry is asked for, and travels, only for an attempt before the last.
- `TwinsCorrect`, `Spec => []TwinsDiffer`.  `MainIds` and `RetrierIds` say, for
  each sending thread, that the id it will use next, once it has counted the last one, is above all ids
  it has used.  The other thread can only raise `current_id_`, also between the read
  and the increment.
- `JournalCorrect`, `Spec => []JournalComplete`.  `Conserved` says that every
  request sent is in
  exactly one place: the pipe to the server, a worker's pipe, its limiter, the
  pipe from it, the hand of the reader, or the journal; every step moves one
  request or adds a new one, which is new because of `Ids`.  `Counted` ties
  `received` and `processed` to these places.  `Stages` says that each test the
  dispatching thread has passed stays true, because by then nobody sends.  So
  equal counts on an empty pipe leave no place for a request but the hand of the
  reader and the journal (`AllLogged`); from then on the reader finds nothing more
  to collect (`NothingLeft`), and its hand is empty when it ends (`Stages`).
- `TurnsCorrect`, `ChronologyCorrect`, `RetriesCorrect`: `Spec => []P` for
  `AttemptsInTurn`, `Chronology` (whose delays are counted from the timestamp of
  the rejection) and `RetriesKept`.  `Timely` says that nothing
  is answered before it was sent.  `SentTurns` says that a user sends each
  attempt once, and only when each earlier one has a rejected line in the journal
  whose delay is over.  `RetryTurns` says that a user has at most one retry
  waiting, in the retry pipe or in `retries_`, that it belongs to a line of the
  journal, and that no later attempt was sent.  A retry starts when a line is
  logged; the line is new because the reader holds a request
  that is nowhere else (`Conserved`), so the retry is the only one of its user.  `std::set` drops it
  only when another with its due time and id is there, whose line `RetriesKept`
  names.  `Conserved` also turns the statement about what was sent into one about
  the journal: a line is about a request that was sent.
- `LoggedCorrect`, `Spec => LoggedInTurn`: whenever a line is logged, the journal
  has all earlier attempts of its user, rejected and waited for, and no later one.
  This is `MayFollow`, which `MetricsAggregators` assumes of each line it appends: the
  theorem joins the two models (the delays of the limiters are 500 ms or
  more, `RetryDelay` of `MetricsAggregators` asks for one).

Left to TLC: liveness (`AllAnswered`, `Termination`, `Finishes`), which the
provers do not cover, and the violation (`LetsEveryRequestPass`).  Every other
property of section 3 is a theorem.  The theorems assume of the constants what the
`ASSUME`s of the modules say, which the runs evaluate; `MaxTime` and the other bounds
of model checking may be any natural numbers.

## 5. Plan

1. *(done)* `SlidingWindowDecentralized`, `Limiter`, the refinement and proofs.
2. *(done)* `Testbed` and its shutdown.
3. *(done)* The centralized limiters, implementing `Limiter`.
4. *(done)* The buckets under a clock that may be set back, and the bound of
   one node of the decentralized token bucket proved.
5. *(done)* All five aggregators against reference definitions, and the means
   over the journals.
6. *(done)* The pipe, as a refinement of a queue, proved; the workloads and the
   pacing of the sender.
7. *(done)* `TypeOK`, `TwinsDiffer` and `JournalComplete` of `Testbed` proved.
8. *(done)* `AttemptsInTurn`, `Chronology` and `RetriesKept` proved, on `Conserved`.
9. *(done)* Types, rates and `ImplementsLimiter` of the centralized limiters
   proved; types and rate of `SimpleBuckets`; types and sums of
   `TokenBucketDecentralized`.
10. *(done)* The types and the schedule of `Pacing`; all aggregators and the means;
   what all nodes of the sliding window admit together; that the journal is what
   the aggregators assume.
11. A clock set back in `SlidingWindowDecentralized` and `Testbed`; a lower bound on
   what a limiter admits when requests wait, which no document promises yet.

## 6. Not modelled

The list with reasons is in `PROJECT.json` (`components`).  In short:

- output files and formatting, and the nine other measurements of `main`, which
  share nothing with the one in `Testbed`;
- a journal without a line (an aggregator would read `logs[0]` of an empty
  vector), one that admits nobody (the mean over no users is 0/0), and means of
  four journals or fewer: `main` produces none of them;
- the rounding of doubles;
- the random draw of a worker, taken as any worker;
- a clock set back in `SlidingWindowDecentralized`, `Testbed` and the run
  `answers`.
