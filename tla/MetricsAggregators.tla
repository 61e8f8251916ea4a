-------------------------- MODULE MetricsAggregators --------------------------
(***************************************************************************)
(* The journal of a measurement and what the aggregators compute from it.  *)
(* Responses are logged in the order the reader finds them, which is not   *)
(* the order of their timestamps; an aggregator has the journal sorted by  *)
(* timestamp first, with equal timestamps in any order, and stops at the   *)
(* first line past the duration.  The lines of a user are those Testbed    *)
(* can produce: its attempts in turn, until one is admitted.               *)
(*                                                                         *)
(* Every journal gives one figure to each metric, and main.cpp prints the  *)
(* mean of the ten without the two lowest and the two highest.  One        *)
(* journal is followed line by line; of the others, which share nothing    *)
(* with it, only the figures matter.                                       *)
(***************************************************************************)
EXTENDS Integers, FiniteSets, Sequences, SequencesExt

CONSTANTS
  Users,       \* the users of a measurement
  MaxTime,     \* bound on the timestamps (model checking only)
  MaxLines,    \* bound on the lines of a journal (model checking only)
  Lags,        \* how long a response may take, ms (model checking only)
  RetryDelay,  \* least time from a rejection to the next attempt
  Duration,    \* duration_seconds in ms (10000)
  Span,        \* the length of the sliding sum and of a flight, ms (100)
  WarmUp,      \* first millisecond that counts as overflow (1000)
  Capacity,    \* requests in flight that are no overflow (110)
  Word,        \* 2^64 in the code
  Journals,    \* journals.size() (10)
  Parts,       \* parts of a millisecond, or of any figure that is a double
  Others       \* the figures of the other journals (model checking only)

Attempts == 0..2
LastAttempt == 2

ASSUME TimesAssumption ==
  /\ MaxTime \in Nat /\ MaxLines \in Nat /\ Lags \subseteq Nat /\ RetryDelay \in Nat \ {0}
  /\ Duration \in Nat /\ Span \in Nat \ {0} /\ WarmUp \in Nat /\ Capacity \in Nat
  /\ Word \in Nat /\ Word > MaxTime

ASSUME JournalsAssumption ==
  Journals \in Nat /\ Journals > 4 /\ Parts \in Nat \ {0} /\ Others \subseteq Nat

VARIABLES
  logs,    \* logs_ of the journal
  figures, \* the vector of figures of each metric, one figure for each journal
  phase    \* "measuring", "measured", "sorted", "collecting", "averaged"

vars == <<logs, figures, phase>>

LogLine == [ts : 0..MaxTime, start : Nat, allowed : BOOLEAN,
            user : Users, attempt : Attempts]

Metrics == {"delay", "overflow", "time", "attempt1", "attempt2", "rejected"}

Init ==
  /\ logs = <<>>
  /\ figures = [m \in Metrics |-> <<>>]
  /\ phase = "measuring"

-------------------------------------------------------------------------------
(* Measuring.                                                              *)

UserLines(log, u) == {i \in DOMAIN log : log[i].user = u}

\* The line may be the next of its user, whose lines are logged in turn.
MayFollow(line) ==
  LET own == UserLines(logs, line.user)
      last == logs[Max(own)]
  IN  IF own = {} THEN line.attempt = 0
      ELSE /\ ~last.allowed
           /\ line.attempt = last.attempt + 1
           /\ line.start >= last.ts + RetryDelay

AddLog ==
  /\ phase = "measuring"
  /\ Len(logs) < MaxLines
  /\ \E u \in Users, t \in 0..MaxTime, lag \in Lags, a \in Attempts, ok \in BOOLEAN :
       LET line == [ts |-> t, start |-> t - lag, allowed |-> ok,
                    user |-> u, attempt |-> a]
       IN  /\ line.start >= 0
           /\ MayFollow(line)
           /\ logs' = Append(logs, line)
  /\ UNCHANGED <<figures, phase>>

\* An aggregator reads logs[0] unasked, so a journal has a line.
EndMeasurement ==
  /\ phase = "measuring"
  /\ logs # <<>>
  /\ phase' = "measured"
  /\ UNCHANGED <<logs, figures>>

-------------------------------------------------------------------------------
(* get_logs: std::sort by timestamp.                                       *)

\* Slip: sorted by the time the request was sent.
ComesByStart(a, b) == a.start < b.start

Comes(a, b) == a.ts < b.ts

Rearranged(log) ==
  {[i \in DOMAIN log |-> log[p[i]]] : p \in Bijection(DOMAIN log, DOMAIN log)}

\* Each aggregator has the journal sorted again.
GetLogs ==
  /\ phase \in {"measured", "sorted"}
  /\ phase' = "sorted"
  /\ \E log \in Rearranged(logs) :
       /\ \A i, j \in DOMAIN log : i < j => ~Comes(log[j], log[i])
       /\ logs' = log
  /\ UNCHANGED figures

-------------------------------------------------------------------------------
(* The aggregators, on a sorted journal.                                   *)

StartTime(log) == log[1].ts
Offset(log, line) == line.ts - StartTime(log)

\* Slip: the line at the very end of the duration is still counted.
IsLateAfter(log, line) == line.ts > StartTime(log) + Duration

IsLate(log, line) == line.ts >= StartTime(log) + Duration

\* The lines before the break
Measured(log) ==
  LET late == {i \in DOMAIN log : IsLate(log, log[i])}
  IN  IF late = {} THEN log ELSE SubSeq(log, 1, Min(late) - 1)

Count(log, Test(_)) == Cardinality({i \in DOMAIN log : Test(log[i])})

\* MetricsAggregatorRPS: the sliding sum over requests_per_ms_by_attempts
PerMs(log, attempt, i) ==
  Count(Measured(log), LAMBDA l : l.attempt = attempt /\ Offset(log, l) = i)

\* Slip: the sum forgets a millisecond too early.
LeavesEarly(log, attempt, i) ==
  IF i + 1 >= Span THEN PerMs(log, attempt, i + 1 - Span) ELSE 0

Leaves(log, attempt, i) == IF i >= Span THEN PerMs(log, attempt, i - Span) ELSE 0

Rps(log, attempt) ==
  LET current[i \in 0..(Duration - 1)] ==
        (IF i = 0 THEN 0 ELSE current[i - 1])
          + PerMs(log, attempt, i) - Leaves(log, attempt, i)
  IN  current

\* MetricsAggregatorInfly: each admission adds one to Span entries of the vector
Fly(v, from) ==
  [i \in DOMAIN v |-> IF i \in from..(from + Span - 1) THEN v[i] + 1 ELSE v[i]]

Infly(log) ==
  FoldLeft(LAMBDA v, l : IF l.allowed THEN Fly(v, Offset(log, l)) ELSE v,
           [i \in 0..(Duration + Span - 1) |-> 0], Measured(log))

\* MetricsAggregatorInflyOverflow: the squares of what exceeds the capacity
Excess(x) == IF x > Capacity THEN (x - Capacity) * (x - Capacity) ELSE 0

Overflow(log) ==
  LET v == Infly(log)
  IN  MapThenSumSet(LAMBDA i : Excess(v[i]), WarmUp..(Duration - 1))

\* MetricsAggregatorUser: what one line does to the maps and the counts
UserStart ==
  [time |-> [u \in Users |-> 0], closed |-> {},
   attempt1 |-> 0, attempt2 |-> 0, rejected |-> 0]

Counted(s, l) ==
  CASE l.attempt = 0 -> [s EXCEPT !.time[l.user] = l.ts]
    [] l.attempt = 1 -> [s EXCEPT !.attempt1 = @ + 1]
    [] l.attempt = 2 /\ l.allowed -> [s EXCEPT !.attempt2 = @ + 1]
    [] OTHER -> [s EXCEPT !.rejected = @ + 1]

\* Slip: the user's time is not taken relative to its first attempt.
CloseAbsolute(s, l) ==
  [s EXCEPT !.closed = @ \cup {l.user}, !.time[l.user] = l.ts]

Close(s, l) ==
  [s EXCEPT !.closed = @ \cup {l.user}, !.time[l.user] = (l.ts - @) % Word]

UserLine(s, l) ==
  IF l.allowed THEN Close(Counted(s, l), l) ELSE Counted(s, l)

UserStats(log) == FoldLeft(UserLine, UserStart, Measured(log))

\* The mean time of the closed users; with nobody closed it is 0/0.
MeanTime(s) ==
  (Parts * SumFunctionOnSet(s.time, s.closed)) \div Cardinality(s.closed)

\* MetricsAggregatorDelay: the mean time from a request to its response
Delay(log) ==
  LET lines == Measured(log)
  IN  (Parts * MapThenSumSet(LAMBDA i : (lines[i].ts - lines[i].start) % Word,
                             DOMAIN lines)) \div Len(lines)

-------------------------------------------------------------------------------
(* The figures of all journals: collected, sorted and averaged.            *)

FigureOf(log) ==
  LET s == UserStats(log)
  IN  [delay |-> Delay(log), overflow |-> Overflow(log), time |-> MeanTime(s),
       attempt1 |-> Parts * s.attempt1, attempt2 |-> Parts * s.attempt2,
       rejected |-> Parts * s.rejected]

Push(figure) == figures' = [m \in Metrics |-> Append(figures[m], figure[m])]

Collect ==
  /\ phase = "sorted"
  /\ UserStats(logs).closed # {}
  /\ Push(FigureOf(logs))
  /\ logs' = <<>>
  /\ phase' = "collecting"

CollectOther ==
  /\ phase = "collecting"
  /\ Len(figures["delay"]) < Journals
  /\ \E x \in Others : Push([m \in Metrics |-> x])
  /\ UNCHANGED <<logs, phase>>

\* std::sort: equal figures may come in any order, since none can be told from
\* another; here they keep theirs.
Rank(v, i) ==
  Cardinality({j \in DOMAIN v : v[j] < v[i] \/ (v[j] = v[i] /\ j <= i)})

Sorted(v) == [k \in DOMAIN v |-> v[CHOOSE i \in DOMAIN v : Rank(v, i) = k]]

Average ==
  /\ phase = "collecting"
  /\ Len(figures["delay"]) = Journals
  /\ figures' = [m \in Metrics |-> Sorted(figures[m])]
  /\ phase' = "averaged"
  /\ UNCHANGED logs

\* Slip: one of the two highest figures is kept.
KeptTooHigh == 3..(Journals - 1)

\* The figures between the two lowest and the two highest
Kept == 3..(Journals - 2)

\* The overflow is divided as a whole number, the others are doubles.
Mean(m) == SumFunctionOnSet(figures[m], Kept) \div (Journals - 4)

\* What is printed after the "+-"
Spread(m) == figures[m][Journals - 2] - Mean(m)

Next == AddLog \/ EndMeasurement \/ GetLogs \/ Collect \/ CollectOther \/ Average

Spec == Init /\ [][Next]_vars

-------------------------------------------------------------------------------
(* What the numbers should be, said of the journal as a set of lines: the  *)
(* lines within the duration, counted from the earliest.                   *)

First(log) == Min({l.ts : l \in ToSet(log)})
InTime(log, l) == l.ts < First(log) + Duration

\* Milliseconds of line l counted from the earliest
When(log, l) == l.ts - First(log)

\* Admissions in flight at millisecond i
Flying(log, i) ==
  Count(log, LAMBDA l : /\ l.allowed /\ InTime(log, l)
                        /\ When(log, l) <= i /\ i < When(log, l) + Span)

\* Type invariant: the journal holds log lines, sorted once it has been read.
TypeOK ==
  /\ logs \in Seq(LogLine)
  /\ figures \in [Metrics -> Seq(Nat)]
  /\ phase \in {"measuring", "measured", "sorted", "collecting", "averaged"}
  /\ phase = "sorted" =>
       \A i, j \in DOMAIN logs : i < j => logs[i].ts <= logs[j].ts

\* The sliding sum of the RPS aggregator is the number of responses to an
\* attempt in the last Span milliseconds, at each millisecond of the duration.
RpsRight ==
  phase = "sorted" =>
    \A a \in Attempts, i \in 0..(Duration - 1) :
      Rps(logs, a)[i] =
        Count(logs, LAMBDA l : /\ l.attempt = a /\ InTime(logs, l)
                               /\ When(logs, l) \in (i - Span + 1)..i)

\* The vector of the in-flight aggregator counts the admissions in flight, no
\* admission is counted outside the vector, and the overflow is positive exactly
\* when, after the warm-up, more than Capacity are in flight at some millisecond.
FlightsRight ==
  phase = "sorted" =>
    /\ \A i \in 0..(Duration + Span - 1) : Infly(logs)[i] = Flying(logs, i)
    /\ \A l \in ToSet(Measured(logs)) :
         Offset(logs, l) >= 0 /\ Offset(logs, l) + Span - 1 < Duration + Span
    /\ (Overflow(logs) > 0) <=>
         \E i \in WarmUp..(Duration - 1) : Flying(logs, i) > Capacity

\* The user metric: the users admitted within the duration are closed, each
\* with the time from the response to its first attempt to its admission; the
\* second attempts, the admitted third ones and the rejected third ones are
\* counted.  One pass suffices because the sorted journal has the attempts of
\* a user in turn.
UsersRight ==
  phase = "sorted" =>
    LET s == UserStats(logs)
        lines == {l \in ToSet(logs) : InTime(logs, l)}
        Third(ok) == {l \in lines : l.attempt = LastAttempt /\ l.allowed = ok}
    IN  /\ s.closed = {l.user : l \in {k \in lines : k.allowed}}
        /\ \A l, first \in lines :
             l.allowed /\ first.user = l.user /\ first.attempt = 0
               => s.time[l.user] = l.ts - first.ts
        /\ s.attempt1 = Cardinality({l \in lines : l.attempt = 1})
        /\ s.attempt2 = Cardinality(Third(TRUE))
        /\ s.rejected = Cardinality(Third(FALSE))

\* Two failed measurements spoil no mean, whichever way they are off and with
\* the overflow divided as a whole number: when all journals but two have
\* figures from lo to hi, so is the mean.  The spread is no claim about all of
\* them: it is what the highest figure kept adds to the mean, so that at most
\* two journals lie above.
MeanIsRobust ==
  phase = "averaged" =>
    \A m \in Metrics :
      LET v == figures[m]
          AtLeast(n, S) == Cardinality({i \in DOMAIN v : v[i] \in S}) >= n
      IN  /\ \A lo, hi \in ToSet(v) :
               AtLeast(Journals - 2, lo..hi) => Mean(m) \in lo..hi
          /\ Spread(m) >= 0
          /\ AtLeast(Journals - 2, 0..(Mean(m) + Spread(m)))

===============================================================================
