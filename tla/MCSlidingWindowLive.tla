-------------------------- MODULE MCSlidingWindowLive --------------------------
(***************************************************************************)
(* Progress of the nodes of SlidingWindowDecentralized.  Progress needs a  *)
(* clock that never stops, and TLC a clock that does not grow: when now    *)
(* has reached MaxTime a passing millisecond moves every other timestamp   *)
(* one millisecond into the past instead.  The code only compares          *)
(* differences of timestamps, and a timestamp that has reached 0 is as old *)
(* as any test asks for once MaxTime > SyncPeriod; only two waiting        *)
(* requests of the same attempt are told apart by older timestamps, and    *)
(* the requests of these instances have distinct attempts.                 *)
(***************************************************************************)
EXTENDS SlidingWindowDecentralized

MCOfEachKind ==
  {[id |-> 1, attempt |-> 0], [id |-> 2, attempt |-> 1], [id |-> 3, attempt |-> 2]}

MCTwo == {r \in MCOfEachKind : r.attempt # 1}

ASSUME ClockAssumption == MaxTime > SyncPeriod

Older(t) == IF t = 0 THEN 0 ELSE t - 1
OlderResponse(a) == [a EXCEPT !.ts = Older(@)]
OlderResponses(f) == [n \in Nodes |-> {OlderResponse(a) : a \in f[n]}]

Rebase ==
  /\ now = MaxTime
  /\ lastSync' = [n \in Nodes |-> Older(lastSync[n])]
  /\ stamp' = [n \in Nodes |-> Older(stamp[n])]
  /\ infly' = [n \in Nodes |->
       {[of |-> OlderResponse(e.of), end |-> Older(e.end)] : e \in infly[n]}]
  /\ queue' = OlderResponses(queue)
  /\ out' = OlderResponses(out)
  /\ sent' = OlderResponses(sent)
  /\ UNCHANGED <<now, pc, at, summary, unread>>

TimePasses == Tick \/ Rebase

LiveNext == TimePasses \/ \E n \in Nodes : Step(n)

\* The kernel runs every runnable thread again and again, and the clock goes
\* on.  Nothing is assumed about which request a worker finds in its pipe.
LiveSpec ==
  /\ Init /\ [][LiveNext]_vars
  /\ \A n \in Nodes : WF_vars(Step(n))
  /\ WF_vars(TimePasses)

\* The summary of a node only grows between two synchronisations, and counts
\* entries other nodes may be slow to drop: even so no request waits for ever.
\* Each request a node has put in its queue is answered through its pipe.
AllAnswered ==
  \A n \in Nodes, r \in Requests :
    (\E q \in queue[n] : q.id = r.id /\ q.attempt = r.attempt)
      ~> (\E a \in sent[n] : a.id = r.id /\ a.attempt = r.attempt)

===============================================================================
