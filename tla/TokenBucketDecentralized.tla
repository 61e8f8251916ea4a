----------------------- MODULE TokenBucketDecentralized -----------------------
(***************************************************************************)
(* check_request of the token bucket spread over several nodes.  Each node *)
(* counts what it admitted itself and, every SyncPeriod, adds up the       *)
(* counts of all nodes one after the other while their owners go on; in    *)
(* between it adds only its own admissions to that sum.  It admits while   *)
(* the sum is below a limit that rises by RefillRate.  Tokens are doubles  *)
(* in the code: the sums are whole, the limit is counted here in parts of  *)
(* 1/Unit of a token.  Times are signed.  The five of line 76 is           *)
(* NodesNumber: with fewer nodes at() would throw.  Nothing calls it in    *)
(* the present worker; here each node's caller may call it at any time.    *)
(***************************************************************************)
EXTENDS SystemClock

CONSTANTS
  NodesNumber,   \* number of nodes
  MaxCapacity,   \* max_capacity, in tokens
  RefillRate,    \* refill_rate, in parts per millisecond
  Unit,          \* parts of a token (1000)
  SyncPeriod,    \* age at which the sum is renewed, ms (10)
  RefillPeriod   \* age at which the limit is raised, ms (10)

ASSUME NodesAssumption == NodesNumber \in Nat \ {0}
ASSUME BucketAssumption ==
  /\ MaxCapacity \in Nat /\ RefillRate \in Nat /\ Unit \in Nat \ {0}
  /\ SyncPeriod \in Nat /\ RefillPeriod \in Nat

Nodes == 0..(NodesNumber - 1)

VARIABLES
  pc,          \* where the caller of each node stands in check_request
  at,          \* i of line 76, the node whose count is read next, or 0
  sum,         \* sum_tokens of line 75, or 0
  tokens,      \* current_tokens_
  limit,       \* current_limit_, in parts
  own,         \* delta_by_nodes[id], what the node admitted itself
  lastSync,    \* last_sync_time
  lastRefill   \* last_refill_time

nodeVars == <<at, sum, tokens, limit, own, lastSync, lastRefill>>
vars == <<clock, pc, nodeVars>>

Init ==
  /\ ClockInit
  /\ pc = [n \in Nodes |-> "check"]
  /\ at = [n \in Nodes |-> 0]
  /\ sum = [n \in Nodes |-> 0]
  /\ tokens = [n \in Nodes |-> 0]
  /\ limit = [n \in Nodes |-> MaxCapacity * Unit]
  /\ own = [n \in Nodes |-> 0]
  /\ lastSync = [n \in Nodes |-> Start]
  /\ lastRefill = [n \in Nodes |-> Start]

Goto(n, from, to) == pc[n] = from /\ pc' = [pc EXCEPT ![n] = to]

StartSync(n) ==
  /\ Goto(n, "check", "sync")
  /\ now - lastSync[n] > SyncPeriod
  /\ UNCHANGED <<clock, nodeVars>>

SkipSync(n) ==
  /\ Goto(n, "check", "refill")
  /\ now - lastSync[n] <= SyncPeriod
  /\ UNCHANGED <<clock, nodeVars>>

\* Slip: a node leaves itself out of the sum.
ReadOthersCount(n) ==
  /\ pc[n] = "sync"
  /\ at[n] < NodesNumber
  /\ sum' = [sum EXCEPT ![n] = @ + (IF at[n] = n THEN 0 ELSE own[at[n]])]
  /\ at' = [at EXCEPT ![n] = @ + 1]
  /\ UNCHANGED <<clock, pc, tokens, limit, own, lastSync, lastRefill>>

ReadCount(n) ==
  /\ pc[n] = "sync"
  /\ at[n] < NodesNumber
  /\ sum' = [sum EXCEPT ![n] = @ + own[at[n]]]
  /\ at' = [at EXCEPT ![n] = @ + 1]
  /\ UNCHANGED <<clock, pc, tokens, limit, own, lastSync, lastRefill>>

EndSync(n) ==
  /\ Goto(n, "sync", "refill")
  /\ at[n] = NodesNumber
  /\ tokens' = [tokens EXCEPT ![n] = sum[n]]
  /\ lastSync' = [lastSync EXCEPT ![n] = now]
  /\ at' = [at EXCEPT ![n] = 0]
  /\ sum' = [sum EXCEPT ![n] = 0]
  /\ UNCHANGED <<clock, limit, own, lastRefill>>

Least(a, b) == IF b < a THEN b ELSE a

\* Slip: a limit raised without regard to what was spent.
RaisedUncapped(n) == limit[n] + RefillRate * (now - lastRefill[n])

Raised(n) ==
  Least(limit[n] + RefillRate * (now - lastRefill[n]),
        (tokens[n] + MaxCapacity) * Unit)

\* Slip: the time of the raise is not kept.
RefillForgotten(n) ==
  /\ Goto(n, "refill", "decide")
  /\ now - lastRefill[n] > RefillPeriod
  /\ limit' = [limit EXCEPT ![n] = Raised(n)]
  /\ UNCHANGED <<clock, at, sum, tokens, own, lastSync, lastRefill>>

Refill(n) ==
  /\ Goto(n, "refill", "decide")
  /\ now - lastRefill[n] > RefillPeriod
  /\ limit' = [limit EXCEPT ![n] = Raised(n)]
  /\ lastRefill' = [lastRefill EXCEPT ![n] = now]
  /\ UNCHANGED <<clock, at, sum, tokens, own, lastSync>>

SkipRefill(n) ==
  /\ Goto(n, "refill", "decide")
  /\ now - lastRefill[n] <= RefillPeriod
  /\ UNCHANGED <<clock, nodeVars>>

Below(n) == tokens[n] * Unit <= limit[n] - Unit

Admit(n) ==
  /\ Goto(n, "decide", "check")
  /\ Below(n)
  /\ tokens' = [tokens EXCEPT ![n] = @ + 1]
  /\ own' = [own EXCEPT ![n] = @ + 1]
  /\ UNCHANGED <<clock, at, sum, limit, lastSync, lastRefill>>

Refuse(n) ==
  /\ Goto(n, "decide", "check")
  /\ ~Below(n)
  /\ UNCHANGED <<clock, nodeVars>>

Step(n) ==
  \/ StartSync(n) \/ SkipSync(n) \/ ReadCount(n) \/ EndSync(n)
  \/ Refill(n) \/ SkipRefill(n)
  \/ Admit(n) \/ Refuse(n)

PassTime == Tick /\ UNCHANGED <<pc, nodeVars>>

Next == PassTime \/ \E n \in Nodes : Step(n)

Spec == Init /\ [][Next]_vars

-------------------------------------------------------------------------------
Typed ==
  /\ ClockOK
  /\ pc \in [Nodes -> {"check", "sync", "refill", "decide"}]
  /\ at \in [Nodes -> 0..NodesNumber]
  /\ sum \in [Nodes -> Nat] /\ tokens \in [Nodes -> Nat] /\ own \in [Nodes -> Nat]
  /\ limit \in [Nodes -> Int]
  /\ lastSync \in [Nodes -> 0..(Start + MaxTime)]
  /\ lastRefill \in [Nodes -> 0..(Start + MaxTime)]

\* Type invariant, in which a limit is never more than the capacity above the
\* sum, although a synchronisation replaces the sum.
TypeOK ==
  Typed /\ \A n \in Nodes : limit[n] <= (tokens[n] + MaxCapacity) * Unit

\* No node alone admits more than the capacity and what the rate adds in the
\* time that really passed, whatever the other nodes do while it adds up their
\* counts, and however often the clock is set back: the signed comparisons then
\* stop the refill instead of filling the bucket.
NodeConforms ==
  \A n \in Nodes :
    own[n] * Unit <= MaxCapacity * Unit + RefillRate * elapsed

\* What a node believes was spent never falls, although it replaces its sum by
\* one that was read piece by piece: no synchronisation gives tokens back.
SpentNeverFalls == [][\A n \in Nodes : tokens'[n] >= tokens[n]]_vars

-------------------------------------------------------------------------------
(* The inductive invariant behind NodeConforms.                            *)

\* A node believes spent at least what it admitted itself, and so does the sum
\* under way once it has come past the node's own count.
CountsOwn ==
  \A n \in Nodes :
    /\ own[n] <= tokens[n]
    /\ pc[n] # "sync" => at[n] = 0
    /\ at[n] > n => own[n] <= sum[n]

\* What a node admitted is within its limit.
WithinLimit == \A n \in Nodes : own[n] * Unit <= limit[n]

\* A limit is the capacity and what the rate added up to the last raise, which
\* no clock set back puts later than the time that really passed.
LimitEarned ==
  /\ now <= Start + elapsed
  /\ \A n \in Nodes :
       /\ Start <= lastRefill[n] /\ lastRefill[n] <= Start + elapsed
       /\ limit[n] <= MaxCapacity * Unit + RefillRate * (lastRefill[n] - Start)

IInv == Typed /\ CountsOwn /\ WithinLimit /\ LimitEarned

===============================================================================
