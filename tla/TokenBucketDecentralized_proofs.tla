-------------------- MODULE TokenBucketDecentralized_proofs --------------------
(***************************************************************************)
(* Theorems about TokenBucketDecentralized: for any number of nodes, any   *)
(* capacity, rate and periods, and any number of times the clock is set    *)
(* back, no node alone admits more than its capacity and the rate allow.   *)
(***************************************************************************)
EXTENDS TokenBucketDecentralized, TLAPS

-------------------------------------------------------------------------------
(* The arithmetic of parts and rates.                                      *)

\* Multiplication by a natural number preserves the order.
LEMMA ProductOrder ==
  ASSUME NEW a \in Int, NEW b \in Int, NEW k \in Nat, a <= b
  PROVE  a * k <= b * k
<1>1. (b - a) \in Nat /\ (b - a) * k >= 0
  OBVIOUS
<1>2. (b - a) * k = b * k - a * k
  OBVIOUS
<1> QED BY <1>1, <1>2

\* What accrues at a rate over two stretches accrues over both together.
LEMMA Accrued ==
  ASSUME NEW r \in Nat, NEW a \in Int, NEW b \in Int, NEW c \in Int
  PROVE  r * (b - a) + r * (c - b) = r * (c - a)
OBVIOUS

\* The node numbers, as the provers use them.
LEMMA NodesFacts == \A n \in Nodes : n \in Int /\ 0 <= n /\ n < NodesNumber
BY NodesAssumption DEF Nodes

\* A count still to be read is a node's, and after it comes the next or the end.
LEMMA NextNode ==
  ASSUME NEW i \in 0..NodesNumber, i < NodesNumber
  PROVE  i \in Nodes /\ i + 1 \in 0..NodesNumber
BY NodesAssumption DEF Nodes

-------------------------------------------------------------------------------
\* The types hold from the start and are kept by every step.
LEMMA TypedInductive ==
  (Init => Typed) /\ (Typed /\ LimitEarned /\ [Next]_vars => Typed')
<1>1. Init => Typed
  BY NodesAssumption, BucketAssumption, ClockAssumption
     DEF Init, ClockInit, Typed, ClockOK
<1>2. Typed /\ LimitEarned /\ [Next]_vars => Typed'
  <2> SUFFICES ASSUME Typed, LimitEarned, [Next]_vars PROVE Typed'
    OBVIOUS
  <2> USE DEF Typed, ClockOK, clock, Goto
  <2>1. CASE PassTime
    <3>1. CASE Pass
      BY <2>1, <3>1, ClockAssumption DEF PassTime, Pass, nodeVars, LimitEarned
    <3>2. CASE SetBack
      BY <2>1, <3>2, ClockAssumption DEF PassTime, SetBack, nodeVars
    <3> QED BY <2>1, <3>1, <3>2 DEF PassTime, Tick
  <2>2. ASSUME NEW n \in Nodes, Step(n) PROVE Typed'
    <3>1. CASE StartSync(n)
      BY <3>1 DEF StartSync, nodeVars
    <3>2. CASE SkipSync(n)
      BY <3>2 DEF SkipSync, nodeVars
    <3>3. CASE ReadCount(n)
      <4>0. at[n] \in 0..NodesNumber /\ at[n] < NodesNumber
        BY <3>3 DEF ReadCount
      <4>1. at[n] + 1 \in 0..NodesNumber /\ at[n] \in Nodes
        BY <4>0, NextNode
      <4> QED BY <3>3, <4>1 DEF ReadCount
    <3>4. CASE EndSync(n)
      BY <3>4, NodesAssumption DEF EndSync
    <3>5. CASE Refill(n)
      <4>1. Raised(n) \in Int
        BY BucketAssumption, ClockAssumption DEF Raised, Least
      <4> QED BY <3>5, <4>1 DEF Refill
    <3>6. CASE SkipRefill(n)
      BY <3>6 DEF SkipRefill, nodeVars
    <3>7. CASE Admit(n)
      BY <3>7 DEF Admit
    <3>8. CASE Refuse(n)
      BY <3>8 DEF Refuse, nodeVars
    <3> QED BY <2>2, <3>1, <3>2, <3>3, <3>4, <3>5, <3>6, <3>7, <3>8 DEF Step
  <2>3. CASE UNCHANGED vars
    BY <2>3 DEF vars, nodeVars
  <2> QED BY <2>1, <2>2, <2>3 DEF Next
<1> QED BY <1>1, <1>2

-------------------------------------------------------------------------------
\* A node never believes less spent than it admitted itself: others can only
\* add to the sum while it is read.
LEMMA CountsOwnKept ==
  ASSUME Typed, CountsOwn, [Next]_vars
  PROVE  CountsOwn'
<1> USE DEF Typed, CountsOwn, Goto, clock
<1>1. CASE PassTime
  BY <1>1 DEF PassTime, nodeVars
<1>2. ASSUME NEW n \in Nodes, Step(n) PROVE CountsOwn'
  <2> n \in Int /\ 0 <= n /\ n < NodesNumber
    BY NodesFacts
  <2>1. CASE StartSync(n)
    BY <2>1 DEF StartSync, nodeVars
  <2>2. CASE SkipSync(n)
    BY <2>2 DEF SkipSync, nodeVars
  <2>3. CASE ReadCount(n)
    <3>0. /\ \A m \in Nodes : own[m] \in Nat /\ sum[m] \in Nat /\ at[m] \in 0..NodesNumber
          /\ at[n] < NodesNumber
      BY <2>3 DEF ReadCount
    <3>1. at[n] \in Nodes
      BY <3>0, NextNode
    <3>2. at'[n] > n => at[n] > n \/ at[n] = n
      BY <2>3, <3>0, NodesFacts DEF ReadCount
    <3>3. at'[n] > n => own[n] <= sum'[n]
      BY <2>3, <3>0, <3>1, <3>2 DEF ReadCount
    <3>4. /\ own' = own /\ tokens' = tokens /\ pc' = pc /\ pc[n] = "sync"
          /\ \A m \in Nodes \ {n} : sum'[m] = sum[m] /\ at'[m] = at[m]
      BY <2>3 DEF ReadCount
    <3> QED BY <3>3, <3>4
  <2>4. CASE EndSync(n)
    <3>1. own[n] <= sum[n]
      BY <2>4 DEF EndSync
    <3> QED BY <2>4, <3>1 DEF EndSync
  <2>5. CASE Refill(n)
    BY <2>5 DEF Refill
  <2>6. CASE SkipRefill(n)
    BY <2>6 DEF SkipRefill, nodeVars
  <2>7. CASE Admit(n)
    BY <2>7 DEF Admit
  <2>8. CASE Refuse(n)
    BY <2>8 DEF Refuse, nodeVars
  <2> QED BY <1>2, <2>1, <2>2, <2>3, <2>4, <2>5, <2>6, <2>7, <2>8 DEF Step
<1>3. CASE UNCHANGED vars
  BY <1>3 DEF vars, nodeVars
<1> QED BY <1>1, <1>2, <1>3 DEF Next

-------------------------------------------------------------------------------
\* What a node admitted stays within its limit: an admission asks for room in
\* terms of what it believes spent, and a raise never takes a limit below that.
LEMMA WithinLimitKept ==
  ASSUME Typed, CountsOwn, WithinLimit, LimitEarned, [Next]_vars
  PROVE  WithinLimit'
<1> USE DEF Typed, WithinLimit, Goto, clock
<1>1. CASE PassTime
  BY <1>1 DEF PassTime, nodeVars
<1>2. ASSUME NEW n \in Nodes, Step(n) PROVE WithinLimit'
  <2>0. own[n] \in Nat /\ tokens[n] \in Nat /\ limit[n] \in Int /\ own[n] <= tokens[n]
    BY DEF CountsOwn
  <2>1. CASE Refill(n)
    <3>1. own[n] * Unit <= (tokens[n] + MaxCapacity) * Unit
      BY <2>0, ProductOrder, BucketAssumption
    <3>2. RefillRate * (now - lastRefill[n]) >= 0
      <4>1. now - lastRefill[n] \in Nat
        BY <2>1, BucketAssumption, ClockAssumption DEF Refill, ClockOK
      <4> QED BY <4>1, BucketAssumption
    <3>3. own[n] * Unit <= Raised(n)
      <4>1. RefillRate * (now - lastRefill[n]) \in Int
        BY BucketAssumption, ClockAssumption DEF ClockOK
      <4>2. own[n] * Unit <= limit[n] + RefillRate * (now - lastRefill[n])
        <5>1. own[n] * Unit \in Int /\ own[n] * Unit <= limit[n]
          BY <2>0, BucketAssumption
        <5> QED BY <2>0, <3>2, <4>1, <5>1
      <4> QED BY <3>1, <4>2 DEF Raised, Least
    <3>4. /\ own' = own /\ limit'[n] = Raised(n)
          /\ \A m \in Nodes \ {n} : limit'[m] = limit[m]
      BY <2>1 DEF Refill
    <3> QED BY <3>3, <3>4
  <2>2. CASE Admit(n)
    <3>1. (own[n] + 1) * Unit <= (tokens[n] + 1) * Unit
      BY <2>0, ProductOrder, BucketAssumption
    <3>2. (tokens[n] + 1) * Unit = tokens[n] * Unit + Unit
      BY <2>0, BucketAssumption
    <3>3. (own[n] + 1) * Unit <= limit[n]
      <4>1. tokens[n] * Unit \in Int /\ (own[n] + 1) * Unit \in Int /\ Unit \in Int
        BY <2>0, BucketAssumption
      <4>2. tokens[n] * Unit <= limit[n] - Unit
        BY <2>2 DEF Admit, Below
      <4> QED BY <2>0, <3>1, <3>2, <4>1, <4>2
    <3>4. /\ limit' = limit /\ own'[n] = own[n] + 1
          /\ \A m \in Nodes \ {n} : own'[m] = own[m]
      BY <2>2 DEF Admit
    <3> QED BY <3>3, <3>4
  <2>3. CASE ~Refill(n) /\ ~Admit(n)
    <3>1. own' = own /\ limit' = limit
      BY <1>2, <2>3 DEF Step, StartSync, SkipSync, ReadCount, EndSync, SkipRefill,
                        Refuse, nodeVars
    <3> QED BY <3>1
  <2> QED BY <2>1, <2>2, <2>3
<1>3. CASE UNCHANGED vars
  BY <1>3 DEF vars, nodeVars
<1> QED BY <1>1, <1>2, <1>3 DEF Next

-------------------------------------------------------------------------------
\* A limit is never more than the capacity and what the time that really passed
\* has earned.
LEMMA LimitEarnedKept ==
  ASSUME Typed, LimitEarned, [Next]_vars
  PROVE  LimitEarned'
<1> USE DEF Typed, LimitEarned, Goto, clock, ClockOK
<1>1. CASE PassTime
  <2>1. CASE Pass
    BY <1>1, <2>1, ClockAssumption DEF PassTime, Pass, nodeVars
  <2>2. CASE SetBack
    BY <1>1, <2>2, ClockAssumption DEF PassTime, SetBack, nodeVars
  <2> QED BY <1>1, <2>1, <2>2 DEF PassTime, Tick
<1>2. ASSUME NEW n \in Nodes, Step(n) PROVE LimitEarned'
  <2>1. CASE Refill(n)
    <3>0. /\ now \in Int /\ Start \in Int /\ lastRefill[n] \in Int /\ limit[n] \in Int
          /\ RefillRate \in Nat /\ RefillPeriod \in Nat
          /\ MaxCapacity * Unit \in Int
      BY ClockAssumption, BucketAssumption
    <3>1. Raised(n) <= limit[n] + RefillRate * (now - lastRefill[n])
      <4>1. /\ RefillRate * (now - lastRefill[n]) \in Int
            /\ (tokens[n] + MaxCapacity) * Unit \in Int
        BY <3>0, BucketAssumption
      <4> QED BY <3>0, <4>1 DEF Raised, Least
    <3>2. RefillRate * (lastRefill[n] - Start) + RefillRate * (now - lastRefill[n])
            = RefillRate * (now - Start)
      BY <3>0, Accrued
    <3>3. Raised(n) <= MaxCapacity * Unit + RefillRate * (now - Start)
      <4>1. /\ RefillRate * (lastRefill[n] - Start) \in Int
            /\ RefillRate * (now - lastRefill[n]) \in Int
            /\ RefillRate * (now - Start) \in Int
            /\ Raised(n) \in Int
        BY <3>0, BucketAssumption DEF Raised, Least
      <4>2. limit[n] <= MaxCapacity * Unit + RefillRate * (lastRefill[n] - Start)
        OBVIOUS
      <4> QED BY <3>0, <3>1, <3>2, <4>1, <4>2
    <3>4. Start <= now
      BY <2>1, <3>0 DEF Refill
    <3>5. /\ clock' = clock /\ lastRefill'[n] = now /\ limit'[n] = Raised(n)
          /\ \A m \in Nodes \ {n} : limit'[m] = limit[m] /\ lastRefill'[m] = lastRefill[m]
      BY <2>1 DEF Refill
    <3> QED BY <3>3, <3>4, <3>5
  <2>2. CASE ~Refill(n)
    <3>1. limit' = limit /\ lastRefill' = lastRefill /\ clock' = clock
      BY <1>2, <2>2 DEF Step, StartSync, SkipSync, ReadCount, EndSync, SkipRefill,
                        Admit, Refuse, nodeVars
    <3> QED BY <3>1
  <2> QED BY <2>1, <2>2
<1>3. CASE UNCHANGED vars
  BY <1>3 DEF vars, nodeVars
<1> QED BY <1>1, <1>2, <1>3 DEF Next

-------------------------------------------------------------------------------
(* What a node believes was spent is the sum of counts it read one after   *)
(* the other, each at its own time.  A later reading finds no count        *)
(* smaller, so a sum under way is at no node behind the sum it replaces.   *)

\* A course of partial sums: what the first i nodes add to it is at most what
\* they count now.
Course(s, k) ==
  /\ s \in [0..NodesNumber -> Int]
  /\ s[0] = 0
  /\ \A i \in 0..(k - 1) : s[i + 1] <= s[i] + own[i]

\* The course of the sum a node has, and that of the one under way, ahead of it
Read(n, old, new) ==
  /\ Course(old, NodesNumber) /\ old[NodesNumber] = tokens[n]
  /\ Course(new, at[n]) /\ new[at[n]] = sum[n]
  /\ \A i \in 0..at[n] : old[i] <= new[i]

InTurn == \A n \in Nodes : \E old, new : Read(n, old, new)

LEMMA InTurnInit == Init => InTurn
<1> SUFFICES ASSUME Init, NEW n \in Nodes PROVE \E old, new : Read(n, old, new)
  BY DEF InTurn
<1> DEFINE zero == [i \in 0..NodesNumber |-> 0]
<1>1. Course(zero, NodesNumber) /\ Course(zero, 0) /\ zero[NodesNumber] = 0
  BY NodesAssumption DEF Course, Init, Nodes
<1>2. zero[0] = 0 /\ \A i \in 0..0 : zero[i] <= zero[i]
  BY NodesAssumption
<1> HIDE DEF zero
<1>3. Read(n, zero, zero)
  BY <1>1, <1>2 DEF Read, Init
<1> QED BY <1>3

\* Counts only grow, so a course stays one.
LEMMA CourseKept ==
  ASSUME Typed, Typed', \A m \in Nodes : own[m] <= own'[m],
         NEW s, NEW k \in 0..NodesNumber, Course(s, k)
  PROVE  Course(s, k)'
<1>1. ASSUME NEW i \in 0..(k - 1) PROVE s[i + 1] <= s[i] + own'[i]
  <2>1. i \in Nodes /\ i \in 0..NodesNumber /\ i + 1 \in 0..NodesNumber
    BY NodesAssumption DEF Nodes
  <2>2. s[i] \in Int /\ s[i + 1] \in Int
    BY <2>1 DEF Course
  <2>3. own[i] \in Int /\ own'[i] \in Int
    BY <2>1 DEF Typed
  <2> QED BY <2>1, <2>2, <2>3 DEF Course
<1> QED BY <1>1 DEF Course

\* A step of one node: what it means for another.
LEMMA OthersRead ==
  ASSUME Typed, Typed', \A m \in Nodes : own[m] <= own'[m],
         NEW n \in Nodes, tokens'[n] = tokens[n], at'[n] = at[n], sum'[n] = sum[n],
         NEW old, NEW new, Read(n, old, new)
  PROVE  Read(n, old, new)'
<1>1. NodesNumber \in 0..NodesNumber /\ at[n] \in 0..NodesNumber
  BY NodesAssumption DEF Typed
<1>2. Course(old, NodesNumber)' /\ Course(new, at[n])'
  BY <1>1, CourseKept DEF Read
<1> QED BY <1>2 DEF Read, Course

\* The next count is added to the sum under way.
LEMMA ReadNext ==
  ASSUME Typed, Typed', NEW n \in Nodes, ReadCount(n), NEW old, NEW new, Read(n, old, new)
  PROVE  \E later : Read(n, old, later)'
<1> PICK k \in 0..NodesNumber : k = at[n]
  BY DEF Typed
<1> DEFINE later == [new EXCEPT ![k + 1] = new[k] + own[k]]
<1>1. k \in Nodes /\ k \in 0..NodesNumber /\ k + 1 \in 0..NodesNumber /\ k + 1 # 0
  BY NodesFacts, NextNode DEF ReadCount, Typed
<1>2. at'[n] = k + 1 /\ sum'[n] = sum[n] + own[k] /\ tokens' = tokens /\ own' = own
  BY DEF ReadCount, Typed
<1>3. new \in [0..NodesNumber -> Int] /\ old \in [0..NodesNumber -> Int]
  BY DEF Read, Course
<1>8. own[k] \in Int
  BY <1>1 DEF Typed
<1>4. /\ later \in [0..NodesNumber -> Int] /\ later[k + 1] = new[k] + own[k]
      /\ \A i \in 0..NodesNumber \ {k + 1} : later[i] = new[i]
  BY <1>1, <1>3, <1>8
<1> HIDE DEF later
<1>5. Course(later, k + 1)
  <2>1. ASSUME NEW i \in 0..k PROVE later[i + 1] <= later[i] + own[i]
    <3>1. CASE i = k
      BY <1>1, <1>3, <1>4, <3>1
    <3>2. CASE i # k
      <4>1. i \in 0..(k - 1) /\ i + 1 \in 0..NodesNumber \ {k + 1}
            /\ i \in 0..NodesNumber \ {k + 1}
        BY NodesAssumption, <1>1, <3>2
      <4> QED BY <1>4, <4>1 DEF Read, Course
    <3> QED BY <3>1, <3>2
  <2>2. later[0] = 0
    BY NodesAssumption, <1>1, <1>4 DEF Read, Course
  <2>3. 0..k = 0..((k + 1) - 1)
    BY <1>1
  <2> QED BY <1>4, <2>1, <2>2, <2>3 DEF Course
<1>6. ASSUME NEW i \in 0..(k + 1) PROVE old[i] <= later[i]
  <2>1. CASE i = k + 1
    <3>1. k \in 0..(NodesNumber - 1) /\ k \in 0..k
      BY <1>1, NodesFacts, NodesAssumption
    <3>2. old[k + 1] <= old[k] + own[k] /\ old[k] <= new[k]
      BY <3>1 DEF Read, Course
    <3>3. old[k] \in Int /\ old[k + 1] \in Int /\ new[k] \in Int
      BY <1>1, <1>3
    <3> QED BY <1>4, <1>8, <2>1, <3>2, <3>3
  <2>2. CASE i # k + 1
    <3>1. i \in 0..k /\ i \in 0..NodesNumber \ {k + 1}
      BY NodesAssumption, <1>1, <2>2
    <3> QED BY <1>4, <3>1 DEF Read
  <2> QED BY <2>1, <2>2
<1>7. later[k + 1] = sum'[n]
  BY <1>2, <1>4 DEF Read
<1> QED BY <1>2, <1>5, <1>6, <1>7 DEF Read, Course

\* The sum under way takes the place of the other.
LEMMA ReadAll ==
  ASSUME Typed, NEW n \in Nodes, EndSync(n), NEW old, NEW new, Read(n, old, new)
  PROVE  tokens[n] <= tokens'[n] /\ \E next : Read(n, new, next)'
<1>1. /\ at[n] = NodesNumber /\ tokens'[n] = sum[n] /\ at'[n] = 0 /\ sum'[n] = 0
      /\ own' = own
  BY DEF EndSync, Typed
<1>2. Course(new, NodesNumber) /\ new[NodesNumber] = tokens'[n]
  BY <1>1 DEF Read
<1>3. tokens[n] <= tokens'[n]
  BY <1>1, NodesAssumption DEF Read
<1>4. Course([i \in 0..NodesNumber |-> 0], 0) /\ [i \in 0..NodesNumber |-> 0][0] = 0
  BY NodesAssumption DEF Course
<1>5. Read(n, new, [i \in 0..NodesNumber |-> 0])'
  BY <1>1, <1>2, <1>4 DEF Read, Course
<1> QED BY <1>3, <1>5

\* An admission counts in the sum as it counts at the node.
LEMMA ReadOwn ==
  ASSUME Typed, Typed', CountsOwn, NEW n \in Nodes, Admit(n),
         NEW old, NEW new, Read(n, old, new)
  PROVE  \E more : Read(n, more, new)'
<1> DEFINE more == [i \in 0..NodesNumber |-> IF i > n THEN old[i] + 1 ELSE old[i]]
<1>1. /\ own'[n] = own[n] + 1 /\ tokens'[n] = tokens[n] + 1
      /\ \A m \in Nodes \ {n} : own'[m] = own[m]
      /\ at'[n] = 0 /\ at[n] = 0 /\ sum' = sum
  BY DEF Admit, Typed, CountsOwn, Goto
<1>2. n \in 0..(NodesNumber - 1) /\ old \in [0..NodesNumber -> Int] /\ own \in [Nodes -> Int]
  BY DEF Read, Course, Nodes, Typed
<1>3. Course(more, NodesNumber)'
  <2>1. ASSUME NEW i \in 0..(NodesNumber - 1) PROVE more[i + 1] <= more[i] + own'[i]
    <3>1. /\ i \in Nodes /\ i + 1 \in 0..NodesNumber /\ i \in 0..NodesNumber
          /\ old[i + 1] \in Int /\ old[i] \in Int /\ own[i] \in Int
      BY <1>2, NodesAssumption DEF Nodes
    <3>2. old[i + 1] <= old[i] + own[i]
      BY DEF Read, Course
    <3> QED BY <1>1, <1>2, <3>1, <3>2
  <2>2. more \in [0..NodesNumber -> Int] /\ more[0] = 0
    BY <1>2, NodesAssumption DEF Read, Course
  <2> QED BY <2>1, <2>2 DEF Course
<1>4. more[NodesNumber] = tokens'[n]
  BY <1>1, <1>2, NodesAssumption DEF Read
<1>5. Course(new, 0)' /\ new[0] = sum'[n] /\ more[0] <= new[0]
  BY <1>1, <1>2, NodesAssumption DEF Read, Course
<1>6. \A i \in 0..0 : more[i] <= new[i]
  BY <1>5
<1> QED BY <1>1, <1>3, <1>4, <1>5, <1>6 DEF Read

\* Every step keeps the readings in turn, and takes nothing back.
LEMMA InTurnKept ==
  ASSUME Typed, Typed', CountsOwn, InTurn, [Next]_vars
  PROVE  InTurn' /\ \A n \in Nodes : tokens[n] <= tokens'[n]
<1> SUFFICES ASSUME NEW n \in Nodes
    PROVE (\E old, new : Read(n, old, new)') /\ tokens[n] <= tokens'[n]
  BY DEF InTurn
<1> PICK old, new : Read(n, old, new)
  BY DEF InTurn
<1>0. tokens[n] \in Int /\ tokens'[n] \in Int
  BY DEF Typed
<1>1. ASSUME NEW m \in Nodes, Step(m)
      PROVE  (\E a, b : Read(n, a, b)') /\ tokens[n] <= tokens'[n]
  <2>1. \A k \in Nodes : own[k] <= own'[k]
    <3>1. own' = own \/ (own'[m] = own[m] + 1 /\ \A k \in Nodes \ {m} : own'[k] = own[k])
      BY <1>1 DEF Step, StartSync, SkipSync, ReadCount, EndSync, Refill, SkipRefill,
                  Admit, Refuse, nodeVars, Typed
    <3> QED BY <3>1 DEF Typed
  <2>2. CASE tokens'[n] = tokens[n] /\ at'[n] = at[n] /\ sum'[n] = sum[n]
    <3>1. Read(n, old, new)'
      BY <2>1, <2>2, OthersRead
    <3> QED BY <1>0, <2>2, <3>1
  <2>3. CASE m = n /\ ReadCount(n)
    <3>1. tokens'[n] = tokens[n]
      BY <2>3 DEF ReadCount
    <3>2. \E later : Read(n, old, later)'
      BY <2>3, ReadNext
    <3> QED BY <1>0, <3>1, <3>2
  <2>4. CASE m = n /\ EndSync(n)
    <3>1. tokens[n] <= tokens'[n] /\ \E next : Read(n, new, next)'
      BY <2>4, ReadAll
    <3> QED BY <3>1
  <2>5. CASE m = n /\ Admit(n)
    <3>1. tokens'[n] = tokens[n] + 1
      BY <2>5 DEF Admit, Typed
    <3>2. \E more : Read(n, more, new)'
      BY <2>5, ReadOwn
    <3> QED BY <1>0, <3>1, <3>2
  <2> QED
    BY <1>1, <2>2, <2>3, <2>4, <2>5
       DEF Step, StartSync, SkipSync, ReadCount, EndSync, Refill, SkipRefill, Admit,
           Refuse, nodeVars, Typed
<1>2. CASE UNCHANGED nodeVars
  BY <1>0, <1>2, OthersRead DEF nodeVars, Typed
<1> QED BY <1>1, <1>2 DEF Next, PassTime, vars

\* A limit is at most the capacity above the sum, because no sum falls.
LimitCapped == \A n \in Nodes : limit[n] <= (tokens[n] + MaxCapacity) * Unit

LEMMA LimitCappedKept ==
  ASSUME Typed, Typed', LimitCapped, [Next]_vars,
         \A n \in Nodes : tokens[n] <= tokens'[n]
  PROVE  LimitCapped'
<1> SUFFICES ASSUME NEW n \in Nodes PROVE limit'[n] <= (tokens'[n] + MaxCapacity) * Unit
  BY DEF LimitCapped
<1>0. tokens[n] \in Int /\ tokens'[n] \in Int /\ limit[n] \in Int /\ limit'[n] \in Int
  BY DEF Typed
<1>1. CASE limit'[n] = limit[n]
  <2>1. (tokens[n] + MaxCapacity) * Unit <= (tokens'[n] + MaxCapacity) * Unit
    BY <1>0, ProductOrder, BucketAssumption
  <2>2. /\ (tokens[n] + MaxCapacity) * Unit \in Int
        /\ (tokens'[n] + MaxCapacity) * Unit \in Int
    BY <1>0, BucketAssumption
  <2>3. limit[n] <= (tokens[n] + MaxCapacity) * Unit
    BY DEF LimitCapped
  <2> QED BY <1>0, <1>1, <2>1, <2>2, <2>3
<1>2. CASE limit'[n] # limit[n]
  <2>1. PICK m \in Nodes : Refill(m)
    BY <1>2 DEF Next, PassTime, vars, Step, StartSync, SkipSync, ReadCount, EndSync,
                SkipRefill, Admit, Refuse, nodeVars
  <2>2. limit'[n] = Raised(n) /\ tokens' = tokens
    BY <1>2, <2>1 DEF Refill, Typed
  <2>3. /\ limit[n] + RefillRate * (now - lastRefill[n]) \in Int
        /\ (tokens[n] + MaxCapacity) * Unit \in Int
    BY <1>0, BucketAssumption, ClockAssumption DEF Typed, ClockOK
  <2> QED BY <2>2, <2>3 DEF Raised, Least
<1> QED BY <1>1, <1>2

-------------------------------------------------------------------------------
\* IInv holds from the start and is kept by every step.
LEMMA Inductive == (Init => IInv) /\ (IInv /\ [Next]_vars => IInv')
<1>1. Init => IInv
  <2> SUFFICES ASSUME Init PROVE IInv
    OBVIOUS
  <2>1. Typed
    BY TypedInductive
  <2>2. CountsOwn
    BY DEF Init, CountsOwn
  <2>3. WithinLimit
    <3>1. 0 * Unit <= MaxCapacity * Unit
      BY ProductOrder, BucketAssumption
    <3> QED BY <3>1 DEF Init, WithinLimit
  <2>4. LimitEarned
    <3>1. RefillRate * (Start - Start) = 0 /\ MaxCapacity * Unit \in Int
      BY BucketAssumption, ClockAssumption
    <3> QED BY <3>1, ClockAssumption DEF Init, ClockInit, LimitEarned
  <2> QED BY <2>1, <2>2, <2>3, <2>4 DEF IInv
<1>2. IInv /\ [Next]_vars => IInv'
  BY TypedInductive, CountsOwnKept, WithinLimitKept, LimitEarnedKept DEF IInv
<1> QED BY <1>1, <1>2

LEMMA Invariant == Spec => []IInv
BY Inductive, PTL DEF Spec

LEMMA SumsInductive ==
  /\ Init => InTurn /\ LimitCapped
  /\ IInv /\ IInv' /\ InTurn /\ LimitCapped /\ [Next]_vars => (InTurn /\ LimitCapped)'
<1>1. Init => LimitCapped
  BY BucketAssumption DEF Init, LimitCapped
<1> QED BY <1>1, InTurnInit, InTurnKept, LimitCappedKept DEF IInv

\* The types of all variables; among them that no limit is more than the capacity
\* above the sum, also when a synchronisation has replaced the sum.
THEOREM TypeCorrect == Spec => []TypeOK
<1>1. IInv /\ LimitCapped => TypeOK
  BY DEF IInv, TypeOK, LimitCapped
<1> QED BY <1>1, SumsInductive, Invariant, PTL DEF Spec

\* What a node believes was spent never falls, however its readings of the other
\* counts interleave with their admissions.
THEOREM SpentCorrect == Spec => SpentNeverFalls
<1>1. IInv /\ IInv' /\ InTurn /\ [Next]_vars => [\A n \in Nodes : tokens'[n] >= tokens[n]]_vars
  <2> SUFFICES ASSUME IInv, IInv', InTurn, [Next]_vars, NEW n \in Nodes
      PROVE tokens'[n] >= tokens[n]
    OBVIOUS
  <2>1. tokens[n] <= tokens'[n]
    BY InTurnKept DEF IInv
  <2>2. tokens[n] \in Int /\ tokens'[n] \in Int
    BY DEF IInv, Typed
  <2> QED BY <2>1, <2>2
<1> QED BY <1>1, SumsInductive, Invariant, PTL DEF Spec, SpentNeverFalls

\* Whatever the others do while a node adds up their counts, and however often
\* the clock is set back, the node alone admits no more than the capacity and
\* what the rate adds in the time that really passed.
THEOREM NodeConformsCorrect == Spec => []NodeConforms
<1>1. IInv => NodeConforms
  <2> SUFFICES ASSUME IInv, NEW n \in Nodes
      PROVE own[n] * Unit <= MaxCapacity * Unit + RefillRate * elapsed
    BY DEF NodeConforms
  <2>1. own[n] * Unit <= limit[n]
    BY DEF IInv, WithinLimit
  <2>2. limit[n] <= MaxCapacity * Unit + RefillRate * (lastRefill[n] - Start)
    BY DEF IInv, LimitEarned
  <2>3. /\ lastRefill[n] - Start \in Int /\ elapsed \in Int
        /\ lastRefill[n] - Start <= elapsed
    BY ClockAssumption DEF IInv, Typed, ClockOK, LimitEarned
  <2>4. (lastRefill[n] - Start) * RefillRate <= elapsed * RefillRate
    BY <2>3, ProductOrder, BucketAssumption
  <2>5. /\ (lastRefill[n] - Start) * RefillRate = RefillRate * (lastRefill[n] - Start)
        /\ elapsed * RefillRate = RefillRate * elapsed
    BY <2>3, BucketAssumption
  <2>6. /\ own[n] * Unit \in Int /\ limit[n] \in Int /\ MaxCapacity * Unit \in Int
        /\ RefillRate * (lastRefill[n] - Start) \in Int /\ RefillRate * elapsed \in Int
    BY <2>3, BucketAssumption DEF IInv, Typed
  <2> QED BY <2>1, <2>2, <2>4, <2>5, <2>6
<1> QED BY Invariant, <1>1, PTL

===============================================================================
