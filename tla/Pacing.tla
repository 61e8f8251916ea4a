-------------------------------- MODULE Pacing --------------------------------
(***************************************************************************)
(* start_execution of the sender: the requests of each entry of the        *)
(* workload are spread over what is left of the slot in which the entry    *)
(* begins, by spinning on the system clock.  The clock counts ticks (the   *)
(* microseconds of the code), of which a slot has Slot.  Time goes on by   *)
(* itself while the thread waits; what passes while it does not is counted *)
(* in late, so that a thread that is preempted, or slow, is part of the    *)
(* model up to MaxLate ticks.                                              *)
(***************************************************************************)
EXTENDS SystemClock, Workloads, Sequences

CONSTANTS
  Slot,    \* ticks of a slot (10000)
  MaxLate  \* bound on late (model checking only)

ASSUME SlotAssumption == Slot \in Nat \ {0} /\ MaxLate \in Nat

VARIABLES
  rps,    \* requests_per_100ms, which has an entry for every 10 ms
  pc,     \* where the thread stands
  entry,  \* the entries taken from rps
  left,   \* current_requests_per_100ms
  end,    \* end_next_period_mcs
  until,  \* next_time_mcs
  late,   \* history: ticks that passed while the thread did not wait
  began,  \* history: when each entry with a request began
  sends   \* history: when the requests of the last of them were sent

threadVars == <<rps, pc, entry, left, end, until, began, sends>>
pacingVars == <<clock, late, threadVars>>

\* The next full second
StartFrom == (Start \div (SlotsPerSecond * Slot) + 1) * (SlotsPerSecond * Slot)

PacingInit ==
  /\ ClockInit
  /\ rps \in Generated
  /\ pc = "sleep"
  /\ entry = 0 /\ left = 0 /\ end = 0 /\ until = 0
  /\ late = 0 /\ began = <<>> /\ sends = <<>>

Goto(from, to) == pc = from /\ pc' = to

Wake ==
  /\ Goto("sleep", "entry")
  /\ now >= StartFrom
  /\ UNCHANGED <<clock, late, rps, entry, left, end, until, began, sends>>

\* The end of the slot of this moment
SlotEnd == (now \div Slot) * Slot + Slot

StartEntry ==
  /\ Goto("entry", "send")
  /\ entry < Slots
  /\ rps[entry] > 0
  /\ left' = rps[entry]
  /\ end' = SlotEnd
  /\ entry' = entry + 1
  /\ began' = Append(began, now)
  /\ sends' = <<>>
  /\ UNCHANGED <<clock, late, rps, until>>

\* An entry without requests takes no time.
SkipEntry ==
  /\ Goto("entry", "entry")
  /\ entry < Slots
  /\ rps[entry] = 0
  /\ entry' = entry + 1
  /\ UNCHANGED <<clock, late, rps, left, end, until, began, sends>>

Send ==
  /\ Goto("send", "pace")
  /\ sends' = Append(sends, now)
  /\ UNCHANGED <<clock, late, rps, entry, left, end, until, began>>

Remaining == IF end > now THEN end - now ELSE 0

\* Slip: the rest of the slot is shared among all requests of the entry.
ShareOfAll == Remaining \div rps[entry - 1]

Share == Remaining \div left

Pace ==
  /\ Goto("pace", "spin")
  /\ until' = now + Share
  /\ UNCHANGED <<clock, late, rps, entry, left, end, began, sends>>

\* Slip: the clock has to show the very time.
EndSpinExactly ==
  /\ Goto("spin", IF left = 1 THEN "entry" ELSE "send")
  /\ now = until
  /\ left' = left - 1
  /\ UNCHANGED <<clock, late, rps, entry, end, until, began, sends>>

EndSpin ==
  /\ Goto("spin", IF left = 1 THEN "entry" ELSE "send")
  /\ now >= until
  /\ left' = left - 1
  /\ UNCHANGED <<clock, late, rps, entry, end, until, began, sends>>

Finish ==
  /\ Goto("entry", "done")
  /\ entry = Slots
  /\ UNCHANGED <<clock, late, rps, entry, left, end, until, began, sends>>

Thread == Wake \/ StartEntry \/ SkipEntry \/ Send \/ Pace \/ EndSpin \/ Finish

\* The thread sleeps, or spins.
Waits == (pc = "sleep" /\ now < StartFrom) \/ (pc = "spin" /\ now < until)

PassWaiting == Waits /\ Pass /\ UNCHANGED <<late, threadVars>>

PassLate ==
  /\ ~Waits /\ pc # "done"
  /\ late < MaxLate
  /\ Pass
  /\ late' = late + 1
  /\ UNCHANGED threadVars

TurnBack == pc # "done" /\ SetBack /\ UNCHANGED <<late, threadVars>>

PacingNext == Thread \/ PassWaiting \/ PassLate \/ TurnBack

\* The thread is scheduled again and again, and time goes on.
PacingSpec ==
  PacingInit /\ [][PacingNext]_pacingVars
    /\ WF_pacingVars(Thread) /\ WF_pacingVars(PassWaiting)

-------------------------------------------------------------------------------
\* Type invariant, in which every workload keeps to the rates it was given.
PacingTypeOK ==
  /\ ClockOK
  /\ rps \in [Entries -> (RpsMin \div SlotsPerSecond)..Round(RpsMax, SlotsPerSecond)]
  /\ pc \in {"sleep", "entry", "send", "pace", "spin", "done"}
  /\ entry \in 0..Slots /\ left \in Nat /\ end \in Nat /\ until \in Nat
  /\ late \in 0..MaxLate
  /\ began \in Seq(Nat) /\ sends \in Seq(Nat)

\* When the k-th entry with a request should begin
DueAt(k) == StartFrom + (k - 1) * Slot

\* Unless the clock is set back, the schedule is kept: no entry begins before
\* its turn, and none is later than all the time the thread has lost, for a slot
\* that begins late still ends on time; two entries never begin in one slot, so
\* that a slot never sees the requests of more than two.
OnSchedule ==
  /\ \A k \in DOMAIN began : DueAt(k) <= began[k] /\ began[k] <= DueAt(k) + late
  /\ \A j, k \in DOMAIN began : j < k => began[j] \div Slot < began[k] \div Slot
  /\ pc = "done" =>
       DueAt(Len(began) + 1) <= now /\ now <= DueAt(Len(began) + 1) + late

\* The requests of an entry fall in its slot, their distances even to a tick.
Even ==
  LET Gap(i) == sends[i + 1] - sends[i]
  IN  /\ \A i \in DOMAIN sends : sends[i] \div Slot = began[Len(began)] \div Slot
      /\ \A i, j \in 1..(Len(sends) - 1) : Gap(i) <= Gap(j) + 1

\* The pacing: the schedule is kept, however the thread is delayed, and a thread
\* that never is spreads the requests of an entry evenly over its slot.
WellPaced == setBacks = 0 => OnSchedule /\ (late = 0 => Even)

\* The workload comes to its end, also when the clock is set back and a spin
\* takes as much longer.
Finishes == <>(pc = "done")

===============================================================================
