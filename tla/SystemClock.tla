------------------------------ MODULE SystemClock ------------------------------
(***************************************************************************)
(* The system clock as the algorithms of one server see it: milliseconds   *)
(* read off system_clock::now(), which is not monotonic.  elapsed is the   *)
(* time that really passed; now may be set back.  The code subtracts and   *)
(* compares times as 64-bit numbers, unsigned wherever one side is.        *)
(***************************************************************************)
EXTENDS Integers

CONSTANTS
  MaxTime,      \* bound on the time that passes (model checking only)
  MaxSetBacks,  \* how often the clock is set back (model checking only)
  Start,        \* what the clock shows when the algorithm is constructed
  Word          \* 2^64 in the code

ASSUME ClockAssumption ==
  /\ MaxTime \in Nat /\ MaxSetBacks \in Nat /\ Start \in Nat
  /\ Word \in Nat /\ Word > 2 * (Start + MaxTime)

VARIABLES
  now,       \* what the clock shows
  elapsed,   \* milliseconds since the start
  setBacks   \* how often the clock was set back

clock == <<now, elapsed, setBacks>>

ClockInit == now = Start /\ elapsed = 0 /\ setBacks = 0

ClockOK ==
  now \in 0..(Start + MaxTime) /\ elapsed \in 0..MaxTime /\ setBacks \in 0..MaxSetBacks

Pass ==
  /\ elapsed < MaxTime
  /\ elapsed' = elapsed + 1
  /\ now' = now + 1
  /\ UNCHANGED setBacks

SetBack ==
  /\ setBacks < MaxSetBacks
  /\ setBacks' = setBacks + 1
  /\ now' \in 0..(now - 1)
  /\ UNCHANGED elapsed

Tick == Pass \/ SetBack

\* now - t as an unsigned number: huge when t is ahead of the clock
Since(t) == (now - t) % Word

===============================================================================
