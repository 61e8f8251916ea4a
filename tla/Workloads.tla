------------------------------- MODULE Workloads -------------------------------
(***************************************************************************)
(* The workloads: how many requests the sender makes in each slot of 10    *)
(* ms, as whole numbers computed from the requests per second.  The sine   *)
(* is a number of 1/Scale, and as the entries differ only by it, it may    *)
(* have any value at any entry.                                            *)
(***************************************************************************)
EXTENDS Integers

CONSTANTS
  DurationSeconds,  \* duration_seconds_
  SlotsPerSecond,   \* slots in a second (100)
  SpikeReach,       \* how far a spike reaches from its middle (3)
  RpsMin,           \* rps_min_, and rps_base_ of the spikes
  RpsMax,           \* rps_max_, and rps of the static workload
  Scale,            \* parts of the sine
  Sines             \* values of the sine

Slots == DurationSeconds * SlotsPerSecond
Entries == 0..(Slots - 1)
Third == Slots \div 3

ASSUME RpsAssumption ==
  /\ DurationSeconds \in Nat /\ SlotsPerSecond \in Nat \ {0} /\ SpikeReach \in Nat
  /\ RpsMin \in Nat /\ RpsMax \in Nat /\ RpsMin <= RpsMax
  /\ Scale \in Nat \ {0} /\ Sines \subseteq (-Scale)..Scale
  /\ Slots > 0 => Third >= SpikeReach  \* Third - SpikeReach is unsigned

Delta == RpsMax - RpsMin

Static == [i \in Entries |-> RpsMax \div SlotsPerSecond]

Near(i, middle) == middle - SpikeReach < i /\ i < middle + SpikeReach

Spikes ==
  [i \in Entries |->
     (IF Near(i, Third) \/ Near(i, 2 * Third) THEN RpsMax ELSE RpsMin)
       \div SlotsPerSecond]

\* Truncated; the sine is taken over half a turn.
Parabolic(sine) ==
  [i \in Entries |-> (RpsMin * Scale + sine[i] * Delta) \div (Scale * SlotsPerSecond)]

\* std::round of a / b: halves go away from zero.
Round(a, b) ==
  IF a >= 0 THEN (2 * a + b) \div (2 * b) ELSE -((2 * (-a) + b) \div (2 * b))

\* Slip: the sine swings by the whole difference.
SwingWhole(sine) == Round(sine * Delta, Scale)

Swing(sine) == Round(sine * (Delta \div 2), Scale)

Sinusoid(sine) ==
  [i \in Entries |-> Round(RpsMin + Delta \div 2 + Swing(sine[i]), SlotsPerSecond)]

Generated ==
  {Static, Spikes}
    \cup {Parabolic(sine) : sine \in [Entries -> {x \in Sines : x >= 0}]}
    \cup {Sinusoid(sine) : sine \in [Entries -> Sines]}

===============================================================================
