----------------------------- MODULE SimpleBuckets -----------------------------
(***************************************************************************)
(* check_request of the two bucket algorithms of a single server: the      *)
(* fixed window, TokensToAdd admissions renewed when a request comes       *)
(* RefillTime milliseconds or more after the last renewal, and the token   *)
(* bucket, filled continuously.  Tokens of the bucket are a double in the  *)
(* code; here they are counted in parts of 1/Unit of a token, of which     *)
(* RefillRate drip in every millisecond, and rounding is left out.  A call *)
(* reads the clock once.  Nothing calls it in the present worker; here a   *)
(* caller may call it at any time.                                         *)
(***************************************************************************)
EXTENDS SystemClock, FiniteSets, Sequences

CONSTANTS
  TokensToAdd,  \* tokens_to_add_ of the window
  RefillTime,   \* its refill_time_, ms
  MaxCapacity,  \* max_capacity_ of the bucket, in tokens
  RefillRate,   \* its refill_rate_, in parts per millisecond
  Unit          \* parts of a token (1000)

ASSUME WindowAssumption == TokensToAdd \in Nat /\ RefillTime \in Nat \ {0}
ASSUME BucketAssumption ==
  MaxCapacity \in Nat /\ RefillRate \in Nat /\ Unit \in Nat \ {0}

VARIABLES
  algorithm,   \* which of the two this is
  tokens,      \* current_tokens_
  lastRefill,  \* last_refill_time_
  admitted     \* history: the elapsed time of each admission

vars == <<clock, algorithm, tokens, lastRefill, admitted>>

Init ==
  /\ ClockInit
  /\ algorithm \in {"FixedWindow", "TokenBucketSimple"}
  /\ tokens = 0
  /\ lastRefill = Start
  /\ admitted = <<>>

\* check_request with the tokens refill_bucket leaves and the price of one
Check(refilled, price) ==
  \/ /\ refilled >= price
     /\ tokens' = refilled - price
     /\ admitted' = Append(admitted, elapsed)
  \/ /\ refilled < price
     /\ tokens' = refilled
     /\ UNCHANGED admitted

\* The fixed window compares the difference of two longs as unsigned.
Over == Since(lastRefill) >= RefillTime

Renewed == IF Over THEN TokensToAdd ELSE tokens

\* Slip: the time of the renewal is not kept.
RenewalForgotten == lastRefill

RenewedAt == IF Over THEN now ELSE lastRefill

CheckWindow ==
  /\ algorithm = "FixedWindow"
  /\ Check(Renewed, 1)
  /\ lastRefill' = RenewedAt
  /\ UNCHANGED <<clock, algorithm>>

Least(a, b) == IF b < a THEN b ELSE a

\* Slip: the bucket overflows.
FilledUncapped == tokens + RefillRate * Since(lastRefill)

\* The bucket makes the difference of two unsigned times a double.
Filled == Least(tokens + RefillRate * Since(lastRefill), MaxCapacity * Unit)

CheckBucket ==
  /\ algorithm = "TokenBucketSimple"
  /\ Check(Filled, Unit)
  /\ lastRefill' = now
  /\ UNCHANGED <<clock, algorithm>>

PassTime == Tick /\ UNCHANGED <<algorithm, tokens, lastRefill, admitted>>

Next == PassTime \/ CheckWindow \/ CheckBucket

Spec == Init /\ [][Next]_vars

-------------------------------------------------------------------------------
Full == IF algorithm = "FixedWindow" THEN TokensToAdd ELSE MaxCapacity * Unit

\* Type invariant; neither is ever in debt, or holds more than it is filled to.
TypeOK ==
  /\ ClockOK
  /\ algorithm \in {"FixedWindow", "TokenBucketSimple"}
  /\ tokens \in 0..Full
  /\ lastRefill \in 0..(Start + MaxTime)
  /\ admitted \in Seq(0..MaxTime)

\* The admissions made from some time on
GivenFrom(from) == {i \in DOMAIN admitted : admitted[i] >= from}

\* What a stretch of time may admit.  The fixed window: as many windows as fit
\* into it, the one it starts in, the one it ends in, and one for each time the
\* clock is set back, which renews the window at once, since the negative
\* difference is compared as unsigned; two milliseconds in a row may see two
\* windows in full.  The token bucket: a bucket and what drips in meanwhile, and
\* a bucket more for each time the clock is set back, for then the unsigned
\* difference fills it at once.
Allowance(time) ==
  IF algorithm = "FixedWindow"
  THEN Unit * TokensToAdd * ((time \div RefillTime) + 2 + setBacks)
  ELSE RefillRate * time + Unit * MaxCapacity * (1 + setBacks)

\* The promise of each algorithm to the service behind it: no stretch of time
\* admits more than its allowance, wherever the stretch begins and ends.
RateHeld ==
  \A from \in 0..elapsed :
    Unit * Cardinality(GivenFrom(from)) <= Allowance(elapsed - from)

===============================================================================
