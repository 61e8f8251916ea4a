------------------------------- MODULE MCLimiters -------------------------------
(* Requests for the small instances of the centralized limiters.           *)
EXTENDS Integers

\* Three first attempts and a last one.
MCFirstAttempts ==
  {[id |-> 1, attempt |-> 0], [id |-> 2, attempt |-> 0], [id |-> 3, attempt |-> 0],
   [id |-> 4, attempt |-> 2]}

\* Each attempt, and a first attempt that shares its id with a retry.
MCEachAttempt ==
  {[id |-> 1, attempt |-> 0], [id |-> 2, attempt |-> 0], [id |-> 2, attempt |-> 1],
   [id |-> 3, attempt |-> 2]}

===============================================================================
