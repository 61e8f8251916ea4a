------------------------------- MODULE MCTestbed -------------------------------
(* Small instances of Testbed for TLC.                                     *)
EXTENDS Testbed, TLC

\* The first retry comes after one tick, the second at once, so that a user
\* gets through all attempts before the clock stops at 1.
MCShortDelay == (0 :> 1) @@ (1 :> 0)

===============================================================================
