--------------------- MODULE MCSlidingWindowDecentralized ---------------------
(* Small instances of SlidingWindowDecentralized for TLC.                  *)
EXTENDS SlidingWindowDecentralized

\* A first attempt and retries of each kind: when one fills the window, two wait
\* in a queue of cap 1 and the fourth finds it full.
MCFour ==
  {[id |-> 1, attempt |-> 0], [id |-> 2, attempt |-> 1],
   [id |-> 3, attempt |-> 2], [id |-> 4, attempt |-> 2]}

===============================================================================
