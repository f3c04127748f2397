------------------------- MODULE MCRefreshScheduler -------------------------
(***************************************************************************)
(* Small instances of RefreshScheduler.  A day has four ticks.              *)
(***************************************************************************)
EXTENDS RefreshScheduler

NoQuiet == [enabled |-> FALSE, start |-> 0, end |-> 0]
Night == [enabled |-> TRUE, start |-> 3, end |-> 1]     \* wraps midnight
Noon == [enabled |-> TRUE, start |-> 1, end |-> 2]

\* Settings that differ in every way the scheduler can tell.
MCConfigs ==
  {[keyed |-> TRUE, minimum |-> 1, saver |-> TRUE, quiet |-> Night, wake |-> TRUE],
   [keyed |-> FALSE, minimum |-> 2, saver |-> FALSE, quiet |-> Noon, wake |-> FALSE]}

\* One setting, without quiet hours, that asks for wake-ups.
WakeConfigs ==
  {[keyed |-> TRUE, minimum |-> 1, saver |-> TRUE, quiet |-> NoQuiet, wake |-> TRUE]}
=============================================================================
