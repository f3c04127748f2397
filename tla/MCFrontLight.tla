---------------------------- MODULE MCFrontLight ----------------------------
(* A small instance of FrontLight: a schedule of two slots, one unassigned. *)
EXTENDS FrontLight

MCSlots == <<2, Unset>>

MCDefaults == [system |-> TRUE, percent |-> 1, enabled |-> FALSE, restore |-> TRUE]

\* Settings to save: the schedule.  A fixed level is what a preference makes of the
\* defaults.
MCConfigs ==
  {[system |-> FALSE, percent |-> 1, enabled |-> TRUE, restore |-> TRUE]}
=============================================================================
