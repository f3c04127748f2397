--------------------------- MODULE RefreshPromise ---------------------------
(***************************************************************************)
(* What the refresh scheduler promises, without its timer, its trigger     *)
(* channel or its alarm.  A refresh runs for one of two reasons only:      *)
(* somebody asked for it, or the announced deadline has passed.  Each      *)
(* request is served at most once, and only a refresh announces a deadline.*)
(***************************************************************************)
EXTENDS Integers

CONSTANT MaxAsked       \* requests that may wait at once

VARIABLES
  up,        \* the backend process is running
  asked,     \* requests waiting
  running,   \* the refresh in progress: "none", "asked", "deadline", and
             \* "announced" once it has announced the next deadline
  wait       \* ticks until the announced deadline; Off when none is announced

pvars == <<up, asked, running, wait>>

Off == -1

PInit == up = TRUE /\ asked = 0 /\ running = "none" /\ wait = Off

\* Somebody asks; a request beyond MaxAsked is dropped.
Ask ==
  /\ up
  /\ asked < MaxAsked
  /\ asked' = asked + 1
  /\ UNCHANGED <<up, running, wait>>

\* A refresh starts, for a request or for the deadline.
StartAsked ==
  /\ up
  /\ running = "none"
  /\ asked > 0
  /\ asked' = asked - 1
  /\ running' = "asked"
  /\ UNCHANGED <<up, wait>>

StartDeadline ==
  /\ up
  /\ running = "none"
  /\ wait = 0
  /\ running' = "deadline"
  /\ UNCHANGED <<up, asked, wait>>

\* Each refresh announces one deadline, at least a tick ahead, and then ends.
Announce ==
  /\ up
  /\ running \in {"asked", "deadline"}
  /\ running' = "announced"
  /\ wait' \in Nat \ {0}
  /\ UNCHANGED <<up, asked>>

Finish ==
  /\ up
  /\ running = "announced"
  /\ running' = "none"
  /\ UNCHANGED <<up, asked, wait>>

\* Time passes, whether or not the tablet is awake.
Pass ==
  /\ wait > 0
  /\ wait' = wait - 1
  /\ UNCHANGED <<up, asked, running>>

Stop ==
  /\ up
  /\ up' = FALSE
  /\ asked' = 0
  /\ running' = "none"
  /\ wait' = Off

Restart ==
  /\ ~up
  /\ up' = TRUE
  /\ UNCHANGED <<asked, running, wait>>

PNext ==
  \/ Ask \/ StartAsked \/ StartDeadline \/ Announce \/ Finish
  \/ Pass \/ Stop \/ Restart

PSpec == PInit /\ [][PNext]_pvars
=============================================================================
