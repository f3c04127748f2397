----------------------------- MODULE LastScreen -----------------------------
(***************************************************************************)
(* What the screen cache promises whoever shows its latest screen: that    *)
(* screen gives way only to one that has been received completely, and only*)
(* while the owner clears the cache to an older one or to none.  Files,    *)
(* index and eviction are in ScreenCache, which implements this.           *)
(***************************************************************************)
CONSTANTS Screens, Nothing

VARIABLES
  last,      \* the screen that would be shown
  incoming,  \* a received screen that is being stored
  clearing

lvars == <<last, incoming, clearing>>

LInit ==
  /\ last = Nothing
  /\ incoming = Nothing
  /\ clearing = FALSE

Receive ==
  /\ incoming = Nothing
  /\ incoming' \in Screens \ {last}
  /\ UNCHANGED <<last, clearing>>

\* The received screen becomes the latest at once, or not at all.
Replace ==
  /\ incoming # Nothing
  /\ last' = incoming
  /\ incoming' = Nothing
  /\ UNCHANGED clearing

Drop ==
  /\ incoming # Nothing
  /\ incoming' = Nothing
  /\ UNCHANGED <<last, clearing>>

BeginClear ==
  /\ ~clearing
  /\ clearing' = TRUE
  /\ UNCHANGED <<last, incoming>>

\* A clear takes time: older screens may come to light meanwhile, never one that
\* is still being stored.
Lose ==
  /\ clearing
  /\ last' = Nothing \/ last' \in Screens \ {incoming}
  /\ UNCHANGED <<incoming, clearing>>

EndClear ==
  /\ clearing
  /\ clearing' = FALSE
  /\ last' = Nothing
  /\ UNCHANGED incoming

\* The process is killed: a clear and a store that are under way end there.
Stop ==
  /\ clearing' = FALSE
  /\ incoming' = Nothing
  /\ UNCHANGED last

LNext ==
  Receive \/ Replace \/ Drop \/ BeginClear \/ Lose \/ EndClear \/ Stop

LSpec == LInit /\ [][LNext]_lvars
=============================================================================
