----------------------------- MODULE TabletTrust -----------------------------
(***************************************************************************)
(* What the installers promise an owner whose tablets they work on as root:*)
(* trust on first use.  Work is done on a tablet only when the owner trusts*)
(* it, and on another one than the address is recorded for only when the   *)
(* owner has said that it replaces a recorded one.  That is said of the    *)
(* tablet, not of the address: said at one address it holds at any other,  *)
(* for the page sends it with the address that its field shows by then.    *)
(* The tablet is recorded at the latest when the work ends well, in memory *)
(* and, when that succeeds, in the file that the next start reads.  Pages, *)
(* searches and calls are in KnownTablets, which implements this.          *)
(***************************************************************************)
CONSTANTS Keepers, Addresses, Tablets, Unknown

VARIABLES
  trusted,    \* tablets the owner has approved
  replacing,  \* those approved in place of a recorded one, at whatever address
  record,     \* per keeper of a record: the tablet known for each address
  stored,     \* the file the keepers share
  working     \* the work under way

tvars == <<trusted, replacing, record, stored, working>>

Work == [by : Keepers, at : Addresses, on : Tablets]

TInit ==
  /\ stored \in [Addresses -> Tablets \cup {Unknown}]
  /\ record = [k \in Keepers |-> stored]
  /\ trusted = {stored[a] : a \in Addresses} \ {Unknown}
  /\ replacing = {}
  /\ working = {}

Trust(tablet) ==
  /\ trusted' = trusted \cup {tablet}
  /\ replacing' \in {replacing, replacing \cup {tablet}}
  /\ UNCHANGED <<record, stored, working>>

\* The whole record of the keeper goes to the file, over what others have put there.
Note(w) ==
  /\ record' = [record EXCEPT ![w.by][w.at] = w.on]
  /\ stored' \in {stored, record'[w.by]}

Noted(w) == Note(w) \/ UNCHANGED <<record, stored>>

Begin(w) ==
  /\ \A v \in working : v.by # w.by
  /\ w.on \in trusted
  /\ record[w.by][w.at] \in {Unknown, w.on} \/ w.on \in replacing
  /\ working' = working \cup {w}
  /\ Noted(w)
  /\ UNCHANGED <<trusted, replacing>>

End(w) ==
  /\ w \in working
  /\ working' = working \ {w}
  /\ Noted(w)
  /\ UNCHANGED <<trusted, replacing>>

\* A keeper that starts again knows what the file says.
Reload(k) ==
  /\ record' = [record EXCEPT ![k] = stored]
  /\ working' = {w \in working : w.by # k}
  /\ UNCHANGED <<trusted, replacing, stored>>

TNext ==
  \/ \E tablet \in Tablets : Trust(tablet)
  \/ \E w \in Work : Begin(w) \/ End(w)
  \/ \E k \in Keepers : Reload(k)

TSpec == TInit /\ [][TNext]_tvars
=============================================================================
