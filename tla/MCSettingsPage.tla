--------------------------- MODULE MCSettingsPage ---------------------------
(* The defaults, and settings that differ from them in every field. *)
EXTENDS SettingsPage

MCDefaults == [k \in Fields \cup {"schedule", "key"} |-> k = "system"]
MCStored == {MCDefaults, [k \in DOMAIN MCDefaults |-> ~MCDefaults[k]]}
=============================================================================
