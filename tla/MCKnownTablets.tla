--------------------------- MODULE MCKnownTablets ---------------------------
(* A small instance of KnownTablets.  Names of a kind are alike: the         *)
(* properties of its runs are invariants and properties of steps.            *)
EXTENDS KnownTablets, TLC

Symmetry == Permutations(Hosts) \cup Permutations(Keys) \cup Permutations(Tabs)
              \cup Permutations(Installers)

\* At most one address has been recorded.
MCRecords == {r \in [Hosts -> Keys \cup {None}] : \E h \in Hosts : r[h] = None}
=============================================================================
