--------------------------- MODULE MCScreenCache ---------------------------
(* A small instance of ScreenCache: two screens kept, names interchangeable. *)
EXTENDS ScreenCache, TLC

NamesSymmetry == Permutations(Names)
=============================================================================
