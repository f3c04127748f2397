---------------------------- MODULE MCUpdateCheck ----------------------------
(* A small instance of UpdateCheck: version 2.1.0 and a newer release.       *)
EXTENDS UpdateCheck

MCCurrent == <<2, 1, 0>>
MCReleases == {<<2, 2>>}
=============================================================================
