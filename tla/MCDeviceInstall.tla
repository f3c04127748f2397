-------------------------- MODULE MCDeviceInstall --------------------------
(* Two releases, which are interchangeable. *)
EXTENDS DeviceInstall

VersionSymmetry == Permutations(Versions)
=============================================================================
