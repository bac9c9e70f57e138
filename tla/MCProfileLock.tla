---------------------------- MODULE MCProfileLock ----------------------------
(* Instances of ProfileLock for TLC. *)
EXTENDS ProfileLock, TLC

Symmetry == Permutations(Life) \cup Permutations(ProcessId)
=============================================================================
