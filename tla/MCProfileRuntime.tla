-------------------------- MODULE MCProfileRuntime --------------------------
(* Three directories, two of which are copies of one profile.              *)
EXTENDS ProfileRuntime, TLC

CONSTANTS home, copy, work

MCStorage == home :> 1 @@ copy :> 1 @@ work :> 2
=============================================================================
