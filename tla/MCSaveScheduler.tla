-------------------------- MODULE MCSaveScheduler --------------------------
(* The save scheduler with a short policy: a save is due after two quiet   *)
(* units of time, three at most, or three mutations.                       *)
EXTENDS SaveScheduler
=============================================================================
