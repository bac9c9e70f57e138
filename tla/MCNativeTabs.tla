---------------------------- MODULE MCNativeTabs ----------------------------
(* One profile with an empty session, and profiles with stored ones.       *)
EXTENDS NativeTabs

TwoRemote == [tabs |-> 2, active |-> 2, remote |-> TRUE]
OneRemote == [tabs |-> 1, active |-> 1, remote |-> TRUE]
OneLocal == [tabs |-> 1, active |-> 1, remote |-> FALSE]

OnlyFresh == {Fresh}
FreshOrStored == {Fresh, OneLocal, TwoRemote}
FreshOrRemote == {Fresh, OneRemote}
OnlyStored == {OneRemote}
=============================================================================
