---------------------------- MODULE MCProfileShell ----------------------------
(* Two profiles with two stores each.                                      *)
EXTENDS ProfileShell, TLC

CONSTANTS p1, p2, s1, s2

TwoProfiles == {p1, p2}
TwoStores == {s1, s2}
Order == <<s1, s2>>
ProfileSymmetry == Permutations(TwoProfiles)
=============================================================================
