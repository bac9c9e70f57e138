-------------------------- MODULE MCProfileCatalog --------------------------
EXTENDS ProfileCatalog, TLC

Symmetric == Permutations(Proc) \cup Permutations(Name)
=============================================================================
