----------------------- MODULE MCPrivilegedRequests -----------------------
EXTENDS PrivilegedRequests, TLC

Symmetric == Permutations(Tab)
=============================================================================
