\* Three processes, two acquisitions each; recovery names dead processes only.
\* An id may be used again, and there are enough for it not to be.
CONSTANTS
    Life = {l1, l2, l3}
    ProcessId = {i1, i2, i3}
    NoPid = NoPid
    MaxOwnerId = 2
    NoOwner = NoOwner
    CarefulRecovery = TRUE
SPECIFICATION LockSpec
SYMMETRY Symmetry
INVARIANTS LockIsKept
PROPERTIES ReleaseSparesOthers OwnsOnce
\* All processes may have ended.
CHECK_DEADLOCK FALSE
