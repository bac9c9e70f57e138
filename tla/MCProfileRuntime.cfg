SPECIFICATION Spec
CONSTANTS
    home = home
    copy = copy
    work = work
    Root = {home, copy, work}
    Store = {"history"}
    Storage <- MCStorage
    MaxSelection = 3
    MaxSave = 3
    MaxRevision = 2
INVARIANTS DurableIsOnDisk
PROPERTIES ReplacedIsSaved DiskMovesForward NewestSelectionWins
CHECK_DEADLOCK FALSE
