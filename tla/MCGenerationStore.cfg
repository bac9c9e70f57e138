\* Three sessions, any of which may crash; recovery takes the lock of ended
\* ones; two records are damaged between and during their saves.
CONSTANTS
    Session = {s1, s2, s3}
    MaxGen = 5
    MaxSaves = 2
    MaxEntries = 6
    MaxGenerations = 3
    Retained = 3
    MaxDamage = 2
    Damages = {Corrupt, Foreign}
    Absent = Absent
    Corrupt = Corrupt
    Foreign = Foreign
    CarefulRecovery = TRUE
SPECIFICATION Spec
SYMMETRY Symmetry
VIEW View
INVARIANTS
    ListingHolds
    SurvivesDamage
    AckedCovered
PROPERTIES
    NumbersGrow
    NoLostSave
\* All sessions may have ended.
CHECK_DEADLOCK FALSE
