SPECIFICATION FairSpec
CONSTANTS
    Procs = {p1, p2}
    BuildIds = {b1, b2}
    Sources = {s1}
    NoBuild = NoBuild
    NoSource = NoSource
    Faults = {"git", "damage"}
CHECK_DEADLOCK FALSE
PROPERTIES
    CommandsEnd
    LockGivenBack
