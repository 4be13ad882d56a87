SPECIFICATION Spec
CONSTANTS
    Procs = {p1, p2}
    BuildIds = {b1, b2}
    Sources = {s1, s2}
    NoBuild = NoBuild
    NoSource = NoSource
    Faults = {}
INVARIANT
    UnforcedBaselineIsCommitted
