SPECIFICATION Spec
CONSTANTS
    Procs = {"roving", "settled"}
    Repos <- MCRepos
    Cwd <- MCCwd
    Values <- MCValues
    i1 = i1
    i2 = i2
    i3 = i3
    Ids <- MCIds
    Entries <- MCEntries
    Forged <- MCForged
    NoEntry = none
    NoId = noid
    Faults = {}
SYMMETRY Symmetry
PROPERTIES
    DisallowRevokes
