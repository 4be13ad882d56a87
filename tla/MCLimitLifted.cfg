CONSTANTS
    src = src  tst = tst  man = man  pol = pol  g1 = g1  g2 = g2
    dep = dep  cmd = cmd  unset = unset  bad = bad  nopath = nopath  nopin = nopin
    Paths <- MCPaths  Globs <- MCGlobs  Matches <- MCMatches  Limits <- MCLimits
    Unset = unset  Bad = bad  NoPath = nopath
    Deps = {dep}  Commands = {cmd}  Common = {}  ManifestOf <- MCManifestOf
    Above <- MCAbove  RootPins = {man}  NoPin = nopin
    Required = {}  Scripts = {cmd}
    Protected = {pol}  GitInternal = {}  Workflows = {}  HighRisk = {man}
    TestPaths = {tst}  Lockfiles = {}  Ecosystems = {}
    Requests <- MCRequests  Patches <- MCPatches  Packets <- MCPackets  Links <- MCLinks
    Contracts <- MCContracts  Executions <- MCExecutions
    Files <- MCFiles  Committed <- MCCommitted  Ledgers <- MCLedgers
    PolicyPaths = {pol}  MaxEdits = 1
SPECIFICATION Spec
INVARIANT LowerLimitWeakensNothing
