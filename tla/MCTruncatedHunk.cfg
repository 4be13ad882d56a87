CONSTANTS
    src = src  tst = tst  man = man  pol = pol  g1 = g1  g2 = g2
    dep = dep  cmd = cmd  unset = unset  bad = bad  nopath = nopath  nopin = nopin
    Paths <- MCPaths  Globs <- MCGlobs  Matches <- MCMatches  Limits <- MCLimits
    Unset = unset  Bad = bad  NoPath = nopath
    Deps = {dep}  Commands = {cmd}  Common = {}  ManifestOf <- MCManifestOf
    Above <- MCAbove  RootPins = {man}  NoPin = nopin
    Required = {}  Scripts = {cmd}
    Protected = {pol}  GitInternal = {}  Workflows = {}  HighRisk = {man}
    TestPaths = {tst}  Lockfiles = {}  Ecosystems = {}
    Requests <- MCRequests  Patches <- MCPatches  Packets <- MCPackets  Links <- MCLinks
    Contracts <- MCContracts  Executions <- MCExecutions
    Files <- MCFiles  Committed <- MCCommitted  Ledgers <- MCLedgers
    PolicyPaths = {pol}  MaxEdits = 1
    f = f  up = up  null = null  Names = {f}  Escapes = {up}  Null = null  Offered <- DiffLines
    MaxLines = 8  MaxCount = 1  MaxOdd = 1
    a = a  b = b  ib = ib  iu = iu  ui = ui  data = data  r1 = r1  r2 = r2  none = none
    PyFiles = {a, b}  Statements = {ib, iu}  Targets <- ArchTargets  Relative = {iu}
    Layers = {ui, data}  RuleIds = {r1, r2}  Trees <- ArchTrees
    Absent = nopath  NoRule = none  NotReviewed = unset
    Recorders = {"x", "y"}  MaxRuns = 2  pytest = pytest  one = one
    ExecCommands = {pytest, one}  Answers <- ExecAnswers
    Writers = {"v", "w"}  Findings = {"f", "g"}  MaxEvents = 3
SPECIFICATION ReviewSpec
INVARIANT TruncatedHunkIsMalformed
CHECK_DEADLOCK FALSE
