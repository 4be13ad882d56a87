SPECIFICATION PermissionsSpec
CONSTANTS
    Procs = {"roving", "settled"}
    Repos <- MCRepos
    Cwd <- MCCwd
    Values <- MCValues
    i1 = i1
    i2 = i2
    i3 = i3
    Ids <- MCIds
    Entries <- MCEntries
    Forged <- MCForged
    NoEntry = none
    NoId = noid
    Faults = {"io", "crash", "edit"}
    u1 = u1
    u2 = u2
    r1 = r1
    r2 = r2
    s1 = s1
    k1 = k1
    n1 = n1
    n2 = n2
    Users = {u1, u2}
    Founder = u1
    Repositories = {r1, r2}
    Services = {s1}
    Tokens = {t1, t2}
    NoService = noservice
    Given = {"owner", "maintainer"}
    Calls <- MCCalls
    Threads = {w1}
    x = x
    y = y
    w = w
    v = v
    Clients = {x, y}
    Refreshers = {w, v}
    MaxIssued = 3
SYMMETRY Symmetry
INVARIANTS
    OnlyRecordedCounts
    LedgersAgree
    OwnerRemains
    RevokedServiceIsSilent
    AnsweredOnce
    AuditTellsState
    SessionsEnd
PROPERTIES
    RemovedStaysRemoved
    FailureChangesNothing
