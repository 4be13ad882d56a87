SPECIFICATION ThreadsSpec
CONSTANTS
    Requests = {r1, r2}
    NoOne = none
    Faults = {"thread", "review", "cli"}
    Limit = 3
    Chunk = 2
    QueueSize = 1
    PipeSize = 1
    MaxOutput = 4
    CallFaults = {"read", "helper"}
INVARIANTS
    LockMatchesReview
    AnswerMatchesReport
    CompleteIsWhole
    NothingLeft
PROPERTIES
    EveryRequestAnswered
    GitCallEnds
CHECK_DEADLOCK FALSE
