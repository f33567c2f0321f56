SPECIFICATION FairSpec
CONSTANTS
    Agent = {a1}
    Signal = {s1}
    Brain = {b1}
    User = {u1}
    DayLen = 4
    DueTime = 0
    MinGap = 1
    Grace = 1
    MaxClock = 3
    MaxBrainRuns = 1
    MaxRequests = 2
    MaxFaults = 1
INVARIANTS RequestsBounded GraceRespected
PROPERTY EventuallyAsked
CHECK_DEADLOCK FALSE
