SPECIFICATION FairSpec
CONSTANTS
    Name = {1, 2, 3}
    Proc = {1, 2}
    Addr = {a1, a2}
    HomeAddr = a1
    NumPartitions = 3
    ChanCap = 1
    MaxChanges = 3
INVARIANTS SameListSameMap Balanced StaleMapIsPending
PROPERTY MapFollowsList
CHECK_DEADLOCK FALSE
