SPECIFICATION FairSpec
CONSTANTS
    TP = {p0}
    Envelope <- AllEnvelopes
    BatchSize = 2
    FaultKinds <- AllFaults
    MaxLog = 2
    MaxFaults = 2
INVARIANTS EdgesAnchored
PROPERTY CatchesUp
CHECK_DEADLOCK FALSE
