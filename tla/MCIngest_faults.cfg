SPECIFICATION Spec
CONSTANTS
    TP = {p0, p1}
    Envelope <- SomeEnvelopes
    BatchSize = 2
    FaultKinds <- NoLoadFaults
    MaxLog = 2
    MaxFaults = 2
INVARIANTS CommittedIsWrittenUnlessFailed OneMessagePerRecord LastWordStands
CHECK_DEADLOCK FALSE
