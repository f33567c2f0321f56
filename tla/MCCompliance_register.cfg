SPECIFICATION Spec
CONSTANTS
    TimeOf <- Times
    DateOnly <- Dates
    Hardcoded <- RegisterRules
    YAMLFiles <- Files
    Client = {c1, c2}
    Ops <- RegisterOps
    Bodies <- RegisterBodies
    Updates <- RegisterUpdates
    Statuses <- NoStatuses
    Named <- RegisterNamed
    Posted <- RegisterPosted
    MaxFaults = 1
    ScanRequests <- RegisterScans
    Seeded <- Reference
    MaxRequests = 2
    Instants <- RegisterTimes
INVARIANTS ScanIsWhole ScanAgreesWithValidation SLAAgrees
SYMMETRY Symmetry
CHECK_DEADLOCK FALSE
