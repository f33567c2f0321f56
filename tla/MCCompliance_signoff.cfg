SPECIFICATION Spec
CONSTANTS
    TimeOf <- Times
    DateOnly <- Dates
    Hardcoded = {}
    YAMLFiles <- NoFiles
    Client = {c1, c2}
    Ops <- InspectionOps
    Bodies <- FlowBodies
    Updates <- InspectionUpdates
    Statuses <- InspectionStatuses
    Named <- InspectionNamed
    Posted = {}
    MaxFaults = 0
    ScanRequests = {}
    Seeded <- Inspected
    MaxRequests = 3
    Instants = {}
PROPERTIES SignedOffResolved
SYMMETRY Symmetry
CHECK_DEADLOCK FALSE
