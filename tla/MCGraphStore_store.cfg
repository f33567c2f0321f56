SPECIFICATION Spec
CONSTANTS
    NodeID <- MCNodeIDs
    CallerNodeID <- MCColonAgents
    EdgeID <- MCEdgeIDs
    Suffix <- MCSuffixes
    Key <- MCKey
    NewNodeID <- MCNewNodeID
    NewEdgeID <- MCNewEdgeID
    HashEdgeID <- MCHashEdgeID
    NodeLabel <- MCLabels2
    EdgeLabel <- MCEdgeLabels
    PropKey = {k1}
    PropVal = {v1}
    Absent = Absent
    Client = {c1}
    ReadErrors = TRUE
    MaxID = 1
    MaxFaults = 1
INVARIANTS IndexExact LookupsExact CreatedEdgesAnchored
PROPERTY ImplementsPropertyGraph
CHECK_DEADLOCK FALSE
