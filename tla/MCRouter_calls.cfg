SPECIFICATION Spec
CONSTANTS
    Call = {1, 2}
    Node = {1, 2, 3}
    Me = 1
    Views <- Owners
    Size <- Sizes
    MaxSize = 2
    MaxStops = 1
INVARIANTS WholePartsInOrder ErrorMeansNobody
PROPERTIES CallsEnd CloseReturns
CHECK_DEADLOCK FALSE
