SPECIFICATION Spec
CONSTANTS
    Session = {s1, s2}
    Texts <- QueryTexts
    Params <- QueryParams
    Stored <- Graph1
    TextOrder <- Order
    Within <- Parts
    NewID <- IDs
    Procedures <- Procs
    MaxStatements = 2
    Trees <- Syntax
    Scraps <- Fragments
INVARIANTS EndsExist ExactWhenAlone ParsesWhatIsWritten NoTokenIsIgnored
CHECK_DEADLOCK FALSE
