SPECIFICATION Spec
CONSTANTS
    Proposals <- Handshakes
    Kinds = {"HELLO", "RUN", "PULL", "RESET", "OTHER", "BAD"}
    AfterRun = {"PULL"}
    MaxRequests = 4
    Window = 3
    MaxRows = 2
    MaxChunk = 4
    Values <- Boundary
    Lengths <- Sizes
    Streams <- Conversations
INVARIANTS RecordsComplete CodecRoundTrip StreamRoundTrip
PROPERTIES ImplementsConversation EveryRequestAnswered
CHECK_DEADLOCK FALSE
