SPECIFICATION Spec
CONSTANTS
    Client = Client
    Server = Server
    SendCapacity = 3
    RecvCapacity = 2
    MaxPayload = 2
    MaxRetrans = 1
    SeqSpace = 100
    InitSeqs <- FarApart
    MaxBytes <- TwoAndOne
    MaxLosses = 0
    Duplicating = TRUE
    PromptNetwork = FALSE
INVARIANTS
    Inductive
    InOrderDelivery
    AckMeansReceived
    OutstandingIsLastSegment
    FinAfterAllBytes
    HandshakeAgreement
    FinAckedMeansTaken
PROPERTIES
    LastAckMeansDone
    NeverMovesBack
    ImplementsStream
    BlocksStepAsSeen
CHECK_DEADLOCK FALSE
