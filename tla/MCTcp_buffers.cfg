SPECIFICATION FairSpec
CONSTANTS
    Client = Client
    Server = Server
    SendCapacity = 1
    RecvCapacity = 1
    MaxPayload = 2
    MaxRetrans = 1
    SeqSpace = 100
    InitSeqs <- FarApart
    MaxBytes <- TwoAndOne
    MaxLosses = 0
    Duplicating = TRUE
    PromptNetwork = FALSE
INVARIANTS
    TypeOK
    Acknowledging
    FinAfterAllBytes
PROPERTIES
    ImplementsStream
    SenderSettles
CHECK_DEADLOCK FALSE
