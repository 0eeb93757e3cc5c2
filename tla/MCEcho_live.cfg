SPECIFICATION EchoSpec
CONSTANTS
    Client = Client
    Server = Server
    SendCapacity = 3
    RecvCapacity = 3
    MaxPayload = 2
    MaxRetrans = 4
    SeqSpace = 100
    InitSeqs <- FarApart
    MaxBytes <- ThreeBytes
    MaxLosses = 3
    Duplicating = FALSE
    PromptNetwork = TRUE
PROPERTY
    EchoCompletes
CHECK_DEADLOCK FALSE
