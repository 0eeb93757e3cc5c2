SPECIFICATION TransferSpec
CONSTANTS
    Client = Client
    Server = Server
    SendCapacity = 3
    RecvCapacity = 2
    MaxPayload = 1
    MaxRetrans = 1
    SeqSpace = 100
    InitSeqs <- FarApart
    MaxBytes <- TwoAndOne
    MaxLosses = 0
    Duplicating = FALSE
    PromptNetwork = TRUE
PROPERTY
    AllBytesArrive
CHECK_DEADLOCK FALSE
