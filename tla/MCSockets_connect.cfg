SPECIFICATION FairSpec
CONSTANTS
    SendSlots = 1
    RecvSlots = 0
    Threads = {t1}
    Exit = Exit
    Fds = {1}
    Blocks = {1}
    Inbound = {}
    Outbound = {out}
    Backlog = 1
    AcceptCapacity = 2
    OrphanCapacity = 1
    MaxWrite = 0
    Retries = FALSE
    None = None
PROPERTY
    ConnectReturns
CHECK_DEADLOCK FALSE
