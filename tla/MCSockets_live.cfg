SPECIFICATION FairSpec
CONSTANTS
    SendSlots = 1
    RecvSlots = 0
    Threads = {t1}
    Exit = Exit
    Fds = {1, 2}
    Blocks = {1, 2}
    Inbound = {i, j}
    Outbound = {}
    Backlog = 2
    AcceptCapacity = 3
    OrphanCapacity = 1
    MaxWrite = 0
    Retries = FALSE
    None = None
PROPERTIES
    OrphansDeleted
    EstablishedIsAccepted
    ExitEnds
CHECK_DEADLOCK FALSE
