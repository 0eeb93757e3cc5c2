SPECIFICATION Spec
CONSTANTS
    SendSlots = 1
    RecvSlots = 1
    Threads = {t1}
    Exit = Exit
    Fds = {1, 2}
    Blocks = {1, 2}
    Inbound = {i, j}
    Outbound = {out}
    Backlog = 1
    AcceptCapacity = 3
    OrphanCapacity = 1
    MaxWrite = 0
    Retries = FALSE
    None = None
INVARIANTS
    EndOfFileMeansAllRead
CHECK_DEADLOCK FALSE
