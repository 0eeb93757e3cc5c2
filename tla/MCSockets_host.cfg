SPECIFICATION Spec
CONSTANTS
    SendSlots = 1
    RecvSlots = 0
    Threads = {t1, t2}
    Exit = Exit
    Fds = {1, 2}
    Blocks = {1, 2}
    Inbound = {i, j}
    Outbound = {out}
    Backlog = 1
    AcceptCapacity = 3
    OrphanCapacity = 1
    MaxWrite = 1
    Retries = FALSE
    None = None
INVARIANTS
    TypeOK
    DeletedOutOfReach
    HandedOutOnce
    OpenMeansFound
PROPERTIES
    LostOnlyWhenFull
SYMMETRY ThreadSymmetry
CHECK_DEADLOCK FALSE
