SPECIFICATION Spec
CONSTANTS
    h1 = h1
    h2 = h2
    r = r
    a = a
    b = b
    c = c
    d = d
    lost = lost
    ghost = ghost
    None = None
    Nodes = {h1, r, h2}
    Devices = {a, b, c, d}
    Strangers = {}
    NodeOf <- LineNodes
    Link <- LineLinks
    Route <- LineTables
    InitialTtl = 2
    QueueCapacity = 1
    WireCapacity = 1
    Sends <- BothWays
    Leavers = {}
INVARIANTS
    NoArpDeadlock
CHECK_DEADLOCK FALSE
