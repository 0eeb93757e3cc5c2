SPECIFICATION FairSpec
CONSTANTS
    h1 = h1
    h2 = h2
    r = r
    a = a
    b = b
    c = c
    d = d
    lost = lost
    ghost = ghost
    None = None
    Nodes = {h1, r, h2}
    Devices = {a, b, c, d}
    Strangers = {lost, ghost}
    NodeOf <- LineNodes
    Link <- LineLinks
    Route <- LineTables
    InitialTtl = 2
    QueueCapacity = 1
    WireCapacity = 1
    Sends <- AllSends
    Leavers = {h2}
INVARIANTS
    TypeOK
    CacheIsTrue
    RequestHasOwner
PROPERTIES
    PacketsEnd
    ThreadsReturn
    
CHECK_DEADLOCK FALSE
