SPECIFICATION Spec
CONSTANTS
    Capacity = 3
    Elements = {a, b}
    Blank = Blank
    MaxLen = 4
INVARIANTS
    TypeOK
    AssertsHold
PROPERTY
    ImplementsFifo
