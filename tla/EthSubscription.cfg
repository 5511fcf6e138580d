CONSTANTS
    Addresses = {p}
    Updates = {u1}
    MaxCalls = 2
    MaxDrops = 2
SPECIFICATION Spec
INVARIANTS TypeOK OneConnection NothingForgotten
PROPERTY ImplementsLine
CHECK_DEADLOCK FALSE
