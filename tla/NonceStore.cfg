CONSTANTS
    Requests = {r1, r2}
    Emails = {e1, e2}
    NoEmail = NoEmail
    Ips = {i1, i2}
    NoIp = NoIp
    Lifetimes = {0}
    MaxNonce = 2
    MaxTime = 1
    Faults = TRUE
SPECIFICATION Spec
INVARIANTS TypeOK HonouredAsStored OneEach
PROPERTIES SparesTheNew SpentLeaves ImplementsLifecycle
SYMMETRY MCSymmetry
