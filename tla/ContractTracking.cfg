CONSTANTS
    t1 = t1
    t2 = t2
    e1 = e1
    e2 = e2
    i1 = i1
    a1 = a1
    a2 = a2
    Tabs = {t1, t2}
    UsersOf <- MCUsersOf
    IpOf <- MCIpOf
    WalletOf <- MCWalletOf
    FromChat = {t2}
    Receivers = {a2}
    LifeOf <- MCLifeOf
    Contracts = {c1, c2}
    Accounts = {a1, a2}
    Unpayable = {}
    NoAccount = NoAccount
    Prices = {0}
    PriceModulus = 1
    Funds = 0
    Emails = {e1, e2}
    NoEmail = NoEmail
    Ips = {i1}
    NoIp = NoIp
    MaxNonce = 2
    MaxTime = 1
    Faults = TRUE
SPECIFICATION Spec
INVARIANTS TypeOK TrackedByItsPage RefusedForAReason
SYMMETRY MCSymmetry
PROPERTY ImplementsLedger
