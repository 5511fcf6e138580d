CONSTANTS
    t1 = t1
    t2 = t2
    e1 = e1
    e2 = e2
    i1 = i1
    a1 = a1
    a2 = a2
    Tabs = {t1, t2}
    UsersOf <- MCOneUser
    IpOf <- MCIpOf
    WalletOf <- MCWalletOf
    FromChat = {}
    Receivers = {a2}
    LifeOf <- MCLifeOf
    Contracts = {c1}
    Accounts = {a1, a2}
    Unpayable = {}
    NoAccount = NoAccount
    Prices = {0}
    PriceModulus = 1
    Funds = 0
    Emails = {e1}
    NoEmail = NoEmail
    Ips = {i1}
    NoIp = NoIp
    MaxNonce = 2
    MaxTime = 0
    Faults = FALSE
SPECIFICATION Spec
INVARIANTS StayingTracks
SYMMETRY MCSymmetry
CHECK_DEADLOCK FALSE
