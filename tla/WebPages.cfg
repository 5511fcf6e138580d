CONSTANTS
    t1 = t1
    t2 = t2
    b1 = b1
    b2 = b2
    e1 = e1
    e2 = e2
    i1 = i1
    Tabs = {t1, t2}
    Followers = {f1}
    Browsers = {b1, b2}
    BrowserOf <- MCBrowserOf
    IpOf <- MCIpOf
    KnownIn <- MCKnownIn
    CarriedTo = {b2}
    PageLife = 0
    LinkLife = 0
    Emails = {e1, e2}
    NoEmail = NoEmail
    Ips = {i1}
    NoIp = NoIp
    MaxNonce = 2
    MaxTime = 0
    Faults = TRUE
SPECIFICATION PagesSpec
INVARIANTS PagesTypeOK NonceIsOwn AvatarIsEarned LinksAreOpen
