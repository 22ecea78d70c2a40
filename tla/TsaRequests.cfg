SPECIFICATION Spec
CONSTANTS
    c1 = c1  c2 = c2
    d1 = d1  d2 = d2
    good = good  mixed = mixed  lapsing = lapsing
    a1 = a1  a2 = a2
    Invalid = Invalid  Unreadable = Unreadable
    NoCall = NoCall  NoConfig = NoConfig  NoToken = NoToken
    Calls = {c1, c2}
    Data = {d1, d2}
    URLs = {good, mixed, lapsing}
    Anchors = {a1, a2}
    AnchorNotAfter <- MCAnchorNotAfter
    Certificates <- MCCertificates
    Objects <- MCObjects
    Offsets <- MCOffsets
    CACHE_TTL = 1
    MAX_CLOCK_SKEW = 1
    FetchTime = 1
    MaxTime = 3
    MaxChanges = 1
    MaxFaults = 1
SYMMETRY CallSymmetry
INVARIANTS
    TokenAttests
    ConfigIsRecent
CHECK_DEADLOCK FALSE
