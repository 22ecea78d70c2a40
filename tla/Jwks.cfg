CONSTANTS
    c1 = c1
    c2 = c2
    k1 = k1
    Calls = {c1, c2}
    Keys = {k1}
    Usable = {k1}
    MinRefresh = 1
    DefaultMaxAge = 3
    MaxAgeHeaders <- NoneOrZero
    FetchTime = 1
    NoData = NoData
    NoCall = NoCall
    MaxTime = 5
SPECIFICATION FairSpec
PROPERTIES TrustedKeysAreRecent NewKeyIsFound EveryCallReturns
CHECK_DEADLOCK FALSE
