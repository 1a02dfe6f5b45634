\* Observers come and go while endpoints are set and channels fill up.
SPECIFICATION FairSpec
CONSTANTS
    o1 = o1
    o2 = o2
    x = x
    y = y
    o3 = o3
    Observers = {o1, o2}
    Addrs = {x, y}
    AddrOf <- TwoAddrs
    OtherPort = {}
    ChanCap = 1
    MaxVersion = 2
INVARIANTS
    TypeOK
    NewestIsOffered
    ObservedIsRectified
PROPERTIES
    ClosedIsSilent
    CallsReturn
CHECK_DEADLOCK FALSE
