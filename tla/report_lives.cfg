\* A server that restarts with another weight, or overlaps with its former self;
\* lame duck marks come and go.
SPECIFICATION FairSpec
CONSTANTS
    k1 = k1
    k2 = k2
    e1 = e1
    e2 = e2
    r1 = r1
    r2 = r2
    w1 = w1
    w2 = w2
    NoWeight = NoWeight
    Keys = {k1}
    Endpoints = {e1}
    EpOf <- OwnEndpoints
    Weights = {w1, w2}
    Streams = {r1, r2}
    Reports <- Restarted
    TTL = 3
    Interval = 2
    FaultSets <- FaultMix
    MaxEvents = 1
INVARIANTS
    TypeOK
    AliveWhileReporting
    WeightIsNewest
    MarksFollowed
PROPERTIES
    LameDuckLeaves
    ReporterReturns
