\* Two streams of one caller share a key; two refused writes in all.
SPECIFICATION FairSpec
CONSTANTS
    k1 = k1
    k2 = k2
    r1 = r1
    r2 = r2
    GraphKeys = {k1, k2}
    Streams = {r1, r2}
    KeysOf <- SharedKeys
    TTL = 4
    Interval = 1
    MaxFailures = 2
INVARIANTS
    TypeOK
    TrackedStaysAlive
    TrackedUnlessNamesake
PROPERTIES
    TrackedComesBack
    ObsoleteVanishes
