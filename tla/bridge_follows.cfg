\* Two keys change while the bridge copies, watches, fails and starts again.
SPECIFICATION FairSpec
CONSTANTS
    k1 = k1
    k2 = k2
    Keys = {k1, k2}
    MaxVersion = 3
    MaxEvents = 2
INVARIANTS
    NoOtherGap
PROPERTIES
    NeverGoesBack
    CatchesUp
