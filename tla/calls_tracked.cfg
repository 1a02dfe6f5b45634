\* The records SkyLB writes today have no child and are not found.
SPECIFICATION Spec
CONSTANTS
    a = a
    b = b
    c = c
    Names = {a, b, c}
    Pairs <- TwoCallees
    StackLimit = 4
    MaxTime = 2
INVARIANTS
    TrackedIsShown
