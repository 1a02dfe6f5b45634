\* Builds and walks of the graph of three services, after any history of records.
SPECIFICATION Spec
CONSTANTS
    a = a
    b = b
    c = c
    Names = {a, b, c}
    Pairs <- SelfCall
    StackLimit = 4
    MaxTime = 2
INVARIANTS
    TypeOK
    OneTimeShown
    OldestFirstShowsNewest
    WalkIsSafe
