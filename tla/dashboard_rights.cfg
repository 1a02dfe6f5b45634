\* An administrator and a newcomer, two browsers, two requests at once.
SPECIFICATION Spec
CONSTANTS
    ann = ann
    bob = bob
    b1 = b1
    b2 = b2
    w1 = w1
    w2 = w2
    e = e
    System = System
    NoUser = NoUser
    NoEndpoint = NoEndpoint
    NoBrowser = NoBrowser
    Names = {ann, bob}
    FirstAdmins = {ann}
    Grants <- SomeGrants
    Browsers = {b1, b2}
    Workers = {w1, w2}
    Endpoints = {e}
    MaxInt32 = 3
    MaxWrites = 2
SYMMETRY WorkersAlike
INVARIANTS
    TypeOK
    OperatorWasAdmin
    LogIsTrue
PROPERTIES
    PowerIsGiven
