\* Two operators and the servers edit one service; key 2 spells its port oddly.
SPECIFICATION Spec
CONSTANTS
    o1 = o1
    o2 = o2
    s1 = s1
    s2 = s2
    p = p
    q = q
    Garbled = Garbled
    NoService = NoService
    NoKey = NoKey
    Operators = {o1, o2}
    Services = {s1}
    Keys = {1, 2}
    Parsed <- OddPort
    Ports = {p, q}
    DefaultPort = p
    ReadsMayFail = FALSE
    MaxIndex = 4
SYMMETRY OperatorSymmetry
INVARIANTS
    TypeOK
    RemovesTheListed
PROPERTIES
    StaticKept
    LiveKept
