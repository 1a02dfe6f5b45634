\* Two streams of one gRPC connection ask for one service, one of them under two port names.
SPECIFICATION Spec
CONSTANTS
    a = a
    i1 = i1
    i2 = i2
    r1 = r1
    r2 = r2
    p = p
    q = q
    x = x
    y = y
    Watcher = Watcher
    NoService = NoService
    NoStream = NoStream
    Services = {a}
    Ports = {p, q}
    Instances = {i1, i2}
    Streams = {r1, r2}
    Addrs = {x, y}
    Slots = {1}
    PortOf <- PortOfEach
    AddrOf <- SameAddr
    Request <- TwoPorts
    ChanCapMultiplication = 2
    MaxVersion = 1
    MaxTicks = 0
    FetchMayFail = FALSE
    EventsMayBeLost = FALSE
PROPERTIES
    ImplementsDirectory
INVARIANTS
    EndedLeavesNothing
    ServedIsObserved
