\* One client of one service within Kubernetes: objects come and go, the
\* watch breaks, the informer lags behind the API server.
SPECIFICATION K8sFairSpec
CONSTANTS
    a = a
    i1 = i1
    r1 = r1
    p = p
    x = x
    Watcher = Watcher
    NoService = NoService
    NoStream = NoStream
    NoObject = NoObject
    Services = {a}
    Ports = {p}
    Instances = {i1}
    Streams = {r1}
    Addrs = {x}
    Slots = {1, 2, 3, 4}
    PortOf <- AllToP
    AddrOf <- AllFromX
    Request <- AskForA
    ChanCapMultiplication = 1
    MaxVersion = 3
    MaxTicks = 1
    FetchMayFail = FALSE
    EventsMayBeLost = TRUE
INVARIANTS
    StaleIsExplained
PROPERTIES
    UpdateDelivers
