\* One client of one service under every disturbance of the update pipeline:
\* lost watch events, failing reads, two updaters, a channel with room for one update.
SPECIFICATION FairSpec
CONSTANTS
    a = a
    i1 = i1
    i2 = i2
    r1 = r1
    r2 = r2
    p = p
    q = q
    x = x
    y = y
    Watcher = Watcher
    NoService = NoService
    NoStream = NoStream
    Services = {a}
    Ports = {p}
    Instances = {i1, i2}
    Streams = {r1}
    Addrs = {x, y}
    Slots = {1, 2, 3}
    PortOf <- OnePort
    AddrOf <- OwnAddrs
    Request <- OneSpec
    ChanCapMultiplication = 1
    MaxVersion = 2
    MaxTicks = 1
    FetchMayFail = TRUE
    EventsMayBeLost = TRUE
INVARIANTS
    TypeOK
PROPERTIES
    NotifiersExit
    RectifyDelivers
    RequestAnswered
