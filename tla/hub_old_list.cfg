\* An older list overtakes a newer one: Resolve compares ids, not versions.
SPECIFICATION Spec
CONSTANTS
    a = a
    i1 = i1
    i2 = i2
    r1 = r1
    r2 = r2
    p = p
    q = q
    x = x
    y = y
    Watcher = Watcher
    NoService = NoService
    NoStream = NoStream
    Services = {a}
    Ports = {p}
    Instances = {i1}
    Streams = {r1}
    Addrs = {x, y}
    Slots = {1, 2, 3}
    PortOf <- OnePort
    AddrOf <- OwnAddrs
    Request <- OneSpec
    ChanCapMultiplication = 1
    MaxVersion = 2
    MaxTicks = 1
    FetchMayFail = FALSE
    EventsMayBeLost = FALSE
PROPERTIES
    NoOlderListSent
