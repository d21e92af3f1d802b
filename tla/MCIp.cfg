SPECIFICATION MCSpec
CONSTANTS
    x = x
    y = y
    n1 = n1
    n2 = n2
    Pcbs = {c1, c2, c3}
    Locals = {x, y}
    Peers = {p1}
    Nets = {n1, n2}
    AnyIp = AnyIp
    All = All
    Net <- MCNet
    PortEnd = 2
    PeerPort = 7
    Netifs = {e1, e2}
    NoNetif = NoNetif
    NoAddr = NoAddr
    Ip4 <- MCIp4
    Ip6 <- MCIp6
    Hosts4 <- MCHosts4
    Hosts6 <- MCHosts6
    NumAddresses = 2
    Tcp = FALSE
    OddSources = FALSE
    Versions = {4, 6}
    Ids = {d1, d2, d3}
    Parts = 4
    IP_REASS_MAX_PBUFS = 4
    IP_REASS_MAXAGE = 1
    TimerCalls = {TRUE, FALSE}
SYMMETRY MCSymmetry
INVARIANTS Reassembled BlocksListed RoutesUsable
PROPERTIES OldestGiveWay BlocksFound
