SPECIFICATION MCSpec
CONSTANTS
    Hosts = {"a", "b"}
    Routers = {"r"}
    Remote = {}
    LWIP_ND6_NUM_NEIGHBORS = 2
    LWIP_ND6_NUM_DESTINATIONS = 1
    LWIP_ND6_NUM_ROUTERS = 1
    LWIP_ND6_MAX_MULTICAST_SOLICIT = 1
    LWIP_ND6_REACHABLE_TIME = 1
    LWIP_ND6_DELAY_FIRST_PROBE_TIME = 1
    MaxLifetime = 1
    MEMP_NUM_ND6_QUEUE = 1
    ArpLink = {"a", "b", "g"}
    ArpRemote = {"r"}
    Gateway = "g"
    HwAddrs = {"x", "y"}
    ARP_TABLE_SIZE = 2
    ARP_MAXAGE = 3
    ARP_MAXPENDING = 2
    ARP_AGE_REREQUEST_USED_UNICAST = 1
    ARP_AGE_REREQUEST_USED_BROADCAST = 2
INVARIANTS SentToLastHeard CacheSound
PROPERTIES PendingEnds RouterEntryKept
CHECK_DEADLOCK FALSE
