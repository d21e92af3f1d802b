SPECIFICATION MCSpec
CONSTANTS
    Group = {"g", "h"}
    Unreported = {"h"}
    MaxResp = {0, 1, 3}
    JOIN_DELAYING_MEMBER_TMR = 2
    V1_DELAYING_MEMBER_TMR = 4
    UsesMax = 3
    Ips = {a, b}
    Any = Any
    LinkLocals = 2
    LEASE = 3
    T1 = 1
    T2 = 2
    Endless = FALSE
    TriesMax = 2
    RequestTries = 1
    REBOOT_TRIES = 2
    LWIP_DHCP_AUTOIP_COOP_TRIES = 2
    PROBE_NUM = 1
    ANNOUNCE_NUM = 2
    DHCP_DOES_ARP_CHECK = TRUE
    ServerNamed = TRUE
INVARIANTS AddressOwned LeaseWatched MemberWhileUsed AnsweredInTime
PROPERTIES ReportsEnd
