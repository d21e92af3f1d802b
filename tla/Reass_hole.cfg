SPECIFICATION Spec
CONSTANTS
    Versions = {4, 6}
    Ids = {d1}
    Parts = 4
    IP_REASS_MAX_PBUFS = 4
    IP_REASS_MAXAGE = 2
    TimerCalls = {TRUE, FALSE}
INVARIANT HandedUpWhole
