SPECIFICATION LinkFairSpec
CONSTANTS
    SEEK = 2
    HEAD = 3
    READFLUX = 7
    GETFLUXSTATUS = 9
    SETBUSTYPE = 14
    MOTOR = 6
    FluxBytes = {2, 3, 7}
    GW_RESYNC_MAX = 2
    MaxStream = 1
    MaxQueued = 4
INVARIANTS
    FreshFlux
    RefusalSeen
PROPERTY ReadEnds
