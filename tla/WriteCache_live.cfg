SPECIFICATION FairSpec
CONSTANTS
    Last = 1
    CACHE_BUFS = 2
    CacheSectors = 2
    MaxXfer = 2
    Val = {a}
    Blank = Blank
    NoTask = NoTask
    NoJob = NoJob
PROPERTIES
    HostAnswered
    QuietHostSettles
