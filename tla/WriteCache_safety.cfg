SPECIFICATION Spec
CONSTANTS
    Last = 2
    CACHE_BUFS = 2
    CacheSectors = 2
    MaxXfer = 2
    Val = {a, b}
    Blank = Blank
    NoTask = NoTask
    NoJob = NoJob
SYMMETRY ValSymmetry
INVARIANTS
    NoBufferRace
    TokensConserved
    AcceptedSurvives
    BarrierSettles
    TouchStrandsNothing
PROPERTIES
    WriteOrderKept
