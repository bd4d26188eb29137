SPECIFICATION FairSpec
CONSTANTS
    Drives = {0, 1}
    Eot = 2
    SectorLen = 2
    FDC_INT_DELAY = 1
    Doors = {1}
    Asked <- Both
    Stray = {"SEEK"}
    Lengths = {3}
    Wrap = 5
INVARIANTS
    SectorsInTurn
    TransferWhole
    NothingUntold
PROPERTIES
    CommandsEnd
