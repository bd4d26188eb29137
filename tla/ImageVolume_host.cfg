SPECIFICATION Spec
CONSTANTS
    Places = {0, 1, 2, 3, 4, 5, 6, 7, 8}
    Idx = {0}
    Byte = {0, 1}
    Volumes <- MCVolumes
    Files <- MCFiles
    BLK_MISSING <- FD_MISSING
    Beyond = 2
    MaxBlocks = 3
    MaxHeld = 1
INVARIANTS
    LayoutKept
    EscapeLosesOnlyLate
PROPERTIES
    OutsideUntouched
    Implements
CHECK_DEADLOCK FALSE
