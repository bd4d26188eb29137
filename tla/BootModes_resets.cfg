SPECIFICATION Spec
CONSTANTS
    NFloppy = 1
    FloppyImages = {disk}
    HddImages = {hdd, other}
    DefaultHdd = hdd
    Empty = Empty
    Mark = Mark
    Absent = Absent
    MaxCuts = 3
INVARIANTS
    SocketFollowsMode
    HddStaysEjected
    ImageIsTheChosen
PROPERTIES
    UsbModeIsOneShot
    RestoresMounts
    UsbModeEnds
CHECK_DEADLOCK FALSE
