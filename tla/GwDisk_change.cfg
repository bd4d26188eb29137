SPECIFICATION Spec
CONSTANTS
    Tracks = {0, 1}
    Disks = {A, B}
    NoDisk = NoDisk
    Unreadable = Unreadable
    GW_DOOR_FRAMES = 3
    GW_IDLE_HOLD = 2
INVARIANTS
    PickedUp
    GuestTold
    WritesKept
PROPERTY DoorCloses
