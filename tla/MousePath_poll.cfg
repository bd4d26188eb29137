SPECIFICATION MouseFairSpec
CONSTANTS
    UsbMice = {u}
    BtMice = {b}
    Motion = {1}
    Half = 2
    Moved = {"touch", u}
INVARIANTS
    MotionConserved
    PresenceCount
PROPERTIES
    MotionArrives
