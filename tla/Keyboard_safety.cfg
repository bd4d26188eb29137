SPECIFICATION Spec
CONSTANTS
    KeyCodes = {0, 29, 112}
    Repeats = {0, 29}
    KB_BUF = 3
    KEYREPEAT_BUF_MAX = 1
    Ack = Ack
INVARIANTS
    CodesTellTruth
    ByteNeverStranded
    RepeatOnlyHeld
VIEW View
