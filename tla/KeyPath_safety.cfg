SPECIFICATION Spec
CONSTANTS
    Keys = {41}
    MenuKeys = {68}
    Bits = {256}
    Code <- KeyCode
    Fitted <- Boards
    QLen = 2
    BT_MAX_DEV = 2
    NK_ESC = 0
INVARIANTS
    MachineFollows
