SPECIFICATION Spec
CONSTANTS
    FLAMES = FLAMES
    ITIMER = ITIMER
    PICMASK = PICMASK
    NEVENT_MAXCLOCK = 2
    DispClock = 2
    VsyncClock = 1
    Periods = {1, 3}
    Costs = {1, 2}
    Mults = {1, 2}
    Wrap = 4
    MaxShadow = 1
PROPERTIES
    Implements
    CyclesCounted
    FrameEnds
