SPECIFICATION TimerSpec
CONSTANTS
    Wrap = 16
    FLUSH_IDLE_MS = 5
    PollDelay = 2
    Preempt = 1
    CacheSectors = 4
    MaxAge = 12
INVARIANTS
    QuietLossBounded
