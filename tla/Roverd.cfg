CONSTANTS
    SeekDelay = 3
    ChargeTimeout = 2
    RetryCap = 3
    MaxSamples = 2
    TtsSlots = 2
    MaxRuns = 2
SPECIFICATION DaemonSpec
INVARIANTS
    NeverEarly
PROPERTIES
    OutageSeeks
    IdleIsSought
    TtsBusyEnds
