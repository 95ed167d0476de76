CONSTANTS
    WaitUnlock = 3
    MaxManual = 3
SPECIFICATION BatterySpec
INVARIANTS
    LockKnown
PROPERTIES
    ManualLockStands
    RelockNeedsLow
    ChargedIsUnlocked
