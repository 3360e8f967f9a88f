SPECIFICATION Spec
CONSTANTS
    BackoffCap = 4
    PumpTick = 2
    Interval = 5
    CallTime = 1
    MaxTime = 20
    MaxFailures = 4
INVARIANTS
    NoLostWakeup
    FullComesRound
PROPERTY
    StartupBacksOff
