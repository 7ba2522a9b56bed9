\* Devices come, go and restart their counters; every sleep takes one second.
SPECIFICATION Spec
CONSTANTS
    Devices = {disk0}
    Nullopt = Nullopt
    UnitsPerSecond = 1
    StartTime = 0
    ShrinkAfter = 1
    BootIo <- FreshOrUsed
    MaxLate = 0
    MaxSamples <- TwoWindows
    MaxClockSteps = 1
    MaxIo = 2
INVARIANTS
    TypeOK
    NoDoubleCount
    Lossless
CHECK_DEADLOCK FALSE
