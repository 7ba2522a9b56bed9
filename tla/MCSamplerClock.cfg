\* The clock is set back at any moment; no device, so only times matter.
SPECIFICATION Spec
CONSTANTS
    Devices = {}
    Nullopt = Nullopt
    UnitsPerSecond = 2
    StartTime <- OverAWindow
    ShrinkAfter = 1
    BootIo = {0}
    MaxLate = 1
    MaxSamples <- TwoWindows
    MaxClockSteps = 1
    MaxIo = 0
INVARIANTS
    QueueShape
    NoUndefinedDiff
    QuietWindowIsFull
PROPERTY CadenceSpec
\* The caller may stop after any sample.
CHECK_DEADLOCK FALSE
