\* The clock is set back by about the length of a window.
SPECIFICATION Spec
CONSTANTS
    Devices = {}
    Nullopt = Nullopt
    UnitsPerSecond = 2
    StartTime <- OverAWindow
    ShrinkAfter = 1
    BootIo = {0}
    MaxLate = 1
    MaxSamples <- OneWindow
    MaxClockSteps = 1
    MaxIo = 0
INVARIANT RatesArePerSecond
CHECK_DEADLOCK FALSE
