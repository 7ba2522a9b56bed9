\* Every window of up to five samples over three stamps, in any order; the
\* sensors of all brands, one key of the first and last rows odd; three samples
\* of two cores from counters at 0, before the change of sign and before the
\* wrap; every brand's frequencies and up to three channels in any order.
SPECIFICATION MCSpec
CONSTANTS
    Times = {0, 1, 2}
    MaxWindow = 5
    Undecided = Undecided
    SmcBrands = {"m1", "m2", "m3", "m4", "m5", "unknown"}
    OddRows = {1, 8}
    Window = 2
    Cores = 2
    Half = 8
    Uptimes = {0, 6, 14}
    Loads <- MCLoads
    Memories <- MCMemories
    MaxSamples = 3
    Clocks <- MCClocks
    Kilo = 10
    Mega = 100
    Flaws <- MCFlaws
    Channels <- MCChannels
    Durations = {999, 1999, 2000}
    MaxItems = 3
INVARIANTS
    SensorsAreExact
    LoadAndMemoryAreExact
    ErrorsMatchFailures
    FrequencyAndPowerAreExact
    ExtremesAreOfCores
PROPERTY PromiseKept
\* The diffs of sensors and channels are calls, which end.
CHECK_DEADLOCK FALSE
