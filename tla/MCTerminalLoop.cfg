\* One size of the terminal: keys, signals, limits and the history.
SPECIFICATION Spec
CONSTANTS
    NapsPerSample = 2
    HistorySize = 2
    ShrinkAfter = 1
    Numbers = {0, 1, 3}
    Digits = {5}
    Sizes <- OneSize
    MaxTaken = 27
INVARIANTS
    HistoryIsLatest
    PaceKept
    ExactCount
    NoSampleAfterSignal
PROPERTIES
    SignalEnds
    LimitedRunEnds
    PromiseKept
