\* Every limit from none to four reports, signals at any moment.
SPECIFICATION Spec
CONSTANTS
    MaxNumber = 4
    MaxTaken = 32
INVARIANTS
    ExactCount
    NoSampleAfterSignal
PROPERTIES
    SignalEnds
    LimitedRunEnds
    PromiseKept
