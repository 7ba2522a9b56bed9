\* The terminal loses two lines.
SPECIFICATION Spec
CONSTANTS
    NapsPerSample = 1
    HistorySize = 1
    ShrinkAfter = 1
    Numbers = {0}
    Digits = {2}
    Sizes <- AllTypes
    MaxTaken = 7
INVARIANT LaidOut
