\* The terminal takes every size at any moment, tabs are chosen freely.
SPECIFICATION Spec
CONSTANTS
    NapsPerSample = 1
    HistorySize = 1
    ShrinkAfter = 1
    Numbers = {0}
    Digits = {2, 6}
    Sizes <- AllTypes
    MaxTaken = 11
INVARIANTS
    ShownIsCurrent
    LaidOutUnlessShrunk
