\* A rate that was zero once.
SPECIFICATION Spec
CONSTANTS
    Numbers = {0, 5, 7}
    Whole = 12
    HistorySize = 3
    Sizes <- SmallWindows
INVARIANT EveryBarHasItsBlock
