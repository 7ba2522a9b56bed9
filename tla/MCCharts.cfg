\* Series with zeros, equal numbers and labels of two lengths.
SPECIFICATION Spec
CONSTANTS
    Numbers = {0, 1, 5, 7, 12}
    Whole = 12
    HistorySize = 4
    Sizes <- SmallWindows
INVARIANTS
    BarsInside
    TallerIsMore
    NonZeroSeriesIsScaled
