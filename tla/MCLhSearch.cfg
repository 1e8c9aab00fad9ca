SPECIFICATION SearchSpec
CONSTANTS
    Rows = 3
    Cols = 4
    NaN = NaN
    Values <- MCValues
    ToFloat <- MCToFloat
    Err = 1
    MinF <- MCMinF
INVARIANTS
    StartIsLeast
    ReportedIsStart
    ThrowsOnlyWithoutMinimum
