SPECIFICATION FairSpec
CONSTANTS
    Values <- MCValues
    NaN = NaN
    MinF <- MCMinF
    MinDelta = 2
    MaxIter = 4
INVARIANTS
    TypeOK
    BracketSound
    ValueIsOfX
    NoWorseThanStart
PROPERTY
    SearchEnds
    ImplementsMinimiser
CHECK_DEADLOCK FALSE
