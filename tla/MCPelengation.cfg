SPECIFICATION Spec
CONSTANTS
    Carriers <- MCCarriers
    Samples = {0, 2, 4}
    Resolution = 2
    Extents = {0, 1, 3}
    Speed = 12
    Circle = 8
    Memory = 60
    Inf = Inf
    NaN = NaN
    UintMax = 7
    SizeMax = 15
    MaxElements = 4
    MaxBearings = 3
INVARIANTS
    EndlessOnlyByStep
    GridSound
    EachPairOnce
PROPERTIES
    TriangulationEnds
