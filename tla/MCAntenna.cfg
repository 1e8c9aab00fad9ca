SPECIFICATION Spec
CONSTANTS
    Antennas = {a, b}
    Models <- MCModels
    Bases <- MCBases
    Turns = {0, 1}
    Centres <- MCCentres
    Corrections <- MCCorrections
    Blank = Blank
INVARIANT
    TypeOK
    DerivedUpToDate
PROPERTY
    CopyInPlace
