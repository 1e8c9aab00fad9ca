SPECIFICATION Spec
CONSTANTS
    Samples <- MCSamples
    Lengths = {0, 2, 4}
    Bounds = {0, 1}
    FullLength = 4
    None = None
INVARIANT
    AmpInFullFrame
    PelInFrame
    GridFollowsWindow
    SidesAgree
