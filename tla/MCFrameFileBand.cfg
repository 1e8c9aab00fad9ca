SPECIFICATION Spec
CONSTANTS
    Shapes <- BandShapes
    SaverPost = 1
    AnyPost = AnyPost
    LoaderPosts = {AnyPost, 1, 2}
    MaxFrames = 2
    Capacity = 11
    Garbage = Garbage
INVARIANT
    LengthKept
CHECK_DEADLOCK FALSE
