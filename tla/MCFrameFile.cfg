SPECIFICATION Spec
CONSTANTS
    Shapes <- FullShapes
    SaverPost = 1
    AnyPost = AnyPost
    LoaderPosts = {AnyPost, 1, 2}
    MaxFrames = 2
    Capacity = 11
    Garbage = Garbage
INVARIANTS
    TypeOK
    TornOnlyLast
    CompleteRecordingRead
PROPERTY
    ImplementsRecording
CHECK_DEADLOCK FALSE
