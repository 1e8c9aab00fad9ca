SPECIFICATION UseSpec
CONSTANTS
    Objects = {f1, f2}
    Blocks = {b1, b2, b3, b4}
    Channels = {0, 1, 2}
    Lengths = {0, 2}
    Threads = {t1, t2}
    Null = Null
    RefRows = {0, 2}
    FrameChannels = FrameChannels
SYMMETRY Symmetry
INVARIANT
    UseTypeOK
    NothingLeaks
    NoBadFree
    RowsMatchChannels
    NoSharedRows
    ReadsSound
CHECK_DEADLOCK FALSE
