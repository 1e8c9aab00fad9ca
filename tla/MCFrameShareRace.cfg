SPECIFICATION Spec
CONSTANTS
    None = None
    Threads = {t1, t2, t3}
    Frames = {f1}
    Serials = {0}
    Serialised = FALSE
    Reload = FALSE
SYMMETRY Symmetry
INVARIANT
    NoHolderAfterErase
CHECK_DEADLOCK FALSE
