SPECIFICATION FairSpec
CONSTANTS
    None = None
    Threads = {t1, t2, t3}
    Frames = {f1, f2}
    Serials = {0, 1}
    Serialised = TRUE
    Reload = TRUE
INVARIANTS
    TypeOK
    NoHolderAfterErase
    ErasedWhenReleased
    CounterCountsHolders
    NoStrayErase
PROPERTY
    ImplementsLifetime
    EveryFrameReturns
