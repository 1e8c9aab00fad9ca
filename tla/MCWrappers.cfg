SPECIFICATION Spec
CONSTANTS
    Wrappers = {w1, w2, w3}
    Addresses = {p1, p2, p3, p4}
    Files = {round, square}
    Broken = Broken
    Free = Free
    Null = Null
    MaxPosts = 2
SYMMETRY Symmetry
INVARIANTS
    OneOwner
    LeaksOnlyDropped
    SystemAsAsked
