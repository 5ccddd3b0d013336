CONSTANTS
    Capacity = 2
    Threads = {a, f, g}
    Allocators = {a}
    Spurious = FALSE
    a = a  f = f  g = g
SPECIFICATION FairSpec
INVARIANTS TypeOK UniqueHolder PoolIntact
PROPERTIES ImplementsPoolSpec LockFree
