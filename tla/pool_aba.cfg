CONSTANTS
    Capacity = 3
    Threads = {a, b}
    Allocators = {a, b}
    Spurious = FALSE
    a = a  b = b
SPECIFICATION Spec
SYMMETRY Symm
INVARIANT UniqueHolder
CHECK_DEADLOCK FALSE
