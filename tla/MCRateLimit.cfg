SPECIFICATION Spec
CONSTANTS
    a1 = a1
    a2 = a2
    Addr <- MCAddr
    Limit = 2
    Window = 2
    MaxTime = 7
    MaxRefused = 1
SYMMETRY AddrSymmetry
INVARIANTS
    TwiceTheLimit
    RefusedOnlyAtLimit
