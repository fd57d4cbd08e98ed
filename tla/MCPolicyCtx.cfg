SPECIFICATION Spec
CONSTANTS
    Policies = {p1, p2, p3}
    MaxCallers = 2
    MaxGen = 3
    CallerMayRelease = FALSE
SYMMETRY Handles
INVARIANTS RefcountExact NoDangling DestroyedWithLastUser
CHECK_DEADLOCK FALSE
