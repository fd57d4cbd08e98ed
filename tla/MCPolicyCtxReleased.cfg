SPECIFICATION Spec
CONSTANTS
    Policies = {p1, p2}
    MaxCallers = 2
    MaxGen = 3
    CallerMayRelease = TRUE
PROPERTIES CompactRefusesShared
CHECK_DEADLOCK FALSE
