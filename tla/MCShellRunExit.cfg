SPECIFICATION RunSpec
CONSTANTS
    Dirs = {"/w", "/a"}
    Start = "/w"
    Commands <- MCCommands
    MaxDepth = 1
    MaxCommands = 3
    MaxStages = 4
    Deviations = {"exit in stage"}
INVARIANTS CwdAsSaid
CHECK_DEADLOCK FALSE
