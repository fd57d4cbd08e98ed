SPECIFICATION MCSpec
CONSTANTS
    Longest = 3
    Sources <- MCSources
    Gates <- MCGates
    MaxResults = 2
    Capacities = {0, 1, 2, 4}
    MaxCalls = 2
    Dirs = {"/w", "/a"}
    Start = "/w"
    Commands <- MCCommands
    MaxDepth = 2
    MaxCommands = 3
    MaxStages = 4
    Deviations = {}
INVARIANTS AuthorizesWhole  LearnsOnce RunsAsSaid CwdAsSaid
CHECK_DEADLOCK FALSE
