SPECIFICATION Spec
CONSTANTS
    Names = {"policy", ".scl-1", ".scl-2"}
    Dest = "policy"
    Parts = 2
    Modes = {"0600", "0644"}
    Private = "0600"
    MaxInode = 3
INVARIANTS AckedSurvives ModeKept OwnsItsFile
PROPERTIES ImplementsReplacement
