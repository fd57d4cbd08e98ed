SPECIFICATION Spec
CONSTANTS
    Items = {"a", "b"}
    MaxOrder = 4
    Samples <- MCSamples
    Scales <- MCScales
    MinCounts = {2}
    MaxCount = 3
    MaxTotal = 4
INVARIANTS DerivedExact RollbackSafe
PROPERTIES ImplementsCounts
