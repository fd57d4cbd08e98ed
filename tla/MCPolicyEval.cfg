SPECIFICATION FairSpec
CONSTANTS
    Words <- MCWords
    Types <- MCTypes
    LiteralType = "LITERAL"
    AnyType = "ANY"
    Contexts <- MCContexts
    NoContext = "none"
    SpanContext = "long"
    Classify <- MCClassify
    After <- MCAfter
    Compatible <- MCCompatible
    Mask <- MCMask
    Params = {}
    NoParam = NoParam
    ParamType <- MCParamType
    ParamWords <- MCParamWords
    Affixes = {"x{}"}
    NoCapture = NoCapture
    Capture <- MCCapture
    Rules <- EvalRules
    MaxPatterns = 2
    LevelCount = 2
    Readers = {r1, r2}
    Commands <- MCCommands
    Batches <- EvalBatches
    MaxEpoch = 3
INVARIANTS EvalExact FilterSound
PROPERTIES EvalTerminates
CHECK_DEADLOCK FALSE
