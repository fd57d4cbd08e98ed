SPECIFICATION Spec
CONSTANTS
    Words <- MCWords
    Types <- MCTypes
    LiteralType = "LITERAL"
    AnyType = "ANY"
    Contexts <- MCContexts
    NoContext = "none"
    SpanContext = "long"
    Classify <- MCClassify
    After <- MCAfter
    Compatible <- MCCompatible
    Mask <- MCMask
    Params = {}
    NoParam = NoParam
    ParamType <- MCParamType
    ParamWords <- MCParamWords
    Affixes = {"x{}"}
    NoCapture = NoCapture
    Capture <- MCCapture
    Rules <- StagedRules
    MaxPatterns = 3
    LevelCount = 1
    Readers = {}
    Commands <- MCCommands
    Batches <- StagedBatches
    MaxEpoch = 4
INVARIANTS StorageAgrees ScanSkipExact
PROPERTIES PublishExact ImplementsRuleSet
CHECK_DEADLOCK FALSE
