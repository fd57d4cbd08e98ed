SPECIFICATION StoreSpec
CONSTANTS
    Words <- MCWords
    Types <- MCTypes
    LiteralType = "LITERAL"
    AnyType = "ANY"
    Contexts <- MCContexts
    NoContext = "none"
    SpanContext = "long"
    Classify <- MCClassify
    After <- MCAfter
    Compatible <- MCCompatible
    Mask <- MCMask
    Params <- MCParams
    NoParam = NoParam
    ParamType <- MCParamType
    ParamWords <- MCParamWords
    Affixes = {"x{}"}
    NoCapture = NoCapture
    Capture <- MCCapture
    Rules <- MCRules
    Commands <- MCCommands
    Join <- MCJoin
    MaxVariants = 6
    SizeMax = 127
    Bytes <- MCBytes
    WordText <- MCWordText
    Prefix <- MCPrefix
    Suffix <- MCSuffix
    Symbol <- MCSymbol
    ParamName <- MCParamName
    ParamSpellings <- MCParamSpellings
    MaxTokenLen = 8
    MaxCmdTokens = 2
    MaxNetpatternLen = 64
    StrayBytes <- MCStrayBytes
    Stored <- MCStored
INVARIANTS SubsumesSound VariantsExact LoadExact FramingExact
