CONSTANTS
    Words <- MCWords
    Types <- MCTypes
    LiteralType = "LITERAL"
    AnyType = "ANY"
    Contexts = {"none", "long", "signal"}
    NoContext = "none"
    SpanContext = "long"
    Classify <- MCClassify
    After <- MCAfter
    Compatible <- MCCompatible
    Mask <- MCMask
    Params <- MCParams
    NoParam = "no param"
    ParamType <- MCParamType
    ParamWords <- MCParamWords
    Affixes = {"--n={}"}
    NoCapture = "no capture"
    Capture <- MCCapture
    Commands <- MCCommands
    Meta <- MCMeta
    MaxCount = 4
    BlacklistRules <- MCBlacklist
    Configs <- MCConfigs
    Join <- MCJoin
    ValueParams <- MCParams
    OptionAffix <- MCOptionAffix
    NoAffix = "no affix"
    ValueType = "VALUE"
    General <- MCGeneral
    MaxVariants = 4
    MaxTokens = 2
    ForeignFiles <- MCForeignFiles
    NoFile = NoFile
SPECIFICATION FileSpec
INVARIANTS TrieExact FeedAtomic LimitsExact SupportExact VariantsObserved SuggestionsUsable
CHECK_DEADLOCK FALSE
