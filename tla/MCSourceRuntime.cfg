SPECIFICATION Spec
CONSTANTS
    Roots <- MCRoots
    Parts <- MCParts
    Documents <- MCDocuments
    Grouped = {}
    Conditionals <- MCConditionals
    WorkspaceSize <- MCWorkspace
    Brackets <- MCBrackets
    Kinds = {1}
    DefaultIndex = DefaultIndex
    OwnIndexes = {I1}
    NoIndex = NoIndex
    Capacity = 2
    Probes = 2
    MaxGeneration = 2
    Buffers = {"B1", "B2"}
    Size <- MCSize
    Scratch = "scratch"
    Heap = "heap"
    NoBuffer = "none"
    ScratchSize = 1
    InlineArrays = 1
    FactSize = 1
    RecordSize = 1
    Takes = {1}
    MaxCalls = 3
INVARIANTS IndexFresh LeaseExact ArenaIntact
