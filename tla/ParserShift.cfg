SPECIFICATION Spec
CONSTANTS
    Inputs <- ThreeLevels
    MaxEvents = 10
    MaxOpen = 3
    Sizes = {2, 3}
    Modules = {1, 2}
    MaxDownloads = 2
    NL = "nl"
    LastLine = 9
    JavaBase = "base"
    OwnModule = "own"
    LambdaParameter = "parameter"
    Scripts <- ToolScripts
    CommandCounts <- Commands
    PipeSize = 1
    ChannelSize = 1
    TailMax = 2
    ModelMax = 2
CHECK_DEADLOCK FALSE
INVARIANT NodeStartsAtToken
