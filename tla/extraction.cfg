SPECIFICATION MCSpec
CONSTANTS
    MaxKey = 3
    MaxRuns = 2
    None = None
    Tag = 2
    Foot = 1
    Default = 8
    MaxSize = 8
    IvLength = 1
    DEFAULT_IV_OFFSET = 1
    DEFAULT_DATA_OFFSET = 3
    LastOffset = 6
    MaxTries = 2
    Names = {"a", "b"}
    Infos = {1, 2}
    Texts = {"x", "y"}
CHECK_DEADLOCK FALSE
INVARIANTS
    ToolsTyped
    KeyFileTrue
    OwnAccount
    DecryptsRight
    MergeAddsRight
PROPERTIES
    MessagesKept
    RunEnds
    MergeLosesNothing
