SPECIFICATION Spec
CONSTANTS
    Requests = {r1, r2, r3}
    PromptLens = {1, 3}
    NumBlocks = 4
    BlockSize = 2
    Watermark = 1
    MaxModelLen = 4
    MaxTokens = 8
    MaxRunning = 2
    MaxBatches = 2
    Modes = {"auto"}
    MayAbort = FALSE
    AbortByName = FALSE
PROPERTIES
    RequestsEnd
CHECK_DEADLOCK FALSE
