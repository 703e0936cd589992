SPECIFICATION Spec
CONSTANTS
    Requests = {r1, r2, r3}
    PromptLens = {1, 2, 4}
    NumBlocks = 4
    BlockSize = 2
    Watermark = 1
    MaxModelLen = 5
    MaxTokens = 3
    MaxRunning = 2
    MaxBatches = 2
    Modes = {"auto", "prefill", "decode"}
    MayAbort = TRUE
    AbortByName = FALSE
SYMMETRY Interchangeable
INVARIANTS
    QueuesMatchStatus
    BlocksSuffice
    BatchConsistent
PROPERTIES
    QueueOrderKept
CHECK_DEADLOCK FALSE
