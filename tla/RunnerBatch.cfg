SPECIFICATION Spec
CONSTANTS
    Requests = {r1, r2, r3}
    MaxReqs = 3
    ChunkSize = 3
    MaxTokens = 3
    MaxBlocks = 2
    Options = {{}, {"params"}}
    NoOne = NoOne
SYMMETRY Interchangeable
INVARIANTS
    BatchIsScheduled
PROPERTIES
    ImplementsBatch
