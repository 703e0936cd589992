SPECIFICATION Spec
CONSTANTS
    Requests = {r1, r2, r3}
    Rows = 3
    Blocks = {b1, b2, b3, b4}
    NullBlock = null
    BlockSize = 2
    MaxBlocks = 2
    Paddings = {1, 4}
    Prompts = {1, 3}
    Junk = junk
SYMMETRY Symmetry
INVARIANTS
    KeysIntact
    SampledFromOwnTokens
CHECK_DEADLOCK FALSE
