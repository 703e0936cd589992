SPECIFICATION Spec
CONSTANTS
    Buffers = {a1, b1, a2, b2}
    Device <- MCDevice
    Values = {x, y}
    Shapes = {s1, s2, s3}
    NumDevices <- MCNumDevices
    InitialShape = s2
    NoMesh = NoMesh
    null = null
    a1 = a1
    b1 = b1
    a2 = a2
    b2 = b2
    s1 = s1
    s2 = s2
    s3 = s3
    SubmitMayFail = TRUE
    CodegenMayRun = TRUE
    LeadMayDie = FALSE
    Regroup = FALSE
    IdentityMayDiffer = FALSE
SYMMETRY Interchangeable
INVARIANTS
    RefsConsistent
    DataIntact
    ReadsMatch
    NoStaleTensor
    NoFault
CHECK_DEADLOCK FALSE
