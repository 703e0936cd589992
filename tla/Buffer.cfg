SPECIFICATION Spec
CONSTANTS
    Clients = {c1, c2}
    Buffers = {b1, b2}
    Aliased = {b1}
    MaxCalls = 2
    NoOne = NoOne
    Behaviours = {{}, {"ConcurrentDelete", "CallbacksMayDestroy", "CopiesToDevice", "ReadyEventAgain"}}
INVARIANTS
    NoCrash
    CopiesExclude
PROPERTIES
    CallsReturn
CHECK_DEADLOCK FALSE
