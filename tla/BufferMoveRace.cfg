SPECIFICATION Spec
CONSTANTS
    Clients = {c1, c2}
    Buffers = {b1, b2}
    Aliased = {b1}
    MaxCalls = 3
    NoOne = NoOne
    Behaviours = {{"CopiesToDevice"}}
INVARIANTS
    OneMoveToHost
CHECK_DEADLOCK FALSE
