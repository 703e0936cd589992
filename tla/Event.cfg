SPECIFICATION Spec
CONSTANTS
    kUnknown = kUnknown
    Clients = {c1, c2}
    Markers = {m1, m2}
    Callbacks = {k1, k2}
    DestroyingCallbacks = {k2}
    Statuses = {kSuccess, kInternal}
    OrderlyDestroy = TRUE
INVARIANTS
    CallbackSeesFinalStatus
    NoStrandedCallback
    NeverTerminates
PROPERTIES
    ImplementsPromise
    CallbackEventuallyRuns
    AwaitEventuallyReturns
CHECK_DEADLOCK FALSE
