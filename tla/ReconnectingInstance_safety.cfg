CONSTANTS
    Client = {c1, c2}
    Ops = {"poll", "connect", "call", "state", "close"}
    MaxEpoch = 1
    MaxPlc = 2
    Faults = {"retryable", "fatal"}
    Serial = FALSE
    HookErrors = {"retryable", "fatal"}
SPECIFICATION Spec
SYMMETRY Symmetry
INVARIANTS
    BoundedWork
    HookBeforeIo
    RetryOnFreshInstance
    FatalEndsCall
    InstanceBelongsToSession
PROPERTIES
    ImplementsReconnection
