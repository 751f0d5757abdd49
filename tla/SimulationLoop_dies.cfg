CONSTANTS
    Client = {c1}
    Ops = {"poll", "call", "close"}
    MaxEpoch = 0
    MaxPlc = 1
    Faults = {}
    ControlPanel = {TRUE}
    Serial = TRUE
    HookErrors = {"retryable", "fatal"}
SPECIFICATION LoopSpec
INVARIANTS
    ControllerSurvives
CHECK_DEADLOCK FALSE
