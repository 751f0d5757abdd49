CONSTANTS
    Client = {c1}
    Ops = {"poll", "call", "close"}
    MaxEpoch = 2
    MaxPlc = 3
    Faults = {"retryable", "fatal"}
    ControlPanel = {TRUE, FALSE}
    Serial = TRUE
    HookErrors = {"retryable", "fatal"}
SPECIFICATION LoopFairSpec
INVARIANTS
    SurvivesInLoop
    WheelNeedsPlc
    WriteOutlivesHook
PROPERTIES
    StepsSucceedAgain
CHECK_DEADLOCK FALSE
