CONSTANTS
    Client = {c1, c2}
    Ops = {"poll", "call", "state", "close"}
    MaxEpoch = 1
    MaxPlc = 2
    Faults = {}
    Serial = TRUE
    HookErrors = {}
SPECIFICATION FairSpec
PROPERTIES
    NeverBlocks
    Recovers
