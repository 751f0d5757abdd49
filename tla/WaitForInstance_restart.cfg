CONSTANTS
    Given = {FALSE}
    Explicit = {"none"}
    Limited = {FALSE}
    Timeout = 0
    PollInterval = 1
    CallTime = 0
    MaxEpoch = 1
    MaxPlc = 1
    Faults = {}
    Installations <- MCGoodOnly
    BuildVersions = {"8.0"}
    MaxInstalls = 0
SPECIFICATION FairSpec
PROPERTIES
    AttachesOnceRegistered
CHECK_DEADLOCK FALSE
