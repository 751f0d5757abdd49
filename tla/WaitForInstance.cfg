CONSTANTS
    Given = {FALSE, TRUE}
    Explicit = {"none", "default"}
    Limited = {FALSE, TRUE}
    Timeout = 5
    PollInterval = 2
    CallTime = 1
    MaxEpoch = 1
    MaxPlc = 2
    Faults = {"retryable", "fatal"}
    Installations <- MCInstallations
    BuildVersions = {"", "8.0"}
    MaxInstalls = 1
SPECIFICATION FairSpec
INVARIANTS
    GivesUpOnTime
PROPERTIES
    MissingInstallationEndsWait
    SearchIsImprovement
    Ends
    EndsOnceRegistered
CHECK_DEADLOCK FALSE
