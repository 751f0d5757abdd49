CONSTANTS
    MaxEpoch = 1
    MaxPlc = 2
    Faults = {}
    Areas = {"I", "Q"}
    MaxSize = 2
    MaxDownloads = 1
    SdkFaults = {"SREC_TIMEOUT", "SREC_WRONG_ARGUMENT", "SREC_LIMIT_REACHED", "SREC_INVALID_ERROR_CODE"}
SPECIFICATION Spec
INVARIANTS
    RemovedMeansGone
    OnlyBadOffsetsAreFatal
    OutOfRangeIsLocal
    PythonAgrees
PROPERTIES
    FalseIsFinal
