CONSTANTS
    MaxEpoch = 0
    MaxPlc = 1
    Faults = {}
    Areas = {"I"}
    MaxSize = 2
    MaxDownloads = 1
    SdkFaults = {}
SPECIFICATION Spec
INVARIANTS
    LiveSizeChecked
