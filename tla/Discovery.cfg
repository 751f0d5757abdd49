CONSTANTS
    Names = {"a", "b", "c", "bad"}
    BadNames = {"bad"}
    MaxRegister = 4
    SdkFaults = {"SREC_TIMEOUT"}
SPECIFICATION MainSpec
INVARIANTS
    NoGhosts
    SnapshotWhileNothingLeaves
    OnlyBadNamesAreFatal
    VanishingCostsALine
CHECK_DEADLOCK FALSE
