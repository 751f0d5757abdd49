CONSTANTS
    UintMax <- SixBits
    Alphabet <- Characters
    MaxLen = 6
SPECIFICATION Spec
INVARIANTS
    ParserMeetsGrammar
    RoundTrip
    ExplainsUnsupported
CHECK_DEADLOCK FALSE
