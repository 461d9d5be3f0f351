SPECIFICATION Spec
CONSTANTS
    NoCall = NoCall
    MaxPayload = 2
    FallbackDuty = 70
    FallbackAfter = 1
    MaxFirmware = 3
    Compatible = TRUE
    RequestCode <- MCRequestCode
    AnswerCode <- MCAnswerCode
    Images <- MCImages
    Noise <- MCNoise
    MaxCalls = 3
    MaxTroubles = 1
INVARIANTS
    TypeOK
    CreditIsEarned
    InstalledWhole
PROPERTIES
    FramesArriveInOrder
    SilentHostIsCovered
CHECK_DEADLOCK FALSE
