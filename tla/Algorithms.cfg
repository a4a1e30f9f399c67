CONSTANTS
    MaxNumber = 3000
    Keys <- MCKeys
    Limits <- MCLimits
SPECIFICATION Spec
INVARIANTS
    FloatsSurvive
    CipherIsInverted
    WaitGrowsToTheLimit
CHECK_DEADLOCK FALSE
