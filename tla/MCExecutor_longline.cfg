SPECIFICATION FairSpec
CONSTANTS
    PipeCap = 1
    TooLong = {2}
    LargeText = FALSE
    MaxLines = 2
    MaxCancels = 0
CHECK_DEADLOCK FALSE
PROPERTIES FinalYieldIsExit
