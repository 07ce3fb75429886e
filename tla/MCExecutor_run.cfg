SPECIFICATION FairSpec
CONSTANTS
    PipeCap = 1
    TooLong = {3}
    LargeText = TRUE
    MaxLines = 3
    MaxCancels = 2
CHECK_DEADLOCK FALSE
INVARIANTS TypeOK CancelledIsDead
PROPERTIES ImplementsTranscript Finishes Unblocked
