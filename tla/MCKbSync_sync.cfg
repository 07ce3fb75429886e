SPECIFICATION FairSpec
CONSTANTS
    File = {f, g}
    Absent = Absent
    None = None
    Push = TRUE
    Fresh = TRUE
    TornTrees = FALSE
    MaxEdits = 2
    MaxFaults = 2
    MaxRestarts = 1
CHECK_DEADLOCK FALSE
INVARIANTS TypeOK UpToDateIsAlike
PROPERTIES BecomeAlike PushesStop
