SPECIFICATION Spec
CONSTANTS
    File = {f, g}
    Absent = Absent
    None = None
    Push = TRUE
    Fresh = FALSE
    TornTrees = TRUE
    MaxEdits = 1
    MaxFaults = 0
    MaxRestarts = 1
CHECK_DEADLOCK FALSE
PROPERTIES RepullIsIdempotent
