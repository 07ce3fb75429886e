SPECIFICATION Spec
CONSTANTS
    password = password
    token = token
    key = key
    None = None
    Secret = {password, key, token}
    Generated = {password}
    Optional = {token}
    Immutable = {password}
    MaxValues = 3
    MaxRuns = 3
    MaxFaults = 2
CHECK_DEADLOCK FALSE
INVARIANTS TypeOK FileEmptied PairMatches
PROPERTIES  NothingLost
