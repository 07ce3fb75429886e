SPECIFICATION Spec
CONSTANTS
    tls = tls
    letsencrypt = letsencrypt
    crt = crt
    key = key
    Path = {tls, letsencrypt}
    Mount = {letsencrypt}
    Tls = tls
    File = {crt, key}
    Keys = {key}
    MaxRuns = 4
    MaxIssues = 2
    MaxFaults = 1
CHECK_DEADLOCK FALSE
INVARIANTS TypeOK RestoredIsBackup CanRollBack
PROPERTIES NothingLost
