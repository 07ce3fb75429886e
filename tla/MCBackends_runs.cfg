SPECIFICATION Spec
CONSTANTS
    StackOrder <- MCStackOrder
    Token = {root, acl}
    Readers = {root}
    Nets <- MCNets
    Envs <- MCEnvs
    None = None
    root = root
    acl = acl
    MaxRuns = 3
    MaxChanges = 2
    MaxFaults = 1
CHECK_DEADLOCK FALSE
INVARIANTS TypeOK
PROPERTIES Usable StaysAuthenticated

