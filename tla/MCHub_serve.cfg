SPECIFICATION FairSpec
CONSTANTS
    kb = kb
    mail = mail
    None = None
    Name = {kb, mail}
    Value = {v1, v2}
    Secured = {kb}
    Longer <- Related
    MaxWrites = 3
    MaxFaults = 2
    MaxRestarts = 1
CHECK_DEADLOCK FALSE
INVARIANTS TypeOK RegistryMatchesRecord MirrorsCycle
PROPERTIES ServesPublished MirrorsUndisturbed
