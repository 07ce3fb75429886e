SPECIFICATION ReapplyOne
CONSTANTS
    db = db
    app = app
    consul = consul
    vault = vault
    c1 = c1
    c2 = c2
    None = None
    Unknown = Unknown
    Consul = consul
    Vault = vault
    Order <- ThreeOrder
    Depends <- ThreeDepends
    Service <- ThreeService
    Needs <- ThreeNeeds
    Runtime = {}
    Configs = {c1}
    MaxVersion = 1
    Repeatable = {app}
    Uninstallable = {db, consul, app}
    Foreign = {}
    External = {vault}
    TornWrites = FALSE
    MaxRuns = 1
    MaxFaults = 2
    MaxScriptFailures = 1
CHECK_DEADLOCK FALSE
INVARIANTS SameRunDiscovery
PROPERTIES ConvergesToOne
