SPECIFICATION Spec
CONSTANTS
    db = db
    app = app
    consul = consul
    vault = vault
    c1 = c1
    c2 = c2
    None = None
    Unknown = Unknown
    Consul = consul
    Vault = vault
    Order <- TwoOrder
    Depends <- TwoDepends
    Service <- TwoService
    Needs <- NoNeeds
    Runtime = {}
    Configs = {c1}
    MaxVersion = 1
    Repeatable = {}
    Uninstallable = {}
    Foreign = {}
    External = {consul, vault}
    TornWrites = TRUE
    MaxRuns = 2
    MaxFaults = 1
    MaxScriptFailures = 0
CHECK_DEADLOCK FALSE
PROPERTIES DataSurvives
