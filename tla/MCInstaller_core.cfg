SPECIFICATION Spec
CONSTANTS
    db = db
    app = app
    consul = consul
    vault = vault
    c1 = c1
    c2 = c2
    None = None
    Unknown = Unknown
    Consul = consul
    Vault = vault
    Order <- TwoOrder
    Depends <- TwoDepends
    Service <- TwoService
    Needs <- NoNeeds
    Runtime = {app}
    Configs = {c1, c2}
    MaxVersion = 2
    Repeatable = {db}
    Uninstallable = {app}
    Foreign = {}
    External = {consul, vault}
    TornWrites = FALSE
    MaxRuns = 3
    MaxFaults = 1
    MaxScriptFailures = 1
CHECK_DEADLOCK FALSE
INVARIANTS TypeOK DependenciesFirst DependentsGoneFirst InterruptedIsRetried
    StepsRevokeTokens BackendsMatchRecord
PROPERTIES DataSurvives ImplementsLedger
