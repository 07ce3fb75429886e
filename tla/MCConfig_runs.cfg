SPECIFICATION Spec
CONSTANTS
    Words <- MCWords
    FieldOrder <- MCFieldOrder
    IpField = {"node_ip"}
    Required = {"node_ip"}
    Manifests <- MCManifests
    Writes <- MCWrites
    Types <- MCTypes
    Domains <- MCDomains
    Addresses <- MCAddresses
    MaxRuns = 3
    MaxEdits = 2
CHECK_DEADLOCK FALSE
INVARIANTS TypeOK Consistent
PROPERTIES Kept Repeats
