SPECIFICATION Spec
CONSTANTS
    Key = {k1}
    Domain = {"a", "b"}
    Specs <- OneSpec
    MaxRequests = 3
    FaultSites = {"requestLost", "delete", "save1", "list", "tags", "get", "crash"}
    MaxFaults = 2
    PageSize = 2
    NForeign = 1
    AcmOutcomes = {"ISSUED"}
    MaxStaleReads = 0
    Replica = {r1, r2}
    Ticking = {r2}
    Leader = r1
    MaxUserOps = 3
INVARIANTS
    TrackedSpared
    ForeignSpared
PROPERTIES
    ImplementsLifecycle
CHECK_DEADLOCK FALSE
