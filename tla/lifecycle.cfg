SPECIFICATION Spec
CONSTANTS
    Key = {k1}
    Domain = {"a", "b"}
    Specs <- TwoSpecs
    MaxRequests = 2
    FaultSites = {"update", "updateLost", "delete", "deleteLost", "request",
                  "requestLost", "saveError", "compare", "save1", "save1Lost",
                  "info", "save2", "save2Lost", "dns", "dnsLost", "list",
                  "tags", "crash", "outside"}
    MaxFaults = 1
    PageSize = 2
    NForeign = 0
    AcmOutcomes = {"ISSUED"}
    MaxStaleReads = 1
    Replica = {r1}
    Ticking = {}
    Leader = r1
    MaxUserOps = 2
INVARIANTS
    TypeOK
    FinalizerHeld
    StatusDescribesArn
PROPERTIES
    FinalizerReleases
    ImplementsLossyLifecycle
CHECK_DEADLOCK FALSE
