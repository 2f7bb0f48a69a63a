SPECIFICATION FailoverSpec
CONSTANTS
    Key = {k1}
    Domain = {"a", "b"}
    Specs <- OneSpec
    MaxRequests = 3
    FaultSites = {"update", "updateLost", "delete", "deleteLost", "request",
                  "requestLost", "saveError", "compare", "save1",
                  "dns", "dnsLost", "list", "tags", "crash", "failover"}
    MaxFaults = 1
    PageSize = 3
    NForeign = 0
    AcmOutcomes = {"ISSUED"}
    MaxStaleReads = 1
    Replica = {r1}
    Ticking = {}
    Leader = r1
    MaxUserOps = 2
INVARIANTS
    StatusArnLive
    MakeBeforeBreak
PROPERTY
    EventuallySettled
CHECK_DEADLOCK FALSE
