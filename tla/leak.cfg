SPECIFICATION IngressFairSpec
CONSTANTS
    Key = {k1}
    Domain = {"a", "b"}
    Specs <- OneSpec
    MaxRequests = 1
    FaultSites = {}
    MaxFaults = 0
    PageSize = 3
    NForeign = 0
    AcmOutcomes = {"ISSUED"}
    MaxStaleReads = 0
    Replica = {r1}
    Ticking = {}
    Leader = r1
    MaxUserOps = 4
    IngressSpecs <- OneIngress
    Alphabet <- Letters
    IngressAutoDetect = TRUE
    UserActions = {"createIngress", "deleteIngress"}
    MaxIngressOps = 2
PROPERTY
    EventuallyReleased
CHECK_DEADLOCK FALSE
