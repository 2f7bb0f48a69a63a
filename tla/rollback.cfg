SPECIFICATION FairSpec
CONSTANTS
    Key = {k1}
    Domain = {"a", "b"}
    Specs <- OneSpec
    MaxRequests = 3
    FaultSites = {"info"}
    MaxFaults = 1
    PageSize = 3
    NForeign = 0
    AcmOutcomes = {"ISSUED"}
    MaxStaleReads = 0
    Replica = {r1}
    Ticking = {}
    Leader = r1
    MaxUserOps = 1
PROPERTY
    EventuallySettled
CHECK_DEADLOCK FALSE
