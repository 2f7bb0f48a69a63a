SPECIFICATION FairSpec
CONSTANTS
    Key = {k1}
    Domain = {"a", "b"}
    Specs <- OneSpec
    MaxRequests = 2
    FaultSites = {"requestLost"}
    MaxFaults = 1
    PageSize = 3
    NForeign = 0
    AcmOutcomes = {"ISSUED", "EXPIRED", "FAILED"}
    MaxStaleReads = 0
    Replica = {r1}
    Ticking = {r1}
    Leader = r1
    MaxUserOps = 3
PROPERTIES
    StatusTracksAcm
    EventuallyPublished
    EventuallyCollected
CHECK_DEADLOCK FALSE
