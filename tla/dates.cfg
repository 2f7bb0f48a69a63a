SPECIFICATION Spec
CONSTANTS
    Key = {k1}
    Domain = {"a", "b"}
    Specs <- TwoSpecs
    MaxRequests = 2
    FaultSites = {}
    MaxFaults = 0
    PageSize = 3
    NForeign = 0
    AcmOutcomes = {"ISSUED"}
    MaxStaleReads = 0
    Replica = {r1}
    Ticking = {}
    Leader = r1
    MaxUserOps = 2
INVARIANT
    DatesOfArn
CHECK_DEADLOCK FALSE
