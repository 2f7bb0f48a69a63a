SPECIFICATION Spec
CONSTANTS
    Key = {k1}
    Domain = {"a", "b"}
    Specs <- CnOnlySpec
    MaxRequests = 3
    FaultSites = {}
    MaxFaults = 1
    PageSize = 3
    NForeign = 0
    AcmOutcomes = {"ISSUED"}
    MaxStaleReads = 0
    Replica = {r1}
    Ticking = {}
    Leader = r1
    MaxUserOps = 1
PROPERTY
    ReplacedOnlyOnChange
CHECK_DEADLOCK FALSE
