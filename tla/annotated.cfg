SPECIFICATION IngressFairSpec
CONSTANTS
    Key = {k1}
    Domain = {"a", "b"}
    Specs <- TwoSpecs
    MaxRequests = 2
    FaultSites = {"icreate", "iapply", "iapplyLost", "annotate", "annotateLost"}
    MaxFaults = 1
    PageSize = 3
    NForeign = 0
    AcmOutcomes = {"ISSUED"}
    MaxStaleReads = 0
    Replica = {r1}
    Ticking = {}
    Leader = r1
    MaxUserOps = 4
    IngressSpecs <- TwoIngresses
    Alphabet <- Letters
    IngressAutoDetect = TRUE
    UserActions = {"createIngress", "changeIngress"}
    MaxIngressOps = 2
INVARIANTS
    MakeBeforeBreak
    StatusArnLive
PROPERTY
    EventuallyAnnotated
CHECK_DEADLOCK FALSE
