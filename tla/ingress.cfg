SPECIFICATION IngressSpec
CONSTANTS
    Key = {k1}
    Domain = {"a", "b"}
    Specs <- TwoSpecs
    MaxRequests = 1
    FaultSites = {"crash", "outside"}
    MaxFaults = 1
    PageSize = 3
    NForeign = 0
    AcmOutcomes = {"ISSUED"}
    MaxStaleReads = 0
    Replica = {r1, r2}
    Ticking = {r2}
    Leader = r1
    MaxUserOps = 2
    IngressSpecs <- ThreeIngresses
    Alphabet <- Letters
    IngressAutoDetect = TRUE
    UserActions = {"createIngress", "changeIngress", "deleteIngress",
                   "createCertificate", "changeCertificate", "deleteCertificate"}
    MaxIngressOps = 2
INVARIANTS
    IngressTypeOK
    AnnotationIssued
PROPERTIES
    ImplementsCertificateSide
    UsersCertificatesKept
CHECK_DEADLOCK FALSE
