-------------------------- MODULE CertificateTypes --------------------------
(***************************************************************************)
(* The data of the Certificate custom resource and the pure functions of   *)
(* the certificate controller on it: the specification of a Certificate,   *)
(* its status, the status conversion and the comparison with ACM.          *)
(***************************************************************************)
EXTENDS Naturals, Sequences, FiniteSets, SequencesExt

CONSTANTS
    Key,            \* namespace/name pairs of Certificate resources
    Domain,         \* DNS names
    Specs,          \* the CertificateSpec values users write
    MaxRequests     \* bound: ARNs ACM hands out (the account's quota)

\* spec.commonName is required, spec.subjectAlternativeNames is any list.
ASSUME SpecsAssumption == Specs \subseteq [cn : Domain, sans : Seq(Domain)]

ASSUME MaxRequestsNat == MaxRequests \in Nat

ASSUME KeyNonEmpty == Key # {}

\* ARNs are numbered in the order in which ACM hands them out; 0 is "".
Arn == 1 .. MaxRequests
NoArn == 0

-----------------------------------------------------------------------------
\* The ACM side of a certificate: the SDK's status values.
AcmStatus == {"PENDING_VALIDATION", "ISSUED", "INACTIVE", "EXPIRED",
              "VALIDATION_TIMED_OUT", "REVOKED", "FAILED", "OTHER"}

\* The Kubernetes side: CertificateStatusType.
CertStatus == {"", "PendingValidation", "Issued", "Inactive", "Expired",
               "ValidationTimedOut", "Revoked", "Failed", "Unknown",
               "Error", "Requested"}

\* Mutant: the status is taken over unconverted.
convertFrom_Raw(status) == status

convertFrom(status) ==
    CASE status = "PENDING_VALIDATION"   -> "PendingValidation"
      [] status = "ISSUED"               -> "Issued"
      [] status = "INACTIVE"             -> "Inactive"
      [] status = "EXPIRED"              -> "Expired"
      [] status = "VALIDATION_TIMED_OUT" -> "ValidationTimedOut"
      [] status = "REVOKED"              -> "Revoked"
      [] status = "FAILED"               -> "Failed"
      [] OTHER                           -> "Unknown"

-----------------------------------------------------------------------------
NoSpec == [cn |-> "", sans |-> <<>>]

(***************************************************************************)
(* CertificateStatus.  A validation record is named by the domain it       *)
(* validates; the validity dates (notBefore, notAfter) are named by the    *)
(* ARN of the ACM certificate they were read from, NoArn when absent.      *)
(***************************************************************************)
StatusType == [arn     : Arn \cup {NoArn},
               state   : CertStatus,
               records : SUBSET Domain,
               dates   : Arn \cup {NoArn}]

EmptyStatus == [arn |-> NoArn, state |-> "", records |-> {}, dates |-> NoArn]

(***************************************************************************)
(* A version of a Certificate object.  Resource versions of one key grow   *)
(* across deletion and re-creation, as etcd revisions do; uid is the       *)
(* resource version at which the object was created.                       *)
(***************************************************************************)
Certificate ==
    {o \in [exists    : BOOLEAN,
            rv        : Nat,
            uid       : Nat,
            deleting  : BOOLEAN,        \* deletionTimestamp is set
            finalizer : BOOLEAN,        \* carries our finalizer
            spec      : Specs \cup {NoSpec},
            status    : StatusType] :
        o.exists => o.spec \in Specs}

\* The absence of an object, as of resource version v.
Gone(v) == [exists |-> FALSE, rv |-> v, uid |-> 0, deleting |-> FALSE,
            finalizer |-> FALSE, spec |-> NoSpec, status |-> EmptyStatus]

\* An object as a user creates it at resource version v.
Fresh(v, spec) == [exists |-> TRUE, rv |-> v, uid |-> v, deleting |-> FALSE,
                   finalizer |-> FALSE, spec |-> spec, status |-> EmptyStatus]

-----------------------------------------------------------------------------
\* The names on the ACM certificate requested for spec: ACM lists the
\* common name among the subject alternative names.
AcmNames(spec) == {spec.cn} \cup ToSet(spec.sans)

\* Does the ACM certificate with common name cn and names sans match spec?
compareACMCertificate(cn, sans, spec) ==
    /\ cn = spec.cn
    /\ Cardinality(sans) = Len(spec.sans)
    /\ ToSet(spec.sans) \subseteq sans
=============================================================================
