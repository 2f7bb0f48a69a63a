----------------------------- MODULE AcmService -----------------------------
(***************************************************************************)
(* AWS Certificate Manager, as the controller uses it through AcmClient:   *)
(* RequestCertificate, DescribeCertificate, DeleteCertificate,             *)
(* ListCertificates and ListTagsForCertificate.  The service itself is     *)
(* external.                                                               *)
(***************************************************************************)
EXTENDS CertificateTypes, Faults

CONSTANTS
    PageSize,       \* certificates on the first page of ListCertificates
    NForeign,       \* certificates in the account that somebody else owns
    AcmOutcomes     \* the statuses certificates may move to in a model

ASSUME PageSizeNat == PageSize \in Nat
ASSUME NForeignNat == NForeign \in 0 .. MaxRequests
ASSUME AcmOutcomesAssumption == AcmOutcomes \subseteq AcmStatus

VARIABLES
    acm,            \* the account's certificates, by ARN
    nreq            \* the number of ARNs handed out

acmVars == <<acm, nreq>>

(***************************************************************************)
(* A certificate carries the tags owner, namespace and name (the latter    *)
(* two together are a key).  ready says that the validation records can be *)
(* read; issued that the certificate has been issued, hence has dates.     *)
(***************************************************************************)
AcmCertificate == [st     : AcmStatus \cup {"unborn", "deleted"},
                   owner  : {"ours", "other"},
                   key    : Key,
                   cn     : Domain \cup {""},
                   names  : SUBSET Domain,
                   ready  : BOOLEAN,
                   issued : BOOLEAN]

NewAcmCertificate(owner, k, cn, names) ==
    [st |-> "PENDING_VALIDATION", owner |-> owner, key |-> k, cn |-> cn,
     names |-> names, ready |-> FALSE, issued |-> FALSE]

Unborn(k) == [NewAcmCertificate("other", k, "", {}) EXCEPT !.st = "unborn"]

AcmTypeOK ==
    /\ acm \in [Arn -> AcmCertificate]
    /\ nreq \in 0 .. MaxRequests

\* Other owners' certificates come first; they may bear any key's tags.
AcmInit ==
    \E k \in Key :
        /\ acm = [a \in Arn |->
                    IF a <= NForeign THEN NewAcmCertificate("other", k, "", {})
                                     ELSE Unborn(k)]
        /\ nreq = NForeign

-----------------------------------------------------------------------------
LiveArns == {a \in Arn : acm[a].st \notin {"unborn", "deleted"}}

\* The certificates whose tags say that we requested them for k.
OursFor(k) == {a \in LiveArns : acm[a].owner = "ours" /\ acm[a].key = k}

\* RequestCertificate as newRequestCertificateInput calls it: no
\* idempotency token, so that every call creates a certificate.
RequestCertificate(k, spec) ==
    /\ nreq < MaxRequests
    /\ nreq' = nreq + 1
    /\ acm' = [acm EXCEPT ![nreq + 1] =
                 NewAcmCertificate("ours", k, spec.cn, AcmNames(spec))]

\* DeleteCertificate; nothing happens for "" or a certificate that is gone
\* (callers take ResourceNotFoundException for success).
DeleteCertificate(a) ==
    /\ acm' = IF a \in LiveArns THEN [acm EXCEPT ![a].st = "deleted"] ELSE acm
    /\ UNCHANGED nreq

\* What ListCertificates may return: callers read the first page only.
FirstPages ==
    {page \in SUBSET LiveArns :
        \/ page = LiveArns /\ Cardinality(page) <= PageSize
        \/ Cardinality(page) = PageSize}

-----------------------------------------------------------------------------
\* ACM fills in the validation records some time after the request.
RecordsReady(a) ==
    /\ a \in LiveArns
    /\ acm[a].owner = "ours"
    /\ ~acm[a].ready
    /\ acm' = [acm EXCEPT ![a].ready = TRUE]
    /\ UNCHANGED nreq

\* ACM issues a certificate once every name is validated by a DNS record.
Issue(a, published) ==
    /\ "ISSUED" \in AcmOutcomes
    /\ a \in LiveArns
    /\ acm[a].st = "PENDING_VALIDATION"
    /\ acm[a].ready
    /\ acm[a].names \subseteq published
    /\ acm' = [acm EXCEPT ![a].st = "ISSUED", ![a].issued = TRUE]
    /\ UNCHANGED nreq

\* ACM gives up on a pending certificate, or retires an issued one.
Lapse(a, s) ==
    /\ s \in AcmOutcomes
    /\ acm[a].owner = "ours"
    /\ \/ acm[a].st = "PENDING_VALIDATION" /\ s \in {"VALIDATION_TIMED_OUT", "FAILED"}
       \/ acm[a].st = "ISSUED" /\ s \in {"EXPIRED", "REVOKED", "INACTIVE"}
    /\ acm' = [acm EXCEPT ![a].st = s]
    /\ UNCHANGED nreq
=============================================================================
