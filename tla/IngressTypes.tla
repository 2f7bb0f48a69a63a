---------------------------- MODULE IngressTypes ----------------------------
(***************************************************************************)
(* The data of the ingress side and the pure code of the ingress           *)
(* controller: which ingresses get a Certificate, for which hosts, and the *)
(* apply configuration that the controller sends.                          *)
(***************************************************************************)
EXTENDS CertificateTypes

CONSTANTS
    IngressSpecs,       \* what users write into an ingress
    Alphabet,           \* the domains in alphabetical order
    IngressAutoDetect   \* the flag ingress-auto-detect

\* Values of the annotation acm-manager.io/enable; "" is an absent one.
EnableValue == {"", "true", "Yes", "false", "No", "maybe"}

(***************************************************************************)
(* What the controller reads of an ingress: the annotations enable and     *)
(* scheme, the class, and the TLS entries (a secret name, if any, and the  *)
(* hosts; their order is lost in a map).                                   *)
(***************************************************************************)
IngressSpecType ==
    [enable : EnableValue,
     scheme : {"", "internal", "internet-facing"},
     class  : {"", "alb", "nginx"},
     tls    : SUBSET [secret : BOOLEAN, hosts : SUBSET Domain]]

ASSUME IngressSpecsAssumption == IngressSpecs \subseteq IngressSpecType
ASSUME IngressAutoDetectBoolean == IngressAutoDetect \in BOOLEAN
ASSUME AlphabetAssumption == Alphabet \in Seq(Domain)

-----------------------------------------------------------------------------
\* strings.ToLower on the values above.
ToLower(v) == CASE v = "Yes" -> "yes" [] v = "No" -> "no" [] OTHER -> v

\* The annotation decides; without it the class and the scheme may.
isIngressShouldCreateCert(spec) ==
    LET enabled == ToLower(spec.enable)
    IN  \/ enabled \in {"true", "yes"}
        \/ /\ enabled \notin {"false", "no"}
           /\ IngressAutoDetect
           /\ spec.class = "alb"
           /\ spec.scheme = "internet-facing"

\* The hosts of the TLS entries without a secret.
Hosts(spec) == UNION {t.hosts : t \in {u \in spec.tls : ~u.secret}}

\* slices.Sort of the keys of hostMap.
Sorted(hosts) == SelectSeq(Alphabet, LAMBDA d : d \in hosts)

\* The specification of the Certificate for these hosts.
SpecFor(hosts) == [cn |-> Head(Sorted(hosts)), sans |-> Sorted(hosts)]

\* Does the controller manage a Certificate for this ingress?
Managed(spec) == isIngressShouldCreateCert(spec) /\ Hosts(spec) # {}

\* The Certificates that ingresses ask for are among those of the model.
ASSUME ManagedSpecs ==
    \A spec \in IngressSpecs : Managed(spec) => SpecFor(Hosts(spec)) \in Specs

-----------------------------------------------------------------------------
(***************************************************************************)
(* An ingress.  uid counts the ingresses of one name; arn is the value of  *)
(* the annotation alb.ingress.kubernetes.io/certificate-arn.               *)
(***************************************************************************)
NoIngressSpec == [enable |-> "", scheme |-> "", class |-> "", tls |-> {}]

Ingress == [exists   : BOOLEAN,
            uid      : Nat,
            deleting : BOOLEAN,
            spec     : IngressSpecs \cup {NoIngressSpec},
            arn      : Arn \cup {NoArn}]

NoIngress(u) == [exists |-> FALSE, uid |-> u, deleting |-> FALSE,
                 spec |-> NoIngressSpec, arn |-> NoArn]

NewIngress(u, spec) == [exists |-> TRUE, uid |-> u, deleting |-> FALSE,
                        spec |-> spec, arn |-> NoArn]

-----------------------------------------------------------------------------
(***************************************************************************)
(* The apply configuration of a Certificate: name, kind, specification and *)
(* status.  It carries neither a resource version nor a uid, and neither   *)
(* finalizers nor owner references.                                        *)
(***************************************************************************)
CertificateSpecApplyConfiguration(spec) == [cn |-> spec.cn, sans |-> spec.sans]

\* The dates are left out of the configuration when they are not known.
CertificateStatusApplyConfiguration(status) ==
    [arn     |-> status.arn,
     state   |-> status.state,
     records |-> status.records,
     dates   |-> status.dates]

ApplyConfigurationFromCertificate(c) ==
    [spec   |-> CertificateSpecApplyConfiguration(c.spec),
     status |-> CertificateStatusApplyConfiguration(c.status)]
=============================================================================
