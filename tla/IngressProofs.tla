---------------------------- MODULE IngressProofs ----------------------------
(***************************************************************************)
(* The composition with the Ingress controller, for every value of the     *)
(* constants: the whole manager implements the certificate side, so that   *)
(* the theorems about AcmManager are theorems about the whole manager.     *)
(*                                                                         *)
(* IngressTypeOK is not inductive: that the Ingress controller writes only *)
(* specifications of the model (ManagedSpecs) is known where it reads the  *)
(* ingress, and must be remembered until it writes the Certificate.        *)
(***************************************************************************)
EXTENDS AcmIngress, TrackedProofs

IngressInv ==
    /\ TypeInv
    /\ IngressTypeOK
    /\ ipc \in {"create", "apply"} => cert.spec \in Specs

-----------------------------------------------------------------------------
(***************************************************************************)
(* Types of the operators the actions are built from.                      *)
(***************************************************************************)

\* The absence of an ingress and a new ingress (NoIngress, NewIngress).
LEMMA IngressType ==
  /\ \A u \in Nat : NoIngress(u) \in Ingress
  /\ \A u \in Nat, spec \in IngressSpecs : NewIngress(u, spec) \in Ingress
  BY DEF NoIngress, NewIngress, Ingress, NoArn

\* No annotation and no class: the controller skips an absent ingress.
LEMMA NothingManaged == ~isIngressShouldCreateCert(NoIngressSpec)
  BY DEF NoIngressSpec, isIngressShouldCreateCert, ToLower

\* What the controller asks for is among the Specs of the model.
LEMMA ManagedType ==
  ASSUME NEW i \in Ingress, isIngressShouldCreateCert(i.spec), Hosts(i.spec) # {}
  PROVE  SpecFor(Hosts(i.spec)) \in Specs
  <1>1. i.spec \in IngressSpecs
    BY NothingManaged DEF Ingress
  <1>2. QED
    BY <1>1, ManagedSpecs DEF Managed

\* Returning from Reconcile (every return of the ingress controller).
LEMMA IngressReturnType ==
  ASSUME IngressTypeOK, NEW again, IngressReturn(again)
  PROVE  /\ ipc' = "idle" /\ ikey' \in Key /\ ingress' \in Ingress
         /\ cert' \in Certificate /\ iqueue' \subseteq Key
  BY GoneType, IngressType DEF IngressTypeOK, IngressReturn

\* The budget of faults is kept (Faults).
LEMMA CallType ==
  ASSUME ifaults \in 0 .. MaxFaults, NEW site,
         Call!Fault(site) \/ Call!NoFault
  PROVE  ifaults' \in 0 .. MaxFaults
  BY MaxFaultsNat DEF Call!Fault, Call!NoFault

-----------------------------------------------------------------------------
(***************************************************************************)
(* Every step is a step of the certificate side, or none at all.           *)
(***************************************************************************)

\* What the Ingress controller does to Certificates, users do (IngressStep).
LEMMA IngressesStep ==
  ASSUME IngressInv, Ingresses
  PROVE  User \/ UNCHANGED vars
  <1>1. ikey \in Key
    BY DEF IngressInv, IngressTypeOK
  <1>2. CASE \E k \in Key : IngressStart(k)
    BY <1>2 DEF IngressStart
  <1>3. CASE IngressCreate
    <2>1. cert.spec \in Specs
      BY <1>3 DEF IngressCreate, IngressInv
    <2>2. CreateCertificate(ikey, cert.spec) \/ UNCHANGED vars
      BY <1>3 DEF IngressCreate
    <2>3. QED
      BY <1>1, <2>1, <2>2 DEF User
  <1>4. CASE IngressApply
    <2> DEFINE spec == ApplyConfigurationFromCertificate(cert).spec
    <2>1. spec = CertificateSpecApplyConfiguration(cert.spec) /\ cert.spec \in Specs
      BY <1>4 DEF IngressApply, IngressInv, ApplyConfigurationFromCertificate
    <2>2. spec \in Specs
      BY <2>1, SpecsAssumption DEF CertificateSpecApplyConfiguration
    <2>3. \/ ApplyCertificate(ikey, ApplyConfigurationFromCertificate(cert))
          \/ UNCHANGED vars
      BY <1>4 DEF IngressApply
    <2>4. UNCHANGED vars \/ ChangeSpec(ikey, spec) \/ CreateCertificate(ikey, spec)
      BY <2>3 DEF ApplyCertificate
    <2>5. QED
      BY <1>1, <2>2, <2>4 DEF User
  <1>5. CASE IngressAnnotate
    BY <1>5 DEF IngressAnnotate
  <1>6. QED
    BY <1>2, <1>3, <1>4, <1>5 DEF Ingresses, IngressStep

\* Watches, the garbage collector and the load balancer controller.
LEMMA ClusterStep ==
  ASSUME Cluster
  PROVE  Kube \/ User \/ UNCHANGED vars
  <1>1. PICK k \in Key : \/ DeliverCertificate(k) \/ ResyncCertificate(k)
                         \/ DeliverIngress(k) \/ CollectCertificate(k) \/ ReleaseIngress(k)
    BY DEF Cluster
  <1>2. CASE DeliverCertificate(k) \/ ResyncCertificate(k)
    BY <1>2 DEF DeliverCertificate, ResyncCertificate, Kube, certificateSide
  <1>3. CASE CollectCertificate(k)
    BY <1>3 DEF CollectCertificate, User
  <1>4. CASE DeliverIngress(k) \/ ReleaseIngress(k)
    BY <1>4 DEF DeliverIngress, ReleaseIngress
  <1>5. QED
    BY <1>1, <1>2, <1>3, <1>4

\* Users of ingresses do nothing to the certificate side; users of
\* Certificates are its own.
LEMMA UsersStep ==
  ASSUME Users
  PROVE  User \/ UNCHANGED vars
  BY DEF Users, CreateIngress, ChangeIngress, DeleteIngress, User

LEMMA CertificatesStep ==
  ASSUME Certificates
  PROVE  Next
  BY DEF Certificates, Next, Kube, Environment, certificateSide

LEMMA CertificateSideStep ==
  ASSUME IngressInv, [IngressNext]_allVars
  PROVE  [Next]_vars
  <1>1. CASE UNCHANGED allVars
    BY <1>1 DEF allVars
  <1>2. CASE \E r \in Replica : CrashBoth(r)
    BY <1>2 DEF CrashBoth, Next, Environment
  <1>3. QED
    BY <1>1, <1>2, IngressesStep, ClusterStep, UsersStep, CertificatesStep
    DEF IngressNext, Next

-----------------------------------------------------------------------------
(***************************************************************************)
(* Type correctness of the ingress side.                                   *)
(***************************************************************************)

LEMMA IngressInvInit == IngressInit => IngressInv
  <1> SUFFICES ASSUME IngressInit PROVE IngressInv
    OBVIOUS
  <1>1. TypeInv
    BY TypeInit DEF IngressInit
  <1>2. NoIngress(0) \in Ingress /\ Gone(0) \in Certificate
    BY IngressType, GoneType
  <1>3. QED
    BY <1>1, <1>2, MaxFaultsNat, MaxIngressOpsNat DEF IngressInit, IngressInv, IngressTypeOK

\* A version of a Certificate with the hosts of the ingress (WithHosts).
LEMMA WithHostsType ==
  ASSUME NEW c \in Certificate, NEW hosts, SpecFor(hosts) \in Specs
  PROVE  /\ WithHosts(c, hosts) \in Certificate
         /\ WithHosts(c, hosts).spec \in Specs
  BY DEF WithHosts, Certificate

LEMMA IngressStartInv ==
  ASSUME IngressInv, TypeInv', NEW k \in Key, IngressStart(k)
  PROVE  IngressInv'
  <1> DEFINE i == icache[k]
             c == cache[k]
  <1>1. i \in Ingress /\ c \in Certificate
    BY DEF IngressInv, IngressTypeOK, TypeInv, KubeTypeOK
  <1>2. /\ ikey' = k /\ iqueue' = iqueue \ {k}
        /\ UNCHANGED <<ings, icache, owned, ifaults, ingressOps>>
        /\ ipc = "idle"
    BY DEF IngressStart
  <1>3. CASE UNCHANGED <<ipc, ingress, cert>>
    BY <1>2, <1>3 DEF IngressInv, IngressTypeOK
  <1>4. CASE ~UNCHANGED <<ipc, ingress, cert>>
    <2>1. /\ isIngressShouldCreateCert(i.spec) /\ Hosts(i.spec) # {}
          /\ ipc' \in {"apply", "create"}
          /\ ingress' = i /\ cert' = WithHosts(c, Hosts(i.spec))
      BY <1>4 DEF IngressStart
    <2>2. cert' \in Certificate /\ cert'.spec \in Specs
      BY <1>1, <2>1, ManagedType, WithHostsType
    <2>3. QED
      BY <1>1, <1>2, <2>1, <2>2 DEF IngressInv, IngressTypeOK
  <1>5. QED
    BY <1>3, <1>4

LEMMA IngressCreateInv ==
  ASSUME IngressInv, TypeInv', IngressCreate
  PROVE  IngressInv'
  <1>1. /\ ipc' = "idle" /\ ikey' \in Key /\ ingress' \in Ingress
        /\ cert' \in Certificate /\ iqueue' \subseteq Key
    BY IngressReturnType DEF IngressInv, IngressCreate
  <1>2. ifaults' \in 0 .. MaxFaults
    BY CallType DEF IngressInv, IngressTypeOK, IngressCreate
  <1>3. owned' \subseteq OwnerReference
    <2>1. ikey \in Key /\ ingress.uid \in Nat /\ certs'[ikey].uid \in Nat
      BY DEF IngressInv, IngressTypeOK, Ingress, TypeInv, KubeTypeOK, Certificate
    <2>2. [key |-> ikey, cert |-> certs'[ikey].uid, ingress |-> ingress.uid]
             \in OwnerReference
      BY <2>1 DEF OwnerReference
    <2>3. QED
      BY <2>2 DEF IngressInv, IngressTypeOK, IngressCreate
  <1>4. QED
    BY <1>1, <1>2, <1>3 DEF IngressInv, IngressTypeOK, IngressCreate

LEMMA IngressApplyInv ==
  ASSUME IngressInv, TypeInv', IngressApply
  PROVE  IngressInv'
  <1>1. /\ ipc' = "annotate" /\ UNCHANGED <<ikey, ingress, cert, iqueue>>
        \/ \E again : IngressReturn(again)
    BY DEF IngressApply
  <1>2. /\ ipc' \in {"idle", "annotate"} /\ ikey' \in Key /\ ingress' \in Ingress
        /\ cert' \in Certificate /\ iqueue' \subseteq Key
    BY <1>1, IngressReturnType DEF IngressInv, IngressTypeOK
  <1>3. ifaults' \in 0 .. MaxFaults
    BY CallType DEF IngressInv, IngressTypeOK, IngressApply
  <1>4. QED
    BY <1>2, <1>3 DEF IngressInv, IngressTypeOK, IngressApply

LEMMA IngressAnnotateInv ==
  ASSUME IngressInv, TypeInv', IngressAnnotate
  PROVE  IngressInv'
  <1>1. \E again : IngressReturn(again)
    BY Zenon DEF IngressAnnotate
  <1>2. /\ ipc' = "idle" /\ ikey' \in Key /\ ingress' \in Ingress
        /\ cert' \in Certificate /\ iqueue' \subseteq Key
    BY <1>1, IngressReturnType DEF IngressInv
  <1>3. ifaults' \in 0 .. MaxFaults
    <2>1. Call!NoFault \/ Call!Fault("annotateLost") \/ Call!Fault("annotate")
      BY Zenon DEF IngressAnnotate
    <2>2. QED
      BY <2>1, CallType DEF IngressInv, IngressTypeOK
  <1>4. ings' \in [Key -> Ingress]
    <2>1. ings' = ings \/ ings' = [ings EXCEPT ![ikey].arn = cert.status.arn]
      BY Zenon DEF IngressAnnotate
    <2>2. cert.status.arn \in Arn \cup {NoArn} /\ ikey \in Key
      BY DEF IngressInv, IngressTypeOK, Certificate, StatusType
    <2>3. [ings[ikey] EXCEPT !.arn = cert.status.arn] \in Ingress
      BY <2>2 DEF IngressInv, IngressTypeOK, Ingress
    <2>4. QED
      BY <2>1, <2>2, <2>3 DEF IngressInv, IngressTypeOK
  <1>5. UNCHANGED <<icache, owned, ingressOps>>
    BY Zenon DEF IngressAnnotate
  <1>6. QED
    BY <1>2, <1>3, <1>4, <1>5 DEF IngressInv, IngressTypeOK

-----------------------------------------------------------------------------
\* The variables the Ingress controller works with.
LEMMA BystanderIngress ==
  ASSUME IngressInv, TypeInv', ings' \in [Key -> Ingress], icache' \in [Key -> Ingress],
         iqueue' \subseteq Key, ingressOps' \in 0 .. MaxIngressOps,
         UNCHANGED <<owned, ipc, ikey, ingress, cert, ifaults>>
  PROVE  IngressInv'
  BY DEF IngressInv, IngressTypeOK

LEMMA ClusterInv ==
  ASSUME IngressInv, TypeInv', Cluster
  PROVE  IngressInv'
  <1>1. PICK k \in Key : \/ DeliverCertificate(k) \/ ResyncCertificate(k)
                         \/ DeliverIngress(k) \/ CollectCertificate(k) \/ ReleaseIngress(k)
    BY DEF Cluster
  <1>2. /\ ings \in [Key -> Ingress] /\ icache \in [Key -> Ingress]
        /\ iqueue \subseteq Key /\ ingressOps \in 0 .. MaxIngressOps
    BY DEF IngressInv, IngressTypeOK
  <1>3. CASE DeliverCertificate(k) \/ ResyncCertificate(k)
    BY <1>2, <1>3, BystanderIngress
    DEF DeliverCertificate, ResyncCertificate, ingressSide, Notified
  <1>4. CASE DeliverIngress(k)
    BY <1>2, <1>4, BystanderIngress DEF DeliverIngress
  <1>5. CASE CollectCertificate(k)
    BY <1>2, <1>5, BystanderIngress DEF CollectCertificate, ingressVars
  <1>6. CASE ReleaseIngress(k)
    <2>1. NoIngress(ings[k].uid) \in Ingress
      BY <1>2, IngressType DEF Ingress
    <2>2. QED
      BY <1>2, <1>6, <2>1, BystanderIngress DEF ReleaseIngress
  <1>7. QED
    BY <1>1, <1>3, <1>4, <1>5, <1>6

LEMMA UsersInv ==
  ASSUME IngressInv, TypeInv', Users
  PROVE  IngressInv'
  <1>1. /\ ings \in [Key -> Ingress] /\ icache \in [Key -> Ingress]
        /\ iqueue \subseteq Key /\ ingressOps \in 0 .. MaxIngressOps
    BY DEF IngressInv, IngressTypeOK
  <1>2. ASSUME NEW action, UserDoes(action), ings' \in [Key -> Ingress]
        PROVE  IngressInv'
    <2>1. ingressOps' \in 0 .. MaxIngressOps
      BY <1>1, <1>2, MaxIngressOpsNat DEF UserDoes
    <2>2. QED
      BY <1>1, <1>2, <2>1, BystanderIngress DEF UserDoes
  <1>3. ASSUME NEW k \in Key, NEW spec \in IngressSpecs,
               CreateIngress(k, spec) \/ ChangeIngress(k, spec)
        PROVE  IngressInv'
    <2>1. ings[k] \in Ingress /\ ings[k].uid + 1 \in Nat
      BY <1>1 DEF Ingress
    <2>2. NewIngress(ings[k].uid + 1, spec) \in Ingress
      BY <2>1, IngressType
    <2>3. [ings[k] EXCEPT !.spec = spec] \in Ingress
      BY <2>1 DEF Ingress
    <2>4. QED
      BY <1>1, <1>2, <1>3, <2>2, <2>3 DEF CreateIngress, ChangeIngress
  <1>4. ASSUME NEW k \in Key, DeleteIngress(k) PROVE IngressInv'
    <2>1. [ings[k] EXCEPT !.deleting = TRUE] \in Ingress
      BY <1>1 DEF Ingress
    <2>2. QED
      BY <1>1, <1>2, <1>4, <2>1 DEF DeleteIngress
  <1>5. ASSUME NEW action, UserDoes(action), UNCHANGED ings PROVE IngressInv'
    BY <1>1, <1>2, <1>5
  <1>6. QED
    BY <1>3, <1>4, <1>5 DEF Users

LEMMA CrashBothInv ==
  ASSUME IngressInv, TypeInv', NEW r \in Replica, CrashBoth(r)
  PROVE  IngressInv'
  <1>1. CASE r # Leader
    BY <1>1, Zenon DEF CrashBoth, ingressVars, IngressInv, IngressTypeOK
  <1>2. CASE r = Leader
    BY <1>2, IngressType, GoneType DEF CrashBoth, IngressInv, IngressTypeOK
  <1>3. QED
    BY <1>1, <1>2

LEMMA IngressInvStep == IngressInv /\ [IngressNext]_allVars => IngressInv'
  <1> SUFFICES ASSUME IngressInv, [IngressNext]_allVars PROVE IngressInv'
    OBVIOUS
  <1>1. TypeInv'
    BY CertificateSideStep, TypeStep DEF IngressInv
  <1>2. CASE UNCHANGED ingressVars
    BY <1>1, <1>2 DEF ingressVars, IngressInv, IngressTypeOK
  <1>3. CASE Ingresses
    BY <1>1, <1>3, IngressStartInv, IngressCreateInv, IngressApplyInv, IngressAnnotateInv
    DEF Ingresses, IngressStep
  <1>4. QED
    BY <1>1, <1>2, <1>3, ClusterInv, UsersInv, CrashBothInv
    DEF IngressNext, Certificates, allVars

-----------------------------------------------------------------------------
LEMMA IngressInvariance == IngressSpec => []IngressInv
  BY IngressInvInit, IngressInvStep, PTL DEF IngressSpec

\* Every variable of the ingress side keeps its type in every behaviour of
\* the whole manager: the Ingress controller never asks for a Certificate
\* that its ingress does not stand for.
THEOREM IngressTypeCorrectness == IngressSpec => []IngressTypeOK
  <1>1. IngressInv => IngressTypeOK
    BY DEF IngressInv
  <1>2. QED
    BY <1>1, IngressInvariance, PTL

\* The whole manager implements the certificate side: to the Certificate
\* controller, the Ingress controller and the garbage collector are users.
THEOREM IngressImplements == IngressSpec => ImplementsCertificateSide
  <1>1. IngressInit => Init
    BY DEF IngressInit
  <1>2. IngressInv /\ [IngressNext]_allVars => [Next]_vars
    BY CertificateSideStep
  <1>3. QED
    BY <1>1, <1>2, IngressInvariance, PTL DEF IngressSpec, Spec, ImplementsCertificateSide

\* Hence, with ingresses too, no certificate that a status names is ever
\* condemned by a cleanup, and the finalizer is held while ACM is worked on.
THEOREM IngressKeepsCertificatesSafe ==
  IngressSpec => [](FinalizerHeld /\ TrackedSpared)
  BY IngressImplements, FinalizerHeldAlways, TrackedSparedAlways, PTL
  DEF ImplementsCertificateSide
=============================================================================
