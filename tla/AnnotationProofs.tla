-------------------------- MODULE AnnotationProofs --------------------------
(***************************************************************************)
(* What the Ingress controller promises of annotations and of other        *)
(* people's Certificates, for every value of the constants, and what the   *)
(* whole manager inherits from the certificate side.                       *)
(*                                                                         *)
(* The controller decides on a copy of the Certificate that it has read    *)
(* from the cache, and annotates two remote calls later.  What the copy    *)
(* says of its ARN stays true (DescribedInv of the certificate side), and  *)
(* so does what an annotation says after the Certificate is gone.          *)
(***************************************************************************)
EXTENDS IngressProofs, InUseProofs

\* a was requested for k and has been issued.
IssuedFor(k, a) == Tagged(k, a) /\ (a # NoArn => acm[a].issued)

AnnotationInv ==
    /\ \A k \in Key : IssuedFor(k, ings[k].arn)
    /\ ipc # "idle" => Described(cert.status) /\ Tagged(ikey, cert.status.arn)
    /\ ipc = "annotate" => Available(cert)

\* The copy was owned by an ingress when it was read; references stay and
\* are never to the uid of an absent object.
OwnedInv ==
    /\ \A o \in owned : o.cert # 0
    /\ ipc = "apply" => OwnedByIngress(ikey, cert)

ManagerInv == IngressInv /\ StatusInv /\ AnnotationInv /\ OwnedInv

-----------------------------------------------------------------------------
(***************************************************************************)
(* What a step does, seen from the ingress side.                           *)
(***************************************************************************)

\* The annotation is new, gone with its ingress, or written from the copy.
ArnsStep ==
    \A k \in Key :
        \/ ings'[k].arn \in {ings[k].arn, NoArn}
        \/ /\ ipc = "annotate" /\ k = ikey
           /\ ings'[k].arn = cert.status.arn

\* The copy is dropped, kept from call to call, or read from the cache.
CertStep ==
    \/ ipc' = "idle"
    \/ /\ ipc # "idle" /\ UNCHANGED <<ikey, cert>>
       /\ ipc' = ipc \/ (ipc' = "annotate" /\ Available(cert))
    \/ /\ ikey' \in Key /\ UNCHANGED owned
       /\ cert'.status = cache[ikey'].status
       /\ ipc' = "create" \/ (ipc' = "apply" /\ OwnedByIngress(ikey', cert'))

\* A reference to the object that was just created is added.
OwnedStep ==
    /\ owned \subseteq owned'
    /\ \A o \in owned' \ owned : o.cert # 0

SideStep == ArnsStep /\ CertStep /\ OwnedStep

\* Owners(k, c) looks at two fields of c.
LEMMA SameOwners ==
  ASSUME NEW k, NEW c, NEW d, c.exists = d.exists, c.uid = d.uid
  PROVE  OwnedByIngress(k, c) = OwnedByIngress(k, d)
  <1>1. Owners(k, c) = Owners(k, d)
    BY DEF Owners
  <1>2. QED
    BY <1>1 DEF OwnedByIngress

LEMMA SideQuiet ==
  ASSUME UNCHANGED <<ipc, ikey, cert, owned>>, \A k \in Key : ings'[k].arn \in {ings[k].arn, NoArn}
  PROVE  SideStep
  BY DEF SideStep, ArnsStep, CertStep, OwnedStep

LEMMA SideStart ==
  ASSUME IngressInv, NEW k \in Key, IngressStart(k)
  PROVE  SideStep
  <1> DEFINE i == icache[k]
             c == cache[k]
             d == WithHosts(c, Hosts(i.spec))
  <1>1. UNCHANGED <<ings, owned>> /\ ikey' = k /\ ipc = "idle"
    BY DEF IngressStart
  <1>2. CASE UNCHANGED <<ipc, ingress, cert>>
    BY <1>1, <1>2 DEF SideStep, ArnsStep, CertStep, OwnedStep
  <1>3. CASE ~UNCHANGED <<ipc, ingress, cert>>
    <2>1. /\ cert' = d
          /\ ipc' = IF c.exists THEN "apply" ELSE "create"
          /\ c.exists => OwnedByIngress(k, c)
      BY <1>3 DEF IngressStart
    <2>2. c \in Certificate
      BY DEF IngressInv, TypeInv, KubeTypeOK
    <2>3. d.status = c.status /\ d.exists = c.exists /\ d.uid = c.uid
      BY <2>2 DEF WithHosts, Certificate
    <2>4. OwnedByIngress(k, d) = OwnedByIngress(k, c)
      BY <2>3, SameOwners
    <2>5. CertStep
      BY <1>1, <2>1, <2>3, <2>4 DEF CertStep
    <2>6. QED
      BY <1>1, <2>5 DEF SideStep, ArnsStep, OwnedStep
  <1>4. QED
    BY <1>2, <1>3

\* r.Create: the uid of the new object is its first resource version.
LEMMA SideCreate ==
  ASSUME IngressInv, IngressCreate
  PROVE  SideStep
  <1>1. UNCHANGED ings /\ ipc' = "idle"
    BY DEF IngressCreate, IngressReturn
  <1>2. ikey \in Key /\ KubeTypeOK /\ certs[ikey] \in Certificate
    BY DEF IngressInv, IngressTypeOK, TypeInv, KubeTypeOK
  <1>3. certs[ikey].rv \in Nat
    BY <1>2 DEF Certificate
  <1>4. ASSUME CreateCertificate(ikey, cert.spec) PROVE certs'[ikey].uid # 0
    <2> DEFINE v == certs[ikey].rv + 1
    <2>1. certs'[ikey] = Stored(ikey, Fresh(v, cert.spec))
      BY <1>2, <1>4 DEF CreateCertificate, Write, KubeTypeOK
    <2>2. certs'[ikey].uid = v
      BY <2>1 DEF Stored, Fresh
    <2>3. QED
      BY <1>3, <2>2
  <1>5. \/ owned' = owned
        \/ /\ CreateCertificate(ikey, cert.spec)
           /\ owned' = owned \cup {[key |-> ikey, cert |-> certs'[ikey].uid,
                                    ingress |-> ingress.uid]}
    BY DEF IngressCreate
  <1>6. QED
    BY <1>1, <1>4, <1>5 DEF SideStep, ArnsStep, CertStep, OwnedStep

LEMMA SideIngresses ==
  ASSUME IngressInv, Ingresses
  PROVE  SideStep
  <1>1. CASE IngressApply
    BY <1>1 DEF IngressApply, IngressReturn, SideStep, ArnsStep, CertStep, OwnedStep
  <1>2. CASE IngressAnnotate
    <2>1. ipc = "annotate" /\ ipc' = "idle" /\ UNCHANGED owned
      BY <1>2, Zenon DEF IngressAnnotate, IngressReturn
    <2>2. ings' = ings \/ ings' = [ings EXCEPT ![ikey].arn = cert.status.arn]
      BY <1>2, Zenon DEF IngressAnnotate
    <2>3. ArnsStep
      BY <2>1, <2>2 DEF ArnsStep, IngressInv, IngressTypeOK, Ingress
    <2>4. QED
      BY <2>1, <2>3 DEF SideStep, CertStep, OwnedStep
  <1>3. QED
    BY <1>1, <1>2, SideStart, SideCreate DEF Ingresses, IngressStep

\* Users and the cluster write no annotation.
LEMMA SideOthers ==
  ASSUME IngressInv, Users \/ Cluster
  PROVE  SideStep
  <1>1. ings \in [Key -> Ingress]
    BY DEF IngressInv, IngressTypeOK
  <1>2. UNCHANGED <<ipc, ikey, cert, owned>>
    BY DEF Users, CreateIngress, ChangeIngress, DeleteIngress, UserDoes,
       Cluster, DeliverCertificate, ResyncCertificate, DeliverIngress,
       CollectCertificate, ReleaseIngress, ingressSide, ingressVars
  <1>3. ASSUME NEW k \in Key, NEW i, ings' = [ings EXCEPT ![k] = i],
               i.arn \in {ings[k].arn, NoArn}
        PROVE  SideStep
    BY <1>1, <1>2, <1>3, SideQuiet
  <1>4. ASSUME NEW k \in Key, NEW spec, CreateIngress(k, spec) PROVE SideStep
    <2>1. NewIngress(ings[k].uid + 1, spec).arn = NoArn
      BY DEF NewIngress
    <2>2. QED
      BY <1>3, <1>4, <2>1 DEF CreateIngress
  <1>5. ASSUME NEW k \in Key, NEW spec, ChangeIngress(k, spec) PROVE SideStep
    <2>1. [ings[k] EXCEPT !.spec = spec].arn = ings[k].arn
      BY <1>1 DEF Ingress
    <2>2. QED
      BY <1>3, <1>5, <2>1 DEF ChangeIngress
  <1>6. ASSUME NEW k \in Key, DeleteIngress(k) PROVE SideStep
    <2>1. [ings[k] EXCEPT !.deleting = TRUE].arn = ings[k].arn
      BY <1>1 DEF Ingress
    <2>2. QED
      BY <1>3, <1>6, <2>1 DEF DeleteIngress
  <1>7. ASSUME NEW k \in Key, ReleaseIngress(k) PROVE SideStep
    <2>1. NoIngress(ings[k].uid).arn = NoArn
      BY DEF NoIngress
    <2>2. QED
      BY <1>3, <1>7, <2>1 DEF ReleaseIngress
  <1>8. CASE UNCHANGED ings
    BY <1>2, <1>8, SideQuiet
  <1>9. QED
    BY <1>4, <1>5, <1>6, <1>7, <1>8
    DEF Users, Cluster, DeliverCertificate, ResyncCertificate, DeliverIngress,
        CollectCertificate, ingressSide, ingressVars

LEMMA SideNext ==
  ASSUME IngressInv, [IngressNext]_allVars
  PROVE  SideStep
  <1>1. CASE UNCHANGED ingressVars
    BY <1>1, SideQuiet DEF ingressVars
  <1>2. ASSUME NEW r \in Replica, CrashBoth(r) PROVE SideStep
    <2>1. CASE r = Leader
      BY <1>2, <2>1 DEF CrashBoth, SideStep, ArnsStep, CertStep, OwnedStep
    <2>2. CASE r # Leader
      BY <1>1, <1>2, <2>2, Zenon DEF CrashBoth
    <2>3. QED
      BY <2>1, <2>2
  <1>3. QED
    BY <1>1, <1>2, SideIngresses, SideOthers DEF IngressNext, Certificates, allVars

-----------------------------------------------------------------------------
(***************************************************************************)
(* ManagerInv is an invariant.                                             *)
(***************************************************************************)

\* What is known of an ARN that was handed out stays true.
LEMMA KnownStays ==
  ASSUME StatusInv, [Next]_vars
  PROVE  AcmFacts /\ ArnStep /\ nreq \in Nat
  <1>1. TrackedInv /\ IssuedInv /\ FinalizerInv /\ BornInv /\ nreq \in Nat
    BY Types DEF StatusInv, TrackedInv
  <1>2. CASE Next
    BY <1>1, <1>2, FactsNext, ArnNext
  <1>3. CASE UNCHANGED vars
    <2>1. UNCHANGED acmVars
      BY <1>3 DEF vars, acmVars
    <2>2. AcmFacts
      BY <1>1, <2>1 DEF acmVars, AcmFacts, IssuedInv
    <2>3. QED
      BY <1>1, <2>1, <2>2, ArnQuiet
  <1>4. QED
    BY <1>2, <1>3

LEMMA IssuedForStays ==
  ASSUME AcmFacts, ArnStep, nreq \in Nat, NEW k, NEW a, IssuedFor(k, a)
  PROVE  IssuedFor(k, a)'
  <1>1. Tagged(k, a)'
    BY TaggedKept DEF IssuedFor
  <1>2. a # NoArn => acm'[a].issued
    BY DEF IssuedFor, Tagged, AcmFacts
  <1>3. QED
    BY <1>1, <1>2 DEF IssuedFor

LEMMA AnnotationStep ==
  ASSUME ManagerInv, [IngressNext]_allVars
  PROVE  AnnotationInv'
  <1>1. ArnsStep /\ CertStep
    BY SideNext DEF ManagerInv, SideStep
  <1>2. AcmFacts /\ ArnStep /\ nreq \in Nat
    BY CertificateSideStep, KnownStays DEF ManagerInv
  <1>3. ASSUME NEW k \in Key PROVE IssuedFor(k, ings[k].arn)'
    <2>1. PICK a : a = ings'[k].arn
      OBVIOUS
    <2>2. CASE a = NoArn
      BY <2>1, <2>2 DEF IssuedFor, Tagged
    <2>3. CASE a = ings[k].arn
      <3>1. IssuedFor(k, a)
        BY <2>3 DEF ManagerInv, AnnotationInv
      <3>2. IssuedFor(k, a)'
        BY <1>2, <3>1, IssuedForStays
      <3>3. QED
        BY <2>1, <3>2 DEF IssuedFor, Tagged
    <2>4. CASE ipc = "annotate" /\ k = ikey /\ a = cert.status.arn
      <3>1. IssuedFor(k, a)
        BY <2>4 DEF ManagerInv, AnnotationInv, Available, Described, IssuedFor
      <3>2. IssuedFor(k, a)'
        BY <1>2, <3>1, IssuedForStays
      <3>3. QED
        BY <2>1, <3>2 DEF IssuedFor, Tagged
    <2>5. QED
      BY <1>1, <2>1, <2>2, <2>3, <2>4 DEF ArnsStep
  <1>4. ASSUME ipc' # "idle"
        PROVE  Described(cert.status)' /\ Tagged(ikey, cert.status.arn)'
    <2>1. PICK k, status : k = ikey' /\ status = cert'.status
      OBVIOUS
    <2>2. Described(status) /\ Tagged(k, status.arn)
      <3>1. CASE ipc # "idle" /\ UNCHANGED <<ikey, cert>>
        BY <2>1, <3>1 DEF ManagerInv, AnnotationInv
      <3>2. CASE ikey' \in Key /\ cert'.status = cache[ikey'].status
        BY <2>1, <3>2 DEF ManagerInv, StatusInv, DescribedInv, TrackedInv, TagInv,
           VersionTagged, Versions
      <3>3. QED
        BY <1>1, <1>4, <3>1, <3>2 DEF CertStep
    <2>3. Described(status)' /\ Tagged(k, status.arn)'
      BY <1>2, <2>2, DescribedKept, TaggedKept
    <2>4. QED
      BY <2>1, <2>3 DEF Described, Tagged
  <1>5. ipc' = "annotate" => Available(cert')
    BY <1>1 DEF CertStep, ManagerInv, AnnotationInv
  <1>6. QED
    BY <1>3, <1>4, <1>5 DEF AnnotationInv, Available

LEMMA OwnedNext ==
  ASSUME ManagerInv, [IngressNext]_allVars
  PROVE  OwnedInv'
  <1>1. CertStep /\ OwnedStep
    BY SideNext DEF ManagerInv, SideStep
  <1>2. \A o \in owned' : o.cert # 0
    BY <1>1 DEF OwnedStep, ManagerInv, OwnedInv
  <1>3. ASSUME NEW k, NEW c, OwnedByIngress(k, c) PROVE OwnedByIngress(k, c)'
    BY <1>1, <1>3 DEF OwnedByIngress, Owners, OwnedStep
  <1>4. ASSUME ipc' = "apply" PROVE OwnedByIngress(ikey, cert)'
    <2>1. PICK k, c : k = ikey' /\ c = cert'
      OBVIOUS
    <2>2. OwnedByIngress(k, c)
      BY <1>1, <1>4, <2>1 DEF CertStep, ManagerInv, OwnedInv
    <2>3. OwnedByIngress(k, c)'
      BY <1>3, <2>2
    <2>4. QED
      BY <2>1, <2>3 DEF OwnedByIngress, Owners
  <1>5. QED
    BY <1>2, <1>4 DEF OwnedInv

LEMMA ManagerInvInit == IngressInit => ManagerInv
  <1> SUFFICES ASSUME IngressInit PROVE ManagerInv
    OBVIOUS
  <1>1. IngressInv /\ StatusInv
    BY IngressInvInit, StatusInvInit DEF IngressInit
  <1>2. ipc = "idle" /\ owned = {} /\ \A k \in Key : ings[k].arn = NoArn
    BY DEF IngressInit, NoIngress
  <1>3. QED
    BY <1>1, <1>2 DEF ManagerInv, AnnotationInv, OwnedInv, IssuedFor, Tagged

LEMMA ManagerInvStep == ManagerInv /\ [IngressNext]_allVars => ManagerInv'
  <1> SUFFICES ASSUME ManagerInv, [IngressNext]_allVars PROVE ManagerInv'
    OBVIOUS
  <1>1. IngressInv'
    BY IngressInvStep DEF ManagerInv
  <1>2. StatusInv'
    BY CertificateSideStep, StatusInvStep DEF ManagerInv
  <1>3. QED
    BY <1>1, <1>2, AnnotationStep, OwnedNext DEF ManagerInv

LEMMA ManagerInvAlways == IngressSpec => []ManagerInv
  BY ManagerInvInit, ManagerInvStep, PTL DEF IngressSpec

-----------------------------------------------------------------------------
\* In every behaviour of the whole manager, with every fault: an ingress is
\* annotated only with an ACM certificate that was requested for the
\* Certificate of its name and that ACM has issued, however old the copies
\* are that the controller read (Reconcile of the Ingress controller, lines
\* 148-155).
THEOREM AnnotationIssuedAlways == IngressSpec => []AnnotationIssued
  <1>1. ManagerInv => AnnotationIssued
    BY DEF ManagerInv, AnnotationInv, IssuedFor, Tagged, AnnotationIssued
  <1>2. QED
    BY <1>1, ManagerInvAlways, PTL

\* The forced apply reaches only an object that the controller has owned.
LEMMA ApplyKeeps ==
  ASSUME ManagerInv, IngressApply, NEW k \in Key, certs[k].exists, Owners(k, certs[k]) = {},
         cert.uid \in {0, certs[k].uid}
  PROVE  certs'[k] = certs[k]
  <1>1. OwnedByIngress(ikey, cert) /\ ikey \in Key /\ KubeTypeOK
    BY DEF ManagerInv, OwnedInv, IngressApply, IngressInv, IngressTypeOK, TypeInv
  <1>2. PICK o \in owned : cert.exists /\ o.key = ikey /\ o.cert = cert.uid
    BY <1>1 DEF OwnedByIngress, Owners
  <1>3. cert.uid # 0
    BY <1>2 DEF ManagerInv, OwnedInv
  <1>4. k # ikey
    BY <1>2, <1>3 DEF Owners
  <1>5. certs' = certs \/ \E c : certs' = [certs EXCEPT ![ikey] = c]
    BY DEF IngressApply, ApplyCertificate, ChangeSpec, CreateCertificate, Write, vars, kubeVars
  <1>6. QED
    BY <1>1, <1>4, <1>5 DEF KubeTypeOK

LEMMA IngressesKeep ==
  ASSUME ManagerInv, Ingresses, NEW k \in Key, certs[k].exists, Owners(k, certs[k]) = {},
         cert.uid \in {0, certs[k].uid}
  PROVE  certs'[k] = certs[k]
  <1>1. CASE UNCHANGED vars
    BY <1>1 DEF vars, kubeVars
  <1>2. CASE CreateCertificate(ikey, cert.spec)
    <2>1. k # ikey /\ certs \in [Key -> Certificate]
      BY <1>2 DEF CreateCertificate, ManagerInv, IngressInv, TypeInv, KubeTypeOK
    <2>2. QED
      BY <1>2, <2>1 DEF CreateCertificate, Write
  <1>3. CASE IngressApply
    BY <1>3, ApplyKeeps
  <1>4. QED
    BY <1>1, <1>2, <1>3 DEF Ingresses, IngressStep, IngressStart, IngressCreate,
       IngressAnnotate

\* A Certificate that no ingress owns is not touched by the Ingress
\* controller when what it read was this object or none: neither r.Create
\* nor the forced apply by name reaches it (lines 101-106).
THEOREM UsersCertificatesKeptAlways == IngressSpec => UsersCertificatesKept
  <1> DEFINE Kept ==
        \A k \in Key :
            /\ certs[k].exists /\ Owners(k, certs[k]) = {}
            /\ Ingresses /\ cert.uid \in {0, certs[k].uid}
            => certs'[k] = certs[k]
  <1>1. ManagerInv /\ [IngressNext]_allVars => [Kept]_allVars
    BY IngressesKeep
  <1>2. QED
    BY <1>1, ManagerInvAlways, PTL DEF IngressSpec, UsersCertificatesKept

-----------------------------------------------------------------------------
\* The whole manager inherits what holds of the certificate side: whatever
\* the Ingress controller creates and applies, the records of a status, and its
\* dates once it says Issued, are those of the ACM certificate that it names
\* (requestACMCertificate, updateCertificateInfo).
THEOREM IngressKeepsStatuses == IngressSpec => []StatusDescribesArn
  BY IngressImplements, StatusDescribesArnAlways, PTL DEF ImplementsCertificateSide

\* With ingresses too, nothing superseded goes before its successor is
\* issued and saved, and the ARN in the status of a Certificate that is not
\* being deleted is one that ACM has, the faults of InUseLost excepted
\* (Reconcile, lines 178-235).
THEOREM IngressKeepsInUse ==
  ASSUME FaultSites \cap InUseLost = {}
  PROVE  IngressSpec => [](MakeBeforeBreak /\ StatusArnLive)
  <1>1. "outside" \notin FaultSites
    BY DEF InUseLost
  <1>2. Spec => []MakeBeforeBreak
    BY <1>1, MakeBeforeBreakAlways
  <1>3. Spec => []StatusArnLive
    BY StatusArnLiveAlways
  <1>4. QED
    BY <1>2, <1>3, IngressImplements, PTL DEF ImplementsCertificateSide
=============================================================================
