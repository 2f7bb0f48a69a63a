-------------------------- MODULE IngressController --------------------------
(***************************************************************************)
(* The Ingress controller and its composition with the certificate side.   *)
(* It runs in the leading replica beside the Certificate controller, with  *)
(* a worker and a queue of its own, and reads Certificates from the same   *)
(* cache.  To the certificate side it is a user: it creates and changes    *)
(* Certificates, and the garbage collector deletes them for it.            *)
(***************************************************************************)
EXTENDS AcmManager, IngressTypes

CONSTANTS
    UserActions,        \* what users do in a model
    MaxIngressOps       \* bound on what users do in a behaviour

ASSUME MaxIngressOpsNat == MaxIngressOps \in Nat

VARIABLES
    ings,               \* the Ingress objects, by key, as stored
    icache,             \* the informer's copy of ings
    iqueue,             \* the controller's work queue
    owned,              \* the owner references from Certificates to ingresses
    ipc,                \* the remote call about to be made
    ikey,               \* req.NamespacedName
    ingress,            \* ingress, the copy read from the cache
    cert,               \* cert, the copy read from the cache, with a new spec
    ifaults,            \* the number of failed calls of this controller
    ingressOps          \* the number of user operations so far

ingressVars == <<ings, icache, iqueue, owned, ipc, ikey, ingress, cert,
                 ifaults, ingressOps>>

allVars == <<vars, ingressVars>>

\* The calls of this controller have a budget of faults of their own.
Call == INSTANCE Faults WITH faults <- ifaults

\* The Certificate with the given uid is controlled by an ingress.
OwnerReference == [key : Key, cert : Nat, ingress : Nat]

\* Every variable of the ingress side keeps its type.
IngressTypeOK ==
    /\ ings \in [Key -> Ingress]
    /\ icache \in [Key -> Ingress]
    /\ iqueue \subseteq Key
    /\ owned \subseteq OwnerReference
    /\ ipc \in {"idle", "create", "apply", "annotate"}
    /\ ikey \in Key
    /\ ingress \in Ingress
    /\ cert \in Certificate
    /\ ifaults \in 0 .. MaxFaults
    /\ ingressOps \in 0 .. MaxIngressOps

IngressInit ==
    /\ Init
    /\ ings = [k \in Key |-> NoIngress(0)]
    /\ icache = ings
    /\ iqueue = {}
    /\ owned = {}
    /\ ipc = "idle"
    /\ ikey \in Key
    /\ ingress = NoIngress(0)
    /\ cert = Gone(0)
    /\ ifaults = 0
    /\ ingressOps = 0

-----------------------------------------------------------------------------
\* The owner references of version c of the Certificate of k.
Owners(k, c) == {o \in owned : c.exists /\ o.key = k /\ o.cert = c.uid}

\* Mutant: whoever owns the Certificate, it is taken over.
OwnedByIngress_Any(k, c) == c.exists

\* The first owner reference is to an ingress of the Certificate's name;
\* its uid is not compared.
OwnedByIngress(k, c) == Owners(k, c) # {}

\* Mutant: errors and waits are not retried.
IngressReturn_Forgets(again) ==
    /\ ipc' = "idle"
    /\ ingress' = NoIngress(0)
    /\ cert' = Gone(0)
    /\ UNCHANGED <<ikey, iqueue>>

\* Reconcile returns; an error or a RequeueAfter queues the key again.
IngressReturn(again) ==
    /\ ipc' = "idle"
    /\ ingress' = NoIngress(0)
    /\ cert' = Gone(0)
    /\ UNCHANGED ikey
    /\ iqueue' = IF again THEN iqueue \cup {ikey} ELSE iqueue

\* Mutant: the hosts are taken in the order of the map.
WithHosts_Unsorted(c, hosts) ==
    IF c.exists /\ c.spec = SpecFor(hosts)
      THEN [c EXCEPT !.spec = [cn |-> Last(Sorted(hosts)), sans |-> Reverse(Sorted(hosts))]]
      ELSE [c EXCEPT !.spec = SpecFor(hosts)]

\* The Certificate as it is to be, for the hosts of the ingress.
WithHosts(c, hosts) == [c EXCEPT !.spec = SpecFor(hosts)]

\* Both objects are read from the cache and the decision is made.
IngressStart(k) ==
    LET i == icache[k]
        c == cache[k]
        skip == \/ ~i.exists
                \/ i.deleting
                \/ ~isIngressShouldCreateCert(i.spec)
                \/ c.exists /\ ~OwnedByIngress(k, c)
                \/ Hosts(i.spec) = {}
    IN  /\ ipc = "idle"
        /\ k \in iqueue
        /\ iqueue' = iqueue \ {k}
        /\ ikey' = k
        /\ \/ skip /\ UNCHANGED <<ipc, ingress, cert>>
           \/ /\ ~skip
              /\ ipc' = IF c.exists THEN "apply" ELSE "create"
              /\ ingress' = i
              /\ cert' = WithHosts(c, Hosts(i.spec))
        /\ UNCHANGED <<vars, ings, icache, owned, ifaults, ingressOps>>

\* r.Create.  The new Certificate has no status, and the key is queued
\* again, as it is when the answer is lost or an object is there already.
IngressCreate ==
    /\ ipc = "create"
    /\ \/ /\ CreateCertificate(ikey, cert.spec)
          /\ owned' = owned \cup {[key |-> ikey, cert |-> certs'[ikey].uid,
                                   ingress |-> ingress.uid]}
          /\ Call!NoFault
       \/ certs[ikey].exists /\ Call!NoFault /\ UNCHANGED <<vars, owned>>
       \/ Call!Fault("icreate") /\ UNCHANGED <<vars, owned>>
    /\ IngressReturn(TRUE)
    /\ UNCHANGED <<ings, icache, ingressOps>>

\* Mutant: the object is replaced by one made of the configuration alone.
ApplyCertificate_Replaces(k, config) ==
    \/ certs[k].exists /\ certs[k].spec = config.spec /\ UNCHANGED vars
    \/ /\ ~certs[k].exists \/ certs[k].spec # config.spec
       /\ Write(k, Fresh(certs[k].rv + 1, config.spec))
       /\ UserOp

(***************************************************************************)
(* updateCertificate: a forced server-side apply by name.  An object that  *)
(* is gone is created, without an owner.  The main resource ignores the    *)
(* status of the configuration.                                            *)
(***************************************************************************)
ApplyCertificate(k, config) ==
    \/ certs[k].exists /\ certs[k].spec = config.spec /\ UNCHANGED vars
    \/ ChangeSpec(k, config.spec)
    \/ CreateCertificate(k, config.spec)

\* Mutant: the status need not be Issued.
Available_AnyState(c) == c.status.arn # NoArn

\* The copy's status names a certificate that can be used.
Available(c) == c.status.arn # NoArn /\ c.status.state = "Issued"

IngressApply ==
    LET applied == ApplyCertificate(ikey, ApplyConfigurationFromCertificate(cert))
    IN  /\ ipc = "apply"
        /\ \/ /\ applied /\ Call!NoFault
              /\ IF Available(cert) /\ ingress.arn # cert.status.arn
                   THEN ipc' = "annotate" /\ UNCHANGED <<ikey, ingress, cert, iqueue>>
                   ELSE IngressReturn(~Available(cert))
           \/ applied /\ Call!Fault("iapplyLost") /\ IngressReturn(TRUE)
           \/ Call!Fault("iapply") /\ UNCHANGED vars /\ IngressReturn(TRUE)
        /\ UNCHANGED <<ings, icache, owned, ingressOps>>

\* The annotation is applied by name; an apply of nothing but annotations
\* cannot create an ingress.
IngressAnnotate ==
    LET annotated == /\ ings[ikey].exists
                     /\ ings' = [ings EXCEPT ![ikey].arn = cert.status.arn]
    IN  /\ ipc = "annotate"
        /\ \/ annotated /\ Call!NoFault /\ IngressReturn(FALSE)
           \/ annotated /\ Call!Fault("annotateLost") /\ IngressReturn(TRUE)
           \/ /\ ~ings[ikey].exists /\ Call!NoFault
              /\ UNCHANGED ings
              /\ IngressReturn(TRUE)
           \/ Call!Fault("annotate") /\ UNCHANGED ings /\ IngressReturn(TRUE)
        /\ UNCHANGED <<vars, icache, owned, ingressOps>>

IngressStep == IngressCreate \/ IngressApply \/ IngressAnnotate
=============================================================================
