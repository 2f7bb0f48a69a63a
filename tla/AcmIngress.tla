----------------------------- MODULE AcmIngress -----------------------------
(***************************************************************************)
(* The whole manager: the Ingress controller composed with the certificate *)
(* side, users of ingresses and Certificates, and the garbage collector.   *)
(***************************************************************************)
EXTENDS IngressController

\* Mutant: the controller does not watch the Certificates it owns.
Notified_Nobody(k, c) == {}

\* An event about version c of a Certificate queues the ingress that owns it.
Notified(k, c) == IF OwnedByIngress(k, c) THEN {k} ELSE {}

\* The rest of the certificate side is left alone.
certificateSide == <<acmVars, workerVars, job, faults, userOps>>

\* The rest of the ingress side is left alone.
ingressSide == <<ings, icache, owned, ipc, ikey, ingress, cert, ifaults, ingressOps>>

\* A version of a Certificate reaches the cache; both controllers watch it.
DeliverCertificate(k) ==
    /\ WatchDeliver(k)
    /\ iqueue' = iqueue \cup Notified(k, cache[k]) \cup Notified(k, Head(events[k]))
    /\ UNCHANGED <<certificateSide, ingressSide>>

ResyncCertificate(k) ==
    /\ Resync(k)
    /\ iqueue' = iqueue \cup Notified(k, cache[k])
    /\ UNCHANGED <<certificateSide, ingressSide>>

(***************************************************************************)
(* The watch brings the cached ingress up to date.  Versions in between    *)
(* are passed over: the cache may hold any of them by being brought up to  *)
(* date in time.                                                           *)
(***************************************************************************)
DeliverIngress(k) ==
    /\ icache[k] # ings[k]
    /\ icache' = [icache EXCEPT ![k] = ings[k]]
    /\ iqueue' = iqueue \cup {k}
    /\ UNCHANGED <<vars, ings, owned, ipc, ikey, ingress, cert, ifaults, ingressOps>>

\* The garbage collector deletes a Certificate whose ingress is gone.
CollectCertificate(k) ==
    /\ \A o \in Owners(k, certs[k]) : ~ings[k].exists \/ ings[k].uid # o.ingress
    /\ OwnedByIngress(k, certs[k])
    /\ DeleteCertificateObject(k)
    /\ UNCHANGED ingressVars

\* The load balancer controller releases an ingress under deletion.
ReleaseIngress(k) ==
    /\ ings[k].deleting
    /\ ings' = [ings EXCEPT ![k] = NoIngress(@.uid)]
    /\ UNCHANGED <<vars, icache, iqueue, owned, ipc, ikey, ingress, cert, ifaults,
                   ingressOps>>

-----------------------------------------------------------------------------
UserDoes(action) ==
    /\ action \in UserActions
    /\ ingressOps < MaxIngressOps
    /\ ingressOps' = ingressOps + 1
    /\ UNCHANGED <<icache, iqueue, owned, ipc, ikey, ingress, cert, ifaults>>

CreateIngress(k, spec) ==
    /\ ~ings[k].exists
    /\ ings' = [ings EXCEPT ![k] = NewIngress(@.uid + 1, spec)]
    /\ UserDoes("createIngress") /\ UNCHANGED vars

ChangeIngress(k, spec) ==
    /\ ings[k].exists /\ ings[k].spec # spec
    /\ ings' = [ings EXCEPT ![k].spec = spec]
    /\ UserDoes("changeIngress") /\ UNCHANGED vars

DeleteIngress(k) ==
    /\ ings[k].exists /\ ~ings[k].deleting
    /\ ings' = [ings EXCEPT ![k].deleting = TRUE]
    /\ UserDoes("deleteIngress") /\ UNCHANGED vars

\* Users may also write Certificates themselves.
Users ==
    \E k \in Key :
        \/ \E spec \in IngressSpecs : CreateIngress(k, spec) \/ ChangeIngress(k, spec)
        \/ DeleteIngress(k)
        \/ \E spec \in Specs :
              \/ UserDoes("createCertificate") /\ CreateCertificate(k, spec) /\ UNCHANGED ings
              \/ UserDoes("changeCertificate") /\ ChangeSpec(k, spec) /\ UNCHANGED ings
        \/ UserDoes("deleteCertificate") /\ DeleteCertificateObject(k) /\ UNCHANGED ings

\* A replica dies and comes back; the leader lists the ingresses afresh.
CrashBoth(r) ==
    /\ Crash(r)
    /\ IF r # Leader
         THEN UNCHANGED ingressVars
         ELSE /\ ipc' = "idle"
              /\ ingress' = NoIngress(0)
              /\ cert' = Gone(0)
              /\ icache' = ings
              /\ iqueue' = {k \in Key : ings[k].exists}
              /\ UNCHANGED <<ings, owned, ikey, ifaults, ingressOps>>

-----------------------------------------------------------------------------
\* What the certificate side does without the ingress side noticing.
Certificates ==
    /\ \/ Worker \/ Job \/ Acm
       \/ \E k \in Key : CollectDns(k) /\ UNCHANGED certificateSide
       \/ \E a \in Arn : OutsideDelete(a)
    /\ UNCHANGED ingressVars

Ingresses == IngressStep \/ \E k \in Key : IngressStart(k)

Cluster ==
    \E k \in Key :
        \/ DeliverCertificate(k) \/ ResyncCertificate(k)
        \/ DeliverIngress(k) \/ CollectCertificate(k) \/ ReleaseIngress(k)

IngressNext ==
    Certificates \/ Ingresses \/ Cluster \/ Users \/ \E r \in Replica : CrashBoth(r)

(***************************************************************************)
(* Fairness as on the certificate side: a running Reconcile goes on, every *)
(* queued key is taken, watches deliver, the garbage collector and the     *)
(* load balancer controller do their work.                                 *)
(***************************************************************************)
IngressFairness ==
    /\ WF_vars(ReconcileStep /\ UNCHANGED <<job, userOps>>)
    /\ WF_allVars(IngressStep)
    /\ \A k \in Key :
         /\ SF_vars(Start(k) /\ UNCHANGED <<job, userOps>>)
         /\ SF_allVars(IngressStart(k))
         /\ WF_allVars(DeliverCertificate(k))
         /\ WF_vars(CollectDns(k) /\ UNCHANGED certificateSide)
         /\ WF_allVars(DeliverIngress(k))
         /\ WF_allVars(CollectCertificate(k))
         /\ WF_allVars(ReleaseIngress(k))
    /\ \A a \in Arn : WF_vars(Acm /\ (RecordsReady(a) \/ Issue(a, Published)))

IngressSpec == IngressInit /\ [][IngressNext]_allVars

IngressFairSpec == IngressSpec /\ IngressFairness

-----------------------------------------------------------------------------
(***************************************************************************)
(* Safety.                                                                 *)
(***************************************************************************)

\* An ingress is annotated with certificates of its own name only, and only
\* once ACM has issued them, however old the copies were that the
\* controller read (Reconcile, lines 148-155).
AnnotationIssued ==
    \A k \in Key :
        LET a == ings[k].arn
        IN  a # NoArn => acm[a].owner = "ours" /\ acm[a].key = k /\ acm[a].issued

\* Seen from the certificate side, everything the Ingress controller, the
\* garbage collector and the users of ingresses do is done by its users or
\* not at all: what holds of AcmManager holds of the whole manager, the
\* forced apply of updateCertificate and its creations included.
ImplementsCertificateSide == Spec

\* The Ingress controller leaves Certificates alone that it has not created,
\* also when a user creates one while it is about to (the owner check of
\* Reconcile, lines 101-106, and its r.Create).  What it has read must have
\* been this object or none: the apply that follows compares no uid.
UsersCertificatesKept ==
    [][\A k \in Key :
         /\ certs[k].exists /\ Owners(k, certs[k]) = {}
         /\ Ingresses /\ cert.uid \in {0, certs[k].uid}
         => certs'[k] = certs[k]]_allVars

-----------------------------------------------------------------------------
(***************************************************************************)
(* Liveness.                                                               *)
(***************************************************************************)

\* The Ingress controller and the garbage collector have writes left: a
\* writer that waits because the bound of the model is reached says nothing
\* of the code.
WritesLeft == userOps < MaxUserOps

\* The ingress is annotated with the certificate of the latest status,
\* which ACM has and which bears the hosts of the ingress and no others.
Annotated(k) ==
    LET a == ings[k].arn
    IN  /\ a = certs[k].status.arn
        /\ a \in LiveArns
        /\ acm[a].names = Hosts(ings[k].spec)

\* An ingress that asks for a certificate and is left alone is annotated
\* with one for its hosts and stays so (README.md, line 210).
EventuallyAnnotated ==
    \A k \in Key :
        <>[](/\ ings[k].exists /\ ~ings[k].deleting /\ Managed(ings[k].spec)
             /\ WritesLeft
             => Annotated(k))

-----------------------------------------------------------------------------
(***************************************************************************)
(* What the repository says of the program and the code does not do.       *)
(***************************************************************************)

\* When an ingress is gone for good so are the Certificate that was created
\* for it and everything that was requested for it in ACM: the owner
\* reference that Reconcile sets on line 132 reaches the finalizer.  For
\* models in which users write no Certificates of their own.
EventuallyReleased ==
    \A k \in Key :
        <>[](~ings[k].exists /\ WritesLeft =>
                ~certs[k].exists /\ OursFor(k) = {})
=============================================================================
