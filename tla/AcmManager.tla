----------------------------- MODULE AcmManager -----------------------------
(***************************************************************************)
(* The certificate side of acm-manager: users and their Certificates, the  *)
(* reconciler of the leading replica, the cleanup jobs of all replicas,    *)
(* ACM, and the crashes and restarts of replicas.                          *)
(***************************************************************************)
EXTENDS CertificateReconciler, CleanupJob

CONSTANTS
    Leader,         \* the replica that holds the lease
    MaxUserOps      \* bound on what users do in a behaviour

ASSUME LeaderAssumption == Leader \in Replica
ASSUME MaxUserOpsNat == MaxUserOps \in Nat

VARIABLE
    userOps         \* the number of user operations so far

vars == <<acmVars, kubeVars, workerVars, job, faults, userOps>>

\* Every variable keeps its type: every state in a status is one that
\* convertFrom or Reconcile sets, every ARN one that ACM handed out.
TypeOK ==
    /\ AcmTypeOK
    /\ KubeTypeOK
    /\ ReconcilerTypeOK
    /\ JobTypeOK
    /\ faults \in 0 .. MaxFaults
    /\ userOps \in 0 .. MaxUserOps

Init ==
    /\ AcmInit
    /\ KubeInit
    /\ ReconcilerInit
    /\ JobInit
    /\ faults = 0
    /\ userOps = 0

-----------------------------------------------------------------------------
UserOp ==
    /\ userOps < MaxUserOps
    /\ userOps' = userOps + 1
    /\ UNCHANGED <<cache, queue, dns, acmVars, workerVars, job, faults>>

CreateCertificate(k, spec) ==
    /\ ~certs[k].exists
    /\ Write(k, Fresh(certs[k].rv + 1, spec))
    /\ UserOp

ChangeSpec(k, spec) ==
    /\ certs[k].exists
    /\ certs[k].spec # spec
    /\ Write(k, [certs[k] EXCEPT !.spec = spec])
    /\ UserOp

\* With a finalizer on it the object is only marked.
DeleteCertificateObject(k) ==
    /\ certs[k].exists
    /\ ~certs[k].deleting
    /\ Write(k, IF certs[k].finalizer
                  THEN [certs[k] EXCEPT !.deleting = TRUE]
                  ELSE Gone(0))
    /\ UserOp

\* Somebody deletes a certificate of ours in the ACM console.
OutsideDelete(a) ==
    /\ a \in LiveArns
    /\ acm[a].owner = "ours"
    /\ Fault("outside")
    /\ DeleteCertificate(a)
    /\ UNCHANGED <<kubeVars, workerVars, job, userOps>>

(***************************************************************************)
(* Replica r dies and comes back.  Its job forgets what it was doing; the  *)
(* leader's reconciler too, and it lists all Certificates afresh.          *)
(***************************************************************************)
Crash(r) ==
    /\ Fault("crash")
    /\ job' = [job EXCEPT ![r] = IdleJob]
    /\ IF r # Leader
         THEN UNCHANGED <<kubeVars, workerVars>>
         ELSE /\ pc' = "idle"
              /\ ResetLocals
              /\ cache' = certs
              /\ events' = [k \in Key |-> <<>>]
              /\ queue' = {k \in Key : certs[k].exists}
              /\ UNCHANGED <<key, staleReads, certs, dns>>
    /\ UNCHANGED <<acmVars, userOps>>

-----------------------------------------------------------------------------
Worker == (ReconcileStep \/ \E k \in Key : Start(k)) /\ UNCHANGED <<job, userOps>>

Job == \E r \in Replica : JobStep(r) /\ UNCHANGED <<workerVars, userOps>>

Kube ==
    /\ \E k \in Key : WatchDeliver(k) \/ Resync(k) \/ CollectDns(k)
    /\ UNCHANGED <<acmVars, workerVars, job, faults, userOps>>

Acm ==
    /\ \E a \in Arn :
         \/ RecordsReady(a)
         \/ Issue(a, Published)
         \/ \E s \in AcmStatus : Lapse(a, s)
    /\ UNCHANGED <<kubeVars, workerVars, job, faults, userOps>>

User ==
    \E k \in Key :
        \/ \E spec \in Specs : CreateCertificate(k, spec) \/ ChangeSpec(k, spec)
        \/ DeleteCertificateObject(k)

Environment ==
    \/ \E a \in Arn : OutsideDelete(a)
    \/ \E r \in Replica : Crash(r)

Next == Worker \/ Job \/ Kube \/ Acm \/ User \/ Environment

(***************************************************************************)
(* The worker keeps running while there is something to do and takes every *)
(* key of its queue in turn (strong fairness: other keys may keep it busy  *)
(* in between); the tickers keep firing; the watch, the garbage collector  *)
(* and ACM do their work eventually.                                       *)
(***************************************************************************)
Fairness ==
    /\ WF_vars(ReconcileStep /\ UNCHANGED <<job, userOps>>)
    /\ \A k \in Key :
         /\ SF_vars(Start(k) /\ UNCHANGED <<job, userOps>>)
         /\ WF_vars(Kube /\ WatchDeliver(k))
         /\ WF_vars(Kube /\ CollectDns(k))
    /\ \A r \in Ticking : WF_vars(JobStep(r) /\ UNCHANGED <<workerVars, userOps>>)
    /\ \A a \in Arn : WF_vars(Acm /\ (RecordsReady(a) \/ Issue(a, Published)))

Spec == Init /\ [][Next]_vars

FairSpec == Spec /\ Fairness

\* The informers resync for ever: main sets no SyncPeriod, and the default
\* of controller-runtime is ten hours.
Resyncs == \A k \in Key : WF_vars(Kube /\ Resync(k))
-----------------------------------------------------------------------------
(***************************************************************************)
(* Safety.                                                                 *)
(***************************************************************************)

\* While Reconcile works on ACM for a Certificate the object is there and
\* carries the finalizer: whatever users do meanwhile, nothing that it asks
\* of ACM can outlive the object unnoticed (Reconcile, lines 108-117).
FinalizerHeld ==
    pc \in WorkingSteps => certs[key].exists /\ certs[key].finalizer

\* The ARNs some cleanup has decided to delete, by tags read earlier.
Condemned ==
    {a \in Arn : \/ pc = "purge" /\ cur = a
                 \/ \E r \in Replica : job[r].pc = "delete" /\ job[r].arn = a}

\* Neither cleanup ever deletes the ACM certificate that a Certificate's
\* status names, however stale the tags, the list or the lookup are by the
\* time of the deletion (cleanupACMCertificates,
\* cleanupOrphanACMCertificates).
TrackedSpared ==
    \A k \in Key : certs[k].exists => certs[k].status.arn \notin Condemned

\* Replaced certificates are deleted only after the status has been saved
\* with a newer certificate that ACM has issued and still has (the order of
\* Reconcile, lines 200-235).
MakeBeforeBreak ==
    pc = "purge" =>
        LET status == certs[key].status
        IN  /\ status.state = "Issued"
            /\ status.arn # cur
            /\ status.arn \in LiveArns

\* The validation records in a status are those of the ACM certificate that
\* it names, and a status that says Issued names one that was issued and
\* carries its dates: a renewal clears the records (line 173), and what it
\* keeps of its predecessor, the dates, is overwritten by the description
\* that sets Issued (updateCertificateInfo, lines 341-352).  Before that the
\* dates may be the predecessor's: see DatesOfArn.
StatusDescribesArn ==
    \A k \in Key :
        LET status == certs[k].status
        IN  /\ status.records # {} =>
                 status.arn # NoArn /\ status.records \subseteq acm[status.arn].names
            /\ status.state = "Issued" =>
                 /\ status.arn # NoArn
                 /\ acm[status.arn].issued
                 /\ status.dates = status.arn

\* The ARN in the status of a Certificate that is not being deleted names a
\* certificate that ACM has: neither a cleanup nor the undoing of a request
\* whose ARN could not be saved takes it away (Reconcile, lines 178-186, and
\* cleanupACMCertificates).
StatusArnLive ==
    \A k \in Key :
        LET c == certs[k]
        IN  c.exists /\ ~c.deleting /\ c.status.arn # NoArn =>
                c.status.arn \in LiveArns

\* Certificates of other owners stay, even when they bear our namespace and
\* name tags (the owner tag check of both cleanups).
ForeignSpared == 1 .. NForeign \subseteq LiveArns

\* An object leaves the API server by the removal of its finalizer only
\* once the ACM certificate of its latest status is gone (Reconcile, lines
\* 118-133).
FinalizerReleases ==
    [][\A k \in Key :
         certs[k].exists /\ certs[k].finalizer /\ ~certs'[k].exists =>
             certs[k].status.arn \notin LiveArns]_vars

-----------------------------------------------------------------------------
(***************************************************************************)
(* Liveness.                                                               *)
(***************************************************************************)

\* A Certificate as desired: issued for its spec, its validation records
\* published under its ownership, nothing else of it in ACM.
Settled(k) ==
    LET c == certs[k]
        a == c.status.arn
    IN  /\ c.finalizer /\ ~c.deleting
        /\ OursFor(k) = {a}
        /\ acm[a].cn = c.spec.cn /\ acm[a].names = AcmNames(c.spec)
        /\ c.status.state = "Issued" /\ c.status.dates = a
        /\ c.status.records = acm[a].names
        /\ dns[k] = [exists |-> TRUE, owner |-> c.uid, records |-> acm[a].names]

\* When users and faults leave a Certificate alone for good, the reconciler
\* brings it to its desired state and keeps it there (the promise of the
\* comment on Reconcile, lines 87-88); a deletion goes through.
EventuallySettled ==
    \A k \in Key : <>[](certs[k].exists => Settled(k))

\* Whatever becomes of its ACM certificates, the validation records in the
\* status of a Certificate that is left alone are published by a DNSEndpoint
\* that this very object owns, also when the object was created again while
\* the garbage collector had yet to remove its predecessor's
\* (syncDNSEndpoints, lines 456-489).
EventuallyPublished ==
    \A k \in Key :
        LET c == certs[k]
        IN  <>[](c.exists /\ c.status.records # {} =>
                   dns[k] = [exists  |-> TRUE,
                             owner   |-> c.uid,
                             records |-> c.status.records])

\* Once ACM leaves a certificate alone the status that names it says what
\* became of it: issued, failed while it was awaited, or expired long after
\* (the wait of Reconcile, lines 224-232, and updateCertificateInfo).
\* Nothing but a resync has a reconcile look at an issued one again.
StatusTracksAcm ==
    Resyncs =>
        \A k \in Key :
            LET c == certs[k]
            IN  <>[](c.exists /\ c.status.arn # NoArn =>
                       /\ c.status.arn \in LiveArns
                       /\ c.status.state = convertFrom(acm[c.status.arn].st))

\* What a Certificate that is gone for good has left behind, a request whose
\* answer was lost included, is eventually removed from ACM and from DNS by
\* the cleanup job and the garbage collector.
EventuallyCollected ==
    \A k \in Key : <>[](~certs[k].exists => OursFor(k) = {} /\ ~dns[k].exists)

-----------------------------------------------------------------------------
(***************************************************************************)
(* What the repository says of the program and the code does not do.       *)
(***************************************************************************)

\* Reconcile, lines 153-161: a certificate that exists is replaced only
\* when the specification has changed, that is, when it does not bear the
\* names it was requested for.
ReplacedOnlyOnChange ==
    [][\A k \in Key :
         LET old == certs[k].status.arn
             new == certs'[k].status.arn
         IN  old \in LiveArns /\ new \notin {NoArn, old} =>
                 \/ acm[old].cn # local.spec.cn
                 \/ acm[old].names # AcmNames(local.spec)]_vars

\* Reconcile, lines 163 and 172, "clear status", and TODO.md, line 3: when a
\* certificate is replaced the dates of its predecessor are cleared, so
\* that a status shows the dates of its own certificate or none.
DatesOfArn ==
    \A k \in Key : certs[k].status.dates \in {NoArn, certs[k].status.arn}
=============================================================================
