----------------------------- MODULE InUseProofs -----------------------------
(***************************************************************************)
(* ACM certificates in use are not deleted, for every value of the         *)
(* constants.                                                              *)
(*                                                                         *)
(* TrackedSpared says so of the cleanups.  Here the other two deletions of *)
(* the reconciler are added, that of the finalizer path and the rollback,  *)
(* as far as the code keeps them from taking a certificate in use: an      *)
(* object that counts on its certificate is not being deleted in any       *)
(* version that somebody may still read (HeldAlone), and what is rolled    *)
(* back has not been saved (UnsavedInv), unless the fault is one of        *)
(* GivingUp.  Certificates deleted by hand (site "outside") are nobody's   *)
(* fault and excluded.                                                     *)
(***************************************************************************)
EXTENDS LifecycleProofs, StatusProofs

\* The failing calls after which Reconcile deletes the ACM certificate that
\* it has just saved the ARN of (lines 178-215).
GivingUp == {"save1Lost", "info", "save2", "save2Lost"}

\* Behind the second save the copy is what is stored, and behind the wait it
\* is issued.
SavedInv ==
    /\ pc \in SavedSteps => certs[key].status = local.status
    /\ pc \in SavedSteps \ {"dns"} => local.status.state = "Issued"

\* Reconcile works with ARNs that ACM has.
CopyLiveInv ==
    /\ pc \in {"request", "saveError"} => local.status.arn \in LiveArns \cup {NoArn}
    /\ pc \in AcquiredSteps => local.status.arn \in LiveArns

\* No version of an object that Reconcile would work on shows a deletion.
HeldAlone ==
    \A k \in Key : Held(certs[k]) =>
        \A o \in Versions(k) : ~(o.exists /\ o.deleting)

DeletingAlone == pc \in DeletingSteps => ~Held(certs[key])

\* What is or may be rolled back is not in the status.
UnsavedInv ==
    /\ created => pc \in AcquiredSteps
    /\ pc = "rollback" \/ (pc = "save1" /\ created) =>
         certs[key].status.arn # local.status.arn

InUseInv ==
    /\ LifecycleInv
    /\ SavedInv
    /\ CopyLiveInv
    /\ HeldAlone
    /\ DeletingAlone

-----------------------------------------------------------------------------
(***************************************************************************)
(* Who deletes ACM certificates.                                           *)
(***************************************************************************)
Killed(b) ==
    \/ pc = "deleteAcm" /\ b = local.status.arn
    \/ pc = "rollback" /\ b = local.status.arn /\ pc' = "idle"
    \/ pc = "purge" /\ b = cur
    \/ \E r \in Replica : job[r].pc = "delete" /\ job[r].arn = b
    \/ "outside" \in FaultSites

\* deleteACMCertificate deletes the certificate it is given.
LEMMA DeletesOne ==
  ASSUME AcmTypeOK, NEW a, DeleteCertificate(a), NEW b \in LiveArns, b \notin LiveArns'
  PROVE  b = a
  <1>1. ASSUME b # a PROVE FALSE
    <2>1. b \in Arn /\ acm'[b] = acm[b]
      BY <1>1 DEF DeleteCertificate, AcmTypeOK, LiveArns
    <2>2. QED
      BY <2>1 DEF LiveArns
  <1>2. QED
    BY <1>1

\* requestACMCertificate deletes nothing.
LEMMA RequestKeeps ==
  ASSUME TrackedInv, NEW k \in Key, NEW spec, RequestCertificate(k, spec)
  PROVE  LiveArns \subseteq LiveArns'
  <1> SUFFICES ASSUME NEW a \in LiveArns PROVE a \in LiveArns'
    OBVIOUS
  <1>1. a \in Arn /\ a \in 1 .. nreq /\ AcmTypeOK
    BY Types DEF TrackedInv, BornInv, LiveArns
  <1>2. acm'[a] = acm[a]
    BY <1>1, HandedOut DEF RequestCertificate, AcmTypeOK
  <1>3. QED
    BY <1>1, <1>2 DEF LiveArns

\* ACM's own steps delete nothing.
LEMMA AcmKeeps ==
  ASSUME AcmTypeOK, Acm
  PROVE  LiveArns \subseteq LiveArns'
  <1> PICK a \in Arn : \/ RecordsReady(a)
                      \/ Issue(a, Published)
                      \/ \E s \in AcmStatus : Lapse(a, s)
    BY DEF Acm
  <1>1. acm \in [Arn -> AcmCertificate] /\ acm[a] \in AcmCertificate /\ a \in LiveArns
    BY DEF AcmTypeOK, RecordsReady, Issue, Lapse, LiveArns
  <1>2. \A b \in Arn \ {a} : acm'[b] = acm[b]
    BY <1>1 DEF RecordsReady, Issue, Lapse
  <1>3. \/ acm'[a] = [acm[a] EXCEPT !.ready = TRUE]
        \/ acm'[a] = [acm[a] EXCEPT !.st = "ISSUED", !.issued = TRUE]
        \/ \E s \in AcmStatus : acm'[a] = [acm[a] EXCEPT !.st = s]
    BY <1>1 DEF RecordsReady, Issue, Lapse
  <1>4. acm'[a].st \notin {"unborn", "deleted"}
    BY <1>1, <1>3 DEF AcmCertificate, LiveArns, AcmStatus
  <1>5. QED
    BY <1>1, <1>2, <1>4 DEF LiveArns

LEMMA Killers ==
  ASSUME TrackedInv, Next, NEW b \in LiveArns, b \notin LiveArns'
  PROVE  Killed(b)
  <1>1. AcmTypeOK /\ key \in Key
    BY Types DEF TrackedInv
  <1>2. acm' # acm
    BY DEF LiveArns
  <1>3. \A a : DeleteCertificate(a) => b = a
    BY <1>1, DeletesOne
  <1>4. CASE Worker
    <2>1. CASE DeleteAcm \/ Rollback \/ CleanupPurge
      BY <1>2, <1>3, <2>1 DEF DeleteAcm, Rollback, CleanupPurge, Return, Killed, acmVars
    <2>2. CASE Request
      BY <1>1, <1>2, <2>2, RequestKeeps DEF Request, acmVars
    <2>3. CASE \/ \E n \in Key : Start(n)
               \/ AddFinalizer \/ RemoveFinalizer \/ SaveError \/ Compare \/ Save1
               \/ UpdateCertificateInfo \/ Save2 \/ SyncDNSEndpoints \/ ListForCleanup
               \/ CleanupTags
      BY <1>2, <2>3 DEF Start, AddFinalizer, RemoveFinalizer, SaveError, Compare, Save1,
         Save2, Save, UpdateCertificateInfo, SyncDNSEndpoints, ListForCleanup, CleanupTags,
         acmVars
    <2>4. QED
      BY <1>4, <2>1, <2>2, <2>3 DEF Worker, ReconcileStep
  <1>5. CASE Job
    <2> PICK r \in Replica : JobStep(r)
      BY <1>5 DEF Job
    <2>1. CASE JobDelete(r)
      BY <1>2, <1>3, <2>1 DEF JobDelete, Killed, acmVars
    <2>2. QED
      BY <1>2, <2>1 DEF JobStep, JobList, JobListFails, JobTags, JobGet, acmVars
  <1>6. CASE Environment
    BY <1>2, <1>6 DEF Environment, OutsideDelete, Fault, Crash, Killed, acmVars
  <1>7. CASE Kube \/ User
    BY <1>2, <1>7, UserWrite DEF Kube, UserOp, TrackedInv, acmVars
  <1>8. QED
    BY <1>1, <1>4, <1>5, <1>6, <1>7, AcmKeeps DEF Next

-----------------------------------------------------------------------------
(***************************************************************************)
(* The copy keeps its ACM certificate.                                     *)
(***************************************************************************)

\* Nobody takes the certificate away that a reconcile works with, except by
\* hand or the reconcile itself at its end.
LEMMA CopySpared ==
  ASSUME TrackedInv, Next, "outside" \notin FaultSites, pc \in WorkingSteps,
         pc' # "idle", local.status.arn \in LiveArns
  PROVE  local.status.arn \in LiveArns'
  <1> SUFFICES ASSUME local.status.arn \notin LiveArns' PROVE FALSE
    OBVIOUS
  <1>1. Killed(local.status.arn)
    BY Killers
  <1>2. pc # "deleteAcm"
    BY DEF WorkingSteps
  <1>3. pc = "purge" => cur # local.status.arn
    BY DEF TrackedInv, PurgeInv
  <1>4. \A r \in Replica : job[r].pc = "delete" => job[r].arn # local.status.arn
    BY DEF TrackedInv, JobsInv, JobOK, NotInUse
  <1>5. QED
    BY <1>1, <1>2, <1>3, <1>4 DEF Killed

LEMMA CopyLiveStep ==
  ASSUME TrackedInv, CopyLiveInv, Next, "outside" \notin FaultSites
  PROVE  CopyLiveInv'
  <1>1. CASE CopyDropped
    BY <1>1 DEF CopyDropped, CopyLiveInv, AcquiredSteps, SavedSteps
  <1>2. CASE CopyRead
    BY <1>2 DEF CopyRead, CopyLiveInv, AcquiredSteps, SavedSteps
  <1>3. CASE CopyRequested
    BY <1>3 DEF CopyRequested, CopyLiveInv
  <1>4. CASE CopyKept
    <2>1. ASSUME pc' \in WorkingSteps \ {"compare"}
          PROVE  local'.status.arn = NoArn \/ local'.status.arn \in LiveArns'
      <3>1. CASE pc = "addFinalizer"
        BY <1>4, <3>1 DEF CopyKept, TrackedInv, LocalInv
      <3>2. CASE pc = "compare"
        BY <1>4, <2>1, <3>2 DEF CopyKept, LiveArns
      <3>3. CASE pc \in WorkingSteps \ {"compare"}
        <4>1. pc' # "idle"
          BY <2>1 DEF WorkingSteps
        <4>2. local.status.arn = NoArn \/ local.status.arn \in LiveArns
          BY <3>3 DEF CopyLiveInv, WorkingSteps, AcquiredSteps, SavedSteps
        <4>3. QED
          BY <1>4, <3>3, <4>1, <4>2, CopySpared DEF CopyKept
      <3>4. QED
        BY <1>4, <2>1, <3>1, <3>2, <3>3 DEF CopyKept
    <2>2. ASSUME pc' \in AcquiredSteps PROVE local'.status.arn # NoArn
      <3>1. pc \in AcquiredSteps \/ (pc = "compare" /\ pc' # "compare")
        BY <1>4, <2>2 DEF CopyKept, AcquiredSteps, SavedSteps
      <3>2. local.status.arn \in LiveArns
        BY <1>4, <3>1 DEF CopyKept, CopyLiveInv
      <3>3. QED
        BY <1>4, <3>2, MaxRequestsNat DEF CopyKept, LiveArns, Arn, NoArn
    <2>3. QED
      BY <2>1, <2>2 DEF CopyLiveInv, WorkingSteps, AcquiredSteps, SavedSteps
  <1>5. QED
    BY <1>1, <1>2, <1>3, <1>4, LocalNext DEF LocalStep

-----------------------------------------------------------------------------
(***************************************************************************)
(* Behind the second save.                                                 *)
(***************************************************************************)

\* updateWithStatus stores the status it is given.
LEMMA ApplyStatusStores ==
  ASSUME KubeTypeOK, NEW k \in Key, NEW status \in StatusType, ApplyStatus(k, status)
  PROVE  certs'[k].status = status
  <1> DEFINE o == [certs[k] EXCEPT !.status = status]
  <1>1. CASE certs[k].status = status /\ NoWrite
    BY <1>1 DEF NoWrite
  <1>2. CASE Write(k, o)
    <2>1. certs[k] \in Certificate /\ o \in Certificate /\ o.status = status
      BY WithStatusType DEF Certificate, KubeTypeOK
    <2>2. certs'[k] = Stored(k, o)
      BY <1>2 DEF Write, KubeTypeOK
    <2>3. QED
      BY <2>1, <2>2 DEF Stored, Certificate
  <1>3. QED
    BY <1>1, <1>2 DEF ApplyStatus

LEMMA SavedOthers ==
  ASSUME TrackedInv, SavedInv, Next, UNCHANGED <<pc, key, local>>
  PROVE  SavedInv'
  <1>1. key \in Key /\ StatusStep(key)
    BY Types, StatusNext DEF TrackedInv
  <1>2. pc \in SavedSteps => certs'[key].status = local.status
    BY <1>1 DEF StatusStep, SavedInv, SavedSteps, WorkingSteps
  <1>3. QED
    BY <1>2 DEF SavedInv

LEMMA SavedWorker ==
  ASSUME TrackedInv, SavedInv, Worker
  PROVE  SavedInv'
  <1>1. key \in Key /\ KubeTypeOK /\ local.status \in StatusType
    BY Types DEF TrackedInv
  <1>2. CASE pc' \notin SavedSteps
    BY <1>2 DEF SavedInv
  <1>3. CASE SyncDNSEndpoints
    <2>1. CASE pc' = "list" /\ ~NotYetIssued(local) /\ UNCHANGED locals
      BY <1>3, <2>1 DEF SyncDNSEndpoints, NotYetIssued, locals, SavedInv, SavedSteps
    <2>2. QED
      BY <1>2, <1>3, <2>1 DEF SyncDNSEndpoints, Return, SavedSteps
  <1>4. CASE ListForCleanup \/ CleanupTags \/ CleanupPurge
    <2>1. CASE UNCHANGED <<certs, key, local>> /\ pc \in SavedSteps \ {"dns"}
      BY <2>1 DEF SavedInv, SavedSteps
    <2>2. QED
      BY <1>2, <1>4, <2>1 DEF ListForCleanup, CleanupTags, CleanupPurge, Return, SavedSteps
  <1>5. CASE Save2
    <2>1. CASE ApplyStatus(key, local.status) /\ Goto("dns")
      BY <1>1, <2>1, ApplyStatusStores DEF Goto, locals, SavedInv, SavedSteps
    <2>2. QED
      BY <1>2, <1>5, <2>1 DEF Save2, Save, Abort, Return, Goto, SavedSteps
  <1>6. CASE \E n \in Key : Start(n)
    <2>1. pc = "idle" /\ LocalStep
      BY <1>6, LocalStart DEF Start, TrackedInv
    <2>2. pc' \notin SavedSteps
      BY <2>1 DEF LocalStep, CopyDropped, CopyKept, CopyRead, CopyRequested, SavedSteps
    <2>3. QED
      BY <1>2, <2>2
  <1>7. CASE \/ AddFinalizer \/ DeleteAcm \/ RemoveFinalizer \/ Request \/ SaveError
             \/ Compare \/ Save1 \/ UpdateCertificateInfo \/ Rollback
    <2>1. CASE AddFinalizer \/ DeleteAcm \/ RemoveFinalizer \/ Request \/ SaveError
      BY <1>2, <2>1 DEF AddFinalizer, AcquireStep, DeleteAcm, RemoveFinalizer,
         Request, SaveError, Return, Goto, GotoWith, SavedSteps
    <2>2. CASE Compare \/ Save1 \/ UpdateCertificateInfo \/ Rollback
      BY <1>2, <2>2 DEF Compare, Save1, Save, UpdateCertificateInfo, Rollback,
         Abort, Return, Goto, GotoWith, SavedSteps
    <2>3. QED
      BY <1>7, <2>1, <2>2
  <1>8. QED
    BY <1>3, <1>4, <1>5, <1>6, <1>7 DEF Worker, ReconcileStep

LEMMA SavedStep ==
  ASSUME TrackedInv, SavedInv, Next
  PROVE  SavedInv'
  <1>1. CASE Job \/ Kube \/ Acm
    BY <1>1, SavedOthers DEF Job, Kube, Acm, workerVars, locals
  <1>2. CASE User
    BY <1>2, SavedOthers, UserWrite DEF TrackedInv, UserOp, workerVars, locals
  <1>3. CASE Environment
    <2>1. CASE pc' = "idle"
      BY <2>1 DEF SavedInv, SavedSteps
    <2>2. CASE UNCHANGED workerVars
      BY <2>2, SavedOthers DEF workerVars, locals
    <2>3. QED
      BY <1>3, <2>1, <2>2 DEF Environment, OutsideDelete, Crash
  <1>4. QED
    BY <1>1, <1>2, <1>3, SavedWorker DEF Next

-----------------------------------------------------------------------------
(***************************************************************************)
(* Make before break.                                                      *)
(***************************************************************************)
PurgeSafeInv == TrackedInv /\ SavedInv /\ CopyLiveInv

LEMMA PurgeSafeInit == Init => PurgeSafeInv
  BY TrackedInit DEF PurgeSafeInv, Init, ReconcilerInit, SavedInv, CopyLiveInv, SavedSteps,
     AcquiredSteps

LEMMA PurgeSafeStep ==
  ASSUME "outside" \notin FaultSites, PurgeSafeInv, [Next]_vars
  PROVE  PurgeSafeInv'
  <1>1. TrackedInv'
    BY TrackedStep DEF PurgeSafeInv
  <1>2. CASE Next
    BY <1>1, <1>2, SavedStep, CopyLiveStep DEF PurgeSafeInv
  <1>3. CASE UNCHANGED vars
    BY <1>1, <1>3 DEF PurgeSafeInv, SavedInv, CopyLiveInv, LiveArns, vars, acmVars,
       kubeVars, workerVars, locals
  <1>4. QED
    BY <1>2, <1>3

\* Whatever calls fail or lose their answers, and however stale the copy is:
\* Reconcile deletes a superseded ACM certificate only when the stored status
\* names another one that is issued and that ACM still has, as long as nobody
\* deletes certificates by hand (Reconcile, lines 199-235).
THEOREM MakeBeforeBreakAlways ==
  ASSUME "outside" \notin FaultSites
  PROVE  Spec => []MakeBeforeBreak
  <1>1. PurgeSafeInv => MakeBeforeBreak
    BY DEF PurgeSafeInv, TrackedInv, PurgeInv, SavedInv, CopyLiveInv, MakeBeforeBreak,
       SavedSteps, AcquiredSteps
  <1>2. PurgeSafeInv /\ [Next]_vars => PurgeSafeInv'
    BY PurgeSafeStep
  <1>3. QED
    BY <1>1, <1>2, PurgeSafeInit, PTL DEF Spec

-----------------------------------------------------------------------------
(***************************************************************************)
(* Objects under deletion.                                                 *)
(***************************************************************************)

\* A write shows in the stored object (Write).
LEMMA WriteFlags ==
  ASSUME KubeTypeOK, NEW k \in Key, NEW o \in Certificate, Write(k, o), NEW n \in Key
  PROVE  /\ n # k => certs'[n] = certs[n]
         /\ n = k => Held(certs'[n]) = Held(o)
  <1>1. n # k => certs'[n] = certs[n]
    BY DEF Write, KubeTypeOK
  <1>2. ASSUME n = k PROVE Held(certs'[n]) = Held(o)
    <2>1. certs'[n] = Stored(k, o)
      BY <1>2 DEF Write, KubeTypeOK
    <2>2. /\ Stored(k, o).exists = o.exists /\ Stored(k, o).finalizer = o.finalizer
          /\ Stored(k, o).deleting = o.deleting
      BY DEF Stored, Certificate
    <2>3. QED
      BY <2>1, <2>2 DEF Held
  <1>3. QED
    BY <1>1, <1>2

\* An object comes to be one that Reconcile works on by its finalizer, which
\* is added to the only version there is (Reconcile, lines 108-117).
Adopted(k) ==
    /\ pc = "addFinalizer" /\ k = key
    /\ \A o \in Versions(k) : ~o.deleting

LEMMA HeldWorker ==
  ASSUME LifecycleInv, Worker, NEW k \in Key, Held(certs'[k])
  PROVE  Held(certs[k]) \/ Adopted(k)
  <1>1. /\ KubeTypeOK /\ key \in Key /\ local \in Certificate
        /\ local.status \in StatusType /\ certs[key] \in Certificate
    BY Types DEF LifecycleInv, TrackedInv
  <1>2. CASE certs' = certs
    BY <1>2
  <1>3. CASE SaveError \/ Save1 \/ Save2
    <2> DEFINE o == [certs[key] EXCEPT !.status = local.status]
    <2>1. NoWrite \/ ApplyStatus(key, local.status)
      BY <1>3 DEF SaveError, Save1, Save2, Save
    <2>2. o \in Certificate /\ Held(o) = Held(certs[key])
      BY <1>1, WithStatusType DEF Certificate, Held
    <2>3. CASE Write(key, o)
      BY <1>1, <2>2, <2>3, WriteFlags
    <2>4. QED
      BY <1>2, <2>1, <2>3 DEF NoWrite, ApplyStatus
  <1>4. CASE AddFinalizer
    <2> DEFINE o == [local EXCEPT !.finalizer = TRUE]
    <2>1. o \in Certificate
      BY <1>1 DEF Certificate
    <2>2. CASE UpToDate(key, local) /\ Write(key, o)
      <3>1. /\ pc = "addFinalizer" /\ ~local.deleting
            /\ certs[key] = local /\ cache[key] = local /\ Len(events[key]) = 0
        BY <1>4, <2>2, AddingUpToDate DEF AddFinalizer, LifecycleInv, AddingInv
      <3>2. \A v \in Versions(key) : ~v.deleting
        BY <3>1 DEF Versions
      <3>3. k # key => certs'[k] = certs[k]
        BY <1>1, <2>1, <2>2, WriteFlags
      <3>4. QED
        BY <3>1, <3>2, <3>3 DEF Adopted
    <2>3. QED
      BY <1>2, <1>4, <2>2 DEF AddFinalizer, NoWrite
  <1>5. CASE RemoveFinalizer
    <2>1. Gone(0) \in Certificate /\ ~Held(Gone(0))
      BY GoneType DEF Gone, Held
    <2>2. NoWrite \/ Write(key, Gone(0))
      BY <1>5 DEF RemoveFinalizer
    <2>3. QED
      BY <1>1, <1>2, <2>1, <2>2, WriteFlags DEF NoWrite
  <1>6. CASE \/ \E n \in Key : Start(n)
             \/ DeleteAcm \/ Request \/ Compare \/ UpdateCertificateInfo \/ Rollback
             \/ SyncDNSEndpoints \/ ListForCleanup \/ CleanupTags \/ CleanupPurge
    BY <1>2, <1>6 DEF Start, DeleteAcm, Request, Compare, UpdateCertificateInfo,
       Rollback, SyncDNSEndpoints, ListForCleanup, CleanupTags, CleanupPurge
  <1>7. QED
    BY <1>3, <1>4, <1>5, <1>6 DEF Worker, ReconcileStep

\* Users add no finalizer and take no deletion back.
LEMMA HeldUser ==
  ASSUME TrackedInv, User, NEW k \in Key, Held(certs'[k])
  PROVE  Held(certs[k])
  <1>1. KubeTypeOK
    BY Types DEF TrackedInv
  <1>2. PICK n \in Key : \/ \E spec \in Specs : CreateCertificate(n, spec)
                         \/ \E spec \in Specs : ChangeSpec(n, spec)
                         \/ DeleteCertificateObject(n)
    BY DEF User
  <1>3. certs[n] \in Certificate /\ certs[n].rv + 1 \in Nat
    BY Types, VersionType DEF TrackedInv
  <1>4. ASSUME NEW o \in Certificate, Write(n, o), Held(o) => Held(certs[n])
        PROVE  Held(certs[k])
    BY <1>1, <1>4, WriteFlags
  <1>5. ASSUME NEW spec \in Specs, CreateCertificate(n, spec) PROVE Held(certs[k])
    <2>1. /\ Fresh(certs[n].rv + 1, spec) \in Certificate
          /\ ~Held(Fresh(certs[n].rv + 1, spec))
      BY <1>3, FreshType DEF Fresh, Held
    <2>2. QED
      BY <1>4, <1>5, <2>1 DEF CreateCertificate
  <1>6. ASSUME NEW spec \in Specs, ChangeSpec(n, spec) PROVE Held(certs[k])
    <2> DEFINE o == [certs[n] EXCEPT !.spec = spec]
    <2>1. o \in Certificate /\ Held(o) = Held(certs[n])
      BY <1>3 DEF Certificate, Held
    <2>2. QED
      BY <1>4, <1>6, <2>1 DEF ChangeSpec
  <1>7. ASSUME DeleteCertificateObject(n) PROVE Held(certs[k])
    <2> DEFINE o == [certs[n] EXCEPT !.deleting = TRUE]
    <2>1. o \in Certificate /\ ~Held(o)
      BY <1>3 DEF Certificate, Held
    <2>2. Gone(0) \in Certificate /\ ~Held(Gone(0))
      BY GoneType DEF Gone, Held
    <2>3. QED
      BY <1>4, <1>7, <2>1, <2>2 DEF DeleteCertificateObject
  <1>8. QED
    BY <1>2, <1>5, <1>6, <1>7

LEMMA HeldNext ==
  ASSUME LifecycleInv, Next, NEW k \in Key, Held(certs'[k])
  PROVE  Held(certs[k]) \/ Adopted(k)
  <1>1. TrackedInv
    BY DEF LifecycleInv
  <1>2. CASE Job \/ Kube \/ Acm
    BY <1>2 DEF Job, JobStep, JobList, JobListFails, JobTags, JobGet, JobDelete,
       Acm, kubeVars, Kube, WatchDeliver, Resync, CollectDns
  <1>3. CASE Environment
    <2>1. certs' = certs
      BY <1>3, Zenon DEF Environment, OutsideDelete, Crash, kubeVars
    <2>2. QED
      BY <2>1
  <1>4. QED
    BY <1>1, <1>2, <1>3, HeldWorker, HeldUser DEF Next

LEMMA HeldAloneStep ==
  ASSUME LifecycleInv, HeldAlone, Next
  PROVE  HeldAlone'
  <1> SUFFICES ASSUME NEW k \in Key, Held(certs'[k]), NEW o \in Versions(k)'
               PROVE  ~(o.exists /\ o.deleting)
    BY DEF HeldAlone, Held
  <1>1. CASE o = certs'[k]
    BY <1>1 DEF Held
  <1>2. CASE o \in Versions(k)
    BY <1>2, HeldNext DEF HeldAlone, Adopted
  <1>3. QED
    BY <1>1, <1>2, StoreNext DEF StoreStep, LifecycleInv

LEMMA DeletingAloneStep ==
  ASSUME LifecycleInv, HeldAlone, DeletingAlone, Next
  PROVE  DeletingAlone'
  <1> SUFFICES ASSUME pc' \in DeletingSteps, Held(certs'[key']) PROVE FALSE
    BY DEF DeletingAlone, Held
  <1>1. TrackedInv /\ key \in Key
    BY Types DEF LifecycleInv, TrackedInv
  <1>2. CASE CopyKept
    BY <1>1, <1>2, HeldNext DEF CopyKept, DeletingAlone, Adopted, DeletingSteps
  <1>3. CASE CopyRead
    <2>1. /\ key' \in Key /\ certs' = certs /\ local' = cache[key']
          /\ local'.exists /\ local'.deleting
      BY <1>3 DEF CopyRead, DeletingSteps
    <2>2. local' \in Versions(key')
      BY <2>1 DEF Versions
    <2>3. QED
      BY <2>1, <2>2 DEF HeldAlone
  <1>4. QED
    BY <1>1, <1>2, <1>3, LocalNext DEF LocalStep, CopyDropped, CopyRequested, DeletingSteps

-----------------------------------------------------------------------------
(***************************************************************************)
(* What is rolled back.                                                    *)
(***************************************************************************)

\* While nobody but others act, the stored ARN of the object that a
\* reconcile works on stays.
LEMMA UnsavedOthers ==
  ASSUME TrackedInv, UnsavedInv, Next, UNCHANGED <<pc, key, local, created>>
  PROVE  UnsavedInv'
  <1>1. key \in Key /\ StatusStep(key)
    BY Types, StatusNext DEF TrackedInv
  <1>2. pc \in {"rollback", "save1"} => certs'[key].status = certs[key].status
    BY <1>1 DEF StatusStep, WorkingSteps
  <1>3. QED
    BY <1>2 DEF UnsavedInv

LEMMA UnsavedWorker ==
  ASSUME InUseInv, UnsavedInv, Worker, FaultSites \cap GivingUp = {}
  PROVE  UnsavedInv'
  <1>1. /\ TrackedInv /\ key \in Key /\ local \in Certificate
        /\ local.status \in StatusType /\ nreq \in Nat
    BY Types DEF InUseInv, LifecycleInv, TrackedInv
  <1>2. CASE pc' = "idle" /\ ResetLocals
    BY <1>2 DEF ResetLocals, UnsavedInv
  <1>3. CASE ~created' /\ pc' # "rollback"
    BY <1>3 DEF UnsavedInv
  <1>4. CASE pc' \in AcquiredSteps \ {"save1", "rollback"}
    BY <1>4 DEF UnsavedInv, AcquiredSteps, SavedSteps
  <1>5. \A site : Fault(site) => site \notin GivingUp
    BY DEF Fault
  <1>6. pc \notin AcquiredSteps => ~created
    BY DEF UnsavedInv
  <1>7. CASE Request
    <2>1. CASE pc' = "save1" /\ local' = [local EXCEPT !.status = Requested(@, nreq + 1)]
      <3>1. local'.status = Requested(local.status, nreq + 1)
        BY <1>1, <2>1 DEF Certificate
      <3>2. local'.status.arn = nreq + 1
        BY <1>1, <3>1 DEF Requested, StatusType
      <3>3. certs' = certs /\ key' = key
        BY <1>7, <2>1 DEF Request, GotoWith
      <3>4. certs[key].status.arn # nreq + 1
        <4>1. Tagged(key, certs[key].status.arn)
          BY <1>1 DEF TrackedInv, TagInv, Versions, VersionTagged
        <4>2. nreq + 1 # NoArn /\ nreq + 1 \notin 1 .. nreq
          BY <1>1 DEF NoArn
        <4>3. QED
          BY <4>1, <4>2 DEF Tagged
      <3>5. QED
        BY <2>1, <3>2, <3>3, <3>4 DEF UnsavedInv, AcquiredSteps
    <2>2. CASE pc' = "saveError" /\ created' = created
      BY <1>3, <1>6, <1>7, <2>2 DEF Request, AcquiredSteps, SavedSteps
    <2>3. QED
      BY <1>7, <2>1, <2>2 DEF Request, GotoWith
  <1>8. CASE Save1
    <2>1. CASE ApplyStatus(key, local.status) /\ NoFault /\ Goto("info")
      BY <1>4, <2>1 DEF Goto, AcquiredSteps, SavedSteps
    <2>2. CASE NoWrite /\ Abort
      <3>1. CASE created /\ Goto("rollback")
        BY <1>8, <2>2, <3>1 DEF NoWrite, Goto, locals, Save1, Save, UnsavedInv, AcquiredSteps
      <3>2. QED
        BY <1>2, <2>2, <3>1 DEF Abort, Return
    <2>3. QED
      BY <1>5, <1>8, <2>1, <2>2 DEF Save1, Save, GivingUp
  <1>9. CASE UpdateCertificateInfo
    <2>1. local.status.arn \in LiveArns
      BY <1>9 DEF UpdateCertificateInfo, InUseInv, CopyLiveInv, AcquiredSteps
    <2>2. pc' = "save2"
      BY <1>5, <1>9, <2>1 DEF UpdateCertificateInfo, GotoWith, GivingUp
    <2>3. QED
      BY <1>4, <2>2 DEF AcquiredSteps, SavedSteps
  <1>10. CASE Save2
    <2>1. certs[key].exists
      BY <1>1, <1>10 DEF Save2, Save, TrackedInv, FinalizerInv, FinalizerHeld, WorkingSteps
    <2>2. CASE Return(TRUE)
      BY <1>2, <2>2 DEF Return
    <2>3. CASE Goto("dns")
      BY <1>4, <2>3 DEF Goto, AcquiredSteps, SavedSteps
    <2>4. QED
      BY <1>5, <1>10, <2>1, <2>2, <2>3 DEF Save2, Save, GivingUp
  <1>11. CASE SyncDNSEndpoints \/ ListForCleanup \/ CleanupTags \/ CleanupPurge
    BY <1>2, <1>4, <1>11 DEF SyncDNSEndpoints, ListForCleanup, CleanupTags, CleanupPurge,
       Return, AcquiredSteps, SavedSteps
  <1>12. CASE \/ \E n \in Key : Start(n)
              \/ AddFinalizer \/ DeleteAcm \/ RemoveFinalizer \/ SaveError \/ Compare
              \/ Rollback
    <2>1. CASE \E n \in Key : Start(n)
      <3> PICK n \in Key : Start(n)
        BY <2>1
      <3>1. created' = created /\ pc = "idle" /\ LocalStep
        BY <1>1, LocalStart DEF Start, TrackedInv
      <3>2. pc' # "rollback"
        BY <3>1 DEF LocalStep, CopyDropped, CopyKept, CopyRead, CopyRequested
      <3>3. QED
        BY <1>3, <1>6, <3>1, <3>2 DEF AcquiredSteps, SavedSteps
    <2>2. CASE AddFinalizer \/ DeleteAcm \/ RemoveFinalizer
      BY <1>2, <1>3, <1>6, <2>2 DEF AddFinalizer, AcquireStep, DeleteAcm, RemoveFinalizer,
         Return, Goto, GotoWith, locals, AcquiredSteps, SavedSteps
    <2>3. CASE SaveError \/ Compare \/ Rollback
      BY <1>2, <1>3, <1>6, <2>3 DEF SaveError, Compare, Rollback,
         Return, Goto, locals, AcquiredSteps, SavedSteps
    <2>4. QED
      BY <1>12, <2>1, <2>2, <2>3
  <1>13. QED
    BY <1>7, <1>8, <1>9, <1>10, <1>11, <1>12 DEF Worker, ReconcileStep

LEMMA UnsavedStep ==
  ASSUME InUseInv, UnsavedInv, Next, FaultSites \cap GivingUp = {}
  PROVE  UnsavedInv'
  <1>1. TrackedInv
    BY DEF InUseInv, LifecycleInv
  <1>2. CASE Job \/ Kube \/ Acm
    BY <1>1, <1>2, UnsavedOthers DEF Job, Kube, Acm, workerVars, locals
  <1>3. CASE User
    BY <1>1, <1>3, UnsavedOthers, UserWrite DEF TrackedInv, UserOp, workerVars, locals
  <1>4. CASE Environment
    <2>1. CASE pc' = "idle" /\ ResetLocals
      BY <2>1 DEF ResetLocals, UnsavedInv
    <2>2. CASE UNCHANGED workerVars
      BY <1>1, <2>2, UnsavedOthers DEF workerVars, locals
    <2>3. QED
      BY <1>4, <2>1, <2>2 DEF Environment, OutsideDelete, Crash
  <1>5. QED
    BY <1>2, <1>3, <1>4, UnsavedWorker DEF Next

-----------------------------------------------------------------------------
(***************************************************************************)
(* Certificates in use.                                                    *)
(***************************************************************************)

\* Neither the finalizer path nor a rollback nor a cleanup takes the ACM
\* certificate that an object counts on (Killed, case by case).
LEMMA InUseSpared ==
  ASSUME InUseInv, UnsavedInv, "outside" \notin FaultSites, Next,
         NEW k \in Key, certs[k].exists, ~certs[k].deleting,
         certs[k].status.arn \in LiveArns
  PROVE  certs[k].status.arn \in LiveArns'
  <1> DEFINE b == certs[k].status.arn
  <1> SUFFICES ASSUME b \notin LiveArns' PROVE FALSE
    OBVIOUS
  <1>1. TrackedInv
    BY DEF InUseInv, LifecycleInv
  <1>2. b # NoArn
    BY MaxRequestsNat DEF LiveArns, Arn, NoArn
  <1>3. VersionTagged(k, certs[k])
    BY <1>1 DEF TrackedInv, TagInv, Versions
  <1>4. acm[b].key = k /\ Held(certs[k])
    BY <1>2, <1>3 DEF VersionTagged, Tagged, Held
  <1>5. ASSUME pc # "idle", b = local.status.arn PROVE k = key
    BY <1>1, <1>2, <1>4, <1>5 DEF TrackedInv, LocalInv, Tagged
  <1>6. Killed(b)
    BY <1>1, Killers
  <1>7. ~(pc = "deleteAcm" /\ b = local.status.arn)
    BY <1>4, <1>5 DEF InUseInv, DeletingAlone, DeletingSteps
  <1>8. ~(pc = "rollback" /\ b = local.status.arn)
    BY <1>5 DEF UnsavedInv
  <1>9. ~(pc = "purge" /\ b = cur)
    BY <1>1, <1>4 DEF TrackedInv, PurgeInv, SavedSteps
  <1>10. \A r \in Replica : ~(job[r].pc = "delete" /\ job[r].arn = b)
    BY <1>1 DEF TrackedInv, JobsInv, JobOK, NotInUse
  <1>11. QED
    BY <1>6, <1>7, <1>8, <1>9, <1>10 DEF Killed

\* The sites of the faults that are excluded from here on.
InUseLost == GivingUp \cup {"outside"}

SpareInv == InUseInv /\ UnsavedInv /\ StatusArnLive

LEMMA SpareInit == Init => SpareInv
  <1> SUFFICES ASSUME Init PROVE SpareInv
    OBVIOUS
  <1>1. LifecycleInv /\ pc = "idle" /\ created = FALSE
    BY LifecycleInvInit DEF Init, ReconcilerInit
  <1>2. \A k \in Key : ~certs[k].exists
    BY DEF Init, KubeInit, Gone
  <1>3. SavedInv /\ CopyLiveInv /\ DeletingAlone /\ UnsavedInv
    BY <1>1 DEF SavedInv, CopyLiveInv, DeletingAlone, UnsavedInv, SavedSteps,
       AcquiredSteps, DeletingSteps
  <1>4. HeldAlone /\ StatusArnLive
    BY <1>2 DEF HeldAlone, Held, StatusArnLive
  <1>5. QED
    BY <1>1, <1>3, <1>4 DEF SpareInv, InUseInv

\* Where the ARN in a status comes from when an object counts on it.
LEMMA LiveStep ==
  ASSUME SpareInv, TrackedInv', Next, "outside" \notin FaultSites,
         NEW k \in Key, certs'[k].exists, ~certs'[k].deleting, certs'[k].status.arn # NoArn
  PROVE  certs'[k].status.arn \in LiveArns'
  <1>1. TrackedInv /\ StatusStep(k) /\ InUseInv /\ UnsavedInv
    BY StatusNext DEF SpareInv, InUseInv, LifecycleInv
  <1>2. Held(certs'[k])
    <2>1. VersionTagged(k, certs[k])'
      BY DEF TrackedInv, TagInv, Versions
    <2>2. QED
      BY <2>1 DEF VersionTagged, Held
  <1>3. certs'[k].status # EmptyStatus
    <2>1. EmptyStatus.arn = NoArn
      BY DEF EmptyStatus
    <2>2. QED
      BY <2>1
  <1>4. CASE certs'[k].status = certs[k].status
    <2>1. VersionTagged(k, certs[k])
      BY <1>1 DEF TrackedInv, TagInv, Versions
    <2>2. certs[k].exists
      BY <1>4, <2>1 DEF VersionTagged
    <2>3. Held(certs[k]) \/ Adopted(k)
      BY <1>1, <1>2, HeldNext DEF InUseInv
    <2>4. ~certs[k].deleting
      BY <2>3 DEF Held, Adopted, Versions
    <2>5. certs[k].status.arn \in LiveArns
      BY <1>4, <2>2, <2>4 DEF SpareInv, StatusArnLive
    <2>6. QED
      BY <1>1, <1>4, <2>2, <2>4, <2>5, InUseSpared
  <1>5. CASE /\ certs'[k].status = local.status
             /\ pc \in SavingSteps /\ UNCHANGED acmVars
    <2>1. local.status.arn \in LiveArns
      BY <1>1, <1>5 DEF InUseInv, CopyLiveInv, SavingSteps, AcquiredSteps, TrackedInv, LocalInv
    <2>2. QED
      BY <1>5, <2>1 DEF acmVars, LiveArns
  <1>6. QED
    BY <1>1, <1>3, <1>4, <1>5 DEF StatusStep

LEMMA SpareStep ==
  ASSUME FaultSites \cap InUseLost = {}, SpareInv, [Next]_vars
  PROVE  SpareInv'
  <1>1. InUseInv /\ UnsavedInv /\ LifecycleInv /\ TrackedInv
    BY DEF SpareInv, InUseInv, LifecycleInv
  <1>2. LifecycleInv' /\ TrackedInv'
    BY <1>1, LifecycleInvStep DEF LifecycleInv
  <1>3. "outside" \notin FaultSites /\ FaultSites \cap GivingUp = {}
    BY DEF InUseLost
  <1>4. CASE Next
    <2>1. SavedInv' /\ CopyLiveInv' /\ HeldAlone' /\ DeletingAlone'
      BY <1>1, <1>3, <1>4, SavedStep, CopyLiveStep, HeldAloneStep, DeletingAloneStep
      DEF InUseInv
    <2>2. UnsavedInv'
      BY <1>1, <1>3, <1>4, UnsavedStep
    <2>3. StatusArnLive'
      BY <1>2, <1>3, <1>4, LiveStep DEF StatusArnLive
    <2>4. QED
      BY <1>2, <2>1, <2>2, <2>3 DEF SpareInv, InUseInv
  <1>5. CASE UNCHANGED vars
    <2>1. UNCHANGED <<certs, events, cache, acm, pc, key, local, created>>
      BY <1>5 DEF vars, acmVars, kubeVars, workerVars, locals
    <2>2. SavedInv' /\ CopyLiveInv' /\ UnsavedInv' /\ StatusArnLive'
      BY <1>1, <2>1 DEF InUseInv, SpareInv, SavedInv, CopyLiveInv, UnsavedInv,
         StatusArnLive, LiveArns
    <2>3. HeldAlone' /\ DeletingAlone'
      BY <1>1, <2>1 DEF InUseInv, HeldAlone, DeletingAlone, Held, Versions
    <2>4. QED
      BY <1>2, <2>2, <2>3 DEF SpareInv, InUseInv
  <1>6. QED
    BY <1>4, <1>5

LEMMA SpareAlways ==
  ASSUME FaultSites \cap InUseLost = {}
  PROVE  Spec => []SpareInv
  <1>1. SpareInv /\ [Next]_vars => SpareInv'
    BY SpareStep
  <1>2. QED
    BY <1>1, SpareInit, PTL DEF Spec

\* Through crashes of any replica, stale copies, and calls that fail or lose
\* their answers at every other site: the ARN in the status of a Certificate
\* that is not being deleted is one that ACM has.  The sites of GivingUp are
\* excluded because there the code itself deletes what it has just saved
\* (Reconcile, lines 178-215).
THEOREM StatusArnLiveAlways ==
  ASSUME FaultSites \cap InUseLost = {}
  PROVE  Spec => []StatusArnLive
  <1>1. SpareInv => StatusArnLive
    BY DEF SpareInv
  <1>2. QED
    BY <1>1, SpareAlways, PTL

-----------------------------------------------------------------------------
(***************************************************************************)
(* The strict lifecycle.  A step of the lossy one is a step of it when the *)
(* ARN that is saved is there and the ARN that is retired is not in use.   *)
(***************************************************************************)
StrictShows == Strict!LifecycleNext \/ (Objects' = Objects /\ Live' = Live)

\* updateWithStatus saves an ARN of this Certificate that ACM has.
LEMMA SavesLive ==
  ASSUME SpareInv, Next, NEW k \in Key
  PROVE  certs'[k].status.arn \in {certs[k].status.arn, NoArn} \cup OursFor(k)
  <1>1. TrackedInv /\ StatusStep(k) /\ CopyLiveInv
    BY StatusNext DEF SpareInv, InUseInv, LifecycleInv
  <1>2. EmptyStatus.arn = NoArn
    BY DEF EmptyStatus
  <1>3. CASE certs'[k].status = local.status /\ k = key /\ pc \in SavingSteps
    <2>1. local.status.arn \in LiveArns \cup {NoArn}
      BY <1>1, <1>3 DEF CopyLiveInv, SavingSteps, AcquiredSteps, TrackedInv, LocalInv
    <2>2. Tagged(key, local.status.arn)
      BY <1>1, <1>3 DEF TrackedInv, LocalInv, SavingSteps
    <2>3. QED
      BY <1>3, <2>1, <2>2 DEF Tagged, OursFor
  <1>4. QED
    BY <1>1, <1>2, <1>3 DEF StatusStep

\* What an object counts on remains its own.
LEMMA InUseStays ==
  ASSUME SpareInv, Next, "outside" \notin FaultSites, NEW k \in Key, NEW a \in OursFor(k),
         certs[k].exists, ~certs[k].deleting, certs[k].status.arn = a
  PROVE  a \in OursFor(k)'
  <1>1. TrackedInv /\ InUseInv /\ UnsavedInv
    BY DEF SpareInv, InUseInv, LifecycleInv
  <1>2. a \in LiveArns /\ a \in 1 .. nreq
    BY <1>1 DEF OursFor, TrackedInv, BornInv
  <1>3. a \in LiveArns'
    BY <1>1, <1>2, InUseSpared
  <1>4. acm'[a].key = acm[a].key /\ acm'[a].owner = acm[a].owner
    BY <1>1, <1>2, ArnNext DEF ArnStep
  <1>5. QED
    BY <1>3, <1>4 DEF OursFor

LEMMA TrackStrict ==
  ASSUME SpareInv, Next, NEW k \in Key, NEW a \in Arn \cup {NoArn}, Weak!Track(k, a)
  PROVE  StrictShows
  <1> DEFINE o == [Objects[k] EXCEPT !.arn = a]
  <1>1. Objects' = [Objects EXCEPT ![k] = o] /\ Live' = Live /\ Weak!Protected(k)
    BY DEF Weak!Track, Weak!Become
  <1>2. /\ Objects[k] = View(certs[k]) /\ Objects[k].arn = certs[k].status.arn
        /\ Objects'[k].arn = certs'[k].status.arn
    BY DEF Objects, View
  <1>3. o.arn = a
    BY <1>2 DEF View
  <1>4. Objects'[k] = o
    BY <1>1 DEF Objects
  <1>5. a \in {Objects[k].arn, NoArn} \cup Live[k]
    BY <1>2, <1>3, <1>4, SavesLive DEF Live
  <1>6. CASE a = Objects[k].arn
    <2>1. o = Objects[k]
      BY <1>2, <1>6 DEF View
    <2>2. Objects' = Objects
      BY <1>1, <2>1 DEF Objects
    <2>3. QED
      BY <1>1, <2>2 DEF StrictShows
  <1>7. CASE a \in Live[k] \cup {NoArn}
    <2>1. Strict!Track(k, a)
      BY <1>1, <1>7 DEF Strict!Track, Strict!Become, Strict!Protected, Weak!Protected
    <2>2. QED
      BY <2>1 DEF StrictShows, Strict!LifecycleNext
  <1>8. QED
    BY <1>5, <1>6, <1>7

LEMMA RetireStrict ==
  ASSUME SpareInv, Next, "outside" \notin FaultSites,
         NEW k \in Key, NEW a \in Arn \cup {NoArn}, Weak!Retire(k, a)
  PROVE  StrictShows
  <1>1. Live' = [Live EXCEPT ![k] = Live[k] \ {a}] /\ Objects' = Objects
    BY DEF Weak!Retire, Weak!Hold
  <1>2. Live[k] = OursFor(k) /\ Live'[k] = OursFor(k)'
    BY DEF Live
  <1>3. CASE a \notin Live[k]
    <2>1. Live[k] \ {a} = Live[k]
      BY <1>3
    <2>2. Live' = Live
      BY <1>1, <2>1 DEF Live
    <2>3. QED
      BY <1>1, <2>2 DEF StrictShows
  <1>4. CASE a \in Live[k]
    <2>1. a \notin OursFor(k)'
      BY <1>1, <1>2 DEF Live
    <2>2. ~Strict!InUse(k, a)
      BY <1>2, <1>4, <2>1, InUseStays, Viewed DEF Strict!InUse
    <2>3. Strict!Retire(k, a)
      BY <1>1, <2>2 DEF Strict!Retire, Strict!Hold
    <2>4. QED
      BY <2>3 DEF StrictShows, Strict!LifecycleNext
  <1>5. QED
    BY <1>3, <1>4

LEMMA StepShowsStrict ==
  ASSUME SpareInv, [Next]_vars, "outside" \notin FaultSites
  PROVE  [Strict!LifecycleNext]_(Strict!lifecycleVars)
  <1> SUFFICES StrictShows
    BY DEF StrictShows, Strict!lifecycleVars
  <1>1. CASE UNCHANGED vars
    BY <1>1, QuietObjects, QuietLive DEF StrictShows, vars, acmVars, kubeVars
  <1>2. CASE Next
    <2>1. CASE Objects' = Objects /\ Live' = Live
      BY <2>1 DEF StrictShows
    <2>2. ASSUME NEW k \in Key,
                 Weak!Create(k) \/ Weak!Drop(k) \/ Weak!Protect(k) \/ Weak!Mark(k)
                 \/ Weak!Release(k)
          PROVE  StrictShows
      <3>1. \/ Strict!Create(k) \/ Strict!Drop(k) \/ Strict!Protect(k) \/ Strict!Mark(k)
            \/ Strict!Release(k)
        BY <2>2 DEF Weak!Create, Weak!Drop, Weak!Protect, Weak!Mark, Weak!Release,
           Weak!Become, Weak!Protected, Weak!Absent, Strict!Create, Strict!Drop,
           Strict!Protect, Strict!Mark, Strict!Release, Strict!Become,
           Strict!Protected, Strict!Absent
      <3>2. QED
        BY <3>1 DEF StrictShows, Strict!LifecycleNext
    <2>3. ASSUME NEW k \in Key, NEW a \in Arn \cup {NoArn}, Weak!Request(k, a)
          PROVE  StrictShows
      <3>1. Strict!Request(k, a)
        BY <2>3 DEF Weak!Request, Weak!Hold, Weak!Protected,
           Strict!Request, Strict!Hold, Strict!Protected
      <3>2. QED
        BY <3>1 DEF StrictShows, Strict!LifecycleNext
    <2>4. [Weak!LifecycleNext]_(Weak!lifecycleVars)
      BY StepShows DEF SpareInv, InUseInv
    <2>5. QED
      BY <1>2, <2>1, <2>2, <2>3, <2>4, TrackStrict, RetireStrict
      DEF Weak!LifecycleNext, Weak!lifecycleVars
  <1>3. QED
    BY <1>1, <1>2

\* With the same faults excluded, the detailed system takes only the steps
\* of the strict lifecycle: the status takes over only ARNs that ACM has,
\* and no ACM certificate goes while its Certificate counts on it, whoever
\* deletes it (Reconcile, cleanupACMCertificates,
\* cleanupOrphanACMCertificates).
THEOREM ManagerImplementsLifecycle ==
  ASSUME FaultSites \cap InUseLost = {}
  PROVE  Spec => ImplementsLifecycle
  <1>1. Init => Strict!LifecycleInit
    BY InitShows DEF Weak!LifecycleInit, Weak!Absent, Strict!LifecycleInit, Strict!Absent
  <1>2. SpareInv /\ [Next]_vars => [Strict!LifecycleNext]_(Strict!lifecycleVars)
    BY StepShowsStrict DEF InUseLost
  <1>3. QED
    BY <1>1, <1>2, SpareAlways, PTL DEF Spec, ImplementsLifecycle, Strict!LifecycleSpec
=============================================================================
