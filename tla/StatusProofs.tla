---------------------------- MODULE StatusProofs ----------------------------
(***************************************************************************)
(* What a status says of its ARN is true, for every value of the           *)
(* constants and under every fault.                                        *)
(*                                                                         *)
(* StatusDescribesArn speaks of the stored statuses.  Those are written    *)
(* from the copy of a reconcile, which was read from the cache, possibly   *)
(* long ago: the invariant therefore holds of every version that somebody  *)
(* may still read and of the copy itself (DescribedInv).  It survives      *)
(* because an ACM certificate never changes its names and, once issued,    *)
(* has been issued for good, also after its deletion (AcmFacts).           *)
(***************************************************************************)
EXTENDS TrackedProofs

\* What a status may say.
Described(status) ==
    /\ status.records # {} =>
         status.arn # NoArn /\ status.records \subseteq acm[status.arn].names
    /\ status.state = "Issued" =>
         /\ status.arn # NoArn
         /\ acm[status.arn].issued
         /\ status.dates = status.arn

DescribedInv ==
    /\ \A k \in Key : \A o \in Versions(k) : Described(o.status)
    /\ pc # "idle" => Described(local.status)

IssuedInv == \A a \in Arn : acm[a].st = "ISSUED" => acm[a].issued

StatusInv == TrackedInv /\ IssuedInv /\ DescribedInv

-----------------------------------------------------------------------------
(***************************************************************************)
(* What a step does to an ACM certificate that exists: the names stay, and *)
(* what has been issued has been issued.                                   *)
(***************************************************************************)
AcmFacts ==
    /\ \A a \in 1 .. nreq : /\ acm'[a].names = acm[a].names
                            /\ acm[a].issued => acm'[a].issued
    /\ IssuedInv'

\* The ARNs handed out are among the ARNs of the model.
LEMMA HandedOut ==
  ASSUME AcmTypeOK, NEW a \in 1 .. nreq
  PROVE  a \in Arn /\ a # nreq + 1 /\ a # NoArn
  BY MaxRequestsNat DEF AcmTypeOK, Arn, NoArn

\* requestACMCertificate: the new certificate is not issued yet.
LEMMA FactsRequest ==
  ASSUME AcmTypeOK, IssuedInv, NEW k, NEW spec, RequestCertificate(k, spec)
  PROVE  AcmFacts
  <1>1. nreq + 1 \in Arn /\ acm \in [Arn -> AcmCertificate]
    BY MaxRequestsNat DEF RequestCertificate, AcmTypeOK, Arn
  <1>2. \A a \in Arn \ {nreq + 1} : acm'[a] = acm[a]
    BY <1>1 DEF RequestCertificate
  <1>3. acm'[nreq + 1].st = "PENDING_VALIDATION"
    BY <1>1 DEF RequestCertificate, NewAcmCertificate
  <1>4. IssuedInv'
    BY <1>2, <1>3 DEF IssuedInv
  <1>5. QED
    BY <1>2, <1>4, HandedOut DEF AcmFacts

\* deleteACMCertificate: names and dates remain known of what is gone.
LEMMA FactsDelete ==
  ASSUME AcmTypeOK, IssuedInv, NEW a, DeleteCertificate(a)
  PROVE  AcmFacts
  <1>1. acm \in [Arn -> AcmCertificate]
    BY DEF AcmTypeOK
  <1>2. \A b \in Arn : /\ acm'[b].names = acm[b].names
                       /\ acm'[b].issued = acm[b].issued
                       /\ acm'[b].st \in {acm[b].st, "deleted"}
    BY <1>1 DEF DeleteCertificate, AcmCertificate
  <1>3. IssuedInv'
    BY <1>2 DEF IssuedInv
  <1>4. QED
    BY <1>2, <1>3, HandedOut DEF AcmFacts

\* ACM's own steps: only Issue makes a certificate issued, and says so.
LEMMA FactsAcm ==
  ASSUME AcmTypeOK, IssuedInv, Acm
  PROVE  AcmFacts
  <1> PICK a \in Arn : \/ RecordsReady(a)
                      \/ Issue(a, Published)
                      \/ \E s \in AcmStatus : Lapse(a, s)
    BY DEF Acm
  <1>1. acm \in [Arn -> AcmCertificate] /\ acm[a] \in AcmCertificate
    BY DEF AcmTypeOK
  <1>2. \A b \in Arn \ {a} : acm'[b] = acm[b]
    BY <1>1 DEF RecordsReady, Issue, Lapse
  <1>3. \/ acm'[a] = [acm[a] EXCEPT !.ready = TRUE]
        \/ acm'[a] = [acm[a] EXCEPT !.st = "ISSUED", !.issued = TRUE]
        \/ \E s \in {"VALIDATION_TIMED_OUT", "FAILED", "EXPIRED", "REVOKED", "INACTIVE"} :
              acm'[a] = [acm[a] EXCEPT !.st = s]
    BY <1>1 DEF RecordsReady, Issue, Lapse
  <1>4. /\ acm'[a].names = acm[a].names
        /\ acm[a].issued => acm'[a].issued
        /\ acm'[a].st = "ISSUED" => acm'[a].issued
    BY <1>1, <1>3 DEF AcmCertificate, IssuedInv
  <1>5. IssuedInv'
    BY <1>2, <1>4 DEF IssuedInv
  <1>6. QED
    BY <1>2, <1>4, <1>5, HandedOut DEF AcmFacts

LEMMA FactsNext ==
  ASSUME TrackedInv, IssuedInv, Next
  PROVE  AcmFacts
  <1>1. AcmTypeOK /\ FinalizerInv
    BY Types DEF TrackedInv
  <1>2. CASE UNCHANGED acmVars
    BY <1>2 DEF acmVars, AcmFacts, IssuedInv
  <1>3. CASE \E a : DeleteCertificate(a)
    BY <1>1, <1>3, FactsDelete
  <1>4. CASE \E spec : RequestCertificate(key, spec)
    BY <1>1, <1>4, FactsRequest
  <1>5. QED
    BY <1>1, <1>2, <1>3, <1>4, DeletesOurs, FactsAcm

\* What is said of an ARN that was handed out stays true.
LEMMA DescribedKept ==
  ASSUME AcmFacts, NEW k, NEW status, Tagged(k, status.arn), Described(status)
  PROVE  Described(status)'
  BY DEF AcmFacts, Tagged, Described

-----------------------------------------------------------------------------
(***************************************************************************)
(* Where the statuses come from.                                           *)
(***************************************************************************)

\* The calls that write the status of the copy.
SavingSteps == {"addFinalizer", "saveError", "save1", "save2"}

\* A stored status is that of a new or absent object, the one before, or
\* saved from the copy a reconcile of the object works with.
StatusStep(k) ==
    \/ /\ certs'[k].status = EmptyStatus
       /\ ~(k = key /\ pc \in WorkingSteps)
    \/ certs'[k].status = certs[k].status
    \/ /\ certs'[k].status = local.status
       /\ k = key /\ pc \in SavingSteps /\ pc' # pc
       /\ UNCHANGED acmVars

\* The reconciler's writes (r.Update, updateWithStatus).
LEMMA StatusWorker ==
  ASSUME TrackedInv, Worker, NEW k \in Key
  PROVE  StatusStep(k)
  <1>1. /\ KubeTypeOK /\ key \in Key /\ local \in Certificate
        /\ local.status \in StatusType /\ certs[key] \in Certificate
    BY Types DEF TrackedInv
  <1>2. CASE certs' = certs
    BY <1>2 DEF StatusStep
  <1>3. ASSUME NEW o \in Certificate, Write(key, o), cache' = cache,
               \/ o.status = EmptyStatus /\ pc \notin WorkingSteps
               \/ /\ o.status = local.status
                  /\ pc \in SavingSteps /\ pc' # pc /\ UNCHANGED acmVars
        PROVE  StatusStep(k)
    <2>1. /\ k # key => certs'[k] = certs[k]
          /\ k = key => certs'[k].status = o.status
      BY <1>1, <1>3, WriteVersions
    <2>2. QED
      BY <1>3, <2>1 DEF StatusStep
  <1>4. CASE SaveError \/ Save1 \/ Save2
    <2> DEFINE o == [certs[key] EXCEPT !.status = local.status]
    <2>1. /\ pc \in SavingSteps /\ pc' # pc /\ cache' = cache /\ UNCHANGED acmVars
          /\ NoWrite \/ ApplyStatus(key, local.status)
      BY <1>4 DEF SaveError, Save1, Save2, Save, Return, Goto, Abort, SavingSteps
    <2>2. o \in Certificate /\ o.status = local.status
      BY <1>1, WithStatusType DEF Certificate
    <2>3. CASE NoWrite
      BY <1>2, <2>3 DEF NoWrite
    <2>4. CASE Write(key, o)
      BY <1>3, <2>1, <2>2, <2>4
    <2>5. QED
      BY <2>1, <2>3, <2>4 DEF ApplyStatus
  <1>5. CASE AddFinalizer
    <2> DEFINE o == [local EXCEPT !.finalizer = TRUE]
    <2>1. o \in Certificate /\ o.status = local.status
      BY <1>1 DEF Certificate
    <2>2. /\ pc \in SavingSteps /\ pc' # pc /\ cache' = cache /\ UNCHANGED acmVars
          /\ NoWrite \/ Write(key, o)
      BY <1>5 DEF AddFinalizer, Return, GotoWith, AcquireStep, SavingSteps
    <2>3. CASE NoWrite
      BY <1>2, <2>3 DEF NoWrite
    <2>4. CASE Write(key, o)
      <3> HIDE DEF o
      <3>1. QED
        BY <1>3, <2>1, <2>2, <2>4
    <2>5. QED
      BY <2>2, <2>3, <2>4
  <1>6. CASE RemoveFinalizer
    <2>1. Gone(0) \in Certificate /\ Gone(0).status = EmptyStatus
      BY GoneType DEF Gone
    <2>2. pc \notin WorkingSteps /\ cache' = cache /\ (NoWrite \/ Write(key, Gone(0)))
      BY <1>6 DEF RemoveFinalizer, WorkingSteps
    <2>3. QED
      BY <1>2, <1>3, <2>1, <2>2 DEF NoWrite
  <1>7. CASE \/ \E n \in Key : Start(n)
             \/ DeleteAcm \/ Request \/ Compare \/ UpdateCertificateInfo \/ Rollback
             \/ SyncDNSEndpoints \/ ListForCleanup \/ CleanupTags \/ CleanupPurge
    BY <1>2, <1>7 DEF Start, DeleteAcm, Request, Compare, UpdateCertificateInfo,
       Rollback, SyncDNSEndpoints, ListForCleanup, CleanupTags, CleanupPurge
  <1>8. QED
    BY <1>4, <1>5, <1>6, <1>7 DEF Worker, ReconcileStep

\* Users leave the status alone: it is a subresource.
LEMMA StatusUser ==
  ASSUME TrackedInv, User, NEW k \in Key
  PROVE  StatusStep(k)
  <1>1. KubeTypeOK /\ cache' = cache /\ FinalizerHeld
    BY Types, UserWrite DEF TrackedInv, UserOp, FinalizerInv
  <1>2. PICK n \in Key : \/ \E spec \in Specs : CreateCertificate(n, spec)
                         \/ \E spec \in Specs : ChangeSpec(n, spec)
                         \/ DeleteCertificateObject(n)
    BY DEF User
  <1>3. certs[n] \in Certificate /\ certs[n].rv + 1 \in Nat
    BY Types, VersionType DEF TrackedInv
  <1>4. ASSUME NEW o \in Certificate, Write(n, o),
               \/ o.status = EmptyStatus /\ ~Pinned(n)
               \/ o.status = certs[n].status
        PROVE  StatusStep(k)
    <2>1. /\ k # n => certs'[k] = certs[k]
          /\ k = n => certs'[k].status = o.status
      BY <1>1, <1>4, WriteVersions
    <2>2. QED
      BY <1>1, <1>4, <2>1 DEF StatusStep, FinalizerHeld, Pinned
  <1>5. ASSUME NEW spec \in Specs, CreateCertificate(n, spec) PROVE StatusStep(k)
    <2> DEFINE o == Fresh(certs[n].rv + 1, spec)
    <2>1. o \in Certificate /\ o.status = EmptyStatus
      BY <1>3, FreshType DEF Fresh
    <2>2. QED
      BY <1>4, <1>5, <2>1 DEF CreateCertificate, Pinned
  <1>6. ASSUME NEW spec \in Specs, ChangeSpec(n, spec) PROVE StatusStep(k)
    <2> DEFINE o == [certs[n] EXCEPT !.spec = spec]
    <2>1. o \in Certificate /\ o.status = certs[n].status
      BY <1>3 DEF Certificate
    <2>2. QED
      BY <1>4, <1>6, <2>1 DEF ChangeSpec
  <1>7. ASSUME DeleteCertificateObject(n) PROVE StatusStep(k)
    <2> DEFINE o == [certs[n] EXCEPT !.deleting = TRUE]
    <2>1. o \in Certificate /\ o.status = certs[n].status
      BY <1>3 DEF Certificate
    <2>2. Gone(0) \in Certificate /\ Gone(0).status = EmptyStatus
      BY GoneType DEF Gone
    <2>3. QED
      BY <1>4, <1>7, <2>1, <2>2 DEF DeleteCertificateObject, Pinned
  <1>8. QED
    BY <1>2, <1>5, <1>6, <1>7

LEMMA StatusNext ==
  ASSUME TrackedInv, Next, NEW k \in Key
  PROVE  StatusStep(k)
  <1>1. CASE certs' = certs
    BY <1>1 DEF StatusStep
  <1>2. CASE Job \/ Kube \/ Acm
    BY <1>1, <1>2 DEF Job, JobStep, JobList, JobListFails, JobTags, JobGet, JobDelete,
       Acm, kubeVars, Kube, WatchDeliver, Resync, CollectDns
  <1>3. CASE Environment
    <2>1. certs' = certs
      BY <1>3, Zenon DEF Environment, OutsideDelete, Crash, kubeVars
    <2>2. QED
      BY <1>1, <2>1
  <1>4. QED
    BY <1>2, <1>3, StatusWorker, StatusUser DEF Next

-----------------------------------------------------------------------------
(***************************************************************************)
(* What the copy of a reconcile says.                                      *)
(***************************************************************************)

\* The conversion gives Issued for ISSUED only (convertFrom).
LEMMA IssuedState ==
  ASSUME NEW st, convertFrom(st) = "Issued"
  PROVE  st = "ISSUED"
  BY DEF convertFrom

\* A new request: nothing is said of the new certificate yet, and no records
\* are left of the one before; the state Requested says nothing of the
\* dates, which stay (requestACMCertificate, line 173).
LEMMA RequestDescribes ==
  ASSUME NEW status \in StatusType, Described(status), NEW a
  PROVE  Described(Requested(status, a))'
  <1> DEFINE new == Requested(status, a)
  <1>1. new.state = "Requested" /\ new.records = IF status.arn = NoArn THEN status.records ELSE {}
    BY DEF Requested, StatusType
  <1>2. new.records = {}
    BY <1>1 DEF Described
  <1>3. QED
    BY <1>1, <1>2 DEF Described

\* The detail of a certificate that ACM has (updateCertificateInfo).
LEMMA DetailDescribes ==
  ASSUME AcmTypeOK, IssuedInv, NEW status \in StatusType, status.arn \in LiveArns,
         NEW records \in {{}, acm[status.arn].names}
  PROVE  Described(WithDetail(status, status.arn, records))
  <1> DEFINE a == status.arn
             new == WithDetail(status, a, records)
  <1>1. new.arn = a /\ new.records = records /\ new.state = convertFrom(acm[a].st)
    BY DEF WithDetail, StatusType
  <1>2. a \in Arn /\ a # NoArn
    BY MaxRequestsNat DEF LiveArns, Arn, NoArn
  <1>3. new.state = "Issued" => acm[a].issued
    BY <1>1, <1>2, IssuedState DEF IssuedInv
  <1>4. acm[a].issued => new.dates = a
    BY DEF WithDetail, StatusType
  <1>5. QED
    BY <1>1, <1>2, <1>3, <1>4 DEF Described

\* The copy is dropped, left with a status it had or that was read, or
\* changed by one of the two functions above.
LEMMA CopyWorker ==
  ASSUME StatusInv, Worker, pc' # "idle"
  PROVE  Described(local.status)'
  <1>1. /\ AcmTypeOK /\ local \in Certificate /\ local.status \in StatusType
        /\ TrackedInv /\ IssuedInv /\ AcmFacts
    BY Types, FactsNext DEF StatusInv, TrackedInv, Next
  <1>2. pc # "idle" => Described(local.status) /\ Tagged(key, local.status.arn)
    BY DEF StatusInv, DescribedInv, TrackedInv, LocalInv
  <1>3. ASSUME pc # "idle", local'.status = local.status PROVE Described(local.status)'
    <2>1. PICK status : status = local.status /\ status = local'.status
      BY <1>3
    <2>2. Described(status)'
      BY <1>1, <1>2, <1>3, <2>1, DescribedKept
    <2>3. QED
      BY <2>1, <2>2 DEF Described
  <1>4. CASE \E n \in Key : Start(n)
    <2> PICK n \in Key : Start(n)
      BY <1>4
    <2>1. local' = cache[n]
      BY DEF Start
    <2>2. Described(cache[n].status) /\ Tagged(n, cache[n].status.arn)
      BY DEF StatusInv, DescribedInv, Versions, TrackedInv, TagInv, VersionTagged
    <2>3. PICK status : status = cache[n].status /\ status = local'.status
      BY <2>1
    <2>4. Described(status)'
      BY <1>1, <2>2, <2>3, DescribedKept
    <2>5. QED
      BY <2>3, <2>4 DEF Described
  <1>5. CASE Request
    <2>1. CASE local' = [local EXCEPT !.status.state = "Error"]
      <3>1. /\ local'.status.state = "Error" /\ local'.status.arn = local.status.arn
            /\ local'.status.records = local.status.records
        BY <1>1, <2>1 DEF Certificate, StatusType
      <3>2. PICK status : status = local.status
        OBVIOUS
      <3>3. Described(status)'
        BY <1>1, <1>2, <1>5, <3>2, DescribedKept DEF Request
      <3>4. QED
        BY <3>1, <3>2, <3>3 DEF Described
    <2>2. CASE local' = [local EXCEPT !.status = Requested(local.status, nreq + 1)]
      <3>1. local'.status = Requested(local.status, nreq + 1)
        BY <1>1, <2>2 DEF Certificate
      <3>2. PICK status, a : status \in StatusType /\ status = local.status /\ a = nreq + 1
        BY <1>1
      <3>3. Described(Requested(status, a))'
        BY <1>2, <1>5, <3>2, RequestDescribes DEF Request
      <3>4. QED
        BY <3>1, <3>2, <3>3 DEF Described
    <2>3. QED
      BY <1>5, <2>1, <2>2 DEF Request, GotoWith
  <1>6. CASE UpdateCertificateInfo
    <2>1. ASSUME NEW records \in {{}, acm[local.status.arn].names},
                 local.status.arn \in LiveArns,
                 local' = [local EXCEPT !.status =
                             WithDetail(local.status, local.status.arn, records)]
          PROVE  Described(local.status)'
      <3> DEFINE new == WithDetail(local.status, local.status.arn, records)
      <3>1. local'.status = new /\ acm' = acm
        BY <1>1, <1>6, <2>1 DEF Certificate, UpdateCertificateInfo, acmVars
      <3>2. Described(new)
        BY <1>1, <2>1, DetailDescribes
      <3>3. QED
        BY <3>1, <3>2 DEF Described
    <2>2. QED
      BY <1>3, <1>6, <2>1 DEF UpdateCertificateInfo, Abort, Goto, GotoWith, Return, locals
  <1>7. CASE AddFinalizer
    <2> DEFINE o == [local EXCEPT !.finalizer = TRUE]
    <2>1. Stored(key, o).status = local.status
      BY <1>1 DEF Stored, Certificate
    <2>2. QED
      BY <1>3, <1>7, <2>1 DEF AddFinalizer, GotoWith, Return
  <1>8. CASE \/ DeleteAcm \/ RemoveFinalizer \/ SaveError \/ Compare \/ Save1 \/ Save2
             \/ Rollback \/ SyncDNSEndpoints \/ ListForCleanup \/ CleanupTags
             \/ CleanupPurge
    <2>1. pc # "idle" /\ local' = local
      BY <1>8 DEF DeleteAcm, RemoveFinalizer, SaveError, Compare, Save1, Save2, Save,
         Rollback, SyncDNSEndpoints, ListForCleanup, CleanupTags, CleanupPurge, Return,
         Goto, Abort, locals
    <2>2. QED
      BY <1>3, <2>1
  <1>9. QED
    BY <1>4, <1>5, <1>6, <1>7, <1>8 DEF Worker, ReconcileStep

-----------------------------------------------------------------------------
LEMMA StatusInvInit == Init => StatusInv
  <1> SUFFICES ASSUME Init PROVE StatusInv
    OBVIOUS
  <1>1. TrackedInv
    BY TrackedInit
  <1>2. IssuedInv
    <2>1. PICK k \in Key : acm = [b \in Arn |-> IF b <= NForeign
                                                   THEN NewAcmCertificate("other", k, "", {})
                                                   ELSE Unborn(k)]
      BY DEF Init, AcmInit
    <2>2. /\ NewAcmCertificate("other", k, "", {}).st = "PENDING_VALIDATION"
          /\ Unborn(k).st = "unborn"
      BY DEF NewAcmCertificate, Unborn
    <2>3. QED
      BY <2>1, <2>2 DEF IssuedInv
  <1>3. ASSUME NEW k \in Key, NEW o \in Versions(k) PROVE Described(o.status)
    <2>1. certs[k] = Gone(0) /\ cache[k] = Gone(0) /\ events[k] = <<>> /\ Len(<<>>) = 0
      BY DEF Init, KubeInit
    <2>2. o = Gone(0)
      BY <2>1 DEF Versions
    <2>3. QED
      BY <2>2 DEF Described, Gone, EmptyStatus
  <1>4. pc = "idle"
    BY DEF Init, ReconcilerInit
  <1>5. QED
    BY <1>1, <1>2, <1>3, <1>4 DEF StatusInv, DescribedInv

LEMMA StatusInvStep == StatusInv /\ [Next]_vars => StatusInv'
  <1> SUFFICES ASSUME StatusInv, [Next]_vars PROVE StatusInv'
    OBVIOUS
  <1>1. TrackedInv /\ IssuedInv /\ TrackedInv'
    BY TrackedStep DEF StatusInv
  <1>2. CASE Next
    <2>1. AcmFacts
      BY <1>1, <1>2, FactsNext
    <2>2. ASSUME NEW k \in Key, NEW o \in Versions(k)' PROVE Described(o.status)'
      <3>1. ASSUME NEW n, NEW status, Tagged(n, status.arn), Described(status)
            PROVE  Described(status)'
        BY <2>1, <3>1, DescribedKept
      <3>2. CASE o \in Versions(k)
        BY <3>1, <3>2 DEF StatusInv, DescribedInv, TrackedInv, TagInv, VersionTagged
      <3>3. CASE o = certs'[k]
        <4>1. CASE certs'[k].status = EmptyStatus
          <5>1. o.status = EmptyStatus
            BY <3>3, <4>1
          <5>2. EmptyStatus.records = {} /\ EmptyStatus.state = ""
            BY DEF EmptyStatus
          <5>3. QED
            BY <5>1, <5>2 DEF Described
        <4>2. CASE certs'[k].status = certs[k].status
          BY <3>1, <3>3, <4>2 DEF StatusInv, DescribedInv, TrackedInv, TagInv,
             VersionTagged, Versions
        <4>3. CASE k = key /\ pc \in SavingSteps /\ certs'[k].status = local.status
          BY <3>1, <3>3, <4>3 DEF StatusInv, DescribedInv, TrackedInv, LocalInv, SavingSteps
        <4>4. QED
          BY <1>1, <1>2, <4>1, <4>2, <4>3, StatusNext DEF StatusStep
      <3>4. QED
        BY <1>1, <1>2, <3>2, <3>3, StoreNext DEF StoreStep
    <2>3. ASSUME pc' # "idle" PROVE Described(local.status)'
      <3>1. CASE Worker
        BY <2>3, <3>1, CopyWorker
      <3>2. CASE UNCHANGED <<pc, key, local>>
        <4>1. Described(local.status) /\ Tagged(key, local.status.arn)
          BY <2>3, <3>2 DEF StatusInv, DescribedInv, TrackedInv, LocalInv
        <4>2. PICK status : status = local.status /\ status = local'.status
          BY <3>2
        <4>3. Described(status)'
          BY <2>1, <4>1, <4>2, DescribedKept
        <4>4. QED
          BY <4>2, <4>3 DEF Described
      <3>3. CASE Job \/ Kube \/ Acm
        BY <3>2, <3>3 DEF Job, Kube, Acm, workerVars, locals
      <3>4. CASE User
        BY <1>1, <3>2, <3>4, UserWrite DEF TrackedInv, UserOp, workerVars, locals
      <3>5. CASE Environment
        BY <2>3, <3>2, <3>5 DEF Environment, OutsideDelete, Crash, workerVars, locals
      <3>6. QED
        BY <1>2, <3>1, <3>3, <3>4, <3>5 DEF Next
    <2>4. QED
      BY <1>1, <2>1, <2>2, <2>3 DEF StatusInv, DescribedInv, AcmFacts
  <1>3. CASE UNCHANGED vars
    <2>1. UNCHANGED <<certs, events, cache, acm, pc, local>>
      BY <1>3 DEF vars, acmVars, kubeVars, workerVars, locals
    <2>2. IssuedInv' /\ DescribedInv'
      BY <2>1 DEF StatusInv, IssuedInv, DescribedInv, Described, Versions
    <2>3. QED
      BY <1>1, <2>2 DEF StatusInv
  <1>4. QED
    BY <1>2, <1>3

\* For every value of the constants, every fault and however old the copies
\* reconciles work on: the records in a status are those of the ACM
\* certificate it names, and one that says Issued names a certificate that
\* was issued and carries its dates (requestACMCertificate, line 173,
\* updateCertificateInfo, lines 341-352).
THEOREM StatusDescribesArnAlways == Spec => []StatusDescribesArn
  <1>1. StatusInv => StatusDescribesArn
    <2> SUFFICES ASSUME StatusInv, NEW k \in Key PROVE Described(certs[k].status)
      BY DEF StatusDescribesArn, Described
    <2>1. certs[k] \in Versions(k)
      BY DEF Versions
    <2>2. QED
      BY <2>1 DEF StatusInv, DescribedInv
  <1>2. QED
    BY <1>1, StatusInvInit, StatusInvStep, PTL DEF Spec
=============================================================================
