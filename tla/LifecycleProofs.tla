--------------------------- MODULE LifecycleProofs ---------------------------
(***************************************************************************)
(* AcmManager implements the protocol of the finalizer in                  *)
(* CertificateLifecycle, for every value of the constants and every fault. *)
(*                                                                         *)
(* Beyond TrackedInv the argument needs that the finalizer is added to the *)
(* version that was read and to no other: the copy is the one in the cache *)
(* or older (AddingInv), so that a version check that passes means that    *)
(* nothing has happened to the object since.                               *)
(***************************************************************************)
EXTENDS LifecycleRefinement, TrackedProofs

AddingInv ==
    pc = "addFinalizer" =>
        /\ local.exists /\ ~local.deleting
        /\ cache[key] = local \/ cache[key].rv > local.rv

LifecycleInv == TrackedInv /\ AddingInv

-----------------------------------------------------------------------------
(***************************************************************************)
(* AddingInv is an invariant.                                              *)
(***************************************************************************)

LEMMA AddingStart ==
  ASSUME TrackedInv, NEW k \in Key, Start(k)
  PROVE  AddingInv'
  <1>1. /\ key' = k /\ cache' = cache /\ pc = "idle"
    BY DEF Start
  <1>2. CASE pc' = pc
    BY <1>1, <1>2 DEF AddingInv
  <1>3. CASE local' = cache[k] /\ pc' = FirstStep(cache[k]) /\ cache[k].exists
    <2>1. cache[k].deleting \in BOOLEAN
      BY Types, VersionType DEF TrackedInv
    <2>2. cache[k].deleting => pc' = "deleteAcm"
      BY <1>3 DEF FirstStep
    <2>3. QED
      BY <1>1, <1>3, <2>1, <2>2 DEF AddingInv
  <1>4. QED
    BY <1>2, <1>3 DEF Start

\* While the worker stands still the cache moves forward only.
LEMMA AddingKept ==
  ASSUME LifecycleInv, TypeInv', UNCHANGED <<pc, key, local>>,
         \A n \in Key : cache'[n] = cache[n] \/ cache'[n].rv > cache[n].rv
  PROVE  AddingInv'
  <1>1. key \in Key /\ local.rv \in Nat /\ cache[key].rv \in Nat /\ cache'[key].rv \in Nat
    BY Types, VersionType, CacheType DEF LifecycleInv, TrackedInv, TypeInv, KubeTypeOK
  <1>2. QED
    BY <1>1 DEF LifecycleInv, AddingInv

LEMMA AddingStep ==
  ASSUME LifecycleInv, TypeInv', [Next]_vars
  PROVE  AddingInv'
  <1>1. KubeTypeOK /\ WatchInv /\ HeldInv
    BY DEF LifecycleInv, TrackedInv, FinalizerInv, TypeInv
  <1>2. CASE UNCHANGED <<pc, key, local, cache>>
    BY <1>2, AddingKept
  <1>3. CASE Worker
    <2>1. CASE ReconcileStep
      <3>1. pc' # "addFinalizer"
        BY <2>1 DEF ReconcileStep, AddFinalizer, DeleteAcm, RemoveFinalizer, Request,
           SaveError, Compare, Save1, Save2, Save, UpdateCertificateInfo, Rollback,
           SyncDNSEndpoints, ListForCleanup, CleanupTags, CleanupPurge, Return, Goto,
           GotoWith, Abort, AcquireStep
      <3>2. QED
        BY <3>1 DEF AddingInv
    <2>2. QED
      BY <1>3, <2>1, AddingStart DEF Worker, LifecycleInv
  <1>4. CASE Job
    BY <1>2, <1>4 DEF Job, JobStep, JobList, JobListFails, JobTags, JobGet, JobDelete,
       workerVars, locals, kubeVars
  <1>5. CASE Kube
    <2>1. CASE \E k \in Key : WatchDeliver(k)
      BY <1>1, <1>5, <2>1, DeliverWatch, AddingKept DEF Kube, workerVars, locals
    <2>2. CASE \E k \in Key : Resync(k) \/ CollectDns(k)
      BY <1>2, <1>5, <2>2 DEF Kube, Resync, CollectDns, workerVars, locals
    <2>3. QED
      BY <1>5, <2>1, <2>2 DEF Kube
  <1>6. CASE Acm
    BY <1>2, <1>6 DEF Acm, workerVars, locals, kubeVars
  <1>7. CASE User
    BY <1>2, <1>7 DEF User, CreateCertificate, ChangeSpec, DeleteCertificateObject, UserOp,
       workerVars, locals
  <1>8. CASE Environment
    <2>1. CASE \E a \in Arn : OutsideDelete(a)
      BY <1>2, <2>1 DEF OutsideDelete, workerVars, locals, kubeVars
    <2>2. ASSUME NEW r \in Replica, Crash(r) PROVE AddingInv'
      <3>1. CASE r # Leader
        <4>1. UNCHANGED <<kubeVars, workerVars>>
          BY <2>2, <3>1, Zenon DEF Crash
        <4>2. QED
          BY <1>2, <4>1 DEF workerVars, locals, kubeVars
      <3>2. CASE r = Leader
        <4>1. pc' = "idle"
          BY <2>2, <3>2, Zenon DEF Crash
        <4>2. QED
          BY <4>1 DEF AddingInv
      <3>3. QED
        BY <3>1, <3>2
    <2>3. QED
      BY <1>8, <2>1, <2>2 DEF Environment
  <1>9. CASE UNCHANGED vars
    BY <1>2, <1>9 DEF vars, workerVars, locals, kubeVars
  <1>10. QED
    BY <1>3, <1>4, <1>5, <1>6, <1>7, <1>8, <1>9 DEF Next

LEMMA LifecycleInvInit == Init => LifecycleInv
  BY TrackedInit DEF LifecycleInv, AddingInv, Init, ReconcilerInit

LEMMA LifecycleInvStep == LifecycleInv /\ [Next]_vars => LifecycleInv'
  <1> SUFFICES ASSUME LifecycleInv, [Next]_vars PROVE LifecycleInv'
    OBVIOUS
  <1>1. TrackedInv'
    BY TrackedStep DEF LifecycleInv
  <1>2. TypeInv'
    BY <1>1 DEF TrackedInv, FinalizerInv
  <1>3. QED
    BY <1>1, <1>2, AddingStep DEF LifecycleInv

-----------------------------------------------------------------------------
(***************************************************************************)
(* What steps look like through the refinement mapping.                    *)
(***************************************************************************)

\* A write shows as a change of one object (Write).
LEMMA WriteShows ==
  ASSUME KubeTypeOK, NEW k \in Key, NEW o \in Certificate, Write(k, o)
  PROVE  Objects' = [Objects EXCEPT ![k] = View(o)]
  <1>1. certs' = [certs EXCEPT ![k] = Stored(k, o)] /\ certs \in [Key -> Certificate]
    BY DEF Write, KubeTypeOK
  <1>2. View(Stored(k, o)) = View(o)
    BY DEF View, Stored, Certificate
  <1>3. \A n \in Key : View(certs'[n]) = IF n = k THEN View(o) ELSE View(certs[n])
    BY <1>1, <1>2
  <1>4. QED
    BY <1>3 DEF Objects

\* Nothing shows when nothing is written, and nothing in ACM changes.
LEMMA QuietObjects == certs' = certs => Objects' = Objects
  BY DEF Objects

LEMMA QuietLive == acm' = acm => Live' = Live
  BY DEF Live, OursFor, LiveArns

\* A deletion in ACM shows as one, or not at all when the certificate was
\* gone already or is not ours (deleteACMCertificate).
LEMMA DeleteShows ==
  ASSUME AcmTypeOK, NEW a, DeleteCertificate(a)
  PROVE  Live' = Live \/ \E k \in Key : a \in Arn /\ Live' = [Live EXCEPT ![k] = Live[k] \ {a}]
  <1>1. CASE a \notin LiveArns
    BY <1>1, QuietLive DEF DeleteCertificate
  <1>2. CASE a \in LiveArns
    <2>1. a \in Arn /\ acm[a] \in AcmCertificate /\ acm \in [Arn -> AcmCertificate]
      BY <1>2 DEF LiveArns, AcmTypeOK
    <2>2. /\ \A b \in Arn \ {a} : acm'[b] = acm[b]
          /\ acm'[a] = [acm[a] EXCEPT !.st = "deleted"]
      BY <1>2, <2>1 DEF DeleteCertificate
    <2>3. LiveArns' = LiveArns \ {a}
      <3>1. acm'[a].st = "deleted"
        BY <2>1, <2>2 DEF AcmCertificate
      <3>2. QED
        BY <2>1, <2>2, <3>1 DEF LiveArns
    <2>4. \A k \in Key : OursFor(k)' = OursFor(k) \ {a}
      BY <2>2, <2>3 DEF OursFor, LiveArns
    <2>5. \A k \in Key : k # acm[a].key => OursFor(k) \ {a} = OursFor(k)
      BY DEF OursFor
    <2>6. acm[a].key \in Key
      BY <2>1 DEF AcmCertificate
    <2>7. Live' = [Live EXCEPT ![acm[a].key] = Live[acm[a].key] \ {a}]
      BY <2>4, <2>5, <2>6 DEF Live
    <2>8. QED
      BY <2>1, <2>6, <2>7
  <1>3. QED
    BY <1>1, <1>2

\* A request shows as a new certificate of its key (requestACMCertificate).
LEMMA RequestShows ==
  ASSUME TrackedInv, NEW k \in Key, NEW spec, RequestCertificate(k, spec)
  PROVE  nreq + 1 \in Arn /\ Live' = [Live EXCEPT ![k] = Live[k] \cup {nreq + 1}]
  <1> DEFINE a == nreq + 1
  <1>1. /\ nreq \in Nat /\ a \in Arn /\ acm \in [Arn -> AcmCertificate]
    BY Types, MaxRequestsNat DEF TrackedInv, RequestCertificate, AcmTypeOK, Arn
  <1>2. a \notin LiveArns
    BY <1>1 DEF TrackedInv, BornInv
  <1>3. /\ \A b \in Arn \ {a} : acm'[b] = acm[b]
        /\ acm'[a] = NewAcmCertificate("ours", k, spec.cn, AcmNames(spec))
    BY <1>1 DEF RequestCertificate
  <1>4. acm'[a].st = "PENDING_VALIDATION" /\ acm'[a].owner = "ours" /\ acm'[a].key = k
    BY <1>3 DEF NewAcmCertificate
  <1>5. LiveArns' = LiveArns \cup {a}
    BY <1>1, <1>3, <1>4 DEF LiveArns
  <1>6. \A n \in Key : OursFor(n)' = IF n = k THEN OursFor(k) \cup {a} ELSE OursFor(n)
    BY <1>1, <1>2, <1>3, <1>4, <1>5 DEF OursFor, LiveArns
  <1>7. QED
    BY <1>1, <1>6 DEF Live

\* ACM's own steps do not show.
LEMMA AcmShowsNothing ==
  ASSUME TrackedInv, Acm
  PROVE  Live' = Live
  <1> PICK a \in Arn : \/ RecordsReady(a)
                      \/ Issue(a, Published)
                      \/ \E s \in AcmStatus : Lapse(a, s)
    BY DEF Acm
  <1>1. acm \in [Arn -> AcmCertificate] /\ acm[a] \in AcmCertificate /\ a \in LiveArns
    BY Types DEF TrackedInv, AcmTypeOK, RecordsReady, Issue, Lapse, LiveArns
  <1>2. \A b \in Arn \ {a} : acm'[b] = acm[b]
    BY <1>1 DEF RecordsReady, Issue, Lapse
  <1>3. \/ acm'[a] = [acm[a] EXCEPT !.ready = TRUE]
        \/ acm'[a] = [acm[a] EXCEPT !.st = "ISSUED", !.issued = TRUE]
        \/ \E s \in AcmStatus : acm'[a] = [acm[a] EXCEPT !.st = s]
    BY <1>1 DEF RecordsReady, Issue, Lapse
  <1>4. acm'[a].key = acm[a].key /\ acm'[a].owner = acm[a].owner
    BY <1>1, <1>3 DEF AcmCertificate
  <1>5. acm'[a].st \notin {"unborn", "deleted"}
    BY <1>1, <1>3 DEF AcmCertificate, LiveArns, AcmStatus
  <1>6. LiveArns' = LiveArns
    BY <1>1, <1>2, <1>5 DEF LiveArns
  <1>7. \A k \in Key : OursFor(k)' = OursFor(k)
    BY <1>2, <1>4, <1>6 DEF OursFor, LiveArns
  <1>8. QED
    BY <1>7 DEF Live

-----------------------------------------------------------------------------
(***************************************************************************)
(* Every step is a step of the lifecycle, or shows nothing.                *)
(***************************************************************************)
Shows == Weak!LifecycleNext \/ (Objects' = Objects /\ Live' = Live)

LEMMA Viewed ==
  \A k \in Key : /\ Objects[k] = View(certs[k])
                 /\ Objects[k].exists = certs[k].exists
                 /\ Objects[k].finalizer = certs[k].finalizer
                 /\ Objects[k].deleting = certs[k].deleting
                 /\ Objects[k].arn = certs[k].status.arn
  BY DEF Objects, View

\* The mapping commutes with the changes of flags.
LEMMA ViewFlag ==
  ASSUME NEW c, NEW t
  PROVE  /\ [View(c) EXCEPT !.finalizer = t] =
                [exists |-> c.exists, finalizer |-> t, deleting |-> c.deleting,
                 arn |-> c.status.arn]
         /\ [View(c) EXCEPT !.deleting = t] =
                [exists |-> c.exists, finalizer |-> c.finalizer, deleting |-> t,
                 arn |-> c.status.arn]
  BY SMT DEF View

LEMMA ViewFinalizer ==
  ASSUME NEW c \in Certificate, NEW o, o = [c EXCEPT !.finalizer = TRUE]
  PROVE  View(o) = [View(c) EXCEPT !.finalizer = TRUE]
  <1>1. /\ o.exists = c.exists /\ o.deleting = c.deleting
        /\ o.finalizer = TRUE /\ o.status = c.status
    BY DEF Certificate
  <1>2. View(o) = [exists |-> c.exists, finalizer |-> TRUE, deleting |-> c.deleting,
                   arn |-> c.status.arn]
    BY <1>1, Zenon DEF View
  <1>3. [View(c) EXCEPT !.finalizer = TRUE] =
          [exists |-> c.exists, finalizer |-> TRUE, deleting |-> c.deleting,
           arn |-> c.status.arn]
    BY ViewFlag, Zenon
  <1>4. QED
    BY <1>2, <1>3, Zenon

LEMMA ViewDeleting ==
  ASSUME NEW c \in Certificate, NEW o, o = [c EXCEPT !.deleting = TRUE]
  PROVE  View(o) = [View(c) EXCEPT !.deleting = TRUE]
  <1>1. /\ o.exists = c.exists /\ o.deleting = TRUE
        /\ o.finalizer = c.finalizer /\ o.status = c.status
    BY DEF Certificate
  <1>2. View(o) = [exists |-> c.exists, finalizer |-> c.finalizer, deleting |-> TRUE,
                   arn |-> c.status.arn]
    BY <1>1, Zenon DEF View
  <1>3. [View(c) EXCEPT !.deleting = TRUE] =
          [exists |-> c.exists, finalizer |-> c.finalizer, deleting |-> TRUE,
           arn |-> c.status.arn]
    BY ViewFlag, Zenon
  <1>4. QED
    BY <1>2, <1>3, Zenon

LEMMA ViewFresh ==
  ASSUME NEW v, NEW spec
  PROVE  View(Fresh(v, spec)) = [Weak!Absent EXCEPT !.exists = TRUE]
  <1>1. View(Fresh(v, spec)) =
          [exists |-> TRUE, finalizer |-> FALSE, deleting |-> FALSE, arn |-> NoArn]
    BY DEF View, Fresh, EmptyStatus
  <1>2. PICK absent, no, yes : absent = Weak!Absent /\ no = FALSE /\ yes = TRUE
    OBVIOUS
  <1>3. absent = [exists |-> no, finalizer |-> no, deleting |-> no, arn |-> NoArn]
    BY <1>2, Zenon DEF Weak!Absent
  <1>4. [absent EXCEPT !.exists = yes] =
          [exists |-> yes, finalizer |-> no, deleting |-> no, arn |-> NoArn]
    BY <1>3, SMT
  <1>5. QED
    BY <1>1, <1>2, <1>4, Zenon

LEMMA QuietShows ==
  ASSUME certs' = certs, acm' = acm
  PROVE  Shows
  BY QuietObjects, QuietLive DEF Shows

LEMMA RetireShows ==
  ASSUME TrackedInv, NEW a, DeleteCertificate(a), certs' = certs
  PROVE  Shows
  <1>1. Objects' = Objects
    BY QuietObjects
  <1>2. CASE Live' = Live
    BY <1>1, <1>2 DEF Shows
  <1>3. ASSUME NEW k \in Key, a \in Arn, Live' = [Live EXCEPT ![k] = Live[k] \ {a}]
        PROVE  Shows
    <2>1. Weak!Retire(k, a)
      BY <1>1, <1>3 DEF Weak!Retire, Weak!Hold
    <2>2. QED
      BY <1>3, <2>1 DEF Shows, Weak!LifecycleNext
  <1>4. QED
    BY <1>2, <1>3, DeleteShows, Types DEF TrackedInv

\* requestACMCertificate works on a protected object.
LEMMA RequestStepShows ==
  ASSUME TrackedInv, Request
  PROVE  Shows
  <1>1. certs' = certs /\ key \in Key
    BY Types DEF TrackedInv, Request
  <1>2. CASE RequestCertificate(key, local.spec)
    <2>1. Weak!Protected(key)
      BY <1>1, Viewed DEF Weak!Protected, TrackedInv, FinalizerInv, FinalizerHeld, Request,
         WorkingSteps
    <2>2. Weak!Request(key, nreq + 1) /\ nreq + 1 \in Arn
      BY <1>1, <1>2, <2>1, RequestShows, QuietObjects DEF Weak!Request, Weak!Hold
    <2>3. QED
      BY <1>1, <2>2 DEF Shows, Weak!LifecycleNext
  <1>3. CASE UNCHANGED acmVars
    BY <1>1, <1>3, QuietShows DEF acmVars
  <1>4. QED
    BY <1>2, <1>3 DEF Request

\* updateWithStatus writes on a protected object.
LEMMA SaveShows ==
  ASSUME TrackedInv, SaveError \/ Save1 \/ Save2
  PROVE  Shows
  <1>1. /\ key \in Key /\ KubeTypeOK /\ certs[key] \in Certificate
        /\ local.status \in StatusType
    BY Types DEF TrackedInv
  <1>2. acm' = acm /\ (NoWrite \/ ApplyStatus(key, local.status))
    BY DEF SaveError, Save1, Save2, Save, acmVars
  <1>3. CASE NoWrite
    BY <1>2, <1>3, QuietShows DEF NoWrite
  <1>4. CASE Write(key, [certs[key] EXCEPT !.status = local.status])
    <2> DEFINE o == [certs[key] EXCEPT !.status = local.status]
    <2>1. o \in Certificate
      BY <1>1, WithStatusType
    <2>2. View(o) = [View(certs[key]) EXCEPT !.arn = local.status.arn]
      BY <1>1 DEF View, Certificate
    <2>3. Weak!Protected(key)
      BY <1>1, Viewed DEF Weak!Protected, TrackedInv, FinalizerInv, FinalizerHeld,
         SaveError, Save1, Save2, Save, WorkingSteps
    <2>4. local.status.arn \in Arn \cup {NoArn}
      BY <1>1 DEF StatusType
    <2>5. Weak!Track(key, local.status.arn)
      BY <1>1, <1>2, <1>4, <2>1, <2>2, <2>3, WriteShows, Viewed, QuietLive
      DEF Weak!Track, Weak!Become
    <2>6. QED
      BY <1>1, <2>4, <2>5 DEF Shows, Weak!LifecycleNext
  <1>5. QED
    BY <1>2, <1>3, <1>4 DEF ApplyStatus

\* A version check that passes before the finalizer is added means that the
\* object is as it was read (Reconcile, lines 108-117).
LEMMA AddingUpToDate ==
  ASSUME LifecycleInv, pc = "addFinalizer", UpToDate(key, local)
  PROVE  certs[key] = local /\ cache[key] = local /\ Len(events[key]) = 0
  <1>1. /\ key \in Key /\ local.rv \in Nat
        /\ certs[key].rv \in Nat /\ cache[key].rv \in Nat
        /\ Len(events[key]) \in Nat
    BY Types, VersionType DEF LifecycleInv, TrackedInv, KubeTypeOK
  <1>2. certs[key].rv = local.rv /\ WatchOK(key)
    BY <1>1 DEF UpToDate, LifecycleInv, TrackedInv, FinalizerInv, WatchInv
  <1>3. cache[key] = local
    BY <1>1, <1>2 DEF LifecycleInv, AddingInv, WatchOK
  <1>4. Len(events[key]) = 0
    <2>1. ASSUME Len(events[key]) # 0 PROVE FALSE
      <3>1. 1 \in 1 .. Len(events[key])
        BY <1>1, <2>1
      <3>2. events[key][1].rv \in Nat
        <4>1. events[key] \in Seq(Certificate)
          BY <1>1, Types DEF LifecycleInv, TrackedInv, KubeTypeOK
        <4>2. events[key][1] \in Certificate
          BY <3>1, <4>1
        <4>3. QED
          BY <4>2, VersionType
      <3>3. cache[key].rv < events[key][1].rv /\ events[key][1].rv <= certs[key].rv
        BY <1>2, <3>1 DEF WatchOK
      <3>4. QED
        BY <1>1, <1>2, <1>3, <3>2, <3>3
    <2>2. QED
      BY <2>1
  <1>5. QED
    BY <1>2, <1>3, <1>4 DEF WatchOK

LEMMA AddFinalizerShows ==
  ASSUME LifecycleInv, AddFinalizer
  PROVE  Shows
  <1> DEFINE o == [local EXCEPT !.finalizer = TRUE]
  <1>1. key \in Key /\ KubeTypeOK /\ local \in Certificate /\ acm' = acm
    BY Types DEF LifecycleInv, TrackedInv, AddFinalizer, acmVars
  <1>2. CASE NoWrite
    BY <1>1, <1>2, QuietShows DEF NoWrite
  <1>3. CASE UpToDate(key, local) /\ Write(key, o)
    <2>1. certs[key] = local /\ local.exists /\ ~local.deleting
      BY <1>3, AddingUpToDate DEF LifecycleInv, AddingInv, AddFinalizer
    <2>2. o \in Certificate
      BY <1>1 DEF Certificate
    <2>3. View(o) = [View(certs[key]) EXCEPT !.finalizer = TRUE]
      BY <1>1, <2>1, ViewFinalizer
    <2>4. Weak!Protect(key)
      BY <1>1, <1>3, <2>1, <2>2, <2>3, WriteShows, Viewed, QuietLive
      DEF Weak!Protect, Weak!Become
    <2>5. QED
      BY <1>1, <2>4 DEF Shows, Weak!LifecycleNext
  <1>4. QED
    BY <1>2, <1>3 DEF AddFinalizer

\* The object is let go after its ACM certificate (Reconcile, lines 118-133).
LEMMA RemoveFinalizerShows ==
  ASSUME LifecycleInv, RemoveFinalizer
  PROVE  Shows
  <1>1. key \in Key /\ KubeTypeOK /\ local \in Certificate /\ acm' = acm
    BY Types DEF LifecycleInv, TrackedInv, RemoveFinalizer, acmVars
  <1>2. CASE NoWrite
    BY <1>1, <1>2, QuietShows DEF NoWrite
  <1>3. CASE UpToDate(key, local) /\ Write(key, Gone(0))
    <2>1. /\ certs[key] = local /\ local.deleting /\ local.exists
          /\ local.status.arn \notin LiveArns
      BY <1>3, DeletionUpToDate DEF LifecycleInv, TrackedInv, FinalizerInv, DeletionInv,
         RemoveFinalizer, DeletingSteps, UpToDate
    <2>2. Gone(0) \in Certificate /\ View(Gone(0)) = Weak!Absent
      BY GoneType DEF View, Gone, EmptyStatus, Weak!Absent
    <2>3. Objects[key].arn \notin Live[key]
      BY <1>1, <2>1, Viewed DEF Live, OursFor
    <2>4. CASE local.finalizer
      <3>1. Weak!Release(key)
        BY <1>1, <1>3, <2>1, <2>2, <2>3, <2>4, WriteShows, Viewed, QuietLive
        DEF Weak!Release, Weak!Become, Weak!Protected
      <3>2. QED
        BY <1>1, <3>1 DEF Shows, Weak!LifecycleNext
    <2>5. CASE ~local.finalizer
      <3>1. Weak!Drop(key)
        BY <1>1, <1>3, <2>1, <2>2, <2>5, WriteShows, Viewed, QuietLive
        DEF Weak!Drop, Weak!Become
      <3>2. QED
        BY <1>1, <3>1 DEF Shows, Weak!LifecycleNext
    <2>6. QED
      BY <2>4, <2>5
  <1>4. QED
    BY <1>2, <1>3 DEF RemoveFinalizer

\* Users create, mark and drop objects; a new specification does not show.
LEMMA UserShows ==
  ASSUME TrackedInv, User
  PROVE  Shows
  <1> PICK k \in Key : \/ \E spec \in Specs : CreateCertificate(k, spec) \/ ChangeSpec(k, spec)
                       \/ DeleteCertificateObject(k)
    BY DEF User
  <1>1. KubeTypeOK /\ certs[k] \in Certificate /\ certs[k].rv + 1 \in Nat
    BY Types, VersionType DEF TrackedInv
  <1>2. acm' = acm
    BY DEF CreateCertificate, ChangeSpec, DeleteCertificateObject, UserOp, acmVars
  <1>3. ASSUME NEW spec \in Specs, CreateCertificate(k, spec) PROVE Shows
    <2> DEFINE o == Fresh(certs[k].rv + 1, spec)
    <2>1. o \in Certificate
      BY <1>1, FreshType
    <2>2. View(o) = [Weak!Absent EXCEPT !.exists = TRUE]
      BY ViewFresh
    <2>3. Weak!Create(k)
      BY <1>1, <1>2, <1>3, <2>1, <2>2, WriteShows, Viewed, QuietLive
      DEF CreateCertificate, Weak!Create, Weak!Become
    <2>4. QED
      BY <2>3 DEF Shows, Weak!LifecycleNext
  <1>4. ASSUME NEW spec \in Specs, ChangeSpec(k, spec) PROVE Shows
    <2> DEFINE o == [certs[k] EXCEPT !.spec = spec]
    <2>1. o \in Certificate
      BY <1>1 DEF Certificate
    <2>2. View(o) = View(certs[k])
      BY <1>1 DEF View, Certificate
    <2>3. Objects' = Objects
      BY <1>1, <1>4, <2>1, <2>2, WriteShows DEF ChangeSpec, Objects
    <2>4. QED
      BY <1>2, <2>3, QuietLive DEF Shows
  <1>5. CASE DeleteCertificateObject(k) /\ certs[k].finalizer
    <2> DEFINE o == [certs[k] EXCEPT !.deleting = TRUE]
    <2>1. o \in Certificate
      BY <1>1 DEF Certificate
    <2>2. View(o) = [View(certs[k]) EXCEPT !.deleting = TRUE]
      BY <1>1, ViewDeleting
    <2>3. Weak!Mark(k)
      BY <1>1, <1>2, <1>5, <2>1, <2>2, WriteShows, Viewed, QuietLive
      DEF DeleteCertificateObject, Weak!Mark, Weak!Become, Weak!Protected
    <2>4. QED
      BY <2>3 DEF Shows, Weak!LifecycleNext
  <1>6. CASE DeleteCertificateObject(k) /\ ~certs[k].finalizer
    <2>1. Gone(0) \in Certificate /\ View(Gone(0)) = Weak!Absent
      BY GoneType DEF View, Gone, EmptyStatus, Weak!Absent
    <2>2. Weak!Drop(k)
      BY <1>1, <1>2, <1>6, <2>1, WriteShows, Viewed, QuietLive
      DEF DeleteCertificateObject, Weak!Drop, Weak!Become
    <2>3. QED
      BY <2>2 DEF Shows, Weak!LifecycleNext
  <1>7. QED
    BY <1>3, <1>4, <1>5, <1>6

LEMMA WorkerShows ==
  ASSUME LifecycleInv, Worker
  PROVE  Shows
  <1>0. TrackedInv
    BY DEF LifecycleInv
  <1>1. ASSUME NEW k \in Key, Start(k) PROVE Shows
    BY <1>1, QuietShows DEF Start, acmVars
  <1>2. CASE DeleteAcm \/ Rollback \/ CleanupPurge
    <2>1. certs' = certs
      BY <1>2 DEF DeleteAcm, Rollback, CleanupPurge
    <2>2. (\E a : DeleteCertificate(a)) \/ UNCHANGED acmVars
      BY <1>2 DEF DeleteAcm, Rollback, CleanupPurge
    <2>3. QED
      BY <1>0, <2>1, <2>2, RetireShows, QuietShows DEF acmVars
  <1>3. CASE Compare \/ UpdateCertificateInfo \/ SyncDNSEndpoints \/ ListForCleanup \/ CleanupTags
    <2>1. certs' = certs /\ acm' = acm
      BY <1>3 DEF Compare, UpdateCertificateInfo, SyncDNSEndpoints, ListForCleanup,
         CleanupTags, acmVars
    <2>2. QED
      BY <2>1, QuietShows
  <1>4. CASE Request
    BY <1>0, <1>4, RequestStepShows
  <1>5. CASE SaveError \/ Save1 \/ Save2
    BY <1>0, <1>5, SaveShows
  <1>6. CASE AddFinalizer \/ RemoveFinalizer
    BY <1>6, AddFinalizerShows, RemoveFinalizerShows
  <1>7. QED
    BY <1>1, <1>2, <1>3, <1>4, <1>5, <1>6 DEF Worker, ReconcileStep

LEMMA JobShows ==
  ASSUME TrackedInv, Job
  PROVE  Shows
  <1> PICK r \in Replica : JobStep(r)
    BY DEF Job
  <1>1. certs' = certs /\ (acm' = acm \/ DeleteCertificate(job[r].arn))
    BY DEF JobStep, JobList, JobListFails, JobTags, JobGet, JobDelete, acmVars, kubeVars
  <1>2. QED
    BY <1>1, RetireShows, QuietShows

LEMMA EnvironmentShows ==
  ASSUME TrackedInv, Environment
  PROVE  Shows
  <1>1. ASSUME NEW a \in Arn, OutsideDelete(a) PROVE Shows
    BY <1>1, RetireShows DEF OutsideDelete, kubeVars
  <1>2. ASSUME NEW r \in Replica, Crash(r) PROVE Shows
    <2>1. acm' = acm
      BY <1>2 DEF Crash, acmVars
    <2>2. certs' = certs
      BY <1>2, Zenon DEF Crash, kubeVars
    <2>3. QED
      BY <2>1, <2>2, QuietShows
  <1>3. QED
    BY <1>1, <1>2 DEF Environment

LEMMA StepShows == LifecycleInv /\ [Next]_vars => [Weak!LifecycleNext]_(Weak!lifecycleVars)
  <1> SUFFICES ASSUME LifecycleInv, [Next]_vars PROVE Shows
    BY DEF Shows, Weak!lifecycleVars
  <1>0. TrackedInv
    BY DEF LifecycleInv
  <1>1. CASE Kube
    <2>1. certs' = certs /\ acm' = acm
      BY <1>1 DEF Kube, WatchDeliver, Resync, CollectDns, acmVars
    <2>2. QED
      BY <2>1, QuietShows
  <1>2. CASE Acm
    <2>1. certs' = certs
      BY <1>2 DEF Acm, kubeVars
    <2>2. QED
      BY <1>0, <1>2, <2>1, AcmShowsNothing, QuietObjects DEF Shows
  <1>3. CASE UNCHANGED vars
    BY <1>3, QuietShows DEF vars, acmVars, kubeVars
  <1>4. QED
    BY <1>0, <1>1, <1>2, <1>3, WorkerShows, JobShows, UserShows, EnvironmentShows DEF Next

LEMMA InitShows == Init => Weak!LifecycleInit
  <1> SUFFICES ASSUME Init PROVE Weak!LifecycleInit
    OBVIOUS
  <1>1. \A k \in Key : View(certs[k]) = Weak!Absent
    BY DEF Init, KubeInit, View, Gone, EmptyStatus, Weak!Absent
  <1>2. PICK n \in Key : acm = [a \in Arn |-> IF a <= NForeign
                                                 THEN NewAcmCertificate("other", n, "", {})
                                                 ELSE Unborn(n)]
    BY DEF Init, AcmInit
  <1>3. NewAcmCertificate("other", n, "", {}).owner = "other" /\ Unborn(n).st = "unborn"
    BY DEF NewAcmCertificate, Unborn
  <1>4. \A a \in LiveArns : acm[a].owner = "other"
    BY <1>2, <1>3 DEF LiveArns
  <1>5. \A k \in Key : OursFor(k) = {}
    BY <1>4 DEF OursFor
  <1>6. QED
    BY <1>1, <1>5 DEF Weak!LifecycleInit, Objects, Live

-----------------------------------------------------------------------------
\* Under every fault, crash and interleaving a Certificate and its ACM
\* certificates take only the steps of the lifecycle: Reconcile requests and
\* saves only under the finalizer, adds it only to an object that is not
\* being deleted, and lets an object go only after its ACM certificate
\* (Reconcile, lines 108-235).
THEOREM ManagerImplementsLossyLifecycle == Spec => ImplementsLossyLifecycle
  <1>1. Spec => []LifecycleInv
    BY LifecycleInvInit, LifecycleInvStep, PTL DEF Spec
  <1>2. QED
    BY <1>1, InitShows, StepShows, PTL DEF Spec, ImplementsLossyLifecycle, Weak!LifecycleSpec
=============================================================================
