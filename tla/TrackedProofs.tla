---------------------------- MODULE TrackedProofs ----------------------------
(***************************************************************************)
(* The cleanups never delete the ACM certificate that a status names, for  *)
(* every value of the constants.                                           *)
(*                                                                         *)
(* The reconciler's cleanup is safe because the status it saved is the one *)
(* it compares with, and nobody else writes statuses.  The cleanup job is  *)
(* safe although it deletes on an answer that may be old by then: when the *)
(* API server does not find the object, no version that a reconcile could  *)
(* still work on holds the ARN either (HeldInv), so that it cannot come    *)
(* back into a status.                                                     *)
(***************************************************************************)
EXTENDS FinalizerProofs

\* The versions of k that somebody may still read.
Versions(k) ==
    {certs[k], cache[k]} \cup {events[k][i] : i \in 1 .. Len(events[k])}

\* The tags of a say that we requested it for k.
Tagged(k, a) ==
    a # NoArn => a \in 1 .. nreq /\ acm[a].key = k /\ acm[a].owner = "ours"

\* ARNs are in versions with the finalizer only.
VersionTagged(k, o) ==
    /\ Tagged(k, o.status.arn)
    /\ o.status.arn # NoArn => o.exists /\ o.finalizer

TagInv == \A k \in Key : \A o \in Versions(k) : VersionTagged(k, o)

LocalInv ==
    /\ pc # "idle" => Tagged(key, local.status.arn)
    /\ pc = "addFinalizer" => local.status.arn = NoArn

BornInv == LiveArns \subseteq 1 .. nreq

\* No status names a, and none will: no reconcile works with it or could
\* start to.
NotInUse(a) ==
    /\ \A k \in Key :
         /\ certs[k].status.arn # a
         /\ \A o \in Versions(k) : Held(o) => o.status.arn # a
    /\ pc \in WorkingSteps => local.status.arn # a

JobOK(r) ==
    /\ job[r].pc \in {"get", "delete"} =>
         job[r].arn \in 1 .. nreq /\ acm[job[r].arn].owner = "ours"
    /\ job[r].pc = "delete" => NotInUse(job[r].arn)

JobsInv == \A r \in Replica : JobOK(r)

\* The calls that follow the second save.
SavedSteps == {"dns", "list", "tags", "purge"}

PurgeInv ==
    /\ pc \in SavedSteps => certs[key].status.arn = local.status.arn
    /\ pc \in {"tags", "purge"} => local.status.arn \notin todo
    /\ pc = "purge" => /\ cur \in 1 .. nreq
                       /\ cur # local.status.arn
                       /\ acm[cur].key = key /\ acm[cur].owner = "ours"

TrackedInv ==
    /\ FinalizerInv
    /\ BornInv
    /\ TagInv
    /\ LocalInv
    /\ JobsInv
    /\ PurgeInv

-----------------------------------------------------------------------------
\* The facts of the type invariant that are used below.
LEMMA Types ==
  ASSUME FinalizerInv
  PROVE  /\ KubeTypeOK /\ AcmTypeOK /\ JobTypeOK
         /\ key \in Key /\ local \in Certificate /\ local.status \in StatusType
         /\ nreq \in Nat /\ nreq <= MaxRequests
         /\ \A k \in Key : certs[k] \in Certificate /\ cache[k] \in Certificate
  <1>1. KubeTypeOK /\ AcmTypeOK /\ JobTypeOK /\ WorkerOK
    BY DEF FinalizerInv, TypeInv
  <1>2. key \in Key /\ local \in Certificate /\ local.status \in StatusType
    BY <1>1, VersionType DEF WorkerOK, ReconcilerTypeOK
  <1>3. nreq \in Nat /\ nreq <= MaxRequests
    BY <1>1, MaxRequestsNat DEF AcmTypeOK
  <1>4. \A k \in Key : certs[k] \in Certificate /\ cache[k] \in Certificate
    BY <1>1 DEF KubeTypeOK
  <1>5. QED
    BY <1>1, <1>2, <1>3, <1>4

\* A write adds the version it stores to those that can be read (Write).
LEMMA WriteVersions ==
  ASSUME KubeTypeOK, NEW k \in Key, NEW o \in Certificate, Write(k, o),
         UNCHANGED cache, NEW n \in Key
  PROVE  /\ Versions(n)' \subseteq Versions(n) \cup {certs'[n]}
         /\ n # k => certs'[n] = certs[n]
         /\ n = k => /\ certs'[n].status = o.status
                     /\ certs'[n].exists = o.exists
                     /\ certs'[n].finalizer = o.finalizer
  <1>1. CASE n # k
    <2>1. certs'[n] = certs[n] /\ events'[n] = events[n] /\ cache'[n] = cache[n]
      BY <1>1 DEF Write, KubeTypeOK
    <2>2. QED
      BY <1>1, <2>1 DEF Versions
  <1>2. CASE n = k
    <2> DEFINE e == events[k]
               s == Stored(k, o)
    <2>1. certs'[k] = s /\ events'[k] = Append(e, s) /\ cache'[k] = cache[k]
      BY DEF Write, KubeTypeOK
    <2>2. s.status = o.status /\ s.exists = o.exists /\ s.finalizer = o.finalizer
      BY DEF Stored, Certificate
    <2>3. e \in Seq(Certificate) /\ s \in Certificate
      BY StoredType DEF KubeTypeOK
    <2>4. /\ Len(Append(e, s)) = Len(e) + 1 /\ Len(e) \in Nat
          /\ Append(e, s)[Len(e) + 1] = s
          /\ \A i \in 1 .. Len(e) : Append(e, s)[i] = e[i]
      BY <2>3
    <2>5. \A i \in 1 .. Len(e) + 1 : i \in 1 .. Len(e) \/ i = Len(e) + 1
      <3>1. Len(e) \in Nat
        BY <2>4
      <3>2. QED
        BY <3>1
    <2>6. \A i \in 1 .. Len(Append(e, s)) : Append(e, s)[i] \in Versions(k) \cup {s}
      BY <2>4, <2>5 DEF Versions
    <2>7. Versions(k)' \subseteq Versions(k) \cup {s}
      <3>1. Versions(k)' = {s, cache[k]} \cup
                {Append(e, s)[i] : i \in 1 .. Len(Append(e, s))}
        BY <2>1 DEF Versions
      <3>2. cache[k] \in Versions(k)
        BY DEF Versions
      <3>3. QED
        BY <2>6, <3>1, <3>2
    <2>8. QED
      BY <1>2, <2>1, <2>2, <2>7
  <1>3. QED
    BY <1>1, <1>2

\* Delivering a version adds none (WatchDeliver).
LEMMA DeliverVersions ==
  ASSUME KubeTypeOK, NEW k \in Key, WatchDeliver(k), NEW n \in Key
  PROVE  Versions(n)' \subseteq Versions(n) /\ certs'[n] = certs[n]
  <1>1. CASE n # k
    <2>1. certs'[n] = certs[n] /\ events'[n] = events[n] /\ cache'[n] = cache[n]
      BY <1>1 DEF WatchDeliver, KubeTypeOK
    <2>2. QED
      BY <2>1 DEF Versions
  <1>2. CASE n = k
    <2> DEFINE e == events[k]
    <2>1. /\ e \in Seq(Certificate) /\ e # <<>> /\ certs' = certs
          /\ cache'[k] = e[1] /\ events'[k] = Tail(e)
      BY DEF WatchDeliver, KubeTypeOK
    <2>2. /\ Len(e) \in Nat \ {0} /\ Len(Tail(e)) = Len(e) - 1
          /\ \A i \in 1 .. Len(e) - 1 : Tail(e)[i] = e[i + 1]
      BY <2>1
    <2>3. \A i \in 1 .. Len(e) - 1 : i + 1 \in 1 .. Len(e)
      BY <2>2
    <2>4. 1 \in 1 .. Len(e)
      BY <2>2
    <2>5. /\ e[1] \in Versions(k)
          /\ \A i \in 1 .. Len(Tail(e)) : Tail(e)[i] \in Versions(k)
      BY <2>2, <2>3, <2>4 DEF Versions
    <2>6. Versions(k)' = {certs[k], e[1]} \cup {Tail(e)[i] : i \in 1 .. Len(Tail(e))}
      BY <2>1 DEF Versions
    <2>7. QED
      BY <1>2, <2>1, <2>5, <2>6 DEF Versions
  <1>3. QED
    BY <1>1, <1>2

-----------------------------------------------------------------------------
(***************************************************************************)
(* What a step does, seen from one key of the store: at most one version   *)
(* is added, and the ARN in it is none, the one before, or that of the     *)
(* copy a reconcile works with.                                            *)
(***************************************************************************)
StoreStep(k) ==
    /\ Versions(k)' \subseteq Versions(k) \cup {certs'[k]}
    /\ \/ /\ certs'[k].status.arn = NoArn
          /\ ~(k = key /\ pc \in WorkingSteps)
       \/ /\ certs'[k].status.arn = certs[k].status.arn
          /\ certs[k].status.arn # NoArn => Pinned(k)'
       \/ /\ k = key /\ pc \in WorkingSteps
          /\ certs'[k].status.arn = local.status.arn
          /\ Pinned(k)'

\* A step that leaves an object alone.
LEMMA StoreQuiet ==
  ASSUME TagInv, NEW k \in Key, certs'[k] = certs[k],
         Versions(k)' \subseteq Versions(k)
  PROVE  StoreStep(k)
  <1>1. VersionTagged(k, certs[k])
    BY DEF TagInv, Versions
  <1>2. QED
    BY <1>1 DEF StoreStep, VersionTagged, Pinned

\* The reconciler's writes (r.Update, updateWithStatus).
LEMMA StoreWorker ==
  ASSUME TrackedInv, Worker, NEW k \in Key
  PROVE  StoreStep(k)
  <1>1. TagInv /\ FinalizerInv /\ FinalizerHeld
    BY DEF TrackedInv, FinalizerInv
  <1>2. CASE UNCHANGED <<certs, events, cache>>
    <2>1. Versions(k)' = Versions(k) /\ certs'[k] = certs[k]
      BY <1>2 DEF Versions
    <2>2. QED
      BY <1>1, <2>1, StoreQuiet
  <1>3. CASE AddFinalizer /\ Write(key, [local EXCEPT !.finalizer = TRUE])
    <2> DEFINE o == [local EXCEPT !.finalizer = TRUE]
    <2>1. o \in Certificate /\ o.status = local.status /\ cache' = cache
      BY <1>1, <1>3, Types DEF AddFinalizer, Certificate
    <2>2. o.status.arn = NoArn /\ pc \notin WorkingSteps
      BY <1>3, <2>1 DEF AddFinalizer, TrackedInv, LocalInv, WorkingSteps
    <2>3. /\ Versions(k)' \subseteq Versions(k) \cup {certs'[k]}
          /\ k # key => certs'[k] = certs[k]
          /\ k = key => certs'[k].status = o.status
      <3>1. KubeTypeOK /\ key \in Key
        BY <1>1, Types
      <3> HIDE DEF o
      <3>2. Write(key, o)
        BY <1>3 DEF o
      <3>3. QED
        BY <2>1, <3>1, <3>2, WriteVersions
    <2>4. CASE k = key
      BY <2>2, <2>3, <2>4 DEF StoreStep
    <2>5. CASE k # key
      BY <1>1, <2>3, <2>5, StoreQuiet DEF Versions
    <2>6. QED
      BY <2>4, <2>5
  <1>4. CASE RemoveFinalizer /\ Write(key, Gone(0))
    <2>1. Gone(0) \in Certificate /\ Gone(0).status.arn = NoArn /\ cache' = cache
      BY <1>4, GoneType DEF RemoveFinalizer, Gone, EmptyStatus
    <2>2. pc \notin WorkingSteps
      BY <1>4 DEF RemoveFinalizer, WorkingSteps
    <2>3. /\ Versions(k)' \subseteq Versions(k) \cup {certs'[k]}
          /\ k # key => certs'[k] = certs[k]
          /\ k = key => certs'[k].status = Gone(0).status
      BY <1>1, <1>4, <2>1, Types, WriteVersions
    <2>4. CASE k = key
      BY <2>1, <2>2, <2>3, <2>4 DEF StoreStep
    <2>5. CASE k # key
      BY <1>1, <2>3, <2>5, StoreQuiet DEF Versions
    <2>6. QED
      BY <2>4, <2>5
  <1>5. CASE /\ pc \in WorkingSteps /\ cache' = cache
             /\ Write(key, [certs[key] EXCEPT !.status = local.status])
    <2> DEFINE o == [certs[key] EXCEPT !.status = local.status]
    <2>1. /\ o \in Certificate /\ o.status = local.status
          /\ o.exists = certs[key].exists /\ o.finalizer = certs[key].finalizer
      BY <1>1, Types, WithStatusType DEF Certificate
    <2>2. o.exists /\ o.finalizer
      BY <1>1, <1>5, <2>1 DEF FinalizerHeld
    <2>3. /\ Versions(k)' \subseteq Versions(k) \cup {certs'[k]}
          /\ k # key => certs'[k] = certs[k]
          /\ k = key => /\ certs'[k].status = o.status
                        /\ certs'[k].exists = o.exists
                        /\ certs'[k].finalizer = o.finalizer
      BY <1>1, <1>5, <2>1, Types, WriteVersions
    <2>4. CASE k = key
      BY <1>5, <2>1, <2>2, <2>3, <2>4 DEF StoreStep, Pinned
    <2>5. CASE k # key
      BY <1>1, <2>3, <2>5, StoreQuiet DEF Versions
    <2>6. QED
      BY <2>4, <2>5
  <1>6. QED
    <2>1. CASE SaveError \/ Save1 \/ Save2
      <3>1. /\ pc \in WorkingSteps /\ cache' = cache
            /\ NoWrite \/ ApplyStatus(key, local.status)
        BY <2>1 DEF SaveError, Save1, Save2, Save, WorkingSteps
      <3>2. QED
        BY <1>2, <1>5, <3>1 DEF NoWrite, ApplyStatus
    <2>2. CASE AddFinalizer
      BY <1>2, <1>3, <2>2 DEF AddFinalizer, NoWrite
    <2>3. CASE RemoveFinalizer
      BY <1>2, <1>4, <2>3 DEF RemoveFinalizer, NoWrite
    <2>4. CASE \/ \E n \in Key : Start(n)
               \/ DeleteAcm \/ Request \/ Compare \/ UpdateCertificateInfo \/ Rollback
               \/ SyncDNSEndpoints \/ ListForCleanup \/ CleanupTags \/ CleanupPurge
      BY <1>2, <2>4 DEF Start, DeleteAcm, Request, Compare, UpdateCertificateInfo,
         Rollback, SyncDNSEndpoints, ListForCleanup, CleanupTags, CleanupPurge
    <2>5. QED
      BY <2>1, <2>2, <2>3, <2>4 DEF Worker, ReconcileStep

\* The users' writes.
LEMMA StoreUser ==
  ASSUME TrackedInv, User, NEW k \in Key
  PROVE  StoreStep(k)
  <1>1. TagInv /\ FinalizerInv /\ FinalizerHeld /\ KubeTypeOK
    BY Types DEF TrackedInv, FinalizerInv
  <1>2. cache' = cache
    BY <1>1, UserWrite DEF UserOp
  <1>3. PICK n \in Key : \/ \E spec \in Specs : CreateCertificate(n, spec)
                         \/ \E spec \in Specs : ChangeSpec(n, spec)
                         \/ DeleteCertificateObject(n)
    BY DEF User
  <1>4. certs[n] \in Certificate /\ certs[n].rv + 1 \in Nat /\ VersionTagged(n, certs[n])
    BY <1>1, Types, VersionType DEF TagInv, Versions
  <1>5. ASSUME NEW o \in Certificate, Write(n, o),
               \/ o.status.arn = NoArn /\ ~Pinned(n)
               \/ /\ o.status = certs[n].status
                  /\ o.exists = certs[n].exists /\ o.finalizer = certs[n].finalizer
        PROVE  StoreStep(k)
    <2>1. /\ Versions(k)' \subseteq Versions(k) \cup {certs'[k]}
          /\ k # n => certs'[k] = certs[k]
          /\ k = n => /\ certs'[k].status = o.status
                      /\ certs'[k].exists = o.exists
                      /\ certs'[k].finalizer = o.finalizer
      BY <1>1, <1>2, <1>5, WriteVersions
    <2>2. CASE k # n
      BY <1>1, <2>1, <2>2, StoreQuiet DEF Versions
    <2>3. CASE k = n /\ o.status.arn = NoArn /\ ~Pinned(n)
      BY <1>1, <2>1, <2>3 DEF StoreStep, FinalizerHeld, Pinned
    <2>4. CASE k = n /\ o.status = certs[n].status
               /\ o.exists = certs[n].exists /\ o.finalizer = certs[n].finalizer
      BY <1>4, <2>1, <2>4 DEF StoreStep, VersionTagged, Pinned
    <2>5. QED
      BY <1>5, <2>2, <2>3, <2>4
  <1>6. ASSUME NEW spec \in Specs, CreateCertificate(n, spec) PROVE StoreStep(k)
    <2> DEFINE o == Fresh(certs[n].rv + 1, spec)
    <2>1. o \in Certificate /\ o.status.arn = NoArn
      BY <1>4, FreshType DEF Fresh, EmptyStatus
    <2>2. Write(n, o) /\ ~Pinned(n)
      BY <1>6 DEF CreateCertificate, Pinned
    <2>3. QED
      BY <1>5, <2>1, <2>2
  <1>7. ASSUME NEW spec \in Specs, ChangeSpec(n, spec) PROVE StoreStep(k)
    <2> DEFINE o == [certs[n] EXCEPT !.spec = spec]
    <2>1. /\ o \in Certificate /\ o.status = certs[n].status
          /\ o.exists = certs[n].exists /\ o.finalizer = certs[n].finalizer
      BY <1>4 DEF Certificate
    <2>2. Write(n, o)
      BY <1>7 DEF ChangeSpec
    <2>3. QED
      BY <1>5, <2>1, <2>2
  <1>8. ASSUME DeleteCertificateObject(n) PROVE StoreStep(k)
    <2> DEFINE o == [certs[n] EXCEPT !.deleting = TRUE]
    <2>1. /\ o \in Certificate /\ o.status = certs[n].status
          /\ o.exists = certs[n].exists /\ o.finalizer = certs[n].finalizer
      BY <1>4 DEF Certificate
    <2>2. Gone(0) \in Certificate /\ Gone(0).status.arn = NoArn
      BY GoneType DEF Gone, EmptyStatus
    <2>3. CASE certs[n].finalizer
      BY <1>5, <1>8, <2>1, <2>3 DEF DeleteCertificateObject
    <2>4. CASE ~certs[n].finalizer
      BY <1>5, <1>8, <2>2, <2>4 DEF DeleteCertificateObject, Pinned
    <2>5. QED
      BY <2>3, <2>4
  <1>9. QED
    BY <1>3, <1>6, <1>7, <1>8

LEMMA StoreNext ==
  ASSUME TrackedInv, Next, NEW k \in Key
  PROVE  StoreStep(k)
  <1>1. TagInv /\ KubeTypeOK
    BY Types DEF TrackedInv
  <1>2. CASE UNCHANGED <<certs, events, cache>>
    BY <1>1, <1>2, StoreQuiet DEF Versions
  <1>3. CASE Job \/ Acm
    BY <1>2, <1>3 DEF Job, JobStep, JobList, JobListFails, JobTags, JobGet, JobDelete,
       Acm, kubeVars
  <1>4. CASE Kube
    <2> PICK n \in Key : WatchDeliver(n) \/ Resync(n) \/ CollectDns(n)
      BY <1>4 DEF Kube
    <2>1. CASE WatchDeliver(n)
      BY <1>1, <2>1, DeliverVersions, StoreQuiet
    <2>2. CASE Resync(n) \/ CollectDns(n)
      BY <1>2, <2>2 DEF Resync, CollectDns
    <2>3. QED
      BY <2>1, <2>2
  <1>5. CASE Environment
    <2>1. CASE \E a \in Arn : OutsideDelete(a)
      BY <1>2, <2>1 DEF OutsideDelete, kubeVars
    <2>2. CASE \E r \in Replica : Crash(r)
      <3> PICK r \in Replica : Crash(r)
        BY <2>2
      <3>1. CASE r # Leader
        BY <1>2, <3>1 DEF Crash, kubeVars
      <3>2. CASE r = Leader
        <4>1. certs' = certs /\ cache' = certs /\ events' = [n \in Key |-> <<>>]
          BY <3>2, Zenon DEF Crash
        <4>2. events'[k] = <<>> /\ Len(<<>>) = 0
          BY <4>1
        <4>3. Versions(k)' \subseteq {certs[k]}
          BY <4>1, <4>2 DEF Versions
        <4>4. QED
          BY <1>1, <4>1, <4>3, StoreQuiet DEF Versions
      <3>3. QED
        BY <3>1, <3>2
    <2>3. QED
      BY <1>5, <2>1, <2>2 DEF Environment
  <1>6. QED
    BY <1>3, <1>4, <1>5, StoreWorker, StoreUser DEF Next

-----------------------------------------------------------------------------
(***************************************************************************)
(* What a step does to the account: tags stay, and what is new has a new   *)
(* ARN.                                                                    *)
(***************************************************************************)
ArnStep ==
    /\ nreq' \in Nat /\ nreq <= nreq'
    /\ \A a \in 1 .. nreq : acm'[a].key = acm[a].key /\ acm'[a].owner = acm[a].owner
    /\ BornInv'

LEMMA ArnQuiet ==
  ASSUME FinalizerInv, BornInv, UNCHANGED acmVars
  PROVE  ArnStep
  BY Types DEF acmVars, ArnStep, BornInv, LiveArns

\* requestACMCertificate.
LEMMA ArnRequest ==
  ASSUME FinalizerInv, BornInv, NEW k \in Key, NEW spec, RequestCertificate(k, spec)
  PROVE  /\ ArnStep /\ nreq' = nreq + 1
         /\ acm'[nreq + 1].key = k /\ acm'[nreq + 1].owner = "ours"
         /\ nreq + 1 \in LiveArns'
  <1>1. /\ nreq \in Nat /\ nreq' = nreq + 1 /\ nreq + 1 \in Arn
        /\ acm \in [Arn -> AcmCertificate]
    BY Types, MaxRequestsNat DEF RequestCertificate, AcmTypeOK, Arn
  <1>2. /\ acm'[nreq + 1].key = k /\ acm'[nreq + 1].owner = "ours"
        /\ acm'[nreq + 1].st = "PENDING_VALIDATION"
    BY <1>1 DEF RequestCertificate, NewAcmCertificate
  <1>3. \A a \in Arn \ {nreq + 1} : acm'[a] = acm[a]
    BY <1>1 DEF RequestCertificate
  <1>4. \A a \in 1 .. nreq : a \in Arn /\ a # nreq + 1
    BY <1>1, MaxRequestsNat DEF Arn
  <1>5. BornInv'
    <2> SUFFICES ASSUME NEW a \in LiveArns' PROVE a \in 1 .. nreq + 1
      BY <1>1 DEF BornInv
    <2>1. a \in Arn
      BY DEF LiveArns
    <2>2. CASE a = nreq + 1
      BY <1>1, <2>2
    <2>3. CASE a # nreq + 1
      <3>1. a \in LiveArns
        BY <1>3, <2>1, <2>3 DEF LiveArns
      <3>2. a \in 1 .. nreq
        BY <3>1 DEF BornInv
      <3>3. QED
        BY <1>1, <3>2
    <2>4. QED
      BY <2>2, <2>3
  <1>6. nreq + 1 \in LiveArns'
    BY <1>1, <1>2 DEF LiveArns
  <1>7. QED
    BY <1>1, <1>2, <1>3, <1>4, <1>5, <1>6 DEF ArnStep

\* deleteACMCertificate.
LEMMA ArnDelete ==
  ASSUME FinalizerInv, BornInv, NEW a, DeleteCertificate(a)
  PROVE  ArnStep
  <1>1. /\ nreq \in Nat /\ nreq' = nreq /\ acm \in [Arn -> AcmCertificate]
        /\ LiveArns' \subseteq LiveArns
    BY Types, DeleteLive DEF DeleteCertificate, AcmTypeOK
  <1>2. \A b \in Arn : acm'[b].key = acm[b].key /\ acm'[b].owner = acm[b].owner
    BY <1>1 DEF DeleteCertificate, AcmCertificate
  <1>3. \A b \in 1 .. nreq : b \in Arn
    BY <1>1, Types, MaxRequestsNat DEF Arn
  <1>4. BornInv'
    BY <1>1 DEF BornInv
  <1>5. nreq' \in Nat /\ nreq <= nreq'
    BY <1>1
  <1>6. QED
    BY <1>2, <1>3, <1>4, <1>5 DEF ArnStep

\* ACM's own steps.
LEMMA ArnAcm ==
  ASSUME FinalizerInv, BornInv, Acm
  PROVE  ArnStep
  <1> PICK a \in Arn : \/ RecordsReady(a)
                      \/ Issue(a, Published)
                      \/ \E s \in AcmStatus : Lapse(a, s)
    BY DEF Acm
  <1>1. /\ nreq \in Nat /\ nreq' = nreq /\ acm \in [Arn -> AcmCertificate]
        /\ a \in LiveArns
    BY Types DEF AcmTypeOK, RecordsReady, Issue, Lapse, LiveArns
  <1>2. \A b \in Arn : /\ acm'[b].key = acm[b].key /\ acm'[b].owner = acm[b].owner
                       /\ b # a => acm'[b] = acm[b]
    <2>1. \A b \in Arn \ {a} : acm'[b] = acm[b]
      BY <1>1 DEF RecordsReady, Issue, Lapse
    <2>2. acm[a] \in AcmCertificate
      BY <1>1
    <2>3. \/ acm'[a] = [acm[a] EXCEPT !.ready = TRUE]
          \/ acm'[a] = [acm[a] EXCEPT !.st = "ISSUED", !.issued = TRUE]
          \/ \E s \in AcmStatus : acm'[a] = [acm[a] EXCEPT !.st = s]
      BY <1>1 DEF RecordsReady, Issue, Lapse
    <2>4. acm'[a].key = acm[a].key /\ acm'[a].owner = acm[a].owner
      BY <2>2, <2>3 DEF AcmCertificate
    <2>5. QED
      BY <2>1, <2>4
  <1>3. LiveArns' \subseteq LiveArns
    <2>1. ASSUME NEW b \in Arn, b \in LiveArns' PROVE b \in LiveArns
      <3>1. CASE b = a
        BY <1>1, <3>1
      <3>2. CASE b # a
        <4>1. acm'[b] = acm[b]
          BY <1>2, <3>2
        <4>2. QED
          BY <2>1, <4>1 DEF LiveArns
      <3>3. QED
        BY <3>1, <3>2
    <2>2. LiveArns' \subseteq Arn
      BY DEF LiveArns
    <2>3. QED
      BY <2>1, <2>2
  <1>4. \A b \in 1 .. nreq : b \in Arn
    BY <1>1, Types, MaxRequestsNat DEF Arn
  <1>5. BornInv'
    BY <1>1, <1>3 DEF BornInv
  <1>6. nreq' \in Nat /\ nreq <= nreq'
    BY <1>1
  <1>7. \A b \in 1 .. nreq : acm'[b].key = acm[b].key /\ acm'[b].owner = acm[b].owner
    BY <1>2, <1>4
  <1>8. QED
    BY ONLY <1>5, <1>6, <1>7 DEF ArnStep

LEMMA ArnNext ==
  ASSUME TrackedInv, Next
  PROVE  ArnStep
  <1>1. FinalizerInv /\ BornInv /\ key \in Key
    BY Types DEF TrackedInv
  <1>2. CASE UNCHANGED acmVars
    BY <1>1, <1>2, ArnQuiet
  <1>3. CASE \E a : DeleteCertificate(a)
    BY <1>1, <1>3, ArnDelete
  <1>4. CASE RequestCertificate(key, local.spec)
    BY <1>1, <1>4, ArnRequest
  <1>5. CASE Worker
    BY <1>2, <1>3, <1>4, <1>5 DEF Worker, ReconcileStep, Start, AddFinalizer, DeleteAcm,
       RemoveFinalizer, Request, SaveError, Compare, Save1, Save2, Save,
       UpdateCertificateInfo, Rollback, SyncDNSEndpoints, ListForCleanup, CleanupTags,
       CleanupPurge
  <1>6. CASE Job
    BY <1>2, <1>3, <1>6 DEF Job, JobStep, JobList, JobListFails, JobTags, JobGet, JobDelete
  <1>7. CASE Kube \/ User \/ Environment
    BY <1>1, <1>2, <1>3, <1>7, UserWrite DEF Kube, UserOp, Environment, OutsideDelete, Crash
  <1>8. QED
    BY <1>1, <1>5, <1>6, <1>7, ArnAcm DEF Next

-----------------------------------------------------------------------------
(***************************************************************************)
(* What a step does to the worker's copy: it is dropped, kept, read from   *)
(* the cache (Start), or given the ARN of a new request.                   *)
(***************************************************************************)
CopyDropped == pc' = "idle"

\* The calls made with an ARN that ACM has confirmed or handed out.
AcquiredSteps == {"save1", "info", "save2", "rollback"} \cup SavedSteps

CopyKept ==
    /\ pc # "idle" /\ key' = key /\ local'.status.arn = local.status.arn
    /\ pc' = "addFinalizer" => pc = "addFinalizer"
    /\ pc' \in WorkingSteps => pc \in WorkingSteps \/ pc = "addFinalizer"
    /\ pc' \in AcquiredSteps => pc \in AcquiredSteps \/ pc = "compare"
    /\ pc = "compare" /\ pc' # "compare" => local.status.arn \in LiveArns /\ acm' = acm
    /\ pc' \in DeletingSteps => pc \in DeletingSteps

CopyRead ==
    /\ pc = "idle"
    /\ key' \in Key /\ local' = cache[key'] /\ local'.exists
    /\ UNCHANGED <<certs, events, cache>>
    /\ pc' \in {"addFinalizer", "deleteAcm", "request", "compare"}
    /\ pc' \in WorkingSteps => Held(local')
    /\ pc' = "addFinalizer" => ~local'.finalizer
    /\ pc' = "request" => local'.status.arn = NoArn
    /\ pc' = "deleteAcm" => local'.deleting

CopyRequested ==
    /\ pc' = "save1" /\ key' = key
    /\ UNCHANGED <<certs, events, cache, job>>
    /\ local'.status.arn = nreq + 1
    /\ nreq' = nreq + 1
    /\ acm'[nreq + 1].key = key /\ acm'[nreq + 1].owner = "ours"
    /\ nreq + 1 \in LiveArns'

LocalStep == CopyDropped \/ CopyKept \/ CopyRead \/ CopyRequested

LEMMA LocalStart ==
  ASSUME FinalizerInv, NEW k \in Key, Start(k)
  PROVE  LocalStep
  <1>1. /\ cache[k] \in Certificate /\ key' = k /\ UNCHANGED <<certs, events, cache>>
        /\ pc = "idle"
    BY Types DEF Start
  <1>2. CASE UNCHANGED pc
    BY <1>2 DEF Start, LocalStep, CopyDropped
  <1>3. CASE cache[k].exists /\ local' = cache[k] /\ pc' = FirstStep(cache[k])
    <2>1. cache[k].deleting \in BOOLEAN /\ cache[k].finalizer \in BOOLEAN
      BY <1>1, VersionType
    <2>2. CASE cache[k].deleting
      <3>1. pc' = "deleteAcm"
        BY <1>3, <2>2 DEF FirstStep
      <3>2. QED
        BY <1>1, <1>3, <2>2, <3>1 DEF LocalStep, CopyRead, WorkingSteps
    <2>3. CASE ~cache[k].deleting /\ ~cache[k].finalizer
      <3>1. pc' = "addFinalizer"
        BY <1>3, <2>3 DEF FirstStep
      <3>2. QED
        BY <1>1, <1>3, <2>3, <3>1 DEF LocalStep, CopyRead, WorkingSteps
    <2>4. CASE ~cache[k].deleting /\ cache[k].finalizer
      <3>1. /\ pc' \in {"request", "compare"}
            /\ pc' = "request" => cache[k].status.arn = NoArn
        BY <1>3, <2>4 DEF FirstStep, AcquireStep
      <3>2. QED
        BY <1>1, <1>3, <2>4, <3>1 DEF LocalStep, CopyRead, Held
    <2>5. QED
      BY <2>1, <2>2, <2>3, <2>4
  <1>4. QED
    BY <1>2, <1>3 DEF Start

LEMMA LocalRequest ==
  ASSUME FinalizerInv, BornInv, Request, UNCHANGED job
  PROVE  LocalStep
  <1>1. local \in Certificate /\ local.status \in StatusType /\ key \in Key
    BY Types
  <1>2. CASE GotoWith("saveError", [local EXCEPT !.status.state = "Error"])
    <2>1. [local EXCEPT !.status.state = "Error"].status.arn = local.status.arn
      BY <1>1 DEF Certificate, StatusType
    <2>2. QED
      BY <1>2, <2>1 DEF Request, GotoWith, LocalStep, CopyKept, WorkingSteps,
         AcquiredSteps, SavedSteps, DeletingSteps
  <1>3. CASE /\ RequestCertificate(key, local.spec)
             /\ pc' = "save1" /\ key' = key
             /\ local' = [local EXCEPT !.status = Requested(local.status, nreq + 1)]
    <2>1. local'.status = Requested(local.status, nreq + 1)
      BY <1>1, <1>3 DEF Certificate
    <2>2. local'.status.arn = nreq + 1
      BY <1>1, <2>1 DEF Requested, StatusType
    <2>3. /\ nreq' = nreq + 1 /\ acm'[nreq + 1].key = key /\ acm'[nreq + 1].owner = "ours"
          /\ nreq + 1 \in LiveArns'
      BY <1>1, <1>3, ArnRequest
    <2>4. QED
      BY <1>3, <2>2, <2>3 DEF Request, LocalStep, CopyRequested
  <1>4. QED
    BY <1>2, <1>3 DEF Request

LEMMA LocalWorker ==
  ASSUME TrackedInv, Worker
  PROVE  LocalStep
  <1>1. FinalizerInv /\ BornInv /\ local \in Certificate /\ local.status \in StatusType
    BY Types DEF TrackedInv
  <1>2. CASE \E n \in Key : Start(n)
    BY <1>1, <1>2, LocalStart
  <1>3. CASE Request
    BY <1>1, <1>3, LocalRequest DEF Worker
  <1>4. CASE AddFinalizer
    <2> DEFINE o == [local EXCEPT !.finalizer = TRUE]
    <2>1. Stored(key, o).status.arn = local.status.arn
      BY <1>1 DEF Stored, Certificate
    <2>2. QED
      BY <1>4, <2>1 DEF AddFinalizer, Return, GotoWith, AcquireStep, LocalStep,
         CopyDropped, CopyKept, WorkingSteps, AcquiredSteps, SavedSteps, DeletingSteps
  <1>5. CASE UpdateCertificateInfo
    <2>1. \A records :
            [local EXCEPT !.status = WithDetail(local.status, local.status.arn, records)]
                .status.arn = local.status.arn
      BY <1>1 DEF WithDetail, Certificate, StatusType
    <2>2. QED
      BY <1>5, <2>1 DEF UpdateCertificateInfo, Abort, Goto, Return, GotoWith, locals,
         LocalStep, CopyDropped, CopyKept, WorkingSteps, AcquiredSteps, SavedSteps,
         DeletingSteps
  <1>6. CASE \/ DeleteAcm \/ RemoveFinalizer \/ SaveError \/ Compare \/ Save1 \/ Save2
             \/ Rollback \/ SyncDNSEndpoints \/ ListForCleanup \/ CleanupTags
             \/ CleanupPurge
    <2> USE DEF Return, Goto, Abort, locals, LocalStep, CopyDropped, CopyKept,
         WorkingSteps, AcquiredSteps, SavedSteps, DeletingSteps, acmVars
    <2>1. CASE DeleteAcm \/ RemoveFinalizer \/ SaveError \/ Compare
      BY <2>1 DEF DeleteAcm, RemoveFinalizer, SaveError, Compare
    <2>2. CASE Save1 \/ Save2 \/ Rollback
      BY <2>2 DEF Save1, Save2, Save, Rollback
    <2>3. CASE SyncDNSEndpoints \/ ListForCleanup \/ CleanupTags \/ CleanupPurge
      BY <2>3 DEF SyncDNSEndpoints, ListForCleanup, CleanupTags, CleanupPurge
    <2>4. QED
      BY <1>6, <2>1, <2>2, <2>3
  <1>7. QED
    BY <1>2, <1>3, <1>4, <1>5, <1>6 DEF Worker, ReconcileStep

LEMMA LocalNext ==
  ASSUME TrackedInv, Next
  PROVE  LocalStep
  <1>1. CASE UNCHANGED <<pc, key, local>>
    BY <1>1 DEF LocalStep, CopyDropped, CopyKept
  <1>2. CASE Job \/ Kube \/ Acm
    BY <1>1, <1>2 DEF Job, Kube, Acm, workerVars, locals
  <1>3. CASE User
    BY <1>1, <1>3, UserWrite DEF TrackedInv, UserOp, workerVars, locals
  <1>4. CASE Environment
    BY <1>1, <1>4 DEF Environment, OutsideDelete, Crash, workerVars, locals, LocalStep,
       CopyDropped
  <1>5. QED
    BY <1>2, <1>3, <1>4, LocalWorker DEF Next

-----------------------------------------------------------------------------
(***************************************************************************)
(* The parts of the invariant, one by one.                                 *)
(***************************************************************************)

\* Tags stay.
LEMMA TaggedKept ==
  ASSUME nreq \in Nat, ArnStep, NEW k, NEW a, Tagged(k, a)
  PROVE  Tagged(k, a)'
  BY DEF ArnStep, Tagged

LEMMA TagStep ==
  ASSUME TrackedInv, Next
  PROVE  TagInv'
  <1> SUFFICES ASSUME NEW k \in Key, NEW o \in Versions(k)' PROVE VersionTagged(k, o)'
    BY DEF TagInv
  <1>1. nreq \in Nat /\ ArnStep /\ StoreStep(k) /\ TagInv /\ LocalInv
    BY Types, ArnNext, StoreNext DEF TrackedInv
  <1>2. CASE o \in Versions(k)
    <2>1. VersionTagged(k, o)
      BY <1>1, <1>2 DEF TagInv
    <2>2. QED
      BY <1>1, <2>1, TaggedKept DEF VersionTagged
  <1>3. CASE o = certs'[k]
    <2>1. VersionTagged(k, certs[k])
      BY <1>1 DEF TagInv, Versions
    <2>2. CASE certs'[k].status.arn = NoArn
      BY <1>3, <2>2 DEF VersionTagged, Tagged
    <2>3. CASE /\ certs'[k].status.arn = certs[k].status.arn
               /\ certs[k].status.arn # NoArn => Pinned(k)'
      BY <1>1, <1>3, <2>1, <2>3, TaggedKept DEF VersionTagged, Pinned
    <2>4. CASE /\ k = key /\ pc \in WorkingSteps
               /\ certs'[k].status.arn = local.status.arn
               /\ Pinned(k)'
      <3>1. Tagged(k, local.status.arn)
        BY <1>1, <2>4 DEF LocalInv, WorkingSteps
      <3>2. QED
        BY <1>1, <1>3, <2>4, <3>1, TaggedKept DEF VersionTagged, Pinned
    <2>5. QED
      BY <1>1, <2>2, <2>3, <2>4 DEF StoreStep
  <1>4. QED
    BY <1>1, <1>2, <1>3 DEF StoreStep

LEMMA LocalInvStep ==
  ASSUME TrackedInv, Next
  PROVE  LocalInv'
  <1>1. nreq \in Nat /\ ArnStep /\ LocalStep /\ TagInv /\ LocalInv
    BY Types, ArnNext, LocalNext DEF TrackedInv
  <1>2. CASE CopyDropped
    BY <1>2 DEF CopyDropped, LocalInv
  <1>3. CASE CopyKept
    <2>1. Tagged(key, local.status.arn)'
      BY <1>1, <1>3, TaggedKept DEF CopyKept, LocalInv, Tagged
    <2>2. QED
      BY <1>1, <1>3, <2>1 DEF CopyKept, LocalInv
  <1>4. CASE CopyRead
    <2>1. VersionTagged(key', local')
      BY <1>1, <1>4 DEF CopyRead, TagInv, Versions
    <2>2. Tagged(key, local.status.arn)'
      BY <1>1, <2>1, TaggedKept DEF VersionTagged, Tagged, ArnStep
    <2>3. QED
      BY <1>4, <2>1, <2>2 DEF CopyRead, LocalInv, VersionTagged
  <1>5. CASE CopyRequested
    <2>1. nreq + 1 \in 1 .. nreq + 1
      BY <1>1
    <2>2. QED
      BY <1>5, <2>1 DEF CopyRequested, LocalInv, Tagged
  <1>6. QED
    BY <1>1, <1>2, <1>3, <1>4, <1>5 DEF LocalStep

\* An ARN that is out of use stays so: nothing reads it, and requests get
\* other ones.
LEMMA NotInUseKept ==
  ASSUME TrackedInv, Next, NEW a \in 1 .. nreq, NotInUse(a)
  PROVE  NotInUse(a)'
  <1>1. nreq \in Nat /\ a # NoArn /\ a # nreq + 1
    BY Types DEF TrackedInv, NoArn
  <1>2. ASSUME NEW k \in Key
        PROVE  /\ certs'[k].status.arn # a
               /\ \A o \in Versions(k)' : Held(o) => o.status.arn # a
    <2>1. StoreStep(k)
      BY StoreNext
    <2>2. certs'[k].status.arn # a
      BY <1>1, <2>1 DEF StoreStep, NotInUse
    <2>3. QED
      BY <2>1, <2>2 DEF StoreStep, NotInUse
  <1>3. ASSUME pc' \in WorkingSteps PROVE local'.status.arn # a
    <2>1. CASE CopyDropped
      BY <1>3, <2>1 DEF CopyDropped, WorkingSteps
    <2>2. CASE CopyKept
      BY <1>1, <1>3, <2>2 DEF CopyKept, NotInUse, TrackedInv, LocalInv
    <2>3. CASE CopyRead
      BY <1>3, <2>3 DEF CopyRead, NotInUse, Versions
    <2>4. CASE CopyRequested
      BY <1>1, <2>4 DEF CopyRequested
    <2>5. QED
      BY <2>1, <2>2, <2>3, <2>4, LocalNext DEF LocalStep
  <1>4. QED
    BY <1>2, <1>3 DEF NotInUse, Held

\* The lookup of the cleanup job: when there is no object, the ARN is out of
\* use (GetCertificateForNamespace).
LEMMA OrphanNotInUse ==
  ASSUME TrackedInv, NEW a \in 1 .. nreq, Orphan(a)
  PROVE  NotInUse(a)
  <1>1. nreq \in Nat /\ a # NoArn /\ a \in Arn /\ acm[a].key \in Key
    <2>1. nreq \in Nat /\ nreq <= MaxRequests /\ acm \in [Arn -> AcmCertificate]
      BY Types DEF TrackedInv, AcmTypeOK
    <2>2. a \in Arn /\ a # NoArn
      BY <2>1, MaxRequestsNat DEF Arn, NoArn
    <2>3. QED
      BY <2>1, <2>2 DEF AcmCertificate
  <1>2. ASSUME NEW k \in Key, NEW o \in Versions(k), o.status.arn = a
        PROVE  k = acm[a].key /\ o.exists /\ o.finalizer
    BY <1>1, <1>2 DEF TrackedInv, TagInv, VersionTagged, Tagged
  <1>3. ASSUME NEW k \in Key PROVE certs[k].status.arn # a
    BY <1>2 DEF Orphan, Versions
  <1>4. ASSUME NEW k \in Key, NEW o \in Versions(k), Held(o) PROVE o.status.arn # a
    <2>1. Pinned(k)
      BY <1>4 DEF TrackedInv, FinalizerInv, HeldInv, HeldOK, Versions, Held, Pinned
    <2>2. QED
      BY <1>2, <2>1 DEF Orphan, Pinned
  <1>5. ASSUME pc \in WorkingSteps PROVE local.status.arn # a
    <2>1. certs[key].exists /\ key \in Key
      BY <1>5, Types DEF TrackedInv, FinalizerInv, FinalizerHeld
    <2>2. local.status.arn = a => acm[a].key = key
      BY <1>1, <1>5 DEF TrackedInv, LocalInv, Tagged, WorkingSteps
    <2>3. QED
      BY <2>1, <2>2 DEF Orphan
  <1>6. QED
    BY <1>3, <1>4, <1>5 DEF NotInUse

-----------------------------------------------------------------------------
\* A job's steps: an ARN is taken up from the tags, and condemned by the
\* lookup only (cleanupOrphanACMCertificates).
LEMMA JobStepArn ==
  ASSUME TrackedInv, Next, NEW r \in Replica
  PROVE  /\ job'[r].pc \in {"get", "delete"} =>
              job'[r].arn \in 1 .. nreq /\ acm[job'[r].arn].owner = "ours"
         /\ job'[r].pc = "delete" =>
              /\ job'[r].arn = job[r].arn
              /\ \/ job[r].pc = "delete"
                 \/ /\ job[r].pc = "get" /\ Orphan(job[r].arn)
                    /\ UNCHANGED <<kubeVars, workerVars>>
  <1>1. /\ job \in [Replica -> JobState] /\ BornInv
        /\ job[r].pc \in {"get", "delete"} =>
             job[r].arn \in 1 .. nreq /\ acm[job[r].arn].owner = "ours"
    BY Types DEF TrackedInv, JobTypeOK, JobsInv, JobOK
  <1>2. CASE job'[r] = job[r]
    BY <1>1, <1>2
  <1>3. CASE job'[r] = IdleJob
    BY <1>3 DEF IdleJob
  <1>4. ASSUME NEW n \in Replica, JobStep(n), UNCHANGED workerVars
        PROVE  /\ job'[r].pc \in {"get", "delete"} =>
                    job'[r].arn \in 1 .. nreq /\ acm[job'[r].arn].owner = "ours"
               /\ job'[r].pc = "delete" =>
                    /\ job'[r].arn = job[r].arn
                    /\ \/ job[r].pc = "delete"
                       \/ /\ job[r].pc = "get" /\ Orphan(job[r].arn)
                          /\ UNCHANGED <<kubeVars, workerVars>>
    <2>1. CASE n # r
      <3>1. job'[r] = job[r]
        BY <1>1, <1>4, <2>1 DEF JobStep, JobList, JobListFails, JobTags, JobGet,
           JobDelete, JobLoop
      <3>2. QED
        BY <1>2, <3>1
    <2>2. CASE n = r /\ \E rest : JobLoop(r, rest)
      <3>1. job'[r].pc \in {"idle", "tags"}
        BY <1>1, <2>2 DEF JobLoop, IdleJob
      <3>2. QED
        BY <3>1
    <2>3. CASE n = r /\ JobListFails(r)
      BY <1>2, <2>3 DEF JobListFails
    <2>4. ASSUME n = r, NEW a \in LiveArns, Owned(a), NEW rest,
                 job' = [job EXCEPT ![r] = [pc |-> "get", todo |-> rest, arn |-> a]]
          PROVE  job'[r].pc = "get" /\ job'[r].arn \in 1 .. nreq
                 /\ acm[job'[r].arn].owner = "ours"
      BY <1>1, <2>4 DEF BornInv, Owned
    <2>5. CASE /\ n = r /\ job[r].pc = "get" /\ Orphan(job[r].arn) /\ UNCHANGED kubeVars
               /\ job' = [job EXCEPT ![r].pc = "delete"]
      <3>1. job'[r].arn = job[r].arn
        BY <1>1, <2>5 DEF JobState
      <3>2. QED
        BY <1>1, <1>4, <2>5, <3>1
    <2>6. QED
      <3>1. CASE JobTags(n)
        BY <2>1, <2>2, <2>4, <3>1 DEF JobTags
      <3>2. CASE JobGet(n)
        BY <2>1, <2>2, <2>5, <3>2 DEF JobGet
      <3>3. CASE JobList(n) \/ JobDelete(n)
        BY <2>1, <2>2, <3>3 DEF JobList, JobDelete
      <3>4. QED
        BY <1>4, <2>1, <2>3, <3>1, <3>2, <3>3 DEF JobStep
  <1>5. CASE Job
    BY <1>4, <1>5 DEF Job
  <1>6. CASE Worker \/ Kube \/ Acm \/ User
    <2>1. UNCHANGED job
      BY <1>6, UserWrite DEF Worker, Kube, Acm, UserOp, TrackedInv
    <2>2. QED
      BY <1>2, <2>1
  <1>7. CASE Environment
    <2>1. CASE \E a \in Arn : OutsideDelete(a)
      BY <1>2, <2>1 DEF OutsideDelete
    <2>2. CASE \E n \in Replica : Crash(n)
      BY <1>1, <1>2, <1>3, <2>2 DEF Crash
    <2>3. QED
      BY <1>7, <2>1, <2>2 DEF Environment
  <1>8. QED
    BY <1>5, <1>6, <1>7 DEF Next

LEMMA JobsInvStep ==
  ASSUME TrackedInv, Next
  PROVE  JobsInv'
  <1> SUFFICES ASSUME NEW r \in Replica PROVE JobOK(r)'
    BY DEF JobsInv
  <1>1. nreq \in Nat /\ ArnStep
    BY Types, ArnNext DEF TrackedInv
  <1>2. job'[r].pc \in {"get", "delete"} =>
          job'[r].arn \in 1 .. nreq /\ acm[job'[r].arn].owner = "ours"
    BY JobStepArn
  <1>3. \A a \in 1 .. nreq : a \in 1 .. nreq' /\ acm'[a].owner = acm[a].owner
    BY <1>1 DEF ArnStep
  <1>4. ASSUME job'[r].pc = "delete" PROVE NotInUse(job[r].arn)'
    <2>1. PICK a \in 1 .. nreq : a = job[r].arn /\ a = job'[r].arn
      BY <1>2, <1>4, JobStepArn
    <2>2. NotInUse(a)
      <3>1. CASE job[r].pc = "delete"
        BY <2>1, <3>1 DEF TrackedInv, JobsInv, JobOK
      <3>2. CASE Orphan(job[r].arn)
        BY <2>1, <3>2, OrphanNotInUse
      <3>3. QED
        BY <1>4, <3>1, <3>2, JobStepArn
    <2>3. NotInUse(a)'
      BY <2>2, NotInUseKept
    <2>4. QED
      BY <2>1, <2>3 DEF NotInUse
  <1>5. QED
    BY <1>2, <1>3, <1>4 DEF JobOK

-----------------------------------------------------------------------------
\* The reconciler's cleanup compares with the ARN that is saved.
LEMMA PurgeOthers ==
  ASSUME TrackedInv, Next, UNCHANGED <<pc, key, local, todo, cur>>
  PROVE  PurgeInv'
  <1>1. nreq \in Nat /\ key \in Key /\ ArnStep /\ StoreStep(key) /\ PurgeInv
    BY Types, ArnNext, StoreNext DEF TrackedInv
  <1>2. pc \in SavedSteps => certs'[key].status.arn = local.status.arn
    BY <1>1 DEF StoreStep, PurgeInv, SavedSteps, WorkingSteps
  <1>3. \A a \in 1 .. nreq : a \in 1 .. nreq'
    BY <1>1 DEF ArnStep
  <1>4. QED
    BY <1>1, <1>2, <1>3 DEF PurgeInv, ArnStep

LEMMA PurgeNotSaved ==
  ASSUME pc' \notin SavedSteps
  PROVE  PurgeInv'
  BY DEF PurgeInv, SavedSteps

LEMMA PurgeWorker ==
  ASSUME TrackedInv, Worker
  PROVE  PurgeInv'
  <1>1. /\ nreq \in Nat /\ key \in Key /\ PurgeInv /\ BornInv /\ KubeTypeOK
        /\ local \in Certificate /\ certs[key] \in Certificate
    BY Types DEF TrackedInv
  <1>2. CASE SyncDNSEndpoints \/ ListForCleanup
    <2>1. CASE pc' = "idle"
      BY <2>1, PurgeNotSaved DEF SavedSteps
    <2>2. CASE SyncDNSEndpoints /\ pc' = "list" /\ UNCHANGED locals
      BY <1>1, <2>2 DEF SyncDNSEndpoints, PurgeInv, SavedSteps, locals
    <2>3. CASE ListForCleanup /\ pc' = "tags"
      BY <1>1, <2>3 DEF ListForCleanup, PurgeInv, SavedSteps, Candidates, Return
    <2>4. QED
      BY <1>2, <2>1, <2>2, <2>3 DEF SyncDNSEndpoints, ListForCleanup, Return
  <1>3. CASE CleanupTags
    <2>1. CASE pc' = "idle"
      BY <2>1, PurgeNotSaved DEF SavedSteps
    <2>2. ASSUME NEW a \in todo, a \in LiveArns,
                 IF Superseded(a) THEN pc' = "purge" /\ cur' = a
                                  ELSE UNCHANGED <<pc, cur>>,
                 todo' = todo \ {a}, UNCHANGED <<key, local>>
          PROVE  PurgeInv'
      <3>1. /\ certs' = certs /\ acm' = acm /\ nreq' = nreq /\ pc = "tags"
            /\ local.status.arn \notin todo /\ certs[key].status.arn = local.status.arn
        BY <1>1, <1>3 DEF CleanupTags, acmVars, PurgeInv, SavedSteps
      <3>2. a \in 1 .. nreq /\ a # local.status.arn
        BY <1>1, <2>2, <3>1 DEF BornInv
      <3>3. CASE Superseded(a)
        BY <2>2, <3>1, <3>2, <3>3 DEF PurgeInv, Superseded
      <3>4. CASE ~Superseded(a)
        BY <2>2, <3>1, <3>4 DEF PurgeInv
      <3>5. QED
        BY <3>3, <3>4
    <2>3. QED
      BY <1>3, <2>1, <2>2 DEF CleanupTags, Return
  <1>4. CASE CleanupPurge
    BY <1>1, <1>4 DEF CleanupPurge, PurgeInv, SavedSteps
  <1>5. CASE Save2
    <2>1. CASE pc' \in {"idle", "rollback"}
      BY <2>1, PurgeNotSaved DEF SavedSteps
    <2>2. CASE ApplyStatus(key, local.status) /\ Goto("dns")
      <3>1. certs'[key].status = local.status
        <4> DEFINE o == [certs[key] EXCEPT !.status = local.status]
        <4>1. CASE NoWrite /\ certs[key].status = local.status
          BY <4>1 DEF NoWrite
        <4>2. CASE Write(key, o)
          <5>1. o.status = local.status /\ o \in Certificate
            BY <1>1, WithStatusType, VersionType DEF Certificate
          <5>2. certs'[key] = Stored(key, o)
            BY <1>1, <4>2 DEF Write, KubeTypeOK
          <5>3. QED
            BY <5>1, <5>2 DEF Stored, Certificate
        <4>3. QED
          BY <2>2, <4>1, <4>2 DEF ApplyStatus
      <3>2. QED
        BY <2>2, <3>1 DEF Goto, locals, PurgeInv
    <2>3. QED
      BY <1>5, <2>1, <2>2 DEF Save2, Save, Abort, Return, Goto
  <1>6. CASE \/ \E n \in Key : Start(n)
             \/ AddFinalizer \/ DeleteAcm \/ RemoveFinalizer \/ Request \/ SaveError
             \/ Compare \/ Save1 \/ UpdateCertificateInfo \/ Rollback
    <2>1. CASE \E n \in Key : Start(n)
      <3>1. pc' \in {"idle", "addFinalizer", "deleteAcm", "request", "compare"}
        <4> PICK n \in Key : Start(n)
          BY <2>1
        <4>1. cache[n] \in Certificate
          BY Types DEF TrackedInv
        <4>2. QED
          BY <4>1 DEF Start, FirstStep, AcquireStep, Certificate
      <3>2. QED
        BY <3>1, PurgeNotSaved DEF SavedSteps
    <2>2. CASE AddFinalizer \/ DeleteAcm \/ RemoveFinalizer \/ Request \/ SaveError
      BY <2>2, PurgeNotSaved DEF AddFinalizer, AcquireStep, DeleteAcm, RemoveFinalizer,
         Request, SaveError, Return, Goto, GotoWith, SavedSteps
    <2>3. CASE Compare \/ Save1 \/ UpdateCertificateInfo \/ Rollback
      BY <2>3, PurgeNotSaved DEF Compare, Save1, Save, UpdateCertificateInfo, Rollback,
         Abort, Return, Goto, GotoWith, SavedSteps
    <2>4. QED
      BY <1>6, <2>1, <2>2, <2>3
  <1>7. QED
    BY <1>2, <1>3, <1>4, <1>5, <1>6 DEF Worker, ReconcileStep

LEMMA PurgeStep ==
  ASSUME TrackedInv, Next
  PROVE  PurgeInv'
  <1>1. CASE Job \/ Kube \/ Acm
    BY <1>1, PurgeOthers DEF Job, Kube, Acm, workerVars, locals
  <1>2. CASE User
    BY <1>2, PurgeOthers, UserWrite DEF TrackedInv, UserOp, workerVars, locals
  <1>3. CASE Environment
    <2>1. CASE pc' = "idle"
      BY <2>1, PurgeNotSaved DEF SavedSteps
    <2>2. CASE UNCHANGED workerVars
      BY <2>2, PurgeOthers DEF workerVars, locals
    <2>3. QED
      BY <1>3, <2>1, <2>2 DEF Environment, OutsideDelete, Crash
  <1>4. QED
    BY <1>1, <1>2, <1>3, PurgeWorker DEF Next

-----------------------------------------------------------------------------
LEMMA TrackedInit == Init => TrackedInv
  <1> SUFFICES ASSUME Init PROVE TrackedInv
    OBVIOUS
  <1>1. FinalizerInv
    BY FinalizerInit
  <1>2. BornInv
    <2> SUFFICES ASSUME NEW a \in LiveArns PROVE a \in 1 .. nreq
      BY DEF BornInv
    <2>1. PICK k \in Key :
            /\ acm = [b \in Arn |-> IF b <= NForeign
                                       THEN NewAcmCertificate("other", k, "", {})
                                       ELSE Unborn(k)]
            /\ nreq = NForeign
      BY DEF Init, AcmInit
    <2>2. a \in Arn /\ acm[a].st # "unborn"
      BY DEF LiveArns
    <2>3. Unborn(k).st = "unborn"
      BY DEF Unborn, NewAcmCertificate
    <2>4. a <= NForeign
      BY <2>1, <2>2, <2>3
    <2>5. a \in Nat /\ 1 <= a /\ NForeign \in Nat
      BY <2>2, NForeignNat, MaxRequestsNat DEF Arn
    <2>6. a \in 1 .. NForeign
      BY <2>4, <2>5
    <2>7. QED
      BY <2>1, <2>6
  <1>3. TagInv
    <2> SUFFICES ASSUME NEW k \in Key, NEW o \in Versions(k) PROVE VersionTagged(k, o)
      BY DEF TagInv
    <2>1. certs[k] = Gone(0) /\ cache[k] = Gone(0) /\ events[k] = <<>> /\ Len(<<>>) = 0
      BY DEF Init, KubeInit
    <2>2. o = Gone(0)
      BY <2>1 DEF Versions
    <2>3. QED
      BY <2>2 DEF VersionTagged, Tagged, Gone, EmptyStatus
  <1>4. LocalInv /\ PurgeInv
    BY DEF Init, ReconcilerInit, LocalInv, PurgeInv, SavedSteps
  <1>5. JobsInv
    BY DEF Init, JobInit, IdleJob, JobsInv, JobOK
  <1>6. QED
    BY <1>1, <1>2, <1>3, <1>4, <1>5 DEF TrackedInv

LEMMA TrackedStep == TrackedInv /\ [Next]_vars => TrackedInv'
  <1>1. ASSUME TrackedInv, Next PROVE TrackedInv'
    <2>1. FinalizerInv' /\ BornInv'
      BY <1>1, FinalizerStep, ArnNext DEF TrackedInv, ArnStep
    <2>2. QED
      BY <1>1, <2>1, TagStep, LocalInvStep, JobsInvStep, PurgeStep DEF TrackedInv
  <1>2. ASSUME TrackedInv, UNCHANGED vars PROVE TrackedInv'
    <2>1. FinalizerInv'
      BY <1>2, FinalizerStep DEF TrackedInv
    <2>2. UNCHANGED <<certs, events, cache, acm, nreq, pc, key, local, todo, cur, job>>
      BY <1>2 DEF vars, acmVars, kubeVars, workerVars, locals
    <2>3. BornInv' /\ LocalInv' /\ PurgeInv'
      BY <1>2, <2>2 DEF TrackedInv, BornInv, LiveArns, LocalInv, Tagged, PurgeInv
    <2>4. TagInv'
      BY <1>2, <2>2 DEF TrackedInv, TagInv, VersionTagged, Tagged, Versions
    <2>5. JobsInv'
      BY <1>2, <2>2 DEF TrackedInv, JobsInv, JobOK, NotInUse, Versions, Held
    <2>6. QED
      BY <2>1, <2>3, <2>4, <2>5 DEF TrackedInv
  <1>3. QED
    BY <1>1, <1>2

\* For any number of keys, replicas with a cleanup job, stale reads, user
\* operations and faults: neither the reconciler's cleanup nor a job is ever
\* about to delete the ACM certificate that the status of a Certificate
\* names (cleanupACMCertificates, cleanupOrphanACMCertificates).
THEOREM TrackedSparedAlways == Spec => []TrackedSpared
  <1>1. TrackedInv => TrackedSpared
    <2> SUFFICES ASSUME TrackedInv, NEW k \in Key, certs[k].exists,
                        NEW a \in Condemned, certs[k].status.arn = a
                 PROVE  FALSE
      BY DEF TrackedSpared
    <2>1. a \in Arn /\ a # NoArn
      BY MaxRequestsNat DEF Condemned, Arn, NoArn
    <2>2. CASE pc = "purge" /\ cur = a
      <3>1. acm[a].key = k
        BY <2>1 DEF TrackedInv, TagInv, Versions, VersionTagged, Tagged
      <3>2. QED
        BY <2>2, <3>1 DEF TrackedInv, PurgeInv, SavedSteps
    <2>3. CASE \E r \in Replica : job[r].pc = "delete" /\ job[r].arn = a
      BY <2>3 DEF TrackedInv, JobsInv, JobOK, NotInUse
    <2>4. QED
      BY <2>2, <2>3 DEF Condemned
  <1>2. QED
    BY <1>1, TrackedInit, TrackedStep, PTL DEF Spec

-----------------------------------------------------------------------------
(***************************************************************************)
(* Certificates of other owners.                                           *)
(***************************************************************************)
ForeignInv ==
    /\ TrackedInv
    /\ NForeign <= nreq
    /\ ForeignSpared
    /\ \A a \in 1 .. NForeign : acm[a].owner = "other"

\* What anybody deletes bears our owner tag.
LEMMA DeletesOurs ==
  ASSUME TrackedInv, Next
  PROVE  \/ \E a \in Arn \cup {NoArn} :
              DeleteCertificate(a) /\ (a # NoArn => acm[a].owner = "ours")
         \/ UNCHANGED acmVars
         \/ \E spec : RequestCertificate(key, spec)
         \/ Acm
  <1> DEFINE Ours == \E a \in Arn \cup {NoArn} :
                        DeleteCertificate(a) /\ (a # NoArn => acm[a].owner = "ours")
  <1>1. /\ local.status.arn \in Arn \cup {NoArn}
        /\ pc # "idle" => (local.status.arn # NoArn => acm[local.status.arn].owner = "ours")
    BY Types DEF TrackedInv, LocalInv, Tagged, StatusType
  <1>2. CASE Worker
    <2>1. CASE DeleteAcm \/ Rollback
      <3>1. DeleteCertificate(local.status.arn) => Ours
        BY <1>1, <2>1 DEF DeleteAcm, Rollback
      <3>2. QED
        BY <2>1, <3>1 DEF DeleteAcm, Rollback
    <2>2. CASE CleanupPurge
      <3>1. cur \in Arn \cup {NoArn} /\ acm[cur].owner = "ours"
        BY <2>2 DEF CleanupPurge, TrackedInv, PurgeInv, FinalizerInv, TypeInv, WorkerOK,
           ReconcilerTypeOK
      <3>2. QED
        BY <2>2, <3>1 DEF CleanupPurge
    <2>3. CASE Request
      BY <2>3 DEF Request
    <2>4. CASE \/ \E n \in Key : Start(n)
               \/ AddFinalizer \/ RemoveFinalizer \/ SaveError \/ Compare \/ Save1
               \/ UpdateCertificateInfo \/ Save2 \/ SyncDNSEndpoints \/ ListForCleanup
               \/ CleanupTags
      BY <2>4 DEF Start, AddFinalizer, RemoveFinalizer, SaveError, Compare, Save1, Save2,
         Save, UpdateCertificateInfo, SyncDNSEndpoints, ListForCleanup, CleanupTags
    <2>5. QED
      BY <1>2, <2>1, <2>2, <2>3, <2>4 DEF Worker, ReconcileStep
  <1>3. CASE Job
    <2> PICK r \in Replica : JobStep(r)
      BY <1>3 DEF Job
    <2>1. CASE JobDelete(r)
      <3>1. job[r].arn \in Arn \cup {NoArn} /\ acm[job[r].arn].owner = "ours"
        BY <2>1, Types DEF JobDelete, TrackedInv, JobsInv, JobOK, JobTypeOK, JobState
      <3>2. QED
        BY <2>1, <3>1 DEF JobDelete
    <2>2. QED
      BY <2>1 DEF JobStep, JobList, JobListFails, JobTags, JobGet
  <1>4. CASE Environment
    BY <1>4 DEF Environment, OutsideDelete, Crash
  <1>5. CASE Kube \/ User
    BY <1>5, UserWrite DEF Kube, UserOp, TrackedInv
  <1>6. QED
    BY <1>2, <1>3, <1>4, <1>5 DEF Next

LEMMA ForeignStep == ForeignInv /\ [Next]_vars => ForeignInv'
  <1> SUFFICES ASSUME ForeignInv, [Next]_vars PROVE ForeignInv'
    OBVIOUS
  <1>1. TrackedInv'
    BY TrackedStep DEF ForeignInv
  <1>2. /\ nreq \in Nat /\ nreq <= MaxRequests /\ acm \in [Arn -> AcmCertificate]
        /\ NForeign \in Nat /\ NForeign <= nreq
        /\ TrackedInv /\ FinalizerInv /\ BornInv /\ key \in Key
    BY Types, NForeignNat, MaxRequestsNat DEF ForeignInv, TrackedInv, AcmTypeOK
  <1>3. \A a \in 1 .. NForeign :
          /\ a \in 1 .. nreq /\ a \in Arn /\ a # nreq + 1 /\ a \in LiveArns
          /\ acm[a].owner = "other"
    BY <1>2, MaxRequestsNat DEF Arn, ForeignInv, ForeignSpared
  <1>4. CASE Next
    <2>1. ArnStep
      BY <1>2, <1>4, ArnNext
    <2>2. \A a \in 1 .. NForeign : acm'[a].owner = "other"
      BY <1>3, <2>1 DEF ArnStep
    <2>3. NForeign <= nreq'
      BY <1>2, <2>1 DEF ArnStep
    <2>4. ASSUME NEW a \in 1 .. NForeign PROVE a \in LiveArns'
      <3>1. ASSUME acm'[a] = acm[a] PROVE a \in LiveArns'
        BY <1>3, <3>1 DEF LiveArns
      <3>2. ASSUME NEW b, DeleteCertificate(b), b # NoArn => acm[b].owner = "ours"
            PROVE  a \in LiveArns'
        <4>1. a # b
          BY <1>3, <3>2 DEF Arn, NoArn
        <4>2. acm'[a] = acm[a]
          BY <1>2, <1>3, <3>2, <4>1 DEF DeleteCertificate
        <4>3. QED
          BY <3>1, <4>2
      <3>3. ASSUME NEW spec, RequestCertificate(key, spec) PROVE a \in LiveArns'
        BY <1>2, <1>3, <3>1, <3>3 DEF RequestCertificate
      <3>4. ASSUME Acm PROVE a \in LiveArns'
        <4> PICK b \in Arn : \/ RecordsReady(b)
                            \/ Issue(b, Published)
                            \/ \E s \in AcmStatus : Lapse(b, s)
          BY <3>4 DEF Acm
        <4>1. CASE a # b
          BY <1>2, <1>3, <3>1, <4>1 DEF RecordsReady, Issue, Lapse
        <4>2. CASE a = b
          <5>1. acm[a] \in AcmCertificate /\ acm[a].owner = "other"
            BY <1>2, <1>3
          <5>2. Issue(a, Published)
            BY <4>2, <5>1 DEF RecordsReady, Lapse
          <5>3. acm'[a] = [acm[a] EXCEPT !.st = "ISSUED", !.issued = TRUE]
            BY <1>2, <1>3, <5>2 DEF Issue
          <5>4. acm'[a].st = "ISSUED"
            BY <5>1, <5>3 DEF AcmCertificate
          <5>5. QED
            BY <1>3, <5>4 DEF LiveArns
        <4>3. QED
          BY <4>1, <4>2
      <3>5. QED
        BY <1>2, <1>4, <3>1, <3>2, <3>3, <3>4, DeletesOurs DEF acmVars
    <2>5. QED
      BY <1>1, <2>2, <2>3, <2>4 DEF ForeignInv, ForeignSpared
  <1>5. CASE UNCHANGED vars
    BY <1>1, <1>5 DEF ForeignInv, ForeignSpared, LiveArns, vars, acmVars
  <1>6. QED
    BY <1>4, <1>5

LEMMA ForeignInit == Init => ForeignInv
  <1> SUFFICES ASSUME Init PROVE ForeignInv
    OBVIOUS
  <1>1. TrackedInv
    BY TrackedInit
  <1>2. PICK k \in Key :
          acm = [b \in Arn |-> IF b <= NForeign
                                  THEN NewAcmCertificate("other", k, "", {})
                                  ELSE Unborn(k)]
    BY DEF Init, AcmInit
  <1>3. NForeign \in Nat /\ NForeign <= MaxRequests /\ MaxRequests \in Nat
    BY NForeignNat, MaxRequestsNat
  <1>4. ASSUME NEW a \in 1 .. NForeign PROVE a \in LiveArns /\ acm[a].owner = "other"
    <2>1. a \in Arn /\ a <= NForeign
      BY <1>3 DEF Arn
    <2>2. acm[a] = NewAcmCertificate("other", k, "", {})
      BY <1>2, <2>1
    <2>3. acm[a].st = "PENDING_VALIDATION" /\ acm[a].owner = "other"
      <3>1. ASSUME NEW n
            PROVE  /\ NewAcmCertificate("other", k, "", n).st = "PENDING_VALIDATION"
                   /\ NewAcmCertificate("other", k, "", n).owner = "other"
        BY DEF NewAcmCertificate
      <3>2. QED
        BY <2>2, <3>1, Zenon
    <2>4. QED
      BY <2>1, <2>3 DEF LiveArns
  <1>5. NForeign <= nreq
    <2>1. nreq = NForeign
      BY DEF Init, AcmInit
    <2>2. QED
      BY <1>3, <2>1
  <1>6. ForeignSpared
    BY <1>4 DEF ForeignSpared
  <1>7. QED
    BY <1>1, <1>4, <1>5, <1>6 DEF ForeignInv

\* For every value of the constants: no certificate of another owner is ever
\* deleted, whatever namespace and name tags it bears (the owner tag checks
\* of cleanupACMCertificates and cleanupOrphanACMCertificates).
THEOREM ForeignSparedAlways == Spec => []ForeignSpared
  <1>1. ForeignInv => ForeignSpared
    BY DEF ForeignInv
  <1>2. QED
    BY <1>1, ForeignInit, ForeignStep, PTL DEF Spec
=============================================================================
