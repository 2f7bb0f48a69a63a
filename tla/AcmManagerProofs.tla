-------------------------- MODULE AcmManagerProofs --------------------------
(***************************************************************************)
(* Theorems about AcmManager, for every set of keys, specifications and    *)
(* replicas, every bound and every set of faults.                          *)
(***************************************************************************)
EXTENDS AcmManager, TLAPS

-----------------------------------------------------------------------------
(***************************************************************************)
(* Types of the operators the actions are built from.                      *)
(***************************************************************************)

\* The absence of an object is a version of it (Gone).
LEMMA GoneType == \A v \in Nat : Gone(v) \in Certificate
  BY DEF Gone, Certificate, EmptyStatus, StatusType, CertStatus, NoArn, NoSpec

\* So is a new object (Fresh).
LEMMA FreshType ==
  \A v \in Nat, spec \in Specs : Fresh(v, spec) \in Certificate
  BY DEF Fresh, Certificate, EmptyStatus, StatusType, CertStatus, NoArn

\* Storing an object keeps its type and moves its version on (Stored).
LEMMA StoredType ==
  ASSUME certs \in [Key -> Certificate], NEW k \in Key, NEW o \in Certificate
  PROVE  Stored(k, o) \in Certificate
  BY DEF Stored, Certificate

\* A write keeps the types of the store and of the watch stream (Write).
LEMMA WriteType ==
  ASSUME KubeTypeOK, NEW k \in Key, NEW o \in Certificate, Write(k, o)
  PROVE  /\ certs' \in [Key -> Certificate]
         /\ events' \in [Key -> Seq(Certificate)]
  BY StoredType DEF Write, KubeTypeOK

\* An object with a new status is an object (updateWithStatus).
LEMMA WithStatusType ==
  ASSUME NEW o \in Certificate, NEW status \in StatusType
  PROVE  [o EXCEPT !.status = status] \in Certificate
  BY DEF Certificate

\* A status apply keeps the types too (updateWithStatus).
LEMMA ApplyStatusType ==
  ASSUME KubeTypeOK, NEW k \in Key, NEW status \in StatusType,
         ApplyStatus(k, status)
  PROVE  /\ certs' \in [Key -> Certificate]
         /\ events' \in [Key -> Seq(Certificate)]
  <1>1. certs[k] \in Certificate
    BY DEF KubeTypeOK
  <1>2. CASE certs[k].status = status
    BY <1>2 DEF ApplyStatus, NoWrite, KubeTypeOK
  <1>3. CASE certs[k].status # status
    BY <1>1, <1>3, WithStatusType, WriteType DEF ApplyStatus
  <1>4. QED
    BY <1>2, <1>3

\* The names on a certificate requested for a spec are domains
\* (newRequestCertificateInput).
LEMMA NamesType ==
  \A spec \in Specs : AcmNames(spec) \in SUBSET Domain /\ spec.cn \in Domain
  BY SpecsAssumption DEF AcmNames, ToSet

\* A request keeps the type of the account (requestACMCertificate).
LEMMA RequestType ==
  ASSUME AcmTypeOK, NEW k \in Key, NEW spec \in Specs,
         RequestCertificate(k, spec)
  PROVE  AcmTypeOK' /\ nreq + 1 \in Arn
  <1>1. nreq + 1 \in Arn
    BY MaxRequestsNat DEF AcmTypeOK, RequestCertificate, Arn
  <1>2. NewAcmCertificate("ours", k, spec.cn, AcmNames(spec)) \in AcmCertificate
    BY NamesType DEF NewAcmCertificate, AcmCertificate, AcmStatus
  <1>3. QED
    BY <1>1, <1>2, MaxRequestsNat DEF AcmTypeOK, RequestCertificate

\* A deletion keeps the type of the account (deleteACMCertificate).
LEMMA DeleteType ==
  ASSUME AcmTypeOK, NEW a, DeleteCertificate(a)
  PROVE  AcmTypeOK'
  BY DEF AcmTypeOK, DeleteCertificate, LiveArns, AcmCertificate

\* A fault stays within the budget (Fault).
LEMMA FaultType ==
  ASSUME faults \in 0 .. MaxFaults, NEW site, Fault(site) \/ NoFault
  PROVE  faults' \in 0 .. MaxFaults
  BY MaxFaultsNat DEF Fault, NoFault

-----------------------------------------------------------------------------
(***************************************************************************)
(* Type correctness.  TypeOK is not inductive: a request is only well      *)
(* typed for the spec of an object that exists, and the local copy is one  *)
(* while Reconcile runs.                                                   *)
(***************************************************************************)
WorkerOK == ReconcilerTypeOK /\ (pc # "idle" => local.exists)

TypeInv ==
    /\ AcmTypeOK
    /\ KubeTypeOK
    /\ WorkerOK
    /\ JobTypeOK
    /\ faults \in 0 .. MaxFaults
    /\ userOps \in 0 .. MaxUserOps

\* Returning from Reconcile (every return of Reconcile).
LEMMA ReturnType ==
  ASSUME WorkerOK, queue \subseteq Key, NEW again, Return(again),
         UNCHANGED staleReads
  PROVE  WorkerOK' /\ queue' \subseteq Key
  BY GoneType DEF WorkerOK, ReconcilerTypeOK, Return, ResetLocals, NoArn

\* Going on to the next call (the main path of Reconcile).
LEMMA GotoType ==
  ASSUME WorkerOK, queue \subseteq Key, pc # "idle",
         NEW step \in WorkingSteps \cup DeletingSteps, Goto(step),
         UNCHANGED staleReads
  PROVE  WorkerOK' /\ queue' \subseteq Key
  BY DEF WorkerOK, ReconcilerTypeOK, Goto, locals

\* Going on with a changed local copy (the status fields Reconcile sets).
LEMMA GotoWithType ==
  ASSUME WorkerOK, queue \subseteq Key,
         NEW step \in WorkingSteps \cup DeletingSteps,
         NEW l \in Certificate, l.exists, GotoWith(step, l),
         UNCHANGED staleReads
  PROVE  WorkerOK' /\ queue' \subseteq Key
  BY DEF WorkerOK, ReconcilerTypeOK, GotoWith

\* Giving up, with or without a rollback (lines 182-185, 193-196, 203-206).
LEMMA AbortType ==
  ASSUME WorkerOK, queue \subseteq Key, pc # "idle", Abort,
         UNCHANGED staleReads
  PROVE  WorkerOK' /\ queue' \subseteq Key
  BY ReturnType, GotoType DEF Abort, WorkingSteps

LEMMA TypeInit == Init => TypeInv
  <1> SUFFICES ASSUME Init PROVE TypeInv
    OBVIOUS
  <1> USE DEF Init
  <1>1. AcmTypeOK
    <2>1. \A k \in Key : /\ NewAcmCertificate("other", k, "", {}) \in AcmCertificate
                         /\ Unborn(k) \in AcmCertificate
      BY DEF NewAcmCertificate, Unborn, AcmCertificate, AcmStatus
    <2>2. nreq \in 0 .. MaxRequests
      BY NForeignNat DEF AcmInit
    <2>3. acm \in [Arn -> AcmCertificate]
      BY <2>1 DEF AcmInit
    <2>4. QED
      BY <2>2, <2>3 DEF AcmTypeOK
  <1>2. KubeTypeOK
    BY GoneType DEF KubeInit, KubeTypeOK, NoDns, DnsEndpoint
  <1>3. WorkerOK
    <2>1. Gone(0) \in Certificate
      BY GoneType
    <2>2. staleReads \in 0 .. MaxStaleReads
      BY MaxStaleReadsNat DEF ReconcilerInit
    <2>3. QED
      BY <2>1, <2>2, Zenon DEF ReconcilerInit, WorkerOK, ReconcilerTypeOK
  <1>4. JobTypeOK
    BY DEF JobInit, JobTypeOK, JobState, IdleJob, NoArn
  <1>5. QED
    BY <1>1, <1>2, <1>3, <1>4, MaxFaultsNat, MaxUserOpsNat DEF TypeInv

LEMMA StartType ==
  ASSUME TypeInv, NEW k \in Key, Start(k), UNCHANGED <<job, userOps>>
  PROVE  TypeInv'
  <1>1. AcmTypeOK' /\ JobTypeOK' /\ faults' \in 0 .. MaxFaults /\ userOps' \in 0 .. MaxUserOps
    BY DEF TypeInv, Start, acmVars, AcmTypeOK, JobTypeOK
  <1>2. KubeTypeOK'
    BY DEF TypeInv, Start, KubeTypeOK
  <1>3. staleReads' \in 0 .. MaxStaleReads
    BY MaxStaleReadsNat DEF TypeInv, WorkerOK, ReconcilerTypeOK, Start
  <1>4. cache[k] \in Certificate
    BY DEF TypeInv, KubeTypeOK
  <1>5. WorkerOK'
    <2>1. CASE UNCHANGED <<pc, local>>
      BY <1>3, <2>1 DEF TypeInv, WorkerOK, ReconcilerTypeOK, Start
    <2>2. CASE cache[k].exists /\ local' = cache[k] /\ pc' = FirstStep(cache[k])
      <3>1. pc' \in AddingSteps \cup DeletingSteps \cup WorkingSteps
        BY <1>4, <2>2 DEF FirstStep, AcquireStep, AddingSteps, DeletingSteps,
           WorkingSteps, Certificate
      <3>2. QED
        BY <1>3, <1>4, <2>2, <3>1 DEF TypeInv, WorkerOK, ReconcilerTypeOK, Start
    <2>3. QED
      BY <2>1, <2>2 DEF Start
  <1>6. QED
    BY <1>1, <1>2, <1>5 DEF TypeInv

LEMMA AddFinalizerType ==
  ASSUME TypeInv, AddFinalizer, UNCHANGED <<job, userOps>>
  PROVE  TypeInv'
  <1> DEFINE o == [local EXCEPT !.finalizer = TRUE]
  <1>1. o \in Certificate /\ o.exists /\ Stored(key, o) \in Certificate /\ Stored(key, o).exists
    <2>1. o \in Certificate /\ o.exists
      BY DEF TypeInv, WorkerOK, ReconcilerTypeOK, AddFinalizer, Certificate
    <2>2. QED
      BY <2>1, StoredType DEF TypeInv, WorkerOK, ReconcilerTypeOK, KubeTypeOK, Stored, Certificate
  <1>2. AcquireStep(local) \in WorkingSteps
    BY DEF AcquireStep, WorkingSteps
  <1>3. WorkerOK' /\ queue' \subseteq Key
    BY <1>1, <1>2, ReturnType, GotoWithType DEF TypeInv, KubeTypeOK, AddFinalizer
  <1>4. certs' \in [Key -> Certificate] /\ events' \in [Key -> Seq(Certificate)]
    <2>1. CASE Write(key, o)
      BY <2>1, <1>1, WriteType DEF TypeInv, WorkerOK, ReconcilerTypeOK
    <2>2. CASE NoWrite
      BY <2>2 DEF NoWrite, TypeInv, KubeTypeOK
    <2>3. QED
      BY <2>1, <2>2 DEF AddFinalizer
  <1>5. faults' \in 0 .. MaxFaults
    BY FaultType DEF AddFinalizer, TypeInv
  <1>6. QED
    BY <1>3, <1>4, <1>5 DEF TypeInv, AddFinalizer, acmVars, AcmTypeOK, KubeTypeOK, JobTypeOK

LEMMA DeleteAcmType ==
  ASSUME TypeInv, DeleteAcm, UNCHANGED <<job, userOps>>
  PROVE  TypeInv'
  <1>1. WorkerOK' /\ queue' \subseteq Key
    BY ReturnType, GotoType DEF TypeInv, KubeTypeOK, DeleteAcm, DeletingSteps
  <1>2. AcmTypeOK'
    BY DeleteType DEF TypeInv, DeleteAcm, acmVars, AcmTypeOK
  <1>3. faults' \in 0 .. MaxFaults
    BY FaultType DEF DeleteAcm, TypeInv
  <1>4. QED
    BY <1>1, <1>2, <1>3 DEF TypeInv, DeleteAcm, KubeTypeOK, JobTypeOK

LEMMA RemoveFinalizerType ==
  ASSUME TypeInv, RemoveFinalizer, UNCHANGED <<job, userOps>>
  PROVE  TypeInv'
  <1>1. WorkerOK' /\ queue' \subseteq Key
    BY ReturnType DEF TypeInv, KubeTypeOK, RemoveFinalizer
  <1>2. certs' \in [Key -> Certificate] /\ events' \in [Key -> Seq(Certificate)]
    <2>1. CASE Write(key, Gone(0))
      BY <2>1, GoneType, WriteType DEF TypeInv, WorkerOK, ReconcilerTypeOK
    <2>2. CASE NoWrite
      BY <2>2 DEF NoWrite, TypeInv, KubeTypeOK
    <2>3. QED
      BY <2>1, <2>2 DEF RemoveFinalizer
  <1>3. faults' \in 0 .. MaxFaults
    BY FaultType DEF RemoveFinalizer, TypeInv
  <1>4. QED
    BY <1>1, <1>2, <1>3
    DEF TypeInv, RemoveFinalizer, acmVars, AcmTypeOK, KubeTypeOK, JobTypeOK

LEMMA RequestStepType ==
  ASSUME TypeInv, Request, UNCHANGED <<job, userOps>>
  PROVE  TypeInv'
  <1> DEFINE refused == [local EXCEPT !.status.state = "Error"]
             granted == [local EXCEPT !.status = Requested(local.status, nreq + 1)]
  <1>1. local \in Certificate /\ local.exists /\ local.spec \in Specs /\ key \in Key
    BY DEF TypeInv, WorkerOK, ReconcilerTypeOK, Request, Certificate
  <1>2. refused \in Certificate /\ refused.exists
    BY <1>1 DEF Certificate, StatusType, CertStatus
  <1>3. ASSUME RequestCertificate(key, local.spec)
        PROVE  AcmTypeOK' /\ granted \in Certificate /\ granted.exists
    <2>1. AcmTypeOK' /\ nreq + 1 \in Arn
      BY <1>1, <1>3, RequestType DEF TypeInv
    <2>2. Requested(local.status, nreq + 1) \in StatusType
      BY <1>1, <2>1 DEF Requested, Certificate, StatusType, CertStatus
    <2>3. QED
      BY <1>1, <2>1, <2>2 DEF Certificate
  <1>4. AcmTypeOK'
    BY <1>3 DEF Request, acmVars, AcmTypeOK, TypeInv
  <1>5. faults' \in 0 .. MaxFaults
    BY FaultType DEF Request, TypeInv
  <1>6. WorkerOK' /\ queue' \subseteq Key
    <2>1. CASE GotoWith("saveError", refused)
      BY <2>1, <1>2, GotoWithType DEF TypeInv, KubeTypeOK, WorkingSteps, Request
    <2>2. CASE /\ RequestCertificate(key, local.spec)
               /\ pc' = "save1" /\ local' = granted /\ created' = TRUE
               /\ UNCHANGED <<key, requeue, todo, cur, failed, queue>>
      BY <2>2, <1>3 DEF TypeInv, KubeTypeOK, WorkerOK, ReconcilerTypeOK, WorkingSteps, Request
    <2>3. QED
      BY <2>1, <2>2 DEF Request
  <1>7. QED
    BY <1>4, <1>5, <1>6 DEF TypeInv, Request, KubeTypeOK, JobTypeOK

LEMMA SaveErrorType ==
  ASSUME TypeInv, SaveError, UNCHANGED <<job, userOps>>
  PROVE  TypeInv'
  <1>1. WorkerOK' /\ queue' \subseteq Key
    BY ReturnType DEF TypeInv, KubeTypeOK, SaveError
  <1>2. local.status \in StatusType /\ key \in Key
    BY DEF TypeInv, WorkerOK, ReconcilerTypeOK, Certificate
  <1>3. certs' \in [Key -> Certificate] /\ events' \in [Key -> Seq(Certificate)]
    BY <1>2, ApplyStatusType DEF SaveError, NoWrite, TypeInv, KubeTypeOK
  <1>4. faults' \in 0 .. MaxFaults
    BY FaultType DEF SaveError, TypeInv
  <1>5. QED
    BY <1>1, <1>3, <1>4
    DEF TypeInv, SaveError, acmVars, AcmTypeOK, KubeTypeOK, JobTypeOK

LEMMA CompareType ==
  ASSUME TypeInv, Compare, UNCHANGED <<job, userOps>>
  PROVE  TypeInv'
  <1>1. WorkerOK' /\ queue' \subseteq Key
    BY ReturnType, GotoType DEF TypeInv, KubeTypeOK, Compare, WorkingSteps
  <1>2. faults' \in 0 .. MaxFaults
    BY FaultType DEF Compare, TypeInv
  <1>3. QED
    BY <1>1, <1>2 DEF TypeInv, Compare, acmVars, AcmTypeOK, KubeTypeOK, JobTypeOK

LEMMA SaveType ==
  ASSUME TypeInv, Save1 \/ Save2, UNCHANGED <<job, userOps>>
  PROVE  TypeInv'
  <1>1. WorkerOK' /\ queue' \subseteq Key
    BY AbortType, ReturnType, GotoType
    DEF TypeInv, KubeTypeOK, Save1, Save2, Save, WorkingSteps
  <1>2. local.status \in StatusType /\ key \in Key
    BY DEF TypeInv, WorkerOK, ReconcilerTypeOK, Certificate
  <1>3. certs' \in [Key -> Certificate] /\ events' \in [Key -> Seq(Certificate)]
    BY <1>2, ApplyStatusType DEF Save1, Save2, Save, NoWrite, TypeInv, KubeTypeOK
  <1>4. faults' \in 0 .. MaxFaults
    BY FaultType DEF Save1, Save2, Save, TypeInv
  <1>5. QED
    BY <1>1, <1>3, <1>4
    DEF TypeInv, Save1, Save2, Save, acmVars, AcmTypeOK, KubeTypeOK, JobTypeOK

\* What Reconcile reads of ACM makes a status (updateCertificateInfo).
LEMMA WithDetailType ==
  ASSUME AcmTypeOK, NEW status \in StatusType, NEW a \in Arn,
         NEW records \in SUBSET Domain
  PROVE  WithDetail(status, a, records) \in StatusType
  <1>1. convertFrom(acm[a].st) \in CertStatus
    BY DEF convertFrom, CertStatus
  <1>2. QED
    BY <1>1 DEF WithDetail, StatusType

LEMMA InfoType ==
  ASSUME TypeInv, UpdateCertificateInfo, UNCHANGED <<job, userOps>>
  PROVE  TypeInv'
  <1> DEFINE a == local.status.arn
             l(records) == [local EXCEPT !.status = WithDetail(local.status, a, records)]
  <1>1. local \in Certificate /\ local.exists /\ local.status \in StatusType
    BY DEF TypeInv, WorkerOK, ReconcilerTypeOK, UpdateCertificateInfo, Certificate
  <1>2. ASSUME a \in LiveArns, NEW records \in {acm[a].names, {}}
        PROVE  l(records) \in Certificate /\ l(records).exists
    <2>1. a \in Arn /\ records \in SUBSET Domain
      BY <1>2 DEF LiveArns, TypeInv, AcmTypeOK, AcmCertificate
    <2>2. WithDetail(local.status, a, records) \in StatusType
      BY <1>1, <2>1, WithDetailType DEF TypeInv
    <2>3. QED
      BY <1>1, <2>2 DEF Certificate
  <1>3. WorkerOK' /\ queue' \subseteq Key
    <2>1. CASE Abort
      BY <2>1, AbortType DEF TypeInv, KubeTypeOK, UpdateCertificateInfo
    <2>2. CASE /\ pc' = "save2" /\ requeue' = TRUE
               /\ UNCHANGED <<key, local, created, todo, cur, failed, queue>>
      BY <2>2, <1>1 DEF TypeInv, KubeTypeOK, WorkerOK, ReconcilerTypeOK, WorkingSteps,
         UpdateCertificateInfo
    <2>3. CASE /\ a \in LiveArns
               /\ \E records \in {acm[a].names, {}} : GotoWith("save2", l(records))
      BY <2>3, <1>2, GotoWithType
      DEF TypeInv, KubeTypeOK, WorkingSteps, UpdateCertificateInfo
    <2>4. QED
      BY <2>1, <2>2, <2>3 DEF UpdateCertificateInfo
  <1>4. faults' \in 0 .. MaxFaults
    BY FaultType DEF UpdateCertificateInfo, TypeInv
  <1>5. QED
    BY <1>3, <1>4
    DEF TypeInv, UpdateCertificateInfo, acmVars, AcmTypeOK, KubeTypeOK, JobTypeOK

LEMMA RollbackType ==
  ASSUME TypeInv, Rollback, UNCHANGED <<job, userOps>>
  PROVE  TypeInv'
  <1>1. WorkerOK' /\ queue' \subseteq Key
    BY ReturnType DEF TypeInv, KubeTypeOK, Rollback
  <1>2. AcmTypeOK'
    BY DeleteType DEF TypeInv, Rollback, acmVars, AcmTypeOK
  <1>3. faults' \in 0 .. MaxFaults
    BY FaultType DEF Rollback, TypeInv
  <1>4. QED
    BY <1>1, <1>2, <1>3 DEF TypeInv, Rollback, KubeTypeOK, JobTypeOK

LEMMA SyncDNSType ==
  ASSUME TypeInv, SyncDNSEndpoints, UNCHANGED <<job, userOps>>
  PROVE  TypeInv'
  <1> DEFINE d == Endpoint(dns[key], local)
  <1>1. WorkerOK' /\ queue' \subseteq Key
    <2>1. CASE Return(TRUE)
      BY <2>1, ReturnType DEF TypeInv, KubeTypeOK, SyncDNSEndpoints
    <2>2. CASE /\ pc' = "list" /\ UNCHANGED locals
               /\ queue' = IF d = dns[key] THEN queue ELSE queue \cup {key}
      BY <2>2 DEF TypeInv, KubeTypeOK, WorkerOK, ReconcilerTypeOK, WorkingSteps,
         locals, SyncDNSEndpoints
    <2>3. QED
      BY <2>1, <2>2 DEF SyncDNSEndpoints
  <1>2. d \in DnsEndpoint
    BY DEF TypeInv, KubeTypeOK, WorkerOK, ReconcilerTypeOK, Certificate, StatusType,
       Endpoint, DnsEndpoint
  <1>3. dns' \in [Key -> DnsEndpoint]
    BY <1>2 DEF SyncDNSEndpoints, TypeInv, KubeTypeOK
  <1>4. faults' \in 0 .. MaxFaults
    BY FaultType DEF SyncDNSEndpoints, TypeInv
  <1>5. QED
    BY <1>1, <1>3, <1>4
    DEF TypeInv, SyncDNSEndpoints, acmVars, AcmTypeOK, KubeTypeOK, JobTypeOK

\* The steps of the cleanup of replaced certificates
\* (cleanupACMCertificates).
LEMMA CleanupType ==
  ASSUME TypeInv, ListForCleanup \/ CleanupTags \/ CleanupPurge,
         UNCHANGED <<job, userOps>>
  PROVE  TypeInv'
  <1>1. CASE ListForCleanup
    <2>1. \A page \in FirstPages : Candidates(page, local) \subseteq Arn
      BY DEF FirstPages, LiveArns, Candidates
    <2>2. WorkerOK' /\ queue' \subseteq Key
      BY <1>1, <2>1, ReturnType
      DEF ListForCleanup, TypeInv, KubeTypeOK, WorkerOK, ReconcilerTypeOK, WorkingSteps
    <2>3. faults' \in 0 .. MaxFaults
      BY <1>1, FaultType DEF ListForCleanup, TypeInv
    <2>4. QED
      BY <1>1, <2>2, <2>3
      DEF TypeInv, ListForCleanup, acmVars, AcmTypeOK, KubeTypeOK, JobTypeOK
  <1>2. CASE CleanupTags
    <2>1. WorkerOK' /\ queue' \subseteq Key
      BY <1>2, ReturnType
      DEF CleanupTags, TypeInv, KubeTypeOK, WorkerOK, ReconcilerTypeOK, WorkingSteps
    <2>2. faults' \in 0 .. MaxFaults
      BY <1>2, FaultType DEF CleanupTags, TypeInv
    <2>3. QED
      BY <1>2, <2>1, <2>2
      DEF TypeInv, CleanupTags, acmVars, AcmTypeOK, KubeTypeOK, JobTypeOK
  <1>3. CASE CleanupPurge
    <2>1. WorkerOK' /\ queue' \subseteq Key
      BY <1>3
      DEF CleanupPurge, TypeInv, KubeTypeOK, WorkerOK, ReconcilerTypeOK, WorkingSteps, NoArn
    <2>2. AcmTypeOK'
      BY <1>3, DeleteType DEF TypeInv, CleanupPurge, acmVars, AcmTypeOK
    <2>3. faults' \in 0 .. MaxFaults
      BY <1>3, FaultType DEF CleanupPurge, TypeInv
    <2>4. QED
      BY <1>3, <2>1, <2>2, <2>3 DEF TypeInv, CleanupPurge, KubeTypeOK, JobTypeOK
  <1>4. QED
    BY <1>1, <1>2, <1>3

LEMMA JobLoopType ==
  ASSUME JobTypeOK, NEW r \in Replica, NEW rest \in SUBSET Arn, JobLoop(r, rest)
  PROVE  JobTypeOK'
  BY DEF JobTypeOK, JobLoop, JobState, IdleJob, NoArn

\* The steps of the background cleanup (cleanupOrphanACMCertificates).
LEMMA JobStepType ==
  ASSUME TypeInv, NEW r \in Replica, JobStep(r), UNCHANGED <<workerVars, userOps>>
  PROVE  TypeInv'
  <1> USE DEF TypeInv
  <1>1. job[r].todo \subseteq Arn
    BY DEF JobTypeOK, JobState
  <1>2. JobTypeOK'
    <2>1. CASE JobList(r)
      BY <2>1, JobLoopType DEF JobList, FirstPages, LiveArns
    <2>2. CASE JobListFails(r)
      BY <2>2 DEF JobListFails, JobTypeOK
    <2>3. CASE JobTags(r)
      <3>1. PICK a \in job[r].todo :
              \/ job' = [job EXCEPT ![r] = [pc |-> "get", todo |-> job[r].todo \ {a},
                                            arn |-> a]]
              \/ JobLoop(r, job[r].todo \ {a})
        BY <2>3 DEF JobTags
      <3>2. QED
        BY <1>1, <3>1, JobLoopType DEF JobTypeOK, JobState
    <2>4. CASE JobGet(r)
      <3>1. CASE JobLoop(r, job[r].todo)
        BY <1>1, <3>1, JobLoopType
      <3>2. CASE job' = [job EXCEPT ![r].pc = "delete"]
        BY <3>2 DEF JobTypeOK, JobState
      <3>3. QED
        BY <2>4, <3>1, <3>2 DEF JobGet
    <2>5. CASE JobDelete(r)
      BY <1>1, <2>5, JobLoopType DEF JobDelete
    <2>6. QED
      BY <2>1, <2>2, <2>3, <2>4, <2>5 DEF JobStep
  <1>3. AcmTypeOK'
    BY DeleteType DEF JobStep, JobList, JobListFails, JobTags, JobGet, JobDelete,
       acmVars, AcmTypeOK
  <1>4. faults' \in 0 .. MaxFaults
    BY FaultType DEF JobStep, JobList, JobListFails, JobTags, JobGet, JobDelete
  <1>5. UNCHANGED kubeVars
    BY DEF JobStep, JobList, JobListFails, JobTags, JobGet, JobDelete
  <1>6. QED
    BY <1>2, <1>3, <1>4, <1>5
    DEF kubeVars, KubeTypeOK, workerVars, locals, WorkerOK, ReconcilerTypeOK

LEMMA KubeType ==
  ASSUME TypeInv, Kube
  PROVE  TypeInv'
  <1>1. KubeTypeOK'
    <2> PICK k \in Key : WatchDeliver(k) \/ Resync(k) \/ CollectDns(k)
      BY DEF Kube
    <2>1. CASE WatchDeliver(k)
      BY <2>1 DEF WatchDeliver, TypeInv, KubeTypeOK
    <2>2. CASE Resync(k)
      BY <2>2 DEF Resync, TypeInv, KubeTypeOK
    <2>3. CASE CollectDns(k)
      BY <2>3 DEF CollectDns, TypeInv, KubeTypeOK, NoDns, DnsEndpoint
    <2>4. QED
      BY <2>1, <2>2, <2>3
  <1>2. QED
    BY <1>1 DEF TypeInv, Kube, acmVars, AcmTypeOK, workerVars, locals, WorkerOK,
       ReconcilerTypeOK, JobTypeOK

LEMMA AcmType ==
  ASSUME TypeInv, Acm
  PROVE  TypeInv'
  <1>1. AcmTypeOK'
    <2> PICK a \in Arn : \/ RecordsReady(a)
                        \/ Issue(a, Published)
                        \/ \E s \in AcmStatus : Lapse(a, s)
      BY DEF Acm
    <2> DEFINE issued == [acm[a] EXCEPT !.st = "ISSUED", !.issued = TRUE]
    <2>a. acm[a] \in AcmCertificate
      BY DEF TypeInv, AcmTypeOK
    <2>1. CASE RecordsReady(a)
      BY <2>1 DEF RecordsReady, TypeInv, AcmTypeOK, AcmCertificate
    <2>2. CASE Issue(a, Published)
      <3>1. issued \in AcmCertificate
        BY <2>a DEF AcmCertificate, AcmStatus
      <3>2. acm' = [acm EXCEPT ![a] = issued] /\ nreq' = nreq
        BY <2>2, <2>a DEF Issue, AcmCertificate, TypeInv, AcmTypeOK
      <3>3. QED
        BY <3>1, <3>2 DEF TypeInv, AcmTypeOK
    <2>3. ASSUME NEW s \in AcmStatus, Lapse(a, s) PROVE AcmTypeOK'
      <3>1. [acm[a] EXCEPT !.st = s] \in AcmCertificate
        BY <2>a DEF AcmCertificate
      <3>2. acm' = [acm EXCEPT ![a] = [acm[a] EXCEPT !.st = s]] /\ nreq' = nreq
        BY <2>3 DEF Lapse
      <3>3. QED
        BY <3>1, <3>2 DEF TypeInv, AcmTypeOK
    <2>4. QED
      BY <2>1, <2>2, <2>3
  <1>2. QED
    BY <1>1 DEF TypeInv, Acm, kubeVars, KubeTypeOK, workerVars, locals, WorkerOK,
       ReconcilerTypeOK, JobTypeOK

LEMMA UserType ==
  ASSUME TypeInv, User
  PROVE  TypeInv'
  <1>1. UserOp /\ \E k \in Key, o \in Certificate : Write(k, o)
    <2>1. PICK k \in Key : \/ \E spec \in Specs : CreateCertificate(k, spec) \/ ChangeSpec(k, spec)
                           \/ DeleteCertificateObject(k)
      BY DEF User
    <2>2. certs[k] \in Certificate /\ Gone(0) \in Certificate
      BY GoneType DEF TypeInv, KubeTypeOK
    <2>3. ASSUME NEW spec \in Specs
          PROVE  /\ Fresh(certs[k].rv + 1, spec) \in Certificate
                 /\ [certs[k] EXCEPT !.spec = spec] \in Certificate
      <3>1. certs[k].rv + 1 \in Nat
        BY <2>2 DEF Certificate
      <3>2. Fresh(certs[k].rv + 1, spec) \in Certificate
        BY <3>1, FreshType
      <3>3. [certs[k] EXCEPT !.spec = spec] \in Certificate
        BY <2>2 DEF Certificate
      <3>4. QED
        BY <3>2, <3>3
    <2>4. [certs[k] EXCEPT !.deleting = TRUE] \in Certificate
      BY <2>2 DEF Certificate
    <2>5. QED
      BY <2>1, <2>2, <2>3, <2>4 DEF CreateCertificate, ChangeSpec, DeleteCertificateObject
  <1>2. certs' \in [Key -> Certificate] /\ events' \in [Key -> Seq(Certificate)]
    BY <1>1, WriteType DEF TypeInv
  <1>3. userOps' \in 0 .. MaxUserOps
    BY <1>1, MaxUserOpsNat DEF UserOp, TypeInv
  <1>4. QED
    BY <1>1, <1>2, <1>3 DEF UserOp, TypeInv, KubeTypeOK, acmVars, AcmTypeOK, workerVars,
       locals, WorkerOK, ReconcilerTypeOK, JobTypeOK

LEMMA EnvironmentType ==
  ASSUME TypeInv, Environment
  PROVE  TypeInv'
  <1>1. ASSUME NEW a \in Arn, OutsideDelete(a) PROVE TypeInv'
    <2>1. AcmTypeOK' /\ faults' \in 0 .. MaxFaults
      BY <1>1, DeleteType, FaultType DEF OutsideDelete, TypeInv
    <2>2. QED
      BY <1>1, <2>1 DEF OutsideDelete, TypeInv, kubeVars, KubeTypeOK, workerVars, locals,
         WorkerOK, ReconcilerTypeOK, JobTypeOK
  <1>2. ASSUME NEW r \in Replica, Crash(r) PROVE TypeInv'
    <2>1. faults' \in 0 .. MaxFaults /\ AcmTypeOK' /\ userOps' \in 0 .. MaxUserOps
      BY <1>2, FaultType DEF Crash, TypeInv, acmVars, AcmTypeOK
    <2>2. JobTypeOK'
      BY <1>2 DEF Crash, TypeInv, JobTypeOK, JobState, IdleJob, NoArn
    <2>3. CASE r # Leader
      BY <1>2, <2>1, <2>2, <2>3 DEF Crash, TypeInv, kubeVars, KubeTypeOK, workerVars, locals,
         WorkerOK, ReconcilerTypeOK
    <2>4. CASE r = Leader
      <3>1. KubeTypeOK'
        <4>1. /\ cache' = certs /\ certs' = certs /\ dns' = dns
              /\ events' = [k \in Key |-> <<>>]
              /\ queue' = {k \in Key : certs[k].exists}
          BY <1>2, <2>4, Zenon DEF Crash
        <4>2. QED
          BY <4>1 DEF TypeInv, KubeTypeOK
      <3>2. WorkerOK'
        <4>1. /\ pc' = "idle" /\ key' = key /\ staleReads' = staleReads
              /\ ResetLocals
          BY <1>2, <2>4, Zenon DEF Crash
        <4>2. QED
          BY <4>1, GoneType DEF ResetLocals, TypeInv, WorkerOK, ReconcilerTypeOK, NoArn
      <3>3. QED
        BY <2>1, <2>2, <3>1, <3>2 DEF TypeInv
    <2>5. QED
      BY <2>3, <2>4
  <1>3. QED
    BY <1>1, <1>2 DEF Environment

\* A step in which nothing changes.
LEMMA StutterType == TypeInv /\ UNCHANGED vars => TypeInv'
  BY DEF vars, TypeInv, acmVars, AcmTypeOK, kubeVars, KubeTypeOK, workerVars, locals,
     WorkerOK, ReconcilerTypeOK, JobTypeOK

LEMMA TypeStep == TypeInv /\ [Next]_vars => TypeInv'
  <1> SUFFICES ASSUME TypeInv, [Next]_vars PROVE TypeInv'
    OBVIOUS
  <1>1. CASE Worker
    BY <1>1, StartType, AddFinalizerType, DeleteAcmType, RemoveFinalizerType,
       RequestStepType, SaveErrorType, CompareType, SaveType, InfoType, RollbackType,
       SyncDNSType, CleanupType
    DEF Worker, ReconcileStep
  <1>2. CASE Job
    BY <1>2, JobStepType DEF Job
  <1>3. QED
    BY <1>1, <1>2, KubeType, AcmType, UserType, EnvironmentType, StutterType DEF Next

\* The inductive type invariant holds throughout.
THEOREM TypeInvariance == Spec => []TypeInv
  BY TypeInit, TypeStep, PTL DEF Spec

\* Every variable keeps its type, and every counter its bound, in every
\* behaviour of the manager.
THEOREM TypeCorrectness == Spec => []TypeOK
  <1>1. TypeInv => TypeOK
    BY DEF TypeInv, TypeOK, WorkerOK
  <1>2. QED
    BY <1>1, TypeInvariance, PTL
=============================================================================
