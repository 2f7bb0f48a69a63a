----------------------------- MODULE CleanupJob -----------------------------
(***************************************************************************)
(* The background job that deletes orphaned ACM certificates.  Every       *)
(* replica of the manager runs it on a ticker of its own, leader or not;   *)
(* a run (cleanupOrphanACMCertificates) lists the account, and for each    *)
(* certificate with our owner tag asks the API server, not the cache,      *)
(* whether the Certificate named by its tags exists.                       *)
(***************************************************************************)
EXTENDS AcmService, KubeApi

CONSTANTS
    Replica,        \* the replicas of the manager's deployment
    Ticking         \* the replicas whose ticker fires in a model

ASSUME TickingAssumption == Ticking \subseteq Replica

VARIABLE
    job             \* by replica: the call under way, the summaries left
                    \* and the ARN being looked at

JobState == [pc : {"idle", "tags", "get", "delete"}, todo : SUBSET Arn,
             arn : Arn \cup {NoArn}]

IdleJob == [pc |-> "idle", todo |-> {}, arn |-> NoArn]

JobTypeOK == job \in [Replica -> JobState]

JobInit == job = [r \in Replica |-> IdleJob]

\* The loop goes on with the summaries of todo, or ends.
JobLoop(r, rest) ==
    job' = [job EXCEPT ![r] =
              IF rest = {} THEN IdleJob
                           ELSE [pc |-> "tags", todo |-> rest, arn |-> NoArn]]

-----------------------------------------------------------------------------
\* Mutant: the owner tag is not compared.
Owned_Unchecked(a) == a \in Arn

\* The owner tag of a certificate is ours.
Owned(a) == acm[a].owner = "ours"

\* Mutant: the test of the lookup's error is the wrong way round.
Orphan_Inverted(a) == certs[acm[a].key].exists

\* The API server does not find the Certificate that the tags of a name.
Orphan(a) == ~certs[acm[a].key].exists

\* The ticker fires: read the first page.
JobList(r) ==
    /\ r \in Ticking
    /\ job[r].pc = "idle"
    /\ \E page \in FirstPages : NoFault /\ JobLoop(r, page)
    /\ UNCHANGED <<acmVars, kubeVars>>

\* The list call fails: the run is over.
JobListFails(r) ==
    /\ r \in Ticking
    /\ job[r].pc = "idle"
    /\ Fault("list")
    /\ UNCHANGED <<job, acmVars, kubeVars>>

\* The tags of the next certificate; skip on errors and foreign owners.
JobTags(r) ==
    /\ job[r].pc = "tags"
    /\ \E a \in job[r].todo :
         LET rest == job[r].todo \ {a}
         IN  \/ /\ a \in LiveArns /\ Owned(a) /\ NoFault
                /\ job' = [job EXCEPT ![r] = [pc |-> "get", todo |-> rest, arn |-> a]]
             \/ /\ a \in LiveArns => ~Owned(a)
                /\ NoFault
                /\ JobLoop(r, rest)
             \/ Fault("tags") /\ JobLoop(r, rest)
    /\ UNCHANGED <<acmVars, kubeVars>>

\* Mutant: every error of the lookup is taken for "not found".
JobGet_AnyError(r) ==
    /\ job[r].pc = "get"
    /\ \/ /\ Fault("get") \/ (Orphan(job[r].arn) /\ NoFault)
          /\ job' = [job EXCEPT ![r].pc = "delete"]
       \/ /\ ~Orphan(job[r].arn) /\ NoFault
          /\ JobLoop(r, job[r].todo)
    /\ UNCHANGED <<acmVars, kubeVars>>

\* GetCertificateForNamespace: only "not found" lets the deletion go ahead.
JobGet(r) ==
    /\ job[r].pc = "get"
    /\ \/ /\ Orphan(job[r].arn) /\ NoFault
          /\ job' = [job EXCEPT ![r].pc = "delete"]
       \/ /\ ~Orphan(job[r].arn) /\ NoFault
          /\ JobLoop(r, job[r].todo)
       \/ Fault("get") /\ JobLoop(r, job[r].todo)
    /\ UNCHANGED <<acmVars, kubeVars>>

\* Delete the orphan; an error is logged and the loop goes on.
JobDelete(r) ==
    /\ job[r].pc = "delete"
    /\ \/ NoFault /\ DeleteCertificate(job[r].arn)
       \/ Fault("delete") /\ UNCHANGED acmVars
    /\ JobLoop(r, job[r].todo)
    /\ UNCHANGED kubeVars

JobStep(r) ==
    \/ JobList(r) \/ JobListFails(r) \/ JobTags(r) \/ JobGet(r) \/ JobDelete(r)
=============================================================================
