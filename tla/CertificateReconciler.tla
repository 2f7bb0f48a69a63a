----------------------- MODULE CertificateReconciler -----------------------
(***************************************************************************)
(* The Certificate controller: its one worker runs Reconcile for one key   *)
(* at a time.  A step is one remote call with the local code that follows  *)
(* it up to the next call; between two steps anything else may happen.     *)
(* Every call may fail; a call that changes state may also take effect and *)
(* lose its answer.                                                        *)
(***************************************************************************)
EXTENDS AcmService, KubeApi

CONSTANT
    MaxStaleReads   \* bound: reconciles started on a cache that lags behind

ASSUME MaxStaleReadsNat == MaxStaleReads \in Nat

VARIABLES
    pc,             \* the remote call about to be made
    key,            \* req.NamespacedName
    local,          \* certificate, the copy read from the cache
    created,        \* certificateCreated
    requeue,        \* updateCertificateInfo's first result
    todo,           \* the summaries still to be looked at by the cleanup
    cur,            \* the ARN the cleanup is about to delete
    failed,         \* the cleanup's multierror is not nil
    staleReads      \* reconciles started on a lagging cache so far

locals == <<key, local, created, requeue, todo, cur, failed>>

workerVars == <<pc, locals, staleReads>>

\* The calls of Reconcile, in the order of the code.
AddingSteps == {"addFinalizer"}
DeletingSteps == {"deleteAcm", "removeFinalizer"}
WorkingSteps == {"request", "saveError", "compare", "save1", "info", "save2",
                 "rollback", "dns", "list", "tags", "purge"}

ReconcilerTypeOK ==
    /\ pc \in {"idle"} \cup AddingSteps \cup DeletingSteps \cup WorkingSteps
    /\ key \in Key
    /\ local \in Certificate
    /\ created \in BOOLEAN
    /\ requeue \in BOOLEAN
    /\ todo \subseteq Arn
    /\ cur \in Arn \cup {NoArn}
    /\ failed \in BOOLEAN
    /\ staleReads \in 0 .. MaxStaleReads

ResetLocals ==
    /\ local' = Gone(0)
    /\ created' = FALSE
    /\ requeue' = FALSE
    /\ todo' = {}
    /\ cur' = NoArn
    /\ failed' = FALSE

ReconcilerInit ==
    /\ pc = "idle"
    /\ key \in Key
    /\ local = Gone(0)
    /\ created = FALSE
    /\ requeue = FALSE
    /\ todo = {}
    /\ cur = NoArn
    /\ failed = FALSE
    /\ staleReads = 0

-----------------------------------------------------------------------------
\* Mutant: errors and waits are not retried.
Return_Forgets(again) == pc' = "idle" /\ ResetLocals /\ UNCHANGED <<key, queue>>

\* Reconcile returns; an error or a RequeueAfter queues the key again.
Return(again) ==
    /\ pc' = "idle"
    /\ ResetLocals
    /\ UNCHANGED key
    /\ queue' = IF again THEN queue \cup {key} ELSE queue

Goto(step) == pc' = step /\ UNCHANGED <<locals, queue>>

\* Goto with a new value of the local copy.
GotoWith(step, l) ==
    /\ pc' = step
    /\ local' = l
    /\ UNCHANGED <<key, created, requeue, todo, cur, failed, queue>>

\* An error after the ACM request undoes the request first.
Abort == IF created THEN Goto("rollback") ELSE Return(TRUE)

\* The first ACM call: request a certificate, or compare with the one there.
AcquireStep(c) == IF c.status.arn = NoArn THEN "request" ELSE "compare"

\* Mutant: the finalizer is not registered before the work on ACM.
FirstStep_NoFinalizer(c) == IF c.deleting THEN "deleteAcm" ELSE AcquireStep(c)

\* The first call, by deletion timestamp and finalizer.
FirstStep(c) ==
    CASE c.deleting                    -> "deleteAcm"
      [] ~c.deleting /\ ~c.finalizer   -> "addFinalizer"
      [] ~c.deleting /\ c.finalizer    -> AcquireStep(c)

-----------------------------------------------------------------------------
\* A worker takes a key and reads the Certificate from the cache.
Start(k) ==
    /\ pc = "idle"
    /\ k \in queue
    /\ queue' = queue \ {k}
    /\ IF events[k] = <<>>
         THEN UNCHANGED staleReads
         ELSE staleReads < MaxStaleReads /\ staleReads' = staleReads + 1
    /\ key' = k
    /\ LET c == cache[k]
       IN  \/ /\ ~c.exists \/ (c.deleting /\ ~c.finalizer)
              /\ UNCHANGED <<pc, local>>
           \/ /\ c.exists
              /\ c.deleting => c.finalizer
              /\ local' = c
              /\ pc' = FirstStep(c)
    /\ UNCHANGED <<created, requeue, todo, cur, failed>>
    /\ UNCHANGED <<certs, events, cache, dns, acmVars, faults>>

\* r.Update with the finalizer added; the answer replaces the local copy.
AddFinalizer ==
    LET o == [local EXCEPT !.finalizer = TRUE]
    IN  /\ pc = "addFinalizer"
        /\ \/ /\ UpToDate(key, local) /\ NoFault
              /\ Write(key, o)
              /\ GotoWith(AcquireStep(local), Stored(key, o))
           \/ /\ UpToDate(key, local) /\ Fault("updateLost")
              /\ Write(key, o)
              /\ Return(TRUE)
           \/ /\ ~UpToDate(key, local) /\ NoFault
              /\ NoWrite
              /\ Return(TRUE)
           \/ Fault("update") /\ NoWrite /\ Return(TRUE)
        /\ UNCHANGED <<cache, dns, acmVars, staleReads>>

\* deleteACMCertificate of a Certificate that is being deleted.
DeleteAcm ==
    /\ pc = "deleteAcm"
    /\ \/ /\ NoFault
          /\ DeleteCertificate(local.status.arn)
          /\ Goto("removeFinalizer")
       \/ /\ local.status.arn # NoArn
          /\ Fault("deleteLost")
          /\ DeleteCertificate(local.status.arn)
          /\ Return(TRUE)
       \/ /\ local.status.arn # NoArn
          /\ Fault("delete")
          /\ UNCHANGED acmVars
          /\ Return(TRUE)
    /\ UNCHANGED <<certs, events, cache, dns, staleReads>>

\* r.Update without the finalizer: the API server then removes the object.
RemoveFinalizer ==
    /\ pc = "removeFinalizer"
    /\ \/ /\ UpToDate(key, local) /\ NoFault
          /\ Write(key, Gone(0))
          /\ Return(FALSE)
       \/ /\ UpToDate(key, local) /\ Fault("updateLost")
          /\ Write(key, Gone(0))
          /\ Return(TRUE)
       \/ /\ ~UpToDate(key, local) /\ NoFault
          /\ NoWrite
          /\ Return(TRUE)
       \/ Fault("update") /\ NoWrite /\ Return(TRUE)
    /\ UNCHANGED <<cache, dns, acmVars, staleReads>>

-----------------------------------------------------------------------------
\* Mutant: a renewal keeps the records of the certificate before.
Requested_KeepsRecords(status, a) ==
    [status EXCEPT !.arn = a, !.state = "Requested"]

(***************************************************************************)
(* requestACMCertificate.  A first request keeps the (empty) records, a    *)
(* renewal clears them; the dates stay as they are.                        *)
(***************************************************************************)
Requested(status, a) ==
    [status EXCEPT !.arn = a,
                   !.state = "Requested",
                   !.records = IF status.arn = NoArn THEN @ ELSE {}]

Request ==
    LET refused == [local EXCEPT !.status.state = "Error"]
    IN  /\ pc = "request"
        /\ \/ /\ NoFault
              /\ RequestCertificate(key, local.spec)
              /\ pc' = "save1"
              /\ local' = [local EXCEPT !.status = Requested(@, nreq + 1)]
              /\ created' = TRUE
              /\ UNCHANGED <<key, requeue, todo, cur, failed, queue>>
           \/ /\ Fault("requestLost")
              /\ RequestCertificate(key, local.spec)
              /\ GotoWith("saveError", refused)
           \/ /\ Fault("request") \/ (nreq = MaxRequests /\ NoFault)
              /\ UNCHANGED acmVars
              /\ GotoWith("saveError", refused)
        /\ UNCHANGED <<certs, events, cache, dns, staleReads>>

\* The status update after a refused request; its own error is dropped.
SaveError ==
    /\ pc = "saveError"
    /\ \/ ApplyStatus(key, local.status) /\ NoFault
       \/ ~certs[key].exists /\ NoFault /\ NoWrite
       \/ Fault("saveError") /\ NoWrite
    /\ Return(TRUE)
    /\ UNCHANGED <<cache, dns, acmVars, staleReads>>

(***************************************************************************)
(* compareACMCertificate.  A certificate that ACM no longer has passes the *)
(* error check with a nil detail: the dereference panics, and              *)
(* controller-runtime turns the panic into an error of Reconcile.          *)
(***************************************************************************)
Compare ==
    LET a == local.status.arn
        Equal == compareACMCertificate(acm[a].cn, acm[a].names, local.spec)
    IN  /\ pc = "compare"
        /\ \/ /\ a \in LiveArns /\ NoFault
              /\ Goto(IF Equal THEN "save1" ELSE "request")
           \/ a \notin LiveArns /\ NoFault /\ Return(TRUE)
           \/ Fault("compare") /\ Return(TRUE)
        /\ UNCHANGED <<certs, events, cache, dns, acmVars, staleReads>>

\* A status update of the main path: save, then go on.
Save(step, site, lostSite, Then) ==
    /\ pc = step
    /\ \/ ApplyStatus(key, local.status) /\ NoFault /\ Then
       \/ ApplyStatus(key, local.status) /\ Fault(lostSite) /\ Abort
       \/ ~certs[key].exists /\ NoFault /\ NoWrite /\ Abort
       \/ Fault(site) /\ NoWrite /\ Abort
    /\ UNCHANGED <<cache, dns, acmVars, staleReads>>

Save1 == Save("save1", "save1", "save1Lost", Goto("info"))

Save2 == Save("save2", "save2", "save2Lost",
              IF requeue THEN Return(TRUE) ELSE Goto("dns"))

\* Mutant: what is known of an issued certificate is not read again.
WithDetail_Once(status, a, records) ==
    IF status.state = "Issued" THEN status
    ELSE [status EXCEPT !.records = records,
                        !.dates = IF acm[a].issued THEN a ELSE @,
                        !.state = convertFrom(acm[a].st)]

(***************************************************************************)
(* updateCertificateInfo.  Until the validation records are ready ACM      *)
(* lists either domains without a record (nothing is taken over) or no     *)
(* domains at all (everything is, with an empty list of records).          *)
(***************************************************************************)
WithDetail(status, a, records) ==
    [status EXCEPT !.records = records,
                   !.dates = IF acm[a].issued THEN a ELSE @,
                   !.state = convertFrom(acm[a].st)]

UpdateCertificateInfo ==
    LET a == local.status.arn
        Take(records) ==
            GotoWith("save2", [local EXCEPT !.status = WithDetail(@, a, records)])
    IN  /\ pc = "info"
        /\ \/ /\ a \in LiveArns /\ NoFault
              /\ \/ acm[a].ready /\ Take(acm[a].names)
                 \/ ~acm[a].ready /\ Take({})
                 \/ /\ ~acm[a].ready
                    /\ pc' = "save2"
                    /\ requeue' = TRUE
                    /\ UNCHANGED <<key, local, created, todo, cur, failed, queue>>
           \/ a \notin LiveArns /\ NoFault /\ Abort
           \/ Fault("info") /\ Abort
        /\ UNCHANGED <<certs, events, cache, dns, acmVars, staleReads>>

\* deleteACMCertificate on the error paths; its own error is dropped.
Rollback ==
    /\ pc = "rollback"
    /\ \/ NoFault /\ DeleteCertificate(local.status.arn)
       \/ Fault("delete") /\ UNCHANGED acmVars
    /\ Return(TRUE)
    /\ UNCHANGED <<certs, events, cache, dns, staleReads>>

-----------------------------------------------------------------------------
\* The DNSEndpoint syncDNSEndpoints leaves behind: an existing one keeps
\* its owner.
Endpoint(d, c) ==
    [exists  |-> TRUE,
     owner   |-> IF d.exists THEN d.owner ELSE c.uid,
     records |-> c.status.records]

\* Mutant: Reconcile does not wait for the certificate to be issued.
NotYetIssued_Never(c) == FALSE

\* Reconcile comes back later instead of cleaning up.
NotYetIssued(c) == c.status.state # "Issued"

\* syncDNSEndpoints, then the wait for a certificate that is not issued.
\* The watch on owned DNSEndpoints queues the key when something changed.
SyncDNSEndpoints ==
    LET d == Endpoint(dns[key], local)
    IN  /\ pc = "dns"
        /\ \/ /\ NoFault
              /\ dns' = [dns EXCEPT ![key] = d]
              /\ IF NotYetIssued(local)
                   THEN Return(TRUE)
                   ELSE /\ pc' = "list"
                        /\ queue' = IF d = dns[key] THEN queue ELSE queue \cup {key}
                        /\ UNCHANGED locals
           \/ /\ Fault("dnsLost")
              /\ dns' = [dns EXCEPT ![key] = d]
              /\ Return(TRUE)
           \/ Fault("dns") /\ UNCHANGED dns /\ Return(TRUE)
        /\ UNCHANGED <<certs, events, cache, acmVars, staleReads>>

\* Mutant: the certificate in use is not skipped.
Candidates_All(page, c) == page

\* The summaries that the cleanup looks at: not the certificate in use.
Candidates(page, c) == page \ {c.status.arn}

\* cleanupACMCertificates: the first page of the account.
ListForCleanup ==
    /\ pc = "list"
    /\ \/ /\ NoFault
          /\ \E page \in FirstPages : todo' = Candidates(page, local)
          /\ pc' = "tags"
          /\ UNCHANGED <<key, local, created, requeue, cur, failed, queue>>
       \/ Fault("list") /\ Return(TRUE)
    /\ UNCHANGED <<certs, events, cache, dns, acmVars, staleReads>>

\* Do the tags of a say that it was requested for this Certificate?
Superseded(a) == acm[a].owner = "ours" /\ acm[a].key = key

\* ListTagsForCertificate of the next summary; an error ends the cleanup.
CleanupTags ==
    /\ pc = "tags"
    /\ \/ \E a \in todo :
            /\ NoFault
            /\ a \in LiveArns
            /\ IF Superseded(a)
                 THEN pc' = "purge" /\ cur' = a
                 ELSE UNCHANGED <<pc, cur>>
            /\ todo' = todo \ {a}
            /\ UNCHANGED <<key, local, created, requeue, failed, queue>>
       \/ \E a \in todo : a \notin LiveArns /\ NoFault /\ Return(TRUE)
       \/ todo # {} /\ Fault("tags") /\ Return(TRUE)
       \/ todo = {} /\ NoFault /\ Return(failed)
    /\ UNCHANGED <<certs, events, cache, dns, acmVars, staleReads>>

\* deleteACMCertificate of a certificate that bears our tags; errors are
\* collected.
CleanupPurge ==
    /\ pc = "purge"
    /\ \/ NoFault /\ DeleteCertificate(cur) /\ UNCHANGED failed
       \/ Fault("deleteLost") /\ DeleteCertificate(cur) /\ failed' = TRUE
       \/ Fault("delete") /\ UNCHANGED acmVars /\ failed' = TRUE
    /\ pc' = "tags"
    /\ cur' = NoArn
    /\ UNCHANGED <<key, local, created, requeue, todo, queue>>
    /\ UNCHANGED <<certs, events, cache, dns, staleReads>>

\* The calls of a Reconcile under way.
ReconcileStep ==
    \/ AddFinalizer \/ DeleteAcm \/ RemoveFinalizer
    \/ Request \/ SaveError \/ Compare
    \/ Save1 \/ UpdateCertificateInfo \/ Save2 \/ Rollback
    \/ SyncDNSEndpoints \/ ListForCleanup \/ CleanupTags \/ CleanupPurge
=============================================================================
