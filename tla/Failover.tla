------------------------------ MODULE Failover ------------------------------
(***************************************************************************)
(* Leader election: a second replica runs an informer of its own while it  *)
(* waits for the lease.  When the leader loses the lease its process ends, *)
(* and the reconciler goes on with the standby's cache, which may be older *)
(* than what the old leader has acted on.                                  *)
(***************************************************************************)
EXTENDS AcmManager

VARIABLE
    standby         \* the cache of the replica that waits for the lease

failoverVars == <<vars, standby>>

FailoverInit == Init /\ standby = cache

(***************************************************************************)
(* The standby's watch brings its copy up to date.  Versions in between    *)
(* are passed over: nothing reads them before the standby leads, and it    *)
(* may fall behind any of them by being brought up to date in time.        *)
(***************************************************************************)
StandbyDeliver(k) ==
    /\ standby[k] # certs[k]
    /\ standby' = [standby EXCEPT ![k] = certs[k]]
    /\ UNCHANGED vars

\* A controller that starts is told of every object in its cache.
Queued(copy) == {k \in Key : copy[k].exists}

(***************************************************************************)
(* The lease changes hands between two calls.  mgr.Start returns in the    *)
(* old leader, which exits with its reconcile and its job undone; it comes *)
(* back as the next standby and lists afresh.  Of the versions that the    *)
(* standby has yet to see only the latest is delivered: the older ones     *)
(* could have arrived before the change.                                   *)
(***************************************************************************)
TakeOver ==
    /\ Fault("failover")
    /\ pc' = "idle"
    /\ ResetLocals
    /\ job' = [job EXCEPT ![Leader] = IdleJob]
    /\ cache' = standby
    /\ events' = [k \in Key |-> IF standby[k] = certs[k] THEN <<>> ELSE <<certs[k]>>]
    /\ queue' = Queued(standby)
    /\ standby' = certs
    /\ UNCHANGED <<acmVars, certs, dns, key, staleReads, userOps>>

\* The standby's copy stays as it is.  When the faults of the model are
\* spent nobody will read it any more, and it is kept equal to the store.
StandbyWaits == standby' = IF faults' < MaxFaults THEN standby ELSE certs'

FailoverNext ==
    \/ Next /\ StandbyWaits
    \/ \E k \in Key : StandbyDeliver(k)
    \/ TakeOver

\* The standby need not keep up: there is no fairness on its watch.
FailoverSpec ==
    FailoverInit /\ [][FailoverNext]_failoverVars /\ Fairness
=============================================================================
