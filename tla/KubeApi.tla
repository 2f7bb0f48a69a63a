------------------------------ MODULE KubeApi ------------------------------
(***************************************************************************)
(* The Kubernetes API server and the controller manager's informer: the    *)
(* Certificate objects, the watch stream that carries their versions to    *)
(* the cache the reconciler reads, the work queue, and the DNSEndpoint     *)
(* objects that the reconciler owns.  The services are external.           *)
(***************************************************************************)
EXTENDS CertificateTypes

VARIABLES
    certs,          \* the Certificate objects, by key, as stored
    events,         \* by key, the versions the watch has yet to deliver
    cache,          \* the informer's copy of certs
    queue,          \* the reconciler's work queue
    dns             \* the DNSEndpoint objects, by key

kubeVars == <<certs, events, cache, queue, dns>>

\* A DNSEndpoint: the uid of the Certificate that owns it and the domains
\* whose validation records it publishes.
DnsEndpoint == [exists : BOOLEAN, owner : Nat, records : SUBSET Domain]

NoDns == [exists |-> FALSE, owner |-> 0, records |-> {}]

KubeTypeOK ==
    /\ certs \in [Key -> Certificate]
    /\ events \in [Key -> Seq(Certificate)]
    /\ cache \in [Key -> Certificate]
    /\ queue \subseteq Key
    /\ dns \in [Key -> DnsEndpoint]

KubeInit ==
    /\ certs = [k \in Key |-> Gone(0)]
    /\ events = [k \in Key |-> <<>>]
    /\ cache = certs
    /\ queue = {}
    /\ dns = [k \in Key |-> NoDns]

-----------------------------------------------------------------------------
\* The version that results from storing o under k.
Stored(k, o) == [o EXCEPT !.rv = certs[k].rv + 1]

\* Store o as the next version of k and put it on the watch stream.
Write(k, o) ==
    /\ certs' = [certs EXCEPT ![k] = Stored(k, o)]
    /\ events' = [events EXCEPT ![k] = Append(@, Stored(k, o))]

NoWrite == UNCHANGED <<certs, events>>

\* Mutant: the finalizer is patched without the version that was read.
UpToDate_Unversioned(k, local) == certs[k].exists

\* A PUT of local: the object must still have the version that was read.
UpToDate(k, local) == certs[k].exists /\ certs[k].rv = local.rv

(***************************************************************************)
(* updateWithStatus: a forced server-side apply of the status, by name.    *)
(* Neither the resource version nor the uid is compared; an apply that     *)
(* changes nothing creates no version; the spec of the apply               *)
(* configuration is ignored by the status subresource.                     *)
(***************************************************************************)
ApplyStatus(k, status) ==
    /\ certs[k].exists
    /\ IF certs[k].status = status
         THEN NoWrite
         ELSE Write(k, [certs[k] EXCEPT !.status = status])

-----------------------------------------------------------------------------
\* The next version reaches the cache; the event handler queues the key.
WatchDeliver(k) ==
    /\ events[k] # <<>>
    /\ cache' = [cache EXCEPT ![k] = Head(events[k])]
    /\ events' = [events EXCEPT ![k] = Tail(@)]
    /\ queue' = queue \cup {k}
    /\ UNCHANGED <<certs, dns>>

\* The periodic resync of the cache queues every key it holds.
Resync(k) ==
    /\ cache[k].exists
    /\ queue' = queue \cup {k}
    /\ UNCHANGED <<certs, events, cache, dns>>

\* Mutant: the reconciler does not watch the DNSEndpoints it owns.
CollectDns_Unwatched(k) ==
    /\ dns[k].exists
    /\ ~(certs[k].exists /\ certs[k].uid = dns[k].owner)
    /\ dns' = [dns EXCEPT ![k] = NoDns]
    /\ UNCHANGED <<certs, events, cache, queue>>

\* The garbage collector removes a DNSEndpoint whose owner is gone; the
\* reconciler watches the DNSEndpoints it owns, so the key is queued.
CollectDns(k) ==
    /\ dns[k].exists
    /\ ~(certs[k].exists /\ certs[k].uid = dns[k].owner)
    /\ dns' = [dns EXCEPT ![k] = NoDns]
    /\ queue' = queue \cup {k}
    /\ UNCHANGED <<certs, events, cache>>

\* The domains whose validation records are in DNS.
Published == UNION {dns[k].records : k \in Key}
=============================================================================
