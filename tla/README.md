# acm-manager in TLA+

acm-manager is a Kubernetes operator.  It requests AWS ACM certificates for
`Certificate` custom resources, publishes the DNS records that validate them
through external-dns `DNSEndpoint` objects, and writes the ARN back, into the
resource's status and into annotated ingresses.  This directory holds a TLA+
model of it, the TLC configurations that check the model on small instances and
TLAPS proofs of what holds for all of them.

Line numbers without a file name are those of
`src/pkg/controllers/certificate_controller.go`.

## Inventory

| Part | State | Operations | Correct when |
|---|---|---|---|
| Certificate reconciler (`certificate_controller.go`) | none between calls but the work queue; the objects it reads come from an informer cache | `Reconcile`: finalizer, request or compare, save, describe, save, DNS, clean up | every Certificate reaches its desired state; the finalizer covers all work on ACM; a replaced certificate goes only after its successor is issued; the status tells the truth |
| Orphan cleanup job (`StartACMCertificateCleanupJob`) | a ticker per replica | `cleanupOrphanACMCertificates`: list, tags, lookup, delete | collects what nobody refers to, and nothing else |
| Resource types and pure helpers (`certificate_types.go`, `convertFrom`, `compareACMCertificate`, `newRequestCertificateInput`) | - | - | the comparison answers whether a certificate bears the names of a spec |
| ACM client (`acm_client.go`) | the account, in AWS | request, describe, delete, list, list tags | passes calls on |
| Kubernetes API server, watch, cache, queue, garbage collector | objects, versions in flight, cache, keys | update, apply, deliver, resync, collect | external |
| Manager (`main.go`) | lease | start, leader election, crash, failover | one active pair of reconcilers; the job runs in every replica; a new leader picks up what the old one left |
| Ingress reconciler (`ingress_controller.go`) | none between calls but its work queue | `Reconcile`: create or update the Certificate, annotate the ingress | the annotation names a certificate that is issued and there; a Certificate it does not own is left alone |
| Apply configurations, typed clients, deep copies, fakes | - | - | generated |
| Helm chart, kustomize, e2e | - | - | deployment data |

Interaction.  The reconciler and users write Certificate objects; a write
produces a version that the watch delivers to the cache *later*, where it queues
the key.  The reconciler writes the finalizer with the version it read (a
conflict fails the call) and the status by a forced server-side apply, which
compares no version.  It owns a DNSEndpoint per Certificate; ACM issues a
certificate when the records of all its names are published.  The cleanup jobs
share nothing with the reconciler but ACM and the API server: they go by the
owner, namespace and name tags of a certificate.  The Ingress controller reads
Certificates from the same cache as the Certificate controller, creates them with
an owner reference to the ingress, and changes them by a forced apply of name and
specification; when an ingress goes, the garbage collector deletes its
Certificate, and the finalizer does the rest.

What makes it hard: `Reconcile` acts on a copy that may be old from its first
line; up to ten remote calls follow, each of which may fail, or succeed and lose
its answer, with the process dying in between and users changing or deleting the
object meanwhile; ACM requests carry no idempotency token; two other loops
delete certificates concurrently; a second controller writes the same objects;
and after a failover all this goes on with a cache that may be older than what
the old leader acted on.  The `hazards` of `PROJECT.json` list these at
their lines.

## Modules

```
CertificateTypes   Faults
     |       \       |
  KubeApi    AcmService
     |   \  /    |
     |    \/     |
CertificateReconciler   CleanupJob      (both extend KubeApi and AcmService)
              \          /
              AcmManager               users, crashes, Next, fairness, properties
             /     |     \
            /      |      IngressController   (extends AcmManager, IngressTypes)
           /       |             |
     Failover      |         AcmIngress       both controllers, users of both
         |         |          /       \
    MCFailover     |   MCAcmIngress   IngressProofs
                   |
          LifecycleRefinement -- instance of --> CertificateLifecycle
               /        \
       MCAcmManager   LifecycleProofs

AcmManagerProofs <-- FinalizerProofs <-- TrackedProofs
TrackedProofs <-- LifecycleProofs, StatusProofs, IngressProofs
LifecycleProofs, StatusProofs <-- InUseProofs
IngressProofs, InUseProofs <-- AnnotationProofs
```

**CertificateTypes.**  Spec, status and object versions.  A validation record is
named by the domain it validates, and the two dates of a status by the ARN they
were read from, so that a property can ask whose they are.  `rv` is the resource
version, `uid` the version at which the object was created.  `convertFrom` and
`compareACMCertificate` follow the code; `AcmNames` is what ACM makes of a
request (the common name is one of the names).

**AcmService.**  The account: by ARN, a certificate's status, tags, names,
whether its records can be read and whether it was issued.  `DeleteCertificate`
includes `deleteACMCertificate`'s handling of an empty ARN and of
`ResourceNotFoundException`.  `FirstPages` are the answers `ListCertificates`
may give to a caller that never asks for a second page.

**KubeApi.**  `certs` is the store, `events[k]` the versions on their way,
`cache` the informer's copy, `queue` the work queue.  `UpToDate` is the version
check of `r.Update`; `ApplyStatus` is `updateCertificateWithStatus`, which
replaces the whole status (the apply configuration holds all fields, and fields
it leaves out are removed, because the same field manager owns them), by name and
without a version.

**CertificateReconciler.**  `pc` names the remote call about to be made:

| `pc` | action | code |
|---|---|---|
| `idle` | `Start` | 92-106, the read from the cache and the first decision |
| `addFinalizer` | `AddFinalizer` | 108-117 |
| `deleteAcm`, `removeFinalizer` | `DeleteAcm`, `RemoveFinalizer` | 118-137 |
| `request`, `saveError` | `Request`, `SaveError` | 139-152, 161-176, 309-320 |
| `compare` | `Compare` | 153-160, 279-307 |
| `save1` | `Save1` | 178-186 |
| `info` | `UpdateCertificateInfo` | 188-198, 322-363 |
| `save2` | `Save2` | 200-215 |
| `rollback` | `Rollback` | the `deleteACMCertificate` of the error paths |
| `dns` | `SyncDNSEndpoints` | 217-232, 456-489 |
| `list`, `tags`, `purge` | `ListForCleanup`, `CleanupTags`, `CleanupPurge` | 234-251, 407-454 |

An action is the call and all local code up to the next one.  Its disjuncts are
the call's outcomes: success, a refusal that the state decides (version
conflict, object or certificate gone), a failure without effect, an effect whose
answer is lost.  The last two spend the fault budget of module `Faults`.  A
panic (the nil detail at line 288) is an error of `Reconcile`: controller-runtime
0.23 recovers panics by default, and `main.go` does not change that.

**CleanupJob.**  One state machine per replica, by remote call in the same way.
The lookup reads the API server, not the cache.

**AcmManager.**  The composition.  Users create, change and delete Certificates;
`OutsideDelete` is somebody in the AWS console; `Crash(r)` forgets what replica
`r` was doing and, for the leader, rebuilds cache and queue from a fresh list.

**CertificateLifecycle**, **LifecycleRefinement.**  The abstract specification
of the certificate side, without caches, queues, copies or calls.  Per key there
are the object (exists, finalizer, deleting, ARN) and the set of ACM certificates
that bear its tags, and the steps are create, drop, protect, mark, request, track,
retire and release.  The refinement mapping is plain: `Objects` is the projection
`View` of the stored objects, `Live[k]` is `OursFor(k)`; everything else of
`AcmManager` is hidden, and every step of it that changes neither is a stutter.
`Lossy` says whether an ACM certificate in use may be deleted.  The strict version
(`ImplementsLifecycle`) is what the manager should do; the lossy one
(`ImplementsLossyLifecycle`) is what remains under every fault, the rollback of
the findings included: the protocol of the finalizer.

**IngressTypes.**  An ingress is what the controller reads of it: two
annotations, the class, the TLS entries.  `isIngressShouldCreateCert` and `Hosts`
follow the code; `Sorted` is the sort that makes the list of hosts independent of
the order of a map.  The three `...ApplyConfiguration` operators are what the
builders put into an apply: neither a version, nor a uid, finalizers or owners.

**IngressController.**  `Reconcile` of the ingress, by remote call:

| `ipc` | action | `ingress_controller.go` |
|---|---|---|
| `idle` | `IngressStart` | 65-134, both reads from the caches and the decision |
| `create` | `IngressCreate` | 134-139 and the requeue of 150-153 |
| `apply` | `IngressApply` | 140-154, `updateCertificate` (603-611 of the other file) |
| `annotate` | `IngressAnnotate` | 154-167 |

To the certificate side it is a user, and it is written that way: creation and
apply are the actions `CreateCertificate` and `ChangeSpec` of `AcmManager`.
`owned` holds the owner references, by the uid of the Certificate, so that an
object that an apply has created anew has none.  Its calls fail or lose their
answers at sites of their own (`icreate`, `iapply`, `iapplyLost`, `annotate`,
`annotateLost`), with a budget of their own (`Call`, a second instance of
`Faults`).

**AcmIngress.**  The whole manager: both controllers, a queue each, a shared
Certificate cache whose events queue both (`Notified`), users of both resources,
the garbage collector for Certificates, and the load balancer controller, whose
finalizer keeps an ingress under deletion for a while.

**Failover.**  A second replica with a cache of its own (`standby`), whose watch
may lag without bound.  `TakeOver` is the change of the lease between two calls:
the reconciler starts over with the standby's cache, a version in flight for
every object about which that cache is out of date, and a full queue.  Of the
versions the standby has yet to see only the latest is in flight; those before it
are not delivered one by one, but the standby may have been at any of them when
the lease changed.  `Leader`
is the leading process, whichever replica it is.  Once the fault budget is spent
no failover can follow and nobody will read `standby` again; `StandbyWaits` then
keeps it equal to the store, which identifies states that differ in nothing else.

### Bounds

`MaxRequests` is the number of ARNs (a request beyond it is refused, as a
request beyond the account's quota is), `MaxFaults` the number of faults,
`FaultSites` where they may strike, `MaxUserOps` the user operations,
`MaxStaleReads` the reconciles that start while versions of their key are still
in flight (writes that overtake a running reconcile are not bounded by it),
`PageSize` the first page, `NForeign` the certificates of other owners (which
bear our namespace and name tags), `Ticking` the replicas whose job runs.
`AcmOutcomes` are the statuses ACM may reach.  `UserActions` and `MaxIngressOps`
are what users of the ingress side do and how often; with ingresses `MaxUserOps`
bounds all writes of Certificates that the certificate controller does not make,
the garbage collector's included.  A writer that has reached it waits for ever,
which says nothing of the code: `EventuallyAnnotated` and `EventuallyReleased`
therefore speak of behaviours that stay below it (`WritesLeft`).  Those of
`annotated` all do (3 of 4 writes), so that nothing is lost there, and in `leak` and
`recreate` no counterexample owes anything to the bound.

## Runs

Specifications are `Short` (names a) and `Long` (names a, b), which list the
common name among the alternative names; `CnOnly` does not.  Ingress `Enabled`
has the annotation and a TLS entry with a secret, `Detected` goes by class and
scheme, `Disabled` is switched off.  Deadlock is not checked: with no Certificate
left and the users' operations spent, there is nothing left to do and the system
rightly stops.

| Run | Properties | Bounds | Distinct states |
|---|---|---|---|
| `lifecycle` | `TypeOK`, `FinalizerHeld`, `StatusDescribesArn`, `FinalizerReleases`, `ImplementsLossyLifecycle` | 1 key, 2 specs, 2 user operations, any 1 fault, 1 stale read, 2 ARNs | 0.44 M |
| `jobs` | `TrackedSpared`, `ForeignSpared`, `ImplementsLifecycle` | leader and a standby whose job ticks, 3 user operations, 2 faults (no `GivingUp` sites), a page of 2, a foreign certificate | 0.68 M |
| `settles` | `StatusArnLive`, `MakeBeforeBreak`, `EventuallySettled` | 15 fault sites with crash and failover, 1 fault, 1 stale read, 3 ARNs | 0.19 M |
| `collects` | `StatusTracksAcm`, `EventuallyPublished`, `EventuallyCollected` | delete and re-create, 1 lost request, certificates fail and expire, job ticking, 2 ARNs | 0.33 M |
| `ingress` | `IngressTypeOK`, `AnnotationIssued`, `ImplementsCertificateSide`, `UsersCertificatesKept` | 3 ingress specs, all six user actions, 2 writes of Certificates, crash, outside deletion, a job | 1.1 M |
| `annotated` | `MakeBeforeBreak`, `StatusArnLive`, `EventuallyAnnotated` | an ingress whose hosts change, any 1 fault of the Ingress controller, 2 ARNs | 0.21 M |
| `rollback`, `cnonly`, `dates`, `recreate`, `leak`, `backward` | see Findings | | |

Why they are enough to be of interest: two user operations create an object and
change or delete it around one reconcile, three (`jobs`, `collects`) delete it and
create it again; one stale read is what it takes to request twice for one
Certificate; two ARNs hold a certificate and its replacement, three also one that
a lost answer orphaned; a page of two with three certificates leaves one unseen; two ingress
operations suffice to delete an ingress, or to change its hosts, at any point of
either reconcile.  The safety properties of `lifecycle`, `jobs` and `ingress` are
also theorems, in which re-creations, faults and stale reads are not bounded; the
runs are there to show what the theorems are about and to catch an edit of the
model early.  All runs have one key.  That Certificates of different names do not
take each other's ACM certificates is part of the theorems, which hold for any set
of keys (`TrackedSparedAlways`, `ManagerImplementsLifecycle`).

What they show:

* `FinalizerHeld`.  At every call for ACM the stored object exists and carries
  the finalizer, even when the copy that was read is old.
* `FinalizerReleases`.  An object with the finalizer goes only when the ACM
  certificate of its *stored* status is gone, not only the one in the copy.
* `StatusDescribesArn`.  Records belong to the ARN next to them, and so do state
  and dates once the state is Issued.  A renewal that forgot to clear the records
  would fail here.  From the renewal until the new certificate is issued the
  dates may be the predecessor's: that is the finding of `dates`.
* `MakeBeforeBreak`.  When the cleanup deletes a certificate, the saved status
  names another, issued and present.
* `StatusArnLive`.  Neither the cleanup nor a rollback deletes what a status
  names, under the faults of its runs (a lost or failed request, a failed first
  save, a failed deletion, a crash, a failover).  With the fault of run
  `rollback` it does not hold, nor with the others of `GivingUp`.
* `TrackedSpared`, `ForeignSpared`.  The window between the job's lookup and its
  deletion is harmless: a Certificate created in it gets an ARN of its own.
* `ImplementsLifecycle`, `ImplementsLossyLifecycle`.  Stale copies, retries, lost
  answers and concurrent deletions add up to steps of the abstract lifecycle.
* `ImplementsCertificateSide`.  The whole manager implements `Spec`: what holds
  of the certificate side for all users holds with the Ingress controller.
* `AnnotationIssued`.  The annotation is taken from a copy that may be old in two
  ways (an old status, a specification changed by this very reconcile), and still
  names a certificate of this ingress's name that was issued.  That ACM still has
  it is not true at every moment; `EventuallyAnnotated` says it becomes true.
* `UsersCertificatesKept`.  A Certificate without an owner reference is not
  touched, also when it appears between the lookup and the creation.  The
  property asks that the copy read was this object or none: with an owned object
  read, deleted and replaced by a user's own in between, the apply, which
  compares no uid, changes the user's.
* `StatusTracksAcm`.  Once ACM is done, the status shows the certificate's fate.
* `EventuallyAnnotated`.  An ingress left alone ends up with the certificate of the
  latest status, for its hosts and no others.  This is without deletions: when its
  Certificate is deleted it may fail (`recreate`), and so may the removal of
  everything that belongs to an ingress that is deleted (`leak`).
* `EventuallySettled`.  The desired state is reached and kept: one certificate for
  the names of the spec, issued, saved with its dates and records, published by a
  DNSEndpoint of this incarnation of the object, nothing else in ACM.
* `EventuallyPublished`, `EventuallyCollected`.  A re-created Certificate may find
  the DNSEndpoint of its predecessor, which `syncDNSEndpoints` updates without
  taking it over and the garbage collector then removes; the watch on owned
  DNSEndpoints brings it back, for this incarnation.  And nothing stays in ACM or
  DNS for an object that is gone.

### Fairness

`FairSpec` assumes what the runtime gives.  Weak fairness of the worker's step:
a running `Reconcile` goes on.  Strong fairness of `Start(k)`: the work queue is
first-in first-out, hence a key in it is taken however busy other keys keep the
worker (weak fairness would not do, since `Start(k)` is disabled whenever the
worker is busy).  Weak fairness of the watch, the garbage collector, the tickers
of `Ticking`, and of ACM making records and issuing a certificate whose records
are published.  No fairness for users, faults, resyncs and certificates that
lapse.  That informers resync for ever (the default period of controller-runtime
is ten hours, and `main.go` sets none) is `Resyncs`, a hypothesis of
`StatusTracksAcm` alone, since nothing else looks at an issued certificate again;
the other properties of its run hold without.
`IngressFairness` is the same for the second controller, with its own queue, plus
weak fairness of the garbage collector and of the load balancer controller.
`FailoverSpec` has no fairness on the standby's watch: it need not keep up.  A requeue with a delay is a key that is queued at once, to be taken any
time later.

The fault sites of the liveness runs leave out `info`, `save1Lost`, `save2`,
`save2Lost` and `outside`: each of these can leave an ARN in the status whose
certificate is gone, which the code does not recover from (`rollback`).

## Findings

* `rollback`: one failed `DescribeCertificate` after a request makes the error
  path delete the certificate whose ARN line 179 has saved.  From then on
  `compareACMCertificate` lets `ResourceNotFoundException` pass its error check
  and dereferences the nil detail at line 288: every reconcile ends in that panic,
  contrary to the purpose of `Reconcile` (lines 87-88).  A certificate deleted
  outside the controller ends up in the same state, of which `TODO.md:1` says
  that it "should be created back".
* `cnonly`: line 153 is to replace a certificate "if it has changed".  The length
  comparison at line 291 never holds for a Certificate without alternative
  names, which `certificate_types.go:48` allows: it is replaced at each
  reconcile, whatever the state.
* `recreate`: the Ingress controller has read a Certificate that is then deleted,
  here by a user, who may want it made anew.  Its
  apply creates the object anew without an owner; every later reconcile takes it
  for a user's (`ingress_controller.go:101-106`) and the ingress is never
  annotated with its certificate, contrary to `README.md:210`.
* `leak`: the same late apply, with an ingress that is deleted and not re-created.
  `Reconcile` has read the Certificate as its own; the ingress goes, the garbage
  collector removes the Certificate, on which there is no finalizer yet, and the
  apply creates it again without the owner reference of
  `ingress_controller.go:132`.  Nobody deletes it any more: it and the ACM
  certificate that is requested for it stay, for an ingress that is not there
  (`README.md:203` ties Certificates to ingresses that ask for one).  No call fails.
* `dates`: on a renewal line 173 clears the records only, under the comment "clear
  status", and `TODO.md:3` lists `notBefore` and `notAfter` first among the fields
  to be cleared on update.  `updateCertificateInfo` overwrites the dates only when
  ACM gives some (lines 341-348): until the new certificate is issued the status
  shows the new ARN with the dates of the one it replaces.
* `backward`: a new leader whose cache still holds a Certificate that is gone
  requests an ACM certificate for it.  The job of a replica finds no object and
  goes on to delete; meanwhile a Certificate of that name is created and the
  status saved onto it by name.  The job is about to delete a certificate in use,
  which line 594 calls an "unused owned certificate".  With an up-to-date cache
  this cannot happen (`TrackedSparedAlways`).

## Proofs

Checked by TLAPS for any keys, domains, specs, replicas, ARNs, faults, user
operations and stale reads.  Assumptions: the named `ASSUME`s next to the
constants (bounds are naturals, `Specs` are specs, there is a key, the leader is
a replica, foreign certificates are among the ARNs), which TLC evaluates in
every run.

* `TypeCorrectness` (AcmManagerProofs): `Spec => []TypeOK`.  `TypeOK` alone is
  not inductive: a request writes the spec of the local copy into ACM, and the
  copy of an idle worker has no spec.  `TypeInv` adds that a worker that is not
  idle holds a version of an object that exists.
* `FinalizerHeldAlways`, `FinalizerReleasesAlways` (FinalizerProofs):
  `Spec => []FinalizerHeld` and `Spec => FinalizerReleases`.  The argument is
  about old versions.  `Reconcile` skips `AddFinalizer` when the *cached*
  version has the finalizer; by then the object might have been deleted and
  created again.  `HeldInv` says it cannot have been: as long as the cache or the
  watch stream still holds a version with the finalizer and no deletion
  timestamp, the object has never lost the finalizer since.  Only
  `RemoveFinalizer` could break this, and it passes the version check only when
  its copy is the stored version; since that copy came from the cache and the
  cache only moves forward along increasing versions (`WatchInv`), no older
  version is in flight then (`DeletionInv`).  The same fact gives
  `FinalizerReleases`: the copy whose certificate was deleted is the stored one.
  `FinalizerInv` is the conjunction of these.
* `TrackedSparedAlways`, `ForeignSparedAlways` (TrackedProofs):
  `Spec => []TrackedSpared` and `Spec => []ForeignSpared`.  `TrackedInv` adds to
  `FinalizerInv` that the tags of the ARN of every version, stored, cached or in
  flight, and of the worker's copy name that object's key and our owner
  (`TagInv`, `LocalInv`, and `BornInv`: live ARNs were handed out); that from the
  DNS call on the stored status has the copy's ARN, which the list to clean up
  does not contain (`PurgeInv`); and that the ARN a job is about to delete is in
  no status and in no version a reconcile could still start from (`JobsInv`).
  The last part carries the argument: the job deletes on the answer of an earlier
  lookup, and between the two users and the reconciler go on.  When the lookup
  finds no object with the name in the ARN's tags, `HeldInv` says that no version
  of it with the finalizer and without a deletion timestamp is left, in the
  cache or in flight, and no worker is past `AddFinalizer` on it; other objects
  cannot name the ARN because of its tags; and a later request gets a new ARN.
  `ForeignInv` adds that foreign ARNs bear a foreign owner tag; everything that
  is deleted bears ours.

* `ManagerImplementsLossyLifecycle` (LifecycleProofs): `Spec =>
  ImplementsLossyLifecycle`.  Every action is shown to be a step of
  `CertificateLifecycle` or a stutter under the mapping.  The interesting ones
  are those that act on old copies: a status is applied only to an object that is
  protected *now* (`FinalizerHeld`), an object is released only when the ARN of
  the stored status is gone, and the finalizer is added only to an object that is
  not under deletion *now*.  The last needs `AddingInv`: the copy is the version in
  the cache or an older one, and hence, when the version check passes, the stored
  one.  `LifecycleInv` is `TrackedInv` with it.
* `IngressImplements` (IngressProofs): `IngressSpec => ImplementsCertificateSide`,
  that is, `IngressSpec => Spec`.  Step by step, what the Ingress controller does
  to Certificates is an action of a user.  For this its specifications must be
  among `Specs`, which is known where it reads the ingress and must be remembered
  until the write: `IngressInv` adds it to `IngressTypeOK`
  (`IngressTypeCorrectness`).  `IngressKeepsCertificatesSafe` draws the
  conclusion: finalizer and tracked certificates are safe in the whole manager.

* `StatusDescribesArnAlways` (StatusProofs): `Spec => []StatusDescribesArn`, under
  every fault.  A stored status is written from a copy that was read long before;
  `DescribedInv` therefore says of *every* version, stored, cached or in flight,
  and of the copy, that its records, and its state and dates once Issued, are those
  of its ARN.  Saying so
  is stable because ACM never changes the names of a certificate nor takes back
  that it was issued (`AcmFacts`; `IssuedInv`: a certificate in state ISSUED was
  issued), and ARNs in versions were handed out (`TagInv`).  The two places that
  make a new status are `requestACMCertificate`, which must clear the records
  (`RequestDescribes`), and `updateCertificateInfo` (`DetailDescribes`).
* `MakeBeforeBreakAlways` (InUseProofs): `Spec => []MakeBeforeBreak` if `outside`
  is not a fault site.  `SavedInv`: behind the second save the stored status *is*
  the copy's, whatever users do, since they cannot write statuses and the
  finalizer keeps the object; behind the wait it is Issued.  `CopyLiveInv`: the
  certificate a reconcile works with cannot be taken away under it, which goes
  through all deletions one by one (`Killers`, `CopySpared`).  By hand it can.
* `StatusArnLiveAlways`, `ManagerImplementsLifecycle` (InUseProofs): `Spec =>
  []StatusArnLive` and `Spec => ImplementsLifecycle` if no fault site is in
  `InUseLost`, that is `outside`, `save1Lost`, `info`, `save2`, `save2Lost`.  With
  each of these five alone TLC finds a Certificate whose status names a
  certificate that is gone: the error paths of lines 188-215 and a first save that
  loses its answer delete what has been saved.  With all others, crashes included,
  nobody deletes a certificate in use (`InUseSpared`): the cleanups do not by
  `TrackedInv`; a rollback does not because what it deletes was not saved
  (`UnsavedInv`); and the finalizer path, which goes by the deletion timestamp of a
  possibly old copy, does not because no version with a deletion timestamp
  is left, in the cache or in flight, of an object that carries the finalizer
  without one (`HeldAlone`, `DeletingAlone`): a re-created object gets its finalizer
  by an update of its latest version, and `AddingInv` says that the cache has
  then caught up.  `SpareInv` is the conjunction.  For the refinement, the proof
  of the lossy one is reused: its steps are steps of the strict one but for two,
  an ARN that is saved must be there (`SavesLive`) and one that is retired must not
  be in use (`InUseStays`).
* `AnnotationIssuedAlways`, `UsersCertificatesKeptAlways` (AnnotationProofs):
  `IngressSpec => []AnnotationIssued`, `IngressSpec => UsersCertificatesKept`, under
  every fault.  `AnnotationInv` carries what the cached status says from the read
  through the apply to the annotation, and from there on for as long as the
  annotation stays, also when its certificate is deleted.  `OwnedInv` remembers
  that the copy to be applied was owned when it was read: owner references stay,
  and are to the uid of an object (never 0, the uid of an absent one).
  `IngressKeepsStatuses` and `IngressKeepsInUse` draw the conclusions of
  `IngressImplements` for the theorems above.

Every invariant above was checked by TLC on the instance of a run before it was
proved.

Only model-checked: all liveness (`EventuallySettled`, `EventuallyPublished`,
`EventuallyCollected`, `StatusTracksAcm`, `EventuallyAnnotated`), since the prover does not reason about fairness and
`ENABLED`; and what is checked of `Failover`, whose cache may go back, so that
`HeldInv`, on which the theorems rest, does not hold there.  No module used in a
proof declares a `RECURSIVE` operator.

## Assumptions, and what is not modelled

* One pair of reconcilers is active at a time (the lease), with one worker each
  (`MaxConcurrentReconciles` is 1 by default).  An old leader that goes on for a
  while after it has lost the lease is not modelled: `mgr.Start` returns and the
  process exits.
* A restart lists the objects as they are; a failover goes on with the standby's
  cache.  Failover is composed with the certificate side, not with ingresses.
* `FinalizerHeld` and `TrackedSpared` hold with caches that lag but never go
  back.  Across a failover to an older cache they do not (`backward`), which is
  why `settles` checks other properties of it.
* Nobody but the controller removes the finalizer.
* The cache of DNSEndpoints is taken to be fresh; the conflict or "already
  exists" that a stale one leads to is the fault `dns`, a failed call that is
  retried.
* The cache of ingresses skips versions (the controller reads only the latest it
  has), that of Certificates does not.
* A certificate that a load balancer still uses cannot be deleted; this refusal
  is the fault `delete`.
* Line 556 drops the error of `NewCertificateRestClient`; the process would
  crash at line 588, which is a `Crash` of that replica.
* The owner check (`ingress_controller.go:101-106`) looks at kind and name of the
  first owner; here owner references are to ingresses of the Certificate's name
  only, and owners of other kinds are users' Certificates.  The dropped error of
  `SetControllerReference` cannot occur then.
* The first apply to an object changes its managed fields and so its version even
  if nothing else changes; this extra version is not modelled.
* What a job collects from a second page depends on what the first page becomes;
  `EventuallyCollected` is checked with a page that holds the account, safety
  (`jobs`) with one that does not.
* Events, logs, metrics and the order of lists without consequence are left out.
* Builders for metadata that no controller calls, deep copies, fakes, charts and
  end-to-end tests: no control of their own.

## Plan

Done: both controllers, job, ACM, API server and caches, crashes and failover,
their safety and liveness; an abstract lifecycle and three refinements, all
proved; every safety invariant and action property of the passing runs proved for
`AcmManager` or `AcmIngress`.

Next, in this order:

1. For lists of names without duplicates that contain the common name, that
   `compareACMCertificate` is equality of the sets of names, and from it
   `ReplacedOnlyOnChange` when no reconcile starts on a lagging cache.  Run
   `cnonly` shows that the hypothesis on the lists is needed.
2. What survives a failover to an older cache: types, `StatusDescribesArn`,
   `ForeignSpared`.  The proofs for `Spec` use `FinalizerHeld`, which does not
   survive.
3. A standby for the Ingress controller.
4. A run with two keys, and what is left of `EventuallyReleased` when the apply
   of a Certificate that is gone is refused, as a fixed controller would have it.
