------------------------ MODULE LifecycleRefinement ------------------------
(***************************************************************************)
(* AcmManager implements CertificateLifecycle.                             *)
(***************************************************************************)
EXTENDS AcmManager

\* The part of a version of a Certificate that the lifecycle knows.
View(c) == [exists |-> c.exists, finalizer |-> c.finalizer,
            deleting |-> c.deleting, arn |-> c.status.arn]

Objects == [k \in Key |-> View(certs[k])]

Live == [k \in Key |-> OursFor(k)]

Strict == INSTANCE CertificateLifecycle
              WITH object <- Objects, live <- Live, Lossy <- FALSE

Weak == INSTANCE CertificateLifecycle
            WITH object <- Objects, live <- Live, Lossy <- TRUE

\* Reconciler, jobs, caches, retries and users together do nothing to a
\* Certificate and its ACM certificates but the steps of the lifecycle:
\* requests and statuses only under the finalizer, no deletion of an ACM
\* certificate in use, no release before its ACM certificate is gone.
ImplementsLifecycle == Strict!LifecycleSpec

\* The same for every fault, lost ACM certificates included: what remains
\* is the protocol of the finalizer.
ImplementsLossyLifecycle == Weak!LifecycleSpec
=============================================================================
