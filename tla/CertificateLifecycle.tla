------------------------ MODULE CertificateLifecycle ------------------------
(***************************************************************************)
(* What the manager promises of a Certificate, without saying how: which   *)
(* steps the object and the ACM certificates requested for it take.  There *)
(* are no caches, queues, copies or calls here, and whoever takes a step   *)
(* sees everything as it is.                                               *)
(***************************************************************************)
CONSTANTS
    Key,            \* the names of Certificates
    Arn, NoArn,     \* the names of ACM certificates, and none
    Lossy           \* may an ACM certificate in use be lost?

VARIABLES
    object,         \* by key, what matters of the Certificate object
    live            \* by key, the ACM certificates that bear its tags

lifecycleVars == <<object, live>>

Absent == [exists |-> FALSE, finalizer |-> FALSE, deleting |-> FALSE, arn |-> NoArn]

LifecycleInit ==
    /\ object = [k \in Key |-> Absent]
    /\ live = [k \in Key |-> {}]

-----------------------------------------------------------------------------
Become(k, o) == object' = [object EXCEPT ![k] = o] /\ UNCHANGED live

Hold(k, arns) == live' = [live EXCEPT ![k] = arns] /\ UNCHANGED object

\* The controller's work on ACM is protected by its finalizer.
Protected(k) == object[k].exists /\ object[k].finalizer

\* The object counts on this ACM certificate.
InUse(k, a) == object[k].exists /\ ~object[k].deleting /\ object[k].arn = a

Create(k) ==
    /\ ~object[k].exists
    /\ Become(k, [Absent EXCEPT !.exists = TRUE])

\* Without the finalizer a deletion is the end of the object.
Drop(k) ==
    /\ object[k].exists /\ ~object[k].finalizer
    /\ Become(k, Absent)

Protect(k) ==
    /\ object[k].exists /\ ~object[k].deleting
    /\ Become(k, [object[k] EXCEPT !.finalizer = TRUE])

Mark(k) ==
    /\ Protected(k)
    /\ Become(k, [object[k] EXCEPT !.deleting = TRUE])

\* ACM certificates are requested for protected objects only.
Request(k, a) ==
    /\ Protected(k)
    /\ Hold(k, live[k] \cup {a})

\* The status takes over an ARN that ACM has, or none.
Track(k, a) ==
    /\ Protected(k)
    /\ Lossy \/ a \in live[k] \cup {NoArn}
    /\ Become(k, [object[k] EXCEPT !.arn = a])

\* An ACM certificate is deleted, but not while it is in use.
Retire(k, a) ==
    /\ Lossy \/ ~InUse(k, a)
    /\ Hold(k, live[k] \ {a})

\* The object is let go when its ACM certificate is gone.
Release(k) ==
    /\ Protected(k) /\ object[k].deleting
    /\ object[k].arn \notin live[k]
    /\ Become(k, Absent)

LifecycleNext ==
    \E k \in Key :
        \/ Create(k) \/ Drop(k) \/ Protect(k) \/ Mark(k) \/ Release(k)
        \/ \E a \in Arn \cup {NoArn} : Request(k, a) \/ Track(k, a) \/ Retire(k, a)

LifecycleSpec == LifecycleInit /\ [][LifecycleNext]_lifecycleVars
=============================================================================
