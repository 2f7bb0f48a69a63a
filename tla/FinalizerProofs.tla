--------------------------- MODULE FinalizerProofs ---------------------------
(***************************************************************************)
(* The finalizer protocol, for every value of the constants: while the     *)
(* reconciler works on ACM the object is pinned by the finalizer, and the  *)
(* finalizer goes only after the ACM certificate.                          *)
(*                                                                         *)
(* Reconcile decides on a version it read from the cache, which may be     *)
(* old.  What saves it is that the cache only moves forward.  The          *)
(* inductive invariant has four parts: the watch stream leads from the     *)
(* cache to the store in increasing versions (WatchInv); a version that    *)
(* shows the finalizer and no deletion, however old, is proof that the     *)
(* finalizer is still there (HeldInv); FinalizerHeld itself; and a         *)
(* reconcile of the deletion path works on the version in the cache or on  *)
(* one that the version check will refuse (DeletionInv).                   *)
(***************************************************************************)
EXTENDS AcmManagerProofs

\* The watch stream of k, from the cache to the store.
WatchOK(k) ==
    /\ cache[k].rv <= certs[k].rv
    /\ Len(events[k]) = 0 => cache[k] = certs[k]
    /\ Len(events[k]) > 0 => events[k][Len(events[k])] = certs[k]
    /\ \A i \in 1 .. Len(events[k]) :
         /\ cache[k].rv < events[k][i].rv
         /\ events[k][i].rv <= certs[k].rv
    /\ \A i, j \in 1 .. Len(events[k]) :
         i < j => events[k][i].rv < events[k][j].rv

WatchInv == \A k \in Key : WatchOK(k)

\* A version on which Reconcile would work for ACM.
Held(o) == o.exists /\ o.finalizer /\ ~o.deleting

\* The object is there and cannot go without the reconciler.
Pinned(k) == certs[k].exists /\ certs[k].finalizer

HeldOK(k) ==
    /\ Held(cache[k]) => Pinned(k)
    /\ \A i \in 1 .. Len(events[k]) : Held(events[k][i]) => Pinned(k)

HeldInv == \A k \in Key : HeldOK(k)

DeletionInv ==
    /\ pc \in DeletingSteps =>
         /\ local.deleting
         /\ cache[key] = local \/ cache[key].rv > local.rv
    /\ pc = "removeFinalizer" => local.status.arn \notin LiveArns

FinalizerInv ==
    /\ TypeInv
    /\ WatchInv
    /\ HeldInv
    /\ FinalizerHeld
    /\ DeletionInv

-----------------------------------------------------------------------------
\* Versions have the fields the arguments below use.
LEMMA VersionType ==
  ASSUME NEW o \in Certificate
  PROVE  /\ o.rv \in Nat
         /\ o.exists \in BOOLEAN /\ o.finalizer \in BOOLEAN /\ o.deleting \in BOOLEAN
         /\ o.status \in StatusType
  BY DEF Certificate

\* A write extends the watch stream by the version it stores (Write).
LEMMA WriteWatch ==
  ASSUME KubeTypeOK, WatchInv, NEW k \in Key, NEW o \in Certificate,
         Write(k, o), UNCHANGED cache
  PROVE  WatchInv'
  <1> SUFFICES ASSUME NEW n \in Key PROVE WatchOK(n)'
    BY DEF WatchInv
  <1>1. CASE n # k
    <2>1. certs'[n] = certs[n] /\ events'[n] = events[n]
      BY <1>1 DEF Write, KubeTypeOK
    <2>2. QED
      BY <2>1 DEF WatchInv, WatchOK
  <1>2. CASE n = k
    <2> DEFINE e == events[k]
               s == Stored(k, o)
    <2>1. certs'[k] = s /\ events'[k] = Append(e, s) /\ s.rv = certs[k].rv + 1
      BY DEF Write, KubeTypeOK, Stored, Certificate
    <2>2. /\ e \in Seq(Certificate) /\ s \in Certificate
          /\ certs[k].rv \in Nat /\ cache[k].rv \in Nat
      BY StoredType DEF KubeTypeOK, Certificate
    <2>3. /\ Len(Append(e, s)) = Len(e) + 1
          /\ Append(e, s)[Len(e) + 1] = s
          /\ \A i \in 1 .. Len(e) : Append(e, s)[i] = e[i] /\ e[i].rv \in Nat
          /\ Len(e) \in Nat
      BY <2>2, VersionType
    <2>4. cache[k].rv < s.rv
      BY <2>1, <2>2 DEF WatchInv, WatchOK
    <2>5. \A i \in 1 .. Len(e) + 1 :
             cache[k].rv < Append(e, s)[i].rv /\ Append(e, s)[i].rv <= s.rv
      BY <2>1, <2>2, <2>3, <2>4 DEF WatchInv, WatchOK
    <2>6. \A i, j \in 1 .. Len(e) + 1 :
             i < j => Append(e, s)[i].rv < Append(e, s)[j].rv
      <3> SUFFICES ASSUME NEW i \in 1 .. Len(e) + 1, NEW j \in 1 .. Len(e) + 1, i < j
                   PROVE  Append(e, s)[i].rv < Append(e, s)[j].rv
        OBVIOUS
      <3>1. i \in 1 .. Len(e)
        <4>1. Len(e) \in Nat
          BY <2>3
        <4>2. QED
          BY <4>1
      <3>2. CASE j = Len(e) + 1
        <4>1. e[i].rv <= certs[k].rv /\ e[i].rv \in Nat
          BY <2>3, <3>1 DEF WatchInv, WatchOK
        <4>2. QED
          BY <2>1, <2>2, <2>3, <3>1, <3>2, <4>1
      <3>3. CASE j \in 1 .. Len(e)
        <4>1. e[i].rv < e[j].rv
          BY <3>1, <3>3 DEF WatchInv, WatchOK
        <4>2. QED
          BY <2>3, <3>1, <3>3, <4>1
      <3>4. j = Len(e) + 1 \/ j \in 1 .. Len(e)
        <4>1. Len(e) \in Nat
          BY <2>3
        <4>2. QED
          BY <4>1
      <3>5. QED
        BY ONLY <3>2, <3>3, <3>4
    <2>7. QED
      BY <1>2, <2>1, <2>2, <2>3, <2>4, <2>5, <2>6 DEF WatchOK
  <1>3. QED
    BY <1>1, <1>2

\* A write that leaves a pinned object pinned agrees with every version that
\* the cache may still show.
LEMMA WriteHeld ==
  ASSUME KubeTypeOK, HeldInv, NEW k \in Key, NEW o \in Certificate,
         Write(k, o), UNCHANGED cache,
         Pinned(k) => o.exists /\ o.finalizer
  PROVE  /\ HeldInv'
         /\ \A n \in Key : Pinned(n) => Pinned(n)'
  <1> DEFINE e == events[k]
             s == Stored(k, o)
  <1>1. /\ certs'[k] = s /\ events'[k] = Append(e, s)
        /\ s.exists = o.exists /\ s.finalizer = o.finalizer /\ s.deleting = o.deleting
    BY DEF Write, KubeTypeOK, Stored, Certificate
  <1>2. \A n \in Key \ {k} : certs'[n] = certs[n] /\ events'[n] = events[n]
    BY DEF Write, KubeTypeOK
  <1>3. \A n \in Key : Pinned(n) => Pinned(n)'
    BY <1>1, <1>2 DEF Pinned
  <1>4. \A n \in Key \ {k} : HeldOK(n)'
    BY <1>2 DEF HeldInv, HeldOK, Pinned
  <1>5. HeldOK(k)'
    <2>1. e \in Seq(Certificate) /\ s \in Certificate
      BY StoredType DEF KubeTypeOK
    <2>2. /\ Len(Append(e, s)) = Len(e) + 1
          /\ Append(e, s)[Len(e) + 1] = s
          /\ \A i \in 1 .. Len(e) : Append(e, s)[i] = e[i]
          /\ Len(e) \in Nat
      BY <2>1
    <2>3. Held(s) => Pinned(k)'
      BY <1>1 DEF Held, Pinned
    <2>4. \A i \in 1 .. Len(e) : Held(e[i]) => Pinned(k)'
      BY <1>3 DEF HeldInv, HeldOK
    <2>5. Held(cache[k]) => Pinned(k)'
      BY <1>3 DEF HeldInv, HeldOK
    <2>6. QED
      BY <1>1, <2>2, <2>3, <2>4, <2>5 DEF HeldOK
  <1>6. QED
    BY <1>3, <1>4, <1>5 DEF HeldInv

\* When nothing is written and nothing delivered, nothing changes.
LEMMA QuietKube ==
  ASSUME WatchInv, HeldInv, UNCHANGED <<certs, events, cache>>
  PROVE  WatchInv' /\ HeldInv' /\ \A n \in Key : Pinned(n) => Pinned(n)'
  BY DEF WatchInv, WatchOK, HeldInv, HeldOK, Pinned

\* Delivering a version moves the cache forward (WatchDeliver).
LEMMA DeliverWatch ==
  ASSUME KubeTypeOK, WatchInv, HeldInv, NEW k \in Key, WatchDeliver(k)
  PROVE  /\ WatchInv' /\ HeldInv'
         /\ \A n \in Key : cache'[n] = cache[n] \/ cache'[n].rv > cache[n].rv
         /\ \A n \in Key : Pinned(n) => Pinned(n)'
  <1> DEFINE e == events[k]
  <1>1. /\ e \in Seq(Certificate) /\ e # <<>>
        /\ cache'[k] = e[1] /\ events'[k] = Tail(e) /\ certs' = certs
        /\ \A n \in Key \ {k} : cache'[n] = cache[n] /\ events'[n] = events[n]
    BY DEF WatchDeliver, KubeTypeOK
  <1>2. /\ Len(e) \in Nat \ {0}
        /\ Len(Tail(e)) = Len(e) - 1
        /\ \A i \in 1 .. Len(e) - 1 : Tail(e)[i] = e[i + 1]
    BY <1>1
  <1>3. /\ certs[k].rv \in Nat /\ cache[k].rv \in Nat
        /\ \A i \in 1 .. Len(e) : e[i].rv \in Nat
    BY <1>1, VersionType DEF KubeTypeOK
  <1>4. WatchOK(k)'
    <2>1. e[1].rv <= certs[k].rv
      BY <1>2 DEF WatchInv, WatchOK
    <2>2. Len(Tail(e)) = 0 => e[1] = certs[k]
      BY <1>1, <1>2 DEF WatchInv, WatchOK
    <2>3. Len(Tail(e)) > 0 => Tail(e)[Len(Tail(e))] = certs[k]
      <3>1. e[Len(e)] = certs[k]
        BY <1>1 DEF WatchInv, WatchOK
      <3>2. QED
        BY <1>2, <3>1
    <2>4. \A i \in 1 .. Len(Tail(e)) :
            e[1].rv < Tail(e)[i].rv /\ Tail(e)[i].rv <= certs[k].rv
      BY <1>2 DEF WatchInv, WatchOK
    <2>5. \A i, j \in 1 .. Len(Tail(e)) : i < j => Tail(e)[i].rv < Tail(e)[j].rv
      BY <1>2 DEF WatchInv, WatchOK
    <2>6. QED
      BY <1>1, <2>1, <2>2, <2>3, <2>4, <2>5 DEF WatchOK
  <1>5. HeldOK(k)'
    <2>1. \A i \in 1 .. Len(e) : Held(e[i]) => Pinned(k)
      BY DEF HeldInv, HeldOK
    <2>2. Held(e[1]) => Pinned(k)
      BY <1>2, <2>1
    <2>3. \A i \in 1 .. Len(Tail(e)) : Held(Tail(e)[i]) => Pinned(k)
      BY <1>2, <2>1
    <2>4. QED
      BY <1>1, <2>2, <2>3 DEF HeldOK, Pinned
  <1>6. \A n \in Key \ {k} : WatchOK(n)' /\ HeldOK(n)'
    BY <1>1 DEF WatchInv, WatchOK, HeldInv, HeldOK, Pinned
  <1>7. cache'[k].rv > cache[k].rv
    BY <1>1, <1>2, <1>3 DEF WatchInv, WatchOK
  <1>8. QED
    BY <1>1, <1>4, <1>5, <1>6, <1>7 DEF WatchInv, HeldInv, Pinned

-----------------------------------------------------------------------------
\* A status apply writes the status only (updateWithStatus).
LEMMA ApplyStatusInv ==
  ASSUME KubeTypeOK, WatchInv, HeldInv, NEW k \in Key, NEW status \in StatusType,
         ApplyStatus(k, status), UNCHANGED cache
  PROVE  WatchInv' /\ HeldInv' /\ \A n \in Key : Pinned(n) => Pinned(n)'
  <1> DEFINE o == [certs[k] EXCEPT !.status = status]
  <1>1. certs[k] \in Certificate
    BY DEF KubeTypeOK
  <1>2. /\ o \in Certificate
        /\ o.exists = certs[k].exists /\ o.finalizer = certs[k].finalizer
    BY <1>1, WithStatusType DEF Certificate
  <1>3. CASE NoWrite
    BY <1>3, QuietKube DEF NoWrite
  <1>4. CASE Write(k, o)
    <2>1. Pinned(k) => o.exists /\ o.finalizer
      BY <1>2 DEF Pinned
    <2>2. QED
      BY <1>2, <1>4, <2>1, WriteWatch, WriteHeld
  <1>5. QED
    BY <1>3, <1>4 DEF ApplyStatus

\* Between reconciles there is nothing to hold.
LEMMA IdleInv ==
  ASSUME pc' = "idle"
  PROVE  FinalizerHeld' /\ DeletionInv'
  BY DEF FinalizerHeld, DeletionInv, WorkingSteps, DeletingSteps

\* Work on a pinned object goes on as long as it stays pinned.
LEMMA WorkingInv ==
  ASSUME key \in Key, Pinned(key), Pinned(key) => Pinned(key)', key' = key,
         pc' \in WorkingSteps
  PROVE  FinalizerHeld' /\ DeletionInv'
  BY DEF FinalizerHeld, DeletionInv, Pinned, WorkingSteps, DeletingSteps

\* A worker's step on the main path keeps the invariant when all it writes
\* is the status.
LEMMA WorkStepInv ==
  ASSUME FinalizerInv, TypeInv', pc \in WorkingSteps, UNCHANGED cache,
         pc' = "idle" \/ (pc' \in WorkingSteps /\ key' = key),
         NoWrite \/ ApplyStatus(key, local.status)
  PROVE  FinalizerInv'
  <1>1. key \in Key /\ local.status \in StatusType /\ KubeTypeOK
    BY VersionType DEF FinalizerInv, TypeInv, WorkerOK, ReconcilerTypeOK
  <1>2. WatchInv' /\ HeldInv' /\ \A n \in Key : Pinned(n) => Pinned(n)'
    BY <1>1, QuietKube, ApplyStatusInv DEF FinalizerInv, NoWrite
  <1>3. Pinned(key)
    BY DEF FinalizerInv, FinalizerHeld, Pinned
  <1>4. FinalizerHeld' /\ DeletionInv'
    BY <1>1, <1>2, <1>3, IdleInv, WorkingInv
  <1>5. QED
    BY <1>2, <1>4 DEF FinalizerInv

\* What others do while the worker stands still.
LEMMA BystanderInv ==
  ASSUME FinalizerInv, UNCHANGED <<pc, key, local>>,
         LiveArns' \subseteq LiveArns,
         \A n \in Key : cache'[n] = cache[n] \/ cache'[n].rv > cache[n].rv,
         \A n \in Key : cache[n].rv \in Nat /\ cache'[n].rv \in Nat,
         \A n \in Key : Pinned(n) => Pinned(n)'
  PROVE  FinalizerHeld' /\ DeletionInv'
  <1>1. key \in Key /\ local \in Certificate /\ local.rv \in Nat
    BY VersionType DEF FinalizerInv, TypeInv, WorkerOK, ReconcilerTypeOK
  <1>2. FinalizerHeld'
    BY <1>1 DEF FinalizerInv, FinalizerHeld, Pinned
  <1>3. DeletionInv'
    BY <1>1 DEF FinalizerInv, DeletionInv
  <1>4. QED
    BY <1>2, <1>3

\* Nothing but a request brings a certificate to life.
LEMMA DeleteLive ==
  ASSUME AcmTypeOK, NEW a, DeleteCertificate(a) \/ UNCHANGED acmVars
  PROVE  LiveArns' \subseteq LiveArns
  BY DEF AcmTypeOK, DeleteCertificate, acmVars, LiveArns

\* What has been deleted is not live (deleteACMCertificate).
LEMMA DeleteKills ==
  ASSUME AcmTypeOK, NEW a, DeleteCertificate(a)
  PROVE  a \notin LiveArns'
  <1>1. CASE a \in LiveArns
    <2>1. a \in Arn /\ acm[a] \in AcmCertificate
      BY <1>1 DEF LiveArns, AcmTypeOK
    <2>2. acm'[a] = [acm[a] EXCEPT !.st = "deleted"]
      BY <1>1, <2>1 DEF DeleteCertificate, AcmTypeOK
    <2>3. acm'[a].st = "deleted"
      BY <2>1, <2>2 DEF AcmCertificate
    <2>4. QED
      BY <2>3 DEF LiveArns
  <1>2. CASE a \notin LiveArns
    BY <1>2 DEF DeleteCertificate, LiveArns
  <1>3. QED
    BY <1>1, <1>2

LEMMA CacheType ==
  ASSUME KubeTypeOK
  PROVE  \A n \in Key : cache[n].rv \in Nat
  BY VersionType DEF KubeTypeOK

-----------------------------------------------------------------------------
LEMMA FinalizerInit == Init => FinalizerInv
  <1> SUFFICES ASSUME Init PROVE FinalizerInv
    OBVIOUS
  <1>1. TypeInv
    BY TypeInit
  <1>2. \A k \in Key : /\ certs[k] = Gone(0) /\ cache[k] = Gone(0)
                       /\ events[k] = <<>>
    BY DEF Init, KubeInit
  <1>3. /\ Gone(0).rv = 0 /\ ~Gone(0).exists
        /\ Len(<<>>) = 0
    BY DEF Gone
  <1>4. WatchInv
    BY <1>2, <1>3 DEF WatchInv, WatchOK
  <1>5. HeldInv
    BY <1>2, <1>3 DEF HeldInv, HeldOK, Held
  <1>6. FinalizerHeld /\ DeletionInv
    BY DEF Init, ReconcilerInit, FinalizerHeld, DeletionInv, WorkingSteps, DeletingSteps
  <1>7. QED
    BY <1>1, <1>4, <1>5, <1>6 DEF FinalizerInv

LEMMA StartInv ==
  ASSUME FinalizerInv, TypeInv', NEW k \in Key, Start(k)
  PROVE  FinalizerInv'
  <1>1. WatchInv' /\ HeldInv'
    BY QuietKube DEF FinalizerInv, Start
  <1>2. cache[k] \in Certificate /\ key' = k /\ cache' = cache /\ certs' = certs
    BY DEF FinalizerInv, TypeInv, KubeTypeOK, Start
  <1>3. CASE UNCHANGED pc
    BY <1>1, <1>3, IdleInv DEF Start, FinalizerInv
  <1>4. CASE cache[k].exists /\ local' = cache[k] /\ pc' = FirstStep(cache[k])
    <2>1. ASSUME cache[k].deleting PROVE FinalizerHeld' /\ DeletionInv'
      <3>1. pc' = "deleteAcm" /\ local' = cache'[key']
        BY <1>2, <1>4, <2>1 DEF FirstStep
      <3>2. QED
        BY <1>2, <1>4, <2>1, <3>1 DEF FinalizerHeld, DeletionInv, DeletingSteps, WorkingSteps
    <2>2. ASSUME ~cache[k].deleting, ~cache[k].finalizer
          PROVE  FinalizerHeld' /\ DeletionInv'
      <3>1. pc' = "addFinalizer"
        BY <1>4, <2>2 DEF FirstStep
      <3>2. QED
        BY <3>1 DEF FinalizerHeld, DeletionInv, DeletingSteps, WorkingSteps
    <2>3. ASSUME ~cache[k].deleting, cache[k].finalizer
          PROVE  FinalizerHeld' /\ DeletionInv'
      <3>1. Pinned(k)
        BY <1>4, <2>3 DEF FinalizerInv, HeldInv, HeldOK, Held
      <3>2. pc' = AcquireStep(cache[k])
        BY <1>4, <2>3 DEF FirstStep
      <3>3. QED
        BY <1>2, <3>1, <3>2
        DEF AcquireStep, FinalizerHeld, DeletionInv, Pinned, DeletingSteps
    <2>4. QED
      BY <1>1, <2>1, <2>2, <2>3 DEF FinalizerInv
  <1>5. QED
    BY <1>3, <1>4 DEF Start

LEMMA AddFinalizerInv ==
  ASSUME FinalizerInv, TypeInv', AddFinalizer
  PROVE  FinalizerInv'
  <1> DEFINE o == [local EXCEPT !.finalizer = TRUE]
  <1>1. o \in Certificate /\ o.exists /\ o.finalizer /\ key \in Key /\ KubeTypeOK
    BY DEF FinalizerInv, TypeInv, WorkerOK, ReconcilerTypeOK, AddFinalizer, Certificate
  <1>2. CASE NoWrite /\ Return(TRUE)
    <2>1. WatchInv' /\ HeldInv'
      BY <1>2, QuietKube DEF FinalizerInv, AddFinalizer, NoWrite
    <2>2. QED
      BY <1>2, <2>1, IdleInv DEF FinalizerInv, Return
  <1>3. CASE Write(key, o)
    <2>1. WatchInv' /\ HeldInv'
      BY <1>1, <1>3, WriteWatch, WriteHeld DEF FinalizerInv, AddFinalizer
    <2>2. certs'[key] = Stored(key, o)
      BY <1>1, <1>3 DEF Write, KubeTypeOK
    <2>3. Pinned(key)'
      <3>1. Stored(key, o).exists /\ Stored(key, o).finalizer
        BY <1>1 DEF Stored, Certificate
      <3>2. CASE key' = key
        BY <2>2, <3>1, <3>2 DEF Pinned
      <3>3. QED
        BY <3>2 DEF AddFinalizer, Return, GotoWith
    <2>4. FinalizerHeld' /\ DeletionInv'
      <3>1. CASE pc' = "idle"
        BY <3>1, IdleInv
      <3>2. CASE pc' = AcquireStep(local)
        BY <2>3, <3>2 DEF AcquireStep, FinalizerHeld, DeletionInv, Pinned, DeletingSteps
      <3>3. QED
        BY <3>1, <3>2 DEF AddFinalizer, Return, GotoWith
    <2>5. QED
      BY <2>1, <2>4 DEF FinalizerInv
  <1>4. QED
    BY <1>2, <1>3 DEF AddFinalizer

LEMMA DeleteAcmInv ==
  ASSUME FinalizerInv, TypeInv', DeleteAcm
  PROVE  FinalizerInv'
  <1>1. WatchInv' /\ HeldInv'
    BY QuietKube DEF FinalizerInv, DeleteAcm
  <1>2. CASE Return(TRUE)
    BY <1>1, <1>2, IdleInv DEF FinalizerInv, Return
  <1>3. CASE DeleteCertificate(local.status.arn) /\ Goto("removeFinalizer")
    <2>1. pc' = "removeFinalizer" /\ key' = key /\ local' = local /\ cache' = cache
      BY <1>3 DEF Goto, locals, DeleteAcm
    <2>2. local.status.arn \notin LiveArns'
      BY <1>3, DeleteKills DEF FinalizerInv, TypeInv
    <2>3. QED
      BY <1>1, <2>1, <2>2 DEF FinalizerInv, FinalizerHeld, DeletionInv, WorkingSteps,
         DeletingSteps, DeleteAcm
  <1>4. QED
    BY <1>2, <1>3 DEF DeleteAcm

\* A version check that passes on the deletion path means that the cache is
\* up to date and shows the deletion: no version with the finalizer and
\* without the deletion is still to be seen.
LEMMA DeletionUpToDate ==
  ASSUME FinalizerInv, pc \in DeletingSteps, UpToDate(key, local)
  PROVE  /\ certs[key] = local /\ cache[key] = local /\ Len(events[key]) = 0
         /\ local.deleting
  <1>1. /\ key \in Key /\ local.rv \in Nat
        /\ certs[key].rv \in Nat /\ cache[key].rv \in Nat
        /\ Len(events[key]) \in Nat
    BY VersionType DEF FinalizerInv, TypeInv, WorkerOK, ReconcilerTypeOK, KubeTypeOK
  <1>2. certs[key].rv = local.rv /\ cache[key].rv <= certs[key].rv
    BY <1>1 DEF UpToDate, FinalizerInv, WatchInv, WatchOK
  <1>3. cache[key] = local
    BY <1>1, <1>2 DEF FinalizerInv, DeletionInv
  <1>4. Len(events[key]) = 0
    <2>1. ASSUME Len(events[key]) # 0 PROVE FALSE
      <3>1. 1 \in 1 .. Len(events[key])
        BY <1>1, <2>1
      <3>2. events[key][1] \in Certificate
        BY <3>1 DEF FinalizerInv, TypeInv, KubeTypeOK, WorkerOK, ReconcilerTypeOK
      <3>3. cache[key].rv < events[key][1].rv /\ events[key][1].rv <= certs[key].rv
        BY <1>1, <3>1 DEF FinalizerInv, WatchInv, WatchOK
      <3>4. QED
        BY <1>1, <1>2, <1>3, <3>2, <3>3, VersionType
    <2>2. QED
      BY <2>1
  <1>5. QED
    BY <1>1, <1>3, <1>4 DEF FinalizerInv, WatchInv, WatchOK, DeletionInv

LEMMA RemoveFinalizerInv ==
  ASSUME FinalizerInv, TypeInv', RemoveFinalizer
  PROVE  FinalizerInv'
  <1>1. FinalizerHeld' /\ DeletionInv'
    BY IdleInv DEF RemoveFinalizer, Return
  <1>2. CASE NoWrite
    BY <1>1, <1>2, QuietKube DEF FinalizerInv, RemoveFinalizer, NoWrite
  <1>3. CASE UpToDate(key, local) /\ Write(key, Gone(0))
    <2>1. key \in Key /\ KubeTypeOK /\ Gone(0) \in Certificate /\ cache' = cache
      BY GoneType DEF FinalizerInv, TypeInv, WorkerOK, ReconcilerTypeOK, RemoveFinalizer
    <2>2. WatchInv'
      BY <1>3, <2>1, WriteWatch DEF FinalizerInv
    <2>3. \A n \in Key \ {key} : HeldOK(n)'
      <3>1. \A n \in Key \ {key} : certs'[n] = certs[n] /\ events'[n] = events[n]
        BY <1>3, <2>1 DEF Write, KubeTypeOK
      <3>2. QED
        BY <2>1, <3>1 DEF FinalizerInv, HeldInv, HeldOK, Pinned
    <2>4. HeldOK(key)'
      <3> DEFINE k == key
                 s == Stored(k, Gone(0))
      <3>1. cache[k] = local /\ Len(events[k]) = 0 /\ local.deleting
        BY <1>3, DeletionUpToDate DEF RemoveFinalizer, DeletingSteps
      <3>2. events'[k] = Append(events[k], s) /\ s \in Certificate /\ ~s.exists
        BY <1>3, <2>1, StoredType DEF Write, KubeTypeOK, Stored, Gone, Certificate
      <3>3. Len(events'[k]) = 1 /\ events'[k][1] = s
        BY <2>1, <3>1, <3>2 DEF KubeTypeOK
      <3>4. ~Held(cache'[k]) /\ \A i \in 1 .. Len(events'[k]) : ~Held(events'[k][i])
        BY <2>1, <3>1, <3>2, <3>3 DEF Held
      <3>5. key' = key
        BY DEF RemoveFinalizer, Return
      <3>6. QED
        BY <3>4, <3>5 DEF HeldOK
    <2>5. key' = key
      BY DEF RemoveFinalizer, Return
    <2>6. QED
      BY <1>1, <2>2, <2>3, <2>4, <2>5 DEF FinalizerInv, HeldInv
  <1>4. QED
    BY <1>2, <1>3 DEF RemoveFinalizer

\* The steps of the main path (Reconcile, from line 139 on).
LEMMA MainPathInv ==
  ASSUME FinalizerInv, TypeInv',
         \/ Request \/ SaveError \/ Compare \/ Save1 \/ UpdateCertificateInfo
         \/ Save2 \/ Rollback \/ SyncDNSEndpoints
         \/ ListForCleanup \/ CleanupTags \/ CleanupPurge
  PROVE  FinalizerInv'
  <1> USE DEF WorkingSteps, Return, Goto, GotoWith, locals, NoWrite
  <1>1. CASE Request
    BY <1>1, WorkStepInv DEF Request
  <1>2. CASE SaveError
    BY <1>2, WorkStepInv DEF SaveError
  <1>3. CASE Compare
    BY <1>3, WorkStepInv DEF Compare
  <1>4. CASE Save1
    BY <1>4, WorkStepInv DEF Save1, Save, Abort
  <1>5. CASE UpdateCertificateInfo
    BY <1>5, WorkStepInv DEF UpdateCertificateInfo, Abort
  <1>6. CASE Save2
    BY <1>6, WorkStepInv DEF Save2, Save, Abort
  <1>7. CASE Rollback
    BY <1>7, WorkStepInv DEF Rollback
  <1>8. CASE SyncDNSEndpoints
    BY <1>8, WorkStepInv DEF SyncDNSEndpoints
  <1>9. CASE ListForCleanup
    BY <1>9, WorkStepInv DEF ListForCleanup
  <1>10. CASE CleanupTags
    BY <1>10, WorkStepInv DEF CleanupTags
  <1>11. CASE CleanupPurge
    BY <1>11, WorkStepInv DEF CleanupPurge
  <1>12. QED
    BY <1>1, <1>2, <1>3, <1>4, <1>5, <1>6, <1>7, <1>8, <1>9, <1>10, <1>11

LEMMA WorkerInv ==
  ASSUME FinalizerInv, TypeInv', Worker
  PROVE  FinalizerInv'
  BY StartInv, AddFinalizerInv, DeleteAcmInv, RemoveFinalizerInv, MainPathInv
  DEF Worker, ReconcileStep

LEMMA JobInv ==
  ASSUME FinalizerInv, TypeInv', Job
  PROVE  FinalizerInv'
  <1> PICK r \in Replica : JobStep(r) /\ UNCHANGED workerVars
    BY DEF Job
  <1>1. UNCHANGED <<certs, events, cache, pc, key, local>>
    BY DEF JobStep, JobList, JobListFails, JobTags, JobGet, JobDelete, kubeVars,
       workerVars, locals
  <1>2. LiveArns' \subseteq LiveArns
    BY DeleteLive DEF JobStep, JobList, JobListFails, JobTags, JobGet, JobDelete,
       FinalizerInv, TypeInv
  <1>3. WatchInv' /\ HeldInv' /\ \A n \in Key : Pinned(n) => Pinned(n)'
    BY <1>1, QuietKube DEF FinalizerInv
  <1>4. QED
    BY <1>1, <1>2, <1>3, BystanderInv, CacheType DEF FinalizerInv, TypeInv

LEMMA KubeInv ==
  ASSUME FinalizerInv, TypeInv', Kube
  PROVE  FinalizerInv'
  <1> PICK k \in Key : WatchDeliver(k) \/ Resync(k) \/ CollectDns(k)
    BY DEF Kube
  <1>1. UNCHANGED <<pc, key, local>> /\ LiveArns' = LiveArns
    BY DEF Kube, workerVars, locals, acmVars, LiveArns
  <1>2. /\ WatchInv' /\ HeldInv'
        /\ \A n \in Key : cache'[n] = cache[n] \/ cache'[n].rv > cache[n].rv
        /\ \A n \in Key : Pinned(n) => Pinned(n)'
    <2>1. CASE WatchDeliver(k)
      BY <2>1, DeliverWatch DEF FinalizerInv, TypeInv
    <2>2. CASE Resync(k) \/ CollectDns(k)
      BY <2>2, QuietKube DEF Resync, CollectDns, FinalizerInv
    <2>3. QED
      BY <2>1, <2>2
  <1>3. \A n \in Key : cache[n].rv \in Nat /\ cache'[n].rv \in Nat
    BY CacheType, VersionType DEF FinalizerInv, TypeInv, KubeTypeOK
  <1>4. QED
    BY <1>1, <1>2, <1>3, BystanderInv DEF FinalizerInv

LEMMA AcmInv ==
  ASSUME FinalizerInv, TypeInv', Acm
  PROVE  FinalizerInv'
  <1>1. UNCHANGED <<certs, events, cache, pc, key, local>>
    BY DEF Acm, workerVars, locals, kubeVars
  <1>2. LiveArns' \subseteq LiveArns
    <2> PICK a \in Arn : \/ RecordsReady(a)
                        \/ Issue(a, Published)
                        \/ \E s \in AcmStatus : Lapse(a, s)
      BY DEF Acm
    <2>1. acm \in [Arn -> AcmCertificate] /\ a \in LiveArns
      BY DEF FinalizerInv, TypeInv, AcmTypeOK, RecordsReady, Issue, Lapse, LiveArns
    <2>2. \A b \in Arn \ {a} : acm'[b] = acm[b]
      BY <2>1 DEF RecordsReady, Issue, Lapse
    <2>3. QED
      BY <2>1, <2>2 DEF LiveArns
  <1>3. WatchInv' /\ HeldInv' /\ \A n \in Key : Pinned(n) => Pinned(n)'
    BY <1>1, QuietKube DEF FinalizerInv
  <1>4. QED
    BY <1>1, <1>2, <1>3, BystanderInv, CacheType DEF FinalizerInv, TypeInv

\* Users write objects; those that carry the finalizer keep it.
LEMMA UserWrite ==
  ASSUME FinalizerInv, User
  PROVE  /\ UserOp
         /\ \E k \in Key, o \in Certificate :
              Write(k, o) /\ (Pinned(k) => o.exists /\ o.finalizer)
  <1>1. PICK k \in Key : \/ \E spec \in Specs : CreateCertificate(k, spec)
                         \/ \E spec \in Specs : ChangeSpec(k, spec)
                         \/ DeleteCertificateObject(k)
    BY DEF User
  <1>2. certs[k] \in Certificate /\ certs[k].rv + 1 \in Nat /\ Gone(0) \in Certificate
    BY GoneType, VersionType DEF FinalizerInv, TypeInv, KubeTypeOK
  <1>3. ASSUME NEW spec \in Specs, CreateCertificate(k, spec)
        PROVE  \E o \in Certificate :
                  Write(k, o) /\ (Pinned(k) => o.exists /\ o.finalizer)
    BY <1>2, <1>3, FreshType DEF CreateCertificate, Pinned
  <1>4. ASSUME NEW spec \in Specs, ChangeSpec(k, spec)
        PROVE  \E o \in Certificate :
                  Write(k, o) /\ (Pinned(k) => o.exists /\ o.finalizer)
    <2> DEFINE o == [certs[k] EXCEPT !.spec = spec]
    <2>1. o \in Certificate /\ o.exists = certs[k].exists /\ o.finalizer = certs[k].finalizer
      BY <1>2 DEF Certificate
    <2>2. QED
      BY <1>4, <2>1 DEF ChangeSpec, Pinned
  <1>5. ASSUME DeleteCertificateObject(k)
        PROVE  \E o \in Certificate :
                  Write(k, o) /\ (Pinned(k) => o.exists /\ o.finalizer)
    <2> DEFINE o == [certs[k] EXCEPT !.deleting = TRUE]
    <2>1. o \in Certificate /\ o.exists = certs[k].exists /\ o.finalizer = certs[k].finalizer
      BY <1>2 DEF Certificate
    <2>2. QED
      BY <1>2, <1>5, <2>1 DEF DeleteCertificateObject, Pinned
  <1>6. UserOp
    BY DEF User, CreateCertificate, ChangeSpec, DeleteCertificateObject
  <1>7. QED
    BY <1>1, <1>3, <1>4, <1>5, <1>6

LEMMA UserInv ==
  ASSUME FinalizerInv, TypeInv', User
  PROVE  FinalizerInv'
  <1>1. /\ UNCHANGED <<cache, pc, key, local>> /\ LiveArns' = LiveArns
    BY UserWrite DEF UserOp, workerVars, locals, acmVars, LiveArns
  <1>2. WatchInv' /\ HeldInv' /\ \A n \in Key : Pinned(n) => Pinned(n)'
    BY <1>1, UserWrite, WriteWatch, WriteHeld DEF FinalizerInv, TypeInv
  <1>3. QED
    BY <1>1, <1>2, BystanderInv, CacheType DEF FinalizerInv, TypeInv

LEMMA EnvironmentInv ==
  ASSUME FinalizerInv, TypeInv', Environment
  PROVE  FinalizerInv'
  <1>1. ASSUME NEW a \in Arn, OutsideDelete(a) PROVE FinalizerInv'
    <2>1. UNCHANGED <<certs, events, cache, pc, key, local>>
      BY <1>1 DEF OutsideDelete, workerVars, locals, kubeVars
    <2>2. LiveArns' \subseteq LiveArns
      BY <1>1, DeleteLive DEF OutsideDelete, FinalizerInv, TypeInv
    <2>3. WatchInv' /\ HeldInv' /\ \A n \in Key : Pinned(n) => Pinned(n)'
      BY <2>1, QuietKube DEF FinalizerInv
    <2>4. QED
      BY <2>1, <2>2, <2>3, BystanderInv, CacheType DEF FinalizerInv, TypeInv
  <1>2. ASSUME NEW r \in Replica, Crash(r) PROVE FinalizerInv'
    <2>1. CASE r = Leader
      <3>1. /\ pc' = "idle" /\ cache' = certs /\ certs' = certs
            /\ events' = [k \in Key |-> <<>>]
        BY <1>2, <2>1, Zenon DEF Crash
      <3>2. \A k \in Key : Len(events'[k]) = 0
        BY <3>1
      <3>3. WatchInv' /\ HeldInv'
        BY <3>1, <3>2, VersionType DEF WatchInv, WatchOK, HeldInv, HeldOK, Held, Pinned,
           FinalizerInv, TypeInv, KubeTypeOK
      <3>4. QED
        BY <3>1, <3>3, IdleInv DEF FinalizerInv
    <2>2. CASE r # Leader
      <3>1. UNCHANGED <<certs, events, cache, pc, key, local, acm>>
        BY <1>2, <2>2 DEF Crash, workerVars, locals, kubeVars, acmVars
      <3>2. WatchInv' /\ HeldInv' /\ \A n \in Key : Pinned(n) => Pinned(n)'
        BY <3>1, QuietKube DEF FinalizerInv
      <3>3. QED
        BY <3>1, <3>2, BystanderInv, CacheType DEF FinalizerInv, TypeInv, LiveArns
    <2>3. QED
      BY <2>1, <2>2
  <1>3. QED
    BY <1>1, <1>2 DEF Environment

LEMMA FinalizerStep == FinalizerInv /\ [Next]_vars => FinalizerInv'
  <1> SUFFICES ASSUME FinalizerInv, [Next]_vars PROVE FinalizerInv'
    OBVIOUS
  <1>1. TypeInv'
    BY TypeStep DEF FinalizerInv
  <1>2. CASE Next
    BY <1>1, <1>2, WorkerInv, JobInv, KubeInv, AcmInv, UserInv, EnvironmentInv DEF Next
  <1>3. CASE UNCHANGED vars
    <2>1. UNCHANGED <<certs, events, cache, pc, key, local, acm>>
      BY <1>3 DEF vars, workerVars, locals, kubeVars, acmVars
    <2>2. WatchInv' /\ HeldInv' /\ \A n \in Key : Pinned(n) => Pinned(n)'
      BY <2>1, QuietKube DEF FinalizerInv
    <2>3. QED
      BY <1>1, <2>1, <2>2, BystanderInv, CacheType DEF FinalizerInv, TypeInv, LiveArns
  <1>4. QED
    BY <1>2, <1>3

-----------------------------------------------------------------------------
\* The inductive invariant of the finalizer protocol holds throughout.
THEOREM FinalizerInvariance == Spec => []FinalizerInv
  BY FinalizerInit, FinalizerStep, PTL DEF Spec

\* For any number of keys, replicas, stale reads, user operations and
\* faults: while Reconcile works on ACM for a Certificate, the object exists
\* and carries the finalizer.
THEOREM FinalizerHeldAlways == Spec => []FinalizerHeld
  <1>1. FinalizerInv => FinalizerHeld
    BY DEF FinalizerInv
  <1>2. QED
    BY <1>1, FinalizerInvariance, PTL

\* Only the reconciler's last step of the deletion path takes a pinned
\* object away.
LEMMA OnlyRemoveFinalizer ==
  ASSUME FinalizerInv, Next, NEW k \in Key, Pinned(k), ~certs'[k].exists
  PROVE  RemoveFinalizer /\ UpToDate(key, local) /\ k = key
  <1>1. ASSUME certs' = certs \/ (\A n \in Key : Pinned(n) => Pinned(n)') PROVE FALSE
    BY <1>1 DEF Pinned
  <1>2. KubeTypeOK /\ key \in Key /\ local.status \in StatusType
    BY VersionType DEF FinalizerInv, TypeInv, WorkerOK, ReconcilerTypeOK
  <1>3. CASE Job \/ Kube \/ Acm \/ Environment
    <2>1. certs' = certs
      BY <1>3 DEF Job, JobStep, JobList, JobListFails, JobTags, JobGet, JobDelete,
         Kube, WatchDeliver, Resync, CollectDns, Acm, Environment, OutsideDelete, Crash,
         kubeVars
    <2>2. QED
      BY <1>1, <2>1
  <1>4. CASE User
    <2>1. \A n \in Key : Pinned(n) => Pinned(n)'
      BY <1>4, UserWrite, WriteHeld DEF FinalizerInv, TypeInv, UserOp
    <2>2. QED
      BY <1>1, <2>1
  <1>5. CASE Worker
    <2>1. CASE RemoveFinalizer
      <3>1. CASE NoWrite
        BY <1>1, <3>1 DEF NoWrite
      <3>2. CASE UpToDate(key, local) /\ Write(key, Gone(0))
        <4>1. \A n \in Key \ {key} : certs'[n] = certs[n]
          BY <1>2, <3>2 DEF Write, KubeTypeOK
        <4>2. QED
          BY <2>1, <3>2, <4>1 DEF Pinned
      <3>3. QED
        BY <2>1, <3>1, <3>2 DEF RemoveFinalizer
    <2>2. CASE AddFinalizer
      <3> DEFINE o == [local EXCEPT !.finalizer = TRUE]
      <3>1. o \in Certificate /\ o.exists /\ o.finalizer
        BY <2>2 DEF FinalizerInv, TypeInv, WorkerOK, ReconcilerTypeOK, AddFinalizer,
           Certificate
      <3>2. CASE NoWrite
        BY <1>1, <3>2 DEF NoWrite
      <3>3. CASE Write(key, o)
        BY <1>1, <1>2, <2>2, <3>1, <3>3, WriteHeld DEF AddFinalizer, FinalizerInv
      <3>4. QED
        BY <2>2, <3>2, <3>3 DEF AddFinalizer
    <2>3. CASE SaveError \/ Save1 \/ Save2
      <3>1. cache' = cache /\ (NoWrite \/ ApplyStatus(key, local.status))
        BY <2>3 DEF SaveError, Save1, Save2, Save
      <3>2. QED
        BY <1>1, <1>2, <3>1, ApplyStatusInv DEF FinalizerInv, NoWrite
    <2>4. CASE \/ \E n \in Key : Start(n)
               \/ DeleteAcm \/ Request \/ Compare \/ UpdateCertificateInfo \/ Rollback
               \/ SyncDNSEndpoints \/ ListForCleanup \/ CleanupTags \/ CleanupPurge
      <3>1. certs' = certs
        BY <2>4 DEF Start, DeleteAcm, Request, Compare, UpdateCertificateInfo, Rollback,
           SyncDNSEndpoints, ListForCleanup, CleanupTags, CleanupPurge
      <3>2. QED
        BY <1>1, <3>1
    <2>5. QED
      BY <1>5, <2>1, <2>2, <2>3, <2>4 DEF Worker, ReconcileStep
  <1>6. QED
    BY <1>3, <1>4, <1>5 DEF Next

\* For every value of the constants: an object with the finalizer leaves the
\* API server only after the ACM certificate its status names is gone.
THEOREM FinalizerReleasesAlways == Spec => FinalizerReleases
  <1>1. ASSUME FinalizerInv, Next, NEW k \in Key,
               certs[k].exists, certs[k].finalizer, ~certs'[k].exists
        PROVE  certs[k].status.arn \notin LiveArns
    <2>1. RemoveFinalizer /\ UpToDate(key, local) /\ k = key
      BY <1>1, OnlyRemoveFinalizer DEF Pinned
    <2>2. certs[k] = local
      BY <1>1, <2>1, DeletionUpToDate DEF RemoveFinalizer, DeletingSteps
    <2>3. QED
      BY <1>1, <2>1, <2>2 DEF RemoveFinalizer, FinalizerInv, DeletionInv
  <1>2. FinalizerInv /\ [Next]_vars =>
          [\A k \in Key :
             certs[k].exists /\ certs[k].finalizer /\ ~certs'[k].exists =>
                 certs[k].status.arn \notin LiveArns]_vars
    BY <1>1
  <1>3. QED
    BY <1>2, FinalizerInvariance, PTL DEF Spec, FinalizerReleases
=============================================================================
