---------------------- MODULE ClusterReconcilerProofs ----------------------
(***************************************************************************)
(* Proofs about ClusterReconciler for any specs, any number of             *)
(* incarnations of the name and any amount of interference.                *)
(***************************************************************************)
EXTENDS ClusterReconciler, TLAPS

\* A stale set that stays in step with the copies: a copy that is not in it is
\* the stored object, and a copy nobody holds is in it.
CurrentCopies ==
    /\ "cache" \notin stale => cache = pc
    /\ "worker" \notin stale => wk.pc = pc
    /\ wk = Idle => "worker" \in stale
    /\ \A w \in Stampers : w \notin stale => held[w] = pc
    /\ \A w \in Stampers : held[w] = NoPC => w \in stale

\* A copy never names an incarnation that has not been created yet.
KnownUids ==
    /\ pc.uid <= uid /\ cache.uid <= uid /\ wk.pc.uid <= uid
    /\ pc # NoPC /\ pc.del => pc.fin

\* c is a copy of a cluster under its finalizer and not being deleted.
Live(c) == c # NoPC /\ c.fin /\ ~c.del

Managing == {"register", "cm", "svc", "sts", "status"}

\* Why a lagging cache is harmless: only this worker removes the finalizer, it
\* does so from a copy that carries the deletion mark, and the cache it read
\* that copy from never goes back before the mark.
Adoption ==
    /\ Live(cache) => pc # NoPC /\ pc.uid = cache.uid /\ pc.fin
    /\ wk.at \in Managing => pc # NoPC /\ pc.uid = wk.pc.uid /\ pc.fin
    /\ cache # NoPC /\ cache.del /\ pc # NoPC /\ pc.uid = cache.uid => pc.del
    /\ wk.at = "finalize" =>
          /\ Live(cache) => cache.uid # wk.pc.uid
          /\ pc # NoPC /\ pc.uid = wk.pc.uid => pc.del

\* A child's cached copy that is not behind is the stored child.
CurrentChildren == \A k \in Kinds : k \notin behind => childCache[k] = child[k]

IInv == TypeOK /\ CurrentCopies /\ CurrentChildren /\ KnownUids /\ Adoption /\ SeriesFollowsCluster

----------------------------------------------------------------------------
(* Facts about the operators the actions are built from.                    *)

\* A stored cluster is not the absent one.
LEMMA ClusterExists ==
    ASSUME NEW c \in PCs PROVE c.uid \in Nat \ {0} /\ c # NoPC
  BY DEF PCs, NoPC

\* An update of a cluster is again a cluster, of the same incarnation.
LEMMA SpecUpdate ==
    ASSUME NEW c \in PCs, NEW s \in Specs
    PROVE  [c EXCEPT !.spec = s] \in PCs
  BY DEF PCs

\* A new status makes a cluster of a cluster.
LEMMA StatusUpdate ==
    ASSUME NEW c \in PCs, NEW st \in Statuses
    PROVE  [c EXCEPT !.status = st] \in PCs
  BY DEF PCs

\* So does the finalizer or the deletion mark.
LEMMA MetaUpdate ==
    ASSUME NEW c \in PCs
    PROVE  [c EXCEPT !.fin = TRUE] \in PCs /\ [c EXCEPT !.del = TRUE] \in PCs
  BY DEF PCs

\* What the controller writes into a child is a child.
LEMMA WantedChild ==
    ASSUME NEW k \in Kinds, NEW u \in Nat \ {0}, NEW s \in Specs
    PROVE  [owner |-> u, want |-> desired(k, s), ready |-> 0] \in Children(k)
  BY DEF Children

\* A stored StatefulSet asks for a replica count.
LEMMA StatefulSetReplicas ==
    ASSUME NEW c \in Children("sts"), c # NoChild
    PROVE  c.want.replicas \in Nat \ {0} /\ c.ready \in Nat
  <1>1. PICK s \in Specs : c.want = desired("sts", s)
    BY DEF Children
  <1>2. desired("sts", s) = [replicas |-> s.replicas, template |-> podTemplate(s)]
    BY Zenon DEF desired, buildStatefulSet
  <1>a. c.want.replicas = s.replicas
    BY <1>1, <1>2
  <1>3. c.ready \in Nat
    BY DEF Children, NoChild
  <1> QED BY <1>a, <1>3, SpecsAssumption

\* Storing a child of its kind keeps the children well-typed.
LEMMA StoreChildType ==
    ASSUME TypeOK, NEW k \in Kinds, NEW new \in Children(k), StoreChild(k, new)
    PROVE  /\ child' = [j \in Kinds |-> child'[j]]
           /\ \A j \in Kinds : child'[j] \in Children(j)
           /\ behind' \in SUBSET Kinds
  BY DEF TypeOK, StoreChild

----------------------------------------------------------------------------
(* Types and current copies: one depends on the other, since a status is    *)
(* written into the stored object only when the writer's copy is current.   *)

\* An accepted stamp advances its own field of the stored status.
LEMMA StampStores ==
    ASSUME TypeOK, CurrentCopies, NEW w \in Stampers, Stamp(w), w \notin stale
    PROVE  /\ held[w] = pc /\ pc \in PCs /\ pc' \in PCs
           /\ pc' = [pc EXCEPT !.status = [pc.status EXCEPT !.stamps =
                        [pc.status.stamps EXCEPT ![w] = @ + 1]]]
  <1>1. held[w] = pc /\ pc \in PCs
    BY DEF Stamp, TypeOK, CurrentCopies
  <1> DEFINE sn == [pc.status EXCEPT !.stamps = [pc.status.stamps EXCEPT ![w] = @ + 1]]
  <1>2. pc.status \in Statuses
    BY <1>1 DEF PCs
  <1>3. sn \in Statuses
    BY <1>2 DEF Statuses
  <1>4. pc' = [pc EXCEPT !.status = sn]
    BY <1>1 DEF Stamp
  <1> QED BY <1>1, <1>3, <1>4, StatusUpdate

\* An accepted report of the status changes the phase and the ready count of
\* the stored cluster, and ends the reconcile.
LEMMA ReportStores ==
    ASSUME TypeOK, CurrentCopies, wk.at = "status", "worker" \notin stale,
           StoreAndDrop(Reported)
    PROVE  /\ wk.pc = pc /\ pc \in PCs /\ pc' \in PCs /\ wk' = Idle
           /\ pc.status \in Statuses /\ pc # NoPC /\ pc' # NoPC
           /\ pc' = [pc EXCEPT !.status =
                       [pc.status EXCEPT !.phase = wk.phase, !.ready = wk.ready]]
           /\ pc'.uid = pc.uid /\ pc'.fin = pc.fin /\ pc'.del = pc.del
           /\ pc'.spec = pc.spec /\ pc'.status.stamps = pc.status.stamps
  <1>1. wk \in [at : Steps, pc : PCs, phase : Phases \cup {None}, ready : Nat]
    BY DEF TypeOK, Idle
  <1>2. wk.pc = pc /\ pc \in PCs
    BY <1>1 DEF CurrentCopies
  <1> DEFINE st == [pc.status EXCEPT !.phase = wk.phase, !.ready = wk.ready]
  <1>3. pc.status \in Statuses
    BY <1>2 DEF PCs
  <1>4. st \in Statuses /\ st.stamps = pc.status.stamps
    BY <1>1, <1>3 DEF Statuses
  <1>5. pc' = [pc EXCEPT !.status = st] /\ wk' = Idle
    BY <1>2 DEF StoreAndDrop, Reported
  <1>6. pc' \in PCs
    BY <1>2, <1>4, <1>5, StatusUpdate
  <1>7. /\ pc'.uid = pc.uid /\ pc'.fin = pc.fin /\ pc'.del = pc.del
        /\ pc'.spec = pc.spec /\ pc'.status = st
    BY <1>2, <1>5 DEF PCs
  <1> QED BY <1>2, <1>3, <1>4, <1>5, <1>6, <1>7, ClusterExists

\* Every action keeps every variable in its type.
LEMMA TypeStep == TypeOK /\ CurrentCopies /\ Next => TypeOK'
  <1> SUFFICES ASSUME TypeOK, CurrentCopies, Next PROVE TypeOK'
    OBVIOUS
  <1> USE BoundsAssumption, FlagAssumption
  <1>1. CASE \E s \in Specs : Create(s)
    BY <1>1 DEF Create, Store, TypeOK, PCs, Statuses, NoStatus, Copies, kids, NoPC, Stampers, Phases
  <1>2. CASE \E s \in Specs : Edit(s)
    BY <1>2, SpecUpdate DEF Edit, Store, Interfere, TypeOK, Copies, kids
  <1>3. CASE Delete
    BY <1>3, MetaUpdate DEF Delete, Store, TypeOK, Copies, kids
  <1>4. CASE \E k \in Kinds : Drift(k)
    <2> PICK k \in Kinds : Drift(k) BY <1>4
    <2>1. NoChild \in Children(k) BY DEF Children
    <2>2. \A s \in Specs : child[k] # NoChild =>
              [child[k] EXCEPT !.want = desired(k, s)] \in Children(k)
      BY DEF Children, TypeOK
    <2>3. \E new \in Children(k) : StoreChild(k, new)
      BY <2>1, <2>2 DEF Drift
    <2> QED BY <2>3, StoreChildType DEF Drift, Interfere, TypeOK, store
  <1>5. CASE \E k \in Kinds : Collect(k)
    <2> PICK k \in Kinds : Collect(k) BY <1>5
    <2>1. NoChild \in Children(k) BY DEF Children
    <2> QED BY <2>1, StoreChildType DEF Collect, TypeOK, store
  <1>6. CASE PodReady
    <2> DEFINE sts == child["sts"]
               n   == IF sts.ready < sts.want.replicas THEN sts.ready + 1 ELSE sts.ready - 1
               new == [sts EXCEPT !.ready = n]
    <2>1. "sts" \in Kinds /\ sts \in Children("sts") /\ sts # NoChild /\ StoreChild("sts", new)
          /\ sts.ready # sts.want.replicas
      BY <1>6 DEF PodReady, TypeOK, Kinds
    <2>2. n \in Nat
      BY <2>1, StatefulSetReplicas
    <2>3. new \in Children("sts")
      BY <2>1, <2>2 DEF Children
    <2> QED BY <1>6, <2>1, <2>3, StoreChildType DEF PodReady, TypeOK, store
  <1>7. CASE PodLost
    <2> DEFINE sts == child["sts"]
               new == [sts EXCEPT !.ready = @ - 1]
    <2>1. "sts" \in Kinds /\ sts \in Children("sts") /\ sts # NoChild /\ StoreChild("sts", new)
          /\ sts.ready > 0
      BY <1>7 DEF PodLost, TypeOK, Kinds, NoChild
    <2>2. new \in Children("sts")
      BY <2>1 DEF Children
    <2> QED BY <1>7, <2>1, <2>2, StoreChildType DEF PodLost, Interfere, TypeOK, store
  <1>8. CASE SyncCluster
    BY <1>8 DEF SyncCluster, TypeOK, kids
  <1>9. CASE \E k \in Kinds : SyncChild(k)
    BY <1>9 DEF SyncChild, TypeOK, store
  <1>10. CASE Reconcile
    <2>1. CASE cache = NoPC \/ (cache.del /\ ~cache.fin)
      BY <1>10, <2>1 DEF Reconcile, TypeOK, kids
    <2>2. CASE ~(cache = NoPC \/ (cache.del /\ ~cache.fin))
      <3>1. cache \in PCs BY <2>2 DEF TypeOK
      <3>2. wk' \in [at : Steps, pc : PCs, phase : Phases \cup {None}, ready : Nat]
        BY <1>10, <2>2, <3>1 DEF Reconcile, firstStep, Steps
      <3> QED BY <1>10, <2>2, <3>2 DEF Reconcile, TypeOK, kids, Copies
    <2> QED BY <2>1, <2>2
  <1>11. CASE AddFinalizer
    <2>1. wk.pc \in PCs BY <1>11 DEF AddFinalizer, TypeOK, Idle
    <2> QED BY <1>11, <2>1, MetaUpdate DEF AddFinalizer, StoreAndDrop, Fail, Done, TypeOK, kids, Copies
  <1>12. CASE finalize
    BY <1>12 DEF finalize, DeleteCluster, StoreAndDrop, Fail, Done, TypeOK, kids, Copies
  <1>13. CASE RegisterBackup
    <2>1. wk \in [at : Steps, pc : PCs, phase : Phases \cup {None}, ready : Nat]
      BY <1>13 DEF RegisterBackup, TypeOK, Idle
    <2> QED BY <1>13, <2>1 DEF RegisterBackup, Goto, Fail, Done, TypeOK, kids, Copies, Steps
  <1>14. ASSUME NEW k \in Kinds, NEW next \in Steps, CreateOrUpdate(k, next) PROVE TypeOK'
    <2> DEFINE new == [owner |-> wk.pc.uid, want |-> desired(k, wk.pc.spec), ready |-> 0]
    <2>1. wk \in [at : Steps, pc : PCs, phase : Phases \cup {None}, ready : Nat]
      BY <1>14 DEF CreateOrUpdate, TypeOK, Idle, Kinds
    <2>2. new \in Children(k)
      BY <2>1, WantedChild DEF PCs
    <2>3. CASE StoreChild(k, new) /\ Goto(next) /\ UNCHANGED <<stale, queued>>
      BY <1>14, <2>1, <2>2, <2>3, StoreChildType DEF CreateOrUpdate, Goto, TypeOK
    <2>4. CASE Goto(next) /\ UNCHANGED <<kids, stale, queued>>
      BY <1>14, <2>1, <2>4 DEF CreateOrUpdate, Goto, TypeOK, kids
    <2>5. CASE Fail /\ UNCHANGED kids
      BY <1>14, <2>5 DEF CreateOrUpdate, Fail, Done, TypeOK, kids, Copies
    <2> QED BY <1>14, <2>3, <2>4, <2>5 DEF CreateOrUpdate
  <1>15. CASE reconcileConfigMap
    BY <1>15, <1>14 DEF reconcileConfigMap, Kinds, Steps
  <1>16. CASE reconcileHeadlessService
    BY <1>16, <1>14 DEF reconcileHeadlessService, Kinds, Steps
  <1>17. CASE CreateStatefulSet
    <2> DEFINE new == [owner |-> wk.pc.uid, want |-> buildStatefulSet(wk.pc.spec), ready |-> 0]
    <2>1. /\ wk \in [at : Steps, pc : PCs, phase : Phases \cup {None}, ready : Nat]
          /\ "sts" \in Kinds
      BY <1>17 DEF CreateStatefulSet, TypeOK, Idle, Kinds
    <2>2. new \in Children("sts")
      <3>1. desired("sts", wk.pc.spec) = buildStatefulSet(wk.pc.spec)
        BY Zenon DEF desired
      <3> QED BY <2>1, <3>1, WantedChild DEF PCs
    <2>3. CASE StoreChild("sts", new)
               /\ wk' = [wk EXCEPT !.at = "status", !.phase = "Provisioning", !.ready = 0]
               /\ UNCHANGED <<stale, queued>>
      <3>1. wk' \in [at : Steps, pc : PCs, phase : Phases \cup {None}, ready : Nat]
        BY <2>1, <2>3 DEF Steps, Phases
      <3> QED BY <1>17, <2>1, <2>2, <2>3, <3>1, StoreChildType DEF CreateStatefulSet, TypeOK
    <2>4. CASE Fail /\ UNCHANGED kids
      BY <1>17, <2>4 DEF CreateStatefulSet, Fail, Done, TypeOK, kids, Copies
    <2> QED BY <1>17, <2>3, <2>4 DEF CreateStatefulSet
  <1>18. CASE UpdateStatefulSet
    <2> DEFINE current == childCache["sts"]
               new == [current EXCEPT !.want = buildStatefulSet(wk.pc.spec)]
    <2>1. /\ wk \in [at : Steps, pc : PCs, phase : Phases \cup {None}, ready : Nat]
          /\ "sts" \in Kinds /\ current \in Children("sts") /\ current # NoChild
      BY <1>18 DEF UpdateStatefulSet, TypeOK, Idle, Kinds
    <2>2. new \in Children("sts")
      <3>1. desired("sts", wk.pc.spec) = buildStatefulSet(wk.pc.spec)
        BY Zenon DEF desired
      <3>2. wk.pc.spec \in Specs BY <2>1 DEF PCs
      <3> QED BY <2>1, <3>1, <3>2 DEF Children
    <2>3. CASE /\ StoreChild("sts", new) \/ UNCHANGED kids
               /\ wk' = [wk EXCEPT !.at = "status", !.ready = current.ready,
                                   !.phase = phaseOf(current, wk.pc.spec)]
               /\ UNCHANGED <<stale, queued>>
      <3>1. phaseOf(current, wk.pc.spec) \in Phases
        BY DEF phaseOf, Phases
      <3>2. current.ready \in Nat
        BY <2>1, StatefulSetReplicas
      <3>3. wk' \in [at : Steps, pc : PCs, phase : Phases \cup {None}, ready : Nat]
        BY <2>1, <2>3, <3>1, <3>2 DEF Steps
      <3>4. /\ child' = [j \in Kinds |-> child'[j]]
            /\ \A j \in Kinds : child'[j] \in Children(j)
            /\ behind' \in SUBSET Kinds
        BY <2>1, <2>2, <2>3, StoreChildType DEF kids, TypeOK
      <3> QED BY <1>18, <2>3, <3>3, <3>4 DEF UpdateStatefulSet, TypeOK
    <2>4. CASE Fail /\ UNCHANGED kids
      BY <1>18, <2>4 DEF UpdateStatefulSet, Fail, Done, TypeOK, kids, Copies
    <2> QED BY <1>18, <2>3, <2>4 DEF UpdateStatefulSet
  <1>19. CASE updatePhase
    <2>1. CASE "worker" \in stale
      BY <1>19, <2>1 DEF updatePhase, SetPhase, Fail, Done, TypeOK, kids, Copies
    <2>2. CASE "worker" \notin stale
      <3>1. pc' \in PCs
        BY <1>19, <2>2, ReportStores DEF updatePhase, SetPhase
      <3>2. wk.phase \in Phases \cup {None}
        BY <1>19 DEF updatePhase, SetPhase, TypeOK, Idle
      <3> QED BY <1>19, <2>2, <3>1, <3>2 DEF updatePhase, SetPhase, StoreAndDrop, TypeOK, kids, Copies
    <2> QED BY <2>1, <2>2
  <1>20. CASE \E w \in Stampers : Take(w)
    BY <1>20 DEF Take, Interfere, TypeOK, kids, Copies
  <1>21. CASE \E w \in Stampers : Stamp(w)
    <2> PICK w \in Stampers : Stamp(w) BY <1>21
    <2>1. CASE w \in stale
      BY <2>1 DEF Stamp, TypeOK, kids
    <2>2. CASE w \notin stale
      <3>1. pc' \in PCs /\ stale' \in SUBSET Copies
            /\ held' \in [Stampers -> PCs \cup {NoPC}]
        BY <2>2, StampStores DEF Stamp, TypeOK
      <3> QED BY <2>2, <3>1 DEF Stamp, Interfere, TypeOK, kids
    <2> QED BY <2>1, <2>2
  <1>22. CASE \E w \in Stampers : Release(w)
    BY <1>22 DEF Release, TypeOK, kids, Copies
  <1>23. CASE ApiError
    BY <1>23 DEF ApiError, Interfere, Fail, Done, TypeOK, kids, Copies
  <1>24. CASE Restart
    BY <1>24 DEF Restart, Interfere, TypeOK, Copies
  <1>25. CASE finalizeReplyLost
    BY <1>25 DEF finalizeReplyLost, Interfere, StoreAndDrop, TypeOK, kids, Copies
  <1>26. CASE statusReplyLost
    <2>1. pc' \in PCs
      BY <1>26, ReportStores DEF statusReplyLost
    <2> QED BY <1>26, <2>1 DEF statusReplyLost, Interfere, StoreAndDrop, TypeOK, kids, Copies
  <1>27. CASE \E k \in Kinds : childReplyLost(k)
    <2> PICK k \in Kinds : childReplyLost(k) BY <1>27
    <2>1. wk.pc \in PCs
      BY DEF childReplyLost, TypeOK, Idle, Kinds
    <2>2. wk.pc.uid \in Nat \ {0} /\ wk.pc.spec \in Specs
      BY <2>1 DEF PCs
    <2>3. [owner |-> wk.pc.uid, want |-> desired(k, wk.pc.spec), ready |-> 0] \in Children(k)
      BY <2>2, WantedChild
    <2>4. childCache[k] # NoChild =>
             [childCache[k] EXCEPT !.want = desired(k, wk.pc.spec)] \in Children(k)
      BY <2>2 DEF Children, TypeOK
    <2>5. \E new \in Children(k) : StoreChild(k, new)
      BY <2>3, <2>4 DEF childReplyLost
    <2> QED BY <2>5, StoreChildType DEF childReplyLost, Fail, Done, Interfere, TypeOK, Copies
  <1> QED
    BY <1>1, <1>2, <1>3, <1>4, <1>5, <1>6, <1>7, <1>8, <1>9, <1>10, <1>11, <1>12,
       <1>13, <1>15, <1>16, <1>17, <1>18, <1>19, <1>20, <1>21, <1>22, <1>23, <1>24,
       <1>25, <1>26, <1>27
    DEF Next, User, Kubernetes, Worker, Others, Faults

\* The worker's copy changes only when it takes one; the stamps' likewise.
LEMMA CopiesStep == TypeOK /\ CurrentCopies /\ Next => CurrentCopies'
  <1> SUFFICES ASSUME TypeOK, CurrentCopies, Next PROVE CurrentCopies'
    OBVIOUS
  <1> USE DEF CurrentCopies
  <1>1. CASE \E s \in Specs : Create(s)
    BY <1>1 DEF Create, Store, Copies, Stampers
  <1>2. CASE \E s \in Specs : Edit(s)
    BY <1>2 DEF Edit, Store, Copies, Stampers
  <1>3. CASE Delete
    BY <1>3 DEF Delete, Store, Copies, Stampers
  <1>4. CASE \E k \in Kinds : Drift(k)
    BY <1>4 DEF Drift, store
  <1>5. CASE \E k \in Kinds : Collect(k)
    BY <1>5 DEF Collect, store
  <1>6. CASE PodReady
    BY <1>6 DEF PodReady, store
  <1>7. CASE PodLost
    BY <1>7 DEF PodLost, store
  <1>8. CASE SyncCluster
    BY <1>8 DEF SyncCluster, Stampers
  <1>9. CASE \E k \in Kinds : SyncChild(k)
    BY <1>9 DEF SyncChild, store
  <1>10. CASE Reconcile
    BY <1>10 DEF Reconcile, Stampers, Idle, firstStep
  <1>11. CASE AddFinalizer
    BY <1>11 DEF AddFinalizer, StoreAndDrop, Fail, Done, Copies, Stampers
  <1>12. CASE finalize
    BY <1>12 DEF finalize, DeleteCluster, StoreAndDrop, Fail, Done, Copies, Stampers
  <1>13. CASE RegisterBackup
    BY <1>13 DEF RegisterBackup, Goto, Fail, Done, Stampers, TypeOK, Idle
  <1>14. ASSUME NEW k \in Kinds, NEW next \in Steps, CreateOrUpdate(k, next)
         PROVE  CurrentCopies'
    BY <1>14 DEF CreateOrUpdate, Goto, Fail, Done, Stampers, Idle, Steps, Kinds, TypeOK
  <1>15. CASE reconcileConfigMap
    BY <1>15, <1>14 DEF reconcileConfigMap, Kinds, Steps
  <1>16. CASE reconcileHeadlessService
    BY <1>16, <1>14 DEF reconcileHeadlessService, Kinds, Steps
  <1>17. CASE CreateStatefulSet
    <2>1. wk \in [at : Steps, pc : PCs, phase : Phases \cup {None}, ready : Nat]
      BY <1>17 DEF CreateStatefulSet, TypeOK, Idle
    <2>2. (wk'.pc = wk.pc /\ wk'.at = "status" /\ UNCHANGED stale) \/ Fail
      BY <1>17, <2>1 DEF CreateStatefulSet
    <2>3. UNCHANGED <<pc, cache, held>>
      BY <1>17 DEF CreateStatefulSet
    <2> QED BY <2>2, <2>3 DEF Fail, Done, Stampers, Idle
  <1>18. CASE UpdateStatefulSet
    <2>1. wk \in [at : Steps, pc : PCs, phase : Phases \cup {None}, ready : Nat]
      BY <1>18 DEF UpdateStatefulSet, TypeOK, Idle
    <2>2. (wk'.pc = wk.pc /\ wk'.at = "status" /\ UNCHANGED stale) \/ Fail
      BY <1>18, <2>1 DEF UpdateStatefulSet
    <2>3. UNCHANGED <<pc, cache, held>>
      BY <1>18 DEF UpdateStatefulSet
    <2> QED BY <2>2, <2>3 DEF Fail, Done, Stampers, Idle
  <1>19. CASE updatePhase
    BY <1>19 DEF updatePhase, SetPhase, StoreAndDrop, Fail, Done, Copies, Stampers
  <1>20. CASE \E w \in Stampers : Take(w)
    BY <1>20 DEF Take, Stampers, TypeOK
  <1>21. CASE \E w \in Stampers : Stamp(w)
    <2> PICK w \in Stampers : Stamp(w) BY <1>21
    <2>1. CASE w \in stale
      BY <2>1 DEF Stamp, Stampers, TypeOK
    <2>2. CASE w \notin stale
      <3>1. /\ stale' = Copies \ (IF w = "failover" THEN {w} ELSE {})
            /\ held' = [held EXCEPT ![w] = IF w = "failover" THEN pc' ELSE NoPC]
            /\ UNCHANGED <<cache, wk>>
        BY <2>2 DEF Stamp
      <3>2. pc' # NoPC
        BY StampStores, ClusterExists, <2>2
      <3> QED BY <3>1, <3>2 DEF Copies, Stampers, TypeOK
    <2> QED BY <2>1, <2>2
  <1>22. CASE \E w \in Stampers : Release(w)
    BY <1>22 DEF Release, Stampers, TypeOK
  <1>23. CASE ApiError
    BY <1>23 DEF ApiError, Fail, Done, Stampers
  <1>24. CASE Restart
    BY <1>24 DEF Restart, Copies, Stampers
  <1>25. CASE finalizeReplyLost
    BY <1>25 DEF finalizeReplyLost, StoreAndDrop, Copies, Stampers
  <1>26. CASE statusReplyLost
    BY <1>26 DEF statusReplyLost, StoreAndDrop, Copies, Stampers
  <1>27. CASE \E k \in Kinds : childReplyLost(k)
    BY <1>27 DEF childReplyLost, Fail, Done, Stampers
  <1> QED
    BY <1>1, <1>2, <1>3, <1>4, <1>5, <1>6, <1>7, <1>8, <1>9, <1>10, <1>11, <1>12,
       <1>13, <1>15, <1>16, <1>17, <1>18, <1>19, <1>20, <1>21, <1>22, <1>23, <1>24,
       <1>25, <1>26, <1>27
    DEF Next, User, Kubernetes, Worker, Others, Faults

\* A write to a child puts its kind behind, unless it changes nothing.
LEMMA StoreChildCopies ==
    ASSUME TypeOK, CurrentChildren, NEW k \in Kinds, NEW new, StoreChild(k, new),
           UNCHANGED childCache
    PROVE  CurrentChildren'
  BY DEF TypeOK, CurrentChildren, StoreChild

\* A cached child that is not behind stays the stored child.
LEMMA ChildCopiesStep == TypeOK /\ CurrentChildren /\ Next => CurrentChildren'
  <1> SUFFICES ASSUME TypeOK, CurrentChildren, Next PROVE CurrentChildren'
    OBVIOUS
  <1>0. "sts" \in Kinds /\ "cm" \in Kinds /\ "svc" \in Kinds
    BY DEF Kinds
  <1>1. CASE UNCHANGED <<child, childCache, behind>>
    BY <1>1 DEF CurrentChildren
  <1>2. CASE \E k \in Kinds : Drift(k) \/ Collect(k)
    BY <1>2, StoreChildCopies DEF Drift, Collect
  <1>3. CASE PodReady \/ PodLost
    BY <1>0, <1>3, StoreChildCopies DEF PodReady, PodLost
  <1>4. CASE \E k \in Kinds : SyncChild(k)
    BY <1>4 DEF SyncChild, TypeOK, CurrentChildren
  <1>5. ASSUME NEW k \in Kinds, NEW next, CreateOrUpdate(k, next) PROVE CurrentChildren'
    BY <1>1, <1>5, StoreChildCopies DEF CreateOrUpdate, kids
  <1>6. CASE reconcileConfigMap \/ reconcileHeadlessService
    BY <1>0, <1>5, <1>6 DEF reconcileConfigMap, reconcileHeadlessService
  <1>7. CASE CreateStatefulSet
    BY <1>0, <1>1, <1>7, StoreChildCopies DEF CreateStatefulSet, kids
  <1>8. CASE UpdateStatefulSet
    BY <1>0, <1>1, <1>8, StoreChildCopies DEF UpdateStatefulSet, kids
  <1>9. CASE Restart
    BY <1>9 DEF Restart, CurrentChildren
  <1>10. CASE \E s \in Specs : Create(s) \/ Edit(s)
    BY <1>1, <1>10 DEF Create, Edit, kids
  <1>11. CASE Delete \/ SyncCluster \/ Reconcile \/ AddFinalizer \/ finalize
    BY <1>1, <1>11 DEF Delete, SyncCluster, Reconcile, AddFinalizer, finalize, DeleteCluster, kids
  <1>12. CASE RegisterBackup \/ updatePhase \/ ApiError
    BY <1>1, <1>12 DEF RegisterBackup, updatePhase, SetPhase, ApiError, kids
  <1>13. CASE \E w \in Stampers : Take(w) \/ Stamp(w) \/ Release(w)
    BY <1>1, <1>13 DEF Take, Stamp, Release, kids
  <1>14. CASE finalizeReplyLost \/ statusReplyLost
    BY <1>1, <1>14 DEF finalizeReplyLost, statusReplyLost, kids
  <1>15. CASE \E k \in Kinds : childReplyLost(k)
    BY <1>15, StoreChildCopies DEF childReplyLost
  <1> QED BY <1>2, <1>3, <1>4, <1>6, <1>7, <1>8, <1>9, <1>10, <1>11, <1>12, <1>13, <1>14,
             <1>15
          DEF Next, User, Kubernetes, Worker, Others, Faults

----------------------------------------------------------------------------
(* Adoption.  Only the actions that write the stored object, move the cache *)
(* or take a copy matter; the others either leave all of that alone         *)
(* (Passive), or take the worker a step further or back to idle (Advance).  *)

Passive == UNCHANGED <<pc, cache, wk, gauge, uid>>

Advance == /\ UNCHANGED <<pc, cache, gauge, uid>>
           /\ \/ wk' = Idle
              \/ wk.at \in Managing /\ wk'.at \in Managing /\ wk'.pc = wk.pc

\* What the calls of a reconcile may touch: only the three writes to the
\* cluster change it, and the other calls keep the copy being worked on.
LEMMA Effects ==
    ASSUME TypeOK, Next
    PROVE  \/ Passive \/ Advance
           \/ (\E s \in Specs : Create(s) \/ Edit(s)) \/ Delete
           \/ SyncCluster \/ Reconcile \/ AddFinalizer \/ finalize
           \/ updatePhase \/ Restart \/ finalizeReplyLost \/ statusReplyLost
           \/ \E w \in Stampers : Stamp(w) /\ w \notin stale
  <1>1. CASE \E k \in Kinds : Drift(k) \/ Collect(k) \/ SyncChild(k)
    BY <1>1 DEF Drift, Collect, SyncChild, Passive, store
  <1>2. CASE PodReady \/ PodLost
    BY <1>2 DEF PodReady, PodLost, Passive, store
  <1>3. CASE \E w \in Stampers : Take(w) \/ Release(w) \/ (Stamp(w) /\ w \in stale)
    BY <1>3 DEF Take, Release, Stamp, Passive
  <1>4. CASE ApiError \/ \E k \in Kinds : childReplyLost(k)
    BY <1>4 DEF ApiError, childReplyLost, Fail, Done, Advance
  <1>5. CASE wk.at \in Managing
    <2>1. wk \in [at : Steps, pc : PCs, phase : Phases \cup {None}, ready : Nat]
      BY <1>5 DEF TypeOK, Idle, Managing
    <2>2. CASE RegisterBackup
      BY <1>5, <2>1, <2>2 DEF RegisterBackup, Goto, Fail, Done, Advance, Managing
    <2>3. CASE reconcileConfigMap
      BY <1>5, <2>1, <2>3 DEF reconcileConfigMap, CreateOrUpdate, Goto, Fail, Done,
                              Advance, Managing
    <2>4. CASE reconcileHeadlessService
      BY <1>5, <2>1, <2>4 DEF reconcileHeadlessService, CreateOrUpdate, Goto, Fail, Done,
                              Advance, Managing
    <2>5. CASE CreateStatefulSet
      BY <1>5, <2>1, <2>5 DEF CreateStatefulSet, Fail, Done, Advance, Managing
    <2>6. CASE UpdateStatefulSet
      BY <1>5, <2>1, <2>6 DEF UpdateStatefulSet, Fail, Done, Advance, Managing
    <2> QED BY <1>1, <1>2, <1>3, <1>4, <2>2, <2>3, <2>4, <2>5, <2>6
            DEF Next, User, Kubernetes, Worker, Others, Faults
  <1>6. CASE wk.at \notin Managing
    BY <1>1, <1>2, <1>3, <1>4, <1>6
    DEF Next, User, Kubernetes, Worker, Others, Faults, Managing, RegisterBackup,
        reconcileConfigMap, reconcileHeadlessService, CreateOrUpdate,
        CreateStatefulSet, UpdateStatefulSet
  <1> QED BY <1>5, <1>6

\* The uids of all copies are naturals, and an idle worker is Idle.
LEMMA UidTypes ==
    ASSUME TypeOK
    PROVE  /\ pc.uid \in Nat /\ cache.uid \in Nat /\ wk.pc.uid \in Nat /\ uid \in Nat
           /\ pc = NoPC <=> pc.uid = 0
           /\ cache = NoPC <=> cache.uid = 0
           /\ wk.at # "idle" => wk.pc \in PCs
           /\ wk.at = "idle" <=> wk = Idle
  BY BoundsAssumption DEF TypeOK, PCs, NoPC, Idle, Steps

\* Every action keeps the known uids, the adoption of the cluster being
\* reconciled, and the series within the life of the cluster.
LEMMA AdoptionStep ==
    IInv /\ Next => KnownUids' /\ Adoption' /\ SeriesFollowsCluster'
  <1> SUFFICES ASSUME IInv, Next
               PROVE  KnownUids' /\ Adoption' /\ SeriesFollowsCluster'
    OBVIOUS
  <1> DEFINE Goal == KnownUids' /\ Adoption' /\ SeriesFollowsCluster'
  <1> USE DEF IInv
  <1>a. TypeOK' BY TypeStep
  <1>1. CASE Passive
    BY <1>1 DEF Passive, KnownUids, Adoption, SeriesFollowsCluster, Live
  <1>2. CASE Advance
    <2>1. wk'.pc.uid <= uid'
      BY <1>2, UidTypes DEF Advance, KnownUids, Idle, NoPC
    <2>2. wk'.at # "finalize"
      BY <1>2 DEF Advance, Managing, Idle
    <2>3. wk'.at \in Managing => wk.at \in Managing /\ wk'.pc = wk.pc
      BY <1>2 DEF Advance, Managing, Idle
    <2> QED BY <1>2, <2>1, <2>2, <2>3 DEF Advance, KnownUids, Adoption,
                                         SeriesFollowsCluster, Live
  <1>r. ASSUME wk.at = "status", "worker" \notin stale, StoreAndDrop(Reported),
               UNCHANGED <<cache, uid>>
        PROVE  Goal
    <2>1. /\ pc' \in PCs /\ pc'.uid = pc.uid /\ pc'.fin = pc.fin /\ pc'.del = pc.del
          /\ wk.pc = pc /\ pc # NoPC /\ pc' # NoPC
      BY <1>r, ReportStores
    <2>2. wk'.at = "idle" /\ wk'.pc.uid = 0
      BY <1>r, ReportStores DEF Idle, NoPC
    <2> QED BY <1>r, <2>1, <2>2, UidTypes
            DEF KnownUids, Adoption, SeriesFollowsCluster, Live, Managing
  <1>3. CASE \E s \in Specs : Create(s)
    <2>1. PICK s \in Specs : Create(s) BY <1>3
    <2>2. /\ pc = NoPC /\ pc' \in PCs /\ pc'.uid = uid + 1 /\ ~pc'.del /\ uid' = uid + 1
          /\ UNCHANGED <<cache, wk, gauge>>
      BY <2>1, <1>a, ClusterExists DEF Create, Store, TypeOK, NoPC
    <2>3. pc'.uid # cache.uid /\ pc'.uid # wk.pc.uid
      BY <2>2, UidTypes DEF KnownUids
    <2>4. KnownUids'
      BY <2>2, UidTypes DEF KnownUids
    <2>5. gauge' \in {None, Orphan}
      BY <2>2 DEF SeriesFollowsCluster
    <2>6. Adoption'
      BY <2>2, <2>3 DEF Adoption, Live
    <2> QED BY <2>4, <2>5, <2>6 DEF SeriesFollowsCluster
  <1>4. CASE \E s \in Specs : Edit(s)
    <2>1. /\ pc \in PCs /\ pc' \in PCs /\ pc'.uid = pc.uid /\ pc'.fin = pc.fin
          /\ pc'.del = pc.del /\ pc # NoPC /\ pc' # NoPC /\ UNCHANGED <<cache, wk, gauge, uid>>
      BY <1>4, SpecUpdate, ClusterExists DEF Edit, Store, TypeOK, PCs
    <2> QED BY <2>1 DEF KnownUids, Adoption, SeriesFollowsCluster, Live
  <1>5. CASE Delete
    <2>0. pc \in PCs /\ UNCHANGED <<cache, wk, gauge, uid>>
      BY <1>5 DEF Delete, TypeOK
    <2>1. CASE pc.fin
      <3>1. /\ pc' \in PCs /\ pc'.uid = pc.uid /\ pc'.fin /\ pc'.del
            /\ pc # NoPC /\ pc' # NoPC
        BY <1>5, <2>0, <2>1, MetaUpdate, ClusterExists DEF Delete, Store, PCs
      <3> QED BY <2>0, <3>1 DEF KnownUids, Adoption, SeriesFollowsCluster, Live
    <2>2. CASE ~pc.fin
      <3>1. pc' = NoPC
        BY <1>5, <2>2 DEF Delete, Store
      <3>2. pc'.uid <= uid'
        BY <2>0, <3>1, UidTypes DEF NoPC
      <3> QED BY <2>0, <2>2, <3>1, <3>2 DEF KnownUids, Adoption, SeriesFollowsCluster, Live
    <2> QED BY <2>1, <2>2
  <1>6. CASE SyncCluster
    BY <1>6 DEF SyncCluster, KnownUids, Adoption, SeriesFollowsCluster, Live
  <1>7. CASE Reconcile
    <2>1. CASE cache = NoPC \/ (cache.del /\ ~cache.fin)
      BY <1>7, <2>1 DEF Reconcile, KnownUids, Adoption, SeriesFollowsCluster, Live
    <2>2. CASE ~(cache = NoPC \/ (cache.del /\ ~cache.fin))
      <3>1. /\ wk'.at = firstStep(cache) /\ wk'.pc = cache
            /\ UNCHANGED <<pc, cache, uid, gauge>>
        BY <1>7, <2>2 DEF Reconcile
      <3>2. wk'.at = "finalize" => cache.del
        BY <3>1 DEF firstStep
      <3>3. wk'.at \in Managing => Live(cache)
        BY <2>2, <3>1 DEF firstStep, Managing, Live
      <3> QED BY <2>2, <3>1, <3>2, <3>3 DEF KnownUids, Adoption, SeriesFollowsCluster, Live
    <2> QED BY <2>1, <2>2
  <1>8. CASE AddFinalizer
    <2>1. CASE Refused
      <3>1. Advance
        BY <1>8, <2>1 DEF AddFinalizer, Fail, Done, Advance
      <3> QED BY <1>2, <3>1
    <2>2. CASE ~Refused
      <3>1. /\ wk.pc = pc /\ pc \in PCs /\ wk' = Idle
            /\ pc' = [pc EXCEPT !.fin = TRUE] /\ UNCHANGED <<cache, uid, gauge>>
        BY <1>8, <2>2, UidTypes DEF AddFinalizer, Refused, StoreAndDrop, CurrentCopies
      <3>2. /\ pc' \in PCs /\ pc'.uid = pc.uid /\ pc'.fin /\ pc'.del = pc.del
            /\ pc # NoPC /\ pc' # NoPC
        BY <3>1, MetaUpdate, ClusterExists DEF PCs
      <3>3. wk'.at = "idle" /\ wk'.pc.uid = 0
        BY <3>1 DEF Idle, NoPC
      <3> QED BY <3>1, <3>2, <3>3, UidTypes
              DEF KnownUids, Adoption, SeriesFollowsCluster, Live, Managing
    <2> QED BY <2>1, <2>2
  <1>9. CASE finalize
    <2>1. CASE Refused
      <3>1. Advance
        BY <1>9, <2>1 DEF finalize, DeleteCluster, Fail, Done, Advance
      <3> QED BY <1>2, <3>1
    <2>2. CASE ~Refused
      <3>1. /\ wk.pc = pc /\ wk' = Idle /\ pc' = NoPC /\ gauge' = None
            /\ wk.at = "finalize" /\ UNCHANGED <<cache, uid>>
        BY <1>9, <2>2 DEF finalize, DeleteCluster, Refused, StoreAndDrop, CurrentCopies
      <3>2. wk'.at = "idle" /\ wk'.pc.uid = 0 /\ pc'.uid = 0
        BY <3>1 DEF Idle, NoPC
      <3>3. ~Live(cache)
        BY <3>1 DEF Adoption
      <3> QED BY <3>1, <3>2, <3>3, UidTypes
              DEF KnownUids, Adoption, SeriesFollowsCluster, Live, Managing
    <2> QED BY <2>1, <2>2
  <1>10. CASE updatePhase
    <2>1. CASE "worker" \in stale
      <3>1. Advance
        BY <1>10, <2>1 DEF updatePhase, SetPhase, Fail, Done, Advance
      <3> QED BY <1>2, <3>1
    <2>2. CASE "worker" \notin stale
      <3>1. wk.at = "status" /\ StoreAndDrop(Reported) /\ UNCHANGED <<cache, uid>>
        BY <1>10, <2>2 DEF updatePhase, SetPhase
      <3> QED BY <2>2, <3>1, <1>r
    <2> QED BY <2>1, <2>2
  <1>11. CASE \E w \in Stampers : Stamp(w) /\ w \notin stale
    <2> PICK w \in Stampers : Stamp(w) /\ w \notin stale BY <1>11
    <2>1. /\ pc \in PCs /\ pc' \in PCs /\ pc'.uid = pc.uid /\ pc'.fin = pc.fin
          /\ pc'.del = pc.del /\ pc # NoPC /\ pc' # NoPC
      BY StampStores, ClusterExists DEF PCs
    <2>2. UNCHANGED <<cache, wk, gauge, uid>>
      BY DEF Stamp
    <2> QED BY <2>1, <2>2 DEF KnownUids, Adoption, SeriesFollowsCluster, Live
  <1>12. CASE Restart
    <2>1. wk'.at = "idle" /\ wk'.pc.uid = 0
      BY <1>12 DEF Restart, Idle, NoPC
    <2> QED BY <1>12, <2>1, UidTypes
            DEF Restart, KnownUids, Adoption, SeriesFollowsCluster, Live, Managing
  <1>13. CASE finalizeReplyLost
    <2>1. /\ wk.pc = pc /\ wk' = Idle /\ pc' = NoPC /\ gauge' \in {None, Orphan}
          /\ wk.at = "finalize" /\ UNCHANGED <<cache, uid>>
      BY <1>13 DEF finalizeReplyLost, Refused, StoreAndDrop, CurrentCopies
    <2>2. wk'.at = "idle" /\ wk'.pc.uid = 0 /\ pc'.uid = 0
      BY <2>1 DEF Idle, NoPC
    <2>3. ~Live(cache)
      BY <2>1 DEF Adoption
    <2> QED BY <2>1, <2>2, <2>3, UidTypes
            DEF KnownUids, Adoption, SeriesFollowsCluster, Live, Managing
  <1>14. CASE statusReplyLost
    BY <1>14, <1>r DEF statusReplyLost
  <1> QED BY <1>1, <1>2, <1>3, <1>4, <1>5, <1>6, <1>7, <1>8, <1>9, <1>10, <1>11, <1>12,
             <1>13, <1>14, Effects

----------------------------------------------------------------------------
(* The theorems.                                                            *)

\* The inductive invariant holds in every reachable state.
LEMMA Inductive == Spec => []IInv
  <1>1. Init => IInv
    <2> SUFFICES ASSUME Init PROVE IInv
      OBVIOUS
    <2>1. TypeOK
      <3>1. \A k \in Kinds : NoChild \in Children(k)
        BY DEF Children
      <3>2. /\ child = [k \in Kinds |-> child[k]] /\ childCache = [k \in Kinds |-> childCache[k]]
            /\ \A k \in Kinds : child[k] = NoChild /\ childCache[k] = NoChild
        BY DEF Init
      <3>3. uid \in 0..MaxUid /\ budget \in 0..MaxBudget
        BY BoundsAssumption DEF Init
      <3> QED BY <3>1, <3>2, <3>3, FlagAssumption DEF Init, TypeOK, Copies
    <2>2. CurrentCopies
      BY DEF Init, CurrentCopies, Copies, Stampers
    <2>5. CurrentChildren
      BY DEF Init, CurrentChildren
    <2>3. KnownUids /\ Adoption
      BY DEF Init, KnownUids, Adoption, Live, Managing, Idle, NoPC
    <2>4. SeriesFollowsCluster
      BY DEF Init, SeriesFollowsCluster
    <2> QED BY <2>1, <2>2, <2>3, <2>4, <2>5 DEF IInv
  <1>2. IInv /\ [Next]_vars => IInv'
    <2>1. CASE Next
      BY <2>1, TypeStep, CopiesStep, ChildCopiesStep, AdoptionStep DEF IInv
    <2>2. CASE UNCHANGED vars
      BY <2>2 DEF vars, IInv, TypeOK, CurrentCopies, CurrentChildren, KnownUids, Adoption,
                  SeriesFollowsCluster, Live
    <2> QED BY <2>1, <2>2
  <1> QED BY <1>1, <1>2, PTL DEF Spec

\* Every variable keeps its type in every behaviour of the controller.
THEOREM TypeCorrect == Spec => []TypeOK
  <1>1. IInv => TypeOK BY DEF IInv
  <1> QED BY <1>1, Inductive, PTL

\* The phase series of a cluster never outlives it and is never brought back
\* by a reconcile on an old copy: updatePhase after finalize cannot succeed.
THEOREM SeriesSafe == Spec => []SeriesFollowsCluster
  <1>1. IInv => SeriesFollowsCluster BY DEF IInv
  <1> QED BY <1>1, Inductive, PTL

\* Every step that creates a child does so for an adopted cluster.
LEMMA CreatesStep == IInv /\ Next => CreatesForLiveCluster
  <1> SUFFICES ASSUME IInv, Next, NEW k \in Kinds, child[k] = NoChild, child'[k] # NoChild
               PROVE  pc # NoPC /\ pc.fin /\ child'[k].owner = pc.uid
    BY DEF CreatesForLiveCluster
  <1>0. child = [j \in Kinds |-> child[j]]
    BY DEF IInv, TypeOK
  <1>1. ASSUME NEW j \in Kinds, NEW next, CreateOrUpdate(j, next)
        PROVE  wk.at \in Managing /\ child'[k].owner = wk.pc.uid
    BY <1>0, <1>1 DEF CreateOrUpdate, StoreChild, Kinds, Managing, kids, Fail
  <1>2. CASE reconcileConfigMap \/ reconcileHeadlessService
    BY <1>1, <1>2 DEF reconcileConfigMap, reconcileHeadlessService, Kinds, IInv, Adoption
  <1>3. CASE CreateStatefulSet
    <2>1. wk.at \in Managing /\ child'[k].owner = wk.pc.uid
      BY <1>0, <1>3 DEF CreateStatefulSet, StoreChild, Kinds, Managing, kids, Fail
    <2> QED BY <2>1 DEF IInv, Adoption
  <1>4. CASE UpdateStatefulSet
    <2>1. "sts" \in Kinds /\ childCache["sts"] # NoChild
      BY <1>4 DEF UpdateStatefulSet, Kinds
    <2>2. k = "sts" /\ Accepted("sts") /\ wk.at \in Managing
      BY <1>0, <1>4, <2>1 DEF UpdateStatefulSet, StoreChild, kids, Managing
    <2> QED BY <2>1, <2>2 DEF Accepted, IInv, CurrentChildren
  <1>5. CASE \E j \in Kinds : Drift(j) \/ Collect(j)
    BY <1>0, <1>5 DEF Drift, Collect, StoreChild, NoChild
  <1>6. CASE PodReady \/ PodLost
    BY <1>0, <1>6 DEF PodReady, PodLost, StoreChild, NoChild
  <1>7. child' # child
    OBVIOUS
  <1>8. CASE \E s \in Specs : Create(s) \/ Edit(s)
    BY <1>7, <1>8 DEF Create, Edit, kids
  <1>9. CASE Delete \/ SyncCluster \/ Reconcile \/ AddFinalizer \/ finalize
    BY <1>7, <1>9 DEF Delete, SyncCluster, Reconcile, AddFinalizer, finalize, DeleteCluster, kids
  <1>10. CASE RegisterBackup \/ updatePhase \/ ApiError \/ Restart
    BY <1>7, <1>10 DEF RegisterBackup, updatePhase, SetPhase, ApiError, Restart, kids
  <1>11. CASE \E w \in Stampers : Take(w) \/ Stamp(w) \/ Release(w)
    BY <1>7, <1>11 DEF Take, Stamp, Release, kids
  <1>12. CASE \E j \in Kinds : SyncChild(j)
    BY <1>7, <1>12 DEF SyncChild
  <1>13. CASE finalizeReplyLost \/ statusReplyLost
    BY <1>7, <1>13 DEF finalizeReplyLost, statusReplyLost, kids
  <1>14. CASE \E j \in Kinds : childReplyLost(j)
    <2> PICK j \in Kinds : childReplyLost(j) BY <1>14
    <2>1. j = k /\ wk.at \in Managing /\ Accepted(k)
      BY <1>0 DEF childReplyLost, StoreChild, Kinds, Managing
    <2>2. childCache[k] = NoChild
      BY <2>1 DEF Accepted, IInv, CurrentChildren
    <2>3. child'[k].owner = wk.pc.uid
      BY <1>0, <2>1, <2>2 DEF childReplyLost, StoreChild
    <2> QED BY <2>1, <2>3 DEF IInv, Adoption
  <1> QED BY <1>2, <1>3, <1>4, <1>5, <1>6, <1>8, <1>9, <1>10, <1>11, <1>12, <1>13, <1>14
          DEF Next, User, Kubernetes, Worker, Others, Faults

\* No child is created for a cluster that is gone or not yet adopted, however
\* old the cached cluster the reconcile works from.
THEOREM CreatesSafe == Spec => ChildrenOnlyUnderFinalizer
  <1>1. IInv /\ [Next]_vars => [CreatesForLiveCluster]_vars
    BY CreatesStep
  <1> QED BY <1>1, Inductive, PTL DEF Spec, ChildrenOnlyUnderFinalizer

\* A step that leaves the status alone loses nothing of it.
LEMMA StatusKept ==
    ASSUME pc = NoPC \/ pc' = NoPC \/ pc'.status = pc.status
    PROVE  WritesOneConcern
  BY DEF WritesOneConcern

\* None of the three writers of the status undoes what another wrote while it
\* held its copy: the stamps only move forward, and a phase report or a stamp
\* changes nothing else.
THEOREM StatusSafe == Spec => NoLostStatus
  <1>1. IInv /\ [Next]_vars => [WritesOneConcern]_vars
    <2> SUFFICES ASSUME IInv, Next PROVE WritesOneConcern
      BY DEF vars
    <2> USE DEF IInv
    <2>1. CASE Passive \/ Advance \/ SyncCluster \/ Reconcile \/ Restart
      BY <2>1, StatusKept DEF Passive, Advance, SyncCluster, Reconcile, Restart
    <2>2. CASE \E s \in Specs : Create(s)
      BY <2>2, StatusKept DEF Create
    <2>3. CASE \E s \in Specs : Edit(s)
      <3>1. pc \in PCs /\ pc'.status = pc.status
        BY <2>3 DEF Edit, Store, TypeOK, PCs
      <3> QED BY <3>1, StatusKept
    <2>4. CASE Delete
      <3>1. pc \in PCs /\ (pc' = NoPC \/ pc'.status = pc.status)
        BY <2>4 DEF Delete, Store, TypeOK, PCs
      <3> QED BY <3>1, StatusKept
    <2>5. CASE AddFinalizer
      <3>1. wk.pc \in PCs
        BY <2>5, UidTypes DEF AddFinalizer
      <3>2. pc'.status = pc.status
        BY <2>5, <3>1 DEF AddFinalizer, Refused, StoreAndDrop, CurrentCopies, PCs
      <3> QED BY <3>2, StatusKept
    <2>6. CASE finalize \/ finalizeReplyLost
      BY <2>6, StatusKept DEF finalize, DeleteCluster, finalizeReplyLost, StoreAndDrop
    <2>7. CASE updatePhase \/ statusReplyLost
      <3>1. CASE "worker" \in stale
        BY <2>7, <3>1, StatusKept DEF updatePhase, SetPhase, statusReplyLost
      <3>2. CASE "worker" \notin stale
        <4>1. wk.at = "status" /\ StoreAndDrop(Reported)
          BY <2>7, <3>2 DEF updatePhase, SetPhase, statusReplyLost
        <4> QED BY <3>2, <4>1, ReportStores DEF WritesOneConcern
      <3> QED BY <3>1, <3>2
    <2>8. CASE \E w \in Stampers : Stamp(w) /\ w \notin stale
      <3> PICK w \in Stampers : Stamp(w) /\ w \notin stale BY <2>8
      <3> DEFINE old == pc.status
                 up  == [old.stamps EXCEPT ![w] = @ + 1]
      <3>1. /\ pc \in PCs /\ old \in Statuses
            /\ pc' = [pc EXCEPT !.status = [old EXCEPT !.stamps = up]]
        BY StampStores DEF PCs
      <3>2. old.stamps \in [Stampers -> Nat]
        BY <3>1 DEF Statuses
      <3>3. pc'.status = [old EXCEPT !.stamps = up]
        BY <3>1 DEF PCs
      <3>4. pc'.status.stamps = up /\ pc'.status.phase = old.phase
            /\ pc'.status.ready = old.ready
        BY <3>1, <3>3 DEF Statuses
      <3>5. up[w] > old.stamps[w] /\ up = [old.stamps EXCEPT ![w] = up[w]]
        BY <3>2
      <3>6. pc' = [pc EXCEPT !.status =
                     [old EXCEPT !.stamps = [@ EXCEPT ![w] = pc'.status.stamps[w]]]]
        BY <3>1, <3>4, <3>5
      <3> QED BY <3>4, <3>5, <3>6 DEF WritesOneConcern
    <2> QED BY <2>1, <2>2, <2>3, <2>4, <2>5, <2>6, <2>7, <2>8, Effects
  <1> QED BY <1>1, Inductive, PTL DEF Spec, NoLostStatus

----------------------------------------------------------------------------
(* Refinement.                                                              *)

Kids   == {k \in Kinds : child[k] # NoChild}
Series == IF gauge = Orphan THEN None ELSE gauge

\* A step that writes a child is a step of the abstract specification.
LEMMA ChildWriteRefines ==
    ASSUME IInv, Next, NEW k \in Kinds, NEW new, StoreChild(k, new),
           UNCHANGED <<pc, gauge>>
    PROVE  Lifecycle!Next \/ UNCHANGED <<life, Kids, Series>>
  <1>1. UNCHANGED <<life, Series>>
    BY DEF life, Series
  <1>2. child' = [child EXCEPT ![k] = new] /\ child = [j \in Kinds |-> child[j]]
    BY DEF StoreChild, IInv, TypeOK
  <1>3. CASE child[k] = NoChild /\ new # NoChild
    <2>1. pc # NoPC /\ pc.fin
      BY <1>2, <1>3, CreatesStep DEF CreatesForLiveCluster
    <2>2. life \in {"managed", "terminating"}
      BY <2>1 DEF life
    <2>3. k \in Kinds \ Kids /\ Kids' = Kids \cup {k}
      BY <1>2, <1>3 DEF Kids
    <2> QED BY <1>1, <2>2, <2>3 DEF Lifecycle!Next, Lifecycle!Grow, Lifecycle!Adopted, Kids, Series
  <1>4. CASE child[k] # NoChild /\ new = NoChild
    <2>1. k \in Kids /\ Kids' = Kids \ {k}
      BY <1>2, <1>4 DEF Kids
    <2> QED BY <1>1, <2>1 DEF Lifecycle!Next, Lifecycle!Shrink, Kids, Series
  <1>5. CASE child[k] = NoChild <=> new = NoChild
    <2>1. Kids' = Kids
      BY <1>2, <1>5 DEF Kids
    <2> QED BY <1>1, <2>1
  <1> QED BY <1>3, <1>4, <1>5

\* A step that writes no child moves the cluster along its life, reports a
\* phase or forgets it, and finalize ends the life and the series together.
LEMMA ClusterWriteRefines ==
    ASSUME IInv, IInv', Next, UNCHANGED child
    PROVE  Lifecycle!Next \/ UNCHANGED <<life, Kids, Series>>
  <1>0. UNCHANGED Kids
    BY DEF Kids
  <1> USE <1>0 DEF IInv, Kids, Series
  <1>1. CASE UNCHANGED <<pc, gauge>>
    BY <1>1 DEF life
  <1>2. CASE \E s \in Specs : Create(s)
    <2>1. pc = NoPC /\ pc' # NoPC /\ ~pc'.fin /\ UNCHANGED gauge
      BY <1>2, ClusterExists DEF Create, Store, NoPC
    <2>2. life = "absent" /\ life' = "new"
      BY <2>1 DEF life
    <2> QED BY <2>1, <2>2 DEF Lifecycle!Next, Lifecycle!Appear
  <1>3. CASE \E s \in Specs : Edit(s)
    <2>1. pc \in PCs /\ pc' # NoPC /\ pc # NoPC /\ pc'.fin = pc.fin /\ pc'.del = pc.del
          /\ UNCHANGED gauge
      BY <1>3, SpecUpdate, ClusterExists DEF Edit, Store, TypeOK, PCs
    <2>2. life' = life
      BY <2>1 DEF life
    <2> QED BY <2>1, <2>2
  <1>4. CASE Delete
    <2>1. pc \in PCs /\ pc # NoPC /\ ~pc.del /\ UNCHANGED gauge
      BY <1>4 DEF Delete, TypeOK
    <2>2. CASE pc.fin
      <3>1. pc' # NoPC /\ pc'.fin /\ pc'.del
        BY <1>4, <2>1, <2>2, MetaUpdate, ClusterExists DEF Delete, Store, PCs
      <3>2. life = "managed" /\ life' = "terminating"
        BY <2>1, <2>2, <3>1 DEF life
      <3> QED BY <2>1, <3>2 DEF Lifecycle!Next, Lifecycle!Condemn
    <2>3. CASE ~pc.fin
      <3>1. pc' = NoPC
        BY <1>4, <2>3 DEF Delete, Store
      <3>2. life = "new" /\ life' = "absent"
        BY <2>1, <2>3, <3>1 DEF life
      <3> QED BY <2>1, <3>2 DEF Lifecycle!Next, Lifecycle!Withdraw
    <2> QED BY <2>2, <2>3
  <1>5. CASE AddFinalizer
    <2>1. wk.pc \in PCs /\ UNCHANGED gauge
      BY <1>5, UidTypes DEF AddFinalizer
    <2>2. CASE Refused
      BY <1>1, <1>5, <2>2 DEF AddFinalizer
    <2>3. CASE ~Refused
      <3>1. pc \in PCs /\ pc' = [pc EXCEPT !.fin = TRUE]
        BY <1>5, <2>1, <2>3 DEF AddFinalizer, Refused, StoreAndDrop, CurrentCopies
      <3>2. pc # NoPC /\ pc' # NoPC /\ pc'.fin /\ pc'.del = pc.del
        BY <3>1, MetaUpdate, ClusterExists DEF PCs
      <3>3. CASE pc.fin
        <4>1. life' = life
          BY <3>2, <3>3 DEF life
        <4> QED BY <2>1, <4>1
      <3>4. CASE ~pc.fin
        <4>1. life = "new" /\ life' = "managed"
          BY <3>2, <3>4 DEF life, KnownUids
        <4> QED BY <2>1, <4>1 DEF Lifecycle!Next, Lifecycle!Adopt
      <3> QED BY <3>3, <3>4
    <2> QED BY <2>2, <2>3
  <1>6. CASE finalize \/ finalizeReplyLost
    <2>1. CASE Refused
      BY <1>1, <1>6, <2>1 DEF finalize, DeleteCluster, finalizeReplyLost
    <2>2. CASE ~Refused
      <3>1. /\ wk.at = "finalize" /\ pc \in PCs /\ pc' = NoPC /\ Series' = None
            /\ pc.uid = wk.pc.uid
        BY <1>6, <2>2, UidTypes DEF finalize, DeleteCluster, finalizeReplyLost, Refused, StoreAndDrop,
                                    CurrentCopies
      <3>2. pc # NoPC /\ pc.del /\ pc.fin
        BY <3>1, ClusterExists DEF Adoption, KnownUids
      <3>3. life = "terminating" /\ life' = "absent"
        BY <3>1, <3>2 DEF life
      <3> QED BY <3>1, <3>3 DEF Lifecycle!Next, Lifecycle!Bury
    <2> QED BY <2>1, <2>2
  <1>7. CASE updatePhase \/ statusReplyLost
    <2>1. CASE "worker" \in stale
      BY <1>1, <1>7, <2>1 DEF updatePhase, SetPhase, statusReplyLost
    <2>2. CASE "worker" \notin stale
      <3>1. wk.at = "status" /\ StoreAndDrop(Reported)
        BY <1>7, <2>2 DEF updatePhase, SetPhase, statusReplyLost
      <3>2. /\ pc'.fin = pc.fin /\ pc'.del = pc.del /\ pc # NoPC /\ pc' # NoPC
            /\ wk.pc = pc
        BY <2>2, <3>1, ReportStores
      <3>3. pc.fin
        BY <3>1, <3>2 DEF Adoption, Managing
      <3>4. life' = life /\ life \in {"managed", "terminating"}
        BY <3>2, <3>3 DEF life
      <3>5. gauge' = gauge \/ gauge' \in Phases \cup {None}
        BY <1>7, <2>2 DEF updatePhase, SetPhase, statusReplyLost, TypeOK, Idle
      <3> QED BY <3>4, <3>5 DEF Lifecycle!Next, Lifecycle!Report, Lifecycle!Forget,
                                Lifecycle!Adopted
    <2> QED BY <2>1, <2>2
  <1>8. CASE \E w \in Stampers : Stamp(w) /\ w \notin stale
    <2> PICK w \in Stampers : Stamp(w) /\ w \notin stale BY <1>8
    <2>1. /\ pc \in PCs /\ pc'.fin = pc.fin /\ pc'.del = pc.del
          /\ pc # NoPC /\ pc' # NoPC
      BY StampStores, ClusterExists DEF PCs
    <2>2. UNCHANGED gauge
      BY DEF Stamp
    <2>3. life' = life
      BY <2>1 DEF life
    <2> QED BY <2>2, <2>3
  <1>9. CASE Restart
    <2>1. life' = life /\ gauge' = None
      BY <1>9 DEF Restart, life
    <2> QED BY <2>1 DEF Lifecycle!Next, Lifecycle!Forget
  <1>10. CASE Passive \/ Advance \/ SyncCluster \/ Reconcile
    BY <1>1, <1>10 DEF Passive, Advance, SyncCluster, Reconcile
  <1> QED BY <1>2, <1>3, <1>4, <1>5, <1>6, <1>7, <1>8, <1>9, <1>10, Effects

\* A step either leaves the children alone or is one write to one of them.
LEMMA ChildWrites ==
    ASSUME Next
    PROVE  \/ UNCHANGED child
           \/ \E k \in Kinds : \E new : StoreChild(k, new) /\ UNCHANGED <<pc, gauge>>
  <1>0. "sts" \in Kinds /\ "cm" \in Kinds /\ "svc" \in Kinds
    BY DEF Kinds
  <1>1. CASE \E k \in Kinds : Drift(k) \/ Collect(k) \/ SyncChild(k)
    BY <1>1 DEF Drift, Collect, SyncChild, store
  <1>2. CASE PodReady \/ PodLost
    BY <1>0, <1>2 DEF PodReady, PodLost, store
  <1>3. ASSUME NEW k \in Kinds, NEW next, CreateOrUpdate(k, next)
        PROVE  \/ UNCHANGED child
               \/ (\E new : StoreChild(k, new)) /\ UNCHANGED <<pc, gauge>>
    BY <1>3 DEF CreateOrUpdate, kids
  <1>4. CASE reconcileConfigMap \/ reconcileHeadlessService
    BY <1>0, <1>3, <1>4 DEF reconcileConfigMap, reconcileHeadlessService
  <1>5. CASE CreateStatefulSet
    BY <1>0, <1>5 DEF CreateStatefulSet, kids
  <1>6. CASE UpdateStatefulSet
    BY <1>0, <1>6 DEF UpdateStatefulSet, kids
  <1>7. CASE \E s \in Specs : Create(s) \/ Edit(s)
    BY <1>7 DEF Create, Edit, kids
  <1>8. CASE Delete \/ SyncCluster \/ Reconcile \/ AddFinalizer \/ finalize
    BY <1>8 DEF Delete, SyncCluster, Reconcile, AddFinalizer, finalize, DeleteCluster, kids
  <1>9. CASE RegisterBackup \/ updatePhase \/ ApiError \/ Restart
    BY <1>9 DEF RegisterBackup, updatePhase, SetPhase, ApiError, Restart, kids
  <1>11. CASE finalizeReplyLost \/ statusReplyLost
    BY <1>11 DEF finalizeReplyLost, statusReplyLost, kids
  <1>12. CASE \E k \in Kinds : childReplyLost(k)
    BY <1>12 DEF childReplyLost
  <1>10. CASE \E w \in Stampers : Take(w) \/ Stamp(w) \/ Release(w)
    BY <1>10 DEF Take, Stamp, Release, kids
  <1> QED BY <1>1, <1>2, <1>4, <1>5, <1>6, <1>7, <1>8, <1>9, <1>10, <1>11, <1>12
          DEF Next, User, Kubernetes, Worker, Others, Faults

\* The controller, with its lagging caches, conflicts, retries and restarts,
\* implements the lifecycle it promises.
THEOREM Refinement == Spec => ImplementsLifecycle
  <1>1. Init => Lifecycle!Init
    BY DEF Init, Lifecycle!Init, life, Kinds
  <1>2. IInv /\ IInv' /\ [Next]_vars => [Lifecycle!Next]_(Lifecycle!vars)
    <2> SUFFICES ASSUME IInv, IInv', [Next]_vars
                 PROVE  Lifecycle!Next \/ UNCHANGED <<life, Kids, Series>>
      BY DEF Lifecycle!vars, Kids, Series
    <2>1. CASE UNCHANGED vars
      BY <2>1 DEF vars, life, Kids, Series
    <2>2. CASE Next
      BY <2>2, ChildWrites, ChildWriteRefines, ClusterWriteRefines
    <2> QED BY <2>1, <2>2
  <1> QED BY <1>1, <1>2, Inductive, PTL DEF Spec, ImplementsLifecycle, Lifecycle!Spec

----------------------------------------------------------------------------
(* At rest in sync.  An event that is to come, or a key in the queue, means *)
(* another pass; what has to hold is what a pass has done while neither is  *)
(* there, at each of its steps.                                             *)

\* No event is to come and no pass is asked for: the caches hold what is stored.
Settled == ~queued /\ "cache" \notin stale /\ behind = {}

Rendered(k)   == child[k].owner = pc.uid /\ child[k].want = desired(k, pc.spec)
StatefulSetUp == child["sts"] # NoChild /\ child["sts"].want = desired("sts", pc.spec)

\* The pass under way works on the stored cluster, and has rendered the children
\* it is past.
UnderWay ==
    /\ "worker" \notin stale
    /\ wk.at \in Managing => ~pc.del
    /\ wk.at \in {"svc", "sts", "status"} => Rendered("cm")
    /\ wk.at \in {"sts", "status"} => Rendered("svc")
    /\ wk.at = "status" => /\ StatefulSetUp
                           /\ wk.ready = child["sts"].ready
                           /\ wk.phase = phaseOf(child["sts"], pc.spec)

\* After the pass the status and the series say what it found.
Rested == pc # NoPC =>
    /\ pc.fin /\ ~pc.del /\ Rendered("cm") /\ Rendered("svc") /\ StatefulSetUp
    /\ pc.status.ready = child["sts"].ready
    /\ pc.status.phase = phaseOf(child["sts"], pc.spec)
    /\ gauge = pc.status.phase

PassSeen == Settled => IF wk = Idle THEN Rested ELSE UnderWay

\* A write that changes the cluster or a child brings an event.
LEMMA WriteUnsettles ==
    /\ \A new : Store(new) /\ new # pc => ~Settled'
    /\ \A new : StoreAndDrop(new) /\ new # pc => ~Settled'
    /\ \A k \in Kinds : \A new : StoreChild(k, new) /\ new # child[k] => ~Settled'
  BY DEF Store, StoreAndDrop, StoreChild, Settled, Copies

\* A step that touches none of what the passes look at, and asks for no fewer.
LEMMA Untouched ==
    ASSUME PassSeen, UNCHANGED <<pc, child, wk, gauge>>, Settled' => Settled,
           "worker" \in stale' => "worker" \in stale
    PROVE  PassSeen'
  BY DEF PassSeen, Rested, UnderWay, Rendered, StatefulSetUp

\* A pass begins with the cluster as it is stored, or there is nothing to do.
LEMMA ReconcileSees ==
    ASSUME IInv, Reconcile, Settled'
    PROVE  IF wk' = Idle THEN Rested' ELSE UnderWay'
  <1> USE DEF IInv
  <1>1. "cache" \notin stale /\ UNCHANGED <<pc, child, gauge>>
    BY DEF Reconcile, Settled, kids
  <1>2. cache = pc
    BY <1>1 DEF CurrentCopies
  <1>3. CASE cache = NoPC \/ (cache.del /\ ~cache.fin)
    <2>1. pc = NoPC /\ wk' = Idle
      BY <1>2, <1>3 DEF Reconcile, KnownUids
    <2> QED BY <1>1, <2>1 DEF Rested
  <1>4. CASE ~(cache = NoPC \/ (cache.del /\ ~cache.fin))
    <2>1. /\ wk'.at = firstStep(pc) /\ stale' = stale \ {"worker"}
      BY <1>1, <1>2, <1>4 DEF Reconcile
    <2>2. wk'.at \in {"finalize", "addFinalizer", "register"}
      BY <2>1 DEF firstStep
    <2>3. wk'.at \in Managing => ~pc.del
      BY <2>1 DEF firstStep, Managing
    <2>4. wk' # Idle
      BY <2>2 DEF Idle
    <2>5. UnderWay'
      BY <1>1, <2>1, <2>2, <2>3 DEF UnderWay
    <2> QED BY <2>4, <2>5
  <1> QED BY <1>3, <1>4

\* CreateOrUpdate leaves the child rendered, or an event is to come.
LEMMA RenderSees ==
    ASSUME IInv, PassSeen, NEW k \in {"cm", "svc"}, NEW next \in {"svc", "sts"},
           (k = "cm" /\ next = "svc") \/ (k = "svc" /\ next = "sts"),
           CreateOrUpdate(k, next), Settled'
    PROVE  wk' # Idle /\ UnderWay'
  <1> USE DEF IInv
  <1> DEFINE new == [owner |-> wk.pc.uid, want |-> desired(k, wk.pc.spec), ready |-> 0]
  <1>1. /\ wk \in [at : Steps, pc : PCs, phase : Phases \cup {None}, ready : Nat]
        /\ wk.at = k /\ wk # Idle /\ k \in Kinds /\ UNCHANGED <<pc, cache, childCache>>
    BY DEF CreateOrUpdate, TypeOK, Idle, Kinds
  <1>2. \/ childCache[k] = new /\ Goto(next) /\ UNCHANGED <<kids, stale, queued>>
        \/ StoreChild(k, new) /\ Goto(next) /\ UNCHANGED <<stale, queued>>
        \/ Fail
    BY DEF CreateOrUpdate
  <1> HIDE DEF new
  <1>3. ~Fail
    BY DEF Settled, Fail
  <1>4. Goto(next) /\ UNCHANGED <<stale, queued>> /\ behind \subseteq behind'
    BY <1>2, <1>3 DEF kids, StoreChild
  <1>5. Settled /\ \A j \in Kinds : childCache[j] = child[j]
    BY <1>4 DEF Settled, CurrentChildren
  <1>6. "worker" \notin stale /\ wk.pc = pc /\ ~pc.del
    BY <1>1, <1>5 DEF PassSeen, UnderWay, CurrentCopies, Managing
  <1>7. child'[k] = new /\ child' = child
    <2>1. child = [j \in Kinds |-> child[j]]
      BY DEF TypeOK
    <2>2. CASE childCache[k] = new /\ UNCHANGED kids
      BY <1>1, <1>5, <2>2 DEF kids
    <2>3. CASE StoreChild(k, new)
      <3>1. new = child[k]
        BY <1>1, <2>3, WriteUnsettles
      <3> QED BY <1>1, <2>1, <2>3, <3>1 DEF StoreChild
    <2> QED BY <1>2, <1>3, <2>2, <2>3
  <1>8. new.owner = pc.uid /\ new.want = desired(k, pc.spec)
    BY <1>6 DEF new
  <1>9. wk'.at = next
    BY <1>1, <1>4 DEF Goto
  <1>10. k = "svc" => Rendered("cm")
    BY <1>1, <1>5 DEF PassSeen, UnderWay
  <1>11. wk' # Idle
    BY <1>9 DEF Idle
  <1>12. Rendered(k)'
    BY <1>1, <1>7, <1>8 DEF Rendered
  <1>13. k = "svc" => Rendered("cm")'
    BY <1>1, <1>7, <1>10 DEF Rendered
  <1> QED BY <1>1, <1>4, <1>6, <1>9, <1>11, <1>12, <1>13 DEF UnderWay

\* So does the update of the StatefulSet, and what it found is what is there.
LEMMA UpdateSees ==
    ASSUME IInv, PassSeen, UpdateStatefulSet, Settled'
    PROVE  wk' # Idle /\ UnderWay'
  <1> USE DEF IInv
  <1> DEFINE current == childCache["sts"]
             new     == [current EXCEPT !.want = buildStatefulSet(wk.pc.spec)]
  <1>1. /\ wk \in [at : Steps, pc : PCs, phase : Phases \cup {None}, ready : Nat]
        /\ wk.at = "sts" /\ wk # Idle /\ "sts" \in Kinds /\ UNCHANGED <<pc, cache, childCache>>
        /\ current # NoChild /\ current \in Children("sts")
    BY DEF UpdateStatefulSet, TypeOK, Idle, Kinds
  <1>2. \/ Fail
        \/ /\ (StoreChild("sts", new) \/ (new = current /\ UNCHANGED kids))
           /\ wk' = [wk EXCEPT !.at = "status", !.ready = current.ready,
                               !.phase = phaseOf(current, wk.pc.spec)]
           /\ UNCHANGED <<stale, queued>>
    BY DEF UpdateStatefulSet
  <1>3. ~Fail
    BY DEF Settled, Fail
  <1>4. /\ StoreChild("sts", new) \/ (new = current /\ UNCHANGED kids)
        /\ wk' = [wk EXCEPT !.at = "status", !.ready = current.ready,
                            !.phase = phaseOf(current, wk.pc.spec)]
        /\ UNCHANGED <<stale, queued>>
    BY <1>2, <1>3
  <1>5. behind \subseteq behind'
    BY <1>4 DEF kids, StoreChild
  <1>6. Settled /\ current = child["sts"]
    BY <1>1, <1>4, <1>5 DEF Settled, CurrentChildren
  <1>7. /\ "worker" \notin stale /\ wk.pc = pc /\ ~pc.del /\ Rendered("cm") /\ Rendered("svc")
    BY <1>1, <1>6 DEF PassSeen, UnderWay, CurrentCopies, Managing
  <1>8. new = current /\ child' = child
    <2>1. child = [j \in Kinds |-> child[j]]
      BY DEF TypeOK
    <2>2. CASE new = current /\ UNCHANGED kids
      BY <2>2 DEF kids
    <2>3. CASE StoreChild("sts", new)
      <3>1. new = child["sts"]
        BY <1>1, <2>3, WriteUnsettles
      <3> QED BY <1>1, <1>6, <2>1, <2>3, <3>1 DEF StoreChild
    <2> QED BY <1>4, <2>2, <2>3
  <1>9. current.want = desired("sts", pc.spec)
    <2>1. desired("sts", pc.spec) = buildStatefulSet(pc.spec)
      BY Zenon DEF desired
    <2>2. new.want = buildStatefulSet(wk.pc.spec)
      BY <1>1 DEF Children, NoChild
    <2> QED BY <1>7, <1>8, <2>1, <2>2
  <1> HIDE DEF current, new
  <1>10. wk'.at = "status" /\ wk'.ready = current.ready /\ wk'.phase = phaseOf(current, pc.spec)
    BY <1>1, <1>4, <1>7
  <1>11. wk' # Idle
    BY <1>10 DEF Idle
  <1>12. StatefulSetUp' /\ Rendered("cm")' /\ Rendered("svc")'
    BY <1>1, <1>6, <1>7, <1>8, <1>9 DEF StatefulSetUp, Rendered
  <1>13. /\ wk'.ready = child'["sts"].ready
         /\ wk'.phase = phaseOf(child'["sts"], pc'.spec)
    BY <1>1, <1>6, <1>8, <1>10
  <1> QED BY <1>1, <1>4, <1>7, <1>10, <1>11, <1>12, <1>13 DEF UnderWay

\* The report ends the pass with a status that says what it found.
LEMMA ReportSees ==
    ASSUME IInv, PassSeen, updatePhase, Settled'
    PROVE  wk' = Idle /\ Rested'
  <1> USE DEF IInv
  <1>1. wk.at = "status" /\ wk # Idle /\ UNCHANGED child
    BY DEF updatePhase, Idle, kids
  <1>2. "worker" \notin stale /\ StoreAndDrop(Reported) /\ gauge' = wk.phase /\ UNCHANGED <<queued, behind>>
    BY DEF updatePhase, Settled, Fail, SetPhase, kids
  <1>3. Reported = pc /\ pc' = pc /\ wk' = Idle
    BY <1>2, WriteUnsettles DEF StoreAndDrop
  <1>4. Settled
    BY <1>2, <1>3 DEF Settled, StoreAndDrop
  <1>5. UnderWay
    BY <1>1, <1>4 DEF PassSeen
  <1>6. pc.fin
    BY <1>1 DEF Adoption, Managing
  <1>7. /\ pc.status \in Statuses
        /\ pc = [pc EXCEPT !.status = [pc.status EXCEPT !.phase = wk.phase, !.ready = wk.ready]]
        /\ pc \in PCs
    BY <1>1, <1>2, <1>3, ReportStores
  <1>8. pc.status = [pc.status EXCEPT !.phase = wk.phase, !.ready = wk.ready]
    BY <1>7 DEF PCs
  <1>9. pc.status.phase = wk.phase /\ pc.status.ready = wk.ready
    BY <1>7, <1>8 DEF Statuses
  <1>10. gauge' = pc'.status.phase /\ UNCHANGED <<child, pc>>
    BY <1>1, <1>2, <1>3, <1>9
  <1>11. /\ Rendered("cm") /\ Rendered("svc") /\ StatefulSetUp /\ ~pc.del
         /\ pc.status.ready = child["sts"].ready
         /\ pc.status.phase = phaseOf(child["sts"], pc.spec)
    BY <1>1, <1>5, <1>9 DEF UnderWay, Managing
  <1> QED BY <1>3, <1>6, <1>10, <1>11 DEF Rested, Rendered, StatefulSetUp

\* No action leaves the controller settled on anything but a pass that has done
\* its work.
LEMMA PassStep == IInv /\ PassSeen /\ Next => PassSeen'
  <1> SUFFICES ASSUME IInv, PassSeen, Next PROVE PassSeen'
    OBVIOUS
  <1>u. ASSUME ~Settled' PROVE PassSeen'
    BY <1>u DEF PassSeen
  <1>q. ASSUME queued' PROVE ~Settled'
    BY <1>q DEF Settled
  <1>1. CASE \E s \in Specs : Create(s)
    <2> PICK s \in Specs : Create(s) BY <1>1
    <2> DEFINE new == [uid |-> uid + 1, fin |-> FALSE, del |-> FALSE, spec |-> s,
                       status |-> NoStatus]
    <2>1. Store(new) /\ pc = NoPC
      BY DEF Create
    <2>2. new.fin = FALSE /\ new # NoPC
      BY DEF NoPC
    <2> QED BY <1>u, <2>1, <2>2, WriteUnsettles
  <1>2. CASE \E s \in Specs : Edit(s)
    <2> PICK s \in Specs : Edit(s) BY <1>2
    <2>1. Store([pc EXCEPT !.spec = s]) /\ pc \in PCs /\ s # pc.spec
      BY DEF Edit, IInv, TypeOK
    <2>2. [pc EXCEPT !.spec = s].spec = s
      BY <2>1 DEF PCs
    <2> QED BY <1>u, <2>1, <2>2, WriteUnsettles
  <1>3. CASE Delete
    <2>1. pc \in PCs /\ pc # NoPC /\ ~pc.del
      BY <1>3 DEF Delete, IInv, TypeOK
    <2>2. [pc EXCEPT !.del = TRUE].del
      BY <2>1 DEF PCs
    <2>3. [pc EXCEPT !.del = TRUE] # pc
      BY <2>1, <2>2
    <2> QED BY <1>3, <1>u, <2>1, <2>3, WriteUnsettles DEF Delete
  <1>4. CASE \E k \in Kinds : Drift(k)
    <2> PICK k \in Kinds : Drift(k) BY <1>4
    <2>1. child[k] # NoChild /\ child[k] \in Children(k)
      BY DEF Drift, IInv, TypeOK
    <2>2. \A s \in Specs : [child[k] EXCEPT !.want = desired(k, s)].want = desired(k, s)
      BY <2>1 DEF Children
    <2>3. CASE StoreChild(k, NoChild)
      BY <1>u, <2>1, <2>3, WriteUnsettles
    <2>4. CASE ~StoreChild(k, NoChild)
      <3>1. PICK s \in Specs : /\ desired(k, s) # child[k].want
                               /\ StoreChild(k, [child[k] EXCEPT !.want = desired(k, s)])
        BY <2>4 DEF Drift
      <3> DEFINE new == [child[k] EXCEPT !.want = desired(k, s)]
      <3>2. StoreChild(k, new) /\ new.want # child[k].want
        BY <2>2, <3>1
      <3> HIDE DEF new
      <3>3. new # child[k]
        BY <3>2
      <3> QED BY <1>u, <3>2, <3>3, WriteUnsettles
    <2> QED BY <2>3, <2>4
  <1>5. CASE \E k \in Kinds : Collect(k)
    <2> PICK k \in Kinds : Collect(k) BY <1>5
    <2>1. StoreChild(k, NoChild) /\ NoChild # child[k]
      BY DEF Collect, NoChild
    <2> QED BY <1>u, <2>1, WriteUnsettles
  <1>6. CASE PodReady \/ PodLost
    <2> DEFINE sts == child["sts"]
    <2>1. "sts" \in Kinds /\ sts \in Children("sts") /\ sts # NoChild
      BY <1>6 DEF PodReady, PodLost, IInv, TypeOK, Kinds, NoChild
    <2>2. sts.ready \in Nat /\ \A n : [sts EXCEPT !.ready = n].ready = n
      BY <2>1 DEF Children, NoChild
    <2>3. ASSUME NEW n, n # sts.ready, StoreChild("sts", [sts EXCEPT !.ready = n])
          PROVE  PassSeen'
      BY <1>u, <2>1, <2>2, <2>3, WriteUnsettles
    <2>4. CASE PodReady
      <3> DEFINE n == IF sts.ready < sts.want.replicas THEN sts.ready + 1 ELSE sts.ready - 1
      <3>1. StoreChild("sts", [sts EXCEPT !.ready = n]) /\ sts.ready # sts.want.replicas
        BY <2>4 DEF PodReady
      <3>2. n # sts.ready
        BY <2>2
      <3> HIDE DEF n
      <3> QED BY <2>3, <3>1, <3>2
    <2>5. CASE PodLost
      <3> DEFINE n == sts.ready - 1
      <3>1. StoreChild("sts", [sts EXCEPT !.ready = n])
        BY <2>5 DEF PodLost
      <3>2. n # sts.ready
        BY <2>2
      <3> HIDE DEF n
      <3> QED BY <2>3, <3>1, <3>2
    <2> QED BY <1>6, <2>4, <2>5
  <1>7. CASE SyncCluster \/ \E k \in Kinds : SyncChild(k)
    BY <1>7, <1>q, <1>u DEF SyncCluster, SyncChild
  <1>8. CASE Reconcile
    BY <1>8, ReconcileSees DEF PassSeen
  <1>9. CASE AddFinalizer
    BY <1>9, <1>q, <1>u DEF AddFinalizer, Fail
  <1>10. CASE finalize
    <2>1. CASE Refused
      BY <1>10, <1>q, <1>u, <2>1 DEF finalize, Fail
    <2>2. CASE ~Refused
      <3>1. pc # NoPC /\ StoreAndDrop(NoPC)
        BY <1>10, <2>2, UidTypes, ClusterExists DEF finalize, Refused, IInv, CurrentCopies
      <3> QED BY <1>u, <3>1, WriteUnsettles
    <2> QED BY <2>1, <2>2
  <1>11. CASE RegisterBackup
    <2>1. CASE Fail
      BY <1>q, <1>u, <2>1 DEF Fail
    <2>2. CASE ~Fail
      <3>1. Goto("cm") /\ UNCHANGED <<pc, stale, queued, child, behind>> /\ wk.at = "register"
        BY <1>11, <2>2 DEF RegisterBackup, kids
      <3>2. wk \in [at : Steps, pc : PCs, phase : Phases \cup {None}, ready : Nat]
        BY <3>1 DEF IInv, TypeOK, Idle
      <3>3. wk'.at = "cm" /\ wk' # Idle /\ wk # Idle
        BY <3>1, <3>2 DEF Goto, Idle
      <3>4. Settled' => UnderWay'
        BY <3>1, <3>3 DEF PassSeen, Settled, UnderWay, Managing
      <3> QED BY <3>3, <3>4 DEF PassSeen
    <2> QED BY <2>1, <2>2
  <1>12. CASE reconcileConfigMap
    BY <1>12, RenderSees DEF reconcileConfigMap, PassSeen
  <1>13. CASE reconcileHeadlessService
    BY <1>13, RenderSees DEF reconcileHeadlessService, PassSeen
  <1>14. CASE CreateStatefulSet
    <2> DEFINE new == [owner |-> wk.pc.uid, want |-> buildStatefulSet(wk.pc.spec), ready |-> 0]
    <2>1. CASE Fail
      BY <1>q, <1>u, <2>1 DEF Fail
    <2>2. CASE ~Fail
      <3>1. StoreChild("sts", new) /\ child["sts"] = NoChild /\ "sts" \in Kinds
        BY <1>14, <2>2 DEF CreateStatefulSet, Accepted, Kinds
      <3>2. wk.pc \in PCs
        BY <1>14, UidTypes DEF CreateStatefulSet, IInv
      <3>3. new.owner # 0 /\ NoChild.owner = 0
        BY <3>2, ClusterExists DEF NoChild
      <3> HIDE DEF new
      <3>4. new # NoChild
        BY <3>3
      <3> QED BY <1>u, <3>1, <3>4, WriteUnsettles
    <2> QED BY <2>1, <2>2
  <1>15. CASE UpdateStatefulSet
    BY <1>15, UpdateSees DEF PassSeen
  <1>16. CASE updatePhase
    BY <1>16, ReportSees DEF PassSeen
  <1>17. CASE \E w \in Stampers : Take(w) \/ Release(w) \/ (Stamp(w) /\ w \in stale)
    <2> PICK w \in Stampers : Take(w) \/ Release(w) \/ (Stamp(w) /\ w \in stale) BY <1>17
    <2>1. UNCHANGED <<pc, child, wk, gauge, queued, behind>> /\ w # "cache" /\ w # "worker"
      BY DEF Take, Release, Stamp, kids, Stampers
    <2>2. stale' = stale \/ stale' = stale \ {w} \/ stale' = stale \cup {w}
      BY DEF Take, Release, Stamp
    <2>3. (Settled' => Settled) /\ ("worker" \in stale' => "worker" \in stale)
      BY <2>1, <2>2 DEF Settled
    <2> QED BY <2>1, <2>3, Untouched
  <1>18. CASE \E w \in Stampers : Stamp(w) /\ w \notin stale
    <2>1. "cache" \in stale'
      BY <1>18 DEF Stamp, Copies, Stampers
    <2> QED BY <1>u, <2>1 DEF Settled
  <1>19. CASE ApiError \/ finalizeReplyLost \/ statusReplyLost \/ \E k \in Kinds : childReplyLost(k)
    BY <1>19, <1>q, <1>u DEF ApiError, finalizeReplyLost, statusReplyLost, childReplyLost, Fail
  <1>20. CASE Restart
    <2>1. wk' = Idle /\ UNCHANGED pc /\ (pc # NoPC => queued')
      BY <1>20 DEF Restart
    <2>2. CASE pc # NoPC
      BY <1>q, <1>u, <2>1, <2>2
    <2>3. CASE pc = NoPC
      BY <2>1, <2>3 DEF PassSeen, Rested
    <2> QED BY <2>2, <2>3
  <1> QED
    BY <1>1, <1>2, <1>3, <1>4, <1>5, <1>6, <1>7, <1>8, <1>9, <1>10, <1>11, <1>12,
       <1>13, <1>14, <1>15, <1>16, <1>17, <1>18, <1>19, <1>20
    DEF Next, User, Kubernetes, Worker, Others, Faults

\* When the controller comes to rest, the children are what the stored spec asks
\* for and belong to this incarnation, and status and series report the
\* StatefulSet as it is: no edit, deletion, lost pod, conflict, lost reply or
\* restart in the middle of a reconcile is forgotten.
THEOREM ComesToRestInSync == Spec => []RestsInSync
  <1>1. Init => PassSeen
    BY DEF Init, PassSeen, Rested
  <1>2. IInv /\ PassSeen /\ [Next]_vars => PassSeen'
    <2>1. CASE UNCHANGED vars
      BY <2>1 DEF vars, PassSeen, Settled, Rested, UnderWay, Rendered, StatefulSetUp
    <2> QED BY <2>1, PassStep
  <1>3. IInv /\ PassSeen => RestsInSync
    <2> SUFFICES ASSUME IInv, PassSeen, Quiet PROVE InSync
      BY DEF RestsInSync
    <2>1. Rested
      BY DEF Quiet, PassSeen, Settled
    <2>2. \A k \in Kinds : child[k] # NoChild => child[k].owner \in Nat \ {0}
      BY DEF IInv, TypeOK, Children
    <2>3. "sts" \in Kinds /\ Kinds = {"cm", "svc", "sts"}
      BY DEF Kinds
    <2>4. CASE pc = NoPC
      <3>1. pc.uid = 0
        BY <2>4 DEF NoPC
      <3>2. \A k \in Kinds : child[k] = NoChild
        BY <2>2, <3>1 DEF Quiet
      <3>3. gauge \in {None, Orphan}
        BY <2>4 DEF IInv, SeriesFollowsCluster
      <3> QED BY <2>4, <3>2, <3>3 DEF InSync
    <2>5. CASE pc # NoPC
      <3>1. child["sts"].owner = pc.uid
        BY <2>1, <2>2, <2>3, <2>5 DEF Quiet, Rested, StatefulSetUp
      <3>2. \A k \in Kinds : child[k].owner = pc.uid /\ child[k].want = desired(k, pc.spec)
        BY <2>1, <2>3, <2>5, <3>1 DEF Rested, Rendered, StatefulSetUp
      <3> QED BY <2>1, <2>5, <3>2 DEF Rested, InSync
    <2> QED BY <2>4, <2>5
  <1> QED BY <1>1, <1>2, <1>3, Inductive, PTL DEF Spec
=============================================================================
