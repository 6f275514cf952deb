-------------------------- MODULE ClusterReconciler --------------------------
(***************************************************************************)
(* The PrometheusCluster controller (prometheuscluster_controller.go) on   *)
(* one cluster name: the stored object, the informer caches the controller *)
(* reads, its work queue, its one worker, the three child objects it       *)
(* writes, and the ClusterPhase series it exports.  A reconcile is broken  *)
(* at every call to the API server, so a user, the garbage collector, the  *)
(* StatefulSet controller and the two other writers of the status (the     *)
(* backup scheduler and the health checker) run in between.                *)
(*                                                                         *)
(* Abstractions.                                                           *)
(*  - A resourceVersion is compared for equality with the stored one and   *)
(*    nothing else, so each copy of an object is either current or not:    *)
(*    stale holds the copies of the PrometheusCluster that are not (and    *)
(*    those nobody holds), behind the child kinds whose cached copy is     *)
(*    not.  A write makes every other copy stale; a write that changes     *)
(*    nothing is a no-op to the API server and does not.                   *)
(*  - A cache that catches up jumps to the stored object.                  *)
(*  - CreateOrUpdate reads the cache and writes in one step: only this     *)
(*    worker reads that cache, so a lag between the two is a cache that    *)
(*    catches up after the step.                                           *)
(*  - One budget bounds all interference (edits, faults, drift, lost pods, *)
(*    status stamps, restarts); incarnations of the name are bounded too.  *)
(***************************************************************************)
EXTENDS PrometheusConfig, FiniteSets

CONSTANTS
    Specs,       \* specs a user may apply, records as in PrometheusConfig
    EnableWebhook,   \* values of --enable-webhook the operator is started with
    MaxUid,      \* bound: incarnations of the cluster's name
    MaxBudget    \* bound: steps of interference

ASSUME SpecsAssumption   == \A s \in Specs : s.replicas \in Nat \ {0}
ASSUME FlagAssumption    == EnableWebhook \subseteq BOOLEAN
ASSUME BoundsAssumption  == MaxUid \in Nat /\ MaxBudget \in Nat

VARIABLES
    pc,          \* the stored PrometheusCluster, or NoPC
    cache,       \* the informer cache's copy of it
    stale,       \* copies of pc whose resourceVersion is not the stored one
    child,       \* the stored child objects
    childCache,  \* the informer caches' copies of them
    behind,      \* kinds whose cached copy is not current
    queued,      \* the cluster's key is in the work queue
    wk,          \* the worker: where Reconcile is, and what it holds
    held,        \* the copies RunOnce and checkCluster hold
    gauge,       \* the phase whose ClusterPhase series is 1, None or Orphan
    uid,         \* the last uid handed out
    webhook,     \* the operator runs the validating webhook
    budget       \* interference left

store == <<pc, stale, uid, webhook>>
kids  == <<child, behind>>
vars  == <<pc, cache, stale, child, childCache, behind, queued, wk, held,
           gauge, uid, webhook, budget>>

Kinds    == {"cm", "svc", "sts"}
Stampers == {"backup", "failover"}     \* status fields stamped by others
Copies   == {"cache", "worker"} \cup Stampers
Phases   == {"Provisioning", "Active", "Scaling"}
Orphan   == "Orphan"                   \* a series whose cluster is gone

NoPC    == [uid |-> 0]
NoChild == [owner |-> 0, want |-> None, ready |-> 0]
Idle    == [at |-> "idle", pc |-> NoPC, phase |-> None, ready |-> 0]

\* LastBackupTime and LastFailoverTime, as the number of times each was set.
NoStatus == [phase |-> None, ready |-> 0, stamps |-> [w \in Stampers |-> 0]]

\* What the controller writes into a child for a spec.
desired(k, s) == CASE k = "cm"  -> configMapData(s)
                   [] k = "svc" -> "headless"
                   [] k = "sts" -> buildStatefulSet(s)

----------------------------------------------------------------------------
Init ==
    /\ pc = NoPC /\ cache = NoPC /\ stale = Copies \ {"cache"}
    /\ child = [k \in Kinds |-> NoChild] /\ childCache = child /\ behind = {}
    /\ queued = FALSE /\ wk = Idle /\ held = [w \in Stampers |-> NoPC]
    /\ gauge = None /\ uid = 0 /\ budget = MaxBudget /\ webhook \in EnableWebhook

\* The API server stores a new version of the cluster.
Store(new) ==
    /\ pc' = new
    /\ stale' = IF new = pc THEN stale ELSE Copies

StoreChild(k, new) ==
    /\ child' = [child EXCEPT ![k] = new]
    /\ behind' = IF new = child[k] THEN behind ELSE behind \cup {k}

\* The webhook judges every create and update of the cluster, the operator's
\* own included; deletions and writes of the status do not go through it.
Admitted == {s \in Specs : webhook => validate(s)}

Interfere == budget > 0 /\ budget' = budget - 1

----------------------------------------------------------------------------
(* The user, through kubectl or the REST API.                               *)

Create(s) ==
    /\ pc = NoPC /\ uid < MaxUid /\ s \in Admitted
    /\ uid' = uid + 1
    /\ Store([uid |-> uid + 1, fin |-> FALSE, del |-> FALSE, spec |-> s,
              status |-> NoStatus])
    /\ UNCHANGED <<cache, kids, childCache, queued, wk, held, gauge, webhook, budget>>

Edit(s) ==
    /\ pc # NoPC /\ s # pc.spec /\ s \in Admitted
    /\ Interfere
    /\ Store([pc EXCEPT !.spec = s])
    /\ UNCHANGED <<cache, kids, childCache, queued, wk, held, gauge, uid, webhook>>

\* A finalizer keeps the object, marked; without one it goes at once.
Delete ==
    /\ pc # NoPC /\ ~pc.del
    /\ Store(IF pc.fin THEN [pc EXCEPT !.del = TRUE] ELSE NoPC)
    /\ UNCHANGED <<cache, kids, childCache, queued, wk, held, gauge, uid, webhook, budget>>

\* Someone deletes a child, or edits what the controller wrote into it.
Drift(k) ==
    /\ child[k] # NoChild
    /\ Interfere
    /\ \/ StoreChild(k, NoChild)
       \/ \E s \in Specs : /\ desired(k, s) # child[k].want
                          /\ StoreChild(k, [child[k] EXCEPT !.want = desired(k, s)])
    /\ UNCHANGED <<store, cache, childCache, queued, wk, held, gauge>>

----------------------------------------------------------------------------
(* Kubernetes: the garbage collector, the StatefulSet controller, and the   *)
(* informers, whose event handlers enqueue the key (For and Owns).          *)

Collect(k) ==
    /\ child[k].owner \notin {0, pc.uid}
    /\ StoreChild(k, NoChild)
    /\ UNCHANGED <<store, cache, childCache, queued, wk, held, gauge, budget>>

PodReady ==
    /\ child["sts"] # NoChild
    /\ LET sts == child["sts"] IN
       /\ sts.ready # sts.want.replicas
       /\ StoreChild("sts", [sts EXCEPT !.ready =
             IF sts.ready < sts.want.replicas THEN sts.ready + 1 ELSE sts.ready - 1])
    /\ UNCHANGED <<store, cache, childCache, queued, wk, held, gauge, budget>>

PodLost ==
    /\ child["sts"].ready > 0
    /\ Interfere
    /\ StoreChild("sts", [child["sts"] EXCEPT !.ready = @ - 1])
    /\ UNCHANGED <<store, cache, childCache, queued, wk, held, gauge>>

SyncCluster ==
    /\ "cache" \in stale
    /\ cache' = pc /\ stale' = stale \ {"cache"} /\ queued' = TRUE
    /\ UNCHANGED <<pc, uid, webhook, kids, childCache, wk, held, gauge, budget>>

SyncChild(k) ==
    /\ k \in behind
    /\ childCache' = [childCache EXCEPT ![k] = child[k]]
    /\ behind' = behind \ {k} /\ queued' = TRUE
    /\ UNCHANGED <<store, cache, child, wk, held, gauge, budget>>

----------------------------------------------------------------------------
(* Reconcile.  Done ends it; Fail ends it with an error, and the queue's    *)
(* rate limiter adds the key again.                                         *)

Goto(at) == wk' = [wk EXCEPT !.at = at]

\* The worker drops its copy of the cluster, after its last write to it.
Done == wk' = Idle /\ stale' = stale \cup {"worker"}
StoreAndDrop(new) ==
    /\ pc' = new /\ wk' = Idle
    /\ stale' = IF new = pc THEN stale \cup {"worker"} ELSE Copies
\* Mistake: the error is logged and the key forgotten.
FailForgotten == Done /\ UNCHANGED queued
Fail == Done /\ queued' = TRUE

\* Mistake: children are created before the finalizer is in place.
firstStepUnguarded(c) == IF c.del THEN "finalize" ELSE "register"

\* Where a reconcile of a cluster starts.
firstStep(c) == IF c.del THEN "finalize"
                ELSE IF ~c.fin THEN "addFinalizer" ELSE "register"

\* Get the cluster from the cache; there is nothing to do for one that is
\* gone, or marked and already without the finalizer.
Reconcile ==
    /\ wk = Idle /\ queued
    /\ queued' = FALSE
    /\ IF cache = NoPC \/ (cache.del /\ ~cache.fin)
       THEN UNCHANGED <<wk, stale>>
       ELSE /\ wk' = [at |-> firstStep(cache), pc |-> cache, phase |-> None, ready |-> 0]
            /\ stale' = IF "cache" \in stale THEN stale ELSE stale \ {"worker"}
    /\ UNCHANGED <<pc, uid, webhook, cache, kids, childCache, held, gauge, budget>>

\* The API server refuses an Update from a copy that is not current, and one
\* the webhook rejects.
Refused == "worker" \in stale \/ wk.pc.spec \notin Admitted

AddFinalizer ==
    /\ wk.at = "addFinalizer"
    /\ IF Refused
       THEN Fail /\ UNCHANGED pc
       ELSE StoreAndDrop([wk.pc EXCEPT !.fin = TRUE]) /\ queued' = TRUE
    /\ UNCHANGED <<cache, uid, webhook, kids, childCache, held, gauge, budget>>

\* metrics.SetPhase puts the other phases to 0; DeleteCluster drops them all.
SetPhase(phase) == gauge' = phase
DeleteCluster   == gauge' = None

\* Mistake: the cluster's series outlive it.
finalizeKeepSeries ==
    /\ wk.at = "finalize"
    /\ IF Refused THEN Fail /\ UNCHANGED pc
       ELSE StoreAndDrop(NoPC) /\ UNCHANGED queued
    /\ UNCHANGED <<cache, uid, webhook, kids, childCache, held, gauge, budget>>

\* Removing the last finalizer of a marked object removes the object; then
\* metrics.DeleteCluster drops the cluster's series.
finalize ==
    /\ wk.at = "finalize"
    /\ IF Refused
       THEN Fail /\ UNCHANGED <<pc, gauge>>
       ELSE StoreAndDrop(NoPC) /\ DeleteCluster /\ UNCHANGED queued
    /\ UNCHANGED <<cache, uid, webhook, kids, childCache, held, budget>>

\* BackupSchedule.Register rejects a schedule cron cannot parse, and with it
\* the rest of the reconcile.
RegisterBackup ==
    /\ wk.at = "register"
    /\ IF wk.pc.spec.backup.enabled /\ wk.pc.spec.backup.schedule = "bogus"
       THEN Fail
       ELSE Goto("cm") /\ UNCHANGED <<stale, queued>>
    /\ UNCHANGED <<pc, cache, uid, webhook, kids, childCache, held, gauge, budget>>

\* Create needs the name to be free, Update the cached copy to be current.
Accepted(k) == IF childCache[k] = NoChild THEN child[k] = NoChild ELSE k \notin behind

\* controllerutil.CreateOrUpdate: no call at all when the cached object is
\* already as wanted, save for the Service, whose ports the API server fills
\* in and which never looks as wanted.  SetControllerReference points the
\* owner at this incarnation, whichever one it named before.
CreateOrUpdate(k, next) ==
    LET new == [owner |-> wk.pc.uid, want |-> desired(k, wk.pc.spec), ready |-> 0] IN
    /\ wk.at = k
    /\ IF childCache[k] = new /\ k # "svc"
       THEN Goto(next) /\ UNCHANGED <<kids, stale, queued>>
       ELSE IF Accepted(k)
       THEN StoreChild(k, new) /\ Goto(next) /\ UNCHANGED <<stale, queued>>
       ELSE Fail /\ UNCHANGED kids
    /\ UNCHANGED <<pc, cache, uid, webhook, childCache, held, gauge, budget>>

reconcileConfigMap       == CreateOrUpdate("cm", "svc")
reconcileHeadlessService == CreateOrUpdate("svc", "sts")

CreateStatefulSet ==
    /\ wk.at = "sts" /\ childCache["sts"] = NoChild
    /\ IF Accepted("sts")
       THEN /\ StoreChild("sts", [owner |-> wk.pc.uid,
                                  want |-> buildStatefulSet(wk.pc.spec), ready |-> 0])
            /\ wk' = [wk EXCEPT !.at = "status", !.phase = "Provisioning", !.ready = 0]
            /\ UNCHANGED <<stale, queued>>
       ELSE Fail /\ UNCHANGED kids
    /\ UNCHANGED <<pc, cache, uid, webhook, childCache, held, gauge, budget>>

\* Mistake: a phase the CRD's enum does not know.
phaseOfPending(sts, s) == IF sts.want.replicas # s.replicas THEN "Scaling"
                          ELSE IF sts.ready < s.replicas THEN "Pending" ELSE "Active"

\* The phase comes from the copy read before the update.
phaseOf(sts, s) == IF sts.want.replicas # s.replicas THEN "Scaling"
                   ELSE IF sts.ready < s.replicas THEN "Provisioning" ELSE "Active"

\* The stored template carries the API server's defaults, so DeepEqual may
\* report a change where there is none; the owner reference is left alone.
UpdateStatefulSet ==
    /\ wk.at = "sts" /\ childCache["sts"] # NoChild
    /\ LET current == childCache["sts"]
           new     == [current EXCEPT !.want = buildStatefulSet(wk.pc.spec)]
       IN  \E templateChanged \in BOOLEAN :
             /\ new # current => templateChanged
             /\ IF templateChanged /\ ~Accepted("sts")
                THEN Fail /\ UNCHANGED kids
                ELSE /\ IF templateChanged THEN StoreChild("sts", new) ELSE UNCHANGED kids
                     /\ wk' = [wk EXCEPT !.at = "status", !.ready = current.ready,
                                         !.phase = phaseOf(current, wk.pc.spec)]
                     /\ UNCHANGED <<stale, queued>>
    /\ UNCHANGED <<pc, cache, uid, webhook, childCache, held, gauge, budget>>

\* Mistake: the status is written without its resourceVersion.
updatePhaseForced ==
    /\ wk.at = "status"
    /\ IF pc = NoPC THEN Fail /\ UNCHANGED <<pc, gauge>>
       ELSE /\ StoreAndDrop([pc EXCEPT !.status = [wk.pc.status EXCEPT
                                     !.phase = wk.phase, !.ready = wk.ready]])
            /\ gauge' = wk.phase /\ UNCHANGED queued
    /\ UNCHANGED <<cache, uid, webhook, kids, childCache, held, budget>>

\* The cluster with the status the reconcile found.
Reported == [pc EXCEPT !.status = [wk.pc.status EXCEPT !.phase = wk.phase,
                                                       !.ready = wk.ready]]

\* Status().Update writes the status of the worker's copy, the other writers'
\* stamps included, and then metrics.SetPhase the series.
updatePhase ==
    /\ wk.at = "status"
    /\ IF "worker" \in stale
       THEN Fail /\ UNCHANGED <<pc, gauge>>
       ELSE /\ StoreAndDrop(Reported)
            /\ SetPhase(wk.phase) /\ UNCHANGED queued
    /\ UNCHANGED <<cache, uid, webhook, kids, childCache, held, budget>>

----------------------------------------------------------------------------
(* The other writers of the status.  RunOnce gets the cluster from the      *)
(* cache, backs it up and stamps LastBackupTime; checkCluster works on a    *)
(* listed copy, deletes pods and stamps LastFailoverTime, once per pod.     *)

Take(w) ==
    /\ held[w] = NoPC /\ cache # NoPC
    /\ Interfere
    /\ held' = [held EXCEPT ![w] = cache]
    /\ stale' = IF "cache" \in stale THEN stale ELSE stale \ {w}
    /\ UNCHANGED <<pc, uid, webhook, cache, kids, childCache, queued, wk, gauge>>

\* A conflict is an error that the caller logs; a later stamp from the same
\* copy would meet it again.  checkCluster keeps its copy after a success.
Stamp(w) ==
    /\ held[w] # NoPC
    /\ LET st   == held[w].status
           new  == [pc EXCEPT !.status =
                      [st EXCEPT !.stamps = [st.stamps EXCEPT ![w] = @ + 1]]]
           kept == IF w = "failover" THEN {w} ELSE {}
       IN  IF w \in stale
           THEN held' = [held EXCEPT ![w] = NoPC] /\ UNCHANGED <<pc, stale, budget>>
           ELSE /\ Interfere
                /\ pc' = new /\ stale' = Copies \ kept
                /\ held' = [held EXCEPT ![w] = IF w \in kept THEN new ELSE NoPC]
    /\ UNCHANGED <<cache, uid, webhook, kids, childCache, queued, wk, gauge>>

\* RunOnce fails before it stamps; checkCluster comes to the end of its pods.
Release(w) ==
    /\ held[w] # NoPC
    /\ held' = [held EXCEPT ![w] = NoPC]
    /\ stale' = stale \cup {w}
    /\ UNCHANGED <<pc, uid, webhook, cache, kids, childCache, queued, wk, gauge, budget>>

----------------------------------------------------------------------------
(* Faults.                                                                  *)

\* Any call of the reconcile may fail without effect.
ApiError ==
    /\ wk # Idle
    /\ Interfere
    /\ Fail
    /\ UNCHANGED <<pc, uid, webhook, cache, kids, childCache, held, gauge>>

\* Or a write takes effect and its reply is lost, so the reconcile fails all
\* the same.  The children and the status are written again by the retry;
\* after finalize there is no cluster to retry for and its series stays, until
\* the name is used again.  For AddFinalizer the error and success are alike:
\* both end the reconcile and queue the key.
finalizeReplyLost ==
    /\ wk.at = "finalize" /\ ~Refused
    /\ Interfere
    /\ StoreAndDrop(NoPC) /\ queued' = TRUE
    /\ gauge' = IF gauge = None THEN None ELSE Orphan
    /\ UNCHANGED <<cache, uid, webhook, kids, childCache, held>>

statusReplyLost ==
    /\ wk.at = "status" /\ "worker" \notin stale
    /\ Interfere
    /\ StoreAndDrop(Reported) /\ queued' = TRUE
    /\ UNCHANGED <<cache, uid, webhook, kids, childCache, held, gauge>>

childReplyLost(k) ==
    /\ wk.at = k /\ Accepted(k)
    /\ Interfere
    /\ StoreChild(k, IF k = "sts" /\ childCache[k] # NoChild
                     THEN [childCache[k] EXCEPT !.want = desired(k, wk.pc.spec)]
                     ELSE [owner |-> wk.pc.uid, want |-> desired(k, wk.pc.spec), ready |-> 0])
    /\ Fail
    /\ UNCHANGED <<pc, uid, webhook, cache, childCache, held, gauge>>

\* The operator restarts, perhaps with the webhook switched on or off: the
\* worker, the copies and the metrics are gone, the caches are listed anew and
\* every listed object enqueues the key.
Restart ==
    /\ Interfere
    /\ wk' = Idle /\ held' = [w \in Stampers |-> NoPC] /\ gauge' = None
    /\ cache' = pc /\ stale' = Copies \ {"cache"}
    /\ childCache' = child /\ behind' = {}
    /\ queued' = (pc # NoPC \/ \E k \in Kinds : child[k] # NoChild)
    /\ webhook' \in EnableWebhook
    /\ UNCHANGED <<pc, uid, child>>

----------------------------------------------------------------------------
User       == Delete \/ (\E s \in Specs : Create(s) \/ Edit(s))
                     \/ (\E k \in Kinds : Drift(k))
Kubernetes == PodReady \/ SyncCluster \/ (\E k \in Kinds : Collect(k) \/ SyncChild(k))
Worker     == \/ Reconcile \/ AddFinalizer \/ finalize \/ RegisterBackup
              \/ reconcileConfigMap \/ reconcileHeadlessService
              \/ CreateStatefulSet \/ UpdateStatefulSet \/ updatePhase
Others     == \E w \in Stampers : Take(w) \/ Stamp(w) \/ Release(w)
Faults     == \/ PodLost \/ ApiError \/ Restart \/ finalizeReplyLost \/ statusReplyLost
              \/ \E k \in Kinds : childReplyLost(k)

Next == User \/ Kubernetes \/ Worker \/ Others \/ Faults

\* The queue hands out keys as long as there are any, the informers and the
\* other controllers of the cluster keep running.
Fairness == /\ WF_vars(Worker) /\ WF_vars(SyncCluster) /\ WF_vars(PodReady)
            /\ \A k \in Kinds : WF_vars(Collect(k)) /\ WF_vars(SyncChild(k))

Spec == Init /\ [][Next]_vars /\ Fairness
----------------------------------------------------------------------------
(* Types.                                                                   *)

Statuses == [phase : Phases \cup {None}, ready : Nat, stamps : [Stampers -> Nat]]
PCs      == [uid : Nat \ {0}, fin : BOOLEAN, del : BOOLEAN, spec : Specs,
             status : Statuses]
Steps    == {"addFinalizer", "finalize", "register", "cm", "svc", "sts", "status"}

Children(k) == {NoChild} \cup [owner : Nat \ {0}, ready : Nat,
                               want : {desired(k, s) : s \in Specs}]

\* Every variable keeps its type; a worker between two calls holds a cluster,
\* and a phase once it has one to report.
TypeOK ==
    /\ pc \in PCs \cup {NoPC} /\ cache \in PCs \cup {NoPC}
    /\ stale \in SUBSET Copies /\ behind \in SUBSET Kinds
    /\ child = [k \in Kinds |-> child[k]] /\ childCache = [k \in Kinds |-> childCache[k]]
    /\ \A k \in Kinds : child[k] \in Children(k) /\ childCache[k] \in Children(k)
    /\ queued \in BOOLEAN
    /\ \/ wk = Idle
       \/ wk \in [at : Steps, pc : PCs, phase : Phases \cup {None}, ready : Nat]
    /\ held \in [Stampers -> PCs \cup {NoPC}]
    /\ gauge \in Phases \cup {None, Orphan} /\ webhook \in BOOLEAN
    /\ uid \in 0..MaxUid /\ budget \in 0..MaxBudget

----------------------------------------------------------------------------
(* Safety.                                                                  *)

\* The phase series of a cluster exists only while the cluster does, under
\* its finalizer: once finalize has dropped the series, no reconcile that was
\* still under way on an old copy brings it back.  An Orphan, which only a lost
\* reply to finalize leaves, is the one exception.
SeriesFollowsCluster == gauge \notin {None, Orphan} => pc # NoPC /\ pc.fin

\* No child is ever created for a cluster that is gone, recreated or not yet
\* under the finalizer, however far the cache the worker read lags behind.
CreatesForLiveCluster ==
    \A k \in Kinds : child[k] = NoChild /\ child'[k] # NoChild =>
        pc # NoPC /\ pc.fin /\ child'[k].owner = pc.uid

ChildrenOnlyUnderFinalizer == [][CreatesForLiveCluster]_vars

\* The reconciler, the backup scheduler and the health checker each write the
\* whole status from a copy read earlier.  None of them undoes what another
\* wrote meanwhile: a step that moves a stamp moves it forward and changes
\* nothing else, and a step that reports a phase changes no stamp, spec or
\* deletion mark.
WritesOneConcern ==
    LET old == pc.status  new == pc'.status IN
    pc # NoPC /\ pc' # NoPC /\ pc'.uid = pc.uid =>
        /\ new.stamps # old.stamps =>
              \E w \in Stampers :
                /\ new.stamps[w] > old.stamps[w]
                /\ pc' = [pc EXCEPT !.status =
                            [old EXCEPT !.stamps = [@ EXCEPT ![w] = new.stamps[w]]]]
        /\ new.phase # old.phase \/ new.ready # old.ready =>
              /\ pc'.spec = pc.spec /\ pc'.fin = pc.fin /\ pc'.del = pc.del
              /\ new.stamps = old.stamps

NoLostStatus == [][WritesOneConcern]_vars

\* Nothing is under way that would change anything: no event undelivered, no
\* key queued, no orphan left to collect.
Quiet == /\ ~queued /\ wk = Idle /\ "cache" \notin stale /\ behind = {}
         /\ \A k \in Kinds : child[k].owner \in {0, pc.uid}

InSync ==
    IF pc = NoPC
    THEN gauge \in {None, Orphan} /\ \A k \in Kinds : child[k] = NoChild
    ELSE /\ pc.fin /\ ~pc.del
         /\ \A k \in Kinds : child[k].owner = pc.uid /\ child[k].want = desired(k, pc.spec)
         /\ pc.status.ready = child["sts"].ready
         /\ pc.status.phase = phaseOf(child["sts"], pc.spec)
         /\ gauge = pc.status.phase

\* No event is lost on the way: when the controller comes to rest, the
\* children are what the spec asks for, they belong to this incarnation, and
\* the status and the series report the StatefulSet as it is, whatever was
\* edited, deleted, lost or restarted while a reconcile was running.
RestsInSync == Quiet => InSync

\* The controller implements ClusterLifecycle: what it shows of the cluster,
\* its children and its series is a behaviour of that specification.
life == CASE pc = NoPC -> "absent" [] pc # NoPC /\ ~pc.fin -> "new"
          [] pc # NoPC /\ pc.fin /\ ~pc.del -> "managed"
          [] OTHER -> "terminating"

Lifecycle == INSTANCE ClusterLifecycle
                 WITH kids <- {k \in Kinds : child[k] # NoChild},
                      series <- IF gauge = Orphan THEN None ELSE gauge

ImplementsLifecycle == Lifecycle!Spec

----------------------------------------------------------------------------
(* Liveness.                                                                *)

\* The webhook, switched on over a cluster it would not have let in, rejects
\* the operator's updates of the finalizer too.
Barred == pc # NoPC /\ pc.spec \notin Admitted

\* A deleted cluster does not stay Terminating: the finalizer is removed, unless
\* the webhook comes to reject the spec the cluster was stored with.
DeletionCompletes == \A u \in 1..MaxUid :
    pc.uid = u /\ pc # NoPC /\ pc.del ~> pc.uid # u \/ Barred

\* A schedule cron cannot parse fails every reconcile before the children.
Unschedulable == pc # NoPC /\ pc.spec.backup.enabled /\ pc.spec.backup.schedule = "bogus"

\* Once interference ends, the cluster is gone or runs all its replicas and
\* says so, and stays that way; only a spec whose schedule cron cannot parse,
\* or that the webhook rejects, keeps it from that.
Converges == <>[]\/ Unschedulable \/ Barred
                 \/ InSync /\ (pc # NoPC => pc.status.phase = "Active"
                                             /\ pc.status.ready = pc.spec.replicas)
=============================================================================
