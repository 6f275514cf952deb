--------------------------- MODULE BackupScheduler ---------------------------
(***************************************************************************)
(* The schedule side of backup.Scheduler (backup.go): the cron entries of  *)
(* all clusters, the map from a cluster's key to its entry, Register as    *)
(* the reconciler calls it, the RunOnce calls cron starts, and the         *)
(* BackupTotal series they leave.  What a RunOnce does is BackupRun.       *)
(*                                                                         *)
(* Abstractions.                                                           *)
(*  - A reconcile is its Register call, or finalize for a deleted cluster; *)
(*    it works on the cached spec, and one that fails for another reason   *)
(*    before Register is requeued.  The rest of it is ClusterReconciler.   *)
(*  - Entry ids are compared for equality only, so an id that neither cron *)
(*    nor the map still holds stands for cron's next one.                  *)
(*  - Time is a flag per entry: it is due, or not yet.                     *)
(***************************************************************************)
EXTENDS Naturals, FiniteSets

CONSTANTS
    Clusters,    \* keys, namespace and name
    Schedules,   \* schedules cron can parse
    Bogus,       \* one it cannot
    Ids,         \* entry ids
    MaxRuns,     \* bound: RunOnce calls of one cluster under way
    MaxBudget,   \* bound: edits, faults, restarts and foreign events
    None

ASSUME ConstantsAssumption ==
    /\ Bogus \notin Schedules /\ None \notin Schedules /\ None # Bogus
    /\ None \notin Ids /\ MaxRuns \in Nat /\ MaxBudget \in Nat

VARIABLES
    spec,        \* the stored spec.backup of each cluster, or Gone
    seen,        \* the informer cache's copy of it
    lag,         \* clusters whose cached copy is not current
    todo,        \* keys in the work queue
    cron,        \* entries of the cron runner
    entries,     \* Scheduler.entries
    runs,        \* RunOnce calls under way for each cluster
    series,      \* clusters with a BackupTotal series
    budget

vars      == <<spec, seen, lag, todo, cron, entries, runs, series, budget>>
store     == <<spec, lag>>
scheduler == <<cron, entries>>

\* A deleted cluster stays, marked, until its finalizer is gone.
Lives   == {"live", "marked", "gone"}
Backups == [life : Lives, enabled : BOOLEAN, schedule : Schedules \cup {Bogus, None}]
Gone    == [life |-> "gone", enabled |-> FALSE, schedule |-> None]
Entries == [id : Ids, cluster : Clusters, schedule : Schedules, due : BOOLEAN]

Init ==
    /\ spec = [c \in Clusters |-> Gone] /\ seen = spec /\ lag = {} /\ todo = {}
    /\ cron = {} /\ entries = [c \in Clusters |-> None]
    /\ runs = [c \in Clusters |-> 0] /\ series = {} /\ budget = MaxBudget

Interfere == budget > 0 /\ budget' = budget - 1

Store(c, b) == spec' = [spec EXCEPT ![c] = b] /\ lag' = lag \cup {c}

----------------------------------------------------------------------------
(* The user and the informer.                                               *)

\* The cluster is created, or its spec.backup edited.
Apply(c, b) ==
    /\ b.life = "live" /\ b # spec[c] /\ spec[c].life # "marked"
    /\ Interfere
    /\ Store(c, b)
    /\ UNCHANGED <<seen, todo, scheduler, runs, series>>

Delete(c) ==
    /\ spec[c].life = "live"
    /\ Store(c, [spec[c] EXCEPT !.life = "marked"])
    /\ UNCHANGED <<seen, todo, scheduler, runs, series, budget>>

Sync(c) ==
    /\ c \in lag
    /\ seen' = [seen EXCEPT ![c] = spec[c]]
    /\ lag' = lag \ {c} /\ todo' = todo \cup {c}
    /\ UNCHANGED <<spec, scheduler, runs, series, budget>>

\* A child of the cluster changed.
Event(c) ==
    /\ c \notin todo
    /\ Interfere
    /\ todo' = todo \cup {c}
    /\ UNCHANGED <<store, seen, scheduler, runs, series>>

----------------------------------------------------------------------------
(* The reconcile.  A key whose reconcile fails stays in the queue.          *)

Unused == Ids \ ({e.id : e \in cron} \cup {entries[c] : c \in Clusters})

\* cron.AddFunc, on what Remove left of the entries.
AddFunc(c, schedule, rest) ==
    LET id == CHOOSE i \in Unused : TRUE IN
    /\ Unused # {}
    /\ cron' = rest \cup {[id |-> id, cluster |-> c, schedule |-> schedule, due |-> FALSE]}
    /\ entries' = [entries EXCEPT ![c] = id]
    /\ todo' = todo \ {c}

\* Mistake: the old entry is not removed.
RegisterTwice(c, b) ==
    IF ~b.enabled \/ b.schedule = None
    THEN todo' = todo \ {c} /\ UNCHANGED scheduler
    ELSE IF b.schedule = Bogus
    THEN UNCHANGED <<scheduler, todo>>
    ELSE AddFunc(c, b.schedule, cron)

\* Mistake: a key that is in the map counts as registered.
RegisterOnce(c, b) ==
    IF ~b.enabled \/ b.schedule = None
    THEN todo' = todo \ {c} /\ UNCHANGED scheduler
    ELSE IF b.schedule = Bogus
    THEN cron' = {e \in cron : e.id # entries[c]} /\ UNCHANGED <<entries, todo>>
    ELSE IF entries[c] # None THEN todo' = todo \ {c} /\ UNCHANGED scheduler
    ELSE AddFunc(c, b.schedule, cron)

\* Mistake: a schedule cron cannot parse is kept all the same.
RegisterUnparsed(c, b) ==
    IF ~b.enabled \/ b.schedule = None
    THEN todo' = todo \ {c} /\ UNCHANGED scheduler
    ELSE AddFunc(c, b.schedule, {e \in cron : e.id # entries[c]})

\* Nothing to register leaves an old entry where it is.  Otherwise the entry
\* of the key is removed and one with the new schedule added; a schedule cron
\* cannot parse leaves the removed id in the map and fails the reconcile.
Register(c, b) ==
    IF ~b.enabled \/ b.schedule = None
    THEN todo' = todo \ {c} /\ UNCHANGED scheduler
    ELSE LET rest == {e \in cron : e.id # entries[c]} IN
         IF b.schedule = Bogus
         THEN cron' = rest /\ UNCHANGED <<entries, todo>>
         ELSE AddFunc(c, b.schedule, rest)

Reconcile(c) ==
    /\ c \in todo /\ seen[c].life = "live"
    /\ Register(c, seen[c])
    /\ UNCHANGED <<store, seen, runs, series, budget>>

\* A call of the reconcile fails before Register.
ReconcileFails(c) ==
    /\ c \in todo /\ seen[c].life # "gone"
    /\ Interfere
    /\ UNCHANGED <<store, seen, todo, scheduler, runs, series>>

\* The finalizer goes, then metrics.DeleteCluster drops the series; the entry
\* stays.  A copy that is not current is refused.
finalize(c) ==
    /\ c \in todo /\ seen[c].life = "marked"
    /\ IF c \in lag THEN UNCHANGED <<store, series, todo>>
       ELSE Store(c, Gone) /\ series' = series \ {c} /\ todo' = todo \ {c}
    /\ UNCHANGED <<seen, scheduler, runs, budget>>

\* The cluster is not found.
NotFound(c) ==
    /\ c \in todo /\ seen[c].life = "gone"
    /\ todo' = todo \ {c}
    /\ UNCHANGED <<store, seen, scheduler, runs, series, budget>>

----------------------------------------------------------------------------
(* cron.                                                                    *)

Elapse(e) ==
    /\ ~e.due
    /\ cron' = (cron \ {e}) \cup {[e EXCEPT !.due = TRUE]}
    /\ UNCHANGED <<store, seen, todo, entries, runs, series, budget>>

\* An entry that is due calls RunOnce in a goroutine of its own.
Fire(e) ==
    /\ e.due /\ runs[e.cluster] < MaxRuns
    /\ cron' = (cron \ {e}) \cup {[e EXCEPT !.due = FALSE]}
    /\ runs' = [runs EXCEPT ![e.cluster] = @ + 1]
    /\ UNCHANGED <<store, seen, todo, entries, series, budget>>

\* RunOnce ends and counts, for a cluster that is gone too; a stamp in the
\* status is a write like any other.
RunEnds(c) ==
    /\ runs[c] > 0
    /\ runs' = [runs EXCEPT ![c] = @ - 1] /\ series' = series \cup {c}
    /\ \/ UNCHANGED store
       \/ spec[c].life # "gone" /\ Store(c, spec[c])
    /\ UNCHANGED <<seen, todo, scheduler, budget>>

\* Mistake: clusters are not registered again when the operator starts.
RestartForgets ==
    /\ Interfere
    /\ cron' = {} /\ entries' = [c \in Clusters |-> None]
    /\ runs' = [c \in Clusters |-> 0] /\ series' = {}
    /\ seen' = spec /\ lag' = {} /\ todo' = {}
    /\ UNCHANGED spec

\* Entries, runs and series are in memory; every listed cluster is enqueued.
Restart ==
    /\ Interfere
    /\ cron' = {} /\ entries' = [c \in Clusters |-> None]
    /\ runs' = [c \in Clusters |-> 0] /\ series' = {}
    /\ seen' = spec /\ lag' = {} /\ todo' = {c \in Clusters : spec[c].life # "gone"}
    /\ UNCHANGED spec

----------------------------------------------------------------------------
Work(c)   == Reconcile(c) \/ finalize(c) \/ NotFound(c)
FireOf(c) == \E e \in cron : e.cluster = c /\ (Elapse(e) \/ Fire(e))

Step(c) == \/ Delete(c) \/ Sync(c) \/ Event(c) \/ Work(c) \/ ReconcileFails(c)
           \/ FireOf(c) \/ RunEnds(c)
           \/ \E b \in Backups : Apply(c, b)

Next == Restart \/ \E c \in Clusters : Step(c)

\* The informer and the worker keep up, cron's loop runs, and a RunOnce ends.
Fairness == \A c \in Clusters :
    WF_vars(Sync(c)) /\ WF_vars(Work(c)) /\ WF_vars(FireOf(c)) /\ WF_vars(RunEnds(c))

Spec == Init /\ [][Next]_vars /\ Fairness

\* Every variable keeps its type; in particular cron holds only entries it
\* could parse.
TypeOK ==
    /\ spec \in [Clusters -> Backups] /\ seen \in [Clusters -> Backups]
    /\ lag \subseteq Clusters /\ todo \subseteq Clusters /\ series \subseteq Clusters
    /\ cron \subseteq Entries /\ entries \in [Clusters -> Ids \cup {None}]
    /\ runs \in [Clusters -> 0..MaxRuns] /\ budget \in 0..MaxBudget

----------------------------------------------------------------------------
\* The map finds every entry: no cluster is backed up twice on one tick, and
\* no entry is out of reach of the next Register, after any sequence of
\* edits, failed registrations and restarts.
OneEntryPerCluster == \A e \in cron : entries[e.cluster] = e.id

\* A live cluster that asks for backups on a schedule cron can parse.
Wanted(c) == spec[c].life = "live" /\ spec[c].enabled /\ spec[c].schedule \in Schedules

\* Once the events of a cluster are handled, it is scheduled as its spec says:
\* an edit that failed before, a restart, or another cluster's registration
\* has not cost it its entry.
RegisteredAtRest == \A c \in Clusters : c \notin todo \cup lag /\ Wanted(c) =>
    \E e \in cron : e.cluster = c /\ e.schedule = spec[c].schedule

\* A cluster that goes on asking for backups goes on getting runs, though
\* every stamp of a run leads to a Register that replaces its entry.
KeepsRunning == \A c \in Clusters : <>[]Wanted(c) => []<>(runs[c] > 0)
=============================================================================
