------------------------------ MODULE ClusterSet ------------------------------
(***************************************************************************)
(* The PrometheusClusterSet controller (prometheusclusterset_controller.go *)
(* and _helpers.go): Sets select PrometheusClusters by label across        *)
(* namespaces, report them in their status and lay their backupTemplate    *)
(* over the members that have no backup of their own.                      *)
(*                                                                         *)
(* Abstractions.                                                           *)
(*  - The API objects are one function, store; the informers' copies are   *)
(*    another, cache.  A resourceVersion is only compared for equality     *)
(*    with the stored one, so stale holds the copies, <<holder, object>>,  *)
(*    that are not current (and the worker's when it holds none).          *)
(*  - A selector is "all" (nil or empty), "labelled" (a label of which     *)
(*    objects carry it) or "invalid" (LabelSelectorAsSelector fails).      *)
(*  - Get and the two Lists read the caches and cannot be told apart from  *)
(*    one read: what changes later in a cache enqueues the Set again.      *)
(*  - A reply that is lost after overlayBackup's Update took effect is the *)
(*    successful Update: the error is only logged.                         *)
(*  - One budget bounds all interference: users, phases, faults, restarts. *)
(***************************************************************************)
EXTENDS Integers, Sequences, FiniteSets

CONSTANTS
    None,
    Clusters,    \* PrometheusClusters, numbered in namespace/name order
    Namespaces,
    NsOf,        \* the namespace of each cluster
    Sets,        \* names of PrometheusClusterSets
    Templates,   \* contents of spec.backup that only templates carry
    BadTemplates,\* the ones without a bucket or with a cron that does not parse
    Webhook,     \* the validating webhook judges PrometheusClusters
    ClusterSpecs,\* what users write into a cluster
    SetSpecs,    \* the specs a Set may have
    Found,       \* what the operator finds: a spec or None for each cluster and Set
    Phases,
    MaxBudget    \* bound: steps of interference

ASSUME NamesAssumption ==
    /\ Clusters \subseteq Nat /\ IsFiniteSet(Clusters) /\ NsOf \in [Clusters -> Namespaces]
    /\ Clusters \cap Sets = {} /\ Clusters \cap Namespaces = {} /\ Sets \cap Namespaces = {}
ASSUME BackupsAssumption ==
    /\ {"off", "own"} \cap Templates = {} /\ None \notin Templates \cup Sets
    /\ BadTemplates \subseteq Templates /\ Webhook \in BOOLEAN
ASSUME SpecsAssumption ==
    /\ ClusterSpecs \subseteq [labelled : BOOLEAN, optOut : BOOLEAN, backup : {"off", "own"},
                               admissible : BOOLEAN]
    /\ SetSpecs \subseteq [clusters : {"all", "labelled", "invalid"},
                           namespaces : {"all", "labelled", "invalid"},
                           template : Templates \cup {None}]
ASSUME FoundAssumption ==
    \A f \in Found : /\ \A c \in Clusters : f[c] \in ClusterSpecs \cup {None}
                     /\ \A s \in Sets : f[s] \in SetSpecs \cup {None}
ASSUME BoundAssumption == MaxBudget \in Nat

VARIABLES
    store,     \* the stored objects; None when absent
    cache,     \* the informers' copies
    stale,     \* copies whose resourceVersion is not the stored one
    queue,     \* Sets in the work queue
    wk,        \* the worker: the Set it reconciles and what it holds
    missed,    \* Sets that want a pass nothing has asked for
    budget

vars == <<store, cache, stale, queue, wk, missed, budget>>

Objects  == Clusters \cup Sets \cup Namespaces
WorkerOf(os) == {"worker"} \X os

Backups  == {"off", "own"} \cup Templates
\* off: enabled is false; own: the member enabled it itself.  admissible: what
\* its user wrote passes validate; objects older than the webhook may not.
Cluster  == [labelled : BOOLEAN, optOut : BOOLEAN, backup : Backups, admissible : BOOLEAN,
             managedBy : Sets \cup {None}, phase : Phases \cup {None}]

phaseCount(ms) ==
    [p \in Phases |-> Cardinality({i \in DOMAIN ms : ms[i].phase = p})]
StatusWith(ms) ==
    [memberCount |-> Len(ms), members |-> ms, phaseCount |-> phaseCount(ms)]

Listing(ms)    == {ms[i] : i \in DOMAIN ms}
ByName(a, b)   == a.cluster < b.cluster
\* Mistake: the order of the List is kept.
unsortedMembers(ms) == ms

\* sort.Slice: the i-th has i - 1 others ahead of it.  No two have one name.
sortMembers(ms) ==
    [i \in DOMAIN ms |-> CHOOSE m \in Listing(ms) :
                           Cardinality({n \in Listing(ms) : ByName(n, m)}) = i - 1]

Idle == [set |-> None, spec |-> None, held |-> <<>>, todo |-> {}, members |-> <<>>]

\* The clusters a spec selects among a version of the objects.
allowed(sp, objs, n) == sp.namespaces = "all" \/ objs[n]
Selected(sp, objs) ==
    {c \in Clusters : /\ objs[c] # None
                      /\ allowed(sp, objs, NsOf[c])
                      /\ sp.clusters = "all" \/ objs[c].labelled}

Valid(sp)  == "invalid" \notin {sp.clusters, sp.namespaces}
Present(objs) == {s \in Sets : objs[s] # None}

With(pc, sp) == [pc EXCEPT !.labelled = sp.labelled, !.optOut = sp.optOut,
                           !.backup = sp.backup, !.admissible = sp.admissible]
NewCluster(sp) == [labelled |-> sp.labelled, optOut |-> sp.optOut, backup |-> sp.backup,
                   admissible |-> sp.admissible, managedBy |-> None, phase |-> None]
NewSet(sp) == [spec |-> sp, status |-> StatusWith(<<>>)]

----------------------------------------------------------------------------
(* The operator starts over whatever users have created before.             *)
Init ==
    /\ \E f \in Found :
          store = [x \in Objects |-> IF x \in Namespaces THEN TRUE
                                     ELSE IF f[x] = None THEN None
                                     ELSE IF x \in Clusters THEN NewCluster(f[x])
                                     ELSE NewSet(f[x])]
    /\ cache = store /\ stale = WorkerOf(Objects)
    /\ queue = Present(store) /\ wk = Idle /\ missed = {}
    /\ budget = MaxBudget

\* An update that changes nothing is a no-op to the API server.
StaleAfter(x, new) ==
    IF new = store[x] THEN stale ELSE stale \cup ({"cache", "worker"} \X {x})

Store(x, new) ==
    /\ store' = [store EXCEPT ![x] = new]
    /\ stale' = StaleAfter(x, new)

Interfere == budget > 0 /\ budget' = budget - 1

----------------------------------------------------------------------------
(* Users, and the PrometheusCluster controller that writes phases.          *)

EditCluster(c) ==
    /\ \E sp \in ClusterSpecs :
          /\ Webhook => sp.admissible
          /\ Store(c, IF store[c] = None THEN NewCluster(sp) ELSE With(store[c], sp))
    /\ store' # store /\ Interfere
    /\ UNCHANGED <<cache, queue, wk, missed>>

PhaseWritten(c) ==
    /\ store[c] # None
    /\ \E p \in Phases : Store(c, [store[c] EXCEPT !.phase = p])
    /\ store' # store /\ Interfere
    /\ UNCHANGED <<cache, queue, wk, missed>>

EditSet(s) ==
    /\ \E sp \in SetSpecs :
          Store(s, IF store[s] = None THEN NewSet(sp) ELSE [store[s] EXCEPT !.spec = sp])
    /\ store' # store /\ Interfere
    /\ UNCHANGED <<cache, queue, wk, missed>>

Delete(x) ==
    /\ x \notin Namespaces /\ store[x] # None
    /\ Store(x, None)
    /\ Interfere
    /\ UNCHANGED <<cache, queue, wk, missed>>

Relabel(n) ==
    /\ Store(n, ~store[n])
    /\ Interfere
    /\ UNCHANGED <<cache, queue, wk, missed>>

----------------------------------------------------------------------------
(* The informers.  A Set's event enqueues it, a cluster's enqueues every    *)
(* Set the cache lists, a namespace has no handler.                         *)

\* Mistake: only Sets are watched.
enqueueNoSet == {}

enqueueAllSets == Present(cache)

Sync(x) ==
    /\ <<"cache", x>> \in stale
    /\ cache' = [cache EXCEPT ![x] = store[x]]
    /\ stale' = stale \ {<<"cache", x>>}
    /\ queue' = queue \cup (IF x \in Clusters THEN enqueueAllSets
                            ELSE IF x \in Sets THEN {x} ELSE {})
    /\ missed' = IF x \in Namespaces THEN Sets ELSE missed
    /\ UNCHANGED <<store, wk, budget>>

\* The informers replay what they hold, every ten hours by default: long after
\* what they delivered before has been dealt with.
Resync ==
    /\ wk = Idle /\ queue \subseteq {s \in Sets : cache[s] # None /\ ~Valid(cache[s].spec)}
    /\ queue' = queue \cup Present(cache)
    /\ UNCHANGED <<store, cache, stale, wk, missed, budget>>

----------------------------------------------------------------------------
(* Reconcile.                                                               *)

\* Not found: nothing to do.  A bad selector: an error, so another try.
GiveUp(s) ==
    /\ wk = Idle /\ s \in queue
    /\ \/ cache[s] = None /\ queue' = queue \ {s}
       \/ cache[s] # None /\ ~Valid(cache[s].spec) /\ UNCHANGED queue
    /\ UNCHANGED <<store, cache, stale, wk, missed, budget>>

Reconcile(s) ==
    /\ wk = Idle /\ s \in queue /\ cache[s] # None
    /\ LET sp == cache[s].spec IN
       /\ Valid(sp)
       /\ wk' = [set |-> s, spec |-> sp, todo |-> Selected(sp, cache), members |-> <<>>,
                 held |-> [c \in Selected(sp, cache) |-> cache[c]]]
    /\ stale' = stale \ WorkerOf({x \in Objects : <<"cache", x>> \notin stale})
    /\ queue' = queue \ {s} /\ missed' = missed \ {s}
    /\ UNCHANGED <<store, cache, budget>>

Member(c) ==
    wk' = [wk EXCEPT !.todo = @ \ {c},
                     !.members = Append(@, [cluster |-> c, phase |-> wk.held[c].phase])]

\* Mistakes: a Set without a template; members that are not up yet are left out.
wantsOverlayAlways(sp, pc) == ~pc.optOut /\ pc.backup = "off"
wantsOverlayActive(sp, pc) == wantsOverlayAlways(sp, pc) /\ sp.template # None /\ pc.phase # None

WantsOverlay(sp, pc) == sp.template # None /\ ~pc.optOut /\ pc.backup = "off"

\* ValidateUpdate runs validate over the whole of the overlaid object.
Refuses(sp, pc) == Webhook /\ (~pc.admissible \/ sp.template \in BadTemplates)

overlaid(pc) == [pc EXCEPT !.backup = wk.spec.template, !.managedBy = wk.set]

\* Mistake: Update without the optimistic lock.
overlayBackupBlind(c) ==
    /\ c \in wk.todo /\ WantsOverlay(wk.spec, wk.held[c])
    /\ Store(c, overlaid(wk.held[c]))
    /\ Member(c)
    /\ UNCHANGED <<cache, queue, missed, budget>>

\* Update goes through for a current copy that the webhook admits only, in every
\* pass anew; its error is logged and the loop goes on.
overlayBackup(c) ==
    /\ c \in wk.todo /\ WantsOverlay(wk.spec, wk.held[c])
    /\ \/ /\ <<"worker", c>> \notin stale /\ ~Refuses(wk.spec, wk.held[c])
          /\ Store(c, overlaid(wk.held[c]))
          /\ UNCHANGED <<missed, budget>>
       \/ /\ <<"worker", c>> \in stale \/ Refuses(wk.spec, wk.held[c])
          /\ UNCHANGED <<store, stale, missed, budget>>
       \/ /\ Interfere
          /\ missed' = missed \cup {wk.set}
          /\ UNCHANGED <<store, stale>>
    /\ Member(c)
    /\ UNCHANGED <<cache, queue>>

noOverlay(c) ==
    /\ c \in wk.todo /\ ~WantsOverlay(wk.spec, wk.held[c])
    /\ Member(c)
    /\ UNCHANGED <<store, cache, stale, queue, missed, budget>>

\* Status().Update: a conflict or another error brings the Set back, one whose
\* reply is lost does so although the status is written.
updateStatus ==
    /\ wk # Idle /\ wk.todo = {}
    /\ LET s       == wk.set
           new     == [store[s] EXCEPT !.status = StatusWith(sortMembers(wk.members))]
           current == <<"worker", s>> \notin stale
           written == /\ store' = [store EXCEPT ![s] = new]
                      /\ stale' = StaleAfter(s, new) \cup WorkerOf(Objects)
           refused == UNCHANGED store /\ stale' = stale \cup WorkerOf(Objects)
           again   == queue' = queue \cup {s}
       IN \/ current /\ written /\ UNCHANGED <<queue, budget>>
          \/ current /\ written /\ again /\ Interfere
          \/ ~current /\ refused /\ again /\ UNCHANGED budget
          \/ refused /\ again /\ Interfere
    /\ wk' = Idle
    /\ UNCHANGED <<cache, missed>>

\* The process restarts: the informers list, and every Set is enqueued.
Restart ==
    /\ Interfere
    /\ cache' = store /\ stale' = WorkerOf(Objects)
    /\ queue' = Present(store) /\ wk' = Idle
    /\ UNCHANGED <<store, missed>>

Next ==
    \/ \E c \in Clusters : EditCluster(c) \/ PhaseWritten(c) \/ overlayBackup(c) \/ noOverlay(c)
    \/ \E s \in Sets : EditSet(s) \/ GiveUp(s) \/ Reconcile(s)
    \/ \E n \in Namespaces : Relabel(n)
    \/ \E x \in Objects : Delete(x) \/ Sync(x)
    \/ Resync \/ updateStatus \/ Restart

\* Each key of the work queue is served in turn, informers deliver and resync,
\* and calls return; nothing is assumed of users, faults or restarts.
Fairness ==
    /\ \A s \in Sets : SF_vars(GiveUp(s) \/ Reconcile(s))
    /\ \A c \in Clusters : WF_vars(overlayBackup(c)) /\ WF_vars(noOverlay(c))
    /\ \A x \in Objects : WF_vars(Sync(x))
    /\ WF_vars(updateStatus) /\ WF_vars(Resync)

Spec == Init /\ [][Next]_vars /\ Fairness

----------------------------------------------------------------------------
(* Properties.                                                              *)

Statuses == {StatusWith(ms) : ms \in UNION {[1..n -> [cluster : Clusters,
               phase : Phases \cup {None}]] : n \in 0..Cardinality(Clusters)}}

\* Stored objects, copies and the worker's state are well formed: a Set without a
\* template never writes a backup spec, and every status is one a pass computes.
TypeOK ==
    /\ \A objs \in {store, cache} :
       /\ DOMAIN objs = Objects
       /\ \A c \in Clusters : objs[c] \in Cluster \cup {None}
       /\ \A s \in Sets : objs[s] # None => objs[s].spec \in SetSpecs /\ objs[s].status \in Statuses
       /\ \A n \in Namespaces : objs[n] \in BOOLEAN
    /\ stale \subseteq {"cache", "worker"} \X Objects
    /\ queue \subseteq Sets /\ missed \subseteq Sets /\ budget \in 0..MaxBudget
    /\ wk # Idle => /\ wk.set \in Sets /\ wk.spec \in SetSpecs
                    /\ wk.todo \subseteq DOMAIN wk.held /\ DOMAIN wk.held \subseteq Clusters

LaysOverOff == \A c \in Clusters :
    LET old == store[c]
        new == store'[c]
        laid == new # None /\ new.backup \in Templates /\ (old # None => old.backup # new.backup)
    IN laid => /\ old # None /\ old.backup = "off" /\ ~old.optOut
               /\ new = [old EXCEPT !.backup = new.backup, !.managedBy = wk.set]

\* A template reaches a cluster only over a stored spec whose backups are off and
\* which has not opted out at that moment, and nothing else a user or the
\* controller wrote meanwhile is lost: labels, opt-out and phase stay (rules 2 to
\* 4 of overlayBackup, decided on a cached copy).
MemberWins == [][LaysOverOff]_vars

Listed(s, objs) == Listing(objs[s].status.members)
WritesNews == \A s \in Sets :
    (store[s] # None /\ store'[s] # None /\ store[s].status # store'[s].status)
      => Listed(s, store) # Listed(s, store')

\* A Set's status is only rewritten when the members or a phase changed, so a Set
\* does not enqueue itself for ever through its own status (the order in which
\* the cache lists clusters is random; the sort makes the write a no-op).
NoIdleWrites == [][WritesNews]_vars

\* The members of a Set and the status it ought to have, in definitions that are
\* not the controller's.
Belongs(c, s) ==
    LET sp == store[s].spec
    IN /\ store[c] # None
       /\ sp.clusters = "labelled" => store[c].labelled
       /\ sp.namespaces = "labelled" => store[NsOf[c]]

Honest(s) ==
    LET st == store[s].status
        ms == {c \in Clusters : Belongs(c, s)}
    IN /\ st.memberCount = Cardinality(ms)
       /\ Listed(s, store) = {[cluster |-> c, phase |-> store[c].phase] : c \in ms}
       /\ \A i, j \in DOMAIN st.members : i < j => st.members[i].cluster < st.members[j].cluster
       /\ \A p \in Phases : st.phaseCount[p] = Cardinality({c \in ms : store[c].phase = p})

\* Nothing but the webhook may keep a template from a member that has neither
\* backups nor opted out: it refuses bad templates, and members it would refuse
\* anyway.
Covered(s) ==
    \A c \in Clusters :
       Belongs(c, s) /\ store[s].spec.template # None
          => \/ store[c].backup # "off" \/ store[c].optOut
             \/ Webhook /\ (store[s].spec.template \in BadTemplates \/ ~store[c].admissible)

\* Nothing is left to be done for s: no event to come, no pass asked for or going
\* on, and no swallowed error or relabelled namespace since its last pass.
AtRest(s) ==
    /\ s \notin queue \cup missed /\ wk.set # s
    /\ \A x \in Objects : <<"cache", x>> \notin stale
    /\ store[s] # None

\* A Set at rest reports exactly its members, in whatever order events, conflicts
\* and lost replies came.
StatusAtRest == \A s \in Sets : AtRest(s) => Honest(s)

\* A Set at rest has overlaid every member that is without backups, save those
\* the webhook will not have changed: a conflict that Reconcile only logs is made
\* good by the event that caused it, a refusal by the edit that removes its cause.
OverlaidAtRest == \A s \in Sets : AtRest(s) => Covered(s)

\* Once users and faults stop, every Set with valid selectors reports its members
\* and has overlaid for good all that the webhook lets it, the ones whose error
\* was swallowed and the ones moved by a namespace's label included, thanks to
\* the resync.
Converges ==
    <>[](\A s \in Sets : store[s] # None /\ Valid(store[s].spec) => Honest(s) /\ Covered(s))
=============================================================================
