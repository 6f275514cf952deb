--------------------------- MODULE ClusterSetProofs ---------------------------
(***************************************************************************)
(* Proofs about ClusterSet for any clusters, Sets and namespaces and any   *)
(* amount of interference: a template never overrides a member, a status   *)
(* is written only when it says something new, and a Set at rest reports   *)
(* its members and has overlaid them.                                      *)
(***************************************************************************)
EXTENDS ClusterSet, FiniteSetTheorems, TLAPS

\* The stored and the cached clusters are clusters.
ClustersTyped == \A objs \in {store, cache} :
    /\ objs = [x \in Objects |-> objs[x]]
    /\ \A c \in Clusters : objs[c] \in Cluster \cup {None}

\* The worker holds clusters, and a spec of a Set; what it has still to do is
\* among what it holds.
WorkerTyped == wk # Idle =>
    /\ wk = [set |-> wk.set, spec |-> wk.spec, held |-> wk.held, todo |-> wk.todo,
             members |-> wk.members]
    /\ wk.set \in Sets /\ wk.spec.template \in Templates \cup {None}
    /\ wk.todo \subseteq DOMAIN wk.held /\ DOMAIN wk.held \subseteq Clusters
    /\ \A c \in DOMAIN wk.held : wk.held[c] \in Cluster /\ wk.held[c] # None

\* Sets have a spec and a status.
ASet(o) == /\ o = [spec |-> o.spec, status |-> o.status]
           /\ o.spec.template \in Templates \cup {None}

SetsTyped == \A objs \in {store, cache}, s \in Sets : objs[s] = None \/ ASet(objs[s])

\* A copy that is not stale is the stored object, and an idle worker holds none.
CurrentCopies ==
    /\ \A x \in Objects : <<"cache", x>> \notin stale => cache[x] = store[x]
    /\ \A x \in Objects : wk = Idle => <<"worker", x>> \in stale
    /\ \A c \in Clusters : wk # Idle /\ c \in DOMAIN wk.held /\ <<"worker", c>> \notin stale
                             => wk.held[c] = store[c]
    /\ wk # Idle /\ <<"worker", wk.set>> \notin stale => store[wk.set] # None

IInv == ClustersTyped /\ SetsTyped /\ WorkerTyped /\ CurrentCopies

\* A Set with a new status or a new spec is a Set.
LEMMA SetUpdate ==
    ASSUME NEW o, ASet(o), NEW x
    PROVE  /\ ASet([o EXCEPT !.status = x])
           /\ x.template \in Templates \cup {None} => ASet([o EXCEPT !.spec = x])
  <1> DEFINE a == o.spec
             b == o.status
  <1>1. o = [spec |-> a, status |-> b] /\ a.template \in Templates \cup {None}
    BY DEF ASet
  <1> HIDE DEF a, b
  <1>2. /\ [o EXCEPT !.status = x] = [spec |-> a, status |-> x]
        /\ [o EXCEPT !.spec = x] = [spec |-> x, status |-> b]
    BY <1>1
  <1> QED BY <1>1, <1>2 DEF ASet

\* A cluster as a user creates or edits it.
LEMMA UserCluster ==
    ASSUME NEW sp \in ClusterSpecs, NEW pc \in Cluster
    PROVE  /\ NewCluster(sp) \in Cluster /\ With(pc, sp) \in Cluster
           /\ NewCluster(sp).backup \notin Templates /\ With(pc, sp).backup \notin Templates
  <1>1. sp \in [labelled : BOOLEAN, optOut : BOOLEAN, backup : {"off", "own"},
                admissible : BOOLEAN]
    BY SpecsAssumption
  <1> QED BY <1>1, BackupsAssumption DEF NewCluster, With, Cluster, Backups

\* A cluster with a new phase.
LEMMA PhasedCluster ==
    ASSUME NEW pc \in Cluster, NEW p \in Phases
    PROVE  [pc EXCEPT !.phase = p] \in Cluster /\ [pc EXCEPT !.phase = p].backup = pc.backup
  BY DEF Cluster

\* A cluster under a Set's template.
LEMMA OverlaidCluster ==
    ASSUME NEW pc \in Cluster, NEW t \in Templates, NEW s \in Sets
    PROVE  /\ [pc EXCEPT !.backup = t, !.managedBy = s] \in Cluster
           /\ [pc EXCEPT !.backup = t, !.managedBy = s].backup = t
  BY DEF Cluster, Backups

\* Names of the three sorts of object differ.
LEMMA Sorts ==
    /\ \A c \in Clusters : c \in Objects /\ c \notin Sets /\ c \notin Namespaces
    /\ \A s \in Sets : s \in Objects /\ s \notin Clusters /\ s \notin Namespaces /\ s # None
    /\ \A n \in Namespaces : n \in Objects /\ n \notin Clusters /\ n \notin Sets
  BY NamesAssumption, BackupsAssumption DEF Objects

\* Storing an object of its sort keeps the sorts.
LEMMA StoreTyped ==
    ASSUME ClustersTyped, SetsTyped, NEW x \in Objects, NEW new,
           store' = [store EXCEPT ![x] = new], UNCHANGED cache,
           x \in Clusters => new \in Cluster \cup {None},
           x \in Sets => new = None \/ ASet(new)
    PROVE  ClustersTyped' /\ SetsTyped'
  <1>1. store = [y \in Objects |-> store[y]] /\ cache = [y \in Objects |-> cache[y]]
    BY DEF ClustersTyped
  <1>2. /\ store' = [y \in Objects |-> store'[y]] /\ store'[x] = new
        /\ \A y \in Objects : y # x => store'[y] = store[y]
    BY <1>1
  <1>3. ClustersTyped'
    BY <1>1, <1>2, Sorts DEF ClustersTyped
  <1>4. SetsTyped'
    BY <1>2, Sorts DEF SetsTyped
  <1> QED BY <1>3, <1>4

\* A write makes the other copies of its object stale, so no copy passes for
\* current that is not.
LEMMA StoreCopies ==
    ASSUME ClustersTyped, CurrentCopies, NEW x \in Objects, NEW new, Store(x, new),
           UNCHANGED cache, wk' = Idle <=> wk = Idle, wk'.held = wk.held, wk'.set = wk.set,
           wk # Idle => wk.set \in Sets
    PROVE  CurrentCopies'
  <1>1. store = [y \in Objects |-> store[y]]
    BY DEF ClustersTyped
  <1>2. /\ store'[x] = new /\ \A y \in Objects : y # x => store'[y] = store[y]
    BY <1>1 DEF Store
  <1>3. CASE new = store[x]
    <2>1. stale' = stale /\ \A y \in Objects : store'[y] = store[y]
      BY <1>2, <1>3 DEF Store, StaleAfter
    <2> QED BY <2>1, Sorts DEF CurrentCopies
  <1>4. CASE new # store[x]
    <2>1. stale' = stale \cup ({"cache", "worker"} \X {x})
      BY <1>4 DEF Store, StaleAfter
    <2>2. /\ <<"cache", x>> \in stale' /\ <<"worker", x>> \in stale'
          /\ \A e \in stale : e \in stale'
      BY <2>1
    <2> QED BY <1>2, <2>2, Sorts DEF CurrentCopies
  <1> QED BY <1>3, <1>4

\* A user's or the other controller's write of a cluster.
LEMMA UserWrites ==
    ASSUME IInv, NEW c \in Clusters, EditCluster(c) \/ PhaseWritten(c)
    PROVE  \E new \in Cluster :
              /\ Store(c, new) /\ UNCHANGED <<cache, wk>>
              /\ new.backup \in Templates => store[c] # None /\ store[c].backup = new.backup
  <1>1. store[c] \in Cluster \cup {None}
    BY DEF IInv, ClustersTyped
  <1>2. CASE EditCluster(c)
    <2> PICK sp \in ClusterSpecs :
          Store(c, IF store[c] = None THEN NewCluster(sp) ELSE With(store[c], sp))
      BY <1>2 DEF EditCluster
    <2>1. CASE store[c] = None
      <3>1. NewCluster(sp) \in Cluster /\ NewCluster(sp).backup \notin Templates
        BY SpecsAssumption, BackupsAssumption DEF NewCluster, Cluster, Backups
      <3> QED BY <1>2, <2>1, <3>1 DEF EditCluster
    <2>2. CASE store[c] # None
      BY <1>1, <1>2, <2>2, UserCluster DEF EditCluster
    <2> QED BY <2>1, <2>2
  <1>3. CASE PhaseWritten(c)
    BY <1>1, <1>3, PhasedCluster DEF PhaseWritten
  <1> QED BY <1>2, <1>3

\* Taking a member off the list leaves the rest of what the worker holds.
LEMMA MemberKeeps ==
    ASSUME WorkerTyped, NEW c \in Clusters, c \in wk.todo, Member(c), wk # Idle
    PROVE  WorkerTyped' /\ wk' # Idle /\ wk'.held = wk.held /\ wk'.set = wk.set
  <1> DEFINE m == Append(wk.members, [cluster |-> c, phase |-> wk.held[c].phase])
  <1>1. wk' = [set |-> wk.set, spec |-> wk.spec, held |-> wk.held, todo |-> wk.todo \ {c},
               members |-> m]
    BY DEF Member, WorkerTyped
  <1> HIDE DEF m
  <1>2. wk' # Idle
    BY <1>1, BackupsAssumption DEF Idle, WorkerTyped
  <1> QED BY <1>1, <1>2 DEF WorkerTyped

\* overlayBackup writes nothing, or lays the template over the member as it is
\* stored at that moment.
LEMMA Overlays ==
    ASSUME IInv, NEW c \in Clusters, overlayBackup(c)
    PROVE  /\ wk # Idle /\ wk.set \in Sets /\ Member(c) /\ UNCHANGED cache
           /\ c \in wk.todo
           /\ \/ UNCHANGED <<store, stale>>
              \/ \E t \in Templates :
                   /\ store[c] \in Cluster /\ store[c] # None
                   /\ store[c].backup = "off" /\ ~store[c].optOut
                   /\ Store(c, [store[c] EXCEPT !.backup = t, !.managedBy = wk.set])
  <1>1. wk # Idle /\ c \in wk.todo
    BY DEF overlayBackup, Idle
  <1>2. /\ wk.set \in Sets /\ c \in DOMAIN wk.held /\ wk.held[c] \in Cluster
        /\ wk.held[c] # None
    BY <1>1 DEF IInv, WorkerTyped
  <1>3. CASE <<"worker", c>> \notin stale /\ Store(c, overlaid(wk.held[c]))
    <2>1. wk.held[c] = store[c]
      BY <1>1, <1>2, <1>3 DEF IInv, CurrentCopies
    <2>2. wk.spec.template \in Templates /\ store[c].backup = "off" /\ ~store[c].optOut
      BY <1>1, <2>1 DEF overlayBackup, WantsOverlay, IInv, WorkerTyped
    <2>3. Store(c, [store[c] EXCEPT !.backup = wk.spec.template, !.managedBy = wk.set])
      BY <1>3, <2>1 DEF overlaid
    <2> QED BY <1>1, <1>2, <2>1, <2>2, <2>3 DEF overlayBackup
  <1> QED BY <1>1, <1>2, <1>3 DEF overlayBackup

\* updateStatus writes a Set only, and lets go of everything.
LEMMA StatusWrites ==
    ASSUME IInv, updateStatus
    PROVE  /\ wk.set \in Sets /\ wk' = Idle /\ UNCHANGED cache
           /\ \A x \in Objects : <<"worker", x>> \in stale'
           /\ \/ store' = store /\ \A e \in stale : e \in stale'
              \/ \E st : LET new == [store[wk.set] EXCEPT !.status = st] IN
                   /\ <<"worker", wk.set>> \notin stale
                   /\ store' = [store EXCEPT ![wk.set] = new]
                   /\ stale' = StaleAfter(wk.set, new) \cup WorkerOf(Objects)
  <1>1. wk.set \in Sets /\ wk' = Idle /\ UNCHANGED cache
    BY DEF updateStatus, IInv, WorkerTyped
  <1>2. \A x \in Objects : <<"worker", x>> \in WorkerOf(Objects)
    BY DEF WorkerOf
  <1> QED BY <1>1, <1>2 DEF updateStatus

\* Every action keeps the copies in step with the objects.
LEMMA CopiesStep == IInv /\ Next => IInv'
  <1> SUFFICES ASSUME IInv, Next PROVE IInv'
    OBVIOUS
  <1> USE DEF IInv
  <1>a. ASSUME NEW x \in Objects, NEW new, Store(x, new), UNCHANGED <<cache, wk>>,
               x \in Clusters => new \in Cluster \cup {None},
               x \in Sets => new = None \/ ASet(new)
        PROVE  IInv'
    <2>1. ClustersTyped' /\ SetsTyped'
      BY <1>a, StoreTyped DEF Store
    <2>2. CurrentCopies'
      BY <1>a, StoreCopies DEF WorkerTyped
    <2> QED BY <1>a, <2>1, <2>2 DEF WorkerTyped
  <1>1. CASE \E c \in Clusters : EditCluster(c) \/ PhaseWritten(c)
    BY <1>a, <1>1, UserWrites, Sorts
  <1>2. CASE \E s \in Sets : EditSet(s)
    <2> PICK s \in Sets : EditSet(s) BY <1>2
    <2> PICK sp \in SetSpecs :
          Store(s, IF store[s] = None THEN NewSet(sp) ELSE [store[s] EXCEPT !.spec = sp])
      BY DEF EditSet
    <2>1. sp.template \in Templates \cup {None}
      BY SpecsAssumption
    <2>2. UNCHANGED <<cache, wk>>
      BY DEF EditSet
    <2>3. ASet(NewSet(sp))
      BY <2>1 DEF NewSet, ASet
    <2>4. store[s] # None => ASet([store[s] EXCEPT !.spec = sp])
      BY <2>1, SetUpdate DEF SetsTyped
    <2> QED BY <1>a, <2>2, <2>3, <2>4, Sorts
  <1>3. CASE \E x \in Objects : Delete(x)
    BY <1>a, <1>3 DEF Delete
  <1>4. CASE \E n \in Namespaces : Relabel(n)
    BY <1>a, <1>4, Sorts DEF Relabel
  <1>5. CASE \E x \in Objects : Sync(x)
    <2> PICK x \in Objects : Sync(x) BY <1>5
    <2>0. cache = [y \in Objects |-> cache[y]] /\ store = [y \in Objects |-> store[y]]
      BY DEF ClustersTyped
    <2>1. /\ cache' = [y \in Objects |-> cache'[y]] /\ cache'[x] = store[x]
          /\ \A y \in Objects : y # x => cache'[y] = cache[y]
          /\ stale' = stale \ {<<"cache", x>>} /\ UNCHANGED <<store, wk>>
      BY <2>0 DEF Sync
    <2>2. ClustersTyped'
      BY <2>0, <2>1, Sorts DEF ClustersTyped
    <2>3. SetsTyped'
      BY <2>1, Sorts DEF SetsTyped
    <2>4. CurrentCopies'
      BY <2>1, Sorts DEF CurrentCopies
    <2> QED BY <2>1, <2>2, <2>3, <2>4 DEF WorkerTyped
  <1>6. CASE UNCHANGED <<store, cache, stale, wk>>
    BY <1>6 DEF ClustersTyped, SetsTyped, WorkerTyped, CurrentCopies
  <1>7. CASE \E s \in Sets : Reconcile(s)
    <2> PICK s \in Sets : Reconcile(s) BY <1>7
    <2> DEFINE sel == Selected(cache[s].spec, cache)
               hd  == [c \in sel |-> cache[c]]
    <2>1. /\ wk = Idle /\ cache[s] # None /\ UNCHANGED <<store, cache>>
          /\ wk' = [set |-> s, spec |-> cache[s].spec, todo |-> sel, members |-> <<>>,
                    held |-> hd]
          /\ stale' = stale \ WorkerOf({x \in Objects : <<"cache", x>> \notin stale})
      BY DEF Reconcile
    <2>2. sel \subseteq Clusters /\ \A c \in sel : cache[c] \in Cluster /\ cache[c] # None
      BY DEF Selected, ClustersTyped
    <2>3. DOMAIN hd = sel /\ \A c \in sel : hd[c] = cache[c]
      OBVIOUS
    <2> HIDE DEF sel, hd
    <2>4. /\ wk'.set = s /\ wk'.spec = cache[s].spec /\ wk'.todo = sel /\ wk'.held = hd
          /\ wk' = [set |-> wk'.set, spec |-> wk'.spec, held |-> wk'.held, todo |-> wk'.todo,
                    members |-> wk'.members]
      BY <2>1
    <2>5. wk' # Idle
      BY <2>4, Sorts DEF Idle
    <2>6. WorkerTyped'
      BY <2>1, <2>2, <2>3, <2>4 DEF WorkerTyped, SetsTyped, ASet
    <2>7. \A c \in Objects : <<"worker", c>> \notin stale' => <<"cache", c>> \notin stale
      BY <2>1 DEF CurrentCopies, WorkerOf
    <2>8. \A c \in Objects : <<"cache", c>> \notin stale' => <<"cache", c>> \notin stale
      BY <2>1 DEF WorkerOf
    <2>9. CurrentCopies'
      BY <2>1, <2>2, <2>3, <2>4, <2>5, <2>7, <2>8, Sorts DEF CurrentCopies
    <2> QED BY <2>1, <2>6, <2>9 DEF ClustersTyped, SetsTyped
  <1>8. CASE \E c \in Clusters : overlayBackup(c)
    <2> PICK c \in Clusters : overlayBackup(c) BY <1>8
    <2>1. /\ WorkerTyped' /\ wk' # Idle /\ wk # Idle /\ wk'.held = wk.held
          /\ wk'.set = wk.set /\ wk.set \in Sets
      BY Overlays, MemberKeeps
    <2>2. CASE UNCHANGED <<store, stale>>
      BY <2>1, <2>2, Overlays DEF ClustersTyped, SetsTyped, CurrentCopies
    <2>3. CASE ~UNCHANGED <<store, stale>>
      <3>1. PICK t \in Templates :
              /\ store[c] \in Cluster
              /\ Store(c, [store[c] EXCEPT !.backup = t, !.managedBy = wk.set])
        BY <2>3, Overlays
      <3>2. [store[c] EXCEPT !.backup = t, !.managedBy = wk.set] \in Cluster
        BY <3>1, Overlays, OverlaidCluster
      <3>3. CurrentCopies'
        BY <2>1, <3>1, StoreCopies, Sorts, Overlays
      <3>4. ClustersTyped' /\ SetsTyped'
        BY <3>1, <3>2, StoreTyped, Sorts, Overlays DEF Store
      <3> QED BY <2>1, <3>3, <3>4
    <2> QED BY <2>2, <2>3
  <1>9. CASE \E c \in Clusters : noOverlay(c)
    <2> PICK c \in Clusters : noOverlay(c) BY <1>9
    <2>1. wk # Idle /\ c \in wk.todo /\ Member(c) /\ UNCHANGED <<store, cache, stale>>
      BY DEF noOverlay, Idle
    <2>2. WorkerTyped' /\ wk' # Idle /\ wk'.held = wk.held /\ wk'.set = wk.set
      BY <2>1, MemberKeeps
    <2> QED BY <2>1, <2>2 DEF ClustersTyped, SetsTyped, CurrentCopies
  <1>10. CASE updateStatus
    <2>1. WorkerTyped' /\ wk' = Idle
      BY <1>10, StatusWrites DEF WorkerTyped
    <2>2. CASE store' = store /\ \A e \in stale : e \in stale'
      BY <1>10, <2>1, <2>2, StatusWrites DEF ClustersTyped, SetsTyped, CurrentCopies
    <2>3. CASE ~(store' = store /\ \A e \in stale : e \in stale')
      <3>1. PICK st : LET new == [store[wk.set] EXCEPT !.status = st] IN
                      /\ <<"worker", wk.set>> \notin stale
                      /\ store' = [store EXCEPT ![wk.set] = new]
                      /\ stale' = StaleAfter(wk.set, new) \cup WorkerOf(Objects)
        BY <1>10, <2>3, StatusWrites
      <3> DEFINE new == [store[wk.set] EXCEPT !.status = st]
      <3>2. /\ wk.set \in Sets /\ wk.set \in Objects /\ wk.set \notin Clusters
            /\ UNCHANGED cache /\ wk # Idle
        BY <1>10, StatusWrites, Sorts DEF updateStatus
      <3>3. store[wk.set] # None
        BY <3>1, <3>2 DEF CurrentCopies
      <3>4. ASet(new)
        BY <3>2, <3>3, SetUpdate DEF SetsTyped
      <3>5. store' = [store EXCEPT ![wk.set] = new]
            /\ stale' = StaleAfter(wk.set, new) \cup WorkerOf(Objects)
        BY <3>1
      <3> HIDE DEF new
      <3>6. ClustersTyped' /\ SetsTyped'
        BY <3>2, <3>4, <3>5, StoreTyped
      <3>7. \A x \in Objects : <<"cache", x>> \notin stale' =>
               <<"cache", x>> \notin stale /\ (x = wk.set => new = store[x])
        BY <3>5 DEF StaleAfter
      <3>8. /\ store'[wk.set] = new
            /\ \A x \in Objects : x # wk.set => store'[x] = store[x]
        BY <3>2, <3>5 DEF ClustersTyped
      <3>9. CurrentCopies'
        BY <1>10, <2>1, <3>2, <3>7, <3>8, StatusWrites DEF CurrentCopies
      <3> QED BY <2>1, <3>6, <3>9
    <2> QED BY <2>2, <2>3
  <1>11. CASE Restart
    <2>1. /\ UNCHANGED store /\ cache' = store /\ wk' = Idle
          /\ stale' = WorkerOf(Objects)
      BY <1>11 DEF Restart
    <2>2. \A x \in Objects : <<"worker", x>> \in stale'
      BY <2>1 DEF WorkerOf
    <2> QED BY <2>1, <2>2 DEF ClustersTyped, SetsTyped, WorkerTyped, CurrentCopies
  <1>12. CASE Resync \/ \E s \in Sets : GiveUp(s)
    BY <1>6, <1>12 DEF Resync, GiveUp
  <1> QED BY <1>1, <1>2, <1>3, <1>4, <1>5, <1>7, <1>8, <1>9, <1>10, <1>11, <1>12 DEF Next

\* The inductive invariant holds in every reachable state.
LEMMA Inductive == Spec => []IInv
  <1>1. Init => IInv
    <2> SUFFICES ASSUME Init PROVE IInv
      OBVIOUS
    <2>1. PICK f \in Found :
            store = [x \in Objects |-> IF x \in Namespaces THEN TRUE
                                      ELSE IF f[x] = None THEN None
                                      ELSE IF x \in Clusters THEN NewCluster(f[x])
                                      ELSE NewSet(f[x])]
      BY DEF Init
    <2>2. \A c \in Clusters : store[c] = None \/ \E sp \in ClusterSpecs : store[c] = NewCluster(sp)
      BY <2>1, FoundAssumption, Sorts
    <2>3. \A sp \in ClusterSpecs : NewCluster(sp) \in Cluster
      BY SpecsAssumption DEF NewCluster, Cluster, Backups
    <2>4. \A s \in Sets : store[s] = None \/ \E sp \in SetSpecs : store[s] = NewSet(sp)
      BY <2>1, FoundAssumption, Sorts
    <2>5. \A sp \in SetSpecs : ASet(NewSet(sp))
      BY SpecsAssumption DEF NewSet, ASet
    <2>6. ClustersTyped
      <3>1. store = [x \in Objects |-> store[x]] /\ cache = store
        BY <2>1 DEF Init
      <3> QED BY <2>2, <2>3, <3>1 DEF ClustersTyped
    <2>7. SetsTyped
      BY <2>4, <2>5 DEF Init, SetsTyped
    <2>8. \A x \in Objects : <<"worker", x>> \in stale
      BY DEF Init, WorkerOf
    <2>9. WorkerTyped /\ CurrentCopies
      BY <2>8 DEF Init, WorkerTyped, CurrentCopies
    <2> QED BY <2>6, <2>7, <2>9 DEF IInv
  <1>2. IInv /\ [Next]_vars => IInv'
    <2>1. CASE UNCHANGED vars
      BY <2>1 DEF vars, IInv, ClustersTyped, SetsTyped, WorkerTyped, CurrentCopies
    <2> QED BY <2>1, CopiesStep
  <1> QED BY <1>1, <1>2, PTL DEF Spec

\* A backup template never overrides a member: it is laid over a stored spec
\* that has backups off and has not opted out, and nothing else of that spec is
\* lost, although overlayBackup decides on a copy from the cache and two Sets may
\* want the same member.
THEOREM TemplatesNeverOverride == Spec => MemberWins
  <1>1. IInv /\ [Next]_vars => [LaysOverOff]_vars
    <2> SUFFICES ASSUME IInv, Next PROVE LaysOverOff
      BY DEF vars
    <2>0. store = [x \in Objects |-> store[x]] /\ \A c \in Clusters : c \in Objects
      BY Sorts DEF IInv, ClustersTyped
    <2>a. ASSUME NEW x \in Objects, NEW new, store' = [store EXCEPT ![x] = new],
                 x \in Clusters => new = None \/ new.backup \notin Templates
                                    \/ (store[x] # None /\ store[x].backup = new.backup)
          PROVE  LaysOverOff
      BY <2>0, <2>a DEF LaysOverOff
    <2>1. CASE \E c \in Clusters : EditCluster(c) \/ PhaseWritten(c)
      BY <2>0, <2>a, <2>1, UserWrites DEF Store
    <2>2. CASE \E s \in Sets : EditSet(s)
      BY <2>a, <2>2, Sorts DEF EditSet, Store
    <2>3. CASE \E x \in Objects : Delete(x)
      BY <2>a, <2>3 DEF Delete, Store
    <2>4. CASE \E n \in Namespaces : Relabel(n)
      BY <2>a, <2>4, Sorts DEF Relabel, Store
    <2>5. CASE UNCHANGED store
      BY <2>5 DEF LaysOverOff
    <2>6. CASE \E c \in Clusters : overlayBackup(c)
      <3> PICK c \in Clusters : overlayBackup(c) BY <2>6
      <3>1. CASE UNCHANGED store
        BY <2>5, <3>1
      <3>2. CASE ~UNCHANGED store
        <4>1. PICK t \in Templates :
                /\ store[c] \in Cluster /\ store[c] # None
                /\ store[c].backup = "off" /\ ~store[c].optOut
                /\ Store(c, [store[c] EXCEPT !.backup = t, !.managedBy = wk.set])
          BY <3>2, Overlays
        <4> DEFINE new == [store[c] EXCEPT !.backup = t, !.managedBy = wk.set]
        <4>2. new.backup = t
          BY <4>1, Overlays, OverlaidCluster
        <4>3. store'[c] = new /\ \A d \in Clusters : d # c => store'[d] = store[d]
          BY <2>0, <4>1 DEF Store
        <4> QED BY <4>1, <4>2, <4>3 DEF LaysOverOff
      <3> QED BY <3>1, <3>2
    <2>7. CASE updateStatus
      <3>1. CASE UNCHANGED store
        BY <2>5, <3>1
      <3>2. CASE ~UNCHANGED store
        BY <2>7, <3>2, <2>a, StatusWrites, Sorts
      <3> QED BY <3>1, <3>2
    <2>8. CASE \/ Resync \/ Restart \/ (\E x \in Objects : Sync(x))
               \/ (\E s \in Sets : GiveUp(s) \/ Reconcile(s))
               \/ (\E c \in Clusters : noOverlay(c))
      BY <2>5, <2>8 DEF Resync, Restart, Sync, GiveUp, Reconcile, noOverlay
    <2> QED BY <2>1, <2>2, <2>3, <2>4, <2>6, <2>7, <2>8 DEF Next
  <1> QED BY <1>1, Inductive, PTL DEF Spec, MemberWins

----------------------------------------------------------------------------
(* What a pass leaves behind.  A Set that nobody has asked a pass for is    *)
(* one whose last pass has seen what the caches hold.                       *)

MemberRec == [cluster : Clusters, phase : Phases \cup {None}]

\* No cluster twice, and the phases of a version of the clusters.
Lists(ms, cs, objs) ==
    /\ ms \in Seq(MemberRec)
    /\ \A i, j \in DOMAIN ms : ms[i].cluster = ms[j].cluster => i = j
    /\ {ms[i].cluster : i \in DOMAIN ms} = cs
    /\ \A i \in DOMAIN ms : ms[i].phase = objs[ms[i].cluster].phase

Increasing(ms) == \A i, j \in DOMAIN ms : i < j => ms[i].cluster < ms[j].cluster

\* A status that a pass computed, or the one a Set is created with.
Computed(st) ==
    /\ st = StatusWith(st.members)
    /\ st.members \in Seq(MemberRec) /\ Increasing(st.members)

Statused == \A objs \in {store, cache}, s \in Sets :
    objs[s] # None => objs[s].spec \in SetSpecs /\ Computed(objs[s].status)

WorkerLists == wk # Idle =>
    wk.spec \in SetSpecs /\ Lists(wk.members, DOMAIN wk.held \ wk.todo, wk.held)

\* An overlay that nothing but an error or someone else's write can prevent.
Wanting(sp, pc) == WantsOverlay(sp, pc) /\ ~Refuses(sp, pc)

\* The pass of s under way has read what the caches still hold, and every
\* overlay that it tried and the webhook admits has changed the member, or was
\* refused because someone else had: either way an event is to come.
UnderWay(s) ==
    /\ wk.spec = cache[s].spec /\ Valid(wk.spec)
    /\ DOMAIN wk.held = Selected(wk.spec, cache)
    /\ \A c \in DOMAIN wk.held :
         /\ wk.held[c] = cache[c]
         /\ c \in wk.todo => (<<"worker", c>> \in stale => <<"cache", c>> \in stale)
         /\ c \notin wk.todo /\ Wanting(wk.spec, wk.held[c]) => <<"cache", c>> \in stale

\* The same after the pass, and the status reports what it read unless an event
\* for the Set itself is to come.
Passed(s) ==
    LET members == Selected(cache[s].spec, cache) IN
    /\ Valid(cache[s].spec)
    /\ \A c \in members : Wanting(cache[s].spec, cache[c]) => <<"cache", c>> \in stale
    /\ <<"cache", s>> \notin stale => Lists(store[s].status.members, members, cache)

Unasked(s) == s \notin queue \cup missed /\ cache[s] # None

PassesSeen == \A s \in Sets : Unasked(s) => IF wk.set = s THEN UnderWay(s) ELSE Passed(s)

SeenInv == Statused /\ WorkerLists /\ PassesSeen

----------------------------------------------------------------------------
(* Counting and sorting.                                                    *)

\* As many as the positions they are at.
LEMMA CountByPlace ==
    ASSUME NEW P, IsFiniteSet(P), NEW S, NEW f \in [P -> S],
           \A i, j \in P : f[i] = f[j] => i = j,
           \A x \in S : \E i \in P : f[i] = x
    PROVE  IsFiniteSet(S) /\ Cardinality(S) = Cardinality(P)
  <1>1. f \in Bijection(P, S)
    BY Zenon DEF Bijection, Injection, IsInjective, Surjection
  <1> QED BY <1>1, FS_Bijection DEF ExistsBijection

\* A list without duplicates is as long as what it lists.
LEMMA ListLength ==
    ASSUME NEW ms \in Seq(MemberRec),
           \A i, j \in DOMAIN ms : ms[i].cluster = ms[j].cluster => i = j
    PROVE  /\ IsFiniteSet(Listing(ms)) /\ Cardinality(Listing(ms)) = Len(ms)
           /\ Listing(ms) \subseteq MemberRec
           /\ \A m, n \in Listing(ms) : m.cluster = n.cluster => m = n
  <1> DEFINE f == [i \in 1..Len(ms) |-> ms[i]]
  <1>1. Len(ms) \in Nat /\ DOMAIN ms = 1..Len(ms) /\ \A i \in 1..Len(ms) : ms[i] \in MemberRec
    OBVIOUS
  <1>2. /\ f \in [1..Len(ms) -> Listing(ms)]
        /\ \A x \in Listing(ms) : \E i \in 1..Len(ms) : f[i] = x
        /\ \A i, j \in 1..Len(ms) : f[i] = f[j] => i = j
    BY <1>1 DEF Listing
  <1>3. IsFiniteSet(1..Len(ms)) /\ Cardinality(1..Len(ms)) = Len(ms)
    BY <1>1, FS_Interval
  <1> HIDE DEF f
  <1>4. IsFiniteSet(Listing(ms)) /\ Cardinality(Listing(ms)) = Len(ms)
    BY <1>2, <1>3, CountByPlace
  <1> QED BY <1>1, <1>4 DEF Listing

Ahead(L, m) == {n \in L : ByName(n, m)}
Rank(L, m)  == Cardinality(Ahead(L, m))

\* The number of members ahead tells members apart and orders them by name.
LEMMA Ranks ==
    ASSUME NEW L \in SUBSET MemberRec, IsFiniteSet(L)
    PROVE  /\ \A m \in L : Rank(L, m) \in Nat /\ Rank(L, m) < Cardinality(L)
           /\ \A m, n \in L : m.cluster < n.cluster => Rank(L, m) < Rank(L, n)
  <1>0. \A m \in L : m.cluster \in Nat
    BY NamesAssumption DEF MemberRec
  <1>1. ASSUME NEW m \in L
        PROVE  /\ IsFiniteSet(Ahead(L, m)) /\ Rank(L, m) \in Nat
               /\ Rank(L, m) < Cardinality(L)
    <2>1. Ahead(L, m) \in SUBSET L /\ m \notin Ahead(L, m)
      BY <1>0 DEF Ahead, ByName
    <2>2. IsFiniteSet(Ahead(L, m)) /\ Rank(L, m) <= Cardinality(L) /\ Rank(L, m) # Cardinality(L)
      BY <2>1, FS_Subset DEF Rank
    <2> QED BY <2>2, FS_CardinalityType DEF Rank
  <1>2. ASSUME NEW m \in L, NEW n \in L, m.cluster < n.cluster
        PROVE  Rank(L, m) < Rank(L, n)
    <2>1. Ahead(L, m) \in SUBSET Ahead(L, n) /\ m \in Ahead(L, n) /\ m \notin Ahead(L, m)
      BY <1>0, <1>2 DEF Ahead, ByName
    <2>2. Rank(L, m) <= Rank(L, n) /\ Rank(L, m) # Rank(L, n)
      BY <1>1, <2>1, FS_Subset DEF Rank
    <2> QED BY <1>1, <2>2
  <1> QED BY <1>1, <1>2

\* sortMembers returns the same members in increasing order.
LEMMA Sorting ==
    ASSUME NEW ms \in Seq(MemberRec),
           \A i, j \in DOMAIN ms : ms[i].cluster = ms[j].cluster => i = j
    PROVE  LET sorted == sortMembers(ms) IN
           /\ sorted \in Seq(MemberRec) /\ Increasing(sorted)
           /\ Listing(sorted) = Listing(ms)
  <1> DEFINE L      == Listing(ms)
             N      == Len(ms)
             sorted == sortMembers(ms)
             rk     == [m \in L |-> Rank(L, m)]
  <1>1. N \in Nat /\ DOMAIN ms = 1..N
    OBVIOUS
  <1>2. /\ IsFiniteSet(L) /\ Cardinality(L) = N /\ L \subseteq MemberRec
        /\ \A m, n \in L : m.cluster = n.cluster => m = n
    BY ListLength
  <1>3. sorted = [i \in 1..N |-> CHOOSE m \in L : Rank(L, m) = i - 1]
    BY <1>1 DEF sortMembers, Rank, Ahead
  <1> HIDE DEF L, N, sorted
  <1>4. /\ \A m \in L : Rank(L, m) \in 0..(N - 1) /\ m.cluster \in Nat
        /\ \A m, n \in L : m.cluster < n.cluster => Rank(L, m) < Rank(L, n)
    <2>1. \A m \in L : Rank(L, m) \in Nat /\ Rank(L, m) < N
      BY <1>2, Ranks
    <2>2. \A m \in L : Rank(L, m) \in 0..(N - 1)
      BY <1>1, <2>1
    <2>3. \A m \in L : m.cluster \in Nat
      BY <1>2, NamesAssumption DEF MemberRec
    <2> QED BY <1>2, <2>2, <2>3, Ranks
  <1>5. \A m, n \in L : Rank(L, m) = Rank(L, n) => m = n
    <2> SUFFICES ASSUME NEW m \in L, NEW n \in L, Rank(L, m) = Rank(L, n) PROVE m = n
      OBVIOUS
    <2>1. ~(m.cluster < n.cluster) /\ ~(n.cluster < m.cluster)
      BY <1>4
    <2>2. m.cluster = n.cluster
      BY <1>4, <2>1
    <2> QED BY <1>2, <2>2
  <1>6. \A i \in 1..N : \E m \in L : Rank(L, m) = i - 1
    <2>1. rk \in [L -> 0..(N - 1)] /\ \A m \in L : rk[m] = Rank(L, m)
      BY <1>4
    <2>2. rk \in Injection(L, 0..(N - 1))
      BY <1>5, <2>1 DEF Injection, IsInjective
    <2>3. IsFiniteSet(0..(N - 1)) /\ Cardinality(0..(N - 1)) = N
      <3>1. 0 \in Int /\ N - 1 \in Int
        BY <1>1
      <3>2. IsFiniteSet(0..(N - 1))
            /\ Cardinality(0..(N - 1)) = IF 0 > N - 1 THEN 0 ELSE (N - 1) - 0 + 1
        BY <3>1, FS_Interval
      <3> QED BY <1>1, <3>2
    <2>4. rk \in Surjection(L, 0..(N - 1))
      BY <1>2, <2>2, <2>3, FS_Injection
    <2>5. \A k \in 0..(N - 1) : \E m \in L : Rank(L, m) = k
      BY <2>1, <2>4 DEF Surjection
    <2>6. \A i \in 1..N : i - 1 \in 0..(N - 1)
      BY <1>1
    <2> QED BY <2>5, <2>6
  <1>7. \A i \in 1..N : sorted[i] \in L /\ Rank(L, sorted[i]) = i - 1
    BY <1>3, <1>6
  <1>8. sorted \in Seq(MemberRec) /\ DOMAIN sorted = 1..N
    BY <1>1, <1>2, <1>3, <1>7
  <1>9. Increasing(sorted)
    <2> SUFFICES ASSUME NEW i \in 1..N, NEW j \in 1..N, i < j
                 PROVE  sorted[i].cluster < sorted[j].cluster
      BY <1>8 DEF Increasing
    <2>1. Rank(L, sorted[i]) < Rank(L, sorted[j])
      BY <1>7
    <2>2. ~(sorted[j].cluster < sorted[i].cluster)
      BY <1>4, <1>7, <2>1
    <2>3. sorted[i].cluster # sorted[j].cluster
      BY <1>2, <1>7, <2>1
    <2> QED BY <1>4, <1>7, <2>2, <2>3
  <1>10. Listing(sorted) = L
    <2>1. \A m \in L : Rank(L, m) + 1 \in 1..N /\ sorted[Rank(L, m) + 1] = m
      BY <1>1, <1>4, <1>5, <1>7
    <2> QED BY <1>7, <1>8, <2>1 DEF Listing
  <1> QED BY <1>8, <1>9, <1>10 DEF L, sorted

----------------------------------------------------------------------------
(* Statuses and the worker's list.                                          *)

\* updateStatus writes the sorted list over a current copy, or brings the Set
\* back.
LEMMA StatusOutcome ==
    ASSUME IInv, updateStatus
    PROVE  /\ wk # Idle /\ wk.set \in Sets /\ wk.todo = {} /\ wk' = Idle
           /\ UNCHANGED <<cache, missed>> /\ queue \subseteq queue'
           /\ \/ /\ store' = store /\ wk.set \in queue'
                 /\ stale' = stale \cup WorkerOf(Objects)
              \/ LET new == [store[wk.set] EXCEPT !.status = StatusWith(sortMembers(wk.members))]
                 IN /\ store[wk.set] # None
                    /\ store' = [store EXCEPT ![wk.set] = new]
                    /\ stale' = StaleAfter(wk.set, new) \cup WorkerOf(Objects)
  <1>1. wk # Idle /\ wk.set \in Sets /\ wk.todo = {} /\ wk' = Idle /\ UNCHANGED <<cache, missed>>
    BY DEF updateStatus, IInv, WorkerTyped
  <1>2. <<"worker", wk.set>> \notin stale => store[wk.set] # None
    BY <1>1 DEF IInv, CurrentCopies
  <1> QED BY <1>1, <1>2 DEF updateStatus

\* Listing one more cluster.
LEMMA ListsAppend ==
    ASSUME NEW ms, NEW cs, NEW objs, Lists(ms, cs, objs), NEW c \in Clusters, c \notin cs,
           objs[c].phase \in Phases \cup {None}
    PROVE  Lists(Append(ms, [cluster |-> c, phase |-> objs[c].phase]), cs \cup {c}, objs)
  <1> DEFINE r  == [cluster |-> c, phase |-> objs[c].phase]
             ns == Append(ms, r)
             N  == Len(ms)
  <1>1. /\ ms \in Seq(MemberRec) /\ N \in Nat /\ DOMAIN ms = 1..N
        /\ {ms[i].cluster : i \in 1..N} = cs
        /\ \A i, j \in 1..N : ms[i].cluster = ms[j].cluster => i = j
        /\ \A i \in 1..N : ms[i].phase = objs[ms[i].cluster].phase
    BY DEF Lists
  <1>2. r \in MemberRec /\ r.cluster = c /\ r.phase = objs[c].phase
    BY DEF MemberRec
  <1> HIDE DEF r
  <1>3. /\ ns \in Seq(MemberRec) /\ DOMAIN ns = 1..(N + 1) /\ ns[N + 1] = r
        /\ \A i \in 1..N : ns[i] = ms[i]
    BY <1>1, <1>2
  <1> HIDE DEF ns, N
  <1>4. \A i \in 1..(N + 1) : i \in 1..N \/ i = N + 1
    BY <1>1
  <1>5. \A i \in 1..N : ns[i].cluster \in cs /\ i \in 1..(N + 1)
    BY <1>1, <1>3
  <1>6. N + 1 \in 1..(N + 1)
    BY <1>1
  <1>7. \A i, j \in 1..(N + 1) : ns[i].cluster = ns[j].cluster => i = j
    BY <1>1, <1>2, <1>3, <1>4, <1>5
  <1>8. {ns[i].cluster : i \in 1..(N + 1)} = cs \cup {c}
    BY <1>1, <1>2, <1>3, <1>4, <1>5, <1>6
  <1>9. \A i \in 1..(N + 1) : ns[i].phase = objs[ns[i].cluster].phase
    BY <1>1, <1>2, <1>3, <1>4
  <1> QED BY <1>3, <1>7, <1>8, <1>9 DEF Lists, ns, r

\* A list sorted is a list of the same.
LEMMA ListsSorted ==
    ASSUME NEW ms, NEW cs, NEW objs, Lists(ms, cs, objs)
    PROVE  LET sorted == sortMembers(ms) IN
           Lists(sorted, cs, objs) /\ Computed(StatusWith(sorted))
  <1> DEFINE sorted == sortMembers(ms)
  <1>1. /\ sorted \in Seq(MemberRec) /\ Increasing(sorted) /\ Listing(sorted) = Listing(ms)
    BY Sorting DEF Lists
  <1> HIDE DEF sorted
  <1>2. DOMAIN sorted = 1..Len(sorted) /\ \A i \in DOMAIN sorted : sorted[i].cluster \in Nat
    <2>1. DOMAIN sorted = 1..Len(sorted) /\ \A i \in DOMAIN sorted : sorted[i] \in MemberRec
      BY <1>1
    <2> QED BY <2>1, NamesAssumption DEF MemberRec
  <1>3. \A i, j \in DOMAIN sorted : sorted[i].cluster = sorted[j].cluster => i = j
    BY <1>1, <1>2 DEF Increasing
  <1>4. /\ \A i \in DOMAIN sorted : \E j \in DOMAIN ms : sorted[i] = ms[j]
        /\ \A j \in DOMAIN ms : \E i \in DOMAIN sorted : sorted[i] = ms[j]
    BY <1>1 DEF Listing
  <1>5. Lists(sorted, cs, objs)
    BY <1>1, <1>3, <1>4 DEF Lists
  <1>6. StatusWith(sorted).members = sorted
    BY DEF StatusWith
  <1>7. Computed(StatusWith(sorted))
    BY <1>1, <1>6 DEF Computed
  <1> QED BY <1>5, <1>7 DEF sorted

\* A Set as a pass and its users leave it.
Reported(o) == o.spec \in SetSpecs /\ Computed(o.status)

\* So is one that was just created.
LEMMA NewSetReported == \A sp \in SetSpecs : Reported(NewSet(sp))
  <1> SUFFICES ASSUME NEW sp \in SetSpecs PROVE Reported(NewSet(sp))
    OBVIOUS
  <1>1. NewSet(sp).spec = sp /\ NewSet(sp).status = StatusWith(<<>>)
    BY DEF NewSet
  <1>2. StatusWith(<<>>).members = <<>>
    BY DEF StatusWith
  <1>3. << >> \in Seq(MemberRec) /\ Increasing(<<>>)
    BY DEF Increasing
  <1> QED BY <1>1, <1>2, <1>3 DEF Reported, Computed

\* Every status that is stored or cached stays one that a pass computed.
LEMMA StatusedStep == IInv /\ Statused /\ WorkerLists /\ Next => Statused'
  <1> SUFFICES ASSUME IInv, Statused, WorkerLists, Next PROVE Statused'
    OBVIOUS
  <1>0. /\ store = [x \in Objects |-> store[x]] /\ cache = [x \in Objects |-> cache[x]]
        /\ \A s \in Sets : store[s] # None => Reported(store[s])
        /\ \A s \in Sets : cache[s] # None => Reported(cache[s])
    BY DEF IInv, ClustersTyped, Statused, Reported
  <1>a. ASSUME NEW x \in Objects, NEW new, store' = [store EXCEPT ![x] = new], UNCHANGED cache,
               x \in Sets => new = None \/ Reported(new)
        PROVE  Statused'
    <2>1. store'[x] = new /\ \A y \in Objects : y # x => store'[y] = store[y]
      BY <1>0, <1>a
    <2>2. \A s \in Sets : store'[s] # None => Reported(store'[s])
      BY <1>0, <1>a, <2>1, Sorts
    <2> QED BY <1>0, <1>a, <2>2 DEF Statused, Reported
  <1>1. CASE \E c \in Clusters : EditCluster(c) \/ PhaseWritten(c)
    BY <1>a, <1>1, UserWrites, Sorts DEF Store
  <1>2. CASE \E s \in Sets : EditSet(s)
    <2> PICK s \in Sets : EditSet(s) BY <1>2
    <2> PICK sp \in SetSpecs :
          Store(s, IF store[s] = None THEN NewSet(sp) ELSE [store[s] EXCEPT !.spec = sp])
      BY DEF EditSet
    <2>1. Reported(NewSet(sp))
      BY NewSetReported
    <2>2. store[s] # None => Reported([store[s] EXCEPT !.spec = sp])
      <3> HAVE store[s] # None
      <3> DEFINE st == store[s].status
                 o  == store[s].spec
      <3>1. store[s] = [spec |-> o, status |-> st] /\ Computed(st)
        BY <1>0 DEF IInv, SetsTyped, ASet, Reported
      <3> HIDE DEF st, o
      <3>2. [store[s] EXCEPT !.spec = sp] = [spec |-> sp, status |-> st]
        BY <3>1
      <3> QED BY <3>1, <3>2 DEF Reported
    <2> QED BY <1>a, <2>1, <2>2, Sorts DEF EditSet, Store
  <1>3. CASE \E x \in Objects : Delete(x)
    BY <1>a, <1>3 DEF Delete, Store
  <1>4. CASE \E n \in Namespaces : Relabel(n)
    BY <1>a, <1>4, Sorts DEF Relabel, Store
  <1>5. CASE \E x \in Objects : Sync(x)
    <2> PICK x \in Objects : Sync(x) BY <1>5
    <2>1. /\ cache'[x] = store[x] /\ \A y \in Objects : y # x => cache'[y] = cache[y]
          /\ UNCHANGED store
      BY <1>0 DEF Sync
    <2>2. \A s \in Sets : cache'[s] # None => Reported(cache'[s])
      BY <1>0, <2>1, Sorts
    <2> QED BY <1>0, <2>1, <2>2 DEF Statused, Reported
  <1>6. CASE UNCHANGED <<store, cache>>
    BY <1>6 DEF Statused
  <1>7. CASE \E c \in Clusters : overlayBackup(c)
    BY <1>6, <1>7, <1>a, Overlays, Sorts DEF Store
  <1>8. CASE updateStatus
    <2> DEFINE ms  == sortMembers(wk.members)
               new == [store[wk.set] EXCEPT !.status = StatusWith(ms)]
    <2>1. CASE store' = store
      BY <1>6, <1>8, <2>1, StatusOutcome
    <2>2. CASE store' # store
      <3>1. /\ wk # Idle /\ wk.set \in Sets /\ UNCHANGED cache /\ store[wk.set] # None
            /\ store' = [store EXCEPT ![wk.set] = new]
        BY <1>8, <2>2, StatusOutcome
      <3>2. Computed(StatusWith(ms))
        BY <3>1, ListsSorted DEF WorkerLists
      <3> HIDE DEF ms
      <3>3. new.spec = store[wk.set].spec /\ new.status = StatusWith(ms)
        BY <3>1 DEF IInv, SetsTyped, ASet
      <3>4. Reported(new)
        BY <1>0, <3>1, <3>2, <3>3 DEF Reported
      <3> QED BY <1>a, <3>1, <3>4, Sorts
    <2> QED BY <2>1, <2>2
  <1>9. CASE Restart
    BY <1>0, <1>9 DEF Restart, Statused, Reported
  <1>10. CASE \/ Resync \/ (\E s \in Sets : GiveUp(s) \/ Reconcile(s))
              \/ (\E c \in Clusters : noOverlay(c))
    BY <1>6, <1>10 DEF Resync, GiveUp, Reconcile, noOverlay
  <1> QED BY <1>1, <1>2, <1>3, <1>4, <1>5, <1>7, <1>8, <1>9, <1>10 DEF Next

\* The worker's list grows by the clusters it takes off what is to do.
LEMMA WorkerListsStep == IInv /\ Statused /\ WorkerLists /\ Next => WorkerLists'
  <1> SUFFICES ASSUME IInv, Statused, WorkerLists, Next PROVE WorkerLists'
    OBVIOUS
  <1>1. CASE UNCHANGED wk
    BY <1>1 DEF WorkerLists
  <1>2. CASE wk' = Idle
    BY <1>2 DEF WorkerLists
  <1>3. CASE \E s \in Sets : Reconcile(s)
    <2> PICK s \in Sets : Reconcile(s) BY <1>3
    <2> DEFINE sel == Selected(cache[s].spec, cache)
               hd  == [c \in sel |-> cache[c]]
    <2>1. /\ cache[s] # None
          /\ wk' = [set |-> s, spec |-> cache[s].spec, todo |-> sel, members |-> <<>>,
                    held |-> hd]
      BY DEF Reconcile
    <2>2. DOMAIN hd = sel
      OBVIOUS
    <2> HIDE DEF sel, hd
    <2>3. /\ wk'.spec = cache[s].spec /\ wk'.members = <<>> /\ wk'.todo = sel /\ wk'.held = hd
      BY <2>1
    <2>4. DOMAIN wk'.held \ wk'.todo = {}
      BY <2>2, <2>3
    <2>5. Lists(<<>>, {}, hd)
      BY DEF Lists
    <2>6. wk'.spec \in SetSpecs
      BY <2>1, <2>3 DEF Statused
    <2> QED BY <2>3, <2>4, <2>5, <2>6 DEF WorkerLists
  <1>4. ASSUME NEW c \in Clusters, c \in wk.todo, Member(c), wk # Idle
        PROVE  WorkerLists'
    <2> DEFINE ms == wk.members
               hd == wk.held
               td == wk.todo
    <2>1. /\ wk'.spec = wk.spec /\ wk'.held = hd /\ wk'.todo = td \ {c}
          /\ wk'.members = Append(ms, [cluster |-> c, phase |-> hd[c].phase])
      BY <1>4 DEF Member, IInv, WorkerTyped
    <2>2. wk.spec \in SetSpecs /\ Lists(ms, DOMAIN hd \ td, hd)
      BY <1>4 DEF WorkerLists
    <2>3. c \in DOMAIN hd /\ hd[c].phase \in Phases \cup {None}
      BY <1>4 DEF IInv, WorkerTyped, Cluster
    <2>4. c \notin DOMAIN hd \ td
      BY <1>4
    <2>5. Lists(wk'.members, (DOMAIN hd \ td) \cup {c}, hd)
      BY <2>1, <2>2, <2>3, <2>4, ListsAppend
    <2>6. (DOMAIN hd \ td) \cup {c} = DOMAIN hd \ (td \ {c})
      BY <1>4, <2>3
    <2> QED BY <2>1, <2>2, <2>5, <2>6 DEF WorkerLists
  <1>5. CASE \E c \in Clusters : overlayBackup(c) \/ noOverlay(c)
    <2>1. PICK c \in Clusters : overlayBackup(c) \/ noOverlay(c) BY <1>5
    <2>2. c \in wk.todo /\ Member(c)
      BY <2>1 DEF overlayBackup, noOverlay
    <2> QED BY <1>4, <2>2 DEF Idle
  <1>6. CASE updateStatus \/ Restart
    BY <1>2, <1>6 DEF updateStatus, Restart
  <1>7. CASE \/ \E c \in Clusters : EditCluster(c) \/ PhaseWritten(c)
             \/ \E s \in Sets : EditSet(s) \/ GiveUp(s)
             \/ \E n \in Namespaces : Relabel(n)
             \/ \E x \in Objects : Delete(x) \/ Sync(x)
             \/ Resync
    BY <1>1, <1>7 DEF EditCluster, PhaseWritten, EditSet, GiveUp, Relabel, Delete, Sync, Resync
  <1> QED BY <1>3, <1>5, <1>6, <1>7 DEF Next

----------------------------------------------------------------------------
(* What the passes have seen.                                               *)

\* A step that changes nothing s depends on, except that more copies may be
\* stale, leaves what the last pass of s has seen.
LEMMA KeepsPassed ==
    ASSUME NEW s \in Sets, Passed(s),
           cache'[s] = cache[s],
           \A c \in Clusters : cache'[c] = cache[c],
           \A n \in Namespaces : cache'[n] = cache[n],
           \A c \in Clusters : <<"cache", c>> \in stale => <<"cache", c>> \in stale',
           <<"cache", s>> \notin stale' => <<"cache", s>> \notin stale /\ store'[s] = store[s]
    PROVE  Passed(s)'
  <1> DEFINE sp == cache[s].spec
  <1>1. \A c \in Clusters : NsOf[c] \in Namespaces
    BY NamesAssumption
  <1>2. Selected(sp, cache') = Selected(sp, cache)
    BY <1>1 DEF Selected, allowed
  <1>3. Selected(sp, cache) \subseteq Clusters
    BY DEF Selected
  <1>4. \A ms : Lists(ms, Selected(sp, cache), cache) => Lists(ms, Selected(sp, cache), cache')
    BY <1>3 DEF Lists
  <1> QED BY <1>2, <1>3, <1>4 DEF Passed

\* The same for the pass under way.
LEMMA KeepsUnderWay ==
    ASSUME NEW s \in Sets, UnderWay(s), DOMAIN wk.held \subseteq Clusters,
           wk' = wk,
           cache'[s] = cache[s],
           \A c \in Clusters : cache'[c] = cache[c],
           \A n \in Namespaces : cache'[n] = cache[n],
           \A c \in Clusters : <<"cache", c>> \in stale => <<"cache", c>> \in stale',
           \A c \in Clusters : <<"worker", c>> \in stale' =>
                                 <<"worker", c>> \in stale \/ <<"cache", c>> \in stale'
    PROVE  UnderWay(s)'
  <1>1. \A c \in Clusters : NsOf[c] \in Namespaces
    BY NamesAssumption
  <1>2. Selected(wk.spec, cache') = Selected(wk.spec, cache)
    BY <1>1 DEF Selected, allowed
  <1> QED BY <1>2 DEF UnderWay

\* Both, for a step that asks for no fewer passes.
LEMMA KeepsSeen ==
    ASSUME IInv, NEW s \in Sets, PassesSeen, Unasked(s), wk' = wk,
           cache'[s] = cache[s],
           \A c \in Clusters : cache'[c] = cache[c],
           \A n \in Namespaces : cache'[n] = cache[n],
           \A c \in Clusters : <<"cache", c>> \in stale => <<"cache", c>> \in stale',
           \A c \in Clusters : <<"worker", c>> \in stale' =>
                                 <<"worker", c>> \in stale \/ <<"cache", c>> \in stale',
           <<"cache", s>> \notin stale' => <<"cache", s>> \notin stale /\ store'[s] = store[s]
    PROVE  IF wk'.set = s THEN UnderWay(s)' ELSE Passed(s)'
  <1>1. CASE wk.set = s
    <2>1. wk # Idle
      BY <1>1, Sorts DEF Idle
    <2>2. UnderWay(s) /\ DOMAIN wk.held \subseteq Clusters
      BY <1>1, <2>1 DEF PassesSeen, IInv, WorkerTyped
    <2>3. UnderWay(s)'
      BY <2>2, KeepsUnderWay
    <2> QED BY <1>1, <2>3
  <1>2. CASE wk.set # s
    <2>1. Passed(s)
      BY <1>2 DEF PassesSeen
    <2>2. Passed(s)'
      BY <2>1, KeepsPassed
    <2> QED BY <1>2, <2>2
  <1> QED BY <1>1, <1>2

\* What a write of one object does to the copies.
LEMMA StoreEffect ==
    ASSUME IInv, NEW x \in Objects, NEW new, store' = [store EXCEPT ![x] = new],
           StaleAfter(x, new) \subseteq stale',
           \A e \in stale' : e \in StaleAfter(x, new) \/ e \in WorkerOf(Objects)
    PROVE  /\ \A e \in stale : e \in stale'
           /\ new # store[x] => <<"cache", x>> \in stale'
           /\ \A y \in Objects : <<"cache", y>> \notin stale' => store'[y] = store[y]
           /\ \A y \in Objects : y # x => store'[y] = store[y]
           /\ store'[x] = new
  <1>1. /\ store'[x] = new /\ \A y \in Objects : y # x => store'[y] = store[y]
    BY DEF IInv, ClustersTyped
  <1>2. \A e \in stale : e \in stale'
    BY DEF StaleAfter
  <1>3. new # store[x] => <<"cache", x>> \in stale'
    BY DEF StaleAfter
  <1> QED BY <1>1, <1>2, <1>3

\* The worker marks that a write adds come with the cache's.
LEMMA StoreMarks ==
    ASSUME NEW x \in Objects, NEW new, stale' = StaleAfter(x, new)
    PROVE  \A c : <<"worker", c>> \in stale' => <<"worker", c>> \in stale \/ <<"cache", c>> \in stale'
  <1>1. CASE new = store[x]
    BY <1>1 DEF StaleAfter
  <1>2. CASE new # store[x]
    BY <1>2 DEF StaleAfter
  <1> QED BY <1>1, <1>2

\* Any write by others than the worker.
LEMMA WriteSeen ==
    ASSUME IInv, PassesSeen, NEW x \in Objects, NEW new, Store(x, new),
           UNCHANGED <<cache, queue, wk, missed>>
    PROVE  PassesSeen'
  <1> SUFFICES ASSUME NEW s \in Sets, Unasked(s)'
               PROVE  IF wk'.set = s THEN UnderWay(s)' ELSE Passed(s)'
    BY DEF PassesSeen
  <1>1. Unasked(s)
    BY DEF Unasked
  <1>2. /\ \A e \in stale : e \in stale'
        /\ \A y \in Objects : <<"cache", y>> \notin stale' => store'[y] = store[y]
    BY StoreEffect DEF Store
  <1>3. \A c : <<"worker", c>> \in stale' => <<"worker", c>> \in stale \/ <<"cache", c>> \in stale'
    BY StoreMarks DEF Store
  <1>4. s \in Objects
    BY Sorts
  <1> QED BY <1>1, <1>2, <1>3, <1>4, KeepsSeen

\* An event: what concerns s puts it in the queue or is missed.
LEMMA SyncSeen ==
    ASSUME IInv, PassesSeen, NEW x \in Objects, Sync(x)
    PROVE  PassesSeen'
  <1> SUFFICES ASSUME NEW s \in Sets, Unasked(s)'
               PROVE  IF wk'.set = s THEN UnderWay(s)' ELSE Passed(s)'
    BY DEF PassesSeen
  <1>1. /\ cache'[x] = store[x] /\ \A y \in Objects : y # x => cache'[y] = cache[y]
        /\ stale' = stale \ {<<"cache", x>>} /\ UNCHANGED <<store, wk>>
    BY DEF Sync, IInv, ClustersTyped
  <1>2. s \notin queue' /\ s \notin missed' /\ cache'[s] # None
    BY DEF Unasked
  <1>3. x \notin Namespaces
    BY <1>2 DEF Sync
  <1>4. x # s
    BY <1>2, Sorts DEF Sync
  <1>5. cache'[s] = cache[s]
    BY <1>1, <1>4, Sorts
  <1>6. x \notin Clusters
    BY <1>2, <1>5 DEF Sync, enqueueAllSets, Present
  <1>7. Unasked(s)
    BY <1>2, <1>3, <1>5 DEF Unasked, Sync
  <1>8. /\ \A c \in Clusters : cache'[c] = cache[c]
        /\ \A n \in Namespaces : cache'[n] = cache[n]
    BY <1>1, <1>3, <1>6, Sorts
  <1>9. /\ \A c \in Clusters : <<"cache", c>> \in stale => <<"cache", c>> \in stale'
        /\ <<"cache", s>> \notin stale' => <<"cache", s>> \notin stale
        /\ \A c \in Clusters : <<"worker", c>> \in stale' => <<"worker", c>> \in stale
    BY <1>1, <1>4, <1>6
  <1> QED BY <1>1, <1>5, <1>7, <1>8, <1>9, KeepsSeen

\* A pass begins with what the caches hold.
LEMMA ReconcileSeen ==
    ASSUME IInv, PassesSeen, NEW s0 \in Sets, Reconcile(s0)
    PROVE  PassesSeen'
  <1> SUFFICES ASSUME NEW s \in Sets, Unasked(s)'
               PROVE  IF wk'.set = s THEN UnderWay(s)' ELSE Passed(s)'
    BY DEF PassesSeen
  <1> DEFINE sp  == cache[s0].spec
             sel == Selected(sp, cache)
             hd  == [c \in sel |-> cache[c]]
  <1>1. /\ wk = Idle /\ Valid(sp) /\ UNCHANGED <<store, cache>>
        /\ wk' = [set |-> s0, spec |-> sp, todo |-> sel, members |-> <<>>, held |-> hd]
        /\ stale' = stale \ WorkerOf({x \in Objects : <<"cache", x>> \notin stale})
        /\ queue' = queue \ {s0} /\ missed' = missed \ {s0}
    BY DEF Reconcile
  <1>2. DOMAIN hd = sel /\ sel \subseteq Clusters /\ \A c \in sel : hd[c] = cache[c]
    BY DEF Selected
  <1>3. /\ \A x \in Objects : <<"cache", x>> \in stale <=> <<"cache", x>> \in stale'
        /\ \A x \in Objects : <<"worker", x>> \in stale' => <<"cache", x>> \in stale
    BY <1>1 DEF WorkerOf
  <1>4. sel = Selected(sp, cache') /\ cache' = cache
    BY <1>1
  <1> HIDE DEF sel, hd
  <1>5. wk'.set = s0 /\ wk'.spec = sp /\ wk'.todo = sel /\ wk'.held = hd
    BY <1>1
  <1>6. CASE s = s0
    <2>1. UnderWay(s0)'
      BY <1>1, <1>2, <1>3, <1>4, <1>5, Sorts DEF UnderWay
    <2> QED BY <1>5, <1>6, <2>1
  <1>7. CASE s # s0
    <2>1. Unasked(s) /\ wk.set # s
      BY <1>1, <1>7, Sorts DEF Unasked, Idle
    <2>2. Passed(s)
      BY <2>1 DEF PassesSeen
    <2>3. Passed(s)'
      BY <1>1, <1>3, <2>2, KeepsPassed, Sorts
    <2> QED BY <1>5, <1>7, <2>3
  <1> QED BY <1>6, <1>7

\* A member is dealt with: overlaid as it is stored, refused by the webhook or
\* because someone else wrote it, failed and missed, or left alone.
LEMMA MemberSeen ==
    ASSUME IInv, PassesSeen, NEW c \in Clusters, overlayBackup(c) \/ noOverlay(c)
    PROVE  PassesSeen'
  <1> SUFFICES ASSUME NEW s \in Sets, Unasked(s)'
               PROVE  IF wk'.set = s THEN UnderWay(s)' ELSE Passed(s)'
    BY DEF PassesSeen
  <1>1. /\ wk # Idle /\ c \in wk.todo /\ Member(c) /\ UNCHANGED <<cache, queue>>
        /\ missed \subseteq missed'
    BY DEF overlayBackup, noOverlay, Idle
  <1>2. /\ wk'.spec = wk.spec /\ wk'.held = wk.held /\ wk'.todo = wk.todo \ {c}
        /\ wk'.set = wk.set
    BY <1>1 DEF Member, IInv, WorkerTyped
  <1>3. Unasked(s)
    BY <1>1 DEF Unasked
  <1>4. /\ c \in DOMAIN wk.held /\ wk.held[c] \in Cluster /\ DOMAIN wk.held \subseteq Clusters
        /\ wk.spec.template \in Templates \cup {None} /\ wk.set \in Sets
    BY <1>1 DEF IInv, WorkerTyped
  <1>5. /\ \A e \in stale : e \in stale'
        /\ \A y \in Objects : <<"cache", y>> \notin stale' => store'[y] = store[y]
        /\ \A d : <<"worker", d>> \in stale' => <<"worker", d>> \in stale \/ <<"cache", d>> \in stale'
    <2>1. CASE UNCHANGED <<store, stale>>
      BY <2>1
    <2>2. CASE ~UNCHANGED <<store, stale>>
      <3>1. Store(c, overlaid(wk.held[c]))
        BY <2>2 DEF overlayBackup, noOverlay
      <3> QED BY <3>1, StoreEffect, StoreMarks, Sorts DEF Store
    <2> QED BY <2>1, <2>2
  <1>6. CASE wk.set # s
    <2>1. Passed(s)
      BY <1>3, <1>6 DEF PassesSeen
    <2>2. Passed(s)'
      BY <1>1, <1>5, <2>1, KeepsPassed, Sorts
    <2> QED BY <1>2, <1>6, <2>2
  <1>7. CASE wk.set = s
    <2>1. UnderWay(s)
      BY <1>3, <1>7 DEF PassesSeen
    <2>2. ASSUME Wanting(wk.spec, wk.held[c])
          PROVE  <<"cache", c>> \in stale'
      <3>1. overlayBackup(c)
        BY <2>2 DEF noOverlay, Wanting
      <3>2. CASE <<"worker", c>> \in stale
        BY <1>1, <1>4, <1>5, <2>1, <3>2 DEF UnderWay
      <3>3. CASE <<"worker", c>> \notin stale
        <4>1. wk.set \notin missed'
          BY <1>7 DEF Unasked
        <4>2. Store(c, overlaid(wk.held[c]))
          BY <2>2, <3>1, <3>3, <4>1 DEF overlayBackup, Wanting
        <4>3. wk.held[c] = store[c]
          BY <1>1, <1>4, <3>3 DEF IInv, CurrentCopies
        <4>4. /\ wk.spec.template \in Templates /\ wk.held[c].backup = "off"
          BY <1>4, <2>2 DEF Wanting, WantsOverlay
        <4>5. overlaid(wk.held[c]).backup = wk.spec.template
          BY <1>4 DEF overlaid, Cluster
        <4>6. overlaid(wk.held[c]) # store[c]
          BY <4>3, <4>4, <4>5, BackupsAssumption
        <4> QED BY <4>2, <4>6, StoreEffect, Sorts DEF Store
      <3> QED BY <3>2, <3>3
    <2>3. /\ wk'.spec = cache'[s].spec /\ Valid(wk'.spec)
          /\ DOMAIN wk'.held = Selected(wk'.spec, cache')
      BY <1>1, <1>2, <2>1 DEF UnderWay
    <2>4. ASSUME NEW d \in DOMAIN wk.held
          PROVE  /\ wk'.held[d] = cache'[d]
                 /\ d \in wk'.todo => (<<"worker", d>> \in stale' => <<"cache", d>> \in stale')
                 /\ d \notin wk'.todo /\ Wanting(wk'.spec, wk'.held[d])
                      => <<"cache", d>> \in stale'
      <3>1. wk'.held[d] = cache'[d]
        BY <1>1, <1>2, <2>1, <2>4 DEF UnderWay
      <3>2. d \in wk'.todo => (<<"worker", d>> \in stale' => <<"cache", d>> \in stale')
        BY <1>2, <1>5, <2>1, <2>4 DEF UnderWay
      <3>3. CASE d = c
        BY <1>2, <2>2, <3>1, <3>2, <3>3
      <3>4. CASE d # c
        BY <1>2, <1>5, <2>1, <2>4, <3>1, <3>2, <3>4 DEF UnderWay
      <3> QED BY <3>3, <3>4
    <2>5. UnderWay(s)'
      BY <1>2, <2>3, <2>4 DEF UnderWay
    <2> QED BY <1>2, <1>7, <2>5
  <1> QED BY <1>6, <1>7

\* The pass ends: its status is written, or the Set comes back.
LEMMA StatusSeen ==
    ASSUME IInv, WorkerLists, PassesSeen, updateStatus
    PROVE  PassesSeen'
  <1> SUFFICES ASSUME NEW s \in Sets, Unasked(s)'
               PROVE  IF wk'.set = s THEN UnderWay(s)' ELSE Passed(s)'
    BY DEF PassesSeen
  <1> DEFINE ms  == sortMembers(wk.members)
             new == [store[wk.set] EXCEPT !.status = StatusWith(ms)]
  <1>1. /\ wk # Idle /\ wk.set \in Sets /\ wk.todo = {} /\ wk' = Idle
        /\ UNCHANGED <<cache, missed>> /\ queue \subseteq queue'
    BY StatusOutcome
  <1>2. \/ store' = store /\ wk.set \in queue' /\ stale' = stale \cup WorkerOf(Objects)
        \/ /\ store[wk.set] # None
           /\ store' = [store EXCEPT ![wk.set] = new]
           /\ stale' = StaleAfter(wk.set, new) \cup WorkerOf(Objects)
    BY StatusOutcome
  <1>3. wk'.set # s
    BY <1>1, Sorts DEF Idle
  <1>4. Unasked(s)
    BY <1>1 DEF Unasked
  <1> HIDE DEF new
  <1>5. /\ \A e \in stale : e \in stale'
        /\ \A y \in Objects : <<"cache", y>> \notin stale' => store'[y] = store[y]
    <2>1. CASE store' = store /\ stale' = stale \cup WorkerOf(Objects)
      BY <2>1
    <2>2. CASE /\ store' = [store EXCEPT ![wk.set] = new]
               /\ stale' = StaleAfter(wk.set, new) \cup WorkerOf(Objects)
      BY <1>1, <2>2, StoreEffect, Sorts
    <2> QED BY <1>2, <2>1, <2>2
  <1>6. CASE wk.set # s
    <2>1. Passed(s)
      BY <1>4, <1>6 DEF PassesSeen
    <2>2. Passed(s)'
      BY <1>1, <1>5, <2>1, KeepsPassed, Sorts
    <2> QED BY <1>3, <2>2
  <1>7. CASE wk.set = s
    <2>1. UnderWay(s)
      BY <1>4, <1>7 DEF PassesSeen
    <2>2. store[s] # None /\ store' = [store EXCEPT ![s] = new]
      BY <1>2, <1>7 DEF Unasked
    <2>3. store'[s] = new /\ cache' = cache
      BY <1>1, <2>2, Sorts DEF IInv, ClustersTyped
    <2>4. new.status = StatusWith(ms)
      BY <1>7, <2>2 DEF new, IInv, SetsTyped, ASet
    <2>5. StatusWith(ms).members = ms
      BY DEF StatusWith
    <2>6. Lists(wk.members, DOMAIN wk.held, wk.held)
      BY <1>1 DEF WorkerLists
    <2>7. Lists(ms, DOMAIN wk.held, wk.held)
      BY <2>6, ListsSorted
    <2> HIDE DEF ms
    <2>8. Lists(ms, DOMAIN wk.held, cache)
      BY <2>1, <2>7 DEF Lists, UnderWay
    <2>9. Lists(store'[s].status.members, Selected(cache'[s].spec, cache'), cache')
      BY <2>1, <2>3, <2>4, <2>5, <2>8 DEF UnderWay
    <2>10. \A c \in Selected(cache[s].spec, cache) :
              Wanting(cache[s].spec, cache[c]) => <<"cache", c>> \in stale'
      BY <1>1, <1>5, <2>1 DEF UnderWay
    <2>11. Passed(s)'
      BY <2>1, <2>3, <2>9, <2>10 DEF Passed, UnderWay
    <2> QED BY <1>3, <2>11
  <1> QED BY <1>6, <1>7

\* Every action leaves the Sets nobody has asked a pass for with a pass that has
\* seen what the caches hold.
LEMMA SeenStep == IInv /\ WorkerLists /\ PassesSeen /\ Next => PassesSeen'
  <1> SUFFICES ASSUME IInv, WorkerLists, PassesSeen, Next PROVE PassesSeen'
    OBVIOUS
  <1>1. CASE \E c \in Clusters : EditCluster(c) \/ PhaseWritten(c)
    <2> PICK c \in Clusters : EditCluster(c) \/ PhaseWritten(c) BY <1>1
    <2>1. \E new : Store(c, new)
      BY DEF EditCluster, PhaseWritten
    <2>2. UNCHANGED <<cache, queue, wk, missed>>
      BY DEF EditCluster, PhaseWritten
    <2> QED BY <2>1, <2>2, WriteSeen, Sorts
  <1>2. CASE \E s \in Sets : EditSet(s)
    <2> PICK s \in Sets : EditSet(s) BY <1>2
    <2>1. \E new : Store(s, new)
      BY DEF EditSet
    <2>2. UNCHANGED <<cache, queue, wk, missed>>
      BY DEF EditSet
    <2> QED BY <2>1, <2>2, WriteSeen, Sorts
  <1>3. CASE \E x \in Objects : Delete(x)
    BY <1>3, WriteSeen DEF Delete
  <1>4. CASE \E n \in Namespaces : Relabel(n)
    BY <1>4, WriteSeen, Sorts DEF Relabel
  <1>5. CASE \E x \in Objects : Sync(x)
    BY <1>5, SyncSeen
  <1>6. CASE \E s \in Sets : Reconcile(s)
    BY <1>6, ReconcileSeen
  <1>7. CASE \E c \in Clusters : overlayBackup(c) \/ noOverlay(c)
    BY <1>7, MemberSeen
  <1>8. CASE updateStatus
    BY <1>8, StatusSeen
  <1>9. CASE Restart
    <2>1. \A s \in Sets : ~Unasked(s)'
      BY <1>9 DEF Restart, Unasked, Present
    <2> QED BY <2>1 DEF PassesSeen
  <1>10. CASE Resync \/ \E s \in Sets : GiveUp(s)
    <2> SUFFICES ASSUME NEW s \in Sets, Unasked(s)'
                 PROVE  IF wk'.set = s THEN UnderWay(s)' ELSE Passed(s)'
      BY DEF PassesSeen
    <2>1. UNCHANGED <<store, cache, stale, wk, missed>>
      BY <1>10 DEF Resync, GiveUp
    <2>2. Unasked(s)
      BY <1>10 DEF Resync, GiveUp, Unasked
    <2> QED BY <2>1, <2>2, KeepsSeen
  <1> QED BY <1>1, <1>2, <1>3, <1>4, <1>5, <1>6, <1>7, <1>8, <1>9, <1>10 DEF Next

\* What the passes have seen holds in every reachable state.
LEMMA SeenInductive == Spec => [](IInv /\ SeenInv)
  <1>1. Init => SeenInv
    <2> SUFFICES ASSUME Init PROVE SeenInv
      OBVIOUS
    <2>1. PICK f \in Found :
            store = [x \in Objects |-> IF x \in Namespaces THEN TRUE
                                      ELSE IF f[x] = None THEN None
                                      ELSE IF x \in Clusters THEN NewCluster(f[x])
                                      ELSE NewSet(f[x])]
      BY DEF Init
    <2>2. \A s \in Sets : store[s] = None \/ \E sp \in SetSpecs : store[s] = NewSet(sp)
      BY <2>1, FoundAssumption, Sorts
    <2>4. Statused
      BY <2>2, NewSetReported DEF Init, Statused, Reported
    <2>5. WorkerLists
      BY DEF Init, WorkerLists
    <2>6. PassesSeen
      BY DEF Init, PassesSeen, Unasked, Present
    <2> QED BY <2>4, <2>5, <2>6 DEF SeenInv
  <1>2. IInv /\ SeenInv /\ [Next]_vars => SeenInv'
    <2> SUFFICES ASSUME IInv, SeenInv, [Next]_vars PROVE SeenInv'
      OBVIOUS
    <2>1. CASE Next
      BY <2>1, StatusedStep, WorkerListsStep, SeenStep DEF SeenInv
    <2>2. CASE UNCHANGED vars
      <3>1. UNCHANGED <<store, cache, stale, queue, wk, missed>>
        BY <2>2 DEF vars
      <3>2. Statused' /\ WorkerLists'
        BY <3>1 DEF SeenInv, Statused, WorkerLists
      <3>3. PassesSeen'
        BY <3>1 DEF SeenInv, PassesSeen, Unasked, UnderWay, Passed
      <3> QED BY <3>2, <3>3 DEF SeenInv
    <2> QED BY <2>1, <2>2
  <1> QED BY <1>1, <1>2, Inductive, PTL DEF Spec

----------------------------------------------------------------------------
(* Sets at rest.                                                            *)

\* At rest the caches hold what is stored, so the last pass has seen the Set's
\* members as they are.
LEMMA RestSeen ==
    ASSUME IInv, SeenInv, NEW s \in Sets, AtRest(s)
    PROVE  LET members == {c \in Clusters : Belongs(c, s)} IN
           /\ store[s] # None /\ Computed(store[s].status)
           /\ Lists(store[s].status.members, members, store)
           /\ \A c \in members : ~Wanting(store[s].spec, store[c])
  <1> DEFINE members == {c \in Clusters : Belongs(c, s)}
             sp      == store[s].spec
  <1>1. /\ \A x \in Objects : cache[x] = store[x] /\ <<"cache", x>> \notin stale
        /\ store[s] # None /\ cache[s] = store[s]
        /\ \A c \in Clusters : cache[c] = store[c] /\ cache[NsOf[c]] = store[NsOf[c]]
                               /\ <<"cache", c>> \notin stale
    BY Sorts, NamesAssumption DEF AtRest, IInv, CurrentCopies
  <1>2. Passed(s) /\ sp \in SetSpecs /\ Computed(store[s].status)
    BY <1>1 DEF AtRest, SeenInv, Statused, PassesSeen, Unasked
  <1>3. sp.clusters \in {"all", "labelled", "invalid"} /\ sp.namespaces \in {"all", "labelled", "invalid"}
    BY <1>2, SpecsAssumption
  <1>4. sp.clusters # "invalid" /\ sp.namespaces # "invalid"
    BY <1>1, <1>2 DEF Passed, Valid
  <1>5. sp.clusters \in {"all", "labelled"} /\ sp.namespaces \in {"all", "labelled"}
    BY <1>3, <1>4
  <1>6. Selected(sp, cache) = members
    <2>1. ASSUME NEW c \in Clusters
          PROVE  c \in Selected(sp, cache) <=> Belongs(c, s)
      BY <1>1, <1>5 DEF Selected, allowed, Belongs
    <2> QED BY <2>1 DEF Selected
  <1> HIDE DEF members
  <1>7. members \subseteq Clusters
    BY DEF members
  <1>8. Lists(store[s].status.members, members, cache)
    BY <1>1, <1>2, <1>6, Sorts DEF Passed
  <1>9. Lists(store[s].status.members, members, store)
    BY <1>1, <1>7, <1>8 DEF Lists
  <1>10. \A c \in members : ~Wanting(sp, store[c])
    BY <1>1, <1>2, <1>6, <1>7 DEF Passed
  <1> QED BY <1>1, <1>2, <1>9, <1>10 DEF members

\* A Set at rest has overlaid every member that is without backups and that the
\* webhook lets it change, in whatever order events, conflicts, faults and
\* restarts came: a conflict that Reconcile only logs means that somebody wrote
\* the member, and that event brings the Set back.
THEOREM RestingSetsHaveOverlaid == Spec => []OverlaidAtRest
  <1>1. IInv /\ SeenInv => OverlaidAtRest
    <2> SUFFICES ASSUME IInv, SeenInv, NEW s \in Sets, AtRest(s) PROVE Covered(s)
      BY DEF OverlaidAtRest
    <2> SUFFICES ASSUME NEW c \in Clusters, Belongs(c, s), store[s].spec.template # None
                 PROVE  \/ store[c].backup # "off" \/ store[c].optOut
                        \/ Webhook /\ (\/ store[s].spec.template \in BadTemplates
                                        \/ ~store[c].admissible)
      BY DEF Covered
    <2>1. ~Wanting(store[s].spec, store[c])
      BY RestSeen
    <2> QED BY <2>1 DEF Wanting, WantsOverlay, Refuses
  <1> QED BY <1>1, SeenInductive, PTL

\* A list counts its clusters, all of them and those of a phase.
LEMMA ListCounts ==
    ASSUME NEW ms, NEW cs \in SUBSET Clusters, NEW objs, Lists(ms, cs, objs)
    PROVE  /\ Cardinality(cs) = Len(ms)
           /\ \A p \in Phases : phaseCount(ms)[p] = Cardinality({c \in cs : objs[c].phase = p})
           /\ Listing(ms) = {[cluster |-> c, phase |-> objs[c].phase] : c \in cs}
  <1>1. /\ ms \in Seq(MemberRec) /\ Len(ms) \in Nat /\ DOMAIN ms = 1..Len(ms)
        /\ \A i, j \in DOMAIN ms : ms[i].cluster = ms[j].cluster => i = j
        /\ \A i \in DOMAIN ms : ms[i].cluster \in cs
        /\ \A c \in cs : \E i \in DOMAIN ms : ms[i].cluster = c
        /\ \A i \in DOMAIN ms : ms[i].phase = objs[ms[i].cluster].phase
    BY DEF Lists
  <1>2. IsFiniteSet(DOMAIN ms) /\ Cardinality(DOMAIN ms) = Len(ms)
    <2>1. IsFiniteSet(1..Len(ms)) /\ Cardinality(1..Len(ms)) = Len(ms)
      BY <1>1, FS_Interval
    <2> QED BY <1>1, <2>1
  <1>3. Cardinality(cs) = Len(ms)
    <2> DEFINE f == [i \in DOMAIN ms |-> ms[i].cluster]
    <2>1. /\ f \in [DOMAIN ms -> cs]
          /\ \A i, j \in DOMAIN ms : f[i] = f[j] => i = j
          /\ \A c \in cs : \E i \in DOMAIN ms : f[i] = c
      BY <1>1
    <2> HIDE DEF f
    <2> QED BY <1>2, <2>1, CountByPlace
  <1>4. ASSUME NEW p \in Phases
        PROVE  phaseCount(ms)[p] = Cardinality({c \in cs : objs[c].phase = p})
    <2> DEFINE P == {i \in DOMAIN ms : ms[i].phase = p}
               S == {c \in cs : objs[c].phase = p}
               f == [i \in P |-> ms[i].cluster]
    <2>1. phaseCount(ms)[p] = Cardinality(P)
      BY DEF phaseCount
    <2>2. IsFiniteSet(P)
      BY <1>2, FS_Subset
    <2>3. /\ f \in [P -> S]
          /\ \A i, j \in P : f[i] = f[j] => i = j
          /\ \A c \in S : \E i \in P : f[i] = c
      BY <1>1
    <2> HIDE DEF f, P, S
    <2>4. Cardinality(S) = Cardinality(P)
      BY <2>2, <2>3, CountByPlace
    <2> QED BY <2>1, <2>4 DEF S
  <1>5. Listing(ms) = {[cluster |-> c, phase |-> objs[c].phase] : c \in cs}
    <2>1. ASSUME NEW i \in DOMAIN ms
          PROVE  ms[i] = [cluster |-> ms[i].cluster, phase |-> objs[ms[i].cluster].phase]
      <3>1. ms[i] \in MemberRec /\ ms[i].phase = objs[ms[i].cluster].phase
        BY <1>1
      <3> QED BY <3>1 DEF MemberRec
    <2> QED BY <1>1, <2>1 DEF Listing
  <1> QED BY <1>3, <1>4, <1>5

\* A Set at rest reports exactly its members: their number, their phases, how many
\* are in each phase, each once and in order, although a pass reads caches that
\* lag and its write may be refused, lost or repeated.
THEOREM RestingSetsReport == Spec => []StatusAtRest
  <1>1. IInv /\ SeenInv => StatusAtRest
    <2> SUFFICES ASSUME IInv, SeenInv, NEW s \in Sets, AtRest(s) PROVE Honest(s)
      BY DEF StatusAtRest
    <2> DEFINE members == {c \in Clusters : Belongs(c, s)}
               st == store[s].status
               ms == st.members
    <2>1. /\ Computed(st) /\ Lists(ms, members, store)
      BY RestSeen
    <2>2. members \in SUBSET Clusters
      OBVIOUS
    <2>3. st = StatusWith(ms) /\ Increasing(ms)
      BY <2>1 DEF Computed
    <2>4. st.memberCount = Len(ms) /\ st.phaseCount = phaseCount(ms)
      BY <2>3 DEF StatusWith
    <2> HIDE DEF members
    <2>5. /\ Cardinality(members) = Len(ms)
          /\ \A p \in Phases : phaseCount(ms)[p] = Cardinality({c \in members : store[c].phase = p})
          /\ Listing(ms) = {[cluster |-> c, phase |-> store[c].phase] : c \in members}
      BY <2>1, <2>2, ListCounts
    <2> QED BY <2>3, <2>4, <2>5 DEF Honest, Listed, Increasing, members
  <1> QED BY <1>1, SeenInductive, PTL

----------------------------------------------------------------------------
(* Statuses are written for a reason.                                       *)

\* In a sorted list each member has the others' number ahead of it.
LEMMA SortedRanks ==
    ASSUME NEW ms \in Seq(MemberRec), Increasing(ms)
    PROVE  /\ \A i, j \in DOMAIN ms : ms[i].cluster = ms[j].cluster => i = j
           /\ \A i \in DOMAIN ms : Rank(Listing(ms), ms[i]) = i - 1
  <1> DEFINE N == Len(ms)
  <1>1. N \in Nat /\ DOMAIN ms = 1..N /\ \A i \in 1..N : ms[i] \in MemberRec
    OBVIOUS
  <1>2. \A i \in 1..N : ms[i].cluster \in Nat
    BY <1>1, NamesAssumption DEF MemberRec
  <1>3. \A i, j \in 1..N : i < j => ms[i].cluster < ms[j].cluster
    BY <1>1 DEF Increasing
  <1> HIDE DEF N
  <1>4. \A i, j \in 1..N : ms[i].cluster = ms[j].cluster => i = j
    <2> SUFFICES ASSUME NEW i \in 1..N, NEW j \in 1..N, i # j
                 PROVE  ms[i].cluster # ms[j].cluster
      OBVIOUS
    <2>1. i < j \/ j < i
      BY <1>1
    <2> QED BY <1>2, <1>3, <2>1
  <1>5. ASSUME NEW i \in 1..N PROVE Rank(Listing(ms), ms[i]) = i - 1
    <2> DEFINE P == 1..(i - 1)
               A == Ahead(Listing(ms), ms[i])
               f == [j \in P |-> ms[j]]
    <2>1. i \in Nat /\ i - 1 \in Nat /\ \A j \in P : j \in 1..N /\ j < i
      BY <1>1
    <2>2. \A j \in P : ms[j] \in A
      BY <1>1, <1>3, <2>1 DEF Ahead, Listing, ByName
    <2>3. \A x \in A : \E j \in P : ms[j] = x
      <3> SUFFICES ASSUME NEW x \in A PROVE \E j \in P : ms[j] = x
        OBVIOUS
      <3>1. PICK j \in 1..N : ms[j] = x /\ ms[j].cluster < ms[i].cluster
        BY <1>1 DEF Ahead, Listing, ByName
      <3>2. j < i
        <4>1. ~(ms[i].cluster < ms[j].cluster) /\ j # i
          BY <1>2, <3>1
        <4>2. ~(i < j)
          BY <1>3, <4>1
        <4> QED BY <4>1, <4>2, <1>1
      <3> QED BY <1>1, <3>1, <3>2
    <2>4. /\ f \in [P -> A]
          /\ \A j, k \in P : f[j] = f[k] => j = k
          /\ \A x \in A : \E j \in P : f[j] = x
      BY <1>4, <2>1, <2>2, <2>3
    <2>5. IsFiniteSet(P) /\ Cardinality(P) = i - 1
      <3>1. IsFiniteSet(1..(i - 1)) /\ Cardinality(1..(i - 1)) = IF 1 > i - 1 THEN 0 ELSE (i - 1) - 1 + 1
        BY <2>1, FS_Interval
      <3> QED BY <2>1, <3>1
    <2> HIDE DEF f, P, A
    <2>6. Cardinality(A) = i - 1
      BY <2>4, <2>5, CountByPlace
    <2> QED BY <2>6 DEF A, Rank
  <1> QED BY <1>1, <1>4, <1>5

\* Sorted lists of the same members are the same list.
LEMMA SortedUnique ==
    ASSUME NEW ms \in Seq(MemberRec), NEW ns \in Seq(MemberRec),
           Increasing(ms), Increasing(ns), Listing(ms) = Listing(ns)
    PROVE  ms = ns
  <1> DEFINE L == Listing(ms)
  <1>1. /\ \A i, j \in DOMAIN ms : ms[i].cluster = ms[j].cluster => i = j
        /\ \A i \in DOMAIN ms : Rank(L, ms[i]) = i - 1
        /\ \A i, j \in DOMAIN ns : ns[i].cluster = ns[j].cluster => i = j
        /\ \A i \in DOMAIN ns : Rank(L, ns[i]) = i - 1
    BY SortedRanks
  <1>2. Cardinality(L) = Len(ms) /\ Cardinality(L) = Len(ns)
    BY <1>1, ListLength
  <1>3. /\ DOMAIN ms = 1..Len(ms) /\ DOMAIN ns = 1..Len(ms) /\ Len(ms) \in Nat
        /\ \A i \in 1..Len(ms) : ms[i] \in L /\ ns[i] \in L
        /\ \A x \in L : \E i \in 1..Len(ms) : x = ms[i]
    <2>1. Len(ns) = Len(ms)
      BY <1>2
    <2>2. DOMAIN ms = 1..Len(ms) /\ DOMAIN ns = 1..Len(ns) /\ Len(ms) \in Nat
      OBVIOUS
    <2>3. /\ \A i \in DOMAIN ms : ms[i] \in Listing(ms)
          /\ \A i \in DOMAIN ns : ns[i] \in Listing(ns)
          /\ \A x \in Listing(ms) : \E i \in DOMAIN ms : x = ms[i]
      BY DEF Listing
    <2> QED BY <2>1, <2>2, <2>3
  <1> HIDE DEF L
  <1>4. ASSUME NEW i \in 1..Len(ms) PROVE ms[i] = ns[i]
    <2>1. PICK k \in 1..Len(ms) : ns[i] = ms[k]
      BY <1>3
    <2>2. i - 1 = k - 1
      BY <1>1, <1>3, <2>1
    <2> QED BY <1>3, <2>1, <2>2
  <1> QED BY <1>3, <1>4

\* A status is written only when a member came, went or changed its phase, so no
\* Set keeps itself busy through the event of its own status: the sort makes the
\* write of the same members a no-op.
THEOREM NoStatusIsRewritten == Spec => NoIdleWrites
  <1>1. IInv /\ SeenInv /\ [Next]_vars => [WritesNews]_vars
    <2> SUFFICES ASSUME IInv, SeenInv, Next PROVE WritesNews
      BY DEF vars
    <2>0. store = [x \in Objects |-> store[x]]
      BY DEF IInv, ClustersTyped
    <2>a. ASSUME NEW x \in Objects, NEW new, store' = [store EXCEPT ![x] = new],
                 x \in Sets /\ store[x] # None => new = None \/ new.status = store[x].status
          PROVE  WritesNews
      <3>1. store'[x] = new /\ \A y \in Objects : y # x => store'[y] = store[y]
        BY <2>0, <2>a
      <3> QED BY <2>a, <3>1, Sorts DEF WritesNews
    <2>1. CASE \E c \in Clusters : EditCluster(c) \/ PhaseWritten(c)
      BY <2>a, <2>1, UserWrites, Sorts DEF Store
    <2>2. CASE \E s \in Sets : EditSet(s)
      <3> PICK s \in Sets : EditSet(s) BY <2>2
      <3> PICK sp \in SetSpecs :
            Store(s, IF store[s] = None THEN NewSet(sp) ELSE [store[s] EXCEPT !.spec = sp])
        BY DEF EditSet
      <3>1. store[s] # None => [store[s] EXCEPT !.spec = sp].status = store[s].status
        BY DEF IInv, SetsTyped, ASet
      <3> QED BY <2>a, <3>1, Sorts DEF Store
    <2>3. CASE \E x \in Objects : Delete(x)
      BY <2>a, <2>3 DEF Delete, Store
    <2>4. CASE \E n \in Namespaces : Relabel(n)
      BY <2>a, <2>4, Sorts DEF Relabel, Store
    <2>5. CASE UNCHANGED store
      BY <2>5 DEF WritesNews
    <2>6. CASE \E c \in Clusters : overlayBackup(c)
      BY <2>5, <2>6, <2>a, Overlays, Sorts DEF Store
    <2>7. CASE updateStatus
      <3>1. CASE store' = store
        BY <2>5, <3>1
      <3>2. CASE store' # store
        <4> DEFINE s   == wk.set
                   ms  == sortMembers(wk.members)
                   new == [store[s] EXCEPT !.status = StatusWith(ms)]
                   old == store[s].status.members
        <4>1. /\ wk # Idle /\ s \in Sets /\ store[s] # None /\ store' = [store EXCEPT ![s] = new]
          BY <2>7, <3>2, StatusOutcome
        <4>2. Computed(StatusWith(ms))
          BY <4>1, ListsSorted DEF SeenInv, WorkerLists
        <4>3. StatusWith(ms).members = ms
          BY DEF StatusWith
        <4>4. Computed(store[s].status)
          BY <4>1 DEF SeenInv, Statused
        <4>5. new.status = StatusWith(ms)
          BY <4>1 DEF IInv, SetsTyped, ASet
        <4> HIDE DEF ms, new, old, s
        <4>6. Listing(old) = Listing(ms) => old = ms
          BY <4>2, <4>3, <4>4, SortedUnique DEF Computed, old
        <4>7. old = ms => store[s].status = StatusWith(ms)
          BY <4>4 DEF Computed, old
        <4>8. store'[s] = new /\ \A y \in Objects : y # s => store'[y] = store[y]
          BY <2>0, <4>1, Sorts
        <4>9. /\ Listed(s, store) = Listing(old) /\ Listed(s, store') = Listing(ms)
          BY <4>3, <4>5, <4>8 DEF Listed, old
        <4>10. \A y \in Sets : y # s => store'[y] = store[y]
          BY <4>8, Sorts
        <4> QED BY <4>5, <4>6, <4>7, <4>8, <4>9, <4>10 DEF WritesNews
      <3> QED BY <3>1, <3>2
    <2>8. CASE \/ Resync \/ Restart \/ (\E x \in Objects : Sync(x))
               \/ (\E s \in Sets : GiveUp(s) \/ Reconcile(s))
               \/ (\E c \in Clusters : noOverlay(c))
      BY <2>5, <2>8 DEF Resync, Restart, Sync, GiveUp, Reconcile, noOverlay
    <2> QED BY <2>1, <2>2, <2>3, <2>4, <2>6, <2>7, <2>8 DEF Next
  <1> QED BY <1>1, SeenInductive, PTL DEF Spec, NoIdleWrites

----------------------------------------------------------------------------
(* Types.                                                                   *)

\* The namespaces' labels, the marks, the queue and the budget.
Booked ==
    /\ \A objs \in {store, cache}, n \in Namespaces : objs[n] \in BOOLEAN
    /\ stale \subseteq {"cache", "worker"} \X Objects
    /\ queue \subseteq Sets /\ missed \subseteq Sets /\ budget \in 0..MaxBudget

\* A computed status is one of a pass: it lists no more than there are clusters.
LEMMA ComputedStatus ==
    ASSUME NEW st, Computed(st)
    PROVE  st \in Statuses
  <1> DEFINE ms == st.members
             N  == Len(ms)
             f  == [i \in 1..N |-> ms[i].cluster]
             cs == {ms[i].cluster : i \in 1..N}
  <1>1. /\ st = StatusWith(ms) /\ ms \in Seq(MemberRec) /\ Increasing(ms)
        /\ N \in Nat /\ DOMAIN ms = 1..N
    BY DEF Computed
  <1> HIDE DEF ms
  <1>2. \A i, j \in 1..N : ms[i].cluster = ms[j].cluster => i = j
    BY <1>1, SortedRanks
  <1>3. \A i \in 1..N : ms[i] \in MemberRec /\ ms[i].cluster \in Clusters
    <2>1. \A i \in 1..N : ms[i] \in MemberRec
      BY <1>1
    <2> QED BY <2>1 DEF MemberRec
  <1>4. /\ f \in [1..N -> cs]
        /\ \A i, j \in 1..N : f[i] = f[j] => i = j
        /\ \A c \in cs : \E i \in 1..N : f[i] = c
    BY <1>2
  <1>5. IsFiniteSet(1..N) /\ Cardinality(1..N) = N
    BY <1>1, FS_Interval
  <1>6. cs \in SUBSET Clusters
    BY <1>3
  <1> HIDE DEF f, cs, N
  <1>7. Cardinality(cs) = N
    BY <1>4, <1>5, CountByPlace
  <1>8. N <= Cardinality(Clusters) /\ Cardinality(Clusters) \in Nat
    BY <1>6, <1>7, NamesAssumption, FS_Subset, FS_CardinalityType
  <1>9. N \in 0..Cardinality(Clusters)
    BY <1>1, <1>8
  <1>10. ms \in [1..N -> MemberRec]
    BY <1>1, <1>3
  <1> QED BY <1>1, <1>9, <1>10 DEF Statuses, MemberRec

\* Namespaces, marks, queue and budget keep their types.
LEMMA BookedStep == IInv /\ SeenInv /\ Booked /\ [Next]_vars => Booked'
  <1> SUFFICES ASSUME IInv, SeenInv, Booked, [Next]_vars PROVE Booked'
    OBVIOUS
  <1>0. /\ store = [x \in Objects |-> store[x]] /\ cache = [x \in Objects |-> cache[x]]
        /\ \A n \in Namespaces : store[n] \in BOOLEAN /\ cache[n] \in BOOLEAN
        /\ stale \subseteq {"cache", "worker"} \X Objects
        /\ queue \subseteq Sets /\ missed \subseteq Sets /\ budget \in 0..MaxBudget
    BY DEF IInv, ClustersTyped, Booked
  <1>w. WorkerOf(Objects) \subseteq {"cache", "worker"} \X Objects
    BY DEF WorkerOf
  <1>b. ASSUME Interfere PROVE budget' \in 0..MaxBudget
    BY <1>0, <1>b, BoundAssumption DEF Interfere
  <1>a. ASSUME NEW x \in Objects, NEW new
        PROVE  StaleAfter(x, new) \subseteq {"cache", "worker"} \X Objects
    BY <1>0 DEF StaleAfter
  <1>n. ASSUME NEW x \in Objects, NEW new, store' = [store EXCEPT ![x] = new],
               x \in Namespaces => new \in BOOLEAN
        PROVE  \A n \in Namespaces : store'[n] \in BOOLEAN
    <2>1. store'[x] = new /\ \A y \in Objects : y # x => store'[y] = store[y]
      BY <1>0, <1>n
    <2> QED BY <1>0, <1>n, <2>1, Sorts
  <1>u. ASSUME NEW x \in Objects, NEW new, Store(x, new), UNCHANGED <<cache, queue, missed>>,
               x \in Namespaces => new \in BOOLEAN, Interfere
        PROVE  Booked'
    BY <1>0, <1>a, <1>b, <1>n, <1>u DEF Store, Booked
  <1>1. CASE \E c \in Clusters : EditCluster(c) \/ PhaseWritten(c)
    <2> PICK c \in Clusters : EditCluster(c) \/ PhaseWritten(c) BY <1>1
    <2>1. \E new : Store(c, new)
      BY DEF EditCluster, PhaseWritten
    <2>2. UNCHANGED <<cache, queue, missed>> /\ Interfere
      BY DEF EditCluster, PhaseWritten
    <2> QED BY <2>1, <2>2, <1>u, Sorts
  <1>2. CASE \E s \in Sets : EditSet(s)
    <2> PICK s \in Sets : EditSet(s) BY <1>2
    <2>1. \E new : Store(s, new)
      BY DEF EditSet
    <2>2. UNCHANGED <<cache, queue, missed>> /\ Interfere
      BY DEF EditSet
    <2> QED BY <2>1, <2>2, <1>u, Sorts
  <1>3. CASE \E x \in Objects : Delete(x)
    BY <1>3, <1>u DEF Delete
  <1>4. CASE \E n \in Namespaces : Relabel(n)
    <2> PICK n \in Namespaces : Relabel(n) BY <1>4
    <2>1. (~store[n]) \in BOOLEAN
      OBVIOUS
    <2> QED BY <1>u, <2>1, Sorts DEF Relabel
  <1>5. CASE \E x \in Objects : Sync(x)
    <2> PICK x \in Objects : Sync(x) BY <1>5
    <2>1. /\ cache'[x] = store[x] /\ \A y \in Objects : y # x => cache'[y] = cache[y]
          /\ stale' \subseteq stale /\ UNCHANGED <<store, budget>>
      BY <1>0 DEF Sync
    <2>2. queue' \subseteq Sets /\ missed' \subseteq Sets
      BY <1>0 DEF Sync, enqueueAllSets, Present
    <2>3. \A n \in Namespaces : cache'[n] \in BOOLEAN
      BY <1>0, <2>1, Sorts
    <2> QED BY <1>0, <2>1, <2>2, <2>3 DEF Booked
  <1>6. CASE \E s \in Sets : Reconcile(s)
    <2> PICK s \in Sets : Reconcile(s) BY <1>6
    <2>1. /\ UNCHANGED <<store, cache, budget>> /\ stale' \subseteq stale
          /\ queue' \subseteq queue /\ missed' \subseteq missed
      BY DEF Reconcile
    <2> QED BY <1>0, <2>1 DEF Booked
  <1>7. CASE \E c \in Clusters : overlayBackup(c)
    <2> PICK c \in Clusters : overlayBackup(c) BY <1>7
    <2>1. wk.set \in Sets /\ UNCHANGED <<cache, queue>>
      BY Overlays DEF overlayBackup
    <2>2. /\ budget' = budget \/ Interfere
          /\ missed' = missed \/ missed' = missed \cup {wk.set}
          /\ UNCHANGED <<store, stale>> \/ Store(c, overlaid(wk.held[c]))
      BY DEF overlayBackup
    <2>3. budget' \in 0..MaxBudget /\ missed' \subseteq Sets
      BY <1>0, <1>b, <2>1, <2>2
    <2>4. /\ stale' \subseteq {"cache", "worker"} \X Objects
          /\ \A n \in Namespaces : store'[n] \in BOOLEAN
      <3>1. CASE UNCHANGED <<store, stale>>
        BY <1>0, <3>1
      <3>2. CASE Store(c, overlaid(wk.held[c]))
        <4>1. stale' \subseteq {"cache", "worker"} \X Objects
          BY <1>a, <3>2, Sorts DEF Store
        <4>2. \A n \in Namespaces : store'[n] \in BOOLEAN
          BY <1>n, <3>2, Sorts DEF Store
        <4> QED BY <4>1, <4>2
      <3> QED BY <2>2, <3>1, <3>2
    <2> QED BY <1>0, <2>1, <2>3, <2>4 DEF Booked
  <1>8. CASE updateStatus
    <2> DEFINE new == [store[wk.set] EXCEPT !.status = StatusWith(sortMembers(wk.members))]
    <2>1. wk.set \in Sets /\ UNCHANGED <<cache, missed>>
      BY <1>8, StatusOutcome
    <2>2. /\ budget' = budget \/ Interfere
          /\ queue' = queue \/ queue' = queue \cup {wk.set}
      BY <1>8 DEF updateStatus
    <2>3. budget' \in 0..MaxBudget /\ queue' \subseteq Sets
      BY <1>0, <1>b, <2>1, <2>2
    <2>4. \/ store' = store /\ stale' = stale \cup WorkerOf(Objects)
          \/ /\ store' = [store EXCEPT ![wk.set] = new]
             /\ stale' = StaleAfter(wk.set, new) \cup WorkerOf(Objects)
      BY <1>8, StatusOutcome
    <2> HIDE DEF new
    <2>5. /\ stale' \subseteq {"cache", "worker"} \X Objects
          /\ \A n \in Namespaces : store'[n] \in BOOLEAN
      <3>1. CASE store' = store /\ stale' = stale \cup WorkerOf(Objects)
        BY <1>0, <1>w, <3>1
      <3>2. CASE /\ store' = [store EXCEPT ![wk.set] = new]
                 /\ stale' = StaleAfter(wk.set, new) \cup WorkerOf(Objects)
        <4>1. stale' \subseteq {"cache", "worker"} \X Objects
          BY <1>a, <1>w, <2>1, <3>2, Sorts
        <4>2. \A n \in Namespaces : store'[n] \in BOOLEAN
          BY <1>n, <2>1, <3>2, Sorts
        <4> QED BY <4>1, <4>2
      <3> QED BY <2>4, <3>1, <3>2
    <2> QED BY <1>0, <2>1, <2>3, <2>5 DEF Booked
  <1>9. CASE Restart
    <2>1. /\ UNCHANGED <<store, missed>> /\ cache' = store /\ stale' = WorkerOf(Objects)
          /\ queue' \subseteq Sets /\ Interfere
      BY <1>9 DEF Restart, Present
    <2> QED BY <1>0, <1>b, <1>w, <2>1 DEF Booked
  <1>10. CASE Resync \/ (\E s \in Sets : GiveUp(s)) \/ (\E c \in Clusters : noOverlay(c))
    <2>1. UNCHANGED <<store, cache, stale, missed, budget>> /\ queue' \subseteq Sets
      BY <1>0, <1>10 DEF Resync, GiveUp, noOverlay, Present
    <2> QED BY <1>0, <2>1 DEF Booked
  <1>11. CASE UNCHANGED vars
    BY <1>11 DEF vars, Booked
  <1> QED BY <1>1, <1>2, <1>3, <1>4, <1>5, <1>6, <1>7, <1>8, <1>9, <1>10, <1>11 DEF Next

\* Objects, copies and the worker's state are well formed: a Set without a template
\* never writes a backup spec, and every status ever stored is one that a pass
\* over some of the clusters computes.
THEOREM TypeCorrect == Spec => []TypeOK
  <1>1. Init => Booked
    <2> SUFFICES ASSUME Init PROVE Booked
      OBVIOUS
    <2>1. \A n \in Namespaces : store[n] = TRUE
      BY Sorts DEF Init
    <2>2. /\ stale \subseteq {"cache", "worker"} \X Objects
          /\ queue \subseteq Sets /\ missed \subseteq Sets
      BY DEF Init, Present, WorkerOf
    <2>3. cache = store /\ budget \in 0..MaxBudget
      BY BoundAssumption DEF Init
    <2> QED BY <2>1, <2>2, <2>3 DEF Booked
  <1>2. IInv /\ SeenInv /\ Booked => TypeOK
    <2> SUFFICES ASSUME IInv, SeenInv, Booked PROVE TypeOK
      OBVIOUS
    <2>1. ASSUME NEW objs \in {store, cache}
          PROVE  /\ DOMAIN objs = Objects
                 /\ \A c \in Clusters : objs[c] \in Cluster \cup {None}
                 /\ \A s \in Sets : objs[s] # None =>
                      objs[s].spec \in SetSpecs /\ objs[s].status \in Statuses
                 /\ \A n \in Namespaces : objs[n] \in BOOLEAN
      <3>1. DOMAIN objs = Objects /\ \A c \in Clusters : objs[c] \in Cluster \cup {None}
        BY DEF IInv, ClustersTyped
      <3>2. \A s \in Sets : objs[s] # None =>
              objs[s].spec \in SetSpecs /\ objs[s].status \in Statuses
        BY ComputedStatus DEF SeenInv, Statused
      <3> QED BY <3>1, <3>2 DEF Booked
    <2>2. wk # Idle => /\ wk.set \in Sets /\ wk.spec \in SetSpecs
                       /\ wk.todo \subseteq DOMAIN wk.held /\ DOMAIN wk.held \subseteq Clusters
      BY DEF IInv, WorkerTyped, SeenInv, WorkerLists
    <2> QED BY <2>1, <2>2 DEF Booked, TypeOK
  <1> QED BY <1>1, <1>2, BookedStep, SeenInductive, PTL DEF Spec
=============================================================================
