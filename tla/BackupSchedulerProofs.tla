------------------------ MODULE BackupSchedulerProofs ------------------------
(***************************************************************************)
(* The scheduler's map and cron agree, and a cluster at rest is scheduled, *)
(* for any number of clusters, schedules and ids.                          *)
(***************************************************************************)
EXTENDS BackupScheduler, TLAPS

\* No two clusters name the same entry, a removed one included: a failed
\* Register leaves an id in the map that a later Register removes again.
OwnIds == \A c, d \in Clusters : entries[c] = entries[d] /\ entries[c] # None => c = d

\* A cached copy the informer has caught up with is the stored one.
CurrentCopies == \A c \in Clusters : c \notin lag => seen[c] = spec[c]

\* A key that is not queued is scheduled as the cached copy says.
Asks(b) == b.life = "live" /\ b.enabled /\ b.schedule \in Schedules
Handled == \A c \in Clusters : c \notin todo /\ Asks(seen[c]) =>
    \E e \in cron : e.cluster = c /\ e.schedule = seen[c].schedule

IInv == TypeOK /\ OneEntryPerCluster /\ OwnIds /\ CurrentCopies /\ Handled

\* AddFunc's id belongs to no entry and to no cluster.
LEMMA FreshId ==
  ASSUME TypeOK, Unused # {},
         NEW id, id = CHOOSE i \in Unused : TRUE
  PROVE  /\ id \in Ids /\ id # None
         /\ \A e \in cron : e.id # id
         /\ \A c \in Clusters : entries[c] # id
<1>1. id \in Unused
  OBVIOUS
<1> QED BY <1>1, ConstantsAssumption DEF Unused

\* Registering a schedule on what Remove left keeps the map and cron agreed,
\* and gives the cluster its entry.
LEMMA AddsEntry ==
  ASSUME TypeOK, OneEntryPerCluster, OwnIds, Handled,
         NEW c \in Clusters, seen[c].schedule \in Schedules,
         AddFunc(c, seen[c].schedule, {e \in cron : e.id # entries[c]}),
         UNCHANGED seen
  PROVE  /\ cron' \subseteq Entries /\ entries' \in [Clusters -> Ids \cup {None}]
         /\ todo' \subseteq Clusters
         /\ OneEntryPerCluster' /\ OwnIds' /\ Handled'
<1> DEFINE id   == CHOOSE i \in Unused : TRUE
           new  == [id |-> id, cluster |-> c, schedule |-> seen[c].schedule, due |-> FALSE]
           rest == {e \in cron : e.id # entries[c]}
<1>1. /\ Unused # {} /\ cron' = rest \cup {new}
      /\ entries' = [entries EXCEPT ![c] = id] /\ todo' = todo \ {c}
  BY DEF AddFunc
<1>2. /\ id \in Ids /\ id # None
      /\ \A e \in cron : e.id # id
      /\ \A d \in Clusters : entries[d] # id
  BY <1>1, FreshId
<1>3. entries \in [Clusters -> Ids \cup {None}] /\ cron \subseteq Entries
      /\ todo \subseteq Clusters
  BY DEF TypeOK
<1>4. new \in Entries /\ new.id = id /\ new.cluster = c
      /\ new.schedule = seen[c].schedule
  BY <1>2 DEF Entries
<1> HIDE DEF id, new
<1>5. cron' \subseteq Entries
  BY <1>1, <1>3, <1>4
<1>6. /\ entries' \in [Clusters -> Ids \cup {None}] /\ entries'[c] = id
      /\ \A d \in Clusters : d # c => entries'[d] = entries[d]
      /\ todo' \subseteq Clusters
  BY <1>1, <1>2, <1>3
<1>7. \A e \in rest : e \in cron /\ e.cluster \in Clusters /\ e.cluster # c
  BY <1>3 DEF OneEntryPerCluster, Entries
<1>8. OneEntryPerCluster'
  BY <1>1, <1>4, <1>6, <1>7 DEF OneEntryPerCluster
<1>9. OwnIds'
  BY <1>2, <1>6 DEF OwnIds
<1>10. Handled'
  <2> SUFFICES ASSUME NEW d \in Clusters, d \notin todo', Asks(seen[d])
               PROVE  \E e \in cron' : e.cluster = d /\ e.schedule = seen[d].schedule
    BY DEF Handled, Asks
  <2>1. CASE d = c
    BY <1>1, <1>4, <2>1
  <2>2. CASE d # c
    <3>1. PICK e \in cron : e.cluster = d /\ e.schedule = seen[d].schedule
      BY <1>1, <2>2 DEF Handled
    <3>2. entries[d] = e.id /\ e.id \in Ids
      BY <1>3, <3>1 DEF OneEntryPerCluster, Entries
    <3>3. e.id # entries[c]
      BY <2>2, <3>2, ConstantsAssumption DEF OwnIds
    <3> QED BY <1>1, <3>1, <3>3
  <2> QED BY <2>1, <2>2
<1> QED BY <1>5, <1>6, <1>8, <1>9, <1>10

\* Marking an entry due, or no longer due, changes nothing that counts.
LEMMA Retimed ==
  ASSUME TypeOK, OneEntryPerCluster, Handled, NEW e \in cron, NEW due \in BOOLEAN,
         cron' = (cron \ {e}) \cup {[e EXCEPT !.due = due]},
         UNCHANGED <<entries, seen, todo>>
  PROVE  cron' \subseteq Entries /\ OneEntryPerCluster' /\ Handled'
<1> DEFINE new == [e EXCEPT !.due = due]
<1>1. cron \subseteq Entries
  BY DEF TypeOK
<1>2. new \in Entries /\ new.id = e.id /\ new.cluster = e.cluster
      /\ new.schedule = e.schedule
  BY <1>1 DEF Entries
<1> HIDE DEF new
<1>3. cron' = (cron \ {e}) \cup {new}
  BY DEF new
<1>4. OneEntryPerCluster'
  BY <1>2, <1>3 DEF OneEntryPerCluster
<1>5. Handled'
  BY <1>2, <1>3 DEF Handled, Asks
<1> QED BY <1>1, <1>2, <1>3, <1>4, <1>5

\* A spec the user applies, marks or removes is a spec, and its cached copy is
\* behind from then on.
LEMMA Stores ==
  ASSUME TypeOK, CurrentCopies, NEW c \in Clusters, NEW b \in Backups, Store(c, b),
         UNCHANGED seen
  PROVE  spec' \in [Clusters -> Backups] /\ lag' \subseteq Clusters /\ CurrentCopies'
BY DEF TypeOK, CurrentCopies, Store

\* Every step keeps the inductive invariant.
LEMMA Inductive == IInv /\ [Next]_vars => IInv'
<1> SUFFICES ASSUME IInv, [Next]_vars PROVE IInv'
  OBVIOUS
<1>0. TypeOK /\ OneEntryPerCluster /\ OwnIds /\ CurrentCopies /\ Handled
  BY DEF IInv
<1> USE DEF IInv
<1>a. ASSUME NEW b \in Backups PROVE [b EXCEPT !.life = "marked"] \in Backups
  BY DEF Backups, Lives
<1>b. Gone \in Backups
  BY DEF Gone, Backups, Lives
<1>1. ASSUME NEW c \in Clusters, NEW b \in Backups, Apply(c, b) PROVE IInv'
  <2>1. spec' \in [Clusters -> Backups] /\ lag' \subseteq Clusters /\ CurrentCopies'
    BY <1>0, <1>1, Stores DEF Apply
  <2> QED BY <1>0, <1>1, <2>1, ConstantsAssumption DEF Apply, Interfere, scheduler, TypeOK, OneEntryPerCluster,
             OwnIds, Handled, Asks
<1>2. ASSUME NEW c \in Clusters, Delete(c) PROVE IInv'
  <2>1. [spec[c] EXCEPT !.life = "marked"] \in Backups
    BY <1>a DEF TypeOK
  <2>2. spec' \in [Clusters -> Backups] /\ lag' \subseteq Clusters /\ CurrentCopies'
    BY <1>0, <1>2, <2>1, Stores DEF Delete
  <2> QED BY <1>0, <1>2, <2>2 DEF Delete, scheduler, TypeOK, OneEntryPerCluster, OwnIds,
             Handled, Asks
<1>3. ASSUME NEW c \in Clusters, Sync(c) PROVE IInv'
  <2>1. TypeOK' /\ CurrentCopies'
    BY <1>0, <1>3 DEF Sync, scheduler, TypeOK, CurrentCopies
  <2>2. \A d \in Clusters : d \notin todo' => seen'[d] = seen[d] /\ d \notin todo
    BY <1>0, <1>3 DEF Sync, TypeOK
  <2> QED BY <1>0, <1>3, <2>1, <2>2 DEF Sync, scheduler, OneEntryPerCluster, OwnIds,
             Handled, Asks
<1>4. ASSUME NEW c \in Clusters, Event(c) PROVE IInv'
  BY <1>0, <1>4, ConstantsAssumption DEF Event, Interfere, store, scheduler, TypeOK, OneEntryPerCluster,
     OwnIds, CurrentCopies, Handled, Asks
<1>5. ASSUME NEW c \in Clusters, Reconcile(c) PROVE IInv'
  <2> DEFINE b    == seen[c]
             rest == {e \in cron : e.id # entries[c]}
  <2>0. /\ c \in todo /\ b.life = "live" /\ Register(c, b)
        /\ UNCHANGED <<spec, lag, seen, runs, series, budget>>
    BY <1>5 DEF Reconcile, store
  <2>1. CurrentCopies'
    BY <1>0, <2>0 DEF CurrentCopies
  <2>2. CASE ~b.enabled \/ b.schedule = None
    <3>1. todo' = todo \ {c} /\ UNCHANGED <<cron, entries>>
      BY <2>0, <2>2 DEF Register, scheduler
    <3>2. ~Asks(seen[c])
      BY <2>2, ConstantsAssumption DEF Asks
    <3> QED BY <1>0, <2>0, <2>1, <3>1, <3>2 DEF TypeOK, OneEntryPerCluster, OwnIds,
               Handled, Asks
  <2>3. CASE b.enabled /\ b.schedule = Bogus
    <3>1. cron' = rest /\ UNCHANGED <<entries, todo>>
      BY <2>0, <2>3, ConstantsAssumption DEF Register
    <3>2. Handled'
      <4> SUFFICES ASSUME NEW d \in Clusters, d \notin todo, Asks(seen[d])
                   PROVE  \E e \in cron' : e.cluster = d /\ e.schedule = seen[d].schedule
        BY <2>0, <3>1 DEF Handled, Asks
      <4>1. PICK e \in cron : e.cluster = d /\ e.schedule = seen[d].schedule
        BY <1>0 DEF Handled
      <4>2. entries[d] = e.id /\ e.id \in Ids
        BY <1>0, <4>1 DEF TypeOK, OneEntryPerCluster, Entries
      <4>3. e.id # entries[c]
        BY <1>0, <2>0, <4>2, ConstantsAssumption DEF OwnIds
      <4> QED BY <3>1, <4>1, <4>3
    <3> QED BY <1>0, <2>0, <2>1, <3>1, <3>2 DEF TypeOK, OneEntryPerCluster, OwnIds
  <2>4. CASE b.enabled /\ b.schedule # None /\ b.schedule # Bogus
    <3>1. AddFunc(c, b.schedule, rest)
      BY <2>0, <2>4 DEF Register
    <3>2. b.schedule \in Schedules
      BY <1>0, <2>4 DEF TypeOK, Backups
    <3>3. /\ cron' \subseteq Entries /\ entries' \in [Clusters -> Ids \cup {None}]
          /\ todo' \subseteq Clusters
          /\ OneEntryPerCluster' /\ OwnIds' /\ Handled'
      BY <1>0, <2>0, <3>1, <3>2, AddsEntry
    <3> QED BY <1>0, <2>0, <2>1, <3>3 DEF TypeOK
  <2> QED BY <2>2, <2>3, <2>4
<1>6. ASSUME NEW c \in Clusters, ReconcileFails(c) PROVE IInv'
  BY <1>0, <1>6, ConstantsAssumption DEF ReconcileFails, Interfere, store, scheduler, TypeOK,
     OneEntryPerCluster, OwnIds, CurrentCopies, Handled, Asks
<1>7. ASSUME NEW c \in Clusters, finalize(c) PROVE IInv'
  <2>1. CASE c \in lag
    BY <1>0, <1>7, <2>1 DEF finalize, store, scheduler, TypeOK, OneEntryPerCluster, OwnIds,
       CurrentCopies, Handled, Asks
  <2>2. CASE c \notin lag
    <3>1. Store(c, Gone) /\ series' = series \ {c} /\ todo' = todo \ {c}
          /\ seen[c].life = "marked" /\ UNCHANGED <<seen, cron, entries, runs, budget>>
      BY <1>7, <2>2 DEF finalize, scheduler
    <3>2. spec' \in [Clusters -> Backups] /\ lag' \subseteq Clusters /\ CurrentCopies'
      BY <1>0, <1>b, <3>1, Stores
    <3> QED BY <1>0, <3>1, <3>2 DEF TypeOK, OneEntryPerCluster, OwnIds, Handled, Asks
  <2> QED BY <2>1, <2>2
<1>8. ASSUME NEW c \in Clusters, NotFound(c) PROVE IInv'
  BY <1>0, <1>8 DEF NotFound, store, scheduler, TypeOK, OneEntryPerCluster, OwnIds,
     CurrentCopies, Handled, Asks
<1>9. ASSUME NEW e \in cron, Elapse(e) PROVE IInv'
  <2>1. cron' \subseteq Entries /\ OneEntryPerCluster' /\ Handled'
    BY <1>0, <1>9, Retimed DEF Elapse
  <2> QED BY <1>0, <1>9, <2>1 DEF Elapse, store, TypeOK, OwnIds, CurrentCopies
<1>10. ASSUME NEW e \in cron, Fire(e) PROVE IInv'
  <2>1. cron' \subseteq Entries /\ OneEntryPerCluster' /\ Handled'
    BY <1>0, <1>10, Retimed DEF Fire
  <2>2. runs' \in [Clusters -> 0..MaxRuns]
    BY <1>0, <1>10, ConstantsAssumption DEF Fire, TypeOK, Entries
  <2> QED BY <1>0, <1>10, <2>1, <2>2 DEF Fire, store, TypeOK, OwnIds, CurrentCopies
<1>11. ASSUME NEW c \in Clusters, RunEnds(c) PROVE IInv'
  <2>1. runs' \in [Clusters -> 0..MaxRuns] /\ series' \subseteq Clusters
    BY <1>0, <1>11, ConstantsAssumption DEF RunEnds, TypeOK
  <2>2. spec' \in [Clusters -> Backups] /\ lag' \subseteq Clusters /\ CurrentCopies'
    <3>1. CASE UNCHANGED store
      BY <1>0, <1>11, <3>1 DEF RunEnds, store, TypeOK, CurrentCopies
    <3>2. CASE Store(c, spec[c])
      <4>1. spec[c] \in Backups
        BY <1>0 DEF TypeOK
      <4> QED BY <1>0, <1>11, <3>2, <4>1, Stores DEF RunEnds
    <3> QED BY <1>11, <3>1, <3>2 DEF RunEnds
  <2> QED BY <1>0, <1>11, <2>1, <2>2 DEF RunEnds, scheduler, TypeOK, OneEntryPerCluster,
             OwnIds, Handled, Asks
<1>12. ASSUME Restart PROVE IInv'
  <2>1. TypeOK'
    BY <1>0, <1>12, ConstantsAssumption DEF Restart, Interfere, TypeOK
  <2>2. OneEntryPerCluster' /\ OwnIds' /\ CurrentCopies'
    BY <1>12 DEF Restart, OneEntryPerCluster, OwnIds, CurrentCopies
  <2>3. Handled'
    BY <1>12 DEF Restart, Handled, Asks
  <2> QED BY <2>1, <2>2, <2>3
<1>13. CASE UNCHANGED vars
  BY <1>0, <1>13 DEF vars, TypeOK, OneEntryPerCluster, OwnIds, CurrentCopies, Handled, Asks
<1> QED
  BY <1>1, <1>2, <1>3, <1>4, <1>5, <1>6, <1>7, <1>8, <1>9, <1>10, <1>11, <1>12, <1>13
  DEF Next, Step, Work, FireOf

\* The inductive invariant holds in every reachable state.
LEMMA Invariance == Spec => []IInv
<1>1. ASSUME Init PROVE IInv
  <2>1. Gone \in Backups
    BY DEF Gone, Backups, Lives
  <2>2. TypeOK
    BY <1>1, <2>1, ConstantsAssumption DEF Init, TypeOK
  <2> QED BY <1>1, <2>2 DEF Init, IInv, OneEntryPerCluster, OwnIds, CurrentCopies,
             Handled, Asks, Gone
<1> QED BY <1>1, Inductive, PTL DEF Spec

\* backup.go:69-88: cron holds only what it can parse, for known clusters.
THEOREM SchedulerTypes == Spec => []TypeOK
<1>1. IInv => TypeOK
  BY DEF IInv
<1> QED BY <1>1, Invariance, PTL

\* backup.go:74-76: Register leaves no entry behind that the map has lost.
THEOREM OneEntry == Spec => []OneEntryPerCluster
<1>1. IInv => OneEntryPerCluster
  BY DEF IInv
<1> QED BY <1>1, Invariance, PTL

\* backup.go:69-88 with controller.go:90-94: a cluster whose events are handled
\* is on the schedule its spec asks for.
THEOREM ScheduledAtRest == Spec => []RegisteredAtRest
<1>1. IInv => RegisteredAtRest
  BY DEF IInv, CurrentCopies, Handled, Asks, RegisteredAtRest, Wanted
<1> QED BY <1>1, Invariance, PTL
=============================================================================
