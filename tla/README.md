# A TLA+ verification of tsdb-operator

tsdb-operator is a Kubernetes operator for Prometheus. Its difficulty is not in
any one function but in what happens between them: a reconcile works on cached
copies that lag behind the API server, three parts of the operator write one
status, backups overlap and are stopped in the middle, pods are replaced under
the name somebody has just probed, two Sets want the same member, and an
operation and its audit row are two steps. This project models those parts in
TLA+, checks them with TLC on small instances, and proves the most important
results with TLAPS for every value of the constants.

Paths below are relative to `src/`.

## 1. Inventory

| Part | State | Operations | Hard behaviour | Correct when |
|---|---|---|---|---|
| PrometheusCluster controller, `internal/controller/prometheuscluster_controller.go` | finalizer, children (ConfigMap, Service, StatefulSet), status, `ClusterPhase` series | `Reconcile`, `finalize`, `reconcileConfigMap`, `reconcileHeadlessService`, `reconcileStatefulSet`, `updatePhase` | stale caches, conflicts, events during a reconcile, the name deleted and created again, restarts | no event is lost, nothing is created for a cluster that is gone, deletion finishes, series go with the cluster |
| Rendering, same file | none: the spec to ConfigMap and pod template | `renderConfig`, `buildStatefulSet`, `buildThanosSidecar`, `buildReloaderSidecar` | four functions that must agree on file names, volumes and flags | every file the configuration names is in the container that reads it |
| Validating webhook, `internal/webhook` | none | `validate` on create and update | it also judges the operator's own updates | admits what rendering can serve, and does not stand in the way of deletion |
| Backup scheduler, `internal/backup/backup.go` | cron entries, the map `entries` | `Register`, cron ticks | `Register` is called by every reconcile and replaces the entry; ids of removed entries stay in the map; all is lost at a restart | one entry per cluster, the schedule of the spec, runs go on |
| Backup run, same file | snapshot directory, S3 object, `LastBackupTime`, `BackupTotal` | `RunOnce`, `snapshot`, `cleanupSnapshot` | overlapping runs, a copy read before a long upload and written after it, a failure at each of six calls | a success is in the bucket, directories go away, the status tells the truth |
| Tar stream, `backup.go`, `exec.go`, `s3client.go` | pipe, channel, goroutine | `tarStreamToS3`, `Exec`, `StreamUpload` | either side fails first; both ends and the channel must be let go | all of the archive or nothing, and no goroutine left |
| Health checker, `internal/ha/ha.go` | `LastFailoverTime`; the pods | `checkAll`, `checkCluster`, `triggerFailover` | pods replaced between list, probe and delete; one copy of the cluster written several times | stuck pods are rebuilt, healthy ones left alone |
| PrometheusClusterSet controller, `prometheusclusterset_controller.go`, `_helpers.go` | the Set's status; `spec.backup` and an annotation of its members | `Reconcile`, `allowedNamespaces`, `overlayBackup`, `enqueueAllSets` | writes specs a user and another controller write, from a cache; logs the error and goes on; two Sets may share a member; its own writes are its events | members that own their backups or opt out are left alone, the others are overlaid, the status is true and Sets come to rest |
| REST API, `pkg/api/server.go` | none of its own | eight handlers, `audit`, `statusFor`, `ListenAndServe` | concurrent handlers, clients that leave, calls that fail after they took effect, shutdown | an answer is right about what happened |
| Audit log, `internal/audit/audit.go` | rows in Postgres | `Record`, `Query`, `Prune`, `Start`, `tick` | the operation, its row and the answer are three steps; a cutoff in a duration of fixed width; a limit and equal timestamps | rows are true, in order, there while the retention asks and gone after it |
| Metrics, `internal/metrics` | series in memory | `SetPhase`, `DeleteCluster` | re-created by whoever writes last | they go with the cluster |
| tsdb-ctl, `cmd/tsdb-ctl` | a local file | `list`, `restore`, `latestKey` | one page of a listing, while runs go on storing | the newest archive, whole |
| Manager wiring `cmd/main.go`, CRDs, chart, dashboards, e2e tests | - | - | - | what a start sets up and a restart rebuilds is in the models; the rest is set-up and data |

How they interact. The API server is the only shared store. The controller, the
scheduler and the health checker read it through one informer cache and write it
with optimistic concurrency: an update is refused when the copy's resourceVersion is
not the stored one. `Reconcile` calls `Register`, whose map has no lock: it is safe
because each controller runs one worker. cron starts `RunOnce` in goroutines of its
own. Every write to the cluster, stamps of the scheduler and the checker included,
comes back to the controller as an event, and so to `Register`. A Set writes its
members' specs; every event of a cluster, those included, asks for a pass of every
Set. The REST handlers create and delete clusters and write the audit log. tsdb-ctl
shares nothing with the operator but the bucket.

`PROJECT.json` lists the hazards, each at its line, with the properties that
would show it going wrong.

## 2. Modules

| Module | Models | Used by |
|---|---|---|
| `PrometheusConfig` | rendering and validation as operators on a spec | `SpecRendering`, `ClusterReconciler` |
| `SpecRendering` | edits of a spec, one field at a time, with the rendering properties | runs, `SpecRenderingProofs` |
| `ClusterLifecycle` | abstract: what the controller promises of a cluster, its children and its series | refined by `ClusterReconciler` |
| `ClusterReconciler` | the controller on one name, with store, caches, queue, worker, garbage collector, StatefulSet controller, users, other status writers, faults | `MCClusterReconciler`, `ClusterReconcilerProofs` |
| `BackupScheduler` | `Register`, the map, cron, runs and restarts, for several clusters | `MCBackupScheduler`, `BackupSchedulerProofs` |
| `TarStream` | `tarStreamToS3`: goroutine, pipe, channel, upload | `TarStreamProofs` |
| `BackupRun` | `RunOnce`, several at once, with the outcomes of `TarStream` as one step | `TsdbCtl`, runs |
| `TsdbCtl` | `tsdb-ctl restore` on the bucket of `BackupRun`, composed with it | `MCTsdbCtl`, `BackupRunProofs` |
| `HealthChecker` | a pass of the checker against pods that live and die | runs, `HealthCheckerProofs` |
| `ClusterSet` | Sets, members, namespaces, the informers and the Sets' worker | `MCClusterSet`, `ClusterSetProofs` |
| `AuditLog` | the rows, the pruner and the query | `RestApi` |
| `RestApi` | concurrent handlers of the REST API on one name, with the log | `MCRestApi`, `RestApiProofs` |

`MC*` modules hold only the finite values of constants. An operator whose
comment begins with "Mistake" is a wrong variant of the definition below it:
putting it in that definition's place must make a property fail, which shows
that the property can tell the two apart. No action uses one.

### State and actions against the code

**ClusterReconciler.** `Reconcile` takes the key and reads the cluster from the
cache; `firstStep` is its chain of early returns. Each later action is one API
call with the code up to the next: `AddFinalizer` (and the reconcile ends),
`finalize` (remove the finalizer, then `metrics.DeleteCluster`),
`RegisterBackup` (an error returns before any child is written),
`reconcileConfigMap`, `reconcileHeadlessService`, `CreateStatefulSet` or
`UpdateStatefulSet` (both set the phase that `updatePhase` writes), and
`updatePhase`, which always writes the status and then sets the series. `Fail`
is a returned error: the key is queued again. `ApiError` is a call that fails
without effect, `finalizeReplyLost`, `statusReplyLost` and `childReplyLost` are
calls that take effect and fail all the same. `Admitted` is the webhook, which
judges every create and update of the cluster, those of the finalizer by the
operator included, and which a restart may switch on or off. A resourceVersion
is only ever compared with the stored one, so a copy is current or it is in
`stale`; this is exact and keeps the state space finite. `CreateOrUpdate` follows
controller-runtime: create when the cache has no copy, otherwise update when
the mutated copy differs. For the Service it always differs, because the API
server fills in defaults of the ports that the mutate function does not set.
`Take`, `Stamp` and `Release` are the reads and status writes of `RunOnce` and
of the health checker; the checker keeps its copy for the next pod of the pass.

**BackupScheduler.** `Register` removes the entry the map names, then `AddFunc`;
when `AddFunc` fails the old id stays in the map, as in the code. Entry ids are
compared for equality only, so an id that neither cron nor the map holds stands
for cron's next. `Elapse` makes an entry due and `Fire` starts a run, unless a
`Register` in between has replaced it. `RunEnds` counts into `BackupTotal` and
may stamp the status, which is an event of the cluster.

**TarStream.** The pipe has no buffer, so `chunk` is the one write that waits.
Exec returns nil only for a `tar` that exited 0; after a write the pipe refused
it may report either way.

**BackupRun.** `Get`, `snapshot`, `tarStreamToS3` or `fallback`,
`cleanupSnapshot`, `stamp`, in the order of `RunOnce`; each may fail, with or
without effect where the call has one, and a restart loses all runs under way.
The service name resolves to any replica; `tar` and `rm` run on replica 0.
The body of `fallback` is a `byteReader` that cannot seek: over plain HTTP the SDK
refuses it and the run is an error, over TLS (`TLS`) it may be stored. An
object has its key, which is the second of its snapshot, LastModified, and for
the properties the second in which its upload ended (`stored`).

**HealthChecker.** One action per call: the listing, each probe, the delete and
the stamp. A copy of a pod has the address of the pod that now has the name, of
an earlier one, or none (the probe is skipped). The order of the pods in a pass
is left open.

**TsdbCtl.** `Begin`, `List`, `CreateFile` and `Download` are `restore` without
`--key`, broken where the bucket can change: `latestKey` on the first page of
the listing, `os.Create`, then `GetObject` and the copy. LastModified is the
second in which an upload began or ended, since S3 says either by upload kind.

**ClusterSet.** All objects are one function, with copies current or in `stale` as
in `ClusterReconciler`. `Sync` delivers an object to the cache and enqueues what
`For` and `enqueueAllSets` enqueue: the Set itself, or the Sets the cache lists;
nothing for a namespace. `Reconcile` reads the Set, namespaces and clusters from the
cache. Then one step per member, in any order, since the cache lists in none:
`overlayBackup` (accepted, refused by the lock, or failed for another reason; in
each case the loop goes on) or `noOverlay`; then `updateStatus` with the sorted
members. The update of `overlayBackup` goes through the webhook (`Refuses`), which
judges the whole object: it refuses a template without a bucket or with a bad
schedule (`BadTemplates`), and every overlay of a stored member that breaks its
rules (not `admissible`), in each pass again. `sortMembers` says what `sort.Slice`
returns, by counting the members ahead of each: no two have one name, so the order
is the only one. `missed` is not in the code: it marks the Sets that want a pass no
event will bring, after a swallowed error other than a conflict and after a
namespace's relabelling. `Resync` is the informers' replay, every ten hours by
default.

**RestApi and AuditLog.** A request is sent, its handler calls the API server
(`Call`), inserts the audit row (`Record`) and answers (`Answer`). A call
succeeds, is refused, or fails with or without effect. A departed client
cancels the context, so later calls may fail. `createCluster` audits successes
only, `deleteCluster` both. The timestamp is taken when `Record` is entered,
which is when the call returns. `before`, `applied` and `unrecorded` (the
requests whose INSERT failed) are history variables. `Duration`
wraps at a fixed width, as `time.Duration` does, and nothing is assumed of the
retention; `Fits` says that it does not wrap.

**PrometheusConfig.** The text of `prometheus.yml` is reduced to its blocks and
the files and placeholders they name; volumes, mounts, arguments and
containers are sets. The sidecar's objstore reference is absent, or present with a
name or without one: `buildThanosSidecar` tests only that it is there.

## 3. Runs

| Run | Instance | Shows |
|---|---|---|
| `rendering` | all specs of small field sets | For admitted specs each scrape file is served by a volume of the prometheus container (`ScrapeFilesReadable`), every mount has a volume, which names what backs it unless it is the Thanos object store's (`MountsBacked`), no scrape source is shadowed (`ScrapeSourcesUsed`), labels with placeholders and the flag under which they are expanded go together (`ThanosLabelsExpand`) |
| `remote_write_auth` (violation) | same | The credential files of `remote_write` are in no volume |
| `reconciler_edits` | 1 incarnation, 2 specs, 2 steps of interference | `RestsInSync`: whatever was edited, lost, half done or restarted during a reconcile, a controller at rest has made the children of the spec and reported them. `NoLostStatus`: no writer of the status undoes another |
| `reconciler_lifecycle` | 1 incarnation, a good spec and one that cron and the webhook refuse, the webhook on or off, 1 step of interference | `TypeOK`, `ChildrenOnlyUnderFinalizer`, `SeriesFollowsCluster`, that the controller implements `ClusterLifecycle`, and `Converges` and `DeletionCompletes` |
| `tar_stream` | 8 chunks | `NoTornArchive`, `SuccessIsStored`, and `Returns`: the call returns and the goroutine ends whichever side fails, and without any failure to free a blocked side |
| `backup_schedule` | 2 clusters, 3 steps of interference | `OneEntryPerCluster`, `RegisteredAtRest`, `KeepsRunning` |
| `backup_run` | 3 runs, 2 replicas, 1 fault, 3 seconds, a page of 2 keys, 1 restore, S3 over TLS | `OwnSnapshotKept`, `SuccessHasObject`, `TarredReplicaCleaned`; `LastBackupHonest`: the stamp moves only forward and only for a run whose object is in the bucket; `RestoreCurrent`: a restore that succeeds has the object it chose, and its snapshot is older than one reported before it began only if the page cut keys off or its upload was still going on when that one was taken |
| `backup_two_replicas` (violation) | no fault | Snapshots stay on the replica that is not tarred |
| `restore_page` (violation) | 2 runs, no fault, a page of 1 key | Restore takes an older archive than a reported one, because the page holds the oldest keys |
| `health_heals` | 2 pods, 3 faults, start within an interval | `SelfHeals`; `FailoversStamped`: a second failover of a pass is not lost to the first one's write |
| `cluster_set` | 2 clusters in 2 namespaces, 2 Sets, 4 fleets to start from, the webhook on, 3 templates of which it refuses one, 1 step of interference | `MemberWins`: no template lands on a member that owns its backups or opted out, and no other change is lost. `StatusAtRest`, `OverlaidAtRest`: no event, conflict or lost reply leaves a Set at rest with something to do that the webhook lets it do. `NoIdleWrites`: Sets do not keep each other busy. `Converges` |
| `rest_audit` | 3 requests in 4 combinations, 1 fault, 3 days, retention 1 day, limit 1 | `AnswersHonest`, `RowsTrue`, `Recorded`, `RealTimeOrder`, `ReadYourWrites`; `PrunesOld`: rows do not outlive the retention for ever |

### Bounds

*Interference* (`MaxBudget`, `MaxFaults`) counts edits, drift, lost pods, foreign
writes, errors and restarts, so that TLC tries every such step at every point;
creating and deleting the cluster are free. One step is enough to invalidate each
kind of copy once, two to combine an error with a change. The runs of the controller
have one incarnation of the name; that a copy of one incarnation does no harm to the
next is what the theorems show, for every `MaxUid` (liveness is shown for one
incarnation). Three runs are one more than the least that overlap, and with a page
of two keys they overflow the listing; the code's page is 1000 keys, and nothing
depends on the number.  In three seconds an upload can outlast another run's
snapshot. Two Sets over two members in two namespaces are the least that compete for
a member and differ in what a namespace's label does to them; the fleets to start
from include Sets still to be created, a selector that is invalid, a template the
webhook refuses, and a stored member that it would refuse, as one has that is older
than the webhook. Three requests allow a create, a delete and a query, or a request
repeated; three days with a retention of one have a row that is too old, one exactly
at the cutoff and one younger; the limit of one row makes the query cut. Two
clusters are the least whose cron entries could be mixed up (with one schedule cron
can parse and one it cannot; that an edit from one good schedule to another takes
effect is part of the theorem `ScheduledAtRest`), three faults let both pods fail
over and something else go wrong. Ids: one more than clusters, so there is always a
next one. The theorems below do not depend on any of these.

Deadlock is not checked: with the bounds used up, or the cluster deleted and no
name left to create, the models rest, as the idle operator does.

### Fairness

* Controller: weak fairness of the worker, of the informers, of the garbage
  collector and of pods becoming ready. The work queue retries a failed key for
  ever with a growing delay, informers relist after a lost watch, and the others
  are control loops of the cluster. Nothing is assumed of users or of faults.
* Scheduler: the informer, the worker and cron's loop run, and a `RunOnce` ends.
  The last is an assumption on tar and S3, which have no deadline in the code.
* Tar stream: the goroutine and the caller are scheduled, tar goes on writing
  until it exits, S3 takes what it is sent. The failures of tar and of the upload
  are outside the fairness: they may free a blocked side, and `Returns` does not
  count on it. It fails when either `CloseWithError` or `pr.Close` is left out.
* ClusterSet: informers deliver and resync, calls return, and the queue serves
  each of its keys in turn, which is strong fairness of each Set's pass: a pass
  is disabled, again and again, while the worker is busy with the other Set.
* RestApi: handlers, pruner and clock go on, and the process comes back after a
  shutdown or crash, as a Deployment's does. Nothing is assumed of clients.
* Health checker: the timer ticks, probes end at their timeout, the StatefulSet
  controller and the kubelet work. The interval of 30 s is taken to be long
  enough for informers and terminations unless a fault says otherwise; whether
  it is long enough to start a pod is the constant `StartTicks`.

## 4. Proofs

Every invariant and every action property that a passing run checks is also a
theorem (two of them under a hypothesis, see below); what is left to TLC alone is
liveness. The theorems hold for every value of the constants that satisfies the
named assumptions:

* `SpecsAssumption`: a spec asks for at least one replica, the CRD's minimum; users
  write no template by hand;
* `BoundsAssumption`, `BoundAssumption`, `SizeAssumption`: bounds are naturals, and
  there is at least one second in which a run can happen;
* `NamesAssumption`: clusters, Sets and namespaces are not mixed up, clusters are
  numbered in the order of their names, and there are finitely many;
* `RetentionAssumption`: retention and units of time are integers. That the
  retention fits a time.Duration is not assumed, since the code does not check it:
  it is the hypothesis `Fits` of the two theorems that need it;
* the others say that `None` and the model values are none of the values they are
  told apart from (a key, an object, an answer, the ConfigMap's volume).

Four of the proofs meet the same question: the code decides on a copy that may be
old, and ends a pass without looking back. The inductive invariants answer it
alike. One half says when a copy may be trusted (`CurrentCopies`); the other says
that whenever nothing is to come (no event undelivered, no key queued), the pass
under way, up to the step it is at, or the last one, has done its work on what is
stored now. A step that changes what a pass has looked at must therefore leave an
event or a key behind, and the proof has one case per action to show that it does.

**ClusterReconcilerProofs**: `TypeCorrect`, `SeriesSafe`, `CreatesSafe`,
`StatusSafe`, `Refinement`, `ComesToRestInSync`. That no child is created for a
cluster that is gone is not inductive: nothing in the worker's state says what is
stored. The inductive invariant adds

* `CurrentCopies`, `CurrentChildren`: a copy not marked stale is the stored
  object, so an accepted write is a write on what the writer saw;
* `KnownUids`: no copy names an incarnation still to come;
* `Adoption`: a live copy in the cache, or a worker past the finalizer check,
  implies that this incarnation is stored and under its finalizer. The reason is
  that only this one worker removes the finalizer, it does so from a copy that
  carries the deletion mark, and the cache it read never goes back before the
  mark. This is why the lagging cache is harmless, and it would fail with a
  second worker on the key or with the finalizer removed elsewhere.

`StatusSafe` is an action property from `CurrentCopies`. `Refinement` maps
`life`, the existing kinds and the series onto `ClusterLifecycle` and shows each
step to be a step or a stutter there. `ComesToRestInSync` adds `PassSeen`: while
the controller is `Settled`, the worker's copy is current and the children it is
past are rendered (`UnderWay`), and an idle worker has left children, status and
series as the stored spec and the StatefulSet want them (`Rested`). The phase is
taken from the StatefulSet before its update; the invariant shows why that is
enough, since an update that changes anything brings another pass.

**SpecRenderingProofs**: `ScrapeFilesAreReadable`, `ScrapeSourcesAreUsed`,
`MountsAreBacked`, `LabelsAreExpanded`, for every spec of any field values. The work
is in the paths: the mount that serves a file is the one with the longest directory
above it, so the lemmas compare the directories of the mounts component by component
(`ConfigDirIs`, `ExtraSecretDirIs`, `Over`) and show that the Secret's mount below
the ConfigMap's takes its own file and no other (`InlineServed`, `SecretServed`).

**TarStreamProofs**: `ArchiveWhole`, `SuccessStored`, for an archive of any size.
`ExecInv` ties the write end to what Exec returned; `ReadInv` counts: while the
upload reads, it has read all that was written save the chunk in the pipe, so an
end of file can only follow a whole archive.

**BackupRunProofs**: `SnapshotsKept`, `SuccessStored`, `ReplicaCleaned`,
`LastBackupIsHonest`, for the runs alone and together with a restore, and
`RestoresCurrent`; for any runs, replicas and faults. `Past` orders the times: the
clock is ahead of every key, an object is not modified before the second of its
key. `Stored`, `Covered` and `Claimed` are the three theorems a step earlier, at a
run that has uploaded, stamped or still to clean up. For the restore, `Promised`
keeps the successes it began after, `Newest` says that the object it chose was
stored no earlier than each of them took its snapshot, unless the page was cut,
and `Fetched` that what it downloaded has that key, although an overlapping
run of the same second may have replaced the object.

**BackupSchedulerProofs**: `SchedulerTypes`, `OneEntry`, `ScheduledAtRest`, for any
number of clusters. `OwnIds` is the interesting part: a `Register` that fails
leaves the id of a removed entry in the map, and the next one removes that id
again, so no other cluster may have been given it. `Handled` speaks of the
cached spec, `CurrentCopies` carries it to the stored one.

**HealthCheckerProofs**: `FailoversAreStamped`, for any pods, start-up time and
faults. `InHand`: in a pass nothing has come between, the copy in hand is current
after each stamp as before the first (`Status().Update` brings back the new
resourceVersion), and the only failover without a stamp is the one being stamped.

**ClusterSetProofs**: `TypeCorrect`, `TemplatesNeverOverride`,
`RestingSetsHaveOverlaid`, `RestingSetsReport`, `NoStatusIsRewritten`, for any Sets,
members and namespaces. The decision to overlay is taken on a copy from the cache;
`CurrentCopies` says that a copy in the worker's hands that is not stale is the
stored object, and the update of a stale one is refused. `Wanting` are the members
a pass would overlay and the webhook would let it. For Sets at rest,
`PassesSeen` says of each Set that nobody has asked a pass for what its pass has
seen: under way (`UnderWay`), the caches still hold what it read, and each member
it wanted to overlay is one whose event is to come, because it was written by this
pass or by whoever caused the conflict; afterwards (`Passed`) the status lists the
selected members. `Computed` says that every stored status is a sorted one. What
remains is counting: `Sorting` (the members sorted are the same members, in
order), `ListCounts` (the counters of the status are cardinalities) and
`SortedUnique` (a sorted list of the same members is the same list), which makes
`NoStatusIsRewritten` an action property.

**RestApiProofs**: `TypeCorrect`, `RowsAreTrue`, `AnswersAreHonest`,
`LogKeepsOrder`, `AnsweredIsRecorded`, `ReadsOwnWrites`, for any requests.
`Informed` says what a handler under way knows of its call; `Stamped` and
`RowsMatch` carry the order of answers and requests to the rows. `Written`, of a
handler about to answer, and `Logged`, of one that has answered, say that its row is
there while it is `Kept`: not older than the cutoff as the code computes it, wrapped
or not, so they are inductive for every retention. `CutoffFits` shows that a
retention that fits does not wrap; with `Fits` the two theorems follow, and section
5 says what happens without it. `Queried` ties an answered query to the table it was
computed from, and `CutOff` that a row which is missing from it was cut off by rows
at least as new.

Only model-checked: everything under fairness (`Converges` of the controller and
of Sets, `DeletionCompletes`, `KeepsRunning`, `Returns`, `SelfHeals`, `PrunesOld`),
which is out of the prover's reach.

## 5. Findings

1. **Credentials of remote_write** (`remote_write_auth`): `renderConfig` names
   files below `/etc/prometheus/secrets`, and no volume is mounted there.
2. **Snapshots on other replicas** (`backup_two_replicas`): the request goes to
   the headless service, `tar` and `rm` to replica 0. With two replicas a run
   fails and leaves its directory whenever the other one answers.
3. **One page of the listing** (`restore_page`): `tsdb-ctl restore` without `--key`
   is to take the newest object, and reads the first 1000 keys, which are the
   oldest.

Seen in the models and not stated as runs, in most cases because the code has no
mechanism a property could hold it to:

* The replica label is empty on every replica: `renderConfig` writes
  `${POD_NAME:-unknown}`, and `os.Expand`, with which Prometheus expands external
  labels, knows no default: it looks up a variable named `POD_NAME:-unknown`.
  README.md:50 promises a "per-pod `replica` label". `ThanosLabelsExpand` is about
  the flag and the sidecar, not about what a placeholder expands to.
* The HTTP status of the snapshot request is not looked at, so an error answer takes
  a run that has an executor to the fallback that backup.go:92-93 says is "used only
  in tests". Over plain HTTP the SDK refuses its body (CHANGELOG.md:296-298) and the
  run ends in an error about the upload; over TLS the answer may be stored as a
  `.tar` and count as a success (`BackupRun`, `fallback`), and `SuccessHasObject`
  and `RestoreCurrent` do not tell it from an archive.
* `latestKey` goes by LastModified, to the second: of two overlapping runs the older
  snapshot is restored when its upload ended in the same second or later.
  docs/RESTORE.md:49 says "take the newest automatically". Together with the page
  this is the only way to an older archive: `RestoreCurrent` has it as `Outlasted`.
* `--audit-retention-days` has no upper bound. From 106752 days on the product
  wraps, and some values put the cutoff into the future, so that every row goes:
  `rest_audit` with a `RetentionDays` of 5, where `Half` is 4, has `Recorded` violated.
* `createCluster` audits no failure, not even of a call that took effect, `audit`
  drops the error of `Record`, and kubectl and cron pass the log by, although
  README.md:66 says "every cluster mutation + backup event recorded". `Recorded`
  says what does hold. Requests that overlap may be recorded in either order.
* The cron entry of a cluster stays when the cluster is deleted or its backups
  are switched off; its runs fail at `Get` and count into `BackupTotal`, after
  `metrics.DeleteCluster` has dropped the series (`BackupScheduler`, `RunEnds`).
* `RunOnce` writes the status from a copy read before the upload: any write in
  between makes the stored backup an error and leaves `LastBackupTime` behind
  (`BackupRun`, `stamp`). The stamp of a failover is lost the same way, and its
  conflict only logged. Directories and objects of runs that a restart ended stay.
* The failover deletes by name without a UID precondition, so a pod replaced
  since the listing loses its ready successor (`HealthChecker`,
  `triggerFailover`).
* A pod that needs longer than an interval of 30 s to start, for example to
  replay its log, answers 503 meanwhile and is deleted in every pass
  (`HealthChecker` with `StartTicks` of 2 has `SelfHeals` violated). README.md:22
  says only that the loop deletes such pods.
* When the reply to `finalize`'s update is lost, the retry finds no cluster and
  the series stay until the name is used again or the operator restarts
  (`finalizeReplyLost`, the value `Orphan`).
* A webhook switched on over a spec it rejects also rejects the operator's own
  updates: the finalizer can then be neither added nor removed (`Barred`).
* Sets: a changed template does not reach members that carry the old one; a user
  who switches an overlaid member's backups off gets the template again; an
  overlay that failed is tried again only at the next event or resync; nothing
  watches namespaces. `api/v1/prometheusclusterset_types.go:44` says members win
  "on any field they set", `docs/CLUSTERSET.md` that `spec.backup` is replaced
  wholesale; the code does the latter.
* The webhook refuses an overlay for good when the Set's template has no bucket or
  a schedule cron cannot parse, or when the stored member breaks another of its
  rules. The error is logged in every pass and nothing in the Set's status says
  so; the member stays without backups. `OverlaidAtRest` and `Converges` except
  exactly these members (`Covered`).
* `objectStorageConfigSecretRef: {}` is a reference whose name the CRD defaults to
  the empty string and the webhook does not check. The pod template then has a
  Secret volume without a name, which the API server refuses in every reconcile.
  `MountsBacked` excepts the name of this volume.
* An `@every` schedule counts from its registration, so a cluster whose events keep
  coming faster than that is never backed up. `KeepsRunning` is about what happens
  once they cease.
* `POST /api/clusters/:name/backup` always answers 503: `cmd/main.go:291` never
  sets `Server.Backup`.
* `tsdb-ctl restore --prefix demo` also matches `demo2/`. `os.Create`
  empties an earlier download before the new one has begun.
* The Secret of a scrape `secretRef` is mounted in the prometheus container and
  not in the reloader's, which therefore cannot see it change.

## 6. Not modelled

Assumed of the outside: Exec returns nil only when tar exited 0; Prometheus
never uses a snapshot name twice; a pod's address is not given to another pod
while a copy naming it is in use; the operator runs with backups enabled; the
clock does not step back; S3 lists what it has stored.

Left out: log texts, events, TLS, flags and leader election (`cmd/main.go`),
generated deepcopy code, chart and manifests, dashboards, tests. Of modelled
parts: the handlers that only read a cache (`getCluster`, `listClusters`,
`getClusterSet`, `listClusterSets`), `tsdb-ctl list`, counters nobody reads,
cron's stop at shutdown (a crash of the runs covers what it leaves behind),
object keys shared by clusters of one name in two namespaces, and configuration
reload inside the pod.

## 7. Plan

Built in this order: rendering, since the controller compares what it renders;
the controller, on which everything else rests; its abstract specification; the
backup path from the stream outwards; the health checker; then Sets, REST API,
audit log and tsdb-ctl, and in the controller lost replies and the webhook; then
the proofs of all safety properties. Next:

1. Abstract specifications for the other components, as `ClusterLifecycle` is for
   the controller: what `RunOnce` promises of the bucket and the status, refined by
   `BackupRun`; what the log promises of a request, refined by `RestApi`.
2. A composition of the scheduler with the run, so that a stamp's event, the
   `Register` it causes and the next run are steps of one behaviour.
3. A composition of `ClusterSet` with the scheduler: an overlay that ends in a
   cron entry.
