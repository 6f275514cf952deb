--------------------------- MODULE BackupRunProofs ---------------------------
(***************************************************************************)
(* Proofs about the backup runs and about the restore that reads what they *)
(* store, for any number of runs, replicas, seconds and faults and any     *)
(* page size.                                                              *)
(***************************************************************************)
EXTENDS TsdbCtl, TLAPS

Places == {"idle", "snapshot", "upload", "fallback", "cleanup", "stamp"} \cup Ends

\* Keys of a run that has none yet are 0.
RunTyped ==
    /\ now \in 1..MaxSecond /\ last \in 0..MaxSecond /\ faults \in 0..MaxFaults
    /\ run \in [Runs -> [at : Places, pod : Pods, key : 0..MaxSecond]]
    /\ bucket \subseteq Objects

\* The clock is ahead of every key and of LastBackupTime, and an object is not
\* stamped before the second of its key, nor after the one it was stored in.
Past ==
    /\ last <= now
    /\ \A r \in Runs :
         /\ run[r].key <= now
         /\ run[r].at \in {"upload", "fallback"} => run[r].key >= 1
    /\ \A o \in bucket : o.modified >= o.key /\ o.stored >= o.modified

\* From the end of its upload on, a run's key is taken.
Stored == \A r \in Runs : run[r].at \in {"cleanup", "stamp", "success"} =>
             \E o \in bucket : o.key = run[r].key

\* A run counts as a success only with a LastBackupTime no older than its key.
Covered == \A r \in Runs : run[r].at = "success" => last >= run[r].key

\* As long as nothing has failed, a directory on the tarred replica belongs to
\* a run that will remove it.
Claimed == faults = MaxFaults =>
    \A r \in Runs : <<0, r>> \in dirs => run[r].at \in {"upload", "cleanup"}

RunInv == RunTyped /\ Past /\ OwnSnapshotKept /\ Stored /\ Covered /\ Claimed

\* What restore was promised when it began is still a success, and the object
\* it chose was not stored before the snapshot of any of those.
CtlTyped ==
    /\ ctl \in [at : {"idle", "list", "create", "get", "ok", "error"},
                key : 0..MaxSecond, stored : 0..MaxSecond, cut : BOOLEAN,
                file : Objects \cup {None}]
    /\ owed \subseteq Runs

Promised == \A r \in owed : run[r].at = "success"

Newest == ctl.at \in {"create", "get", "ok"} /\ ~ctl.cut =>
             \A r \in owed : Outlasted(r)

Fetched == ctl.at = "ok" => ctl.file \in Objects /\ ctl.file.key = ctl.key

CtlInv == RunInv /\ CtlTyped /\ Promised /\ Newest /\ Fetched

----------------------------------------------------------------------------
(* The runs.                                                                *)

LEMMA RunInit == ASSUME Init PROVE RunInv
  <1>1. 0 \in Pods /\ NoRun \in [at : Places, pod : Pods, key : 0..MaxSecond]
    BY BoundsAssumption DEF Pods, NoRun, Places
  <1>2. RunTyped
    BY <1>1, BoundsAssumption DEF Init, RunTyped
  <1> QED BY <1>2, BoundsAssumption
          DEF Init, NoRun, RunInv, Past, OwnSnapshotKept, Stored, Covered, Claimed

\* Only the place of run r changes, or nothing but its place, pod and key.
Moved(r, at, p, k) ==
    /\ run'[r].at = at /\ run'[r].pod = p /\ run'[r].key = k
    /\ \A q \in Runs \ {r} : run'[q] = run[q]

\* Goto moves one run and leaves its pod and key.
LEMMA GotoMoves ==
    ASSUME RunTyped, NEW r \in Runs, NEW at \in Places, Goto(r, at)
    PROVE  /\ run' \in [Runs -> [at : Places, pod : Pods, key : 0..MaxSecond]]
           /\ Moved(r, at, run[r].pod, run[r].key)
  BY DEF RunTyped, Goto, Moved

\* So does an answer to snapshot, with the pod that gave it and the time.
LEMMA AnswerMoves ==
    ASSUME RunTyped, NEW r \in Runs, NEW at \in Places, NEW p \in Pods,
           run' = [run EXCEPT ![r] = [at |-> at, pod |-> p, key |-> now]]
    PROVE  /\ run' \in [Runs -> [at : Places, pod : Pods, key : 0..MaxSecond]]
           /\ Moved(r, at, p, now)
  BY BoundsAssumption DEF RunTyped, Moved

\* What a call uploads is an object under its key, and no key is freed.
LEMMA PutStores ==
    ASSUME RunTyped, Past, NEW r \in Runs, run[r].key >= 1,
           NEW holds \in {"blocks", "response"}, Put(r, holds)
    PROVE  /\ bucket' \subseteq Objects
           /\ \A o \in bucket' : o.modified >= o.key /\ o.stored >= o.modified
           /\ \E o \in bucket' : o.key = run[r].key
           /\ \A o \in bucket : \E n \in bucket' : n.key = o.key
  <1> PICK t \in {run[r].key, now} :
         bucket' = {o \in bucket : o.key # run[r].key}
                   \cup {[key |-> run[r].key, holds |-> holds, stored |-> now, modified |-> t]}
    BY DEF Put
  <1> DEFINE new == [key |-> run[r].key, holds |-> holds, stored |-> now, modified |-> t]
  <1>1. run[r].key \in 1..MaxSecond /\ t \in 1..MaxSecond /\ t >= run[r].key
        /\ now \in 1..MaxSecond /\ now >= t
    BY BoundsAssumption DEF RunTyped, Past
  <1>2. /\ new \in Objects /\ new.key = run[r].key
        /\ new.modified >= new.key /\ new.stored >= new.modified
    BY <1>1 DEF Objects
  <1>3. new \in bucket' /\ \A o \in bucket' : o = new \/ o \in bucket
    OBVIOUS
  <1>4. \A o \in bucket : o.key # run[r].key => o \in bucket'
    OBVIOUS
  <1> HIDE DEF new
  <1> QED BY <1>2, <1>3, <1>4 DEF RunTyped, Past

\* A fault is taken from those left.
LEMMA FaultTakes ==
    ASSUME RunTyped, Fault
    PROVE  faults' \in 0..MaxFaults /\ faults' # MaxFaults
  BY BoundsAssumption DEF RunTyped, Fault

LEMMA RunStep == ASSUME RunInv, Next PROVE RunInv'
  <1> USE DEF RunInv
  <1>1. CASE Clock
    BY <1>1, BoundsAssumption
    DEF Clock, RunTyped, Past, OwnSnapshotKept, Stored, Covered, Claimed
  <1>2. CASE StatusWrite
    BY <1>2, FaultTakes
    DEF StatusWrite, RunTyped, Past, OwnSnapshotKept, Stored, Covered, Claimed
  <1>3. CASE Crash
    <2>1. \A r \in Runs : /\ run'[r].key = run[r].key /\ run'[r].pod = run[r].pod
                          /\ run'[r].at = run[r].at \/ run'[r].at = "lost"
      BY <1>3 DEF Crash, RunTyped
    <2>2. run' \in [Runs -> [at : Places, pod : Pods, key : 0..MaxSecond]]
      BY <1>3 DEF Crash, RunTyped, Places, Ends
    <2>3. UNCHANGED <<now, dirs, bucket, last>> /\ faults' \in 0..MaxFaults /\ faults' # MaxFaults
      BY <1>3, FaultTakes DEF Crash
    <2> QED BY <2>1, <2>2, <2>3
            DEF RunTyped, Past, OwnSnapshotKept, Stored, Covered, Claimed
  <1>4. ASSUME NEW r \in Runs, RunOnce(r) PROVE RunInv'
    <2>1. CASE Get(r)
      <3>1. PICK at \in {"snapshot", "error"} : Goto(r, at)
        BY <2>1 DEF Get, End
      <3>2. at \in Places
        BY DEF Places, Ends
      <3>3. Moved(r, at, run[r].pod, run[r].key)
            /\ run' \in [Runs -> [at : Places, pod : Pods, key : 0..MaxSecond]]
        BY <3>1, <3>2, GotoMoves
      <3>4. /\ run[r].at = "idle" /\ UNCHANGED <<now, dirs, bucket, last>>
            /\ faults' \in 0..MaxFaults /\ (faults' = faults \/ faults' # MaxFaults)
        BY <2>1, FaultTakes DEF Get, RunTyped
      <3> QED BY <3>3, <3>4
              DEF Moved, RunTyped, Past, OwnSnapshotKept, Stored, Covered, Claimed
    <2>2. CASE snapshot(r)
      <3>1. run[r].at = "snapshot" /\ UNCHANGED <<now, fresh, bucket, last>>
        BY <2>2 DEF snapshot
      <3>2. PICK p \in Pods :
              \/ /\ dirs' = dirs \cup {<<p, r>>}
                 /\ run' = [run EXCEPT ![r] = [at |-> "upload", pod |-> p, key |-> now]]
                 /\ UNCHANGED faults
              \/ /\ run' = [run EXCEPT ![r] = [at |-> "fallback", pod |-> p, key |-> now]]
                 /\ Fault /\ UNCHANGED dirs
              \/ /\ End(r, "error") /\ Fault
                 /\ dirs' \in {dirs, dirs \cup {<<p, r>>}}
        BY <2>2 DEF snapshot
      <3>3. PICK at \in {"upload", "fallback", "error"} :
              /\ run' \in [Runs -> [at : Places, pod : Pods, key : 0..MaxSecond]]
              /\ Moved(r, at, p, now) \/ (at = "error" /\ Moved(r, at, run[r].pod, run[r].key))
              /\ at = "upload" => dirs' = dirs \cup {<<p, r>>} /\ faults' = faults
              /\ at # "upload" => Fault
        BY <3>2, GotoMoves, AnswerMoves DEF End, Places, Ends
      <3>4. faults' \in 0..MaxFaults /\ (at # "upload" => faults' # MaxFaults)
        BY <3>3, FaultTakes DEF RunTyped
      <3>5. dirs \subseteq dirs' /\ \A q \in Runs \ {r} : <<0, q>> \in dirs' => <<0, q>> \in dirs
        BY <3>2
      <3>6. RunTyped' /\ Past'
        BY <3>1, <3>3, <3>4, BoundsAssumption DEF RunTyped, Past, Moved
      <3>7. OwnSnapshotKept'
        BY <3>1, <3>3, <3>5 DEF OwnSnapshotKept, Moved
      <3>8. Stored' /\ Covered'
        BY <3>1, <3>3 DEF Stored, Covered, Moved
      <3>9. Claimed'
        BY <3>1, <3>3, <3>4, <3>5 DEF Claimed, Moved
      <3> QED BY <3>6, <3>7, <3>8, <3>9
    <2>3. CASE fallback(r)
      <3>1. /\ run[r].at = "fallback" /\ UNCHANGED <<now, fresh, dirs, last>>
            /\ \/ Put(r, "response") /\ Goto(r, "stamp")
               \/ Goto(r, "error") /\ UNCHANGED bucket
            /\ UNCHANGED faults
        BY <2>3 DEF fallback, End
      <3>2. "stamp" \in Places /\ "error" \in Places /\ run[r].key >= 1
        BY <3>1 DEF Places, Ends, Past
      <3>3. CASE Put(r, "response") /\ Goto(r, "stamp")
        <4>1. Moved(r, "stamp", run[r].pod, run[r].key)
              /\ run' \in [Runs -> [at : Places, pod : Pods, key : 0..MaxSecond]]
          BY <3>2, <3>3, GotoMoves
        <4>2. /\ bucket' \subseteq Objects
              /\ \A o \in bucket' : o.modified >= o.key /\ o.stored >= o.modified
              /\ \E o \in bucket' : o.key = run[r].key
              /\ \A o \in bucket : \E n \in bucket' : n.key = o.key
          BY <3>2, <3>3, PutStores
        <4>3. Stored'
          BY <3>1, <4>1, <4>2 DEF Stored, Moved
        <4> QED BY <3>1, <3>3, <4>1, <4>2, <4>3
                DEF Moved, RunTyped, Past, OwnSnapshotKept, Covered, Claimed
      <3>4. CASE Goto(r, "error") /\ UNCHANGED bucket
        <4>1. Moved(r, "error", run[r].pod, run[r].key)
              /\ run' \in [Runs -> [at : Places, pod : Pods, key : 0..MaxSecond]]
          BY <3>2, <3>4, GotoMoves
        <4> QED BY <3>1, <3>4, <4>1
                DEF Moved, RunTyped, Past, OwnSnapshotKept, Stored, Covered, Claimed
      <3> QED BY <3>1, <3>3, <3>4
    <2>4. CASE tarStreamToS3(r)
      <3>1. /\ run[r].at = "upload" /\ UNCHANGED <<now, fresh, dirs, last>>
            /\ \/ Put(r, "blocks") /\ Goto(r, "cleanup") /\ UNCHANGED faults
               \/ Put(r, "blocks") /\ Goto(r, "error") /\ Fault
               \/ Goto(r, "error") /\ Fault /\ UNCHANGED bucket
               \/ Goto(r, "error") /\ <<0, r>> \notin dirs /\ UNCHANGED <<bucket, faults>>
        BY <2>4 DEF tarStreamToS3, End
      <3>2. "cleanup" \in Places /\ "error" \in Places /\ run[r].key >= 1
        BY <3>1 DEF Places, Ends, Past
      <3>3. PICK at \in {"cleanup", "error"} : Goto(r, at) /\ (at = "cleanup" => Put(r, "blocks") /\ UNCHANGED faults)
                                               /\ (at = "error" => Fault \/ (<<0, r>> \notin dirs /\ UNCHANGED faults))
        BY <3>1
      <3>4. Moved(r, at, run[r].pod, run[r].key)
            /\ run' \in [Runs -> [at : Places, pod : Pods, key : 0..MaxSecond]]
        BY <3>2, <3>3, GotoMoves
      <3>5. /\ bucket' \subseteq Objects
            /\ \A o \in bucket' : o.modified >= o.key /\ o.stored >= o.modified
            /\ Put(r, "blocks") => \E o \in bucket' : o.key = run[r].key
            /\ \A o \in bucket : \E n \in bucket' : n.key = o.key
        BY <3>1, <3>2, PutStores DEF RunTyped, Past
      <3>6. faults' \in 0..MaxFaults
            /\ (faults' = MaxFaults => faults = MaxFaults /\ (at = "cleanup" \/ <<0, r>> \notin dirs))
        BY <3>3, FaultTakes DEF RunTyped
      <3>7. Stored'
        BY <3>1, <3>3, <3>4, <3>5 DEF Stored, Moved
      <3>8. Claimed'
        BY <3>1, <3>4, <3>6 DEF Claimed, Moved
      <3> QED BY <3>1, <3>4, <3>5, <3>6, <3>7, <3>8
              DEF Moved, RunTyped, Past, OwnSnapshotKept, Covered
    <2>5. CASE cleanupSnapshot(r)
      <3>1. /\ run[r].at = "cleanup" /\ Goto(r, "stamp") /\ UNCHANGED <<now, fresh, bucket, last>>
            /\ \/ dirs' = dirs \ {<<0, r>>} /\ UNCHANGED faults
               \/ Fault /\ UNCHANGED dirs
        BY <2>5 DEF cleanupSnapshot
      <3>2. Moved(r, "stamp", run[r].pod, run[r].key)
            /\ run' \in [Runs -> [at : Places, pod : Pods, key : 0..MaxSecond]]
        BY <3>1, GotoMoves DEF Places
      <3>3. /\ faults' \in 0..MaxFaults
            /\ faults' = MaxFaults => faults = MaxFaults /\ <<0, r>> \notin dirs'
        BY <3>1, FaultTakes DEF RunTyped
      <3>4. \A q \in Runs \ {r} : <<0, q>> \in dirs' <=> <<0, q>> \in dirs
        BY <3>1
      <3> QED BY <3>1, <3>2, <3>3, <3>4
              DEF Moved, RunTyped, Past, OwnSnapshotKept, Stored, Covered, Claimed
    <2>6. CASE stamp(r)
      <3>1. PICK at \in {"success", "error"} : Goto(r, at) /\ (at = "success" => last' = now)
        BY <2>6 DEF stamp, End
      <3>2. Moved(r, at, run[r].pod, run[r].key)
            /\ run' \in [Runs -> [at : Places, pod : Pods, key : 0..MaxSecond]]
        BY <3>1, GotoMoves DEF Places, Ends
      <3>3. /\ run[r].at = "stamp" /\ UNCHANGED <<now, dirs, bucket>>
            /\ last' = now \/ last' = last
            /\ faults' \in 0..MaxFaults /\ (faults' = faults \/ faults' # MaxFaults)
        BY <2>6, FaultTakes DEF stamp, RunTyped
      <3>4. RunTyped' /\ Past'
        BY <3>2, <3>3, BoundsAssumption DEF Moved, RunTyped, Past
      <3>5. Covered'
        BY <3>1, <3>2, <3>3 DEF Moved, RunTyped, Past, Covered
      <3> QED BY <3>2, <3>3, <3>4, <3>5
              DEF Moved, OwnSnapshotKept, Stored, Claimed
    <2> QED BY <1>4, <2>1, <2>2, <2>3, <2>4, <2>5, <2>6 DEF RunOnce
  <1> QED BY <1>1, <1>2, <1>3, <1>4 DEF Next

\* A step that only takes a fault.
LEMMA RunIdle ==
    ASSUME RunInv, UNCHANGED <<now, run, dirs, bucket, last>>,
           faults' = faults \/ Fault
    PROVE  RunInv'
  <1>1. faults' \in 0..MaxFaults /\ (faults' = faults \/ faults' # MaxFaults)
    BY FaultTakes DEF RunInv, RunTyped
  <1> QED BY <1>1
          DEF RunInv, RunTyped, Past, OwnSnapshotKept, Stored, Covered, Claimed

\* A success is final.
LEMMA SuccessFinal ==
    ASSUME RunInv, Next, NEW r \in Runs, run[r].at = "success"
    PROVE  run'[r] = run[r]
  <1>1. CASE Crash
    BY <1>1 DEF Crash, Ends
  <1>2. ASSUME NEW q \in Runs, RunOnce(q) PROVE run'[r] = run[r]
    <2>1. q # r
      BY <1>2 DEF RunOnce, Get, snapshot, fallback, tarStreamToS3, cleanupSnapshot, stamp
    <2> QED BY <1>2, <2>1 DEF RunOnce, Get, snapshot, fallback, tarStreamToS3,
                              cleanupSnapshot, stamp, End, Goto, RunInv, RunTyped
  <1> QED BY <1>1, <1>2 DEF Next, Clock, StatusWrite

\* LastBackupTime only moves forward, no success is ahead of it, and the run
\* that moves it has its object in the bucket.
LEMMA LastStep ==
    ASSUME RunInv, RunInv', Next \/ last' = last
    PROVE  /\ last' >= last
           /\ \A r \in Runs : run'[r].at = "success" => last' >= run'[r].key
           /\ last' # last => \E r \in Runs : /\ run[r].at = "stamp"
                                             /\ \E o \in bucket : o.key = run[r].key
  <1>1. last' = last \/ last' = now
    BY DEF Next, Clock, StatusWrite, Crash, RunOnce, Get, snapshot, fallback,
           tarStreamToS3, cleanupSnapshot, stamp
  <1>2. last' # last => \E r \in Runs : run[r].at = "stamp"
    BY DEF Next, Clock, StatusWrite, Crash, RunOnce, Get, snapshot, fallback,
           tarStreamToS3, cleanupSnapshot, stamp
  <1> QED BY <1>1, <1>2 DEF RunInv, RunTyped, Past, Covered, Stored

----------------------------------------------------------------------------
(* tsdb-ctl.                                                                *)

LEMMA CtlStart == ASSUME CtlInit PROVE CtlInv
  <1>1. CtlTyped
    BY BoundsAssumption DEF CtlInit, NoCtl, CtlTyped
  <1> QED BY <1>1, RunInit DEF CtlInit, NoCtl, CtlInv, Promised, Newest, Outlasted, Fetched

\* The object chosen from a page that is the whole bucket was stored no sooner
\* than any successful run took its snapshot.
LEMMA LatestCovers ==
    ASSUME RunInv, NEW o \in Page, latestKey(o), Page = bucket,
           NEW r \in Runs, run[r].at = "success"
    PROVE  o.stored >= run[r].key
  <1>1. PICK p \in bucket : p.key = run[r].key
    BY DEF RunInv, Stored
  <1>2. o \in Objects /\ p \in Objects
    BY DEF RunInv, RunTyped
  <1>3. o.modified >= p.modified
    BY <1>1, <1>2 DEF latestKey, Objects
  <1>4. o.stored >= o.modified /\ p.modified >= p.key
    BY <1>1 DEF RunInv, Past
  <1> QED BY <1>1, <1>2, <1>3, <1>4 DEF Objects

LEMMA CtlStep == ASSUME CtlInv, CtlNext PROVE CtlInv'
  <1> USE DEF CtlInv
  <1>1. CASE Begin
    <2>1. RunInv'
      BY <1>1, RunIdle DEF Begin, vars
    <2> QED BY <1>1, <2>1 DEF Begin, vars, CtlTyped, Promised, Newest, Outlasted, Fetched
  <1>2. CASE List
    <2>1. RunInv' /\ UNCHANGED <<run, bucket, owed>> /\ ctl.at = "list"
      BY <1>2, RunIdle DEF List
    <2>2. ASSUME NEW o \in Page, latestKey(o),
                 ctl' = [ctl EXCEPT !.at = "create", !.key = o.key,
                                    !.stored = o.stored, !.cut = Page # bucket]
          PROVE  CtlInv'
      <3>1. o \in Objects
        BY DEF Page, RunInv, RunTyped
      <3>2. CtlTyped' /\ ctl'.at = "create" /\ ctl'.stored = o.stored
            /\ (~ctl'.cut => Page = bucket)
        <4> DEFINE cut == Page # bucket
        <4>1. cut \in BOOLEAN /\ (~cut => Page = bucket)
          OBVIOUS
        <4>2. ctl' = [ctl EXCEPT !.at = "create", !.key = o.key,
                                 !.stored = o.stored, !.cut = cut]
          BY <2>2
        <4> HIDE DEF cut
        <4>3. o.key \in 0..MaxSecond /\ o.stored \in 0..MaxSecond
          BY <3>1 DEF Objects
        <4>4. CtlTyped' /\ ctl'.at = "create" /\ ctl'.stored = o.stored /\ ctl'.cut = cut
          BY <2>1, <4>1, <4>2, <4>3 DEF CtlTyped
        <4> QED BY <4>1, <4>4
      <3>3. Newest'
        BY <2>1, <2>2, <3>2, LatestCovers DEF CtlTyped, Promised, Newest, Outlasted
      <3> QED BY <2>1, <3>2, <3>3 DEF Promised, Fetched
    <2>3. CASE ctl' = [ctl EXCEPT !.at = "error"]
      BY <2>1, <2>3 DEF CtlTyped, Promised, Newest, Outlasted, Fetched
    <2> QED BY <1>2, <2>2, <2>3 DEF List
  <1>3. CASE CreateFile
    <2>1. RunInv'
      BY <1>3, RunIdle DEF CreateFile, vars
    <2> QED BY <1>3, <2>1 DEF CreateFile, vars, CtlTyped, Promised, Newest, Outlasted, Fetched
  <1>4. CASE Download
    <2>1. RunInv' /\ UNCHANGED <<run, bucket, owed>> /\ ctl.at = "get"
      BY <1>4, RunIdle DEF Download
    <2>2. ASSUME NEW o \in bucket, o.key = ctl.key,
                 ctl' = [ctl EXCEPT !.at = "ok", !.file = o]
          PROVE  CtlInv'
      <3>1. o \in Objects
        BY DEF RunInv, RunTyped
      <3> QED BY <2>1, <2>2, <3>1 DEF CtlTyped, Promised, Newest, Outlasted, Fetched
    <2>3. CASE ctl' = [ctl EXCEPT !.at = "error"]
      BY <2>1, <2>3 DEF CtlTyped, Promised, Newest, Outlasted, Fetched
    <2> QED BY <1>4, <2>2, <2>3 DEF Download
  <1>5. CASE Next /\ UNCHANGED ctlVars
    <2>1. RunInv'
      BY <1>5, RunStep
    <2>2. \A r \in owed : run'[r] = run[r]
      BY <1>5, SuccessFinal DEF CtlTyped, Promised
    <2> QED BY <1>5, <2>1, <2>2 DEF ctlVars, CtlTyped, Promised, Newest, Outlasted, Fetched
  <1> QED BY <1>1, <1>2, <1>3, <1>4, <1>5 DEF CtlNext, restore

LEMMA RunInductive == Spec => []RunInv
  <1>1. RunInv /\ UNCHANGED vars => RunInv'
    BY RunIdle DEF vars
  <1> QED BY <1>1, RunInit, RunStep, PTL DEF Spec

LEMMA CtlInductive == CtlSpec => []CtlInv
  <1>1. CtlInv /\ UNCHANGED allVars => CtlInv'
    <2> SUFFICES ASSUME CtlInv, UNCHANGED allVars PROVE CtlInv'
      OBVIOUS
    <2>1. RunInv'
      BY RunIdle DEF CtlInv, allVars, vars
    <2> QED BY <2>1 DEF CtlInv, allVars, vars, ctlVars, CtlTyped, Promised, Newest, Outlasted, Fetched
  <1> QED BY <1>1, CtlStart, CtlStep, PTL DEF CtlSpec

----------------------------------------------------------------------------
(* The theorems: of the runs alone, and of the runs with tsdb-ctl.          *)

\* cleanupSnapshot of one RunOnce never takes the directory another is about
\* to tar, however the calls overlap, fail or die.
THEOREM SnapshotsKept == Spec \/ CtlSpec => []OwnSnapshotKept
  <1>1. RunInv => OwnSnapshotKept
    BY DEF RunInv
  <1>2. CtlInv => RunInv
    BY DEF CtlInv
  <1> QED BY <1>1, <1>2, RunInductive, CtlInductive, PTL

\* A RunOnce that returns nil has left an object under its key in the bucket.
THEOREM SuccessStored == Spec \/ CtlSpec => []SuccessHasObject
  <1>1. RunInv => SuccessHasObject
    BY DEF RunInv, Stored, SuccessHasObject
  <1>2. CtlInv => RunInv
    BY DEF CtlInv
  <1> QED BY <1>1, <1>2, RunInductive, CtlInductive, PTL

\* When no call failed and every RunOnce has ended, replica 0 holds no snapshot
\* directory: each was removed by the run that asked for it.
THEOREM ReplicaCleaned == Spec \/ CtlSpec => []TarredReplicaCleaned
  <1>1. RunInv => TarredReplicaCleaned
    BY DEF RunInv, Claimed, TarredReplicaCleaned, AllWell, Ends
  <1>2. CtlInv => RunInv
    BY DEF CtlInv
  <1> QED BY <1>1, <1>2, RunInductive, CtlInductive, PTL

\* status.lastBackupTime never moves back, is never before the key of a run that
\* returned nil, and is moved only by a run whose object is in the bucket.
THEOREM LastBackupIsHonest == Spec \/ CtlSpec => LastBackupHonest
  <1> DEFINE Honest == /\ last' >= last
                       /\ \A r \in Runs : run'[r].at = "success" => last' >= run'[r].key
                       /\ last' # last =>
                             \E r \in Runs : /\ run[r].at = "stamp"
                                            /\ \E o \in bucket : o.key = run[r].key
  <1>1. RunInv /\ RunInv' /\ [Next]_vars => [Honest]_vars
    BY LastStep DEF vars
  <1>2. CtlInv /\ CtlInv' /\ [CtlNext]_allVars => [Honest]_vars
    BY LastStep DEF CtlInv, CtlNext, restore, Begin, List, CreateFile, Download,
                    allVars, vars
  <1>3. Spec => LastBackupHonest
    BY <1>1, RunInductive, PTL DEF Spec, LastBackupHonest
  <1>4. CtlSpec => LastBackupHonest
    BY <1>2, CtlInductive, PTL DEF CtlSpec, LastBackupHonest
  <1> QED BY <1>3, <1>4

\* tsdb-ctl restore that exits with 0 has an object of the key it chose, and the
\* snapshot of a backup that was a success when it began is newer only when the
\* keys did not fit in a page or the older archive's upload outlasted it.
THEOREM RestoresCurrent == CtlSpec => []RestoreCurrent
  <1>1. CtlInv => RestoreCurrent
    BY NoneAssumption DEF CtlInv, Newest, Fetched, RestoreCurrent
  <1> QED BY <1>1, CtlInductive, PTL
=============================================================================
