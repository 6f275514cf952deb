------------------------------ MODULE BackupRun ------------------------------
(***************************************************************************)
(* Scheduler.RunOnce (backup.go) for one cluster: several calls under way  *)
(* at once, each broken at its calls to the API server, to Prometheus and  *)
(* to S3, while the reconciler and the health checker write the status.    *)
(*                                                                         *)
(* Abstractions.                                                           *)
(*  - A snapshot directory has the name Prometheus gave it, which is       *)
(*    unique: the run that asked for it stands for it.                     *)
(*  - The object key is the second in which the snapshot was answered; the *)
(*    cluster's name and prefix are fixed.                                 *)
(*  - tarStreamToS3 is one step with the outcomes that TarStream proves    *)
(*    possible: the whole archive or nothing is stored, and nil is         *)
(*    returned only for the former.                                        *)
(*  - A copy of the cluster is current or not: fresh holds the runs whose  *)
(*    copy has the stored resourceVersion.                                 *)
(***************************************************************************)
EXTENDS Naturals

CONSTANTS
    Runs,        \* calls of RunOnce
    Replicas,    \* pods behind the headless service, 0 .. Replicas - 1
    TLS,         \* the S3 endpoint is https
    MaxSecond,   \* bound: seconds on the clock
    MaxFaults    \* bound: failed calls, foreign status writes, restarts

ASSUME BoundsAssumption ==
    Replicas \in Nat \ {0} /\ TLS \in BOOLEAN /\ MaxSecond \in Nat \ {0} /\ MaxFaults \in Nat

VARIABLES
    now,         \* the clock, in seconds
    run,         \* where each call is, and its snapshot's pod and key
    fresh,       \* calls whose copy of the cluster is current
    dirs,        \* snapshot directories on the pods, <<pod, run>>
    bucket,      \* stored objects: by key, what they hold, when they were stored
                 \* and what S3 says of it
    last,        \* status.lastBackupTime, 0 when unset
    faults       \* faults left

vars == <<now, run, fresh, dirs, bucket, last, faults>>

Pods    == 0..(Replicas - 1)
NoRun   == [at |-> "idle", pod |-> 0, key |-> 0]
Ends    == {"success", "error", "lost"}
Objects == [key : 1..MaxSecond, holds : {"blocks", "response"},
            stored : 1..MaxSecond, modified : 1..MaxSecond]

Init ==
    /\ now = 1 /\ run = [r \in Runs |-> NoRun] /\ fresh = {} /\ dirs = {}
    /\ bucket = {} /\ last = 0 /\ faults = MaxFaults

Fault == faults > 0 /\ faults' = faults - 1

Goto(r, at) == run' = [run EXCEPT ![r].at = at]
\* The deferred BackupTotal counts the result and the call ends.
End(r, result) == Goto(r, result)

Clock ==
    /\ now < MaxSecond
    /\ now' = now + 1
    /\ UNCHANGED <<run, fresh, dirs, bucket, last, faults>>

\* Get the cluster from the cache, which may lag behind the store.
Get(r) ==
    /\ run[r].at = "idle"
    /\ \/ Goto(r, "snapshot") /\ fresh' = fresh \cup {r} /\ UNCHANGED faults
       \/ Goto(r, "snapshot") /\ Fault /\ UNCHANGED fresh
       \/ End(r, "error") /\ Fault /\ UNCHANGED fresh
    /\ UNCHANGED <<now, dirs, bucket, last>>

\* POST to the headless service, which answers with any replica.  Without an
\* answer there is an error, and perhaps a directory; an answer that is not a
\* success has no snapshot name and is no error.
snapshot(r) ==
    /\ run[r].at = "snapshot"
    /\ \E p \in Pods :
         \/ /\ dirs' = dirs \cup {<<p, r>>}
            /\ run' = [run EXCEPT ![r] = [at |-> "upload", pod |-> p, key |-> now]]
            /\ UNCHANGED faults
         \/ /\ run' = [run EXCEPT ![r] = [at |-> "fallback", pod |-> p, key |-> now]]
            /\ Fault /\ UNCHANGED dirs
         \/ /\ End(r, "error") /\ Fault
            /\ dirs' \in {dirs, dirs \cup {<<p, r>>}}
    /\ UNCHANGED <<now, fresh, bucket, last>>

\* PutObject and the end of a multipart upload replace what the key held.
\* LastModified is the second in which the upload began or the one it ended in.
Put(r, holds) ==
    \E t \in {run[r].key, now} :
       bucket' = {o \in bucket : o.key # run[r].key}
                 \cup {[key |-> run[r].key, holds |-> holds, stored |-> now, modified |-> t]}

\* PutObject of the raw response in place of an archive.  Its byteReader cannot
\* seek: over plain HTTP the SDK refuses it, over TLS it or S3 may do so.
fallback(r) ==
    /\ run[r].at = "fallback"
    /\ \/ TLS /\ Put(r, "response") /\ Goto(r, "stamp")
       \/ End(r, "error") /\ UNCHANGED bucket
    /\ UNCHANGED <<now, fresh, dirs, last, faults>>

\* Mistake: an error of tar is only logged.
tarStreamToS3Logged(r) ==
    /\ run[r].at = "upload"
    /\ IF <<0, r>> \in dirs
       THEN \/ Put(r, "blocks") /\ Goto(r, "cleanup") /\ UNCHANGED faults
            \/ Put(r, "blocks") /\ End(r, "error") /\ Fault
            \/ Goto(r, "cleanup") /\ Fault /\ UNCHANGED bucket
       ELSE Goto(r, "cleanup") /\ UNCHANGED <<bucket, faults>>
    /\ UNCHANGED <<now, fresh, dirs, last>>

\* tar runs on replica 0, wherever the snapshot was taken.
tarStreamToS3(r) ==
    /\ run[r].at = "upload"
    /\ IF <<0, r>> \in dirs
       THEN \/ Put(r, "blocks") /\ Goto(r, "cleanup") /\ UNCHANGED faults
            \/ Put(r, "blocks") /\ End(r, "error") /\ Fault
            \/ End(r, "error") /\ Fault /\ UNCHANGED bucket
       ELSE End(r, "error") /\ UNCHANGED <<bucket, faults>>
    /\ UNCHANGED <<now, fresh, dirs, last>>

\* Mistake: all of /prometheus/snapshots is removed.
cleanupSnapshotAll(r) ==
    /\ run[r].at = "cleanup"
    /\ dirs' = {d \in dirs : d[1] # 0}
    /\ Goto(r, "stamp")
    /\ UNCHANGED <<now, fresh, bucket, last, faults>>

\* Mistake: the directory is left on the pod.
cleanupSnapshotSkipped(r) ==
    /\ run[r].at = "cleanup"
    /\ Goto(r, "stamp")
    /\ UNCHANGED <<now, fresh, dirs, bucket, last, faults>>

\* rm -rf of the run's own directory on replica 0; a failure is only logged.
cleanupSnapshot(r) ==
    /\ run[r].at = "cleanup"
    /\ \/ dirs' = dirs \ {<<0, r>>} /\ UNCHANGED faults
       \/ Fault /\ UNCHANGED dirs
    /\ Goto(r, "stamp")
    /\ UNCHANGED <<now, fresh, bucket, last>>

\* Mistake: the time of the snapshot is stamped, whatever the status holds.
stampOldTime(r) ==
    /\ run[r].at = "stamp"
    /\ last' = run[r].key /\ fresh' = {} /\ End(r, "success")
    /\ UNCHANGED <<now, dirs, bucket, faults>>

\* Status().Update from the copy read at the start.  It is refused when
\* anyone has written the cluster since, and the whole run is an error; so it
\* is when only the reply is lost.
stamp(r) ==
    /\ run[r].at = "stamp"
    /\ IF r \in fresh
       THEN /\ last' = now /\ fresh' = {}
            /\ \/ End(r, "success") /\ UNCHANGED faults
               \/ End(r, "error") /\ Fault
       ELSE End(r, "error") /\ UNCHANGED <<last, fresh, faults>>
    /\ UNCHANGED <<now, dirs, bucket>>

\* The reconciler or the health checker writes the status.
StatusWrite ==
    /\ fresh # {}
    /\ Fault
    /\ fresh' = {}
    /\ UNCHANGED <<now, run, dirs, bucket, last>>

\* The operator dies with its runs; directories and objects stay.
Crash ==
    /\ \E r \in Runs : run[r].at \notin Ends \cup {"idle"}
    /\ Fault
    /\ run' = [r \in Runs |-> IF run[r].at \in Ends \cup {"idle"} THEN run[r]
                             ELSE [run[r] EXCEPT !.at = "lost"]]
    /\ fresh' = {}
    /\ UNCHANGED <<now, dirs, bucket, last>>

----------------------------------------------------------------------------
RunOnce(r) == Get(r) \/ snapshot(r) \/ fallback(r) \/ tarStreamToS3(r)
              \/ cleanupSnapshot(r) \/ stamp(r)

Next == Clock \/ StatusWrite \/ Crash \/ \E r \in Runs : RunOnce(r)

Spec == Init /\ [][Next]_vars

----------------------------------------------------------------------------
\* Runs that overlap leave each other alone: one that is about to tar its
\* snapshot from replica 0 still finds it there.
OwnSnapshotKept == \A r \in Runs :
    run[r].at = "upload" /\ run[r].pod = 0 => <<0, r>> \in dirs

\* A run that counts as a success has left an object under its key.  Another
\* run in the same second may have replaced it, never removed it.
SuccessHasObject == \A r \in Runs :
    run[r].at = "success" => \E o \in bucket : o.key = run[r].key

\* LastBackupTime never goes back, never names a time before the newest object
\* a successful run has stored, and moves only for a run that has its object in
\* the bucket by then, whichever of them die on the way: whoever reads it finds
\* that backup.
LastBackupHonest ==
    [][/\ last' >= last
       /\ \A r \in Runs : run'[r].at = "success" => last' >= run'[r].key
       /\ last' # last => \E r \in Runs : /\ run[r].at = "stamp"
                                         /\ \E o \in bucket : o.key = run[r].key]_vars

\* Every run has ended and no call failed on the way.
AllWell == faults = MaxFaults /\ \A r \in Runs : run[r].at \in Ends

\* The replica that is tarred is left clean, by every run: when nothing
\* failed, no snapshot directory stays on it, whichever replica answered.
TarredReplicaCleaned == AllWell => \A r \in Runs : <<0, r>> \notin dirs

\* Snapshot directories do not accumulate on the pods' volumes: when nothing
\* failed, none is left.
SnapshotsCleaned == AllWell => dirs = {}
=============================================================================
