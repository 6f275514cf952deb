------------------------------- MODULE TsdbCtl -------------------------------
(***************************************************************************)
(* tsdb-ctl restore (cmd/tsdb-ctl/main.go), run by an operator without a   *)
(* --key while the scheduler goes on writing to the bucket: the listing,   *)
(* the local file and the download are separate steps.                     *)
(*                                                                         *)
(* ListObjectsV2 returns the first PageSize keys in key order and the      *)
(* program asks for no second page.  Keys end in a timestamp, so key order *)
(* is their order as numbers.  list prints the same page, newest first.    *)
(***************************************************************************)
EXTENDS BackupRun, FiniteSets

CONSTANTS
    None,
    PageSize,    \* keys in one answer of S3: 1000
    MaxRestores  \* bound: calls of tsdb-ctl

ASSUME PageAssumption == PageSize \in Nat \ {0} /\ MaxRestores \in Nat
ASSUME NoneAssumption == None \notin Objects

VARIABLES
    ctl,         \* where restore is, the key it chose, when that object was
                 \* stored, whether the page cut others off, the local file
    owed,        \* runs that had succeeded when it began
    restores     \* calls left

ctlVars == <<ctl, owed, restores>>
allVars == <<vars, ctlVars>>

NoCtl == [at |-> "idle", key |-> 0, stored |-> 0, cut |-> FALSE, file |-> None]

CtlInit == Init /\ ctl = NoCtl /\ owed = {} /\ restores = MaxRestores

Page == {o \in bucket : Cardinality({p \in bucket : p.key < o.key}) < PageSize}

\* Mistake: the first key of the page.
latestKeyFirst(o) == \A p \in Page : p.key >= o.key

\* A later stamp replaces an earlier one, an equal one does not: of the objects
\* of the newest second, the first in key order.
latestKey(o) == \A p \in Page : o.modified > p.modified
                                \/ (o.modified = p.modified /\ o.key <= p.key)

Begin ==
    /\ ctl.at \in {"idle", "ok", "error"} /\ restores > 0
    /\ restores' = restores - 1
    /\ owed' = {r \in Runs : run[r].at = "success"}
    /\ ctl' = [ctl EXCEPT !.at = "list"]
    /\ UNCHANGED vars

List ==
    /\ ctl.at = "list"
    /\ \/ \E o \in Page : /\ latestKey(o)
                          /\ ctl' = [ctl EXCEPT !.at = "create", !.key = o.key,
                                                !.stored = o.stored, !.cut = Page # bucket]
          /\ UNCHANGED faults
       \/ bucket = {} /\ ctl' = [ctl EXCEPT !.at = "error"] /\ UNCHANGED faults
       \/ Fault /\ ctl' = [ctl EXCEPT !.at = "error"]
    /\ UNCHANGED <<now, run, fresh, dirs, bucket, last, owed, restores>>

\* os.Create empties a file of an earlier download.
CreateFile ==
    /\ ctl.at = "create"
    /\ ctl' = [ctl EXCEPT !.at = "get", !.file = None]
    /\ UNCHANGED <<vars, owed, restores>>

\* GetObject and io.Copy; a copy that breaks off leaves part of the archive.
Download ==
    /\ ctl.at = "get"
    /\ \/ /\ \E o \in bucket : /\ o.key = ctl.key
                               /\ ctl' = [ctl EXCEPT !.at = "ok", !.file = o]
          /\ UNCHANGED faults
       \/ Fault /\ ctl' = [ctl EXCEPT !.at = "error"]
    /\ UNCHANGED <<now, run, fresh, dirs, bucket, last, owed, restores>>

restore == Begin \/ List \/ CreateFile \/ Download

CtlNext == restore \/ (Next /\ UNCHANGED ctlVars)

CtlSpec == CtlInit /\ [][CtlNext]_allVars

----------------------------------------------------------------------------
\* The restored snapshot is not older than that of run r.
NotOlder(r) == ctl.key >= run[r].key

\* The upload of the restored archive was still under way when run r took its
\* snapshot.
Outlasted(r) == ctl.stored >= run[r].key

\* A restore that reports success has an object of the key it chose, and the
\* snapshot in it is older than one a backup reported as a success before the
\* restore began only for one of two reasons: the bucket's keys did not fit in
\* a page, or the older run's upload outlasted that snapshot.  Nothing the
\* scheduler stores or replaces while tsdb-ctl lists and downloads adds a third.
RestoreCurrent == ctl.at = "ok" =>
    /\ ctl.file # None /\ ctl.file.key = ctl.key
    /\ \A r \in owed : NotOlder(r) \/ Outlasted(r) \/ ctl.cut

\* --key: "If empty, the newest object under --prefix is chosen."  Leaving aside
\* uploads that outlast others, restore should not take an older archive than a
\* reported one; latestKey reads one page, the oldest keys, and does.
NewestListed == ctl.at = "ok" => \A r \in owed : NotOlder(r) \/ Outlasted(r)
=============================================================================
