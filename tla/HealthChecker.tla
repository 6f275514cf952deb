---------------------------- MODULE HealthChecker ----------------------------
(***************************************************************************)
(* ha.HealthChecker (ha.go) on the pods of one cluster: checkAll lists the *)
(* clusters, checkCluster lists the pods and probes them one by one, and   *)
(* triggerFailover deletes a pod and stamps the status; while pods start,  *)
(* get stuck and are evicted, the StatefulSet controller replaces them     *)
(* under the same name, and others write the cluster's status.             *)
(*                                                                         *)
(* Abstractions.                                                           *)
(*  - A copy of a pod has no address yet ("noip"), the address of the pod  *)
(*    that now has the name ("addr"), or that of one before it ("old").    *)
(*    Addresses are not handed to another pod while a copy is about.       *)
(*  - A starting Prometheus answers /-/ready with 503 until it has         *)
(*    replayed its log, which takes StartTicks intervals of the checker.   *)
(*  - The interval is long: by its end a pod that needs no more of them is *)
(*    ready, a terminating one is gone and the informer has caught up,     *)
(*    save for a fault.                                                    *)
(***************************************************************************)
EXTENDS Naturals

CONSTANTS
    Pods,        \* pod names of the cluster
    StartTicks,  \* intervals a pod needs to become ready
    MaxFaults    \* bound: stuck or evicted pods, failed calls, foreign writes

ASSUME BoundsAssumption == StartTicks \in Nat /\ MaxFaults \in Nat

VARIABLES
    pod,         \* the stored pods
    cache,       \* the informer cache's copies of them
    at,          \* where the checker is
    list,        \* the copies it listed and has not finished with
    cur,         \* the pod it is failing over
    fresh,       \* its copy of the cluster is current
    stamped,     \* the last failover of the pass is in LastFailoverTime
    quiet,       \* nothing has come between the pass and its stamps
    faults

vars    == <<pod, cache, at, list, cur, fresh, stamped, quiet, faults>>
checker == <<at, list, cur, fresh, stamped, quiet>>

Absent  == [health |-> "absent", ip |-> FALSE, ticks |-> 0]
NoList  == [p \in Pods |-> "none"]

Init ==
    /\ pod = [p \in Pods |-> Absent] /\ cache = NoList
    /\ at = "idle" /\ list = NoList /\ cur \in Pods /\ fresh = FALSE
    /\ stamped = TRUE /\ quiet = TRUE /\ faults = MaxFaults

Fault == faults > 0 /\ faults' = faults - 1

----------------------------------------------------------------------------
(* The pods, their controller and the informer.                             *)

Recreate(p) ==
    /\ pod[p] = Absent
    /\ pod' = [pod EXCEPT ![p] = [health |-> "starting", ip |-> FALSE, ticks |-> StartTicks]]
    /\ UNCHANGED <<cache, checker, faults>>

GetAddress(p) ==
    /\ pod[p].health = "starting" /\ ~pod[p].ip
    /\ pod' = [pod EXCEPT ![p].ip = TRUE]
    /\ UNCHANGED <<cache, checker, faults>>

Up(p) == pod[p].health = "starting" /\ pod[p].ip /\ pod[p].ticks = 0

BecomeReady(p) ==
    /\ Up(p)
    /\ pod' = [pod EXCEPT ![p].health = "ready"]
    /\ UNCHANGED <<cache, checker, faults>>

Stick(p) ==
    /\ pod[p].health = "ready"
    /\ Fault
    /\ pod' = [pod EXCEPT ![p].health = "stuck"]
    /\ UNCHANGED <<cache, checker>>

Deleted(p) == [pod EXCEPT ![p].health = "terminating"]

\* The pod is deleted by someone else.
Evict(p) ==
    /\ pod[p].health \in {"starting", "ready", "stuck"}
    /\ Fault
    /\ pod' = Deleted(p)
    /\ UNCHANGED <<cache, checker>>

\* The address of a pod that is gone is nobody's.
Aged(copies, p) == IF copies[p] = "addr" THEN [copies EXCEPT ![p] = "old"] ELSE copies

Terminated(p) ==
    /\ pod[p].health = "terminating"
    /\ pod' = [pod EXCEPT ![p] = Absent]
    /\ cache' = Aged(cache, p) /\ list' = Aged(list, p)
    /\ UNCHANGED <<at, cur, fresh, stamped, quiet, faults>>

Current(p) == IF pod[p] = Absent THEN "none" ELSE IF pod[p].ip THEN "addr" ELSE "noip"

Sync(p) ==
    /\ cache[p] # Current(p)
    /\ cache' = [cache EXCEPT ![p] = Current(p)]
    /\ UNCHANGED <<pod, checker, faults>>

----------------------------------------------------------------------------
(* The checker.                                                             *)

\* The interval was long enough for everything else.
Settled == \A p \in Pods :
    ~Up(p) /\ pod[p].health # "terminating" /\ cache[p] = Current(p)

\* A tick of the timer: list the clusters, then this one's pods, from caches
\* that only a fault leaves behind the store.
checkAll ==
    /\ at = "idle"
    /\ \/ Settled /\ fresh' = TRUE /\ UNCHANGED faults
       \/ Fault /\ fresh' \in BOOLEAN
    /\ at' = "pass" /\ list' = cache /\ stamped' = TRUE /\ quiet' = fresh'
    /\ UNCHANGED <<pod, cache, cur>>

\* A List fails and the pass is over.
ListFails ==
    /\ at = "idle"
    /\ Fault
    /\ UNCHANGED <<pod, cache, checker>>

Finish(p) == at' = "pass" /\ list' = [list EXCEPT ![p] = "none"]

\* What may come back from the listed address: a starting or stuck Prometheus
\* answers 5xx or not at all, one that is terminating may do anything, and a
\* ready one is missed only by a fault.
Answers(p) ==
    IF list[p] = "old" THEN {"fail"}
    ELSE CASE pod[p].health = "ready"       -> {"ok", "missed"}
           [] pod[p].health = "terminating" -> {"ok", "fail"}
           [] OTHER                         -> {"fail"}

\* Mistake: a probe that gets no answer is skipped.
probeSkips(p) ==
    /\ at = "pass" /\ list[p] # "none"
    /\ Finish(p)
    /\ UNCHANGED <<pod, cache, cur, fresh, stamped, quiet, faults>>

\* A copy without an address is passed over; a probe that fails counts a
\* failover and reports it.
probe(p) ==
    /\ at = "pass" /\ list[p] # "none"
    /\ IF list[p] = "noip"
       THEN Finish(p) /\ UNCHANGED <<cur, faults>>
       ELSE \E answer \in Answers(p) :
              \/ answer = "ok" /\ Finish(p) /\ UNCHANGED <<cur, faults>>
              \/ answer = "fail" /\ at' = "delete" /\ cur' = p /\ UNCHANGED <<list, faults>>
              \/ answer = "missed" /\ at' = "delete" /\ cur' = p /\ Fault /\ UNCHANGED list
    /\ UNCHANGED <<pod, cache, fresh, stamped, quiet>>

\* Delete by name: whichever pod has the name now.  Without one, or when the
\* call fails, with or without effect, the failover ends here.
triggerFailover ==
    /\ at = "delete"
    /\ \/ /\ pod[cur] # Absent
          /\ pod' = Deleted(cur)
          /\ at' = "stamp" /\ stamped' = FALSE /\ UNCHANGED <<list, quiet, faults>>
       \/ /\ pod[cur] = Absent
          /\ Finish(cur) /\ UNCHANGED <<pod, stamped, quiet, faults>>
       \/ /\ Fault /\ quiet' = FALSE
          /\ pod' \in {pod} \cup IF pod[cur] = Absent THEN {} ELSE {Deleted(cur)}
          /\ Finish(cur) /\ UNCHANGED stamped
    /\ UNCHANGED <<cache, cur, fresh>>

\* Mistake: the answer of the update is dropped, so that the copy in hand is
\* out of date for the next failover of the pass.
stampFailoverByValue ==
    /\ at = "stamp"
    /\ stamped' = fresh /\ fresh' = FALSE
    /\ Finish(cur)
    /\ UNCHANGED <<pod, cache, cur, quiet, faults>>

\* Status().Update from the listed copy, which becomes the stored one.  A
\* conflict or any other error is logged.
stampFailover ==
    /\ at = "stamp"
    /\ \/ stamped' = fresh /\ UNCHANGED <<quiet, faults>>
       \/ Fault /\ quiet' = FALSE /\ UNCHANGED stamped
    /\ Finish(cur)
    /\ UNCHANGED <<pod, cache, cur, fresh>>

\* The pass is over and the interval runs.
Interval ==
    /\ at = "pass" /\ list = NoList
    /\ at' = "idle"
    /\ pod' = [p \in Pods |-> IF pod[p].health = "starting" /\ pod[p].ip /\ pod[p].ticks > 0
                             THEN [pod[p] EXCEPT !.ticks = @ - 1] ELSE pod[p]]
    /\ UNCHANGED <<cache, list, cur, fresh, stamped, quiet, faults>>

\* The reconciler or the backup scheduler writes the status.
StatusWrite ==
    /\ fresh /\ at # "idle"
    /\ Fault
    /\ fresh' = FALSE /\ quiet' = FALSE
    /\ UNCHANGED <<pod, cache, at, list, cur, stamped>>

\* The operator restarts in the middle of a pass.
Restart ==
    /\ at # "idle"
    /\ Fault
    /\ at' = "idle" /\ list' = NoList /\ quiet' = FALSE
    /\ cache' = [p \in Pods |-> Current(p)]
    /\ UNCHANGED <<pod, cur, fresh, stamped>>

----------------------------------------------------------------------------
Life(p) == Recreate(p) \/ GetAddress(p) \/ BecomeReady(p) \/ Terminated(p)
Check   == checkAll \/ triggerFailover \/ stampFailover \/ Interval
           \/ \E p \in Pods : probe(p)
Faults  == ListFails \/ StatusWrite \/ Restart \/ \E p \in Pods : Stick(p) \/ Evict(p)

Next == Check \/ Faults \/ \E p \in Pods : Life(p) \/ Sync(p)

\* The timer ticks and every probe ends, with an answer or at its timeout; the
\* StatefulSet controller, the kubelet and the informer keep running.
Fairness == WF_vars(Check) /\ \A p \in Pods : WF_vars(Life(p)) /\ WF_vars(Sync(p))

Spec == Init /\ [][Next]_vars /\ Fairness

----------------------------------------------------------------------------
\* Replicas heal themselves: a stuck pod is deleted and rebuilt, so once
\* faults end all replicas come to be ready and are left alone.
SelfHeals == <>[](\A p \in Pods : pod[p].health = "ready")

\* Every failover of a pass reaches LastFailoverTime, the second and later
\* ones too, although all are written from the one copy that the pass began
\* with: only a write of someone else, an error or a restart costs a stamp.
FailoversStamped == at = "idle" /\ quiet => stamped
=============================================================================
