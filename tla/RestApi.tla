-------------------------------- MODULE RestApi --------------------------------
(***************************************************************************)
(* The REST API (pkg/api/server.go) over one cluster name, and the audit   *)
(* log it writes.  Handlers run concurrently; each is broken at its call   *)
(* to the API server, at the INSERT of its audit entry and at its answer.  *)
(* Clients go away, calls fail before or after they took effect, the       *)
(* server drains and the process dies.                                     *)
(*                                                                         *)
(* Abstractions.                                                           *)
(*  - Requests are identified, and what they ask for is fixed at the start.*)
(*  - The cluster is absent, live or marked for deletion; its controller   *)
(*    and kubectl are external.                                            *)
(*  - Reading handlers other than queryAudit only read caches.             *)
(*  - triggerBackup finds no scheduler: cmd/main.go never sets it.         *)
(***************************************************************************)
EXTENDS AuditLog

CONSTANTS
    Requests,
    Plans,       \* what they may ask for: "create", "delete", "backup" or "audit"
    None,
    MaxTime,     \* bound: the clock
    MaxFaults    \* bound: faults, departures, foreign writes, restarts

ASSUME RequestsAssumption ==
    Plans \subseteq [Requests -> {"create", "delete", "backup", "audit"}]
ASSUME NoneAssumption ==
    None \notin {"NotFound", "AlreadyExists", "Invalid", "other", "ok"}
ASSUME BoundsAssumption == MaxTime \in Nat /\ MaxFaults \in Nat

VARIABLES
    cluster,     \* "absent", "live" or "marked"
    listening,   \* the server accepts connections
    req,         \* each request: where its handler is, and what it knows
    applied,     \* requests whose call took effect
    unrecorded,  \* requests whose row never reached the table
    before,      \* for each request, those answered before it was sent
    faults

restVars == <<cluster, listening, req, applied, unrecorded, before, faults>>
vars == <<auditVars, restVars>>

Unsent(op) == [op |-> op, at |-> "unsent", ctx |-> TRUE, err |-> None, code |-> None,
                ts |-> 0, seen |-> {}]
OpOf(r) == req[r].op

Init ==
    /\ now = 0 /\ rows = {}
    /\ cluster = "absent" /\ listening = TRUE
    /\ \E plan \in Plans : req = [r \in Requests |-> Unsent(plan[r])]
    /\ applied = {} /\ unrecorded = {} /\ before = [r \in Requests |-> {}]
    /\ faults = MaxFaults

Fault == faults > 0 /\ faults' = faults - 1

\* The state of r's handler becomes c.
Becomes(r, c) == req' = [req EXCEPT ![r] = c]

Running(r) == req[r].at \notin {"unsent", "done", "lost"}
Answered   == {r \in Requests : req[r].at = "done"}

----------------------------------------------------------------------------
(* Clients, kubectl, the cluster's controller and the clock.                *)

\* A body that does not parse is refused before anything happens.
Send(r) ==
    /\ listening /\ req[r].at = "unsent"
    /\ before' = [before EXCEPT ![r] = Answered]
    /\ \/ Becomes(r, [req[r] EXCEPT !.at = "call"])
       \/ /\ OpOf(r) = "create"
          /\ Becomes(r, [req[r] EXCEPT !.at = "done", !.code = "badRequest"])
    /\ UNCHANGED <<auditVars, cluster, listening, applied, unrecorded, faults>>

\* The connection goes, and with it the request's context.
Disconnect(r) ==
    /\ Running(r) /\ req[r].ctx
    /\ Fault
    /\ Becomes(r, [req[r] EXCEPT !.ctx = FALSE])
    /\ UNCHANGED <<auditVars, cluster, listening, applied, unrecorded, before>>

Kubectl ==
    /\ Fault
    /\ cluster' = (IF cluster = "absent" THEN "live" ELSE "marked")
    /\ UNCHANGED <<auditVars, listening, req, applied, unrecorded, before>>

Finalized ==
    /\ cluster = "marked"
    /\ cluster' = "absent"
    /\ UNCHANGED <<auditVars, listening, req, applied, unrecorded, before, faults>>

Elapse ==
    /\ now < MaxTime
    /\ now' = now + 1
    /\ UNCHANGED <<rows, restVars>>

----------------------------------------------------------------------------
(* The API server's side of the two calls.                                  *)

\* The error the call returns; None is success.
Refusal(op) ==
    CASE op = "create" -> (IF cluster = "absent" THEN None ELSE "AlreadyExists")
      [] op = "delete" -> (IF cluster = "absent" THEN "NotFound" ELSE None)

Effect(op) == IF op = "create" THEN "live" ELSE "marked"

\* The handler goes on with the error: createCluster answers it at once,
\* deleteCluster audits it too.  Record stamps the entry as the call returns.
After(r, err) ==
    Becomes(r, [req[r] EXCEPT !.err = err, !.ts = now,
                   !.at = IF OpOf(r) = "create" /\ err # None THEN "answer" ELSE "insert"])

\* The call succeeds or is refused; or it fails on the way there or back.
Call(r) ==
    /\ req[r].at = "call" /\ OpOf(r) \in {"create", "delete"}
    /\ LET refusal == Refusal(OpOf(r))
           takesEffect == cluster' = Effect(OpOf(r)) /\ applied' = applied \cup {r}
           failure == IF req[r].ctx THEN Fault ELSE UNCHANGED faults
       IN \/ /\ req[r].ctx /\ refusal = None /\ takesEffect /\ After(r, None)
             /\ UNCHANGED faults
          \/ /\ req[r].ctx /\ refusal # None /\ After(r, refusal)
             /\ UNCHANGED <<cluster, applied, faults>>
          \/ /\ req[r].ctx /\ OpOf(r) = "create" /\ After(r, "Invalid")
             /\ UNCHANGED <<cluster, applied, faults>>
          \/ /\ failure /\ After(r, "other")
             /\ UNCHANGED <<cluster, applied>>
          \/ /\ failure /\ refusal = None /\ takesEffect /\ After(r, "other")
    /\ UNCHANGED <<auditVars, listening, unrecorded, before>>

triggerBackup(r) ==
    /\ req[r].at = "call" /\ OpOf(r) = "backup"
    /\ Becomes(r, [req[r] EXCEPT !.at = "done", !.code = "unavailable"])
    /\ UNCHANGED <<auditVars, cluster, listening, applied, unrecorded, before, faults>>

queryAudit(r) ==
    /\ req[r].at = "call" /\ OpOf(r) = "audit"
    /\ \/ /\ req[r].ctx
          /\ \E answer \in SUBSET rows :
                /\ Query(answer)
                /\ Becomes(r, [req[r] EXCEPT !.at = "done", !.code = "ok",
                                             !.seen = {a.req : a \in answer}])
          /\ UNCHANGED faults
       \/ /\ IF req[r].ctx THEN Fault ELSE UNCHANGED faults
          /\ Becomes(r, [req[r] EXCEPT !.at = "done", !.code = "internal"])
    /\ UNCHANGED <<auditVars, cluster, listening, applied, unrecorded, before>>

----------------------------------------------------------------------------
(* s.audit, then the answer.                                                *)

ResultOf(r) == IF req[r].err = None THEN "success" ELSE "error"

\* Mistakes: a failed delete is a success; a failure carries the zero time.
RowSuccess(r) == [req |-> r, ts |-> req[r].ts, result |-> "success"]
RowZeroTime(r) == [req |-> r, ts |-> IF req[r].err = None THEN req[r].ts ELSE 0, result |-> ResultOf(r)]

Row(r) == [req |-> r, ts |-> req[r].ts, result |-> ResultOf(r)]

\* The INSERT; its error is dropped, whether or not the row was stored.
Record(r) ==
    /\ req[r].at = "insert"
    /\ \/ req[r].ctx /\ rows' = rows \cup {Row(r)} /\ UNCHANGED <<faults, unrecorded>>
       \/ /\ IF req[r].ctx THEN Fault ELSE UNCHANGED faults
          /\ \/ rows' = rows \cup {Row(r)} /\ UNCHANGED unrecorded
             \/ unrecorded' = unrecorded \cup {r} /\ UNCHANGED rows
    /\ Becomes(r, [req[r] EXCEPT !.at = "answer"])
    /\ UNCHANGED <<now, cluster, listening, applied, before>>

\* Mistakes: what is not known is "not found"; the default is forgotten.
statusForUnknown(err) == IF err = "AlreadyExists" THEN "conflict" ELSE "notFound"
statusForNone(err) == IF err = "NotFound" THEN "notFound" ELSE None

statusFor(err) ==
    CASE err = "NotFound"      -> "notFound"
      [] err = "AlreadyExists" -> "conflict"
      [] err = "Invalid"       -> "badRequest"
      [] OTHER                 -> "internal"

Answer(r) ==
    /\ req[r].at = "answer"
    /\ Becomes(r, [req[r] EXCEPT !.at = "done",
                      !.code = IF req[r].err # None THEN statusFor(req[r].err)
                               ELSE IF OpOf(r) = "create" THEN "created" ELSE "noContent"])
    /\ UNCHANGED <<auditVars, cluster, listening, applied, unrecorded, before, faults>>

----------------------------------------------------------------------------
(* The process.                                                             *)

\* The manager's context ends: Shutdown refuses connections and waits.
Shutdown ==
    /\ listening /\ Fault
    /\ listening' = FALSE
    /\ UNCHANGED <<auditVars, cluster, req, applied, unrecorded, before>>

\* The process comes back, once it has drained.
Start ==
    /\ ~listening /\ \A r \in Requests : ~Running(r)
    /\ listening' = TRUE
    /\ UNCHANGED <<auditVars, cluster, req, applied, unrecorded, before, faults>>

\* It dies, and its handlers with it.
Crash ==
    /\ Fault
    /\ req' = [r \in Requests |-> IF Running(r) THEN [req[r] EXCEPT !.at = "lost"] ELSE req[r]]
    /\ listening' = FALSE
    /\ UNCHANGED <<auditVars, cluster, applied, unrecorded, before>>

Pruner == listening /\ tick /\ UNCHANGED restVars

Handler(r) == Call(r) \/ triggerBackup(r) \/ queryAudit(r) \/ Record(r) \/ Answer(r)

Next ==
    \/ \E r \in Requests : Send(r) \/ Disconnect(r) \/ Handler(r)
    \/ Kubectl \/ Finalized \/ Elapse \/ Pruner \/ Shutdown \/ Start \/ Crash

\* Handlers and the pruner are scheduled, calls return, time passes and the
\* deployment starts the process again; nothing is assumed of clients.
Fairness ==
    /\ \A r \in Requests : WF_vars(Handler(r))
    /\ WF_vars(Pruner) /\ WF_vars(Elapse) /\ WF_vars(Start)

Spec == Init /\ [][Next]_vars /\ Fairness

----------------------------------------------------------------------------
(* Properties.                                                              *)

Errors == {"NotFound", "AlreadyExists", "Invalid", "other"}
Codes  == {"created", "noContent", "ok", "badRequest", "notFound", "conflict", "internal",
           "unavailable"}
States == [op : {"create", "delete", "backup", "audit"},
           at : {"unsent", "call", "insert", "answer", "done", "lost"}, ctx : BOOLEAN,
           err : Errors \cup {None}, code : Codes \cup {None}, ts : 0..MaxTime,
           seen : SUBSET Requests]

\* Every variable keeps its type, and every answer has one of the codes.
TypeOK ==
    /\ now \in 0..MaxTime /\ faults \in 0..MaxFaults /\ listening \in BOOLEAN
    /\ rows \subseteq [req : Requests, ts : 0..MaxTime, result : {"success", "error"}]
    /\ cluster \in {"absent", "live", "marked"}
    /\ applied \subseteq Requests /\ unrecorded \subseteq Requests
    /\ before \in [Requests -> SUBSET Requests] /\ req \in [Requests -> States]
    /\ \A r \in Requests : req[r].at = "done" => req[r].code \in Codes

\* A row that says success is about a call that took effect, however handlers,
\* departing clients and crashes interleave.
RowsTrue == \A row \in rows : row.result = "success" => row.req \in applied

\* An answer that commits the server is right: 201 and 204 for a call that took
\* effect, 400, 404, 409 and 503 for one that did not.  Only 500 leaves it open.
AnswersHonest == \A r \in Requests : req[r].at = "done" =>
    /\ req[r].code \in {"created", "noContent"} => r \in applied
    /\ req[r].code \in {"badRequest", "notFound", "conflict", "unavailable"} => r \notin applied

\* The requests that owe a row: answered after s.audit, whose error is dropped,
\* and the INSERT stored it.
Owed(r) ==
    /\ req[r].at = "done" /\ r \notin unrecorded
    /\ OpOf(r) = "delete" \/ (OpOf(r) = "create" /\ req[r].code = "created")

Young(t) == RetentionDays > 0 => t >= now - RetentionDays * Day

\* Who has an answer finds its row in the log for as long as the retention asks,
\* if the INSERT did not fail: the row is written before the answer and the
\* pruner does not take it early.
Recorded == \A r \in Requests : Owed(r) /\ Young(req[r].ts) => Row(r) \in rows

\* Of two requests one after the other, the log has the first one first: a
\* timestamp is taken before the answer, so the log tells who did what when.
RealTimeOrder == \A a, b \in rows : a.req \in before[b.req] => a.ts <= b.ts

\* A query sent after an answer shows its row, unless the limit cut it off for
\* rows that are as new.
ReadYourWrites == \A q \in Requests : req[q].code = "ok" =>
    \A r \in before[q] : Owed(r) /\ Young(req[r].ts) =>
        \/ r \in req[q].seen
        \/ /\ Cardinality(req[q].seen) = Limit
           /\ \A s \in req[q].seen : req[s].ts >= req[r].ts

\* With a retention the table is, again and again, free of rows that outlived
\* it: failed prunes, shutdowns and crashes only delay that.
PrunesOld == RetentionDays > 0 => []<>(\A row \in rows : Young(row.ts))
=============================================================================
