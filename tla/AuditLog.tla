------------------------------- MODULE AuditLog -------------------------------
(***************************************************************************)
(* The audit log (audit.go): rows in Postgres, the retention pruner and    *)
(* the query behind GET /api/clusters/:name/audit.                         *)
(*                                                                         *)
(* Time is a count of units, Day of them to a day.  time.Duration is a     *)
(* signed integer of fixed width, -Half .. Half - 1, and multiplying days  *)
(* into it wraps.  The clock does not step back.  The counters and the     *)
(* row gauge are left out: nothing reads them.                             *)
(***************************************************************************)
EXTENDS Integers, FiniteSets

CONSTANTS
    RetentionDays,   \* --audit-retention-days
    Day,             \* units of time in 24 hours
    Half,            \* the width of time.Duration: 2^63 in the build
    Limit            \* the most rows a query returns

ASSUME RetentionAssumption ==
    RetentionDays \in Int /\ Day \in Nat \ {0} /\ Half \in Nat \ {0}
ASSUME LimitAssumption == Limit \in Nat \ {0}

VARIABLES
    now,       \* the clock
    rows       \* audit_log of one cluster: [req, result, ts]

auditVars == <<now, rows>>

\* What an integer is as a time.Duration.
Duration(n) == ((n + Half) % (2 * Half)) - Half

\* Mistake: a day too many.
cutoffLate == now + Duration(-(RetentionDays + 1) * Day)

\* The code checks no upper bound; beyond 106751 days the product wraps.
Fits == RetentionDays * Day <= Half

cutoffNow == now + Duration(-RetentionDays * Day)

\* Mistake: the row of the cutoff itself goes too.
OldRowsInclusive == {r \in rows : r.ts <= cutoffNow}

OldRows == {r \in rows : r.ts < cutoffNow}

\* Prune, at the start and once per interval; never without a retention.  Rows
\* that come between the cutoff and the DELETE are younger, so the two are one
\* step; a DELETE that fails is logged and does nothing.
tick ==
    /\ RetentionDays > 0
    /\ rows' = rows \ OldRows
    /\ UNCHANGED now

\* Mistake: ORDER BY timestamp, oldest first.
QueryOldest(answer) ==
    /\ answer \subseteq rows
    /\ Cardinality(answer) = IF Cardinality(rows) < Limit THEN Cardinality(rows) ELSE Limit
    /\ \A a \in answer, b \in rows \ answer : a.ts <= b.ts

\* SELECT ... ORDER BY timestamp DESC LIMIT: among equal timestamps, any.
Query(answer) ==
    /\ answer \subseteq rows
    /\ Cardinality(answer) = IF Cardinality(rows) < Limit THEN Cardinality(rows) ELSE Limit
    /\ \A a \in answer, b \in rows \ answer : a.ts >= b.ts
=============================================================================
