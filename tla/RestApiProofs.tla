---------------------------- MODULE RestApiProofs ----------------------------
(***************************************************************************)
(* Proofs about the REST API and its audit log, for any requests, any      *)
(* retention and any number of faults; what the retention itself promises, *)
(* for one that fits a time.Duration.                                      *)
(***************************************************************************)
EXTENDS RestApi, FiniteSetTheorems, TLAPS

\* What a handler under way knows of its call.
Informed == \A r \in Requests :
    /\ req[r].at \in {"unsent", "call"} => r \notin applied
    /\ req[r].at \in {"insert", "answer"} =>
          /\ req[r].op \in {"create", "delete"}
          /\ req[r].err = None => r \in applied
          /\ req[r].err \in {"NotFound", "AlreadyExists", "Invalid"} => r \notin applied

\* Timestamps are of the past, and not before the answers the client had when
\* it sent the request; answers are final.
Stamped == \A r \in Requests :
    /\ req[r].ts <= now
    /\ \A a \in before[r] : req[a].at = "done"
    /\ req[r].at = "insert" => \A a \in before[r] : req[a].ts <= req[r].ts

\* A row is about a request that is past its INSERT, and has its timestamp.
RowsMatch == \A row \in rows :
    /\ row.ts = req[row.req].ts
    /\ req[row.req].at \in {"answer", "done", "lost"}
    /\ \A a \in before[row.req] : req[a].ts <= row.ts

\* A row of that time has not come to the cutoff yet, wrapped or not.
Kept(t) == RetentionDays > 0 => t >= cutoffNow

\* A handler about to answer has left its row, unless the INSERT failed or the
\* row has aged.
Written == \A r \in Requests :
    (req[r].at = "answer" /\ r \notin unrecorded
       /\ (req[r].op = "delete" \/ req[r].err = None) /\ Kept(req[r].ts))
    => Row(r) \in rows

\* So has one that has answered.
Logged == \A r \in Requests : Owed(r) /\ Kept(req[r].ts) => Row(r) \in rows

IInv == /\ TypeOK /\ Informed /\ Stamped /\ RowsMatch /\ Written
        /\ RowsTrue /\ AnswersHonest /\ Logged

----------------------------------------------------------------------------
(* The retention arithmetic.                                                *)

\* A remainder of a number below the divisor is the number.
LEMMA SmallRemainder ==
    ASSUME NEW n \in Nat, NEW m \in Nat, n < m PROVE n % m = n
  OBVIOUS

\* The cutoff is a time, whatever the retention.
LEMMA CutoffTyped == ASSUME now \in Nat
                     PROVE  /\ Duration(-RetentionDays * Day) \in Int
                            /\ cutoffNow = now + Duration(-RetentionDays * Day)
                            /\ cutoffNow \in Int
  <1> DEFINE d == -RetentionDays * Day
  <1>1. d \in Int /\ Half \in Nat \ {0}
    BY RetentionAssumption
  <1> HIDE DEF d
  <1>2. Duration(d) \in Int
    BY <1>1 DEF Duration
  <1> QED BY <1>2 DEF cutoffNow, d

\* A retention that fits a time.Duration does not wrap: the cutoff is that many
\* days ago.
LEMMA CutoffFits == ASSUME Fits, RetentionDays > 0, now \in Nat
                    PROVE  cutoffNow = now - RetentionDays * Day
  <1> DEFINE d == RetentionDays * Day
  <1>1. d \in Nat /\ d <= Half /\ Half \in Nat \ {0}
    BY RetentionAssumption DEF Fits
  <1>2. -RetentionDays * Day = -d
    BY RetentionAssumption
  <1> HIDE DEF d
  <1>3. (-d + Half) \in Nat /\ -d + Half < 2 * Half /\ 2 * Half \in Nat
    BY <1>1
  <1>4. Duration(-d) = -d
    BY <1>1, <1>3, SmallRemainder DEF Duration
  <1> QED BY <1>1, <1>2, <1>4 DEF cutoffNow, d

----------------------------------------------------------------------------
(* What a step does to the requests: it moves one of them on.               *)

\* c is where r's handler goes; op stays.
Leads(r, c, at, err, ts, code) ==
    c.at = at /\ c.err = err /\ c.ts = ts /\ c.code = code /\ c.op = req[r].op

Goes(r, at, err, ts, code) ==
    /\ Leads(r, req'[r], at, err, ts, code)
    /\ \A q \in Requests \ {r} : req'[q] = req[q]

Places == {"unsent", "call", "insert", "answer", "done", "lost"}

\* A handler that only moves on.
LEMMA PlaceMoves ==
    ASSUME TypeOK, NEW r \in Requests, NEW at \in Places,
           Becomes(r, [req[r] EXCEPT !.at = at])
    PROVE  req' \in [Requests -> States] /\ Goes(r, at, req[r].err, req[r].ts, req[r].code)
  <1> DEFINE c == [req[r] EXCEPT !.at = at]
  <1>0. req[r] \in States /\ now \in 0..MaxTime
    BY DEF TypeOK
  <1>1. c \in States /\ Leads(r, c, at, req[r].err, req[r].ts, req[r].code)
    BY <1>0 DEF States, Leads, Places
  <1> HIDE DEF c
  <1>2. Becomes(r, c)
    BY DEF c
  <1> QED BY <1>1, <1>2 DEF TypeOK, Becomes, Goes, Leads

\* A client that leaves.
LEMMA ContextMoves ==
    ASSUME TypeOK, NEW r \in Requests,
           Becomes(r, [req[r] EXCEPT !.ctx = FALSE])
    PROVE  req' \in [Requests -> States] /\ Goes(r, req[r].at, req[r].err, req[r].ts, req[r].code)
  <1> DEFINE c == [req[r] EXCEPT !.ctx = FALSE]
  <1>0. req[r] \in States /\ now \in 0..MaxTime
    BY DEF TypeOK
  <1>1. c \in States /\ Leads(r, c, req[r].at, req[r].err, req[r].ts, req[r].code)
    BY <1>0 DEF States, Leads, Places
  <1> HIDE DEF c
  <1>2. Becomes(r, c)
    BY DEF c
  <1> QED BY <1>1, <1>2 DEF TypeOK, Becomes, Goes, Leads

\* An answer.
LEMMA AnswerMoves ==
    ASSUME TypeOK, NEW r \in Requests, NEW code \in Codes,
           Becomes(r, [req[r] EXCEPT !.at = "done", !.code = code])
    PROVE  req' \in [Requests -> States] /\ Goes(r, "done", req[r].err, req[r].ts, code)
  <1> DEFINE c == [req[r] EXCEPT !.at = "done", !.code = code]
  <1>0. req[r] \in States /\ now \in 0..MaxTime
    BY DEF TypeOK
  <1>1. c \in States /\ Leads(r, c, "done", req[r].err, req[r].ts, code)
    BY <1>0 DEF States, Leads, Places
  <1> HIDE DEF c
  <1>2. Becomes(r, c)
    BY DEF c
  <1> QED BY <1>1, <1>2 DEF TypeOK, Becomes, Goes, Leads

\* An answer with rows.
LEMMA QueryMoves ==
    ASSUME TypeOK, NEW r \in Requests, NEW code \in Codes, NEW seen \in SUBSET Requests,
           Becomes(r, [req[r] EXCEPT !.at = "done", !.code = code, !.seen = seen])
    PROVE  req' \in [Requests -> States] /\ Goes(r, "done", req[r].err, req[r].ts, code)
  <1> DEFINE c == [req[r] EXCEPT !.at = "done", !.code = code, !.seen = seen]
  <1>0. req[r] \in States /\ now \in 0..MaxTime
    BY DEF TypeOK
  <1>1. c \in States /\ Leads(r, c, "done", req[r].err, req[r].ts, code)
    BY <1>0 DEF States, Leads, Places
  <1> HIDE DEF c
  <1>2. Becomes(r, c)
    BY DEF c
  <1> QED BY <1>1, <1>2 DEF TypeOK, Becomes, Goes, Leads

\* A call that returned.
LEMMA CallMoves ==
    ASSUME TypeOK, NEW r \in Requests, NEW at \in Places, NEW err \in Errors \cup {None},
           Becomes(r, [req[r] EXCEPT !.err = err, !.ts = now, !.at = at])
    PROVE  req' \in [Requests -> States] /\ Goes(r, at, err, now, req[r].code)
  <1> DEFINE c == [req[r] EXCEPT !.err = err, !.ts = now, !.at = at]
  <1>0. req[r] \in States /\ now \in 0..MaxTime
    BY DEF TypeOK
  <1>1. c \in States /\ Leads(r, c, at, err, now, req[r].code)
    BY <1>0 DEF States, Leads, Places
  <1> HIDE DEF c
  <1>2. Becomes(r, c)
    BY DEF c
  <1> QED BY <1>1, <1>2 DEF TypeOK, Becomes, Goes, Leads

\* The result of a call moves the handler to s.audit or to its answer.
LEMMA AfterMoves ==
    ASSUME TypeOK, NEW r \in Requests, NEW err \in Errors \cup {None}, After(r, err)
    PROVE  /\ req' \in [Requests -> States]
           /\ Goes(r, IF req[r].op = "create" /\ err # None THEN "answer" ELSE "insert",
                   err, now, req[r].code)
  <1> DEFINE at == IF req[r].op = "create" /\ err # None THEN "answer" ELSE "insert"
  <1>1. at \in Places
    BY DEF Places
  <1>2. Becomes(r, [req[r] EXCEPT !.err = err, !.ts = now, !.at = at])
    BY DEF After, OpOf
  <1> HIDE DEF at
  <1>3. req' \in [Requests -> States] /\ Goes(r, at, err, now, req[r].code)
    BY <1>1, <1>2, CallMoves
  <1> QED BY <1>3 DEF at

----------------------------------------------------------------------------
(* The steps.                                                               *)

\* A fault uses up one of those left.
LEMMA FaultTyped == ASSUME TypeOK, Fault PROVE faults' \in 0..MaxFaults
  <1>1. faults \in 0..MaxFaults
    BY DEF TypeOK
  <1> QED BY <1>1, BoundsAssumption DEF Fault

\* Every action keeps every variable in its type.
LEMMA TypeStep == TypeOK /\ Next => TypeOK'
  <1> SUFFICES ASSUME TypeOK, Next PROVE TypeOK'
    OBVIOUS
  <1> USE BoundsAssumption
  <1>1. CASE \E r \in Requests : Send(r)
    <2> PICK r \in Requests : Send(r) BY <1>1
    <2>1. /\ req' \in [Requests -> States]
          /\ \/ Goes(r, "call", req[r].err, req[r].ts, req[r].code)
             \/ Goes(r, "done", req[r].err, req[r].ts, "badRequest")
      BY PlaceMoves, AnswerMoves DEF Send, Places, Codes
    <2> QED BY <2>1 DEF Send, Answered, auditVars, Codes, Goes, Leads, TypeOK
  <1>2. CASE \E r \in Requests : Disconnect(r)
    BY <1>2, ContextMoves DEF Disconnect, Fault, auditVars, Goes, Leads, TypeOK
  <1>3. CASE Kubectl \/ Finalized \/ Shutdown \/ Start
    <2>1. faults' \in 0..MaxFaults /\ cluster' \in {"absent", "live", "marked"}
      BY <1>3 DEF Kubectl, Finalized, Shutdown, Start, Fault, TypeOK
    <2>2. listening' \in BOOLEAN
      BY <1>3 DEF Kubectl, Finalized, Shutdown, Start, TypeOK
    <2>3. UNCHANGED <<now, rows, req, applied, unrecorded, before>>
      BY <1>3 DEF Kubectl, Finalized, Shutdown, Start, auditVars
    <2> QED BY <2>1, <2>2, <2>3 DEF TypeOK
  <1>4. CASE Elapse
    BY <1>4 DEF Elapse, restVars, TypeOK
  <1>5. CASE Pruner
    BY <1>5 DEF Pruner, tick, restVars, TypeOK
  <1>6. CASE Crash
    <2>1. \A r \in Requests : [req[r] EXCEPT !.at = "lost"] \in States
                              /\ [req[r] EXCEPT !.at = "lost"].at = "lost"
      BY DEF TypeOK, States
    <2>2. /\ req' \in [Requests -> States]
          /\ \A r \in Requests : req'[r].at = "done" => req'[r].code \in Codes
      BY <1>6, <2>1 DEF Crash, TypeOK
    <2>3. faults' \in 0..MaxFaults /\ listening' \in BOOLEAN
      BY <1>6, FaultTyped DEF Crash
    <2> QED BY <1>6, <2>2, <2>3 DEF Crash, auditVars, TypeOK
  <1>7. CASE \E r \in Requests : Call(r)
    <2> PICK r \in Requests : Call(r) BY <1>7
    <2>1. \E e \in Errors \cup {None} : After(r, e)
      BY DEF Call, Refusal, Errors, OpOf
    <2>2. /\ req' \in [Requests -> States] /\ req'[r].at # "done"
          /\ \A q \in Requests \ {r} : req'[q] = req[q]
      BY <2>1, AfterMoves DEF Goes, Leads
    <2>3. /\ faults' \in 0..MaxFaults /\ cluster' \in {"absent", "live", "marked"}
          /\ applied' \subseteq Requests
      BY DEF Call, Fault, Effect, TypeOK
    <2> QED BY <2>2, <2>3 DEF Call, auditVars, TypeOK
  <1>8. CASE \E r \in Requests : triggerBackup(r)
    BY <1>8, AnswerMoves DEF triggerBackup, auditVars, Codes, Goes, Leads, TypeOK
  <1>9. CASE \E r \in Requests : queryAudit(r)
    <2> PICK r \in Requests : queryAudit(r) BY <1>9
    <2>1. \A answer \in SUBSET rows : {a.req : a \in answer} \in SUBSET Requests
      BY DEF TypeOK
    <2>2. /\ req' \in [Requests -> States]
          /\ \E code \in Codes : Goes(r, "done", req[r].err, req[r].ts, code)
      BY <2>1, QueryMoves, AnswerMoves DEF queryAudit, Codes
    <2>3. faults' \in 0..MaxFaults
      BY FaultTyped DEF queryAudit, TypeOK
    <2> QED BY <2>2, <2>3 DEF queryAudit, auditVars, Goes, Leads, TypeOK
  <1>10. CASE \E r \in Requests : Record(r)
    <2> PICK r \in Requests : Record(r) BY <1>10
    <2>1. /\ req' \in [Requests -> States]
          /\ Goes(r, "answer", req[r].err, req[r].ts, req[r].code)
      BY PlaceMoves DEF Record, Places
    <2>2. req[r] \in States
      BY DEF TypeOK
    <2>3. Row(r) \in [req : Requests, ts : 0..MaxTime, result : {"success", "error"}]
      BY <2>2 DEF Row, ResultOf, States
    <2> QED BY <2>1, <2>3 DEF Record, Fault, Goes, Leads, TypeOK
  <1>11. CASE \E r \in Requests : Answer(r)
    <2> PICK r \in Requests : Answer(r) BY <1>11
    <2>1. /\ req' \in [Requests -> States]
          /\ \E code \in Codes : Goes(r, "done", req[r].err, req[r].ts, code)
      BY AnswerMoves DEF Answer, statusFor, Codes
    <2> QED BY <2>1 DEF Answer, auditVars, Goes, Leads, TypeOK
  <1> QED BY <1>1, <1>2, <1>3, <1>4, <1>5, <1>6, <1>7, <1>8, <1>9, <1>10, <1>11
          DEF Next, Handler

\* Every action keeps what the handlers know, the rows and the answers in step.
LEMMA LogStep ==
    IInv /\ Next => Informed' /\ Stamped' /\ RowsMatch' /\ Written'
                    /\ RowsTrue' /\ AnswersHonest' /\ Logged'
  <1> SUFFICES ASSUME IInv, Next
               PROVE  Informed' /\ Stamped' /\ RowsMatch' /\ Written'
                      /\ RowsTrue' /\ AnswersHonest' /\ Logged'
    OBVIOUS
  <1> USE DEF IInv
  <1>1. CASE \E r \in Requests : Send(r)
    <2> PICK r \in Requests : Send(r) BY <1>1
    <2>1. /\ req[r].at = "unsent" /\ before' = [before EXCEPT ![r] = Answered]
          /\ UNCHANGED <<now, rows, applied, unrecorded>>
      BY DEF Send, auditVars
    <2>2. \/ Goes(r, "call", req[r].err, req[r].ts, req[r].code)
          \/ req[r].op = "create" /\ Goes(r, "done", req[r].err, req[r].ts, "badRequest")
      BY PlaceMoves, AnswerMoves DEF Send, Places, Codes, OpOf
    <2>3. \A a \in Answered : req[a].at = "done" /\ a \in Requests /\ a # r
      BY <2>1 DEF Answered
    <2>4. Informed'
      BY <2>1, <2>2, <2>3 DEF Goes, Leads, Informed
    <2>5. Stamped'
      BY <2>1, <2>2, <2>3 DEF Goes, Leads, Stamped, TypeOK, States
    <2>6. RowsMatch'
      BY <2>1, <2>2, <2>3 DEF Goes, Leads, RowsMatch, Stamped, TypeOK, States, Row
    <2>7. Written'
      BY <2>1, <2>2, <2>3 DEF Goes, Leads, Written, Kept, cutoffNow, Row, ResultOf
    <2>8. RowsTrue'
      BY <2>1, <2>2, <2>3 DEF Goes, Leads, RowsTrue, Informed, Row, ResultOf, TypeOK
    <2>9. AnswersHonest'
      BY <2>1, <2>2, <2>3 DEF Goes, Leads, AnswersHonest, Informed
    <2>10. Logged'
      BY <2>1, <2>2, <2>3 DEF Goes, Leads, Logged, Written, Owed, OpOf, Kept, cutoffNow, Row, ResultOf
    <2> QED BY <2>4, <2>5, <2>6, <2>7, <2>8, <2>9, <2>10
  <1>2. CASE \E r \in Requests : Disconnect(r)
    <2> PICK r \in Requests : Disconnect(r) BY <1>2
    <2>1. /\ Goes(r, req[r].at, req[r].err, req[r].ts, req[r].code)
          /\ UNCHANGED <<now, rows, applied, unrecorded, before>>
      BY ContextMoves DEF Disconnect, auditVars
    <2>2. Informed'
      BY <2>1 DEF Goes, Leads, Informed
    <2>3. Stamped'
      BY <2>1 DEF Goes, Leads, Stamped, TypeOK, States
    <2>4. RowsMatch'
      BY <2>1 DEF Goes, Leads, RowsMatch, Stamped, TypeOK, States, Row
    <2>5. Written'
      BY <2>1 DEF Goes, Leads, Written, Kept, cutoffNow, Row, ResultOf
    <2>6. RowsTrue'
      BY <2>1 DEF Goes, Leads, RowsTrue, Informed, Row, ResultOf, TypeOK
    <2>7. AnswersHonest'
      BY <2>1 DEF Goes, Leads, AnswersHonest, Informed
    <2>8. Logged'
      BY <2>1 DEF Goes, Leads, Logged, Written, Owed, OpOf, Kept, cutoffNow, Row, ResultOf
    <2> QED BY <2>2, <2>3, <2>4, <2>5, <2>6, <2>7, <2>8
  <1>3. CASE \E r \in Requests : Call(r)
    <2> PICK r \in Requests : Call(r) BY <1>3
    <2>1. /\ req[r].at = "call" /\ req[r].op \in {"create", "delete"}
          /\ UNCHANGED <<now, rows, unrecorded, before>>
      BY DEF Call, OpOf, auditVars
    <2>2. PICK e \in Errors \cup {None} :
             /\ After(r, e)
             /\ applied' \in {applied, applied \cup {r}}
             /\ e = None => r \in applied'
             /\ e \in {"NotFound", "AlreadyExists", "Invalid"} => applied' = applied
      BY NoneAssumption DEF Call, Refusal, Errors, OpOf
    <2>3. Goes(r, IF req[r].op = "create" /\ e # None THEN "answer" ELSE "insert",
               e, now, req[r].code)
      BY <2>2, AfterMoves
    <2>4. Informed'
      BY <2>1, <2>2, <2>3 DEF Goes, Leads, Informed
    <2>5. Stamped'
      BY <2>1, <2>2, <2>3 DEF Goes, Leads, Stamped, TypeOK, States
    <2>6. RowsMatch'
      BY <2>1, <2>2, <2>3 DEF Goes, Leads, RowsMatch, Stamped, TypeOK, States, Row
    <2>7. Written'
      BY <2>1, <2>2, <2>3 DEF Goes, Leads, Written, Kept, cutoffNow, Row, ResultOf
    <2>8. RowsTrue'
      BY <2>1, <2>2, <2>3 DEF Goes, Leads, RowsTrue, Informed, Row, ResultOf, TypeOK
    <2>9. AnswersHonest'
      BY <2>1, <2>2, <2>3 DEF Goes, Leads, AnswersHonest, Informed
    <2>10. Logged'
      BY <2>1, <2>2, <2>3 DEF Goes, Leads, Logged, Written, Owed, OpOf, Kept, cutoffNow, Row, ResultOf
    <2> QED BY <2>4, <2>5, <2>6, <2>7, <2>8, <2>9, <2>10
  <1>4. CASE \E r \in Requests : triggerBackup(r) \/ queryAudit(r)
    <2> PICK r \in Requests : triggerBackup(r) \/ queryAudit(r) BY <1>4
    <2>1. /\ req[r].at = "call" /\ req[r].op \notin {"create", "delete"}
          /\ UNCHANGED <<now, rows, applied, unrecorded, before>>
      BY DEF triggerBackup, queryAudit, OpOf, auditVars
    <2>2. \A answer \in SUBSET rows : {a.req : a \in answer} \in SUBSET Requests
      BY DEF TypeOK
    <2>3. \E code \in {"unavailable", "ok", "internal"} :
             Goes(r, "done", req[r].err, req[r].ts, code)
      BY <2>2, QueryMoves, AnswerMoves DEF triggerBackup, queryAudit, Codes
    <2>4. Informed'
      BY <2>1, <2>2, <2>3 DEF Goes, Leads, Informed
    <2>5. Stamped'
      BY <2>1, <2>2, <2>3 DEF Goes, Leads, Stamped, TypeOK, States
    <2>6. RowsMatch'
      BY <2>1, <2>2, <2>3 DEF Goes, Leads, RowsMatch, Stamped, TypeOK, States, Row
    <2>7. Written'
      BY <2>1, <2>2, <2>3 DEF Goes, Leads, Written, Kept, cutoffNow, Row, ResultOf
    <2>8. RowsTrue'
      BY <2>1, <2>2, <2>3 DEF Goes, Leads, RowsTrue, Informed, Row, ResultOf, TypeOK
    <2>9. AnswersHonest'
      BY <2>1, <2>2, <2>3 DEF Goes, Leads, AnswersHonest, Informed
    <2>10. Logged'
      BY <2>1, <2>2, <2>3 DEF Goes, Leads, Logged, Written, Owed, OpOf, Kept, cutoffNow, Row, ResultOf
    <2> QED BY <2>4, <2>5, <2>6, <2>7, <2>8, <2>9, <2>10
  <1>5. CASE \E r \in Requests : Record(r)
    <2> PICK r \in Requests : Record(r) BY <1>5
    <2>1. /\ req[r].at = "insert" /\ UNCHANGED <<now, applied, before>>
          /\ \/ rows' = rows \cup {Row(r)} /\ unrecorded' = unrecorded
             \/ rows' = rows /\ unrecorded' = unrecorded \cup {r}
      BY DEF Record
    <2>2. Goes(r, "answer", req[r].err, req[r].ts, req[r].code)
      BY PlaceMoves DEF Record, Places
    <2>3. Informed'
      BY <2>1, <2>2 DEF Goes, Leads, Informed
    <2>4. Stamped'
      BY <2>1, <2>2 DEF Goes, Leads, Stamped, TypeOK, States
    <2>5. RowsMatch'
      BY <2>1, <2>2 DEF Goes, Leads, RowsMatch, Stamped, TypeOK, States, Row
    <2>6. Written'
      BY <2>1, <2>2 DEF Goes, Leads, Written, Kept, cutoffNow, Row, ResultOf
    <2>7. RowsTrue'
      BY <2>1, <2>2 DEF Goes, Leads, RowsTrue, Informed, Row, ResultOf, TypeOK
    <2>8. AnswersHonest'
      BY <2>1, <2>2 DEF Goes, Leads, AnswersHonest, Informed
    <2>9. Logged'
      BY <2>1, <2>2 DEF Goes, Leads, Logged, Written, Owed, OpOf, Kept, cutoffNow, Row, ResultOf
    <2> QED BY <2>3, <2>4, <2>5, <2>6, <2>7, <2>8, <2>9
  <1>6. CASE \E r \in Requests : Answer(r)
    <2> PICK r \in Requests : Answer(r) BY <1>6
    <2>1. /\ req[r].at = "answer"
          /\ UNCHANGED <<now, rows, applied, unrecorded, before>>
      BY DEF Answer, auditVars
    <2>2. req[r].err \in Errors \cup {None} /\ req[r].op \in {"create", "delete"}
      BY <2>1 DEF TypeOK, States, Informed
    <2>3. \E code \in Codes :
             /\ Goes(r, "done", req[r].err, req[r].ts, code)
             /\ code \in {"created", "noContent"} => req[r].err = None
             /\ code \in {"badRequest", "notFound", "conflict", "unavailable"}
                  => req[r].err \in {"NotFound", "AlreadyExists", "Invalid"}
      BY <2>2, AnswerMoves DEF Answer, statusFor, Codes, Errors
    <2>4. Informed'
      BY <2>1, <2>2, <2>3 DEF Goes, Leads, Informed
    <2>5. Stamped'
      BY <2>1, <2>2, <2>3 DEF Goes, Leads, Stamped, TypeOK, States
    <2>6. RowsMatch'
      BY <2>1, <2>2, <2>3 DEF Goes, Leads, RowsMatch, Stamped, TypeOK, States, Row
    <2>7. Written'
      BY <2>1, <2>2, <2>3 DEF Goes, Leads, Written, Kept, cutoffNow, Row, ResultOf
    <2>8. RowsTrue'
      BY <2>1, <2>2, <2>3 DEF Goes, Leads, RowsTrue, Informed, Row, ResultOf, TypeOK
    <2>9. AnswersHonest'
      BY <2>1, <2>2, <2>3 DEF Goes, Leads, AnswersHonest, Informed
    <2>10. Logged'
      BY <2>1, <2>2, <2>3 DEF Goes, Leads, Logged, Written, Owed, OpOf, Kept, cutoffNow, Row, ResultOf
    <2> QED BY <2>4, <2>5, <2>6, <2>7, <2>8, <2>9, <2>10
  <1>7. CASE Crash
    <2>1. UNCHANGED <<now, rows, applied, unrecorded, before>>
      BY <1>7 DEF Crash, auditVars
    <2>2. \A r \in Requests :
             /\ req'[r].err = req[r].err /\ req'[r].ts = req[r].ts
             /\ req'[r].code = req[r].code /\ req'[r].op = req[r].op
             /\ req'[r].at = req[r].at
                \/ (req'[r].at = "lost" /\ req[r].at \notin {"unsent", "done", "lost"})
      BY <1>7 DEF Crash, Running, TypeOK, States
    <2>3. Informed'
      BY <2>1, <2>2 DEF Informed, TypeOK
    <2>4. Stamped'
      BY <2>1, <2>2 DEF Stamped, TypeOK, States
    <2>5. RowsMatch'
      BY <2>1, <2>2 DEF RowsMatch, Stamped, TypeOK, States, Row
    <2>6. Written'
      BY <2>1, <2>2 DEF Written, Kept, cutoffNow, Row, ResultOf, TypeOK
    <2>7. RowsTrue'
      BY <2>1, <2>2 DEF RowsTrue, Informed, Row, ResultOf, TypeOK
    <2>8. AnswersHonest'
      BY <2>1, <2>2 DEF AnswersHonest, Informed, TypeOK
    <2>9. Logged'
      BY <2>1, <2>2 DEF Logged, Written, Owed, OpOf, Kept, cutoffNow, Row, ResultOf, TypeOK
    <2> QED BY <2>3, <2>4, <2>5, <2>6, <2>7, <2>8, <2>9
  <1>8. CASE Elapse
    <2>1. now \in Nat /\ now' = now + 1 /\ UNCHANGED <<rows, req, applied, unrecorded, before>>
      BY <1>8 DEF Elapse, restVars, TypeOK
    <2>2. \A t \in 0..MaxTime : Kept(t)' => Kept(t)
      <3> DEFINE d == Duration(-RetentionDays * Day)
      <3>1. d \in Int /\ cutoffNow = now + d
        BY <2>1, CutoffTyped
      <3>2. cutoffNow' = now' + d
        BY DEF cutoffNow
      <3> HIDE DEF d
      <3>3. cutoffNow' = now + 1 + d
        BY <2>1, <3>2
      <3> QED BY <2>1, <3>1, <3>3, BoundsAssumption DEF Kept
    <2>3. \A r \in Requests : req[r].ts \in 0..MaxTime
      BY DEF TypeOK, States
    <2>4. Informed' /\ RowsMatch' /\ RowsTrue' /\ AnswersHonest'
      BY <2>1 DEF Informed, RowsMatch, RowsTrue, AnswersHonest
    <2>5. Stamped'
      BY <2>1, <2>3, BoundsAssumption DEF Stamped
    <2>6. Written' /\ Logged'
      BY <2>1, <2>2, <2>3 DEF Written, Logged, Owed, OpOf, Row, ResultOf
    <2> QED BY <2>4, <2>5, <2>6
  <1>9. CASE Pruner
    <2>1. /\ RetentionDays > 0 /\ rows' = rows \ OldRows
          /\ UNCHANGED <<now, req, applied, unrecorded, before>>
      BY <1>9 DEF Pruner, tick, restVars
    <2>2. \A r \in Requests : Kept(req[r].ts) => Row(r) \notin OldRows
      <3>1. cutoffNow \in Int
        BY CutoffTyped, BoundsAssumption DEF TypeOK
      <3> QED BY <2>1, <3>1 DEF Kept, cutoffNow, OldRows, Row, TypeOK, States
    <2>3. Informed' /\ Stamped' /\ RowsMatch' /\ RowsTrue' /\ AnswersHonest'
      BY <2>1 DEF Informed, Stamped, RowsMatch, RowsTrue, AnswersHonest
    <2>4. Written' /\ Logged'
      BY <2>1, <2>2 DEF Written, Logged, Owed, OpOf, Kept, cutoffNow, Row, ResultOf
    <2> QED BY <2>3, <2>4
  <1>10. CASE Kubectl \/ Finalized \/ Shutdown \/ Start
    <2>1. UNCHANGED <<now, rows, req, applied, unrecorded, before>>
      BY <1>10 DEF Kubectl, Finalized, Shutdown, Start, auditVars
    <2> QED BY <2>1 DEF Informed, Stamped, RowsMatch, RowsTrue, AnswersHonest, Written,
                       Logged, Owed, OpOf, Kept, cutoffNow, Row, ResultOf
  <1> QED BY <1>1, <1>2, <1>3, <1>4, <1>5, <1>6, <1>7, <1>8, <1>9, <1>10
          DEF Next, Handler

----------------------------------------------------------------------------
(* The theorems.                                                            *)

\* The inductive invariant holds in every reachable state.
LEMMA Inductive == Spec => []IInv
  <1>1. Init => IInv
    <2> SUFFICES ASSUME Init PROVE IInv
      OBVIOUS
    <2>1. PICK plan \in Plans : req = [r \in Requests |-> Unsent(plan[r])]
      BY DEF Init
    <2>2. \A r \in Requests : plan[r] \in {"create", "delete", "backup", "audit"}
      BY RequestsAssumption
    <2>3. \A r \in Requests : /\ req[r] \in States /\ req[r].at = "unsent"
                              /\ req[r].ts = 0
      BY <2>1, <2>2, BoundsAssumption DEF Unsent, States
    <2>4. TypeOK
      BY <2>1, <2>3, BoundsAssumption DEF Init, TypeOK
    <2>5. Informed /\ Stamped /\ RowsMatch /\ Written
      BY <2>3 DEF Init, Informed, Stamped, RowsMatch, Written
    <2>6. RowsTrue /\ AnswersHonest /\ Logged
      BY <2>3 DEF Init, RowsTrue, AnswersHonest, Logged, Owed
    <2> QED BY <2>4, <2>5, <2>6 DEF IInv
  <1>2. IInv /\ [Next]_vars => IInv'
    <2>1. CASE Next
      BY <2>1, TypeStep, LogStep DEF IInv
    <2>2. CASE UNCHANGED vars
      <3>1. UNCHANGED <<now, rows, cluster, listening, req, applied, unrecorded, before, faults>>
        BY <2>2 DEF vars, auditVars, restVars
      <3> QED BY <3>1 DEF IInv, TypeOK, Informed, Stamped, RowsMatch, Written, RowsTrue,
                          AnswersHonest, Logged, Owed, OpOf, Kept, cutoffNow, Row, ResultOf
    <2> QED BY <2>1, <2>2
  <1> QED BY <1>1, <1>2, PTL DEF Spec

\* Every variable of the API and of its log keeps its type.
THEOREM TypeCorrect == Spec => []TypeOK
  <1>1. IInv => TypeOK BY DEF IInv
  <1> QED BY <1>1, Inductive, PTL

\* A row that says success is about a call that took effect: the handler records
\* the error it has, and a call without an error was applied.
THEOREM RowsAreTrue == Spec => []RowsTrue
  <1>1. IInv => RowsTrue BY DEF IInv
  <1> QED BY <1>1, Inductive, PTL

\* 201 and 204 are answers about calls that took effect, 400, 404, 409 and 503
\* about calls that did not, however calls fail.
THEOREM AnswersAreHonest == Spec => []AnswersHonest
  <1>1. IInv => AnswersHonest BY DEF IInv
  <1> QED BY <1>1, Inductive, PTL

\* The log orders requests that came one after the other as they came: s.audit
\* stamps an entry between the request and its answer.
THEOREM LogKeepsOrder == Spec => []RealTimeOrder
  <1>1. IInv => RealTimeOrder
    <2> SUFFICES ASSUME IInv, NEW a \in rows, NEW b \in rows, a.req \in before[b.req]
                 PROVE  a.ts <= b.ts
      BY DEF RealTimeOrder
    <2> QED BY DEF IInv, RowsMatch
  <1> QED BY <1>1, Inductive, PTL

\* A mutation whose INSERT did not fail is in the log from before its answer and
\* for as long as the retention asks, for every retention that tick can multiply
\* into a time.Duration; beyond that the cutoff wraps and the pruner takes young
\* rows.
THEOREM AnsweredIsRecorded == ASSUME Fits PROVE Spec => []Recorded
  <1>1. IInv => Recorded
    <2> SUFFICES ASSUME IInv, NEW r \in Requests, Owed(r), Young(req[r].ts)
                 PROVE  Row(r) \in rows
      BY DEF Recorded
    <2>1. now \in Nat
      BY BoundsAssumption DEF IInv, TypeOK
    <2>2. Kept(req[r].ts)
      BY <2>1, CutoffFits DEF Kept, Young
    <2> QED BY <2>2 DEF IInv, Logged
  <1> QED BY <1>1, Inductive, PTL

----------------------------------------------------------------------------
(* Reading one's own writes.                                                *)

Past == {"answer", "done", "lost"}

\* The table is finite and has at most one row of a request, which says what its
\* handler knew; an answer to a query names requests that are past their INSERT.
Queried ==
    /\ IsFiniteSet(rows)
    /\ \A row \in rows : row.result = ResultOf(row.req)
    /\ \A q \in Requests : /\ req[q].code = "ok" => req[q].at = "done"
                           /\ \A s \in req[q].seen : req[s].at \in Past
    /\ ReadYourWrites

\* A handler keeps what it has answered, and once past its INSERT what the row
\* was made of; it does not answer a query.
Keeps(q) ==
    /\ req'[q].seen = req[q].seen
    /\ req'[q].code = "ok" => req[q].code = "ok" /\ req'[q].at = req[q].at
    /\ req[q].at \in Past =>
          req'[q].at \in Past /\ req'[q].ts = req[q].ts /\ req'[q].err = req[q].err
    /\ req[q].at = "done" =>
          req'[q].at = "done" /\ req'[q].op = req[q].op /\ req'[q].code = req[q].code

LEMMA BecomesIs ==
    ASSUME TypeOK, NEW r \in Requests, NEW c, Becomes(r, c)
    PROVE  req'[r] = c /\ \A q \in Requests \ {r} : req'[q] = req[q]
  BY DEF TypeOK, Becomes

LEMMA SameKeeps ==
    ASSUME NEW q \in Requests, req'[q] = req[q] PROVE Keeps(q)
  BY DEF Keeps

\* Only an answer to a query is not of that kind.
LEMMA KeepStep ==
    ASSUME IInv, Queried, Next, NEW q \in Requests,
           ~(req[q].at = "call" /\ OpOf(q) = "audit" /\ queryAudit(q))
    PROVE  Keeps(q)
  <1> USE DEF IInv
  <1>0. req[q] \in States /\ (req[q].code = "ok" => req[q].at = "done")
    BY DEF TypeOK, Queried
  <1>1. CASE Crash
    <2>1. req'[q] = IF Running(q) THEN [req[q] EXCEPT !.at = "lost"] ELSE req[q]
      BY <1>1 DEF Crash
    <2>2. CASE Running(q)
      BY <1>0, <2>1, <2>2 DEF Running, Keeps, States, Past
    <2> QED BY <2>1, <2>2, SameKeeps
  <1>2. CASE UNCHANGED req
    BY <1>2, SameKeeps
  <1>3. ASSUME NEW r \in Requests, Send(r) \/ Disconnect(r) \/ Handler(r)
        PROVE  Keeps(q)
    <2>1. PICK c : Becomes(r, c)
      BY <1>3 DEF Send, Disconnect, Handler, Call, After, triggerBackup, queryAudit, Record, Answer
    <2>2. CASE q # r
      BY <2>1, <2>2, BecomesIs, SameKeeps
    <2>3. CASE q = r
      <3>1. CASE Send(q)
        <4>1. req[q].at = "unsent"
          BY <3>1 DEF Send
        <4>2. \/ req'[q] = [req[q] EXCEPT !.at = "call"]
              \/ req'[q] = [req[q] EXCEPT !.at = "done", !.code = "badRequest"]
          BY <3>1, BecomesIs DEF Send
        <4>3. /\ req'[q].seen = req[q].seen
              /\ req'[q].code = req[q].code \/ req'[q].code = "badRequest"
          BY <1>0, <4>2 DEF States
        <4> QED BY <1>0, <4>1, <4>3 DEF Keeps, Past
      <3>2. CASE Disconnect(q)
        BY <1>0, <3>2, BecomesIs DEF Disconnect, Keeps, States, Past
      <3>3. CASE Call(q)
        <4>1. PICK e : After(q, e)
          BY <3>3 DEF Call
        <4>2. req[q].at = "call"
          BY <3>3 DEF Call
        <4>3. PICK at : req'[q] = [req[q] EXCEPT !.err = e, !.ts = now, !.at = at]
          BY <4>1, BecomesIs DEF After
        <4>4. req'[q].seen = req[q].seen /\ req'[q].code = req[q].code
          BY <1>0, <4>3 DEF States
        <4> QED BY <1>0, <4>2, <4>4 DEF Keeps, Past
      <3>4. CASE triggerBackup(q)
        <4>1. /\ req[q].at = "call"
              /\ req'[q] = [req[q] EXCEPT !.at = "done", !.code = "unavailable"]
          BY <3>4, BecomesIs DEF triggerBackup
        <4>2. req'[q].seen = req[q].seen /\ req'[q].code = "unavailable"
          BY <1>0, <4>1 DEF States
        <4> QED BY <1>0, <4>1, <4>2 DEF Keeps, Past
      <3>5. CASE Record(q)
        BY <1>0, <3>5, BecomesIs DEF Record, Keeps, States, Past
      <3>6. CASE Answer(q)
        <4>1. PICK code \in Codes \ {"ok"} : Becomes(q, [req[q] EXCEPT !.at = "done", !.code = code])
          BY <3>6 DEF Answer, statusFor, Codes
        <4>2. req[q].at = "answer"
          BY <3>6 DEF Answer
        <4>3. req'[q] = [req[q] EXCEPT !.at = "done", !.code = code]
          BY <4>1, BecomesIs
        <4>4. /\ req'[q].seen = req[q].seen /\ req'[q].code # "ok" /\ req'[q].at = "done"
              /\ req'[q].ts = req[q].ts /\ req'[q].err = req[q].err
          BY <1>0, <4>3 DEF States
        <4> QED BY <1>0, <4>2, <4>4 DEF Keeps, Past
      <3> QED BY <1>3, <2>3, <3>1, <3>2, <3>3, <3>4, <3>5, <3>6 DEF Handler, queryAudit
    <2> QED BY <2>2, <2>3
  <1> QED BY <1>1, <1>2, <1>3
          DEF Next, Kubectl, Finalized, Elapse, Pruner, Shutdown, Start, restVars

\* What the log and the clock do under any step.
LEMMA LogMoves ==
    ASSUME IInv, Queried, Next
    PROVE  /\ IsFiniteSet(rows')
           /\ \A row \in rows' : row \in rows \/ \E r \in Requests : row = Row(r) /\ Record(r)
           /\ now' >= now /\ now' \in Nat
           /\ unrecorded \subseteq unrecorded'
           /\ \A q \in Requests : before'[q] = before[q] \/ req[q].at = "unsent"
  <1> USE DEF IInv
  <1>0. IsFiniteSet(rows) /\ now \in Nat /\ before \in [Requests -> SUBSET Requests]
    BY BoundsAssumption DEF Queried, TypeOK
  <1>1. CASE \E r \in Requests : Record(r)
    <2> PICK r \in Requests : Record(r) BY <1>1
    <2>1. /\ rows' = rows \/ rows' = rows \cup {Row(r)}
          /\ unrecorded \subseteq unrecorded' /\ UNCHANGED <<now, before>>
      BY DEF Record
    <2>2. IsFiniteSet(rows \cup {Row(r)})
      BY <1>0, FS_AddElement
    <2>3. \A row \in rows' : row \in rows \/ (row = Row(r) /\ Record(r))
      BY <2>1
    <2>4. now' >= now /\ now' \in Nat
      BY <1>0, <2>1
    <2>5. IsFiniteSet(rows')
      BY <1>0, <2>1, <2>2
    <2> QED BY <2>1, <2>3, <2>4, <2>5, Zenon
  <1>2. CASE Pruner
    <2>1. rows' \in SUBSET rows /\ UNCHANGED <<now, unrecorded, before>>
      BY <1>2 DEF Pruner, tick, restVars
    <2>2. IsFiniteSet(rows')
      BY <1>0, <2>1, FS_Subset
    <2> QED BY <1>0, <2>1, <2>2
  <1>3. CASE \E r \in Requests : Send(r)
    <2> PICK r \in Requests : Send(r) BY <1>3
    <2>1. /\ req[r].at = "unsent" /\ before' = [before EXCEPT ![r] = Answered]
          /\ UNCHANGED <<now, rows, unrecorded>>
      BY DEF Send, auditVars
    <2> QED BY <1>0, <2>1
  <1>4. CASE Elapse
    BY <1>0, <1>4 DEF Elapse, restVars
  <1>5. CASE UNCHANGED <<now, rows, unrecorded, before>>
    BY <1>0, <1>5
  <1> QED BY <1>1, <1>2, <1>3, <1>4, <1>5
          DEF Next, Handler, Disconnect, Call, triggerBackup, queryAudit, Answer, Kubectl,
              Finalized, Shutdown, Start, Crash, auditVars

\* A row that a query leaves out was cut off by the limit, for rows as new.
LEMMA CutOff ==
    ASSUME TypeOK, RowsMatch, Queried, NEW answer \in SUBSET rows, Query(answer),
           NEW w \in rows, w \notin answer
    PROVE  LET seen == {a.req : a \in answer} IN
           /\ Cardinality(seen) = Limit
           /\ \A s \in seen : req[s].ts >= w.ts
  <1> DEFINE seen == {a.req : a \in answer}
             f    == [a \in answer |-> a.req]
  <1>1. IsFiniteSet(rows) /\ IsFiniteSet(answer) /\ Cardinality(answer) # Cardinality(rows)
    BY FS_Subset DEF Queried
  <1>2. Cardinality(answer) = Limit
    BY <1>1 DEF Query
  <1>3. \A a \in answer : /\ a \in [req : Requests, ts : 0..MaxTime, result : {"success", "error"}]
                          /\ a.ts = req[a.req].ts /\ a.result = ResultOf(a.req)
    BY DEF TypeOK, RowsMatch, Queried
  <1>4. \A a, b \in answer : a.req = b.req => a = b
    BY <1>3
  <1>5. f \in Bijection(answer, seen)
    <2>1. f \in [answer -> seen] /\ \A a \in answer : f[a] = a.req
      OBVIOUS
    <2>2. f \in Injection(answer, seen)
      BY <1>4, <2>1, Zenon DEF Injection, IsInjective
    <2>3. \A t \in seen : \E a \in answer : f[a] = t
      BY <2>1
    <2>4. f \in Surjection(answer, seen)
      BY <2>1, <2>3, Zenon DEF Surjection
    <2> QED BY <2>2, <2>4 DEF Bijection
  <1>6. Cardinality(seen) = Limit
    BY <1>1, <1>2, <1>5, FS_Bijection DEF ExistsBijection
  <1>7. \A a \in answer : req[a.req].ts >= w.ts
    BY <1>3 DEF Query
  <1> QED BY <1>6, <1>7

LEMMA QueriedStep == ASSUME IInv, IInv', Recorded, Queried, Next PROVE Queried'
  <1> USE DEF IInv
  <1>1. \A q \in Requests : req[q].at # "call" => Keeps(q)
    BY KeepStep
  <1>2. \A row \in rows : row.req \in Requests /\ req[row.req].at \in Past
    BY DEF TypeOK, RowsMatch, Past
  <1>3. ASSUME NEW row \in rows' PROVE row.result = ResultOf(row.req)'
    <2>1. CASE row \in rows
      <3>1. row.req \in Requests /\ req'[row.req].err = req[row.req].err
        BY <1>1, <1>2, <2>1 DEF Keeps, Past
      <3> QED BY <2>1, <3>1 DEF Queried, ResultOf
    <2>2. CASE \E r \in Requests : row = Row(r) /\ Record(r)
      <3> PICK r \in Requests : row = Row(r) /\ Record(r) BY <2>2
      <3>1. req'[r].err = req[r].err
        BY PlaceMoves DEF Record, Places, Goes, Leads
      <3> QED BY <3>1 DEF Row, ResultOf
    <2> QED BY <2>1, <2>2, LogMoves
  <1>4. ASSUME NEW q \in Requests, Keeps(q)
        PROVE  /\ req'[q].code = "ok" => req'[q].at = "done"
               /\ \A s \in req'[q].seen : req'[s].at \in Past
    <2>1. req[q].seen \subseteq Requests
      BY DEF TypeOK, States
    <2>2. \A s \in req[q].seen : req'[s].at \in Past
      BY <1>1, <2>1 DEF Queried, Keeps, Past
    <2> QED BY <1>4, <2>2 DEF Queried, Keeps
  <1>5. ASSUME NEW q \in Requests, Keeps(q), req'[q].code = "ok",
               NEW r \in before'[q], Owed(r)', Young(req[r].ts)'
        PROVE  \/ r \in req'[q].seen
               \/ /\ Cardinality(req'[q].seen) = Limit
                  /\ \A s \in req'[q].seen : req'[s].ts >= req'[r].ts
    <2>1. req[q].code = "ok" /\ req[q].at = "done" /\ req'[q].seen = req[q].seen
      BY <1>5 DEF Keeps, Queried
    <2>2. before'[q] = before[q]
      BY <2>1, LogMoves
    <2>3. r \in before[q] /\ r \in Requests /\ req[r].at = "done"
      BY <1>5, <2>2 DEF TypeOK, Stamped
    <2>4. Keeps(r)
      BY <1>1, <2>3
    <2>5. Owed(r)
      BY <1>5, <2>3, <2>4, LogMoves DEF Owed, OpOf, Keeps
    <2>6. req'[r].ts = req[r].ts /\ req[r].ts \in 0..MaxTime
      BY <2>3, <2>4 DEF Keeps, Past, TypeOK, States
    <2>7. Young(req[r].ts)
      <3>1. now' >= now /\ now' \in Nat /\ now \in Nat
        BY <1>5, <2>3, LogMoves, BoundsAssumption DEF TypeOK
      <3> QED BY <1>5, <2>6, <3>1, RetentionAssumption DEF Young
    <2>8. \/ r \in req[q].seen
          \/ /\ Cardinality(req[q].seen) = Limit
             /\ \A s \in req[q].seen : req[s].ts >= req[r].ts
      BY <2>1, <2>3, <2>5, <2>7 DEF Queried, ReadYourWrites
    <2>9. \A s \in req[q].seen : req'[s].ts = req[s].ts
      <3>1. req[q].seen \subseteq Requests
        BY DEF TypeOK, States
      <3> QED BY <1>1, <3>1 DEF Queried, Keeps, Past
    <2> QED BY <2>1, <2>6, <2>8, <2>9
  <1>6. ASSUME NEW q \in Requests, req[q].at = "call", queryAudit(q)
        PROVE  /\ req'[q].code = "ok" => req'[q].at = "done"
               /\ \A s \in req'[q].seen : req'[s].at \in Past
               /\ req'[q].code = "ok" =>
                     \A r \in before'[q] : Owed(r)' /\ Young(req[r].ts)' =>
                        \/ r \in req'[q].seen
                        \/ /\ Cardinality(req'[q].seen) = Limit
                           /\ \A s \in req'[q].seen : req'[s].ts >= req'[r].ts
    <2>0. /\ req[q] \in States /\ UNCHANGED <<now, rows, unrecorded, before>>
          /\ \A p \in Requests \ {q} : req'[p] = req[p]
      <3>1. PICK c : Becomes(q, c)
        BY <1>6 DEF queryAudit
      <3> QED BY <1>6, <3>1, BecomesIs DEF TypeOK, queryAudit, auditVars
    <2>1. ASSUME NEW answer \in SUBSET rows, Query(answer),
                 Becomes(q, [req[q] EXCEPT !.at = "done", !.code = "ok",
                                           !.seen = {a.req : a \in answer}])
          PROVE  /\ req'[q].at = "done"
                 /\ \A s \in req'[q].seen : req'[s].at \in Past
                 /\ \A r \in before'[q] : Owed(r)' /\ Young(req[r].ts)' =>
                        \/ r \in req'[q].seen
                        \/ /\ Cardinality(req'[q].seen) = Limit
                           /\ \A s \in req'[q].seen : req'[s].ts >= req'[r].ts
      <3> DEFINE seen == {a.req : a \in answer}
      <3>1. req'[q] = [req[q] EXCEPT !.at = "done", !.code = "ok", !.seen = seen]
        BY <2>1, BecomesIs
      <3>2. \A s \in seen : s \in Requests \ {q} /\ req[s].at \in Past
        BY <1>2, <1>6 DEF Past
      <3> HIDE DEF seen
      <3>3. req'[q].at = "done" /\ req'[q].seen = seen
        BY <2>0, <3>1 DEF States
      <3>4. ASSUME NEW r \in before'[q], Owed(r)', Young(req[r].ts)', r \notin seen
            PROVE  Cardinality(seen) = Limit /\ \A s \in seen : req'[s].ts >= req'[r].ts
        <4>1. r \in Requests /\ r # q /\ req'[r] = req[r]
          BY <1>6, <2>0, <3>4 DEF TypeOK, Stamped
        <4>2. Owed(r) /\ Young(req[r].ts)
          BY <2>0, <3>4, <4>1 DEF Owed, OpOf, Young
        <4>3. Row(r) \in rows /\ Row(r).ts = req[r].ts /\ Row(r).req = r
          BY <4>1, <4>2 DEF Recorded, Row
        <4>4. Row(r) \notin answer
          BY <3>4, <4>3 DEF seen
        <4>5. Cardinality(seen) = Limit /\ \A s \in seen : req[s].ts >= Row(r).ts
          BY <2>1, <4>3, <4>4, CutOff DEF seen
        <4> QED BY <2>0, <3>2, <4>1, <4>3, <4>5
      <3> QED BY <2>0, <3>2, <3>3, <3>4
    <2>2. CASE Becomes(q, [req[q] EXCEPT !.at = "done", !.code = "internal"])
      <3>1. req'[q].code = "internal" /\ req'[q].seen = req[q].seen /\ req'[q].at = "done"
        <4>1. req'[q] = [req[q] EXCEPT !.at = "done", !.code = "internal"]
          BY <2>2, BecomesIs
        <4> QED BY <2>0, <4>1 DEF States
      <3>2. \A s \in req[q].seen : s \in Requests /\ req'[s].at \in Past
        BY <1>6, <2>0 DEF Queried, States, Past
      <3> QED BY <3>1, <3>2
    <2> QED BY <1>6, <2>1, <2>2 DEF queryAudit
  <1>7. \A q \in Requests : Keeps(q) \/ (req[q].at = "call" /\ queryAudit(q))
    BY KeepStep
  <1>8. ReadYourWrites'
    BY <1>5, <1>6, <1>7 DEF ReadYourWrites
  <1> QED BY <1>3, <1>4, <1>6, <1>7, <1>8, LogMoves DEF Queried

\* Who has an answer and then asks GET /api/clusters/:name/audit finds the row of
\* it, if its INSERT did not fail, unless Limit rows at least as new came back
\* instead; for every retention that fits a time.Duration.
THEOREM ReadsOwnWrites == ASSUME Fits PROVE Spec => []ReadYourWrites
  <1>1. Init => Queried
    <2> SUFFICES ASSUME Init PROVE Queried
      OBVIOUS
    <2>1. \A q \in Requests : req[q].code # "ok" /\ req[q].seen = {}
      BY NoneAssumption DEF Init, Unsent
    <2> QED BY <2>1, FS_EmptySet DEF Init, Queried, ReadYourWrites
  <1>2. IInv /\ IInv' /\ Recorded /\ Queried /\ [Next]_vars => Queried'
    <2>1. CASE UNCHANGED vars
      BY <2>1 DEF vars, auditVars, restVars, Queried, ReadYourWrites, Owed, OpOf, Young, ResultOf
    <2> QED BY <2>1, QueriedStep
  <1>3. Queried => ReadYourWrites
    BY DEF Queried
  <1>4. Spec => []Recorded
    BY AnsweredIsRecorded
  <1> QED BY <1>1, <1>2, <1>3, <1>4, Inductive, PTL DEF Spec
=============================================================================
