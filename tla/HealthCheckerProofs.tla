------------------------- MODULE HealthCheckerProofs -------------------------
(***************************************************************************)
(* Proofs about the health checker, for any pods, any start-up time and    *)
(* any number of faults.                                                   *)
(***************************************************************************)
EXTENDS HealthChecker, TLAPS

CheckerTyped ==
    /\ at \in {"idle", "pass", "delete", "stamp"}
    /\ fresh \in BOOLEAN /\ stamped \in BOOLEAN /\ quiet \in BOOLEAN

\* In a pass that nothing has come between, the copy in hand is the stored one
\* after every stamp as it was before the first, and the only failover without
\* its stamp is the one that is being stamped.
InHand ==
    /\ quiet /\ at # "idle" => fresh
    /\ quiet /\ at # "stamp" => stamped

IInv == CheckerTyped /\ InHand

LEMMA InitInv == ASSUME Init PROVE IInv
  BY DEF Init, IInv, CheckerTyped, InHand

LEMMA StepInv == ASSUME IInv, [Next]_vars PROVE IInv'
  <1> USE DEF IInv, CheckerTyped, InHand
  <1>1. CASE checkAll
    <2>1. at' = "pass" /\ stamped' = TRUE /\ quiet' = fresh'
      BY <1>1 DEF checkAll
    <2>2. fresh' \in BOOLEAN
      BY <1>1, Zenon DEF checkAll
    <2> QED BY <2>1, <2>2, Zenon
  <1>2. CASE triggerFailover
    <2>1. at = "delete" /\ fresh' = fresh
      BY <1>2 DEF triggerFailover
    <2>2. CASE at' = "stamp" /\ stamped' = FALSE /\ quiet' = quiet
      BY <2>1, <2>2
    <2>3. CASE at' = "pass" /\ stamped' = stamped /\ quiet' = quiet
      BY <2>1, <2>3
    <2>4. CASE at' = "pass" /\ stamped' = stamped /\ quiet' = FALSE
      BY <2>1, <2>4
    <2> QED BY <1>2, <2>2, <2>3, <2>4, Zenon DEF triggerFailover, Finish
  <1>3. CASE stampFailover
    <2>1. at = "stamp" /\ at' = "pass" /\ fresh' = fresh
      BY <1>3 DEF stampFailover, Finish
    <2>2. CASE stamped' = fresh /\ quiet' = quiet
      BY <2>1, <2>2
    <2>3. CASE quiet' = FALSE /\ stamped' = stamped
      BY <2>1, <2>3
    <2> QED BY <1>3, <2>2, <2>3, Zenon DEF stampFailover
  <1>4. CASE Interval
    BY <1>4 DEF Interval
  <1>5. ASSUME NEW p \in Pods, probe(p) PROVE IInv'
    BY <1>5 DEF probe, Finish
  <1>6. CASE ListFails
    BY <1>6 DEF ListFails, checker
  <1>7. CASE StatusWrite
    BY <1>7 DEF StatusWrite
  <1>8. CASE Restart
    BY <1>8 DEF Restart
  <1>9. ASSUME NEW p \in Pods, Stick(p) \/ Evict(p) \/ Life(p) \/ Sync(p) PROVE IInv'
    BY <1>9 DEF Stick, Evict, Life, Recreate, GetAddress, BecomeReady, Terminated, Sync, checker
  <1>10. CASE UNCHANGED vars
    BY <1>10 DEF vars
  <1> QED BY <1>1, <1>2, <1>3, <1>4, <1>5, <1>6, <1>7, <1>8, <1>9, <1>10
          DEF Next, Check, Faults

----------------------------------------------------------------------------
\* Every failover of a pass of checkAll is in LastFailoverTime when the pass is
\* over, the later ones of a pass with several too, unless someone else wrote
\* the status, a call failed or the operator restarted.
THEOREM FailoversAreStamped == Spec => []FailoversStamped
  <1>1. IInv => FailoversStamped
    BY DEF IInv, InHand, FailoversStamped
  <1> QED BY <1>1, InitInv, StepInv, PTL DEF Spec
=============================================================================
