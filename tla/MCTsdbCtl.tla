------------------------------ MODULE MCTsdbCtl ------------------------------
(***************************************************************************)
(* The runs are interchangeable: only the state of each matters.           *)
(***************************************************************************)
EXTENDS TsdbCtl, TLC

RunSymmetry == Permutations(Runs)
=============================================================================
