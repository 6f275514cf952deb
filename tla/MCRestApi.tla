------------------------------ MODULE MCRestApi ------------------------------
(***************************************************************************)
(* Three requests at a time: a create and a delete with a query of the     *)
(* log, a refused or repeated one, and the request for a backup.           *)
(***************************************************************************)
EXTENDS RestApi

Plan(a, b, c) == [r \in Requests |-> CASE r = 1 -> a [] r = 2 -> b [] r = 3 -> c]

Mixed == {Plan("create", "delete", "audit"), Plan("delete", "delete", "audit"),
          Plan("create", "create", "delete"), Plan("create", "delete", "backup")}
=============================================================================
