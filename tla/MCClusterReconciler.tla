------------------------ MODULE MCClusterReconciler ------------------------
(***************************************************************************)
(* Specs that differ in everything a reconcile looks at: the replica       *)
(* count, the pod template, the rendered configuration and the schedule.   *)
(***************************************************************************)
EXTENDS ClusterReconciler

small == [replicas |-> 1, image |-> "v2.55",
          backup |-> [enabled |-> FALSE, bucket |-> None, schedule |-> None],
          thanos |-> [enabled |-> FALSE, objstore |-> None],
          scrape |-> None, remoteWrite |-> <<>>]

large == [small EXCEPT !.replicas = 2,
                       !.backup = [enabled |-> TRUE, bucket |-> "b", schedule |-> "daily"],
                       !.scrape = [inline |-> "list", secretRef |-> None]]

broken == [small EXCEPT !.backup = [enabled |-> TRUE, bucket |-> "b", schedule |-> "bogus"]]

TwoSpecs   == {small, large}
GoodAndBad == {small, broken}
=============================================================================
