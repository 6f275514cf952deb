---------------------------- MODULE MCClusterSet ----------------------------
(***************************************************************************)
(* Two clusters in two namespaces and two Sets that overlap: one by label  *)
(* with a template, one for everything in labelled namespaces.  The        *)
(* webhook refuses the template "lead" and clusters from before its time.  *)
(***************************************************************************)
EXTENDS ClusterSet

CONSTANTS na, nb, s1, s2   \* the namespaces and the Sets

TwoNs == [c \in Clusters |-> IF c = 1 THEN na ELSE nb]

Plain   == [labelled |-> TRUE, optOut |-> FALSE, backup |-> "off", admissible |-> TRUE]
Refuser == [Plain EXCEPT !.optOut = TRUE]
Owner   == [Plain EXCEPT !.labelled = FALSE, !.backup = "own"]
Old     == [Plain EXCEPT !.admissible = FALSE]
Users   == {Plain, Refuser, Owner, Old}

Tier == [clusters |-> "labelled", namespaces |-> "all", template |-> "gold"]
Prod == [clusters |-> "all", namespaces |-> "labelled", template |-> "iron"]
Watch == [Prod EXCEPT !.template = None]
Bad  == [Tier EXCEPT !.clusters = "invalid"]

Lead == [Tier EXCEPT !.template = "lead"]

ManySpecs == {Tier, Prod, Watch, Bad, Lead}

\* Overlapping Sets over members of both kinds, and a fleet still to be set up.
Fleet(c1, c2, t1, t2) ==
    [x \in Clusters \cup Sets |-> CASE x = 1 -> c1 [] x = 2 -> c2
                                    [] x = s1 -> t1 [] x = s2 -> t2]
Fleets == {Fleet(Plain, Plain, Tier, Prod), Fleet(Plain, Refuser, Tier, Watch),
           Fleet(Plain, Owner, Prod, Bad), Fleet(Plain, None, Prod, None),
           Fleet(Plain, Old, Prod, Lead)}
=============================================================================
