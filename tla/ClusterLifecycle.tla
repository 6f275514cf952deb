--------------------------- MODULE ClusterLifecycle ---------------------------
(***************************************************************************)
(* What the PrometheusCluster controller promises, without caches, copies  *)
(* or retries: a cluster is adopted before anything is created for it, an  *)
(* adopted cluster goes only through termination, its series is reported   *)
(* only while it is adopted, and it is gone together with that series.     *)
(* ClusterReconciler implements this specification.                        *)
(***************************************************************************)
CONSTANTS Kinds, Phases, None

VARIABLES
    life,     \* absent, new, managed (under the finalizer) or terminating
    kids,     \* the kinds of child object that exist
    series    \* the phase exported for the cluster, or None

vars == <<life, kids, series>>

Adopted == life \in {"managed", "terminating"}

Init == life = "absent" /\ kids = {} /\ series = None

Appear   == life = "absent" /\ life' = "new" /\ UNCHANGED <<kids, series>>
Withdraw == life = "new" /\ life' = "absent" /\ UNCHANGED <<kids, series>>
Adopt    == life = "new" /\ life' = "managed" /\ UNCHANGED <<kids, series>>
Condemn  == life = "managed" /\ life' = "terminating" /\ UNCHANGED <<kids, series>>
Bury     == life = "terminating" /\ life' = "absent" /\ series' = None
            /\ UNCHANGED kids

Grow   == Adopted /\ (\E k \in Kinds \ kids : kids' = kids \cup {k})
          /\ UNCHANGED <<life, series>>
Shrink == (\E k \in kids : kids' = kids \ {k}) /\ UNCHANGED <<life, series>>

Report == Adopted /\ series' \in Phases /\ UNCHANGED <<life, kids>>
Forget == series' = None /\ UNCHANGED <<life, kids>>   \* metrics live in memory

Next == Appear \/ Withdraw \/ Adopt \/ Condemn \/ Bury \/ Grow \/ Shrink
        \/ Report \/ Forget

Spec == Init /\ [][Next]_vars
=============================================================================
