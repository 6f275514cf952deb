------------------------- MODULE MCBackupScheduler --------------------------
(* BackupScheduler with one id more than the clusters can hold.             *)
EXTENDS BackupScheduler

CONSTANTS c1, c2

TwoClusters == {c1, c2}
FewIds      == 1..(Cardinality(Clusters) + 1)
=============================================================================
