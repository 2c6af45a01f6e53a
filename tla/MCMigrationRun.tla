--------------------------- MODULE MCMigrationRun ---------------------------
(* Two replicas of one deployment, two migrations. *)
EXTENDS MigrationRun, TLC

CONSTANTS r1, r2

MCReplicas == {r1, r2}
OwnInstance == [r \in MCReplicas |-> r]
=============================================================================
