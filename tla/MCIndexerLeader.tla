--------------------------- MODULE MCIndexerLeader ---------------------------
(* Replicas that share one database. *)
EXTENDS IndexerLeader
=============================================================================
