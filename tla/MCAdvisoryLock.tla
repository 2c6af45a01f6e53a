--------------------------- MODULE MCAdvisoryLock ---------------------------
(* Two tasks of one process that share its AdvisoryLock instance. *)
EXTENDS AdvisoryLock, TLC

CONSTANTS t1, t2, procA

MCCallers == {t1, t2}
Shared    == t1 :> procA @@ t2 :> procA
=============================================================================
