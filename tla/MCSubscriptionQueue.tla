------------------------ MODULE MCSubscriptionQueue ------------------------
(* One e-mail worker and one push worker, on different replicas. There are  *)
(* two subscriptions, numbers in the order of their ids; the second is to   *)
(* be told of the second event only.                                        *)
EXTENDS SubscriptionQueue

CONSTANTS a, b

MCWorkers == {<<a, "mail">>, <<b, "push">>}
MCLedger == [e \in Events |-> e]
MCFrom == [s \in Subs |-> s]
MCRank == [s \in Subs |-> s]
=============================================================================
