------------------------------ MODULE MCIndexer ------------------------------
(* One replica with four or five events in three ledgers, one of which no   *)
(* check lets through; two replicas with three events in two ledgers.       *)
EXTENDS Indexer, TLC

CONSTANTS a, b

One  == {a}
Both == {a, b}

\* The two are alike.
Swap == Permutations(Both)

MCEvents   == 1..4
MCLedgerOf == <<1, 1, 2, 3>>
AllValid   == MCEvents

MoreEvents   == 1..5
MoreLedgerOf == <<1, 1, 2, 2, 3>>
MoreValid    == {1, 2, 3, 5}

FewEvents   == 1..3
FewLedgerOf == <<1, 2, 2>>

EveryFault  == FaultKinds
=============================================================================
