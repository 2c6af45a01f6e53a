------------------------------ MODULE IngestLog ------------------------------
(***************************************************************************)
(* What the indexer promises of its checkpoint, whatever its pages, its    *)
(* filters, its failures and restarts: a mark in the chain that moves only *)
(* to places below which every wanted event is settled.  It may move back, *)
(* as it does when the indexer falls back to pagination by ledger.         *)
(***************************************************************************)
EXTENDS Integers

CONSTANTS Events,      \* positions of the chain's events
          LedgerOf,    \* the ledger of each event
          Valid        \* the events the indexer is there to store

VARIABLES settled,     \* events stored, or whose loss a failure explains
          mark,        \* position of the last event settled, 0 for none
          base         \* the ledger indexing began with, 0 before it does

vars == <<settled, mark, base>>

Init == settled = {} /\ mark = 0 /\ base = 0

\* All that is wanted up to position m is in S.
SettledUpTo(S, m) == \A e \in Valid : (LedgerOf[e] >= base /\ e <= m) => e \in S

\* Indexing begins, or begins anew when nothing was marked yet.
Begin ==
  /\ mark = 0
  /\ base' \in Nat
  /\ UNCHANGED <<settled, mark>>

\* A page is settled, and the mark may move with it.
Settle ==
  /\ settled \subseteq settled' /\ settled' \subseteq Events
  /\ mark' \in Events \cup {0}
  /\ mark' = mark \/ SettledUpTo(settled', mark')
  /\ UNCHANGED base

Spec == Init /\ [][Begin \/ Settle]_vars
=============================================================================
