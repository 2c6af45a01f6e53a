------------------------- MODULE IndexerLeaderProofs -------------------------
(***************************************************************************)
(* Proofs about IndexerLeader, for every number of replicas, pool size and *)
(* bound. The argument: a session belongs to one replica and its number is *)
(* used once, so that what a replica's pool has is its own and new; a      *)
(* leader that has not lapsed owns the lock through its pool, and the      *)
(* server gives the lock to one session.                                   *)
(***************************************************************************)
EXTENDS IndexerLeader, TLAPS

\* The sessions the server may still give the lock to are not new ones.
OwnerOpened ==
  /\ owner # None => owner[2] <= opened[owner[1]]
  /\ \A s \in ghosts : s[2] <= opened[s[1]]

\* A session that left its pool is in none.
GhostsApart == \A r \in Replicas : ghosts \cap pool[r] = {}

\* A leader has the lock, through its pool, until its session ends.
LeaderOwns == \A r \in Replicas : Leads(r) /\ r \notin lapsed => owner \in pool[r]

IInv == TypeOK /\ OwnerOpened /\ GhostsApart /\ PollingOwnsNothing /\ LeaderOwns

\* The initial states satisfy the invariant: nobody owns the lock yet.
LEMMA InitIInv == Init => IInv
  <1> USE LeaderAssumption DEF Init, Sessions, Opened
  <1> SUFFICES ASSUME Init PROVE IInv
    OBVIOUS
  <1>1. TypeOK
    BY DEF TypeOK
  <1>2. OwnerOpened
    BY DEF OwnerOpened
  <1>3. GhostsApart
    BY DEF GhostsApart
  <1>4. PollingOwnsNothing
    BY DEF PollingOwnsNothing
  <1>5. LeaderOwns
    BY DEF LeaderOwns, Leads
  <1> QED BY <1>1, <1>2, <1>3, <1>4, <1>5 DEF IInv

\* Every step of a replica's run, of its process and of the server preserves
\* the invariant.
LEMMA NextIInv == IInv /\ [Next]_vars => IInv'
  <1> USE LeaderAssumption DEF Sessions, OwnerOpened, GhostsApart, PollingOwnsNothing,
             LeaderOwns, Leads, IInv, TypeOK
  <1> SUFFICES ASSUME IInv, [Next]_vars PROVE IInv'
    OBVIOUS
  <1>1. ASSUME NEW r \in Replicas, Begin(r) PROVE IInv'
    BY <1>1 DEF Begin, Goto
  <1>2. ASSUME NEW r \in Replicas, NoConnection(r) PROVE IInv'
    BY <1>2 DEF NoConnection, Goto
  <1>3. ASSUME NEW r \in Replicas, TryGranted(r) PROVE IInv'
    BY <1>3 DEF TryGranted, Goto
  <1>4. ASSUME NEW r \in Replicas, TryRefused(r) PROVE IInv'
    BY <1>4 DEF TryRefused, vars
  <1>5. ASSUME NEW r \in Replicas, TryLost(r) PROVE IInv'
    BY <1>5 DEF TryLost, Replace
  <1>6. ASSUME NEW r \in Replicas, Stop(r) PROVE IInv'
    BY <1>6 DEF Stop, Goto
  <1>7. ASSUME NEW r \in Replicas, Unlock(r) PROVE IInv'
    BY <1>7 DEF Unlock, Goto
  <1>8. ASSUME NEW r \in Replicas, UnlockFails(r) PROVE IInv'
    BY <1>8 DEF UnlockFails, Goto
  <1>9. ASSUME NEW r \in Replicas, Sigterm(r) PROVE IInv'
    BY <1>9 DEF Sigterm
  <1>10. ASSUME NEW r \in Replicas, Exit(r) PROVE IInv'
    BY <1>10 DEF Exit, Goto
  <1>11. ASSUME NEW r \in Replicas, Crash(r) PROVE IInv'
    BY <1>11 DEF Crash, Goto
  <1>12. ASSUME NEW r \in Replicas, Restart(r) PROVE IInv'
    BY <1>12 DEF Restart, Goto, Opened
  <1>13. ASSUME NEW r \in Replicas, Recycle(r) PROVE IInv'
    BY <1>13 DEF Recycle, Replace, Free
  <1>14. ASSUME ServerNotices PROVE IInv'
    BY <1>14 DEF ServerNotices, Free
  <1>15. ASSUME UNCHANGED vars PROVE IInv'
    BY <1>15 DEF vars
  <1> QED
    BY <1>1, <1>2, <1>3, <1>4, <1>5, <1>6, <1>7, <1>8, <1>9, <1>10, <1>11, <1>12, <1>13, <1>14, <1>15
    DEF Next, Run, Process

\* The inductive invariant holds in every reachable state.
THEOREM Invariant == Spec => []IInv
  BY InitIInv, NextIInv, PTL DEF Spec

\* Every variable keeps its type, and every pooled session is its replica's.
THEOREM TypeCorrect == Spec => []TypeOK
  <1>1. IInv => TypeOK
    BY DEF IInv
  <1> QED BY <1>1, Invariant, PTL

\* A replica that polls for the lock has none of it on any pooled connection.
THEOREM PollingSafe == Spec => []PollingOwnsNothing
  <1>1. IInv => PollingOwnsNothing
    BY DEF IInv
  <1> QED BY <1>1, Invariant, PTL

\* Of the replicas whose session has not ended under them, at most one indexes.
THEOREM LeaderSafe == Spec => []OneIndexerUnlessLapsed
  <1>1. IInv => OneIndexerUnlessLapsed
    BY DEF IInv, TypeOK, LeaderOwns, OneIndexerUnlessLapsed
  <1> QED BY <1>1, Invariant, PTL
=============================================================================
