---------------------------- MODULE IndexerProofs ----------------------------
(***************************************************************************)
(* The safety of Indexer, for any set of replicas, any chain, page sizes,  *)
(* number of faults and of ledgers, with every fault of the model.         *)
(***************************************************************************)
EXTENDS Indexer, TLAPS

\* What is settled, or will be when the replica's open transaction ends.
Known(r) == Covered \cup tx[r]

\* Indexing has begun, at StartLedger if there is one, before anything is marked.
OriginKnown ==
  /\ checkpoint # 0 => dbCurrent # 0
  /\ (StartLedger # 0 /\ (dbCurrent # 0 \/ \E r \in Replicas : pc[r] # "boot"))
       => origin = StartLedger

\* A replica has a ledger exactly while it is up.
CurrentKnown(r) == pc[r] = "boot" <=> current[r] = 0

\* It is past no ledger with an event that is not settled.
PastCovered(r) == \A e \in Wanted : LedgerOf[e] < current[r] => e \in Covered

\* The filters hide no event that is not settled.
FiltersCovered(r) == bloom[r] \subseteq Known(r) /\ session[r] \cap Valid \subseteq Known(r)

\* The cycle's cursor is past nothing that is not settled.
CursorCovered(r) ==
  pc[r] \in {"fetch", "store", "done"} => \A e \in Wanted : e <= cursor[r] => e \in Covered

\* What the next cursor, or with none the latest ledger, is past is settled
\* or still in the page.
PageCovered(r) ==
  pc[r] = "store" =>
    /\ \A e \in Wanted : e <= nextCursor[r] => e \in Known(r) \cup page[r]
    /\ nextCursor[r] = 0 =>
         \A e \in Wanted : LedgerOf[e] <= latest[r] => e \in Known(r) \cup page[r]

\* A cycle that ends has settled everything up to the latest ledger.
CycleCovered(r) ==
  pc[r] = "done" => \A e \in Wanted : LedgerOf[e] <= latest[r] => e \in Covered

TxClosed(r) == pc[r] # "store" => tx[r] = {}

\* All that is known of one replica.
Own(r) ==
  /\ CurrentKnown(r) /\ PastCovered(r) /\ FiltersCovered(r) /\ CursorCovered(r)
  /\ PageCovered(r) /\ CycleCovered(r) /\ TxClosed(r)

\* Why nothing is lost.
Coverage ==
  /\ LossAccounted /\ ResumeLedgerCovered /\ OriginKnown
  /\ \A r \in Replicas : Own(r)

\* The rows of a healthy transaction were sent.
TxSent(r) == ~aborted[r] => tx[r] \subseteq sent

\* What a process sent is in its bloom filter, and in the table, in its
\* transaction, or in one of its own that failed.
SentMarked(r) ==
  /\ pc[r] = "boot" => \A e \in Events : sentThisLife[r][e] = 0
  /\ \A e \in Events : \/ sentThisLife[r][e] = 0
                       \/ /\ sentThisLife[r][e] = 1
                          /\ e \in bloom[r] /\ e \in stored \cup failed \cup tx[r]

\* Why everything stored was sent, once, or twice if a rollback came between.
Sends ==
  /\ StoredWasSent /\ TwiceOnlyAfterRollback
  /\ \A r \in Replicas : TxSent(r) /\ SentMarked(r)

IInv == TypeOK /\ Coverage /\ Sends

\* The variables of replica q that the invariant is about stay as they are.
Same(q) ==
  /\ pc'[q] = pc[q] /\ current'[q] = current[q] /\ cursor'[q] = cursor[q]
  /\ latest'[q] = latest[q] /\ page'[q] = page[q] /\ nextCursor'[q] = nextCursor[q]
  /\ tx'[q] = tx[q] /\ aborted'[q] = aborted[q]
  /\ session'[q] = session[q] /\ bloom'[q] = bloom[q]
  /\ sentThisLife'[q] = sentThisLife[q]

-----------------------------------------------------------------------------
(* Types *)

\* Giving one replica a value of the type keeps the function in its type.
LEMMA PutTyped ==
  ASSUME NEW S, NEW f \in [Replicas -> S], NEW r \in Replicas, NEW x \in S
  PROVE  [f EXCEPT ![r] = x] \in [Replicas -> S]
  OBVIOUS

\* The cursor saved with a page is a place in the chain.
LEMMA SavedTyped == ASSUME TypeOK, NEW r \in Replicas PROVE SavedCursor(r) \in Cursors
  BY DEF SavedCursor, TypeOK

\* Every step keeps the variables in their types.
LEMMA TypeStep == TypeOK /\ [Next]_vars => TypeOK'
<1>. SUFFICES ASSUME TypeOK, [Next]_vars PROVE TypeOK'
  OBVIOUS
<1>. USE IndexerAssumption DEF vars, chainVars, dbVars, cycleVars, txVars, bloomVars,
                               sentVars, historyVars, Cursors, Fault, Put
<1>1. CASE UNCHANGED vars
  BY <1>1 DEF TypeOK
<1>2. CASE CloseLedger
  BY <1>2 DEF TypeOK, CloseLedger
<1>3. ASSUME NEW r \in Replicas, CatchUp(r) \/ Step(r) \/ FailStep(r) PROVE TypeOK'
  <2>1. CASE CatchUp(r)
    BY <2>1 DEF TypeOK, CatchUp
  <2>2. CASE Failover(r)
    BY <2>2 DEF TypeOK, Failover
  <2>3. CASE Boot(r)
    <3>1. StartAt(r, 0) \in Nat /\ StartAt(r, dbCurrent) \in Nat /\ BeginsAt(r) \in Nat
      BY DEF StartAt, BeginsAt, TypeOK
    <3>2. current' \in [Replicas -> Nat] /\ origin' \in Nat /\ faults' \in 0..MaxFaults
      BY <2>3, <3>1, PutTyped DEF Boot, TypeOK
    <3>3. bloom' \in [Replicas -> SUBSET Events] /\ pc' \in [Replicas -> {"boot", "poll", "fetch", "store", "done"}]
      BY <2>3 DEF Boot, TypeOK
    <3>4. forgotten' \subseteq Events
      BY <2>3 DEF Boot, TypeOK
    <3>. QED BY <2>3, <3>2, <3>3, <3>4 DEF Boot, TypeOK
  <2>4. CASE BeginCycle(r)
    <3>1. /\ cursor' \in [Replicas -> Cursors] /\ latest' \in [Replicas -> Nat]
          /\ expiries' \in [Replicas -> 0..ExpiryRetries]
      <4>1. /\ \E c \in Cursors : cursor' = [cursor EXCEPT ![r] = c]
            /\ latest' = [latest EXCEPT ![r] = current[r]]
            /\ expiries' = [expiries EXCEPT ![r] = 0]
        BY <2>4 DEF TypeOK, BeginCycle
      <4>2. current[r] \in Nat /\ 0 \in 0..ExpiryRetries
        BY DEF TypeOK
      <4>. QED BY <4>1, <4>2 DEF TypeOK
    <3>2. pc' \in [Replicas -> {"boot", "poll", "fetch", "store", "done"}] /\ faults' \in 0..MaxFaults
      BY <2>4 DEF TypeOK, BeginCycle
    <3>. QED BY <2>4, <3>1, <3>2 DEF TypeOK, BeginCycle
  <2>5. CASE FinishCycle(r)
    BY <2>5 DEF TypeOK, FinishCycle, NextLedger
  <2>6. CASE Fetch(r)
    <3>1. PICK answer \in Answers(r) :
            /\ page' = [page EXCEPT ![r] = FirstOf(answer, MaxPerPage)]
            /\ truncated' = truncated \cup (answer \ FirstOf(answer, MaxPerPage))
            /\ \E next \in CursorsOf(r, answer) : nextCursor' = [nextCursor EXCEPT ![r] = next]
      BY <2>6 DEF Fetch
    <3>2. answer \subseteq Events
      BY DEF Answers, Matching
    <3>3. FirstOf(answer, MaxPerPage) \subseteq Events /\ CursorsOf(r, answer) \subseteq Events \cup {0}
      BY <3>2 DEF FirstOf, CursorsOf
    <3>4. /\ page' \in [Replicas -> SUBSET Events] /\ nextCursor' \in [Replicas -> Cursors]
          /\ truncated' \subseteq Events
      <4>1. page \in [Replicas -> SUBSET Events] /\ nextCursor \in [Replicas -> Cursors]
        BY DEF TypeOK
      <4>2. page' \in [Replicas -> SUBSET Events]
        BY <3>1, <3>3, <4>1
      <4>3. nextCursor' \in [Replicas -> Cursors]
        BY <3>1, <3>3, <4>1
      <4>. QED BY <3>1, <3>2, <4>2, <4>3 DEF TypeOK
    <3>5. /\ latest' \in [Replicas -> Nat] /\ expiries' \in [Replicas -> 0..ExpiryRetries]
          /\ tx' \in [Replicas -> SUBSET Events] /\ aborted' \in [Replicas -> BOOLEAN]
          /\ pc' \in [Replicas -> {"boot", "poll", "fetch", "store", "done"}]
      BY <2>6, PutTyped DEF Fetch, TypeOK
    <3>. QED BY <2>6, <3>4, <3>5 DEF Fetch, TypeOK
  <2>7. CASE FetchFails(r)
    BY <2>7 DEF TypeOK, FetchFails
  <2>8. CASE CursorExpired(r)
    <3>1. /\ cursor' \in [Replicas -> Cursors] /\ expiries' \in [Replicas -> 0..ExpiryRetries]
          /\ faults' \in 0..MaxFaults
      <4>1. CASE expiries[r] >= ExpiryRetries
        <5>1. cursor' = [cursor EXCEPT ![r] = 0] /\ expiries' = [expiries EXCEPT ![r] = 0]
          BY <2>8, <4>1 DEF CursorExpired
        <5>2. faults' \in 0..MaxFaults
          BY <2>8 DEF CursorExpired, TypeOK
        <5>. QED BY <5>1, <5>2 DEF TypeOK
      <4>2. CASE expiries[r] < ExpiryRetries
        <5>1. expiries[r] + 1 \in 0..ExpiryRetries
          BY <4>2 DEF TypeOK
        <5>2. expiries' = [expiries EXCEPT ![r] = expiries[r] + 1] /\ cursor' = cursor
          BY <2>8, <4>2 DEF CursorExpired, TypeOK
        <5>3. faults' \in 0..MaxFaults
          BY <2>8 DEF CursorExpired, TypeOK
        <5>. QED BY <5>1, <5>2, <5>3 DEF TypeOK
      <4>. QED BY <4>1, <4>2 DEF TypeOK
    <3>. QED BY <2>8, <3>1 DEF TypeOK, CursorExpired
  <2>9. ASSUME NEW e \in Events, SkipOutOfOrder(r, e) PROVE TypeOK'
    BY <2>9 DEF TypeOK, SkipOutOfOrder, Take
  <2>10. ASSUME NEW e \in Events, Take(r, e), MarkSession(r, e)
         PROVE  /\ page' \in [Replicas -> SUBSET Events]
                /\ sessionLedger' \in [Replicas -> Nat] /\ session' \in [Replicas -> SUBSET Events]
    BY <2>10 DEF TypeOK, Take, MarkSession
  <2>11. ASSUME NEW e \in Events, SkipEvent(r, e) PROVE TypeOK'
    BY <2>10, <2>11 DEF TypeOK, SkipEvent
  <2>12. ASSUME NEW e \in Events, StoreEvent(r, e) PROVE TypeOK'
    <3>1. /\ page' \in [Replicas -> SUBSET Events]
          /\ sessionLedger' \in [Replicas -> Nat] /\ session' \in [Replicas -> SUBSET Events]
      BY <2>10, <2>12 DEF StoreEvent, Storable
    <3>2. CASE e \in stored
      BY <2>12, <3>1, <3>2 DEF StoreEvent, TypeOK
    <3>3. CASE e \notin stored
      <4>1. [sentThisLife[r] EXCEPT ![e] = @ + 1] \in [Events -> Nat]
        BY DEF TypeOK
      <4>2. sentThisLife' \in [Replicas -> [Events -> Nat]] /\ sent' \subseteq Events
        <5>1. /\ sentThisLife' = [sentThisLife EXCEPT ![r] = [sentThisLife[r] EXCEPT ![e] = @ + 1]]
              /\ sent' = sent \cup {e}
          BY <2>12, <3>3 DEF StoreEvent, Send
        <5>. QED BY <4>1, <5>1 DEF TypeOK
      <4>3. tx' \in [Replicas -> SUBSET Events] /\ bloom' \in [Replicas -> SUBSET Events]
        <5>1. tx[r] \cup {e} \in SUBSET Events /\ bloom[r] \cup {e} \in SUBSET Events
          BY DEF TypeOK
        <5>2. tx' = [tx EXCEPT ![r] = tx[r] \cup {e}] /\ bloom' = [bloom EXCEPT ![r] = bloom[r] \cup {e}]
          BY <2>12, <3>3 DEF StoreEvent
        <5>. QED BY <5>1, <5>2 DEF TypeOK
      <4>. QED BY <2>12, <3>1, <4>2, <4>3 DEF StoreEvent, TypeOK
    <3>. QED BY <3>2, <3>3
  <2>13. ASSUME NEW e \in Events, InsertFails(r, e) PROVE TypeOK'
    <3>1. /\ tx' \in [Replicas -> SUBSET Events] /\ aborted' \in [Replicas -> BOOLEAN]
          /\ faults' \in 0..MaxFaults
      BY <2>13 DEF InsertFails, TypeOK
    <3>. QED BY <2>10, <2>13, <3>1 DEF TypeOK, InsertFails, Storable
  <2>14. CASE SaveFails(r)
    BY <2>14 DEF TypeOK, SaveFails
  <2>15. ASSUME WriteDb(r) PROVE stored' \subseteq Events /\ checkpoint' \in Cursors /\ dbCurrent' \in Nat
    BY <2>15, SavedTyped DEF WriteDb, TypeOK
  <2>16. ASSUME NextPage(r)
         PROVE  /\ cursor' \in [Replicas -> Cursors]
                /\ pc' \in [Replicas -> {"boot", "poll", "fetch", "store", "done"}]
    BY <2>16 DEF NextPage, TypeOK
  <2>17. CASE Commit(r)
    BY <2>15, <2>16, <2>17 DEF TypeOK, Commit
  <2>18. CASE CommitAborted(r)
    BY <2>16, <2>18 DEF TypeOK, CommitAborted
  <2>19. CASE CommitFails(r)
    <3>1. stored' \subseteq Events /\ checkpoint' \in Cursors /\ dbCurrent' \in Nat /\ failed' \subseteq Events
      BY <2>15, <2>19 DEF CommitFails, TypeOK
    <3>2. /\ pc' \in [Replicas -> {"boot", "poll", "fetch", "store", "done"}]
          /\ tx' \in [Replicas -> SUBSET Events] /\ aborted' \in [Replicas -> BOOLEAN]
          /\ faults' \in 0..MaxFaults
      BY <2>19, PutTyped DEF CommitFails, TypeOK
    <3>. QED BY <2>19, <3>1, <3>2 DEF CommitFails, TypeOK
  <2>20. CASE Crash(r)
    <3>1. stored' \subseteq Events /\ checkpoint' \in Cursors /\ dbCurrent' \in Nat
      BY <2>15, <2>20 DEF Crash, TypeOK
    <3>2. /\ pc' \in [Replicas -> {"boot", "poll", "fetch", "store", "done"}]
          /\ current' \in [Replicas -> Nat] /\ latest' \in [Replicas -> Nat]
          /\ cursor' \in [Replicas -> Cursors] /\ nextCursor' \in [Replicas -> Cursors]
      BY <2>20, PutTyped DEF Crash, TypeOK
    <3>3. /\ page' \in [Replicas -> SUBSET Events] /\ expiries' \in [Replicas -> 0..ExpiryRetries]
          /\ tx' \in [Replicas -> SUBSET Events] /\ aborted' \in [Replicas -> BOOLEAN]
      BY <2>20, PutTyped DEF Crash, TypeOK
    <3>4. /\ sessionLedger' \in [Replicas -> Nat]
          /\ session' \in [Replicas -> SUBSET Events] /\ bloom' \in [Replicas -> SUBSET Events]
      BY <2>20, PutTyped DEF Crash, TypeOK
    <3>5. sentThisLife' \in [Replicas -> [Events -> Nat]] /\ faults' \in 0..MaxFaults
      <4>1. [e \in Events |-> 0] \in [Events -> Nat]
        OBVIOUS
      <4>. QED BY <2>20, <4>1, PutTyped DEF Crash, TypeOK
    <3>. QED BY <2>20, <3>1, <3>2, <3>3, <3>4, <3>5 DEF Crash, TypeOK
  <2>. QED
    BY <1>3, <2>1, <2>2, <2>3, <2>4, <2>5, <2>6, <2>7, <2>8, <2>9, <2>11, <2>12, <2>13, <2>14,
       <2>17, <2>18, <2>19, <2>20
    DEF Step, FailStep, StoreStep
<1>. QED BY <1>1, <1>2, <1>3 DEF Next

-----------------------------------------------------------------------------
(* What the replicas do to one another *)

\* A step of one replica leaves the variables of the others alone.
LEMMA OthersSame ==
  ASSUME TypeOK, NEW r \in Replicas, CatchUp(r) \/ Step(r) \/ FailStep(r),
         NEW q \in Replicas, q # r
  PROVE  Same(q)
<1>. USE DEF TypeOK, Same, Put, cycleVars, txVars, bloomVars, sentVars
<1>1. CASE CatchUp(r) \/ Failover(r)
  BY <1>1 DEF CatchUp, Failover
<1>2. CASE Boot(r)
  BY <1>2 DEF Boot
<1>3. CASE BeginCycle(r) \/ FinishCycle(r) \/ FetchFails(r) \/ CursorExpired(r)
  BY <1>3 DEF BeginCycle, FinishCycle, FetchFails, CursorExpired
<1>4. CASE Fetch(r)
  BY <1>4 DEF Fetch
<1>5. ASSUME NEW e \in Events, SkipOutOfOrder(r, e) \/ SkipEvent(r, e) PROVE Same(q)
  BY <1>5 DEF SkipOutOfOrder, SkipEvent, Take, MarkSession
<1>6. ASSUME NEW e \in Events, StoreEvent(r, e) PROVE Same(q)
  BY <1>6 DEF StoreEvent, Storable, Take, MarkSession, Send
<1>7. ASSUME NEW e \in Events, InsertFails(r, e) PROVE Same(q)
  BY <1>7 DEF InsertFails, Storable, Take, MarkSession
<1>8. CASE SaveFails(r)
  BY <1>8 DEF SaveFails
<1>9. CASE Commit(r) \/ CommitAborted(r)
  BY <1>9 DEF Commit, CommitAborted, NextPage
<1>10. CASE CommitFails(r)
  BY <1>10 DEF CommitFails
<1>11. CASE Crash(r)
  BY <1>11 DEF Crash
<1>. QED
  BY <1>1, <1>2, <1>3, <1>4, <1>5, <1>6, <1>7, <1>8, <1>9, <1>10, <1>11
  DEF Step, FailStep, StoreStep

\* Nothing settled is taken back, whoever steps.
LEMMA CoveredGrows ==
  ASSUME NEW r \in Replicas, CatchUp(r) \/ Step(r) \/ FailStep(r)
  PROVE  Covered \subseteq Covered'
<1>. USE DEF Covered, dbVars, historyVars
<1>1. CASE \/ CatchUp(r) \/ Failover(r) \/ BeginCycle(r) \/ FinishCycle(r)
           \/ FetchFails(r) \/ CursorExpired(r) \/ SaveFails(r)
  BY <1>1 DEF CatchUp, Failover, BeginCycle, FinishCycle, FetchFails, CursorExpired, SaveFails
<1>2. CASE Boot(r) \/ Fetch(r)
  BY <1>2 DEF Boot, Fetch
<1>3. CASE StoreStep(r) \/ (\E e \in Events : InsertFails(r, e))
  BY <1>3 DEF StoreStep, SkipOutOfOrder, SkipEvent, StoreEvent, InsertFails
<1>4. CASE Commit(r) \/ CommitAborted(r) \/ CommitFails(r) \/ Crash(r)
  BY <1>4 DEF Commit, CommitAborted, CommitFails, Crash, WriteDb
<1>. QED BY <1>1, <1>2, <1>3, <1>4 DEF Step, FailStep

\* The origin moves only when a replica starts before anything was marked:
\* up, or when no other replica is up yet.
LEMMA OriginMoves ==
  ASSUME TypeOK, NEW r \in Replicas, CatchUp(r) \/ Step(r) \/ FailStep(r)
  PROVE  \/ origin' = origin
         \/ /\ Boot(r) /\ dbCurrent = 0 /\ origin' = BeginsAt(r)
            /\ origin < origin' \/ \A q \in Replicas \ {r} : pc[q] = "boot"
<1>. USE DEF historyVars
<1>1. CASE \/ CatchUp(r) \/ Failover(r) \/ BeginCycle(r) \/ FinishCycle(r)
           \/ FetchFails(r) \/ CursorExpired(r) \/ SaveFails(r) \/ Fetch(r)
  BY <1>1 DEF CatchUp, Failover, BeginCycle, FinishCycle, FetchFails, CursorExpired, SaveFails, Fetch
<1>2. CASE Boot(r)
  BY <1>2 DEF Boot, BeginsAt
<1>3. CASE StoreStep(r) \/ (\E e \in Events : InsertFails(r, e))
  BY <1>3 DEF StoreStep, SkipOutOfOrder, SkipEvent, StoreEvent, InsertFails
<1>4. CASE Commit(r) \/ CommitAborted(r) \/ CommitFails(r) \/ Crash(r)
  BY <1>4 DEF Commit, CommitAborted, CommitFails, Crash
<1>. QED BY <1>1, <1>2, <1>3, <1>4 DEF Step, FailStep

\* What is known of a replica stays true while others step: more gets
\* settled, and no more is wanted, unless the replica is down.
LEMMA OwnKept ==
  ASSUME TypeOK, NEW q \in Replicas, Own(q), Same(q), Covered \subseteq Covered',
         Wanted' \subseteq Wanted \/ pc[q] = "boot"
  PROVE  Own(q)'
<1>. USE DEF Own, Same, Known
<1>1. CurrentKnown(q)' /\ TxClosed(q)' /\ FiltersCovered(q)'
  BY DEF CurrentKnown, TxClosed, FiltersCovered
<1>2. CASE pc[q] = "boot"
  <2>1. PastCovered(q)'
    <3>1. current'[q] = 0
      BY <1>2 DEF CurrentKnown
    <3>2. \A e \in Valid : ~(LedgerOf[e] < 0)
      BY IndexerAssumption
    <3>. QED BY <3>1, <3>2 DEF PastCovered, Wanted
  <2>. QED BY <1>1, <1>2, <2>1 DEF CursorCovered, PageCovered, CycleCovered
<1>3. CASE Wanted' \subseteq Wanted
  BY <1>1, <1>3 DEF PastCovered, CursorCovered, PageCovered, CycleCovered
<1>. QED BY <1>2, <1>3

-----------------------------------------------------------------------------
-----------------------------------------------------------------------------
(* The coverage *)

\* The initial state satisfies the invariant.
LEMMA InitIInv == Init => IInv
<1>. SUFFICES ASSUME Init PROVE IInv
  OBVIOUS
<1>1. TypeOK
  <2>1. tip \in 1..MaxLedger /\ height \in [Replicas -> 1..tip] /\ faults \in 0..MaxFaults
    BY IndexerAssumption DEF Init, Each
  <2>2. sentThisLife \in [Replicas -> [Events -> Nat]] /\ expiries \in [Replicas -> 0..ExpiryRetries]
    BY IndexerAssumption DEF Init, Each
  <2>3. /\ pc \in [Replicas -> {"boot", "poll", "fetch", "store", "done"}]
        /\ aborted \in [Replicas -> BOOLEAN]
    BY DEF Init, Each
  <2>4. /\ checkpoint \in Cursors /\ cursor \in [Replicas -> Cursors]
        /\ nextCursor \in [Replicas -> Cursors]
    BY DEF Init, Each, Cursors
  <2>5. /\ page \in [Replicas -> SUBSET Events] /\ tx \in [Replicas -> SUBSET Events]
        /\ session \in [Replicas -> SUBSET Events] /\ bloom \in [Replicas -> SUBSET Events]
    BY DEF Init, Each
  <2>. QED BY <2>1, <2>2, <2>3, <2>4, <2>5 DEF Init, TypeOK, Each
<1>2. LossAccounted /\ ResumeLedgerCovered /\ OriginKnown
  BY IndexerAssumption DEF Init, Each, LossAccounted, ResumeLedgerCovered, Wanted, OriginKnown
<1>3. ASSUME NEW r \in Replicas PROVE Own(r)
  <2>1. PastCovered(r)
    BY IndexerAssumption DEF Init, Each, PastCovered, Wanted
  <2>. QED
    BY <2>1 DEF Init, Each, Own, CurrentKnown, FiltersCovered, CursorCovered, PageCovered,
                CycleCovered, TxClosed
<1>4. Sends
  BY DEF Init, Each, Sends, TxSent, SentMarked, StoredWasSent, TwiceOnlyAfterRollback
<1>. QED BY <1>1, <1>2, <1>3, <1>4 DEF IInv, Coverage

\* A start below nothing that is wanted and not settled: at the origin, where
\* the database resumes, or at the tip, what is below it explained.
LEMMA BootStep ==
  ASSUME TypeOK, Coverage, NEW r \in Replicas, Boot(r)
  PROVE  LossAccounted' /\ ResumeLedgerCovered' /\ OriginKnown' /\ Own(r)'
<1>1. /\ UNCHANGED <<stored, checkpoint, dbCurrent, tx, session, failed, truncated>>
      /\ pc[r] = "boot" /\ pc'[r] = "poll" /\ bloom'[r] \subseteq stored /\ forgotten \subseteq forgotten'
  BY DEF Boot, TypeOK, Put, dbVars, txVars
<1>2. Own(r) /\ LossAccounted /\ ResumeLedgerCovered /\ OriginKnown
  BY DEF Coverage
<1>3. Covered \subseteq Covered'
  BY <1>1 DEF Covered
<1>4. /\ FiltersCovered(r)' /\ CursorCovered(r)' /\ PageCovered(r)' /\ CycleCovered(r)'
      /\ TxClosed(r)'
  BY <1>1, <1>2, <1>3
  DEF Own, FiltersCovered, CursorCovered, PageCovered, CycleCovered, TxClosed, Known, Covered
<1>5. StartAt(r, 0) \in Nat \ {0} /\ (dbCurrent # 0 => StartAt(r, dbCurrent) \in Nat \ {0})
  BY IndexerAssumption DEF StartAt, TypeOK
<1>6. /\ current'[r] = StartAt(r, dbCurrent) \/ current'[r] = StartAt(r, 0)
      /\ origin' = IF dbCurrent = 0 THEN BeginsAt(r) ELSE origin
  BY DEF Boot, Put, TypeOK
<1>7. current'[r] \in Nat \ {0}
  BY <1>5, <1>6 DEF TypeOK
<1>8. CurrentKnown(r)'
  BY <1>1, <1>7 DEF CurrentKnown
<1>9. CASE dbCurrent = 0
  <2>1. current'[r] = StartAt(r, 0) /\ origin' = BeginsAt(r) /\ checkpoint = 0
    BY <1>2, <1>6, <1>9 DEF OriginKnown
  <2>2. StartAt(r, 0) <= origin'
    BY <1>5, <2>1 DEF BeginsAt, TypeOK
  <2>3. \A e \in Valid : LedgerOf[e] \in Nat \ {0} /\ e \in Nat \ {0}
    BY IndexerAssumption
  <2>4. \A e \in Wanted' : LedgerOf[e] >= StartAt(r, 0)
    <3>1. origin' \in Nat
      BY <2>1, <1>5 DEF BeginsAt, TypeOK
    <3>. QED BY <2>2, <2>3, <3>1, <1>5 DEF Wanted
  <2>5. PastCovered(r)'
    <3>. SUFFICES ASSUME NEW e \in Wanted', LedgerOf[e] < current'[r] PROVE FALSE
      BY DEF PastCovered
    <3>1. e \in Valid
      BY DEF Wanted
    <3>. QED BY <1>5, <2>1, <2>3, <2>4, <3>1
  <2>6. ResumeLedgerCovered' /\ LossAccounted'
    BY <1>1, <1>9, <2>1, <2>3 DEF ResumeLedgerCovered, LossAccounted, Wanted
  <2>7. OriginKnown'
    BY <1>1, <1>2, <1>9, <2>1 DEF OriginKnown, BeginsAt, StartAt
  <2>. QED BY <1>4, <1>8, <2>5, <2>6, <2>7 DEF Own
<1>10. CASE dbCurrent # 0
  <2>1. Wanted' = Wanted
    BY <1>6, <1>10 DEF Wanted
  <2>2. LossAccounted' /\ ResumeLedgerCovered' /\ OriginKnown'
    BY <1>1, <1>2, <1>3, <1>6, <1>10, <2>1 DEF LossAccounted, ResumeLedgerCovered, OriginKnown
  <2>3. CASE current'[r] = StartAt(r, dbCurrent)
    <3>1. CASE StartLedger # 0
      <4>1. current'[r] = origin
        BY <1>2, <1>10, <2>3, <3>1 DEF StartAt, OriginKnown
      <4>2. \A e \in Wanted : ~(LedgerOf[e] < origin)
        BY IndexerAssumption DEF Wanted, TypeOK
      <4>. QED BY <1>4, <1>8, <2>1, <2>2, <4>1, <4>2 DEF Own, PastCovered
    <3>2. CASE StartLedger = 0
      <4>1. current'[r] = dbCurrent
        BY <1>10, <2>3, <3>2 DEF StartAt
      <4>2. PastCovered(r)'
        BY <1>2, <1>3, <2>1, <4>1 DEF PastCovered, ResumeLedgerCovered
      <4>. QED BY <1>4, <1>8, <2>2, <4>2 DEF Own
    <3>. QED BY <3>1, <3>2
  <2>4. CASE /\ current'[r] = StartAt(r, 0)
             /\ forgotten' = forgotten \cup {e \in Events : LedgerOf[e] < StartAt(r, 0)}
    <3>1. \A e \in Wanted : e \in Events
      BY IndexerAssumption DEF Wanted
    <3>2. PastCovered(r)'
      BY <2>1, <2>4, <3>1 DEF PastCovered, Covered
    <3>. QED BY <1>4, <1>8, <2>2, <3>2 DEF Own
  <2>. QED BY <2>3, <2>4 DEF Boot, Put, TypeOK
<1>. QED BY <1>9, <1>10

\* The prefix argument: a wanted event the next cursor is past is in the
\* answer, or is below the request and was settled before.
LEMMA FetchStep ==
  ASSUME TypeOK, Coverage, NEW r \in Replicas, Fetch(r)
  PROVE  LossAccounted' /\ ResumeLedgerCovered' /\ OriginKnown' /\ Own(r)'
<1>1. PICK answer \in Answers(r) :
        /\ page' = [page EXCEPT ![r] = FirstOf(answer, MaxPerPage)]
        /\ truncated' = truncated \cup (answer \ FirstOf(answer, MaxPerPage))
        /\ \E next \in CursorsOf(r, answer) : nextCursor' = [nextCursor EXCEPT ![r] = next]
  BY DEF Fetch, Put
<1>2. /\ page'[r] = FirstOf(answer, MaxPerPage) /\ nextCursor'[r] \in CursorsOf(r, answer)
      /\ latest'[r] = height[r] /\ tx'[r] = {} /\ pc'[r] = "store" /\ pc[r] = "fetch"
      /\ UNCHANGED <<stored, checkpoint, dbCurrent, current, cursor, session, bloom,
                     origin, failed, forgotten>>
      /\ \A q \in Replicas : pc'[q] = "boot" <=> pc[q] = "boot"
  BY <1>1 DEF Fetch, Put, TypeOK, dbVars, bloomVars
<1>3. Covered \subseteq Covered' /\ answer \subseteq Covered' \cup page'[r] /\ Wanted' = Wanted
  BY <1>1, <1>2 DEF Covered, Wanted
<1>4. /\ Own(r) /\ LossAccounted /\ ResumeLedgerCovered /\ OriginKnown
      /\ height[r] \in Nat /\ cursor[r] \in Nat /\ current[r] \in Nat
      /\ \A e \in Events : LedgerOf[e] \in Nat /\ e \in Nat \ {0}
      /\ Wanted \subseteq Events
  <2>1. \A e \in Events : LedgerOf[e] \in Nat /\ e \in Nat \ {0}
    BY IndexerAssumption
  <2>2. Wanted \subseteq Events
    BY IndexerAssumption DEF Wanted
  <2>3. height[r] \in Nat /\ cursor[r] \in Nat /\ current[r] \in Nat
    BY <2>1 DEF TypeOK, Cursors
  <2>. QED BY <2>1, <2>2, <2>3 DEF Coverage
<1>5. ASSUME NEW e \in Wanted, LedgerOf[e] <= height[r], e \notin Matching(r) PROVE e \in Covered
  <2>1. e \in Events /\ ~(IF cursor[r] # 0 THEN e > cursor[r] ELSE LedgerOf[e] >= current[r])
    BY <1>4, <1>5 DEF Matching
  <2>2. e <= cursor[r] \/ LedgerOf[e] < current[r]
    BY <1>4, <2>1
  <2>. QED BY <1>2, <1>4, <1>5, <2>2 DEF Own, CursorCovered, PastCovered
<1>6. ASSUME NEW e \in Wanted, e <= nextCursor'[r] PROVE e \in Covered \cup answer
  <2>1. e \in Events /\ nextCursor'[r] # 0
    BY <1>4, <1>6
  <2>2. nextCursor'[r] \in answer /\ nextCursor'[r] \in Matching(r)
    BY <1>2, <2>1 DEF CursorsOf, Answers
  <2>3. LedgerOf[e] <= height[r]
    <3>1. nextCursor'[r] \in Events /\ LedgerOf[nextCursor'[r]] <= height[r]
      BY <2>2 DEF Matching
    <3>2. e = nextCursor'[r] \/ LedgerOf[e] <= LedgerOf[nextCursor'[r]]
      <4>1. e = nextCursor'[r] \/ e < nextCursor'[r]
        BY <1>4, <1>6, <2>1, <3>1
      <4>2. \A f, g \in Events : f < g => LedgerOf[f] <= LedgerOf[g]
        BY IndexerAssumption
      <4>. QED BY <2>1, <3>1, <4>1, <4>2
    <3>. QED BY <1>4, <2>1, <3>1, <3>2
  <2>. QED BY <1>1, <1>5, <1>6, <2>2, <2>3 DEF Answers
<1>7. ASSUME NEW e \in Wanted, nextCursor'[r] = 0, LedgerOf[e] <= height[r]
      PROVE  e \in Covered \cup answer
  <2>1. 0 \notin answer
    BY <1>4 DEF Answers, Matching
  <2>2. answer = Matching(r)
    BY <1>2, <1>7, <2>1 DEF CursorsOf
  <2>. QED BY <1>5, <1>7, <2>2
<1>8. PageCovered(r)'
  BY <1>2, <1>3, <1>6, <1>7 DEF PageCovered, Known
<1>9. /\ CurrentKnown(r)' /\ PastCovered(r)' /\ FiltersCovered(r)' /\ CursorCovered(r)'
      /\ CycleCovered(r)' /\ TxClosed(r)'
  BY <1>2, <1>3, <1>4
  DEF Own, CurrentKnown, PastCovered, FiltersCovered, CursorCovered, CycleCovered, TxClosed, Known
<1>10. LossAccounted' /\ ResumeLedgerCovered' /\ OriginKnown'
  BY <1>2, <1>3, <1>4 DEF LossAccounted, ResumeLedgerCovered, OriginKnown
<1>. QED BY <1>8, <1>9, <1>10 DEF Own

\* A replica's own step keeps the coverage of the database and its own: what
\* leaves a page is stored, explained, or was known already.
LEMMA OwnStep ==
  ASSUME TypeOK, Coverage, NEW r \in Replicas, CatchUp(r) \/ Step(r) \/ FailStep(r)
  PROVE  LossAccounted' /\ ResumeLedgerCovered' /\ OriginKnown' /\ Own(r)'
<1>. DEFINE Kept == LossAccounted /\ ResumeLedgerCovered /\ OriginKnown /\ Own(r)
<1>. SUFFICES Kept'
  OBVIOUS
<1>. USE IndexerAssumption DEF TypeOK, Cursors, Coverage, Own, LossAccounted, PastCovered,
             ResumeLedgerCovered, OriginKnown, CurrentKnown, FiltersCovered, CursorCovered,
             PageCovered, CycleCovered, TxClosed, Wanted, Covered, Known, Put,
             chainVars, dbVars, cycleVars, txVars, bloomVars, sentVars, historyVars
<1>1. CASE CatchUp(r) \/ Failover(r)
  BY <1>1 DEF CatchUp, Failover
<1>2. CASE Boot(r)
  BY <1>2, BootStep
<1>3. CASE BeginCycle(r)
  <2>1. /\ UNCHANGED <<dbVars, current, page, nextCursor, txVars, bloomVars, historyVars>>
        /\ pc[r] = "poll" /\ pc'[r] = "fetch" /\ cursor'[r] \in {checkpoint, 0}
        /\ \A q \in Replicas : pc'[q] # "boot" <=> pc[q] # "boot"
    BY <1>3 DEF BeginCycle
  <2>2. \A e \in Events : ~(e <= 0)
    OBVIOUS
  <2>3. CursorCovered(r)'
    BY <2>1, <2>2
  <2>. QED BY <2>1, <2>3
<1>4. CASE FinishCycle(r)
  BY <1>4 DEF FinishCycle, NextLedger
<1>5. CASE Fetch(r)
  BY <1>5, FetchStep
<1>6. CASE FetchFails(r)
  <2>1. /\ UNCHANGED <<dbVars, current, txVars, bloomVars, historyVars>>
        /\ pc'[r] = "poll" /\ pc[r] = "fetch"
        /\ \A q \in Replicas : pc'[q] # "boot" <=> pc[q] # "boot"
    BY <1>6 DEF FetchFails
  <2>. QED BY <2>1
<1>7. CASE CursorExpired(r)
  <2>1. /\ UNCHANGED <<dbVars, pc, current, latest, page, nextCursor, txVars, bloomVars, historyVars>>
        /\ pc[r] = "fetch" /\ cursor'[r] \in {cursor[r], 0}
    BY <1>7 DEF CursorExpired
  <2>2. \A e \in Events : ~(e <= 0)
    OBVIOUS
  <2>3. CursorCovered(r)'
    BY <2>1, <2>2
  <2>. QED BY <2>1, <2>3
<1>8. ASSUME NEW e \in Events, SkipOutOfOrder(r, e) PROVE Kept'
  BY <1>8 DEF SkipOutOfOrder, Take
<1>9. ASSUME NEW e \in Events, SkipEvent(r, e) PROVE Kept'
  <2>1. e \in Valid => e \in Known(r)
    BY <1>9 DEF SkipEvent, Filtered, SessionSees
  <2>2. /\ UNCHANGED <<chainVars, dbVars, pc, current, cursor, latest, nextCursor, expiries,
                       txVars, bloom, sentVars, historyVars, faults>>
        /\ page'[r] = page[r] \ {e} /\ pc[r] = "store"
        /\ session'[r] \subseteq session[r] \cup {e}
    BY <1>9 DEF SkipEvent, Take, MarkSession
  <2>3. FiltersCovered(r)'
    BY <2>1, <2>2
  <2>4. \A x \in Events : x \in page[r] => x \in page'[r] \/ x = e
    BY <2>2
  <2>5. PageCovered(r)'
    BY <2>1, <2>2, <2>4
  <2>. QED BY <2>2, <2>3, <2>5
<1>10. ASSUME NEW e \in Events, StoreEvent(r, e) PROVE Kept'
  <2>1. /\ UNCHANGED <<chainVars, dbVars, pc, current, cursor, latest, nextCursor, historyVars>>
        /\ page'[r] = page[r] \ {e} /\ pc[r] = "store"
        /\ session'[r] \subseteq session[r] \cup {e}
    BY <1>10 DEF StoreEvent, Storable, Take, MarkSession
  <2>2. Known(r)' = Known(r) \cup {e} /\ bloom'[r] \subseteq bloom[r] \cup {e}
    BY <1>10 DEF StoreEvent
  <2>3. FiltersCovered(r)'
    BY <2>1, <2>2
  <2>4. PageCovered(r)'
    BY <2>1, <2>2
  <2>. QED BY <2>1, <2>3, <2>4
<1>11. ASSUME NEW e \in Events, InsertFails(r, e) PROVE Kept'
  BY <1>11 DEF InsertFails, Storable, Take, MarkSession
<1>12. CASE SaveFails(r)
  BY <1>12 DEF SaveFails
<1>13. CASE Commit(r)
  BY <1>13 DEF Commit, WriteDb, NextPage, SavedCursor, PageDone
<1>14. CASE CommitAborted(r)
  BY <1>14 DEF CommitAborted, NextPage, PageDone
<1>15. CASE CommitFails(r)
  BY <1>15 DEF CommitFails, WriteDb, SavedCursor, PageDone
<1>16. CASE Crash(r)
  BY <1>16 DEF Crash, WriteDb, SavedCursor, PageDone
<1>. QED
  BY <1>1, <1>2, <1>3, <1>4, <1>5, <1>6, <1>7, <1>8, <1>9, <1>10, <1>11,
     <1>12, <1>13, <1>14, <1>15, <1>16
  DEF Step, FailStep, StoreStep

\* Every step keeps the coverage of the database and of every replica.
LEMMA CoverageStep == TypeOK /\ Coverage /\ [Next]_vars => Coverage'
<1>. SUFFICES ASSUME TypeOK, Coverage, [Next]_vars PROVE Coverage'
  OBVIOUS
<1>1. CASE UNCHANGED vars
  BY <1>1
  DEF vars, chainVars, dbVars, cycleVars, txVars, bloomVars, historyVars, Coverage, LossAccounted,
      ResumeLedgerCovered, OriginKnown, Own, CurrentKnown, PastCovered, FiltersCovered,
      CursorCovered, PageCovered, CycleCovered, TxClosed, Wanted, Covered, Known
<1>2. CASE CloseLedger
  BY <1>2
  DEF CloseLedger, dbVars, cycleVars, txVars, bloomVars, historyVars, Coverage, LossAccounted,
      ResumeLedgerCovered, OriginKnown, Own, CurrentKnown, PastCovered, FiltersCovered,
      CursorCovered, PageCovered, CycleCovered, TxClosed, Wanted, Covered, Known
<1>3. ASSUME NEW r \in Replicas, CatchUp(r) \/ Step(r) \/ FailStep(r) PROVE Coverage'
  <2>1. LossAccounted' /\ ResumeLedgerCovered' /\ OriginKnown' /\ Own(r)'
    BY <1>3, OwnStep
  <2>2. ASSUME NEW q \in Replicas, q # r PROVE Own(q)'
    <3>1. Own(q) /\ Same(q) /\ Covered \subseteq Covered'
      BY <1>3, <2>2, OthersSame, CoveredGrows DEF Coverage
    <3>2. Wanted' \subseteq Wanted \/ pc[q] = "boot"
      <4>1. CASE origin' = origin
        BY <4>1 DEF Wanted
      <4>2. CASE Boot(r) /\ origin < origin'
        <5>1. origin \in Nat /\ origin' \in Nat
          BY <4>2, TypeStep DEF TypeOK
        <5>2. \A e \in Valid : LedgerOf[e] \in Nat
          BY IndexerAssumption
        <5>. QED BY <4>2, <5>1, <5>2 DEF Wanted
      <4>3. CASE \A p \in Replicas \ {r} : pc[p] = "boot"
        BY <2>2, <4>3
      <4>. QED BY <1>3, <4>1, <4>2, <4>3, OriginMoves
    <3>. QED BY <3>1, <3>2, OwnKept
  <2>. QED BY <2>1, <2>2 DEF Coverage
<1>. QED BY <1>1, <1>2, <1>3 DEF Next

-----------------------------------------------------------------------------
(* The sends *)

\* What is stored, failed or sent stays so, whoever steps.
LEMMA SettledGrows ==
  ASSUME NEW r \in Replicas, CatchUp(r) \/ Step(r) \/ FailStep(r)
  PROVE  stored \subseteq stored' /\ failed \subseteq failed' /\ sent \subseteq sent'
<1>. USE DEF dbVars, sentVars, historyVars
<1>1. CASE \/ CatchUp(r) \/ Failover(r) \/ BeginCycle(r) \/ FinishCycle(r)
           \/ FetchFails(r) \/ CursorExpired(r) \/ SaveFails(r)
  BY <1>1 DEF CatchUp, Failover, BeginCycle, FinishCycle, FetchFails, CursorExpired, SaveFails
<1>2. CASE Boot(r) \/ Fetch(r)
  BY <1>2 DEF Boot, Fetch
<1>3. CASE StoreStep(r) \/ (\E e \in Events : InsertFails(r, e))
  BY <1>3 DEF StoreStep, SkipOutOfOrder, SkipEvent, StoreEvent, InsertFails, Send
<1>4. CASE Commit(r) \/ CommitAborted(r) \/ CommitFails(r) \/ Crash(r)
  BY <1>4 DEF Commit, CommitAborted, CommitFails, Crash, WriteDb
<1>. QED BY <1>1, <1>2, <1>3, <1>4 DEF Step, FailStep

\* A replica's own step keeps what is known of its sends.
LEMMA SendsOwn ==
  ASSUME TypeOK, Coverage, Sends, NEW r \in Replicas, CatchUp(r) \/ Step(r) \/ FailStep(r)
  PROVE  StoredWasSent' /\ TxSent(r)' /\ SentMarked(r)'
<1>. DEFINE Kept == StoredWasSent /\ TxSent(r) /\ SentMarked(r)
<1>. SUFFICES Kept'
  OBVIOUS
<1>0. TxClosed(r)
  BY DEF Coverage, Own
<1>. USE DEF TypeOK, Sends, TxSent, SentMarked, StoredWasSent, Put,
             dbVars, cycleVars, txVars, bloomVars, sentVars, historyVars
<1>1. CASE CatchUp(r) \/ Failover(r) \/ SaveFails(r)
  BY <1>1 DEF CatchUp, Failover, SaveFails
<1>2. CASE Boot(r)
  BY <1>2 DEF Boot
<1>3. CASE BeginCycle(r) \/ FinishCycle(r) \/ FetchFails(r) \/ CursorExpired(r)
  BY <1>3 DEF BeginCycle, FinishCycle, FetchFails, CursorExpired
<1>4. CASE Fetch(r)
  BY <1>0, <1>4 DEF Fetch, TxClosed
<1>5. ASSUME NEW e \in Events, SkipOutOfOrder(r, e) \/ SkipEvent(r, e) PROVE Kept'
  BY <1>5 DEF SkipOutOfOrder, SkipEvent
<1>6. ASSUME NEW e \in Events, StoreEvent(r, e) PROVE Kept'
  <2>1. CASE e \in stored
    BY <1>6, <2>1 DEF StoreEvent
  <2>2. CASE e \notin stored
    <3>1. /\ tx'[r] = tx[r] \cup {e} /\ bloom'[r] = bloom[r] \cup {e} /\ sent' = sent \cup {e}
          /\ sentThisLife'[r] = [sentThisLife[r] EXCEPT ![e] = @ + 1]
          /\ UNCHANGED <<stored, failed, pc, aborted>>
      BY <1>6, <2>2 DEF StoreEvent, Send
    <3>2. e \notin bloom[r] /\ pc[r] = "store"
      BY <1>6 DEF StoreEvent, Storable, Filtered, Take
    <3>3. sentThisLife[r][e] = 0
      BY <3>2
    <3>4. TxSent(r)' /\ StoredWasSent'
      BY <3>1
    <3>5. SentMarked(r)'
      BY <3>1, <3>2, <3>3
    <3>. QED BY <3>4, <3>5
  <2>. QED BY <2>1, <2>2
<1>7. ASSUME NEW e \in Events, InsertFails(r, e) PROVE Kept'
  BY <1>7 DEF InsertFails
<1>8. CASE Commit(r)
  BY <1>8 DEF Commit, WriteDb, NextPage, PageDone
<1>9. CASE CommitAborted(r)
  BY <1>9 DEF CommitAborted, NextPage, PageDone
<1>10. CASE CommitFails(r)
  BY <1>10 DEF CommitFails, WriteDb, PageDone
<1>11. CASE Crash(r)
  BY <1>11 DEF Crash, WriteDb
<1>. QED
  BY <1>1, <1>2, <1>3, <1>4, <1>5, <1>6, <1>7, <1>8, <1>9, <1>10, <1>11
  DEF Step, FailStep, StoreStep

\* A failed transaction holds event e, or did.
RolledBack(q, r, e) == e \in failed \/ \E p \in {q, r} : aborted[p] /\ e \in tx[p]

\* A replica sends what another has sent only if that one's row was rolled
\* back: else the row is in the table, or its transaction holds the insert up.
LEMMA SecondSend ==
  ASSUME TypeOK, Coverage, Sends, NEW r \in Replicas, CatchUp(r) \/ Step(r) \/ FailStep(r),
         NEW q \in Replicas, q # r, NEW e \in Events,
         sentThisLife'[q][e] = 1, sentThisLife'[r][e] = 1
  PROVE  RolledBack(q, r, e)'
<1>1. Same(q) /\ failed \subseteq failed'
  BY OthersSame, SettledGrows
<1>2. sentThisLife[q][e] = 1
  BY <1>1 DEF Same
<1>3. sentThisLife[r][e] = 1 => RolledBack(q, r, e)
  BY <1>2 DEF Sends, TwiceOnlyAfterRollback, RolledBack
<1>4. ASSUME sentThisLife'[r] = sentThisLife[r],
             \/ aborted'[r] = aborted[r] /\ tx'[r] = tx[r]
             \/ ~aborted[r] \/ e \notin tx[r]
             \/ aborted'[r] /\ tx[r] \subseteq tx'[r]
             \/ failed' = failed \cup tx[r]
      PROVE  RolledBack(q, r, e)'
  BY <1>1, <1>3, <1>4 DEF RolledBack, Same
<1>. USE DEF TypeOK, Put, cycleVars, txVars, sentVars
<1>5. CASE CatchUp(r) \/ Failover(r) \/ SaveFails(r) \/ Boot(r)
  BY <1>4, <1>5 DEF CatchUp, Failover, SaveFails, Boot
<1>6. CASE BeginCycle(r) \/ FinishCycle(r) \/ FetchFails(r) \/ CursorExpired(r)
  BY <1>4, <1>6 DEF BeginCycle, FinishCycle, FetchFails, CursorExpired
<1>7. CASE Fetch(r)
  <2>1. tx[r] = {}
    BY <1>7 DEF Fetch, Coverage, Own, TxClosed
  <2>. QED BY <1>4, <1>7, <2>1 DEF Fetch
<1>8. ASSUME NEW f \in Events, SkipOutOfOrder(r, f) \/ SkipEvent(r, f) PROVE RolledBack(q, r, e)'
  BY <1>4, <1>8 DEF SkipOutOfOrder, SkipEvent
<1>9. ASSUME NEW f \in Events, StoreEvent(r, f) PROVE RolledBack(q, r, e)'
  <2>1. ~aborted[r]
    BY <1>9 DEF StoreEvent
  <2>2. CASE sentThisLife[r][e] = 1
    BY <1>1, <1>3, <2>1, <2>2 DEF RolledBack, Same
  <2>3. CASE sentThisLife[r][e] # 1
    <3>1. e = f /\ e \notin stored /\ ~Blocked(r, e)
      <4>1. f \notin stored /\ Send(r, f) /\ ~Blocked(r, f)
        BY <1>9, <2>3 DEF StoreEvent
      <4>. QED BY <2>3, <4>1 DEF Send
    <3>2. e \in stored \cup failed \cup tx[q]
      BY <1>2 DEF Sends, SentMarked
    <3>3. e \in tx[q] => aborted[q]
      BY <3>1 DEF Blocked
    <3>. QED BY <1>1, <3>1, <3>2, <3>3 DEF RolledBack, Same
  <2>. QED BY <2>2, <2>3
<1>10. ASSUME NEW f \in Events, InsertFails(r, f) PROVE RolledBack(q, r, e)'
  BY <1>4, <1>10 DEF InsertFails
<1>11. CASE Commit(r)
  <2>1. sentThisLife'[r] = sentThisLife[r] /\ ~aborted[r]
    BY <1>11 DEF Commit
  <2>. QED BY <1>4, <2>1
<1>12. CASE CommitAborted(r) \/ CommitFails(r)
  <2>1. sentThisLife'[r] = sentThisLife[r] /\ (~aborted[r] \/ failed' = failed \cup tx[r])
    BY <1>12 DEF CommitAborted, CommitFails
  <2>. QED BY <1>4, <2>1
<1>13. CASE Crash(r)
  BY <1>13 DEF Crash
<1>. QED
  BY <1>5, <1>6, <1>7, <1>8, <1>9, <1>10, <1>11, <1>12, <1>13
  DEF Step, FailStep, StoreStep

\* Every step keeps what is known of the sends.
LEMMA SendsStep == TypeOK /\ Coverage /\ Sends /\ [Next]_vars => Sends'
<1>. SUFFICES ASSUME TypeOK, Coverage, Sends, [Next]_vars PROVE Sends'
  OBVIOUS
<1>1. CASE UNCHANGED vars \/ CloseLedger
  BY <1>1
  DEF vars, CloseLedger, dbVars, cycleVars, txVars, bloomVars, sentVars, historyVars,
      Sends, StoredWasSent, TwiceOnlyAfterRollback, TxSent, SentMarked
<1>2. ASSUME NEW r \in Replicas, CatchUp(r) \/ Step(r) \/ FailStep(r) PROVE Sends'
  <2>1. StoredWasSent' /\ TxSent(r)' /\ SentMarked(r)'
    BY <1>2, SendsOwn
  <2>2. ASSUME NEW q \in Replicas, q # r PROVE TxSent(q)' /\ SentMarked(q)'
    BY <1>2, <2>2, OthersSame, SettledGrows DEF Same, Sends, TxSent, SentMarked
  <2>3. \A q \in Replicas : TxSent(q)' /\ SentMarked(q)'
    BY <2>1, <2>2
  <2>4. ASSUME NEW p \in Replicas, NEW q \in Replicas, NEW e \in Events,
               p # q, sentThisLife'[p][e] + sentThisLife'[q][e] > 1
        PROVE  RolledBack(p, q, e)'
    <3>1. sentThisLife'[p][e] = 1 /\ sentThisLife'[q][e] = 1
      BY <2>3, <2>4 DEF SentMarked
    <3>2. CASE p = r
      BY <1>2, <2>4, <3>1, <3>2, SecondSend DEF RolledBack
    <3>3. CASE q = r
      BY <1>2, <2>4, <3>1, <3>3, SecondSend DEF RolledBack
    <3>4. CASE p # r /\ q # r
      BY <1>2, <2>4, <3>1, <3>4, OthersSame, SettledGrows
      DEF Same, RolledBack, Sends, TwiceOnlyAfterRollback
    <3>. QED BY <3>2, <3>3, <3>4
  <2>. QED BY <2>1, <2>3, <2>4 DEF Sends, TwiceOnlyAfterRollback, RolledBack
<1>. QED BY <1>1, <1>2 DEF Next

-----------------------------------------------------------------------------
(* The theorems *)

\* The inductive invariant holds in every reachable state.
THEOREM Invariant == Spec => []IInv
<1>1. IInv /\ [Next]_vars => IInv'
  BY TypeStep, CoverageStep, SendsStep DEF IInv
<1>. QED BY InitIInv, <1>1, PTL DEF Spec

\* Every variable keeps its type (the retry count its bound).
THEOREM TypeCorrect == Spec => []TypeOK
<1>1. IInv => TypeOK
  BY DEF IInv
<1>. QED BY Invariant, <1>1, PTL

\* The checkpoint is past no wanted event whose absence is not explained by a
\* failed transaction, an oversized page or an unreadable state.
THEOREM LossSafe == Spec => []LossAccounted
<1>1. IInv => LossAccounted
  BY DEF IInv, Coverage
<1>. QED BY Invariant, <1>1, PTL

\* The out-of-order check of no replica skips an event that was not dealt with.
THEOREM BelowCurrentSafe == Spec => []BelowCurrentCovered
<1>1. IInv => BelowCurrentCovered
  BY DEF IInv, Coverage, Own, PastCovered, BelowCurrentCovered
<1>. QED BY Invariant, <1>1, PTL

\* A process that resumes from the persisted ledger misses nothing.
THEOREM ResumeSafe == Spec => []ResumeLedgerCovered
<1>1. IInv => ResumeLedgerCovered
  BY DEF IInv, Coverage
<1>. QED BY Invariant, <1>1, PTL

\* Replicas that index together, each writing its checkpoint and ledger over
\* those of the others, skip nothing that none has dealt with.
THEOREM TogetherSafe == Spec => []NeitherSkips
<1>1. IInv => NeitherSkips
  BY DEF IInv, Coverage, Own, PastCovered, BelowCurrentCovered, NeitherSkips
<1>. QED BY Invariant, <1>1, PTL

\* Subscribers were sent every row.
THEOREM SentSafe == Spec => []StoredWasSent
<1>1. IInv => StoredWasSent
  BY DEF IInv, Sends
<1>. QED BY Invariant, <1>1, PTL

\* A process sends no event twice.
THEOREM OnceSafe == Spec => []SentOncePerLife
<1>1. IInv => SentOncePerLife
  BY DEF IInv, Sends, SentMarked, SentOncePerLife
<1>. QED BY Invariant, <1>1, PTL

\* Two processes send one event only if a transaction that had its row was
\* rolled back.
THEOREM TwiceSafe == Spec => []TwiceOnlyAfterRollback
<1>1. IInv => TwiceOnlyAfterRollback
  BY DEF IInv, Sends
<1>. QED BY Invariant, <1>1, PTL

\* The indexers implement the abstract log.
THEOREM Implements == Spec => ImplementsLog
<1>1. Init => Log!Init
  BY DEF Init, Log!Init, Covered
<1>2. ASSUME IInv, [Next]_vars PROVE [Log!Begin \/ Log!Settle]_(Log!vars)
  <2>. USE <1>2 DEF IInv
  <2>1. TypeOK' /\ Covered' \subseteq Events /\ checkpoint' \in Events \cup {0} /\ LossAccounted'
    <3>1. TypeOK' /\ Coverage'
      BY TypeStep, CoverageStep
    <3>. QED BY <3>1 DEF TypeOK, Covered, Cursors, Coverage
  <2>2. CASE UNCHANGED vars \/ CloseLedger
    BY <2>2 DEF vars, CloseLedger, dbVars, historyVars, Log!vars, Covered
  <2>3. ASSUME NEW r \in Replicas, CatchUp(r) \/ Step(r) \/ FailStep(r)
        PROVE  Log!Begin \/ Log!Settle
    <3>1. CASE origin' = origin
      \* Every wanted event the new checkpoint is past is settled.
      <4>1. Log!SettledUpTo(Covered', checkpoint')
        BY <2>1, <3>1 DEF LossAccounted, Wanted, Log!SettledUpTo
      <4>. QED BY <2>1, <2>3, <3>1, <4>1, CoveredGrows DEF Log!Settle
    <3>2. CASE Boot(r) /\ dbCurrent = 0
      <4>1. checkpoint = 0
        BY <3>2 DEF Coverage, OriginKnown
      <4>2. UNCHANGED <<Covered, checkpoint>> /\ origin' \in Nat
        BY <2>1, <3>2 DEF Boot, Covered, dbVars, TypeOK
      <4>. QED BY <4>1, <4>2 DEF Log!Begin
    <3>. QED BY <2>3, <3>1, <3>2, OriginMoves
  <2>. QED BY <2>2, <2>3 DEF Next
<1>. QED BY Invariant, <1>1, <1>2, PTL DEF Spec, ImplementsLog, Log!Spec

=============================================================================
