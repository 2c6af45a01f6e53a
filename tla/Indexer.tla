------------------------------- MODULE Indexer -------------------------------
(***************************************************************************)
(* The indexer of src/indexer.rs: run_loop, fetch_and_store_events and     *)
(* store_event_in_tx, with what they keep in Postgres (events, checkpoint, *)
(* indexer state), in the process (ledger, cursor, the two bloom filters)  *)
(* and what they send to the live channel, against RPC endpoints that fail *)
(* and lag behind one another, and a database that fails.                  *)
(*                                                                         *)
(* One replica at a time should run it, but when the session that holds    *)
(* the lock lapses a standby is promoted beside a leader that goes on      *)
(* (IndexerLeader): Replicas are the processes that index into the one     *)
(* database.  A replica at "boot" is a standby, or is down.                *)
(*                                                                         *)
(* An event is its position in the chain; a cursor is the position of the  *)
(* last event it is past, 0 for none.  Events that store_event_in_tx       *)
(* refuses whatever their page (tenant, shape, size, timestamp) are those  *)
(* outside Valid.  The bloom filters are exact sets that never overflow:   *)
(* their false positives are documented losses, their rotation is left out.*)
(***************************************************************************)
EXTENDS Integers, FiniteSets

CONSTANTS Replicas,      \* the processes
          Events,        \* positions of the chain's events
          LedgerOf,      \* the ledger of each event
          Valid,         \* events that pass every check of store_event_in_tx
          StartLedger,   \* config.start_ledger, 0 for the latest ledger
          RpcLimit,      \* "limit" of get_events (100 in the code)
          MaxPerPage,    \* config.rpc_max_events_per_page
          ExpiryRetries, \* CursorExpiryBackoff::max_retries
          MaxLedger,     \* bound: ledgers the chain closes
          Faults,        \* the faults that can happen
          MaxFaults      \* bound: how many

FaultKinds == {"rpc", "failover", "expired", "begin", "load", "insert", "commit", "crash", "state"}

ASSUME IndexerAssumption ==
  /\ Events \subseteq Nat \ {0} /\ IsFiniteSet(Events)
  /\ LedgerOf \in [Events -> Nat \ {0}]
  /\ \A e, f \in Events : e < f => LedgerOf[e] <= LedgerOf[f]
  /\ Valid \subseteq Events
  /\ StartLedger \in Nat
  /\ RpcLimit \in Nat \ {0} /\ MaxPerPage \in Nat /\ ExpiryRetries \in Nat
  /\ MaxLedger \in Nat \ {0} /\ MaxFaults \in Nat
  /\ Faults \subseteq FaultKinds

VARIABLES
  tip,                                 \* the latest closed ledger
  stored, checkpoint, dbCurrent,       \* the committed database
  \* of each replica:
  height,                              \* the latest ledger of its active endpoint
  pc, current, cursor, latest,         \* run_loop and the cycle's locals
  page, nextCursor,                    \* the RPC answer being stored
  tx, aborted,                         \* the open transaction
  sessionLedger, session, bloom,       \* the bloom filters
  expiries,                            \* CursorExpiryBackoff::retry_count
  sentThisLife,                        \* how often its process sent each event to event_tx
  \* history:
  sent, origin, failed, truncated, forgotten, faults

chainVars   == <<tip, height>>
dbVars      == <<stored, checkpoint, dbCurrent>>
cycleVars   == <<pc, current, cursor, latest, page, nextCursor, expiries>>
txVars      == <<tx, aborted>>
bloomVars   == <<sessionLedger, session, bloom>>
sentVars    == <<sent, sentThisLife>>
historyVars == <<origin, failed, truncated, forgotten>>
vars == <<chainVars, dbVars, cycleVars, txVars, bloomVars, sentVars, historyVars, faults>>

Cursors == Events \cup {0}

TypeOK ==
  /\ tip \in 1..MaxLedger /\ height \in [Replicas -> 1..tip]
  /\ stored \subseteq Events /\ checkpoint \in Cursors /\ dbCurrent \in Nat
  /\ pc \in [Replicas -> {"boot", "poll", "fetch", "store", "done"}]
  /\ current \in [Replicas -> Nat] /\ cursor \in [Replicas -> Cursors]
  /\ latest \in [Replicas -> Nat] /\ page \in [Replicas -> SUBSET Events]
  /\ nextCursor \in [Replicas -> Cursors] /\ expiries \in [Replicas -> 0..ExpiryRetries]
  /\ tx \in [Replicas -> SUBSET Events] /\ aborted \in [Replicas -> BOOLEAN]
  /\ sessionLedger \in [Replicas -> Nat]
  /\ session \in [Replicas -> SUBSET Events] /\ bloom \in [Replicas -> SUBSET Events]
  /\ sent \subseteq Events /\ sentThisLife \in [Replicas -> [Events -> Nat]]
  /\ origin \in Nat /\ failed \subseteq Events /\ truncated \subseteq Events
  /\ forgotten \subseteq Events
  /\ faults \in 0..MaxFaults

Each(x) == [r \in Replicas |-> x]

Init ==
  /\ tip = 1 /\ height = Each(1)
  /\ stored = {} /\ checkpoint = 0 /\ dbCurrent = 0
  /\ pc = Each("boot") /\ current = Each(0) /\ cursor = Each(0) /\ latest = Each(0)
  /\ page = Each({}) /\ nextCursor = Each(0) /\ expiries = Each(0)
  /\ tx = Each({}) /\ aborted = Each(FALSE)
  /\ sessionLedger = Each(0) /\ session = Each({}) /\ bloom = Each({})
  /\ sent = {} /\ sentThisLife = Each([e \in Events |-> 0])
  /\ origin = 0 /\ failed = {} /\ truncated = {} /\ forgotten = {}
  /\ faults = 0

Fault(kind) == kind \in Faults /\ faults < MaxFaults /\ faults' = faults + 1

\* var[r] := x
Put(var, r, x) == var' = [var EXCEPT ![r] = x]

-----------------------------------------------------------------------------
(* The chain, as the active endpoint's getEvents shows it. *)

\* A ledger closes; every endpoint gets to it in its own time.
CloseLedger ==
  /\ tip < MaxLedger
  /\ tip' = tip + 1
  /\ UNCHANGED <<height, dbVars, cycleVars, txVars, bloomVars, sentVars, historyVars, faults>>

CatchUp(r) ==
  /\ height[r] < tip
  /\ Put(height, r, height[r] + 1)
  /\ UNCHANGED <<tip, dbVars, cycleVars, txVars, bloomVars, sentVars, historyVars, faults>>

\* select_url: an endpoint fails and the request goes to the next, which stays
\* the active one and may be behind what was already answered.
Failover(r) ==
  /\ pc[r] \in {"boot", "poll", "fetch"}
  /\ Fault("failover")
  /\ \E h \in 1..tip : Put(height, r, h)
  /\ UNCHANGED <<tip, dbVars, cycleVars, txVars, bloomVars, sentVars, historyVars>>

\* A cursor takes the place of startLedger in the request.
Matching(r) == {e \in Events : /\ LedgerOf[e] <= height[r]
                               /\ IF cursor[r] # 0 THEN e > cursor[r] ELSE LedgerOf[e] >= current[r]}

\* What the node may answer: the first of the matching events, at most
\* RpcLimit of them, and none only when none matches.
Answers(r) ==
  {P \in SUBSET Matching(r) :
     /\ \A e \in P, f \in Matching(r) : f <= e => f \in P
     /\ Cardinality(P) <= RpcLimit
     /\ P = {} => Matching(r) = {}}

\* The cursor of an answer: its last event, or none if nothing is left.
CursorsOf(r, P) ==
  {e \in P : \A f \in P : f <= e} \cup (IF P = Matching(r) THEN {0} ELSE {})

\* Vec::truncate
FirstOf(S, n) == {e \in S : Cardinality({f \in S : f < e}) < n}

-----------------------------------------------------------------------------
(* run_loop *)

\* Where indexing starts when the persisted state is `persisted`.
StartAt(r, persisted) ==
  IF StartLedger # 0 THEN StartLedger ELSE IF persisted # 0 THEN persisted ELSE height[r]

\* Where the log begins that a first start adds to: replicas that start at the
\* tip together have in common what comes after the later start.
BeginsAt(r) ==
  IF origin < StartAt(r, 0) \/ \A q \in Replicas \ {r} : pc[q] = "boot"
  THEN StartAt(r, 0) ELSE origin

\* A new process: restored state, a bloom filter seeded with recent rows.
Boot(r) ==
  /\ pc[r] = "boot"
  /\ \E seed \in SUBSET stored : Put(bloom, r, seed)
  /\ \/ /\ Put(current, r, StartAt(r, dbCurrent))
        /\ origin' = IF dbCurrent = 0 THEN BeginsAt(r) ELSE origin
        /\ UNCHANGED <<forgotten, faults>>
     \/ /\ dbCurrent # 0 /\ Fault("state")     \* load_indexer_state: .ok() hides the error
        /\ Put(current, r, StartAt(r, 0))
        /\ forgotten' = forgotten \cup {e \in Events : LedgerOf[e] < StartAt(r, 0)}
        /\ UNCHANGED origin
  /\ Put(pc, r, "poll")
  /\ UNCHANGED <<chainVars, dbVars, cursor, latest, page, nextCursor, expiries, txVars,
                 sessionLedger, session, sentVars, failed, truncated>>

\* The start of fetch_and_store_events: the persisted cursor, if it loads.
BeginCycle(r) ==
  /\ pc[r] = "poll"
  /\ \/ Put(cursor, r, checkpoint) /\ UNCHANGED faults
     \/ Put(cursor, r, 0) /\ Fault("load")
  /\ Put(latest, r, current[r])
  /\ Put(expiries, r, 0)
  /\ Put(pc, r, "fetch")
  /\ UNCHANGED <<chainVars, dbVars, current, page, nextCursor, txVars, bloomVars, sentVars, historyVars>>

\* Bug: the next cycle starts past the ledger the chain has reached by now.
BugFinishCycleAtTip(r) ==
  /\ pc[r] = "done"
  /\ Put(current, r, tip + 1)
  /\ Put(pc, r, "poll")
  /\ UNCHANGED <<chainVars, dbVars, cursor, latest, page, nextCursor, expiries, txVars,
                 bloomVars, sentVars, historyVars, faults>>

\* Bug: one ledger too far.
BugNextLedger(r) == IF latest[r] > current[r] THEN latest[r] + 2 ELSE current[r]

\* The end of a cycle, and run_loop's use of its result.
NextLedger(r) == IF latest[r] > current[r] THEN latest[r] + 1 ELSE current[r]

FinishCycle(r) ==
  /\ pc[r] = "done"
  /\ Put(current, r, NextLedger(r))
  /\ Put(pc, r, "poll")
  /\ UNCHANGED <<chainVars, dbVars, cursor, latest, page, nextCursor, expiries, txVars,
                 bloomVars, sentVars, historyVars, faults>>

-----------------------------------------------------------------------------
(* One page *)

\* Bug: the cursor is saved when the page arrives.
BugFetchSavesCursor(r) ==
  /\ pc[r] = "fetch"
  /\ \E answer \in Answers(r) : \E next \in CursorsOf(r, answer) :
       /\ Put(page, r, FirstOf(answer, MaxPerPage))
       /\ Put(nextCursor, r, next)
       /\ checkpoint' = IF next # 0 THEN next ELSE checkpoint
  /\ Put(latest, r, height[r]) /\ Put(expiries, r, 0)
  /\ Put(tx, r, {}) /\ Put(aborted, r, FALSE)
  /\ Put(pc, r, "store")
  /\ UNCHANGED <<chainVars, stored, dbCurrent, current, cursor, bloomVars, sentVars,
                 historyVars, faults>>

\* getEvents answers and the page's transaction begins.
Fetch(r) ==
  /\ pc[r] = "fetch"
  /\ \E answer \in Answers(r) :
       /\ Put(page, r, FirstOf(answer, MaxPerPage))
       /\ truncated' = truncated \cup (answer \ FirstOf(answer, MaxPerPage))
       /\ \E next \in CursorsOf(r, answer) : Put(nextCursor, r, next)
  /\ Put(latest, r, height[r])
  /\ Put(expiries, r, 0)
  /\ Put(tx, r, {}) /\ Put(aborted, r, FALSE)
  /\ Put(pc, r, "store")
  /\ UNCHANGED <<chainVars, dbVars, current, cursor, bloomVars, sentVars, origin, failed, forgotten, faults>>

\* Any other RPC error, or pool.begin failing, ends the cycle.
FetchFails(r) ==
  /\ pc[r] = "fetch"
  /\ Fault("rpc") \/ Fault("begin")
  /\ Put(pc, r, "poll")
  /\ UNCHANGED <<chainVars, dbVars, current, cursor, latest, page, nextCursor, expiries,
                 txVars, bloomVars, sentVars, historyVars>>

\* is_cursor_expiry_error: retries, then pagination by ledger.
CursorExpired(r) ==
  /\ pc[r] = "fetch"
  /\ Fault("expired")
  /\ IF expiries[r] >= ExpiryRetries
     THEN Put(cursor, r, 0) /\ Put(expiries, r, 0)
     ELSE Put(expiries, r, expiries[r] + 1) /\ UNCHANGED cursor
  /\ UNCHANGED <<chainVars, dbVars, pc, current, latest, page, nextCursor, txVars,
                 bloomVars, sentVars, historyVars>>

\* The session filter is reset by a ledger above its own, then marked.
SessionSees(r, e) == LedgerOf[e] <= sessionLedger[r] /\ e \in session[r]

MarkSession(r, e) ==
  /\ Put(sessionLedger, r, IF LedgerOf[e] > sessionLedger[r] THEN LedgerOf[e] ELSE sessionLedger[r])
  /\ Put(session, r, IF LedgerOf[e] > sessionLedger[r] THEN {e} ELSE session[r] \cup {e})

\* The loop's next event, taken off the page.
Take(r, e) ==
  /\ pc[r] = "store"
  /\ e \in page[r] /\ \A f \in page[r] : e <= f
  /\ Put(page, r, page[r] \ {e})

\* Bug: an event of the cycle's own first ledger is out of order too.
BugSkipFirstLedger(r, e) ==
  /\ Take(r, e)
  /\ LedgerOf[e] <= current[r]
  /\ UNCHANGED <<chainVars, dbVars, pc, current, cursor, latest, nextCursor, expiries,
                 txVars, bloomVars, sentVars, historyVars, faults>>

\* An event below the cycle's ledger: skipped before any filter sees it.
SkipOutOfOrder(r, e) ==
  /\ Take(r, e)
  /\ LedgerOf[e] < current[r]
  /\ UNCHANGED <<chainVars, dbVars, pc, current, cursor, latest, nextCursor, expiries,
                 txVars, bloomVars, sentVars, historyVars, faults>>

Filtered(r, e) == SessionSees(r, e) \/ e \in bloom[r] \/ e \notin Valid

\* store_event_in_tx returns Ok(0) or an error that is not the database's:
\* a filter has the event, or a check refuses it.
SkipEvent(r, e) ==
  /\ Take(r, e)
  /\ LedgerOf[e] >= current[r] /\ Filtered(r, e)
  /\ MarkSession(r, e)
  /\ UNCHANGED <<chainVars, dbVars, pc, current, cursor, latest, nextCursor, expiries,
                 txVars, bloom, sentVars, historyVars, faults>>

Storable(r, e) ==
  /\ Take(r, e)
  /\ LedgerOf[e] >= current[r] /\ ~Filtered(r, e)

\* The row is in the open transaction of another: the insert has to wait.
Blocked(r, e) == \E q \in Replicas \ {r} : ~aborted[q] /\ e \in tx[q]

Send(r, e) ==
  /\ sent' = sent \cup {e}
  /\ Put(sentThisLife, r, [sentThisLife[r] EXCEPT ![e] = @ + 1])

\* Bug: the row is not put into the bloom filter.
BugStoreUnmarked(r, e) ==
  /\ Storable(r, e) /\ ~aborted[r] /\ ~Blocked(r, e)
  /\ MarkSession(r, e)
  /\ IF e \in stored
     THEN UNCHANGED <<tx, sentVars>>
     ELSE Put(tx, r, tx[r] \cup {e}) /\ Send(r, e)
  /\ UNCHANGED <<chainVars, dbVars, pc, current, cursor, latest, nextCursor, expiries,
                 aborted, bloom, historyVars, faults>>

\* Bug: a row that exists already is sent again.
BugStoreSendsAgain(r, e) ==
  /\ Storable(r, e) /\ ~aborted[r] /\ ~Blocked(r, e)
  /\ MarkSession(r, e)
  /\ IF e \in stored
     THEN UNCHANGED <<tx, bloom>>
     ELSE Put(tx, r, tx[r] \cup {e}) /\ Put(bloom, r, bloom[r] \cup {e})
  /\ Send(r, e)
  /\ UNCHANGED <<chainVars, dbVars, pc, current, cursor, latest, nextCursor, expiries,
                 aborted, historyVars, faults>>

\* The insert: a new row is put into the bloom filter and sent at once, a
\* row that exists is neither.
StoreEvent(r, e) ==
  /\ Storable(r, e) /\ ~aborted[r] /\ ~Blocked(r, e)
  /\ MarkSession(r, e)
  /\ IF e \in stored
     THEN UNCHANGED <<tx, bloom, sentVars>>
     ELSE Put(tx, r, tx[r] \cup {e}) /\ Put(bloom, r, bloom[r] \cup {e}) /\ Send(r, e)
  /\ UNCHANGED <<chainVars, dbVars, pc, current, cursor, latest, nextCursor, expiries,
                 aborted, historyVars, faults>>

\* The insert fails: Postgres aborts the transaction, the loop goes on.
InsertFails(r, e) ==
  /\ Storable(r, e)
  /\ IF aborted[r] THEN UNCHANGED faults ELSE Fault("insert")
  /\ Put(aborted, r, TRUE)
  /\ Put(tx, r, tx[r] \cup {e})
  /\ MarkSession(r, e)
  /\ UNCHANGED <<chainVars, dbVars, pc, current, cursor, latest, nextCursor, expiries,
                 bloom, sentVars, historyVars>>

-----------------------------------------------------------------------------
(* The end of a page: checkpoint and state saved in the transaction, commit. *)

PageDone(r) == pc[r] = "store" /\ page[r] = {}

\* save_checkpoint or save_indexer_state fails: the error is dropped, the
\* transaction is aborted.
SaveFails(r) ==
  /\ PageDone(r) /\ ~aborted[r]
  /\ Fault("insert")
  /\ Put(aborted, r, TRUE)
  /\ UNCHANGED <<chainVars, dbVars, cycleVars, tx, bloomVars, sentVars, historyVars>>

SavedCursor(r) == IF nextCursor[r] # 0 THEN nextCursor[r]
                  ELSE IF cursor[r] # 0 THEN cursor[r] ELSE checkpoint

WriteDb(r) ==
  /\ stored' = stored \cup tx[r]
  /\ checkpoint' = SavedCursor(r)
  /\ dbCurrent' = current[r]

\* cursor = next_cursor; break if there is none.
NextPage(r) ==
  /\ Put(cursor, r, nextCursor[r])
  /\ Put(pc, r, IF nextCursor[r] = 0 THEN "done" ELSE "fetch")

Commit(r) ==
  /\ PageDone(r) /\ ~aborted[r]
  /\ WriteDb(r)
  /\ NextPage(r)
  /\ Put(tx, r, {})
  /\ UNCHANGED <<chainVars, current, latest, page, nextCursor, expiries, aborted,
                 bloomVars, sentVars, historyVars, faults>>

\* COMMIT of an aborted transaction rolls back and reports no error.
CommitAborted(r) ==
  /\ PageDone(r) /\ aborted[r]
  /\ NextPage(r)
  /\ failed' = failed \cup tx[r]
  /\ Put(tx, r, {}) /\ Put(aborted, r, FALSE)
  /\ UNCHANGED <<chainVars, dbVars, current, latest, page, nextCursor, expiries,
                 bloomVars, sentVars, origin, truncated, forgotten, faults>>

\* The connection fails in COMMIT, before or after the server executed it.
CommitFails(r) ==
  /\ PageDone(r)
  /\ Fault("commit")
  /\ \/ ~aborted[r] /\ WriteDb(r) /\ UNCHANGED failed
     \/ UNCHANGED dbVars /\ failed' = failed \cup tx[r]
  /\ Put(pc, r, "poll")
  /\ Put(tx, r, {}) /\ Put(aborted, r, FALSE)
  /\ UNCHANGED <<chainVars, current, cursor, latest, page, nextCursor, expiries,
                 bloomVars, sentVars, origin, truncated, forgotten>>

\* The process dies and is started again: all but the database is lost.
Crash(r) ==
  /\ pc[r] # "boot"
  /\ Fault("crash")
  /\ \/ UNCHANGED dbVars
     \/ PageDone(r) /\ ~aborted[r] /\ WriteDb(r)
  /\ Put(pc, r, "boot") /\ Put(current, r, 0) /\ Put(cursor, r, 0) /\ Put(latest, r, 0)
  /\ Put(page, r, {}) /\ Put(nextCursor, r, 0) /\ Put(expiries, r, 0)
  /\ Put(tx, r, {}) /\ Put(aborted, r, FALSE)
  /\ Put(sessionLedger, r, 0) /\ Put(session, r, {}) /\ Put(bloom, r, {})
  /\ Put(sentThisLife, r, [e \in Events |-> 0])
  /\ UNCHANGED <<chainVars, sent, historyVars>>

-----------------------------------------------------------------------------
StoreStep(r) == \E e \in Events : SkipOutOfOrder(r, e) \/ SkipEvent(r, e) \/ StoreEvent(r, e)

FailStep(r) ==
  \/ Failover(r) \/ FetchFails(r) \/ CursorExpired(r) \/ SaveFails(r) \/ CommitFails(r) \/ Crash(r)
  \/ \E e \in Events : InsertFails(r, e)

Step(r) ==
  \/ Boot(r) \/ BeginCycle(r) \/ Fetch(r) \/ StoreStep(r)
  \/ Commit(r) \/ CommitAborted(r) \/ FinishCycle(r)

Next == CloseLedger \/ \E r \in Replicas : CatchUp(r) \/ Step(r) \/ FailStep(r)

\* run_loop has no exit but shutdown; an endpoint that is behind catches up.
Fairness == \A r \in Replicas : WF_vars(Step(r) \/ FailStep(r)) /\ WF_vars(CatchUp(r))

Spec == Init /\ [][Next]_vars /\ Fairness

-----------------------------------------------------------------------------
(* Properties *)

\* The events the indexer is there to store, and those stored or explained:
\* in a transaction that failed, cut off an oversized page, or below the
\* ledger where a process that could not read indexer_state began.
Wanted == {e \in Valid : LedgerOf[e] >= origin}
Covered == stored \cup failed \cup truncated \cup forgotten

\* Whatever fails, a wanted event the checkpoint is past was stored, unless
\* it was in a transaction that failed under a process that went on, was cut
\* off an oversized page, or lay below a start at the tip with an unreadable
\* state: no other path drops events.
LossAccounted == \A e \in Wanted : e <= checkpoint => e \in Covered

\* An event below the ledger of a running cycle has been dealt with: the
\* out-of-order check and the start from a ledger skip nothing new.
BelowCurrentCovered ==
  \A r \in Replicas : \A e \in Wanted : LedgerOf[e] < current[r] => e \in Covered

\* The same of the ledger in indexer_state, from which a process that finds
\* no cursor resumes.
ResumeLedgerCovered == \A e \in Wanted : LedgerOf[e] < dbCurrent => e \in Covered

\* Checkpoint, persisted ledger and the ledgers of all replicas are past
\* nothing that none has dealt with, although each writes its own, older or
\* newer, checkpoint and ledger over the others'.
NeitherSkips == LossAccounted /\ ResumeLedgerCovered /\ BelowCurrentCovered

\* docs/disaster-recovery.md: nothing is lost, the indexer resumes from the
\* checkpoint: it is past no wanted event that is not stored.
CheckpointCovers == \A e \in Wanted : e <= checkpoint => e \in stored

\* Every row was sent to the live channel: subscribers may see an event
\* that was not stored, never miss one that was.
StoredWasSent == stored \subseteq sent

\* One process sends no event twice, however often pages are fetched again.
SentOncePerLife == \A r \in Replicas : \A e \in Events : sentThisLife[r][e] <= 1

\* Subscribers are sent an event once by each process, and by two only if a
\* transaction that had its row was rolled back: who comes second otherwise
\* waits for the row, and finds it.
TwiceOnlyAfterRollback ==
  \A q, r \in Replicas : \A e \in Events :
    q # r /\ sentThisLife[q][e] + sentThisLife[r][e] > 1
      => e \in failed \/ \E p \in {q, r} : aborted[p] /\ e \in tx[p]

\* Whatever fails finitely often, every wanted event on the chain is stored in
\* the end, or its absence is explained, and stays so.
EventuallySettled == <>[](\A e \in Wanted : LedgerOf[e] <= tip => e \in Covered)

\* The indexers implement the abstract log: their checkpoint moves only to
\* places below which everything wanted is settled, and nothing settled is
\* ever taken back, through every page, fallback, failure and restart.
Log == INSTANCE IngestLog WITH settled <- Covered, mark <- checkpoint, base <- origin

ImplementsLog == Log!Spec
=============================================================================
