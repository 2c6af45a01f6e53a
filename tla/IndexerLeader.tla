---------------------------- MODULE IndexerLeader ----------------------------
(***************************************************************************)
(* Which replica indexes: Indexer::run of src/indexer.rs. Every replica    *)
(* polls pg_try_advisory_lock on whatever connection its pool hands out,   *)
(* the first to be granted runs run_loop until it is told to shut down,    *)
(* and the unlock goes to whatever connection the pool hands out then.     *)
(* lock_conn, acquired first and dropped last, is never used for the lock. *)
(* The pool (src/db.rs, create_pool) replaces a connection that is idle    *)
(* for too long, too old or broken.                                        *)
(*                                                                         *)
(* A session asks for the lock again only if it does not have it (see      *)
(* PollingOwnsNothing), so the levels of re-entrancy are left out.         *)
(***************************************************************************)
EXTENDS Integers, FiniteSets

CONSTANTS Replicas,
          None,
          PoolSize,    \* db_max_connections, without lock_conn's
          MaxOpened,   \* bound: sessions one replica opens
          MaxStarts    \* bound: processes one replica starts

ASSUME LeaderAssumption ==
  /\ IsFiniteSet(Replicas) /\ None \notin Replicas \X Nat
  /\ PoolSize \in Nat \ {0} /\ MaxOpened \in Nat /\ MaxStarts \in Nat

Sessions == Replicas \X Nat

VARIABLES
  owner,      \* the session that holds INDEXER_LOCK_KEY on the server
  opened,     \* [Replicas -> Nat] sessions opened so far
  pool,       \* the sessions each replica's pool has
  ghosts,     \* sessions the server has and no pool has any more
  pc,         \* where Indexer::run is
  stopping,   \* the value of the shutdown watch
  starts,     \* history: processes started
  lapsed      \* history: leaders whose session lost the lock

vars == <<owner, opened, pool, ghosts, pc, stopping, starts, lapsed>>

TypeOK ==
  /\ owner \in Sessions \cup {None}
  /\ opened \in [Replicas -> Nat]
  /\ pool \in [Replicas -> SUBSET Sessions] /\ ghosts \subseteq Sessions
  /\ \A r \in Replicas : \A s \in pool[r] : s[1] = r /\ s[2] <= opened[r]
  /\ pc \in [Replicas -> {"starting", "polling", "leading", "unlocking", "ended", "down"}]
  /\ stopping \in [Replicas -> BOOLEAN]
  /\ starts \in [Replicas -> Nat]
  /\ lapsed \subseteq Replicas

Opened(r, n) == {<<r, k>> : k \in (n + 1)..(n + PoolSize)}

Init ==
  /\ owner = None /\ ghosts = {} /\ lapsed = {}
  /\ opened = [r \in Replicas |-> PoolSize]
  /\ pool = [r \in Replicas |-> Opened(r, 0)]
  /\ pc = [r \in Replicas |-> "starting"]
  /\ stopping = [r \in Replicas |-> FALSE]
  /\ starts = [r \in Replicas |-> 1]

Goto(r, where) == pc' = [pc EXCEPT ![r] = where]

-----------------------------------------------------------------------------
(* Indexer::run *)

\* lock_conn is acquired.
Begin(r) ==
  /\ pc[r] = "starting"
  /\ Goto(r, "polling")
  /\ UNCHANGED <<owner, opened, pool, ghosts, stopping, starts, lapsed>>

\* pool.acquire() fails: the indexer task is over, the process serves on.
NoConnection(r) ==
  /\ pc[r] = "starting"
  /\ Goto(r, "ended")
  /\ UNCHANGED <<owner, opened, pool, ghosts, stopping, starts, lapsed>>

\* Bug: any answer of pg_try_advisory_lock counts as a grant.
BugTryGranted(r) ==
  /\ pc[r] = "polling"
  /\ owner' = IF owner = None THEN CHOOSE s \in pool[r] : TRUE ELSE owner
  /\ Goto(r, "leading")
  /\ UNCHANGED <<opened, pool, ghosts, stopping, starts, lapsed>>

TryGranted(r) ==
  /\ pc[r] = "polling"
  /\ \E s \in pool[r] : owner \in {None, s} /\ owner' = s
  /\ Goto(r, "leading")
  /\ UNCHANGED <<opened, pool, ghosts, stopping, starts, lapsed>>

\* Bug: a standby does not retry.
BugTryRefused(r) ==
  /\ pc[r] = "polling"
  /\ Goto(r, "ended")
  /\ UNCHANGED <<owner, opened, pool, ghosts, stopping, starts, lapsed>>

\* false, or an error taken for false, and then the query for the holder's
\* pid: standby until the next tick.
TryRefused(r) ==
  /\ pc[r] = "polling"
  /\ UNCHANGED vars

\* A connection leaves the pool; another takes its place.
Replace(r, s) ==
  /\ s \in pool[r] /\ opened[r] < MaxOpened
  /\ opened' = [opened EXCEPT ![r] = @ + 1]
  /\ pool' = [pool EXCEPT ![r] = (@ \ {s}) \cup {<<r, opened[r] + 1>>}]

\* The server grants the lock and the connection breaks before the answer
\* arrives: unwrap_or(false). The session is there until the server notices.
TryLost(r) ==
  /\ pc[r] = "polling"
  /\ \E s \in pool[r] :
       /\ owner \in {None, s} /\ owner' = s /\ Replace(r, s)
       /\ ghosts' = ghosts \cup {s}
  /\ UNCHANGED <<pc, stopping, starts, lapsed>>

\* The shutdown watch wakes a standby, and run_loop at its next look.
Stop(r) ==
  /\ stopping[r]
  /\ \/ pc[r] = "polling" /\ Goto(r, "ended")
     \/ pc[r] = "leading" /\ Goto(r, "unlocking")
  /\ UNCHANGED <<owner, opened, pool, ghosts, stopping, starts, lapsed>>

\* pg_advisory_unlock frees the lock only on the session that has it; its
\* answer and its error are dropped.
Unlock(r) ==
  /\ pc[r] = "unlocking"
  /\ \E s \in pool[r] : owner' = IF owner = s THEN None ELSE owner
  /\ Goto(r, "ended")
  /\ UNCHANGED <<opened, pool, ghosts, stopping, starts, lapsed>>

UnlockFails(r) ==
  /\ pc[r] = "unlocking"
  /\ Goto(r, "ended")
  /\ UNCHANGED <<owner, opened, pool, ghosts, stopping, starts, lapsed>>

Leads(r) == pc[r] \in {"leading", "unlocking"}

-----------------------------------------------------------------------------
(* Processes and sessions *)

Sigterm(r) ==
  /\ pc[r] # "down" /\ ~stopping[r]
  /\ stopping' = [stopping EXCEPT ![r] = TRUE]
  /\ UNCHANGED <<owner, opened, pool, ghosts, pc, starts, lapsed>>

\* main returns once the indexer's task has: the pool closes its sessions.
Exit(r) ==
  /\ pc[r] = "ended" /\ stopping[r]
  /\ Goto(r, "down")
  /\ owner' = IF owner \in pool[r] THEN None ELSE owner
  /\ pool' = [pool EXCEPT ![r] = {}]
  /\ lapsed' = lapsed \ {r}
  /\ UNCHANGED <<opened, ghosts, stopping, starts>>

\* The server learns of it later.
Crash(r) ==
  /\ pc[r] # "down"
  /\ Goto(r, "down")
  /\ ghosts' = ghosts \cup pool[r]
  /\ pool' = [pool EXCEPT ![r] = {}]
  /\ lapsed' = lapsed \ {r}
  /\ UNCHANGED <<owner, opened, stopping, starts>>

Restart(r) ==
  /\ pc[r] = "down" /\ starts[r] < MaxStarts /\ opened[r] + PoolSize <= MaxOpened
  /\ Goto(r, "starting")
  /\ starts' = [starts EXCEPT ![r] = @ + 1]
  /\ stopping' = [stopping EXCEPT ![r] = FALSE]
  /\ opened' = [opened EXCEPT ![r] = @ + PoolSize]
  /\ pool' = [pool EXCEPT ![r] = Opened(r, opened[r])]
  /\ UNCHANGED <<owner, ghosts, lapsed>>

Free(s) == owner' = IF owner = s THEN None ELSE owner

\* max_lifetime, idle_timeout or a broken connection: the session ends, and
\* with it its locks. Nobody tells Indexer::run.
Recycle(r) ==
  /\ \E s \in pool[r] :
       /\ Replace(r, s) /\ Free(s)
       /\ lapsed' = IF owner = s /\ Leads(r) THEN lapsed \cup {r} ELSE lapsed
  /\ UNCHANGED <<ghosts, pc, stopping, starts>>

ServerNotices ==
  /\ \E s \in ghosts : Free(s) /\ ghosts' = ghosts \ {s}
  /\ UNCHANGED <<opened, pool, pc, stopping, starts, lapsed>>

-----------------------------------------------------------------------------
Run(r) == \/ Begin(r) \/ NoConnection(r) \/ TryGranted(r) \/ TryRefused(r) \/ TryLost(r)
          \/ Stop(r) \/ Unlock(r) \/ UnlockFails(r)

Process(r) == Sigterm(r) \/ Exit(r) \/ Crash(r) \/ Restart(r) \/ Recycle(r)

Next == ServerNotices \/ \E r \in Replicas : Run(r) \/ Process(r)

\* The interval ticks and the database answers in the end; a process that is
\* told to stop does; the server notices closed connections.
Fairness ==
  /\ WF_vars(ServerNotices)
  /\ \A r \in Replicas :
       /\ WF_vars(Begin(r) \/ NoConnection(r)) /\ WF_vars(Stop(r))
       /\ WF_vars(Unlock(r) \/ UnlockFails(r)) /\ WF_vars(Exit(r))
       /\ WF_vars(TryGranted(r))

Spec == Init /\ [][Next]_vars /\ Fairness

-----------------------------------------------------------------------------
(* Properties *)

\* A replica that has not been granted the lock has none of it: no connection
\* that may hold the lock is used to ask for it again, so that one session
\* never counts two levels that one unlock would not undo (indexer.rs 445).
PollingOwnsNothing ==
  \A r \in Replicas : pc[r] \in {"starting", "polling"} => owner \notin pool[r]

\* Two replicas index at once only if the session that had the lock for one of
\* them has ended: an answer that is late, lost or false promotes nobody.
OneIndexerUnlessLapsed ==
  \A q, r \in Replicas \ lapsed : Leads(q) /\ Leads(r) => q = r

\* A standby does not wait for ever: it or another replica indexes, or it is
\* told to stop, whatever became of earlier leaders and of their sessions.
EventuallyLed ==
  \A r \in Replicas :
    (pc[r] = "polling") ~> (stopping[r] \/ pc[r] = "down" \/ \E q \in Replicas : Leads(q))
=============================================================================
