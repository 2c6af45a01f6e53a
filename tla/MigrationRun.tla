----------------------------- MODULE MigrationRun ----------------------------
(***************************************************************************)
(* Replicas that start together: db::run_migrations takes the migration    *)
(* lock, applies what is pending on the connection that holds it, releases *)
(* it; main then goes on to serve whatever run_migrations returned.        *)
(*                                                                         *)
(* Composed with AdvisoryLock: a replica is a caller with an instance of   *)
(* its own, created by run_migrations.                                     *)
(***************************************************************************)
EXTENDS AdvisoryLock, Sequences

CONSTANTS Migrations,   \* number of files under migrations/
          MaxCrashes    \* bound: process restarts

\* run_migrations makes the AdvisoryLock it uses: no two replicas share one.
ASSUME MigrationsAssumption ==
  /\ Migrations \in Nat /\ MaxCrashes \in Nat
  /\ \A r, s \in Callers : InstanceOf[r] = InstanceOf[s] => r = s

VARIABLES phase,     \* [Callers -> Phases] between start and serving
          next,      \* [Callers -> Nat] the migration a Migrator applies next
          applied,   \* _sqlx_migrations: versions in the order applied
          result,    \* [Callers -> {"none", "ok", "err"}] of run_migrations
          crashes    \* restarts so far

migrationVars == <<phase, next, applied, result, crashes>>
allVars == <<vars, migrationVars>>

Phases == {"boot", "locking", "migrating", "releasing", "serving"}

MInit ==
  /\ Init
  /\ phase = [r \in Callers |-> "boot"]
  /\ next = [r \in Callers |-> 1]
  /\ applied = <<>>
  /\ result = [r \in Callers |-> "none"]
  /\ crashes = 0

Enter(r, p) == phase' = [phase EXCEPT ![r] = p]
Return(r, res) == result' = [result EXCEPT ![r] = res]

\* run_migrations up to the claim inside lock.acquire.
StartLocking(r) ==
  /\ phase[r] = "boot" /\ Acquire(r) /\ Enter(r, "locking")
  /\ UNCHANGED <<next, applied, result, crashes>>

\* Bug: the error of lock.acquire is ignored.
BugLockIgnored(r) ==
  /\ phase[r] = "locking" /\ pc[r] = "idle" /\ outcome[r] = "failed"
  /\ Enter(r, "migrating") /\ next' = [next EXCEPT ![r] = Len(applied) + 1]
  /\ UNCHANGED <<vars, applied, result, crashes>>

\* Bug: run_migrations starts over until it gets the lock.
BugLockRetried(r) ==
  /\ phase[r] = "locking" /\ pc[r] = "idle" /\ outcome[r] = "failed"
  /\ Enter(r, "boot")
  /\ UNCHANGED <<vars, next, applied, result, crashes>>

\* lock.acquire(..)? : without the lock run_migrations returns the error.
LockRefused(r) ==
  /\ phase[r] = "locking" /\ pc[r] = "idle" /\ outcome[r] = "failed"
  /\ Enter(r, "serving") /\ Return(r, "err")
  /\ UNCHANGED <<vars, next, applied, crashes>>

\* Migrator::run lists what is applied, once, then applies the rest.
ListApplied(r) ==
  /\ phase[r] = "locking" /\ pc[r] = "holding"
  /\ \/ alive[r] /\ Enter(r, "migrating")
        /\ next' = [next EXCEPT ![r] = Len(applied) + 1] /\ UNCHANGED result
     \/ ~alive[r] /\ Enter(r, "releasing") /\ Return(r, "err") /\ UNCHANGED next
  /\ UNCHANGED <<vars, applied, crashes>>

\* One migration and its row, in a transaction on the lock's connection.
Apply(r) ==
  /\ phase[r] = "migrating" /\ next[r] <= Migrations /\ alive[r]
  /\ applied' = Append(applied, next[r])
  /\ next' = [next EXCEPT ![r] = @ + 1]
  /\ UNCHANGED <<vars, phase, result, crashes>>

\* Bug: the migrator's error is dropped.
BugApplyErrorDropped(r) ==
  /\ phase[r] = "migrating" /\ next[r] <= Migrations
  /\ Enter(r, "releasing") /\ Return(r, "ok")
  /\ UNCHANGED <<vars, next, applied, crashes>>

\* The statement or its connection fails: its transaction is undone.
ApplyFails(r) ==
  /\ phase[r] = "migrating" /\ next[r] <= Migrations
  /\ Enter(r, "releasing") /\ Return(r, "err")
  /\ UNCHANGED <<vars, next, applied, crashes>>

AllApplied(r) ==
  /\ phase[r] = "migrating" /\ next[r] > Migrations
  /\ Enter(r, "releasing") /\ Return(r, "ok")
  /\ UNCHANGED <<vars, next, applied, crashes>>

\* let _ = lock.release(..); result?
StartRelease(r) ==
  /\ phase[r] = "releasing" /\ Release(r)
  /\ UNCHANGED migrationVars

\* main.rs: let _ = db::run_migrations(&pool).await;
Serve(r) ==
  /\ phase[r] = "releasing" /\ pc[r] = "idle"
  /\ Enter(r, "serving")
  /\ UNCHANGED <<vars, next, applied, result, crashes>>

\* The lock's own steps, while run_migrations is inside acquire or release.
LockStep(r) ==
  /\ \/ Validate(r) \/ SendTry(r) \/ TryRefused(r) \/ TryFails(r) \/ TrySucceeds(r)
     \/ Grant(r) \/ ReleaseFails(r) \/ ReleaseDone(r)
  /\ UNCHANGED migrationVars

\* A restart: a new process, a new instance, the old session is gone.
Crash(r) ==
  /\ crashes < MaxCrashes
  /\ crashes' = crashes + 1
  /\ Enter(r, "boot") /\ Return(r, "none")
  /\ Goto(r, "idle")
  /\ reply' = [reply EXCEPT ![r] = "none"]
  /\ outcome' = [outcome EXCEPT ![r] = "none"]
  /\ token' = [token EXCEPT ![r] = 0]
  /\ acquiring' = [acquiring EXCEPT ![InstanceOf[r]] = FALSE]
  /\ held' = [held EXCEPT ![InstanceOf[r]] = FALSE]
  /\ epoch' = [epoch EXCEPT ![InstanceOf[r]] = 0]
  /\ alive' = [alive EXCEPT ![r] = TRUE]
  /\ unread' = [unread EXCEPT ![r] = 0]
  /\ lockCount' = [lockCount EXCEPT ![r] = 0]
  /\ abandoned' = [abandoned EXCEPT ![r] = 0]
  /\ UNCHANGED <<attempt, next, applied>>

ReplicaStep(r) ==
  \/ StartLocking(r) \/ LockRefused(r) \/ ListApplied(r) \/ Apply(r) \/ AllApplied(r)
  \/ StartRelease(r) \/ Serve(r) \/ LockStep(r)

Environment(r) ==
  \/ ServerStep(r) /\ UNCHANGED migrationVars
  \/ TryTimesOut(r) /\ UNCHANGED migrationVars
  \/ SessionDies(r) /\ UNCHANGED migrationVars
  \/ ApplyFails(r)
  \/ Crash(r)

MNext == \E r \in Callers : ReplicaStep(r) \/ Environment(r)

MFairness == \A r \in Callers :
  /\ WF_allVars(ReplicaStep(r) \/ ApplyFails(r))
  /\ WF_allVars(ServerStep(r) /\ UNCHANGED migrationVars)

MSpec == MInit /\ [][MNext]_allVars /\ MFairness

-----------------------------------------------------------------------------
(* Properties *)

\* However replicas start, lose sessions and restart, no migration is applied
\* twice and none before the one it builds on; and the list a migrator read
\* stays true while it works through it, for nobody else migrates (db.rs:115).
AppliedOnceInOrder ==
  /\ \A i \in 1..Len(applied) : applied[i] = i
  /\ \A r \in Callers : phase[r] = "migrating" /\ alive[r] => next[r] = Len(applied) + 1

\* Ok from run_migrations means the schema is complete, by whichever replica
\* (db.rs:115-131).
OkMeansMigrated ==
  \A r \in Callers : result[r] = "ok" => Len(applied) = Migrations

\* run_migrations answers, Ok or Err, in every process that is not restarted for
\* ever: neither the lock nor a dead session nor a leaked level keeps it waiting
\* (db.rs:92-131). Nothing is said of what follows: main drops the answer and
\* serves (main.rs:249), where docs/deployment.md:146 says it does not.
RunReturns ==
  <>[](\A r \in Callers : result[r] # "none" /\ phase[r] # "releasing")
=============================================================================
