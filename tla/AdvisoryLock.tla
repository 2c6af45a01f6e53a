---------------------------- MODULE AdvisoryLock ----------------------------
(***************************************************************************)
(* The advisory lock of src/advisory_lock.rs: callers of a shared          *)
(* AdvisoryLock instance, each on a Postgres session of its own, against   *)
(* the server that keeps the (re-entrant, session-level) lock.             *)
(*                                                                         *)
(* A query is two steps, the server's execution and the client's reading   *)
(* of the reply, so that a client-side timeout can fall between them or    *)
(* before both.  A query whose client stopped waiting is still executed:   *)
(* sqlx drains it before the next query of the session.                    *)
(***************************************************************************)
EXTENDS Naturals, FiniteSets

CONSTANTS Callers,       \* tasks that call acquire / release
          Instances,     \* AdvisoryLock values (one per process that has one)
          InstanceOf,    \* the instance each caller uses
          MaxRetries,    \* AdvisoryLockConfig::max_retries
          MaxEpoch,      \* bound: acquisitions per instance
          MaxAbandoned   \* bound: timed-out attempts per session

ASSUME CallersAssumption ==
  /\ IsFiniteSet(Callers)
  /\ InstanceOf \in [Callers -> Instances]
  /\ MaxRetries \in Nat \ {0}
  /\ MaxEpoch \in Nat
  /\ MaxAbandoned \in Nat

VARIABLES pc,         \* where the caller is in acquire / release
          attempt,    \* the loop variable of acquire_inner
          token,      \* fencing_token of the caller's guard
          reply,      \* what the server answered to the query waited for
          outcome,    \* how the caller's last acquire or release ended
          acquiring, held, epoch,  \* the three atomics of an instance
          alive,      \* the caller's session is connected
          unread,     \* attempts given up by the client, not yet executed
          lockCount,  \* how many times the server has the lock for a session
          abandoned   \* history: attempts given up on this session

clientVars   == <<pc, attempt, token, reply, outcome>>
instanceVars == <<acquiring, held, epoch>>
serverVars   == <<alive, unread, lockCount, abandoned>>
vars == <<clientVars, instanceVars, serverVars>>

PC == {"idle", "validate", "try", "wait", "granted", "holding", "unlock"}
Outcomes == {"none", "acquired", "failed", "stale", "released"}

TypeOK ==
  /\ pc \in [Callers -> PC]
  /\ attempt \in [Callers -> 1..MaxRetries]
  /\ token \in [Callers -> Nat]
  /\ reply \in [Callers -> {"none", "true", "false", "done"}]
  /\ outcome \in [Callers -> Outcomes]
  /\ acquiring \in [Instances -> BOOLEAN]
  /\ held \in [Instances -> BOOLEAN]
  /\ epoch \in [Instances -> Nat]
  /\ alive \in [Callers -> BOOLEAN]
  /\ unread \in [Callers -> Nat]
  /\ lockCount \in [Callers -> Nat]
  /\ abandoned \in [Callers -> Nat]

Init ==
  /\ pc = [c \in Callers |-> "idle"]
  /\ attempt = [c \in Callers |-> 1]
  /\ token = [c \in Callers |-> 0]
  /\ reply = [c \in Callers |-> "none"]
  /\ outcome = [c \in Callers |-> "none"]
  /\ acquiring = [i \in Instances |-> FALSE]
  /\ held = [i \in Instances |-> FALSE]
  /\ epoch = [i \in Instances |-> 0]
  /\ alive = [c \in Callers |-> TRUE]
  /\ unread = [c \in Callers |-> 0]
  /\ lockCount = [c \in Callers |-> 0]
  /\ abandoned = [c \in Callers |-> 0]

Goto(c, l) == pc' = [pc EXCEPT ![c] = l]

-----------------------------------------------------------------------------
(* acquire *)

\* The claim: compare_exchange on `acquiring`.
Acquire(c) ==
  /\ pc[c] = "idle"
  /\ ~acquiring[InstanceOf[c]]
  /\ epoch[InstanceOf[c]] < MaxEpoch
  /\ acquiring' = [acquiring EXCEPT ![InstanceOf[c]] = TRUE]
  /\ attempt' = [attempt EXCEPT ![c] = 1]
  /\ outcome' = [outcome EXCEPT ![c] = "none"]
  /\ Goto(c, "validate")
  /\ UNCHANGED <<token, reply, held, epoch, serverVars>>

\* ConcurrentAcquisitionInProgress: the claim is taken, nothing is waited for.
AcquireBusy(c) ==
  /\ pc[c] = "idle"
  /\ acquiring[InstanceOf[c]]
  /\ outcome' = [outcome EXCEPT ![c] = "failed"]
  /\ UNCHANGED <<pc, attempt, token, reply, instanceVars, serverVars>>

\* Bug: the error is returned at once, with the claim.
BugGiveUpKeepsClaim(c) ==
  /\ outcome' = [outcome EXCEPT ![c] = "failed"]
  /\ reply' = [reply EXCEPT ![c] = "none"]
  /\ Goto(c, "idle")
  /\ UNCHANGED <<attempt, token, instanceVars>>

\* Every Err of acquire_inner; acquire then drops the claim.
GiveUp(c) ==
  /\ acquiring' = [acquiring EXCEPT ![InstanceOf[c]] = FALSE]
  /\ outcome' = [outcome EXCEPT ![c] = "failed"]
  /\ reply' = [reply EXCEPT ![c] = "none"]
  /\ Goto(c, "idle")
  /\ UNCHANGED <<attempt, token, held, epoch>>

\* validate_connection: SELECT 1, after the session's given-up queries.
Validate(c) ==
  /\ pc[c] = "validate"
  /\ \/ /\ alive[c] /\ unread[c] = 0
        /\ Goto(c, "try")
        /\ UNCHANGED <<attempt, token, reply, outcome, instanceVars>>
     \/ ~alive[c] /\ GiveUp(c)
  /\ UNCHANGED serverVars

SendTry(c) ==
  /\ pc[c] = "try"
  /\ Goto(c, "wait")
  /\ reply' = [reply EXCEPT ![c] = "none"]
  /\ UNCHANGED <<attempt, token, outcome, instanceVars, serverVars>>

\* The end of one turn of the retry loop.
Retry(c) ==
  IF attempt[c] < MaxRetries
  THEN /\ attempt' = [attempt EXCEPT ![c] = @ + 1]
       /\ Goto(c, "try")
       /\ reply' = [reply EXCEPT ![c] = "none"]
       /\ UNCHANGED <<token, outcome, instanceVars>>
  ELSE GiveUp(c)

TryRefused(c) ==
  /\ pc[c] = "wait" /\ reply[c] = "false"
  /\ Retry(c)
  /\ UNCHANGED serverVars

TryFails(c) ==
  /\ pc[c] = "wait" /\ reply[c] = "none" /\ ~alive[c]
  /\ Retry(c)
  /\ UNCHANGED serverVars

\* Bug: a timed-out attempt is trusted to have taken the lock.
BugTimeoutTrusted(c) ==
  /\ pc[c] = "wait" /\ alive[c]
  /\ abandoned[c] < MaxAbandoned
  /\ abandoned' = [abandoned EXCEPT ![c] = @ + 1]
  /\ unread' = IF reply[c] = "none" THEN [unread EXCEPT ![c] = @ + 1] ELSE unread
  /\ held' = [held EXCEPT ![InstanceOf[c]] = TRUE]
  /\ Goto(c, "granted")
  /\ reply' = [reply EXCEPT ![c] = "none"]
  /\ UNCHANGED <<attempt, token, outcome, acquiring, epoch, alive, lockCount>>

\* tokio::time::timeout fires: the query may or may not have been executed.
TryTimesOut(c) ==
  /\ pc[c] = "wait" /\ alive[c]
  /\ abandoned[c] < MaxAbandoned
  /\ abandoned' = [abandoned EXCEPT ![c] = @ + 1]
  /\ unread' = IF reply[c] = "none" THEN [unread EXCEPT ![c] = @ + 1] ELSE unread
  /\ Retry(c)
  /\ UNCHANGED <<alive, lockCount>>

\* Bug: any answer counts as `acquired`.
BugAnyAnswerSucceeds(c) ==
  /\ pc[c] = "wait" /\ reply[c] # "none"
  /\ held' = [held EXCEPT ![InstanceOf[c]] = TRUE]
  /\ Goto(c, "granted")
  /\ reply' = [reply EXCEPT ![c] = "none"]
  /\ UNCHANGED <<attempt, token, outcome, acquiring, epoch, serverVars>>

\* held.store(true) and epoch.fetch_add are two steps other tasks see.
TrySucceeds(c) ==
  /\ pc[c] = "wait" /\ reply[c] = "true"
  /\ held' = [held EXCEPT ![InstanceOf[c]] = TRUE]
  /\ Goto(c, "granted")
  /\ reply' = [reply EXCEPT ![c] = "none"]
  /\ UNCHANGED <<attempt, token, outcome, acquiring, epoch, serverVars>>

\* Bug: the token is what fetch_add returns, the epoch before.
BugGrantOldEpoch(c) ==
  /\ pc[c] = "granted"
  /\ epoch' = [epoch EXCEPT ![InstanceOf[c]] = @ + 1]
  /\ token' = [token EXCEPT ![c] = epoch[InstanceOf[c]]]
  /\ acquiring' = [acquiring EXCEPT ![InstanceOf[c]] = FALSE]
  /\ outcome' = [outcome EXCEPT ![c] = "acquired"]
  /\ Goto(c, "holding")
  /\ UNCHANGED <<attempt, reply, held, serverVars>>

Grant(c) ==
  /\ pc[c] = "granted"
  /\ epoch' = [epoch EXCEPT ![InstanceOf[c]] = @ + 1]
  /\ token' = [token EXCEPT ![c] = epoch[InstanceOf[c]] + 1]
  /\ acquiring' = [acquiring EXCEPT ![InstanceOf[c]] = FALSE]
  /\ outcome' = [outcome EXCEPT ![c] = "acquired"]
  /\ Goto(c, "holding")
  /\ UNCHANGED <<attempt, reply, held, serverVars>>

-----------------------------------------------------------------------------
(* release *)

\* Bug: the comparison is inverted, a current token is refused.
BugReleaseInverted(c) ==
  /\ pc[c] = "holding"
  /\ IF epoch[InstanceOf[c]] # token[c]
     THEN Goto(c, "unlock") /\ UNCHANGED outcome
     ELSE Goto(c, "idle") /\ outcome' = [outcome EXCEPT ![c] = "stale"]
  /\ UNCHANGED <<attempt, token, reply, instanceVars, serverVars>>

\* The epoch check; only a current token sends pg_advisory_unlock.
Release(c) ==
  /\ pc[c] = "holding"
  /\ IF epoch[InstanceOf[c]] = token[c]
     THEN Goto(c, "unlock") /\ UNCHANGED outcome
     ELSE Goto(c, "idle") /\ outcome' = [outcome EXCEPT ![c] = "stale"]
  /\ UNCHANGED <<attempt, token, reply, instanceVars, serverVars>>

ReleaseFails(c) ==
  /\ pc[c] = "unlock" /\ reply[c] = "none" /\ ~alive[c]
  /\ Goto(c, "idle")
  /\ outcome' = [outcome EXCEPT ![c] = "failed"]
  /\ UNCHANGED <<attempt, token, reply, instanceVars, serverVars>>

ReleaseDone(c) ==
  /\ pc[c] = "unlock" /\ reply[c] = "done"
  /\ held' = [held EXCEPT ![InstanceOf[c]] = FALSE]
  /\ reply' = [reply EXCEPT ![c] = "none"]
  /\ outcome' = [outcome EXCEPT ![c] = "released"]
  /\ Goto(c, "idle")
  /\ UNCHANGED <<attempt, token, acquiring, epoch, serverVars>>

-----------------------------------------------------------------------------
(* The Postgres server, one query of a session after another. *)

Lockable(c) == \A d \in Callers \ {c} : lockCount[d] = 0

ServerTryUnread(c) ==
  /\ alive[c] /\ unread[c] > 0
  /\ unread' = [unread EXCEPT ![c] = @ - 1]
  /\ lockCount' = IF Lockable(c) THEN [lockCount EXCEPT ![c] = @ + 1] ELSE lockCount
  /\ UNCHANGED <<clientVars, instanceVars, alive, abandoned>>

ServerTry(c) ==
  /\ alive[c] /\ unread[c] = 0
  /\ pc[c] = "wait" /\ reply[c] = "none"
  /\ IF Lockable(c)
     THEN /\ lockCount' = [lockCount EXCEPT ![c] = @ + 1]
          /\ reply' = [reply EXCEPT ![c] = "true"]
     ELSE /\ reply' = [reply EXCEPT ![c] = "false"]
          /\ UNCHANGED lockCount
  /\ UNCHANGED <<pc, attempt, token, outcome, instanceVars, alive, unread, abandoned>>

ServerUnlock(c) ==
  /\ alive[c] /\ unread[c] = 0
  /\ pc[c] = "unlock" /\ reply[c] = "none"
  /\ lockCount' = [lockCount EXCEPT ![c] = IF @ > 0 THEN @ - 1 ELSE 0]
  /\ reply' = [reply EXCEPT ![c] = "done"]
  /\ UNCHANGED <<pc, attempt, token, outcome, instanceVars, alive, unread, abandoned>>

\* The session ends: the server drops its locks and what it was sent.
SessionDies(c) ==
  /\ alive[c]
  /\ alive' = [alive EXCEPT ![c] = FALSE]
  /\ unread' = [unread EXCEPT ![c] = 0]
  /\ lockCount' = [lockCount EXCEPT ![c] = 0]
  /\ abandoned' = [abandoned EXCEPT ![c] = 0]
  /\ UNCHANGED <<clientVars, instanceVars>>

\* The pool hands an idle caller a new connection.
Reconnect(c) ==
  /\ ~alive[c] /\ pc[c] = "idle"
  /\ alive' = [alive EXCEPT ![c] = TRUE]
  /\ UNCHANGED <<clientVars, instanceVars, unread, lockCount, abandoned>>

-----------------------------------------------------------------------------
ClientStep(c) ==
  \/ Validate(c) \/ SendTry(c) \/ TryRefused(c) \/ TryFails(c)
  \/ TrySucceeds(c) \/ Grant(c)
  \/ Release(c) \/ ReleaseFails(c) \/ ReleaseDone(c)

ServerStep(c) == ServerTryUnread(c) \/ ServerTry(c) \/ ServerUnlock(c)

Next == \E c \in Callers :
  \/ Acquire(c) \/ AcquireBusy(c) \/ TryTimesOut(c)
  \/ ClientStep(c) \/ ServerStep(c)
  \/ SessionDies(c) \/ Reconnect(c)

Fairness == \A c \in Callers : WF_vars(ClientStep(c)) /\ WF_vars(ServerStep(c))

Spec == Init /\ [][Next]_vars /\ Fairness

-----------------------------------------------------------------------------
(* Properties *)

InAcquire(c) == pc[c] \in {"validate", "try", "wait", "granted"}

\* Levels of the re-entrant lock the caller has asked for and not given back.
Claimed(c) ==
  IF \/ pc[c] \in {"granted", "holding"}
     \/ pc[c] = "wait" /\ reply[c] = "true"
     \/ pc[c] = "unlock" /\ reply[c] = "none"
  THEN 1 ELSE 0

\* A caller that was granted the lock and whose session lives has the lock
\* on the server, whatever attempts timed out or were retried before.
HolderHasServerLock ==
  \A c \in Callers : alive[c] /\ pc[c] \in {"granted", "holding"} => lockCount[c] > 0

\* Two callers are between a grant and their unlock only if the session of
\* one of them has died: retries and late replies alone never elect two.
OneLiveHolder ==
  \A c, d \in Callers :
    /\ c # d
    /\ {pc[c], pc[d]} \subseteq {"granted", "holding"}
    => ~(alive[c] /\ alive[d])

\* The levels a session has on the server are accounted for: one for a
\* guard, and at most one for each attempt the client gave up on.
\* (acquire_inner's argument that re-issuing the try-lock is safe.)
LevelsAccounted ==
  \A c \in Callers :
    /\ alive[c] => Claimed(c) <= lockCount[c]
    /\ lockCount[c] + unread[c] <= Claimed(c) + abandoned[c]

\* Guards issued by one instance never share a fencing token, and none is
\* ahead of the epoch.
TokensDistinct ==
  \A c, d \in Callers :
    /\ token[c] <= epoch[InstanceOf[c]]
    /\ c # d /\ InstanceOf[c] = InstanceOf[d] /\ token[c] = token[d] => token[c] = 0

\* The `acquiring` flag is up exactly while one caller is inside acquire:
\* no path leaves it up behind it, none lets two callers in.
AcquiringMeansOneInside ==
  /\ \A c \in Callers : InAcquire(c) => acquiring[InstanceOf[c]]
  /\ \A i \in Instances :
       acquiring[i] => \E c \in Callers : InstanceOf[c] = i /\ InAcquire(c)
  /\ \A c, d \in Callers :
       InAcquire(c) /\ InAcquire(d) /\ InstanceOf[c] = InstanceOf[d] => c = d

\* A caller that is now told its token is stale has lost its session.
StaleMeansLost ==
  \A c \in Callers : outcome[c] # "stale" /\ outcome'[c] = "stale" => ~alive[c]

\* release refuses a token as stale only to a caller whose session died
\* under its guard: a session that lives cannot be superseded.
StaleOnlyAfterLoss == [][StaleMeansLost]_vars
=============================================================================
