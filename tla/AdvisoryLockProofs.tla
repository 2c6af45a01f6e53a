------------------------- MODULE AdvisoryLockProofs -------------------------
(***************************************************************************)
(* The safety of AdvisoryLock, for any number of callers and instances,    *)
(* any retry limit and any number of timeouts and lost sessions; then that *)
(* of MigrationRun, whose replicas are callers of the lock that may also   *)
(* restart, for any number of replicas, migrations and restarts.           *)
(***************************************************************************)
EXTENDS MigrationRun, TLAPS

\* A server lock belongs to one session, and a dead session has nothing.
ServerExclusive ==
  /\ \A c, d \in Callers : c # d => lockCount[c] = 0 \/ lockCount[d] = 0
  /\ \A c \in Callers : ~alive[c] => lockCount[c] = 0 /\ unread[c] = 0

\* A reply is pending only for a query that can have it.
ReplyMatches ==
  \A c \in Callers :
    /\ pc[c] = "wait" => reply[c] \in {"none", "true", "false"}
    /\ pc[c] = "unlock" => reply[c] \in {"none", "done"}
    /\ pc[c] \notin {"wait", "unlock"} => reply[c] = "none"

\* A caller of an instance whose grant is under way, and a live holder.
GrantUnderWay(c) == pc[c] = "granted" \/ (pc[c] = "wait" /\ reply[c] = "true")
LiveHolder(c) == pc[c] = "holding" /\ alive[c]

\* The newest token of an instance is that of its live holder, because no
\* other grant of the instance is under way meanwhile.
HolderNewest ==
  \A c \in Callers : LiveHolder(c) =>
    /\ token[c] = epoch[InstanceOf[c]]
    /\ \A d \in Callers : d # c /\ InstanceOf[d] = InstanceOf[c] => ~GrantUnderWay(d)

IInv ==
  /\ TypeOK
  /\ ServerExclusive
  /\ ReplyMatches
  /\ AcquiringMeansOneInside
  /\ LevelsAccounted
  /\ HolderNewest
  /\ TokensDistinct

-----------------------------------------------------------------------------
(* The domain facts a step needs. *)
LEMMA InstanceType == \A c \in Callers : InstanceOf[c] \in Instances
BY CallersAssumption

\* The initial state satisfies the invariant.
LEMMA InitIInv == Init => IInv
<1>. SUFFICES ASSUME Init PROVE IInv
  OBVIOUS
<1>1. TypeOK
  BY CallersAssumption DEF Init, TypeOK, PC, Outcomes
<1>2. ServerExclusive /\ ReplyMatches /\ HolderNewest
  BY DEF Init, ServerExclusive, ReplyMatches, HolderNewest, LiveHolder
<1>3. AcquiringMeansOneInside
  BY InstanceType DEF Init, AcquiringMeansOneInside, InAcquire
<1>4. LevelsAccounted
  BY DEF Init, LevelsAccounted, Claimed
<1>5. TokensDistinct
  BY InstanceType DEF Init, TokensDistinct
<1>. QED BY <1>1, <1>2, <1>3, <1>4, <1>5 DEF IInv

\* What the end of a turn of the retry loop does to the types.
LEMMA RetryTypes ==
  ASSUME TypeOK, NEW c \in Callers, Retry(c)
  PROVE  /\ pc' \in [Callers -> PC] /\ attempt' \in [Callers -> 1..MaxRetries]
         /\ reply' \in [Callers -> {"none", "true", "false", "done"}]
         /\ outcome' \in [Callers -> Outcomes]
         /\ acquiring' \in [Instances -> BOOLEAN]
         /\ UNCHANGED <<token, held, epoch>>
<1>. USE InstanceType DEF TypeOK, PC, Outcomes
<1>1. CASE attempt[c] < MaxRetries
  BY <1>1, CallersAssumption DEF Retry, Goto, instanceVars
<1>2. CASE ~(attempt[c] < MaxRetries)
  BY <1>2 DEF Retry, GiveUp, Goto
<1>. QED BY <1>1, <1>2

\* Every step keeps the variables in their types.
LEMMA TypeStep == TypeOK /\ [Next]_vars => TypeOK'
<1>. SUFFICES ASSUME TypeOK, [Next]_vars PROVE TypeOK'
  OBVIOUS
<1>. USE DEF clientVars, instanceVars, serverVars, Goto
<1>1. CASE UNCHANGED vars
  BY <1>1 DEF vars, TypeOK
<1>2. ASSUME NEW c \in Callers, Acquire(c) PROVE TypeOK'
  BY <1>2, CallersAssumption, InstanceType DEF Acquire, TypeOK, PC, Outcomes
<1>3. ASSUME NEW c \in Callers, AcquireBusy(c) PROVE TypeOK'
  BY <1>3 DEF AcquireBusy, TypeOK, Outcomes
<1>4. ASSUME NEW c \in Callers, TryTimesOut(c) PROVE TypeOK'
  <2>1. Retry(c) /\ UNCHANGED <<alive, lockCount>>
    BY <1>4 DEF TryTimesOut
  <2>2. abandoned' \in [Callers -> Nat] /\ unread' \in [Callers -> Nat]
    BY <1>4 DEF TryTimesOut, TypeOK
  <2>. QED BY <2>1, <2>2, RetryTypes DEF TypeOK
<1>5. ASSUME NEW c \in Callers, Validate(c) PROVE TypeOK'
  BY <1>5, InstanceType DEF Validate, GiveUp, TypeOK, PC, Outcomes
<1>6. ASSUME NEW c \in Callers, SendTry(c) PROVE TypeOK'
  BY <1>6 DEF SendTry, TypeOK, PC
<1>7. ASSUME NEW c \in Callers, TryRefused(c) \/ TryFails(c) PROVE TypeOK'
  <2>1. Retry(c) /\ UNCHANGED serverVars
    BY <1>7 DEF TryRefused, TryFails
  <2>. QED BY <2>1, RetryTypes DEF TypeOK
<1>8. ASSUME NEW c \in Callers, TrySucceeds(c) PROVE TypeOK'
  BY <1>8, InstanceType DEF TrySucceeds, TypeOK, PC
<1>9. ASSUME NEW c \in Callers, Grant(c) PROVE TypeOK'
  BY <1>9, InstanceType DEF Grant, TypeOK, PC, Outcomes
<1>10. ASSUME NEW c \in Callers, Release(c) PROVE TypeOK'
  BY <1>10 DEF Release, TypeOK, PC, Outcomes
<1>11. ASSUME NEW c \in Callers, ReleaseFails(c) PROVE TypeOK'
  BY <1>11 DEF ReleaseFails, TypeOK, PC, Outcomes
<1>12. ASSUME NEW c \in Callers, ReleaseDone(c) PROVE TypeOK'
  BY <1>12, InstanceType DEF ReleaseDone, TypeOK, PC, Outcomes
<1>13. ASSUME NEW c \in Callers, ServerTryUnread(c) PROVE TypeOK'
  BY <1>13 DEF ServerTryUnread, TypeOK
<1>14. ASSUME NEW c \in Callers, ServerTry(c) PROVE TypeOK'
  BY <1>14 DEF ServerTry, TypeOK
<1>15. ASSUME NEW c \in Callers, ServerUnlock(c) PROVE TypeOK'
  BY <1>15 DEF ServerUnlock, TypeOK
<1>16. ASSUME NEW c \in Callers, SessionDies(c) PROVE TypeOK'
  BY <1>16 DEF SessionDies, TypeOK
<1>17. ASSUME NEW c \in Callers, Reconnect(c) PROVE TypeOK'
  BY <1>17 DEF Reconnect, TypeOK
<1>. QED
  BY <1>1, <1>2, <1>3, <1>4, <1>5, <1>6, <1>7, <1>8, <1>9, <1>10, <1>11, <1>12,
     <1>13, <1>14, <1>15, <1>16, <1>17 DEF Next, ClientStep, ServerStep
\* The server's side of a step: exclusiveness, and nothing for the dead.
LEMMA ExclusiveStep == IInv /\ [Next]_vars => ServerExclusive'
<1>. SUFFICES ASSUME IInv, [Next]_vars PROVE ServerExclusive'
  OBVIOUS
<1>. USE DEF ServerExclusive, clientVars, instanceVars, serverVars, Goto
<1>1. CASE UNCHANGED vars
  BY <1>1 DEF vars, IInv
<1>2. ASSUME NEW c \in Callers, Acquire(c) PROVE ServerExclusive'
  BY <1>2 DEF IInv, TypeOK, Acquire
<1>3. ASSUME NEW c \in Callers, AcquireBusy(c) PROVE ServerExclusive'
  BY <1>3 DEF IInv, TypeOK, AcquireBusy
<1>4. ASSUME NEW c \in Callers, TryTimesOut(c) PROVE ServerExclusive'
  BY <1>4 DEF IInv, TypeOK, TryTimesOut, Retry, GiveUp
<1>5. ASSUME NEW c \in Callers, Validate(c) PROVE ServerExclusive'
  BY <1>5 DEF IInv, TypeOK, Validate, GiveUp
<1>6. ASSUME NEW c \in Callers, SendTry(c) PROVE ServerExclusive'
  BY <1>6 DEF IInv, TypeOK, SendTry
<1>7. ASSUME NEW c \in Callers, TryRefused(c) PROVE ServerExclusive'
  BY <1>7 DEF IInv, TypeOK, TryRefused, Retry, GiveUp
<1>8. ASSUME NEW c \in Callers, TryFails(c) PROVE ServerExclusive'
  BY <1>8 DEF IInv, TypeOK, TryFails, Retry, GiveUp
<1>9. ASSUME NEW c \in Callers, TrySucceeds(c) PROVE ServerExclusive'
  BY <1>9 DEF IInv, TypeOK, TrySucceeds
<1>10. ASSUME NEW c \in Callers, Grant(c) PROVE ServerExclusive'
  BY <1>10 DEF IInv, TypeOK, Grant
<1>11. ASSUME NEW c \in Callers, Release(c) PROVE ServerExclusive'
  BY <1>11 DEF IInv, TypeOK, Release
<1>12. ASSUME NEW c \in Callers, ReleaseFails(c) PROVE ServerExclusive'
  BY <1>12 DEF IInv, TypeOK, ReleaseFails
<1>13. ASSUME NEW c \in Callers, ReleaseDone(c) PROVE ServerExclusive'
  BY <1>13 DEF IInv, TypeOK, ReleaseDone
<1>14. ASSUME NEW c \in Callers, ServerTryUnread(c) PROVE ServerExclusive'
  BY <1>14 DEF IInv, TypeOK, ServerTryUnread, Lockable
<1>15. ASSUME NEW c \in Callers, ServerTry(c) PROVE ServerExclusive'
  BY <1>15 DEF IInv, TypeOK, ServerTry, Lockable
<1>16. ASSUME NEW c \in Callers, ServerUnlock(c) PROVE ServerExclusive'
  BY <1>16 DEF IInv, TypeOK, ServerUnlock
<1>17. ASSUME NEW c \in Callers, SessionDies(c) PROVE ServerExclusive'
  BY <1>17 DEF IInv, TypeOK, SessionDies
<1>18. ASSUME NEW c \in Callers, Reconnect(c) PROVE ServerExclusive'
  BY <1>18 DEF IInv, TypeOK, Reconnect
<1>. QED
  BY <1>1, <1>2, <1>3, <1>4, <1>5, <1>6, <1>7, <1>8, <1>9, <1>10, <1>11, <1>12, <1>13, <1>14, <1>15, <1>16, <1>17, <1>18 DEF Next, ClientStep, ServerStep

\* Replies stay with the queries they answer.
LEMMA ReplyStep == IInv /\ [Next]_vars => ReplyMatches'
<1>. SUFFICES ASSUME IInv, [Next]_vars PROVE ReplyMatches'
  OBVIOUS
<1>. USE DEF ReplyMatches, clientVars, instanceVars, serverVars, Goto
<1>1. CASE UNCHANGED vars
  BY <1>1 DEF vars, IInv
<1>2. ASSUME NEW c \in Callers, Acquire(c) PROVE ReplyMatches'
  BY <1>2 DEF IInv, TypeOK, Acquire
<1>3. ASSUME NEW c \in Callers, AcquireBusy(c) PROVE ReplyMatches'
  BY <1>3 DEF IInv, TypeOK, AcquireBusy
<1>4. ASSUME NEW c \in Callers, TryTimesOut(c) PROVE ReplyMatches'
  BY <1>4 DEF IInv, TypeOK, TryTimesOut, Retry, GiveUp
<1>5. ASSUME NEW c \in Callers, Validate(c) PROVE ReplyMatches'
  BY <1>5 DEF IInv, TypeOK, Validate, GiveUp
<1>6. ASSUME NEW c \in Callers, SendTry(c) PROVE ReplyMatches'
  BY <1>6 DEF IInv, TypeOK, SendTry
<1>7. ASSUME NEW c \in Callers, TryRefused(c) PROVE ReplyMatches'
  BY <1>7 DEF IInv, TypeOK, TryRefused, Retry, GiveUp
<1>8. ASSUME NEW c \in Callers, TryFails(c) PROVE ReplyMatches'
  BY <1>8 DEF IInv, TypeOK, TryFails, Retry, GiveUp
<1>9. ASSUME NEW c \in Callers, TrySucceeds(c) PROVE ReplyMatches'
  BY <1>9 DEF IInv, TypeOK, TrySucceeds
<1>10. ASSUME NEW c \in Callers, Grant(c) PROVE ReplyMatches'
  BY <1>10 DEF IInv, TypeOK, Grant
<1>11. ASSUME NEW c \in Callers, Release(c) PROVE ReplyMatches'
  BY <1>11 DEF IInv, TypeOK, Release
<1>12. ASSUME NEW c \in Callers, ReleaseFails(c) PROVE ReplyMatches'
  BY <1>12 DEF IInv, TypeOK, ReleaseFails
<1>13. ASSUME NEW c \in Callers, ReleaseDone(c) PROVE ReplyMatches'
  BY <1>13 DEF IInv, TypeOK, ReleaseDone
<1>14. ASSUME NEW c \in Callers, ServerTryUnread(c) PROVE ReplyMatches'
  BY <1>14 DEF IInv, TypeOK, ServerTryUnread, Lockable
<1>15. ASSUME NEW c \in Callers, ServerTry(c) PROVE ReplyMatches'
  BY <1>15 DEF IInv, TypeOK, ServerTry, Lockable
<1>16. ASSUME NEW c \in Callers, ServerUnlock(c) PROVE ReplyMatches'
  BY <1>16 DEF IInv, TypeOK, ServerUnlock
<1>17. ASSUME NEW c \in Callers, SessionDies(c) PROVE ReplyMatches'
  BY <1>17 DEF IInv, TypeOK, SessionDies
<1>18. ASSUME NEW c \in Callers, Reconnect(c) PROVE ReplyMatches'
  BY <1>18 DEF IInv, TypeOK, Reconnect
<1>. QED
  BY <1>1, <1>2, <1>3, <1>4, <1>5, <1>6, <1>7, <1>8, <1>9, <1>10, <1>11, <1>12, <1>13, <1>14, <1>15, <1>16, <1>17, <1>18 DEF Next, ClientStep, ServerStep

\* The in-flight flag stays exact.
LEMMA InsideStep == IInv /\ [Next]_vars => AcquiringMeansOneInside'
<1>. SUFFICES ASSUME IInv, [Next]_vars PROVE AcquiringMeansOneInside'
  OBVIOUS
<1>. USE DEF AcquiringMeansOneInside, InAcquire, clientVars, instanceVars, serverVars, Goto
<1>1. CASE UNCHANGED vars
  BY <1>1 DEF vars, IInv
<1>2. ASSUME NEW c \in Callers, Acquire(c) PROVE AcquiringMeansOneInside'
  BY <1>2, InstanceType DEF IInv, TypeOK, Acquire
<1>3. ASSUME NEW c \in Callers, AcquireBusy(c) PROVE AcquiringMeansOneInside'
  BY <1>3, InstanceType DEF IInv, TypeOK, AcquireBusy
<1>4. ASSUME NEW c \in Callers, TryTimesOut(c) PROVE AcquiringMeansOneInside'
  BY <1>4, InstanceType DEF IInv, TypeOK, TryTimesOut, Retry, GiveUp
<1>5. ASSUME NEW c \in Callers, Validate(c) PROVE AcquiringMeansOneInside'
  BY <1>5, InstanceType DEF IInv, TypeOK, Validate, GiveUp
<1>6. ASSUME NEW c \in Callers, SendTry(c) PROVE AcquiringMeansOneInside'
  BY <1>6, InstanceType DEF IInv, TypeOK, SendTry
<1>7. ASSUME NEW c \in Callers, TryRefused(c) PROVE AcquiringMeansOneInside'
  BY <1>7, InstanceType DEF IInv, TypeOK, TryRefused, Retry, GiveUp
<1>8. ASSUME NEW c \in Callers, TryFails(c) PROVE AcquiringMeansOneInside'
  BY <1>8, InstanceType DEF IInv, TypeOK, TryFails, Retry, GiveUp
<1>9. ASSUME NEW c \in Callers, TrySucceeds(c) PROVE AcquiringMeansOneInside'
  BY <1>9, InstanceType DEF IInv, TypeOK, TrySucceeds
<1>10. ASSUME NEW c \in Callers, Grant(c) PROVE AcquiringMeansOneInside'
  BY <1>10, InstanceType DEF IInv, TypeOK, Grant
<1>11. ASSUME NEW c \in Callers, Release(c) PROVE AcquiringMeansOneInside'
  BY <1>11, InstanceType DEF IInv, TypeOK, Release
<1>12. ASSUME NEW c \in Callers, ReleaseFails(c) PROVE AcquiringMeansOneInside'
  BY <1>12, InstanceType DEF IInv, TypeOK, ReleaseFails
<1>13. ASSUME NEW c \in Callers, ReleaseDone(c) PROVE AcquiringMeansOneInside'
  BY <1>13, InstanceType DEF IInv, TypeOK, ReleaseDone
<1>14. ASSUME NEW c \in Callers, ServerTryUnread(c) PROVE AcquiringMeansOneInside'
  BY <1>14, InstanceType DEF IInv, TypeOK, ServerTryUnread, Lockable
<1>15. ASSUME NEW c \in Callers, ServerTry(c) PROVE AcquiringMeansOneInside'
  BY <1>15, InstanceType DEF IInv, TypeOK, ServerTry, Lockable
<1>16. ASSUME NEW c \in Callers, ServerUnlock(c) PROVE AcquiringMeansOneInside'
  BY <1>16, InstanceType DEF IInv, TypeOK, ServerUnlock
<1>17. ASSUME NEW c \in Callers, SessionDies(c) PROVE AcquiringMeansOneInside'
  BY <1>17, InstanceType DEF IInv, TypeOK, SessionDies
<1>18. ASSUME NEW c \in Callers, Reconnect(c) PROVE AcquiringMeansOneInside'
  BY <1>18, InstanceType DEF IInv, TypeOK, Reconnect
<1>. QED
  BY <1>1, <1>2, <1>3, <1>4, <1>5, <1>6, <1>7, <1>8, <1>9, <1>10, <1>11, <1>12, <1>13, <1>14, <1>15, <1>16, <1>17, <1>18 DEF Next, ClientStep, ServerStep

\* Levels stay accounted for.
LEMMA LevelsStep == IInv /\ [Next]_vars => LevelsAccounted'
<1>. SUFFICES ASSUME IInv, [Next]_vars PROVE LevelsAccounted'
  OBVIOUS
<1>. USE DEF LevelsAccounted, Claimed, clientVars, instanceVars, serverVars, Goto
<1>1. CASE UNCHANGED vars
  BY <1>1 DEF vars, IInv
<1>2. ASSUME NEW c \in Callers, Acquire(c) PROVE LevelsAccounted'
  BY <1>2 DEF IInv, TypeOK, Acquire, ReplyMatches, ServerExclusive, HolderNewest, LiveHolder
<1>3. ASSUME NEW c \in Callers, AcquireBusy(c) PROVE LevelsAccounted'
  BY <1>3 DEF IInv, TypeOK, AcquireBusy, ReplyMatches, ServerExclusive, HolderNewest, LiveHolder
<1>4. ASSUME NEW c \in Callers, TryTimesOut(c) PROVE LevelsAccounted'
  BY <1>4 DEF IInv, TypeOK, TryTimesOut, Retry, GiveUp, ReplyMatches, ServerExclusive, HolderNewest, LiveHolder
<1>5. ASSUME NEW c \in Callers, Validate(c) PROVE LevelsAccounted'
  BY <1>5 DEF IInv, TypeOK, Validate, GiveUp, ReplyMatches, ServerExclusive, HolderNewest, LiveHolder
<1>6. ASSUME NEW c \in Callers, SendTry(c) PROVE LevelsAccounted'
  BY <1>6 DEF IInv, TypeOK, SendTry, ReplyMatches, ServerExclusive, HolderNewest, LiveHolder
<1>7. ASSUME NEW c \in Callers, TryRefused(c) PROVE LevelsAccounted'
  BY <1>7 DEF IInv, TypeOK, TryRefused, Retry, GiveUp, ReplyMatches, ServerExclusive, HolderNewest, LiveHolder
<1>8. ASSUME NEW c \in Callers, TryFails(c) PROVE LevelsAccounted'
  BY <1>8 DEF IInv, TypeOK, TryFails, Retry, GiveUp, ReplyMatches, ServerExclusive, HolderNewest, LiveHolder
<1>9. ASSUME NEW c \in Callers, TrySucceeds(c) PROVE LevelsAccounted'
  BY <1>9 DEF IInv, TypeOK, TrySucceeds, ReplyMatches, ServerExclusive, HolderNewest, LiveHolder
<1>10. ASSUME NEW c \in Callers, Grant(c) PROVE LevelsAccounted'
  BY <1>10 DEF IInv, TypeOK, Grant, ReplyMatches, ServerExclusive, HolderNewest, LiveHolder
<1>11. ASSUME NEW c \in Callers, Release(c) PROVE LevelsAccounted'
  BY <1>11 DEF IInv, TypeOK, Release, ReplyMatches, ServerExclusive, HolderNewest, LiveHolder
<1>12. ASSUME NEW c \in Callers, ReleaseFails(c) PROVE LevelsAccounted'
  BY <1>12 DEF IInv, TypeOK, ReleaseFails, ReplyMatches, ServerExclusive, HolderNewest, LiveHolder
<1>13. ASSUME NEW c \in Callers, ReleaseDone(c) PROVE LevelsAccounted'
  BY <1>13 DEF IInv, TypeOK, ReleaseDone, ReplyMatches, ServerExclusive, HolderNewest, LiveHolder
<1>14. ASSUME NEW c \in Callers, ServerTryUnread(c) PROVE LevelsAccounted'
  BY <1>14 DEF IInv, TypeOK, ServerTryUnread, Lockable, ReplyMatches, ServerExclusive, HolderNewest, LiveHolder
<1>15. ASSUME NEW c \in Callers, ServerTry(c) PROVE LevelsAccounted'
  BY <1>15 DEF IInv, TypeOK, ServerTry, Lockable, ReplyMatches, ServerExclusive, HolderNewest, LiveHolder
<1>16. ASSUME NEW c \in Callers, ServerUnlock(c) PROVE LevelsAccounted'
  BY <1>16 DEF IInv, TypeOK, ServerUnlock, ReplyMatches, ServerExclusive, HolderNewest, LiveHolder
<1>17. ASSUME NEW c \in Callers, SessionDies(c) PROVE LevelsAccounted'
  BY <1>17 DEF IInv, TypeOK, SessionDies, ReplyMatches, ServerExclusive, HolderNewest, LiveHolder
<1>18. ASSUME NEW c \in Callers, Reconnect(c) PROVE LevelsAccounted'
  BY <1>18 DEF IInv, TypeOK, Reconnect, ReplyMatches, ServerExclusive, HolderNewest, LiveHolder
<1>. QED
  BY <1>1, <1>2, <1>3, <1>4, <1>5, <1>6, <1>7, <1>8, <1>9, <1>10, <1>11, <1>12, <1>13, <1>14, <1>15, <1>16, <1>17, <1>18 DEF Next, ClientStep, ServerStep

\* A live holder keeps the newest token.
LEMMA NewestStep == IInv /\ [Next]_vars => HolderNewest'
<1>. SUFFICES ASSUME IInv, [Next]_vars PROVE HolderNewest'
  OBVIOUS
<1>. USE DEF HolderNewest, LiveHolder, GrantUnderWay, clientVars, instanceVars, serverVars, Goto
<1>1. CASE UNCHANGED vars
  BY <1>1 DEF vars, IInv
<1>2. ASSUME NEW c \in Callers, Acquire(c) PROVE HolderNewest'
  BY <1>2, InstanceType DEF IInv, TypeOK, Acquire, ReplyMatches, ServerExclusive, LevelsAccounted, Claimed, AcquiringMeansOneInside, InAcquire
<1>3. ASSUME NEW c \in Callers, AcquireBusy(c) PROVE HolderNewest'
  BY <1>3, InstanceType DEF IInv, TypeOK, AcquireBusy, ReplyMatches, ServerExclusive, LevelsAccounted, Claimed, AcquiringMeansOneInside, InAcquire
<1>4. ASSUME NEW c \in Callers, TryTimesOut(c) PROVE HolderNewest'
  BY <1>4, InstanceType DEF IInv, TypeOK, TryTimesOut, Retry, GiveUp, ReplyMatches, ServerExclusive, LevelsAccounted, Claimed, AcquiringMeansOneInside, InAcquire
<1>5. ASSUME NEW c \in Callers, Validate(c) PROVE HolderNewest'
  <2>1. pc[c] = "validate" /\ pc'[c] \in {"try", "idle"} /\ UNCHANGED <<token, epoch, alive>>
    BY <1>5 DEF IInv, TypeOK, Validate, GiveUp
  <2>2. \A d \in Callers \ {c} : pc'[d] = pc[d] /\ reply'[d] = reply[d]
    BY <1>5 DEF IInv, TypeOK, Validate, GiveUp
  <2>. QED BY <2>1, <2>2 DEF IInv
<1>6. ASSUME NEW c \in Callers, SendTry(c) PROVE HolderNewest'
  BY <1>6, InstanceType DEF IInv, TypeOK, SendTry, ReplyMatches, ServerExclusive, LevelsAccounted, Claimed, AcquiringMeansOneInside, InAcquire
<1>7. ASSUME NEW c \in Callers, TryRefused(c) PROVE HolderNewest'
  BY <1>7, InstanceType DEF IInv, TypeOK, TryRefused, Retry, GiveUp, ReplyMatches, ServerExclusive, LevelsAccounted, Claimed, AcquiringMeansOneInside, InAcquire
<1>8. ASSUME NEW c \in Callers, TryFails(c) PROVE HolderNewest'
  BY <1>8, InstanceType DEF IInv, TypeOK, TryFails, Retry, GiveUp, ReplyMatches, ServerExclusive, LevelsAccounted, Claimed, AcquiringMeansOneInside, InAcquire
<1>9. ASSUME NEW c \in Callers, TrySucceeds(c) PROVE HolderNewest'
  BY <1>9, InstanceType DEF IInv, TypeOK, TrySucceeds, ReplyMatches, ServerExclusive, LevelsAccounted, Claimed, AcquiringMeansOneInside, InAcquire
<1>10. ASSUME NEW c \in Callers, Grant(c) PROVE HolderNewest'
  BY <1>10, InstanceType DEF IInv, TypeOK, Grant, ReplyMatches, ServerExclusive, LevelsAccounted, Claimed, AcquiringMeansOneInside, InAcquire
<1>11. ASSUME NEW c \in Callers, Release(c) PROVE HolderNewest'
  BY <1>11, InstanceType DEF IInv, TypeOK, Release, ReplyMatches, ServerExclusive, LevelsAccounted, Claimed, AcquiringMeansOneInside, InAcquire
<1>12. ASSUME NEW c \in Callers, ReleaseFails(c) PROVE HolderNewest'
  BY <1>12, InstanceType DEF IInv, TypeOK, ReleaseFails, ReplyMatches, ServerExclusive, LevelsAccounted, Claimed, AcquiringMeansOneInside, InAcquire
<1>13. ASSUME NEW c \in Callers, ReleaseDone(c) PROVE HolderNewest'
  BY <1>13, InstanceType DEF IInv, TypeOK, ReleaseDone, ReplyMatches, ServerExclusive, LevelsAccounted, Claimed, AcquiringMeansOneInside, InAcquire
<1>14. ASSUME NEW c \in Callers, ServerTryUnread(c) PROVE HolderNewest'
  BY <1>14, InstanceType DEF IInv, TypeOK, ServerTryUnread, Lockable, ReplyMatches, ServerExclusive, LevelsAccounted, Claimed, AcquiringMeansOneInside, InAcquire
<1>15. ASSUME NEW c \in Callers, ServerTry(c) PROVE HolderNewest'
  <2>1. /\ pc[c] = "wait" /\ UNCHANGED <<pc, token, epoch, alive>>
        /\ \A d \in Callers \ {c} : reply'[d] = reply[d]
    BY <1>15 DEF IInv, TypeOK, ServerTry
  <2>2. \A d \in Callers \ {c} : reply'[c] = "true" => lockCount[d] = 0
    BY <1>15 DEF IInv, TypeOK, ServerTry, Lockable
  <2>3. \A d \in Callers : pc[d] = "holding" /\ alive[d] => lockCount[d] # 0
    BY DEF IInv, TypeOK, LevelsAccounted, Claimed
  <2>. QED BY <2>1, <2>2, <2>3 DEF IInv
<1>16. ASSUME NEW c \in Callers, ServerUnlock(c) PROVE HolderNewest'
  BY <1>16, InstanceType DEF IInv, TypeOK, ServerUnlock, ReplyMatches, ServerExclusive, LevelsAccounted, Claimed, AcquiringMeansOneInside, InAcquire
<1>17. ASSUME NEW c \in Callers, SessionDies(c) PROVE HolderNewest'
  BY <1>17, InstanceType DEF IInv, TypeOK, SessionDies, ReplyMatches, ServerExclusive, LevelsAccounted, Claimed, AcquiringMeansOneInside, InAcquire
<1>18. ASSUME NEW c \in Callers, Reconnect(c) PROVE HolderNewest'
  BY <1>18, InstanceType DEF IInv, TypeOK, Reconnect, ReplyMatches, ServerExclusive, LevelsAccounted, Claimed, AcquiringMeansOneInside, InAcquire
<1>. QED
  BY <1>1, <1>2, <1>3, <1>4, <1>5, <1>6, <1>7, <1>8, <1>9, <1>10, <1>11, <1>12, <1>13, <1>14, <1>15, <1>16, <1>17, <1>18 DEF Next, ClientStep, ServerStep

\* Tokens stay distinct.
LEMMA TokensStep == IInv /\ [Next]_vars => TokensDistinct'
<1>. SUFFICES ASSUME IInv, [Next]_vars PROVE TokensDistinct'
  OBVIOUS
<1>. USE DEF TokensDistinct, clientVars, instanceVars, serverVars, Goto
<1>1. CASE UNCHANGED vars
  BY <1>1 DEF vars, IInv
<1>2. ASSUME NEW c \in Callers, Acquire(c) PROVE TokensDistinct'
  BY <1>2, InstanceType DEF IInv, TypeOK, Acquire
<1>3. ASSUME NEW c \in Callers, AcquireBusy(c) PROVE TokensDistinct'
  BY <1>3, InstanceType DEF IInv, TypeOK, AcquireBusy
<1>4. ASSUME NEW c \in Callers, TryTimesOut(c) PROVE TokensDistinct'
  BY <1>4, InstanceType DEF IInv, TypeOK, TryTimesOut, Retry, GiveUp
<1>5. ASSUME NEW c \in Callers, Validate(c) PROVE TokensDistinct'
  BY <1>5, InstanceType DEF IInv, TypeOK, Validate, GiveUp
<1>6. ASSUME NEW c \in Callers, SendTry(c) PROVE TokensDistinct'
  BY <1>6, InstanceType DEF IInv, TypeOK, SendTry
<1>7. ASSUME NEW c \in Callers, TryRefused(c) PROVE TokensDistinct'
  BY <1>7, InstanceType DEF IInv, TypeOK, TryRefused, Retry, GiveUp
<1>8. ASSUME NEW c \in Callers, TryFails(c) PROVE TokensDistinct'
  BY <1>8, InstanceType DEF IInv, TypeOK, TryFails, Retry, GiveUp
<1>9. ASSUME NEW c \in Callers, TrySucceeds(c) PROVE TokensDistinct'
  BY <1>9, InstanceType DEF IInv, TypeOK, TrySucceeds
<1>10. ASSUME NEW c \in Callers, Grant(c) PROVE TokensDistinct'
  BY <1>10, InstanceType DEF IInv, TypeOK, Grant
<1>11. ASSUME NEW c \in Callers, Release(c) PROVE TokensDistinct'
  BY <1>11, InstanceType DEF IInv, TypeOK, Release
<1>12. ASSUME NEW c \in Callers, ReleaseFails(c) PROVE TokensDistinct'
  BY <1>12, InstanceType DEF IInv, TypeOK, ReleaseFails
<1>13. ASSUME NEW c \in Callers, ReleaseDone(c) PROVE TokensDistinct'
  BY <1>13, InstanceType DEF IInv, TypeOK, ReleaseDone
<1>14. ASSUME NEW c \in Callers, ServerTryUnread(c) PROVE TokensDistinct'
  BY <1>14, InstanceType DEF IInv, TypeOK, ServerTryUnread, Lockable
<1>15. ASSUME NEW c \in Callers, ServerTry(c) PROVE TokensDistinct'
  BY <1>15, InstanceType DEF IInv, TypeOK, ServerTry, Lockable
<1>16. ASSUME NEW c \in Callers, ServerUnlock(c) PROVE TokensDistinct'
  BY <1>16, InstanceType DEF IInv, TypeOK, ServerUnlock
<1>17. ASSUME NEW c \in Callers, SessionDies(c) PROVE TokensDistinct'
  BY <1>17, InstanceType DEF IInv, TypeOK, SessionDies
<1>18. ASSUME NEW c \in Callers, Reconnect(c) PROVE TokensDistinct'
  BY <1>18, InstanceType DEF IInv, TypeOK, Reconnect
<1>. QED
  BY <1>1, <1>2, <1>3, <1>4, <1>5, <1>6, <1>7, <1>8, <1>9, <1>10, <1>11, <1>12, <1>13, <1>14, <1>15, <1>16, <1>17, <1>18 DEF Next, ClientStep, ServerStep

-----------------------------------------------------------------------------
\* The inductive invariant holds in every reachable state.
THEOREM Invariant == Spec => []IInv
<1>1. IInv /\ [Next]_vars => IInv'
  BY TypeStep, ExclusiveStep, ReplyStep, InsideStep, LevelsStep, NewestStep, TokensStep DEF IInv
<1>. QED BY InitIInv, <1>1, PTL DEF Spec

\* The variables keep their types.
THEOREM TypeCorrect == Spec => []TypeOK
<1>1. IInv => TypeOK
  BY DEF IInv
<1>. QED BY Invariant, <1>1, PTL

\* A granted caller whose session lives has the lock on the server.
THEOREM HolderSafe == Spec => []HolderHasServerLock
<1>1. IInv => HolderHasServerLock
  BY DEF IInv, TypeOK, LevelsAccounted, Claimed, HolderHasServerLock
<1>. QED BY Invariant, <1>1, PTL

\* Two callers are granted the lock at once only past the death of a session.
THEOREM MutualExclusion == Spec => []OneLiveHolder
<1>1. IInv => OneLiveHolder
  <2>. SUFFICES ASSUME IInv, NEW c \in Callers, NEW d \in Callers, c # d,
                       {pc[c], pc[d]} \subseteq {"granted", "holding"},
                       alive[c], alive[d]
                PROVE  FALSE
    BY DEF OneLiveHolder
  <2>1. lockCount[c] # 0 /\ lockCount[d] # 0
    BY DEF IInv, TypeOK, LevelsAccounted, Claimed
  <2>. QED BY <2>1 DEF IInv, ServerExclusive
<1>. QED BY Invariant, <1>1, PTL

\* The levels a session has on the server are accounted for.
THEOREM LevelsSafe == Spec => []LevelsAccounted
<1>1. IInv => LevelsAccounted
  BY DEF IInv
<1>. QED BY Invariant, <1>1, PTL

\* Guards of one instance never share a fencing token.
THEOREM TokensSafe == Spec => []TokensDistinct
<1>1. IInv => TokensDistinct
  BY DEF IInv
<1>. QED BY Invariant, <1>1, PTL

\* The in-flight flag is up exactly while one caller is inside acquire.
THEOREM InsideSafe == Spec => []AcquiringMeansOneInside
<1>1. IInv => AcquiringMeansOneInside
  BY DEF IInv
<1>. QED BY Invariant, <1>1, PTL

\* A token is refused as stale only after the death of its session.
THEOREM StaleSafe == Spec => StaleOnlyAfterLoss
<1>. USE DEF clientVars, instanceVars, serverVars, Goto
<1>1. IInv /\ [Next]_vars => StaleMeansLost
  <2>. SUFFICES ASSUME IInv, [Next]_vars PROVE StaleMeansLost
    OBVIOUS
  <2>1. CASE UNCHANGED vars
    BY <2>1 DEF vars, StaleMeansLost
  <2>2. ASSUME NEW c \in Callers, Release(c) PROVE StaleMeansLost
    <3>1. \A d \in Callers \ {c} : outcome'[d] = outcome[d]
      BY <2>2 DEF IInv, TypeOK, Release
    <3>2. ASSUME alive[c] PROVE outcome'[c] = outcome[c]
      BY <2>2, <3>2 DEF IInv, TypeOK, HolderNewest, LiveHolder, Release
    <3>. QED BY <3>1, <3>2 DEF StaleMeansLost
  <2>3. ASSUME NEW c \in Callers,
               Acquire(c) \/ AcquireBusy(c) \/ Grant(c) \/ ReleaseFails(c) \/ ReleaseDone(c)
        PROVE  StaleMeansLost
    BY <2>3 DEF StaleMeansLost, IInv, TypeOK, Acquire, AcquireBusy, Grant, ReleaseFails, ReleaseDone
  <2>4. ASSUME NEW c \in Callers,
               Validate(c) \/ TryRefused(c) \/ TryFails(c) \/ TryTimesOut(c)
        PROVE  StaleMeansLost
    BY <2>4 DEF StaleMeansLost, IInv, TypeOK, Validate, TryRefused, TryFails, TryTimesOut, Retry, GiveUp
  <2>5. ASSUME NEW c \in Callers,
               \/ SendTry(c) \/ TrySucceeds(c) \/ ServerStep(c)
               \/ SessionDies(c) \/ Reconnect(c)
        PROVE  StaleMeansLost
    BY <2>5 DEF StaleMeansLost, SendTry, TrySucceeds, ServerStep, ServerTryUnread, ServerTry,
                ServerUnlock, SessionDies, Reconnect
  <2>. QED BY <2>1, <2>2, <2>3, <2>4, <2>5 DEF Next, ClientStep
<1>. QED BY Invariant, <1>1, PTL DEF Spec, StaleOnlyAfterLoss

-----------------------------------------------------------------------------
(* MigrationRun: the lock's invariant survives restarts, and with it the   *)
(* migrations are applied by one replica at a time.                        *)

MTypeOK ==
  /\ phase \in [Callers -> Phases]
  /\ next \in [Callers -> Nat]
  /\ applied \in Seq(Nat)
  /\ result \in [Callers -> {"none", "ok", "err"}]
  /\ crashes \in 0..MaxCrashes

\* A replica migrates under the lock's guard; the list it read can be out of
\* date once its session is dead, but never ahead of what is applied.
MigratesUnderLock ==
  \A r \in Callers : phase[r] = "migrating" =>
    pc[r] = "holding" /\ next[r] <= Len(applied) + 1

MInv ==
  /\ IInv
  /\ MTypeOK
  /\ MigratesUnderLock
  /\ Len(applied) <= Migrations
  /\ AppliedOnceInOrder
  /\ OkMeansMigrated

\* The initial state satisfies the invariant.
LEMMA InitMInv == MInit => MInv
<1>. SUFFICES ASSUME MInit PROVE MInv
  OBVIOUS
<1>1. IInv
  BY InitIInv DEF MInit
<1>2. MTypeOK /\ Len(applied) = 0
  BY MigrationsAssumption DEF MInit, MTypeOK, Phases
<1>3. MigratesUnderLock /\ AppliedOnceInOrder /\ OkMeansMigrated
  BY <1>2 DEF MInit, MigratesUnderLock, AppliedOnceInOrder, OkMeansMigrated
<1>. QED BY <1>1, <1>2, <1>3, MigrationsAssumption DEF MInv

\* A step of a replica or its environment is a step of the lock, or none of
\* the lock's, or a restart.
LEMMA LockSimulated == MNext => [Next]_vars \/ \E r \in Callers : Crash(r)
<1>. SUFFICES ASSUME NEW r \in Callers, ReplicaStep(r) \/ Environment(r)
              PROVE  [Next]_vars \/ Crash(r)
  BY DEF MNext
<1>1. CASE LockRefused(r) \/ ListApplied(r) \/ Apply(r) \/ AllApplied(r) \/ Serve(r) \/ ApplyFails(r)
  BY <1>1 DEF LockRefused, ListApplied, Apply, AllApplied, Serve, ApplyFails
<1>2. CASE StartLocking(r) \/ StartRelease(r)
  BY <1>2 DEF StartLocking, StartRelease, Next, ClientStep
<1>3. CASE LockStep(r)
  BY <1>3 DEF LockStep, Next, ClientStep
<1>4. CASE ServerStep(r) \/ TryTimesOut(r) \/ SessionDies(r)
  BY <1>4 DEF Next
<1>. QED BY <1>1, <1>2, <1>3, <1>4 DEF ReplicaStep, Environment

\* The restart of a replica leaves the lock's invariant intact: its session
\* and its instance start afresh, and both are its own.
LEMMA CrashKeepsLock ==
  ASSUME IInv, NEW r \in Callers, Crash(r)
  PROVE  IInv'
<1>. USE InstanceType, MigrationsAssumption DEF Goto
<1>1. TypeOK'
  BY DEF IInv, Crash, TypeOK, PC, Outcomes
<1>2. ServerExclusive'
  BY DEF IInv, TypeOK, Crash, ServerExclusive
<1>3. ReplyMatches'
  BY DEF IInv, TypeOK, Crash, ReplyMatches
<1>4. AcquiringMeansOneInside'
  BY DEF IInv, TypeOK, Crash, AcquiringMeansOneInside, InAcquire
<1>5. LevelsAccounted'
  BY DEF IInv, TypeOK, Crash, LevelsAccounted, Claimed
<1>6. HolderNewest'
  BY DEF IInv, TypeOK, Crash, HolderNewest, LiveHolder, GrantUnderWay
<1>7. TokensDistinct'
  BY DEF IInv, TypeOK, Crash, TokensDistinct
<1>. QED BY <1>1, <1>2, <1>3, <1>4, <1>5, <1>6, <1>7 DEF IInv

\* Whatever a replica does, the lock's invariant holds afterwards.
LEMMA LockKept == IInv /\ [MNext]_allVars => IInv'
<1>1. IInv /\ [Next]_vars => IInv'
  BY TypeStep, ExclusiveStep, ReplyStep, InsideStep, LevelsStep, NewestStep, TokensStep DEF IInv
<1>. QED BY <1>1, LockSimulated, CrashKeepsLock DEF allVars

\* No two replicas migrate while the sessions of both live.
LEMMA OneMigrator ==
  ASSUME MInv, NEW r \in Callers, NEW s \in Callers, r # s,
         phase[r] = "migrating", phase[s] = "migrating", alive[r]
  PROVE  ~alive[s]
<1>1. pc[r] = "holding" /\ pc[s] = "holding"
  BY DEF MInv, MigratesUnderLock
<1>2. \A c \in Callers : pc[c] = "holding" /\ alive[c] => lockCount[c] # 0
  BY DEF MInv, IInv, TypeOK, LevelsAccounted, Claimed
<1>. QED BY <1>1, <1>2 DEF MInv, IInv, ServerExclusive

\* The lock's own steps touch nothing of the migrations, do not move a caller
\* that holds the guard, and revive no session.
LEMMA LockQuiet ==
  ASSUME MInv, NEW r \in Callers,
         \/ LockStep(r)
         \/ (ServerStep(r) \/ TryTimesOut(r) \/ SessionDies(r)) /\ UNCHANGED migrationVars
  PROVE  /\ UNCHANGED migrationVars
         /\ \A c \in Callers : pc[c] = "holding" => pc'[c] = "holding"
         /\ \A c \in Callers : alive'[c] => alive[c]
<1>. USE DEF MInv, IInv, TypeOK, Goto, clientVars, instanceVars, serverVars
<1>1. CASE LockStep(r)
  <2>1. CASE Validate(r)
    BY <1>1, <2>1 DEF LockStep, Validate, GiveUp
  <2>2. CASE SendTry(r) \/ TrySucceeds(r) \/ Grant(r) \/ ReleaseFails(r) \/ ReleaseDone(r)
    BY <1>1, <2>2 DEF LockStep, SendTry, TrySucceeds, Grant, ReleaseFails, ReleaseDone
  <2>3. CASE TryRefused(r) \/ TryFails(r)
    BY <1>1, <2>3 DEF LockStep, TryRefused, TryFails, Retry, GiveUp
  <2>. QED BY <1>1, <2>1, <2>2, <2>3 DEF LockStep
<1>2. CASE ServerStep(r) /\ UNCHANGED migrationVars
  BY <1>2 DEF ServerStep, ServerTryUnread, ServerTry, ServerUnlock
<1>3. CASE TryTimesOut(r) /\ UNCHANGED migrationVars
  BY <1>3 DEF TryTimesOut, Retry, GiveUp
<1>4. CASE SessionDies(r) /\ UNCHANGED migrationVars
  BY <1>4 DEF SessionDies
<1>. QED BY <1>1, <1>2, <1>3, <1>4

\* Every step keeps what the migrations rely on.
LEMMA MigrationStep ==
  ASSUME MInv, [MNext]_allVars
  PROVE  /\ MTypeOK' /\ MigratesUnderLock' /\ (Len(applied) <= Migrations)'
         /\ AppliedOnceInOrder' /\ OkMeansMigrated'
<1>. DEFINE Goal ==
       /\ MTypeOK' /\ MigratesUnderLock' /\ (Len(applied) <= Migrations)'
       /\ AppliedOnceInOrder' /\ OkMeansMigrated'
<1>. USE MigrationsAssumption DEF MTypeOK, MigratesUnderLock, AppliedOnceInOrder, OkMeansMigrated
<1>1. CASE UNCHANGED allVars
  BY <1>1 DEF allVars, vars, migrationVars, clientVars, serverVars, MInv
<1>2. ASSUME NEW r \in Callers, StartLocking(r) PROVE Goal
  BY <1>2 DEF StartLocking, Acquire, Enter, Goto, serverVars, MInv, IInv, TypeOK, Phases
<1>3. ASSUME NEW r \in Callers, LockRefused(r) \/ Serve(r) PROVE Goal
  BY <1>3 DEF LockRefused, Serve, Enter, Return, vars, clientVars, serverVars, MInv, Phases
<1>4. ASSUME NEW r \in Callers, ListApplied(r) PROVE Goal
  <2>1. UNCHANGED <<pc, alive, applied>> /\ pc[r] = "holding" /\ Len(applied) \in Nat
    BY <1>4 DEF ListApplied, vars, clientVars, serverVars, MInv
  <2>2. CASE alive[r]
    <3>1. /\ phase' = [phase EXCEPT ![r] = "migrating"]
          /\ next' = [next EXCEPT ![r] = Len(applied) + 1] /\ UNCHANGED <<result, crashes>>
      BY <1>4, <2>2 DEF ListApplied, Enter
    <3>2. MTypeOK'
      BY <2>1, <3>1 DEF MInv, Phases
    <3>3. MigratesUnderLock' /\ AppliedOnceInOrder'
      BY <2>1, <3>1 DEF MInv
    <3>. QED BY <2>1, <3>1, <3>2, <3>3 DEF MInv
  <2>3. CASE ~alive[r]
    BY <1>4, <2>1, <2>3 DEF ListApplied, Enter, Return, MInv, Phases
  <2>. QED BY <2>2, <2>3
<1>5. ASSUME NEW r \in Callers, Apply(r) PROVE Goal
  <2>1. /\ phase[r] = "migrating" /\ alive[r] /\ next[r] <= Migrations
        /\ next[r] = Len(applied) + 1
    BY <1>5 DEF Apply, MInv
  <2>2. \A s \in Callers \ {r} : phase[s] = "migrating" => ~alive[s]
    BY <2>1, OneMigrator
  <2>3. /\ applied' \in Seq(Nat) /\ Len(applied') = Len(applied) + 1
        /\ \A i \in 1..Len(applied') : applied'[i] = i
    BY <1>5, <2>1 DEF Apply, MInv
  <2>4. /\ next' = [next EXCEPT ![r] = @ + 1]
        /\ UNCHANGED <<phase, result, crashes, pc, alive>>
    BY <1>5 DEF Apply, vars, clientVars, serverVars
  <2>5. MTypeOK' /\ (Len(applied) <= Migrations)'
    BY <2>1, <2>3, <2>4 DEF MInv
  <2>6. MigratesUnderLock' /\ AppliedOnceInOrder'
    BY <2>1, <2>2, <2>3, <2>4 DEF MInv
  <2>7. OkMeansMigrated'
    BY <2>1, <2>4 DEF MInv
  <2>. QED BY <2>5, <2>6, <2>7
<1>6. ASSUME NEW r \in Callers, ApplyFails(r) PROVE Goal
  BY <1>6 DEF ApplyFails, Enter, Return, vars, clientVars, serverVars, MInv, Phases
<1>7. ASSUME NEW r \in Callers, AllApplied(r) PROVE Goal
  <2>1. Len(applied) = Migrations
    BY <1>7 DEF AllApplied, MInv
  <2>. QED BY <1>7, <2>1 DEF AllApplied, Enter, Return, vars, clientVars, serverVars, MInv, Phases
<1>8. ASSUME NEW r \in Callers, StartRelease(r) PROVE Goal
  BY <1>8 DEF StartRelease, Release, migrationVars, Goto, instanceVars, serverVars, MInv, IInv, TypeOK
<1>9. ASSUME NEW r \in Callers,
             \/ LockStep(r)
             \/ (ServerStep(r) \/ TryTimesOut(r) \/ SessionDies(r)) /\ UNCHANGED migrationVars
      PROVE  Goal
  BY <1>9, LockQuiet DEF MInv, migrationVars
<1>10. ASSUME NEW r \in Callers, Crash(r) PROVE Goal
  BY <1>10 DEF Crash, Enter, Return, Goto, MInv, IInv, TypeOK, Phases
<1>. QED
  BY <1>1, <1>2, <1>3, <1>4, <1>5, <1>6, <1>7, <1>8, <1>9, <1>10
     DEF MNext, ReplicaStep, Environment

\* The lock's invariant and the migrations' hold together, restarts included.
THEOREM MigrationInvariant == MSpec => []MInv
<1>1. MInv /\ [MNext]_allVars => MInv'
  BY LockKept, MigrationStep DEF MInv
<1>. QED BY InitMInv, <1>1, PTL DEF MSpec

\* The variables keep their types, restarts included.
THEOREM MigrationTypes == MSpec => [](TypeOK /\ MTypeOK)
<1>1. MInv => TypeOK /\ MTypeOK
  BY DEF MInv, IInv
<1>. QED BY MigrationInvariant, <1>1, PTL

\* However replicas start, lose sessions and restart, every migration is
\* applied once, after the one it builds on, and a live migrator's list is true.
THEOREM MigrationsInOrder == MSpec => []AppliedOnceInOrder
<1>1. MInv => AppliedOnceInOrder
  BY DEF MInv
<1>. QED BY MigrationInvariant, <1>1, PTL

\* Ok from run_migrations means that the schema is complete.
THEOREM OkSafe == MSpec => []OkMeansMigrated
<1>1. MInv => OkMeansMigrated
  BY DEF MInv
<1>. QED BY MigrationInvariant, <1>1, PTL

\* Restarts included, no two replicas with live sessions hold the lock.
THEOREM ExclusionAcrossRestarts == MSpec => []OneLiveHolder
<1>1. MInv => OneLiveHolder
  <2>1. IInv => \A c \in Callers : pc[c] \in {"granted", "holding"} /\ alive[c] => lockCount[c] # 0
    BY DEF IInv, TypeOK, LevelsAccounted, Claimed
  <2>. QED BY <2>1 DEF MInv, IInv, ServerExclusive, OneLiveHolder
<1>. QED BY MigrationInvariant, <1>1, PTL
=============================================================================
