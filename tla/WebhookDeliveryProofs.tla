------------------------ MODULE WebhookDeliveryProofs ------------------------
(***************************************************************************)
(* Proofs about WebhookDelivery, for any number of events, any limit and   *)
(* window, and any faults: the bursts the shared rate limit lets through,  *)
(* the reasons of a deferral, and that every delivery has the fates of     *)
(* DeliveryFates.                                                          *)
(***************************************************************************)
EXTENDS WebhookDelivery, FiniteSetTheorems, TLAPS

\* Stages before the rate limit has counted a delivery.
Fresh == {"waiting", "suppression", "admission"}

\* A delivery goes through its stages once: what is recorded of a later stage
\* is not there yet.
Progress ==
  /\ next <= sent + 1
  /\ \A e \in Events :
       /\ e >= next => task[e] = "waiting"
       /\ task[e] \in Fresh => checkedAt[e] = Never /\ verdict[e] = "none"
       /\ task[e] \in Fresh \cup {"defer"} => received[e] = 0
       /\ task[e] = "post" => received[e] < attempt[e]
       /\ task[e] \in Fresh \cup {"post", "failure"} => failedAt[e] = Never
       /\ verdict[e] # "none" => checkedAt[e] # Never

\* The row and the calls it has counted.
InRow == {e \in Events : checkedAt[e] >= started}

RowCounts ==
  /\ \A e \in Events : checkedAt[e] <= now
  /\ started = Never => \A e \in Events : checkedAt[e] = Never
  /\ started # Never =>
       /\ started <= now
       /\ \A e \in Events : checkedAt[e] <= started + Window
       /\ \E d \in Events : checkedAt[d] = started
       /\ count = Cardinality(InRow)

\* Of the calls counted in the row at most Limit passed, and one fewer but for
\* the first; at most that many in the length of a window before it.
PassedInRow == {e \in Passed : checkedAt[e] >= started}
PassedLater == {e \in Passed : checkedAt[e] > started}
PassedBefore == {e \in Passed : checkedAt[e] < started /\ checkedAt[e] >= started - Window}

RowLimits ==
  /\ Cardinality(PassedInRow) <= Limit
  /\ Cardinality(PassedLater) <= Limit - 1
  /\ Cardinality(PassedBefore) <= Limit - 1

\* A backoff was begun by a failure, no longer than MaxBackoff ago when it ends.
BackoffCaused ==
  /\ \A e \in Events : failedAt[e] <= now
  /\ backoff > 0 => \E d \in Events : failedAt[d] # Never /\ backoff <= failedAt[d] + MaxBackoff

IInv ==
  /\ TypeOK /\ Progress /\ RowCounts /\ RowLimits /\ BackoffCaused
  /\ BurstBounded /\ DeferredForAReason

-----------------------------------------------------------------------------
(* Finite sets of events *)

\* Sets of events are finite, so they can be counted.
LEMMA EventSets ==
  /\ IsFiniteSet(Events)
  /\ \A S \in SUBSET Events : IsFiniteSet(S) /\ Cardinality(S) \in Nat
<1>1. IsFiniteSet(Events)
  BY WebhookAssumption, FS_Interval DEF Events
<1>. QED BY <1>1, FS_Subset, FS_CardinalityType

\* Fewer events, a smaller count.
LEMMA Fewer ==
  ASSUME NEW T \in SUBSET Events, NEW S \in SUBSET T
  PROVE  Cardinality(S) <= Cardinality(T)
<1>1. IsFiniteSet(T) /\ S \in SUBSET Events
  BY EventSets
<1>. QED BY <1>1, FS_Subset

\* Two sets together have at most the sum of their counts.
LEMMA AtMostBoth ==
  ASSUME NEW S \in SUBSET Events, NEW T \in SUBSET Events
  PROVE  Cardinality(S \cup T) <= Cardinality(S) + Cardinality(T)
<1>1. IsFiniteSet(S) /\ IsFiniteSet(T) /\ S \cap T \in SUBSET Events
  BY EventSets
<1>2. Cardinality(S \cup T) = Cardinality(S) + Cardinality(T) - Cardinality(S \cap T)
  BY <1>1, FS_Union
<1>3. Cardinality(S) \in Nat /\ Cardinality(T) \in Nat /\ Cardinality(S \cap T) \in Nat
  BY <1>1, EventSets
<1>. QED BY <1>2, <1>3

\* An event more, one more in the count.
LEMMA OneMore ==
  ASSUME NEW S \in SUBSET Events, NEW e \in Events \ S
  PROVE  Cardinality(S \cup {e}) = Cardinality(S) + 1
BY EventSets, FS_AddElement

\* An event less, one less in the count.
LEMMA OneFewer ==
  ASSUME NEW S \in SUBSET Events, NEW e \in S
  PROVE  Cardinality(S \ {e}) = Cardinality(S) - 1
BY EventSets, FS_RemoveElement

\* The counts of no event and of one.
LEMMA NoneOrOne ==
  /\ Cardinality({}) = 0
  /\ \A e \in Events : Cardinality({e}) = 1
BY FS_EmptySet, FS_Singleton

-----------------------------------------------------------------------------
(* The row *)

\* The call that counts a delivery leaves the row with its window's count.
LEMMA CountedRow ==
  ASSUME TypeOK, Progress, RowCounts, NEW e \in Events, task[e] = "admission",
         CountCall(e), now' = now
  PROVE  RowCounts' /\ started' \in Nat /\ started' <= now /\ now <= started' + Window
<1>. USE WebhookAssumption DEF Never
<1>1. /\ checkedAt' = [checkedAt EXCEPT ![e] = now] /\ checkedAt[e] = -1
      /\ now \in Nat /\ started \in Int /\ checkedAt \in [Events -> Int]
      /\ (started # -1 => started \in Nat)
  BY DEF TypeOK, Progress, Fresh, CountCall, Times
<1>2. CASE started = -1 \/ Lapsed
  <2>1. started' = now /\ count' = 1
    BY <1>2 DEF CountCall
  <2>2. \A d \in Events \ {e} : checkedAt[d] < now
    BY <1>1, <1>2 DEF RowCounts, Lapsed
  <2>3. InRow' = {e}
    BY <1>1, <2>1, <2>2 DEF InRow
  <2>4. \A d \in Events : checkedAt'[d] <= now
    BY <1>1, <2>2
  <2>5. checkedAt'[e] = started' /\ started' # -1 /\ started' <= now
    BY <1>1, <2>1
  <2>. QED BY <1>1, <2>1, <2>3, <2>4, <2>5, NoneOrOne DEF RowCounts
<1>3. CASE started # -1 /\ ~Lapsed
  <2>1. started' = started /\ count' = count + 1 /\ started \in Nat /\ started <= now
    BY <1>1, <1>3 DEF CountCall, RowCounts
  <2>2. now <= started + Window
    BY <1>1, <1>3 DEF Lapsed
  <2>3. InRow' = InRow \cup {e} /\ e \notin InRow /\ InRow \in SUBSET Events
    BY <1>1, <2>1 DEF InRow
  <2>4. count' = Cardinality(InRow')
    BY <1>3, <2>1, <2>3, OneMore DEF RowCounts
  <2>5. \A d \in Events : checkedAt'[d] <= now /\ checkedAt'[d] <= started' + Window
    BY <1>1, <1>3, <2>1, <2>2 DEF RowCounts
  <2>6. \E d \in Events : checkedAt'[d] = started'
    <3>1. PICK d \in Events : checkedAt[d] = started
      BY <1>3 DEF RowCounts
    <3>2. d # e
      BY <1>1, <2>1, <3>1
    <3>. QED BY <1>1, <2>1, <3>1, <3>2
  <2>. QED BY <1>1, <2>1, <2>2, <2>4, <2>5, <2>6 DEF RowCounts
<1>. QED BY <1>2, <1>3

\* Counting a delivery keeps the limits, in the row and across windows.
LEMMA CountedLimits ==
  ASSUME TypeOK, Progress, RowCounts, RowLimits, NEW e \in Events, task[e] = "admission",
         CountCall(e), now' = now,
         NEW v \in Verdicts, verdict' = [verdict EXCEPT ![e] = v],
         v = "passed" => count' <= Limit
  PROVE  RowLimits'
<1>. USE WebhookAssumption DEF Never
<1>1. /\ checkedAt' = [checkedAt EXCEPT ![e] = now] /\ checkedAt[e] = -1
      /\ now \in Nat /\ started \in Int /\ checkedAt \in [Events -> Int]
      /\ (started # -1 => started \in Nat)
  BY DEF TypeOK, Progress, Fresh, CountCall, Times
<1>2. verdict \in [Events -> Verdicts] /\ verdict[e] = "none"
  BY DEF TypeOK, Progress, Fresh
<1>3. RowCounts' /\ started' \in Nat /\ started' <= now
  BY CountedRow
<1>4. e \notin Passed /\ Passed \in SUBSET Events /\ Passed' \in SUBSET Events
  BY <1>2 DEF Passed
<1>5. /\ Passed' = IF v = "passed" THEN Passed \cup {e} ELSE Passed
  BY <1>2 DEF Passed
<1>6. /\ PassedInRow \in SUBSET Events /\ PassedLater \in SUBSET Events
      /\ PassedBefore \in SUBSET Events /\ InRow' \in SUBSET Events
      /\ PassedInRow' \in SUBSET InRow'
  BY <1>4 DEF PassedInRow, PassedLater, PassedBefore, InRow
<1>7. CASE started = -1 \/ Lapsed
  <2>1. started' = now /\ count' = 1
    BY <1>7 DEF CountCall
  <2>2. \A d \in Events \ {e} : checkedAt[d] < now
    BY <1>1, <1>7 DEF RowCounts, Lapsed
  <2>3. PassedInRow' \in SUBSET {e} /\ PassedLater' = {}
    BY <1>1, <1>4, <2>1, <2>2 DEF PassedInRow, PassedLater
  <2>4. PassedBefore' \in SUBSET PassedLater
    <3>1. CASE started = -1
      <4>1. Passed = {}
        BY <1>2, <3>1 DEF Passed, RowCounts, Progress
      <4>. QED BY <1>1, <1>5, <2>1, <4>1 DEF PassedBefore
    <3>2. CASE Lapsed
      BY <1>1, <1>4, <1>5, <2>1, <3>2 DEF PassedBefore, PassedLater, Lapsed
    <3>. QED BY <1>7, <3>1, <3>2
  <2>5. Cardinality(PassedInRow') <= 1
    BY <2>3, Fewer, NoneOrOne
  <2>6. Cardinality(PassedBefore') <= Limit - 1
    <3>1. Cardinality(PassedBefore') <= Cardinality(PassedLater)
      BY <1>6, <2>4, Fewer
    <3>2. PassedBefore' \in SUBSET Events
      BY <1>6, <2>4
    <3>. QED BY <1>6, <3>1, <3>2, EventSets DEF RowLimits
  <2>7. Cardinality(PassedInRow') \in Nat
    BY <1>6, EventSets
  <2>. QED BY <2>3, <2>5, <2>6, <2>7, NoneOrOne DEF RowLimits
<1>8. CASE started # -1 /\ ~Lapsed
  <2>1. started' = started /\ started \in Nat
    BY <1>1, <1>8 DEF CountCall
  <2>2. Cardinality(InRow') = count' /\ count' \in Nat
    BY <1>3, <2>1, <1>6, EventSets DEF RowCounts
  <2>3. PassedBefore' \in SUBSET PassedBefore
    BY <1>1, <1>3, <1>5, <2>1 DEF PassedBefore
  <2>4. Cardinality(PassedBefore') <= Limit - 1
    <3>1. Cardinality(PassedBefore') <= Cardinality(PassedBefore)
      BY <1>6, <2>3, Fewer
    <3>2. Cardinality(PassedBefore) \in Nat /\ PassedBefore' \in SUBSET Events
      BY <1>6, <2>3, EventSets
    <3>. QED BY <3>1, <3>2, EventSets DEF RowLimits
  <2>5. CASE v = "passed"
    <3>1. Cardinality(PassedInRow') <= Limit
      <4>1. Cardinality(PassedInRow') <= count'
        BY <1>6, <2>2, Fewer
      <4>2. Cardinality(PassedInRow') \in Nat
        BY <1>6, EventSets
      <4>. QED BY <2>2, <2>5, <4>1, <4>2
    <3>2. PICK d \in Events : checkedAt'[d] = started'
      BY <1>3, <2>1 DEF RowCounts
    <3>3. PassedLater' \in SUBSET (InRow' \ {d}) /\ d \in InRow'
      BY <1>1, <1>4, <2>1, <3>2 DEF PassedLater, InRow
    <3>4. Cardinality(InRow' \ {d}) = count' - 1
      BY <1>6, <2>2, <3>3, OneFewer
    <3>5. Cardinality(PassedLater') <= count' - 1
      BY <1>6, <3>3, <3>4, Fewer
    <3>6. PassedLater' \in SUBSET Events
      BY <1>6, <3>3
    <3>7. Cardinality(PassedLater') \in Nat
      BY <3>6, EventSets
    <3>. QED BY <2>2, <2>4, <2>5, <3>1, <3>5, <3>7 DEF RowLimits
  <2>6. CASE v # "passed"
    <3>1. PassedInRow' \in SUBSET PassedInRow /\ PassedLater' \in SUBSET PassedLater
      BY <1>1, <1>4, <1>5, <2>1, <2>6 DEF PassedInRow, PassedLater
    <3>2. /\ Cardinality(PassedInRow') <= Cardinality(PassedInRow)
          /\ Cardinality(PassedLater') <= Cardinality(PassedLater)
      BY <1>6, <3>1, Fewer
    <3>3. PassedInRow' \in SUBSET Events /\ PassedLater' \in SUBSET Events
      BY <1>6, <3>1
    <3>4. /\ Cardinality(PassedInRow) \in Nat /\ Cardinality(PassedInRow') \in Nat
          /\ Cardinality(PassedLater) \in Nat /\ Cardinality(PassedLater') \in Nat
      BY <1>6, <3>3, EventSets
    <3>. QED BY <2>4, <3>2, <3>4 DEF RowLimits
  <2>. QED BY <2>5, <2>6
<1>. QED BY <1>7, <1>8

\* The passes of a stretch that the new call falls into are those of the row
\* and those of a window's length before it.
LEMMA CountedBurst ==
  ASSUME TypeOK, Progress, RowCounts, RowLimits, BurstBounded,
         NEW e \in Events, task[e] = "admission", CountCall(e), now' = now,
         NEW v \in Verdicts, verdict' = [verdict EXCEPT ![e] = v],
         v = "passed" => count' <= Limit
  PROVE  BurstBounded'
<1>. USE WebhookAssumption DEF Never
<1>1. /\ checkedAt' = [checkedAt EXCEPT ![e] = now] /\ checkedAt[e] = -1
      /\ now \in Nat /\ checkedAt \in [Events -> Int]
      /\ verdict \in [Events -> Verdicts]
  BY DEF TypeOK, Progress, Fresh, CountCall, Times
<1>2. RowCounts' /\ started' \in Nat /\ started' <= now /\ now <= started' + Window
  BY CountedRow
<1>3. RowLimits'
  BY CountedLimits
<1>. SUFFICES ASSUME NEW t \in 0..MaxTime
              PROVE  Cardinality({x \in Passed' : checkedAt'[x] \in t..(t + Window)}) <= 2 * Limit - 1
  BY DEF BurstBounded
<1>. DEFINE B  == {x \in Passed : checkedAt[x] \in t..(t + Window)}
            B1 == {x \in Passed' : checkedAt'[x] \in t..(t + Window)}
<1>4. B \in SUBSET Events /\ B1 \in SUBSET Events
  BY DEF Passed
<1>5. CASE now \notin t..(t + Window)
  <2>1. B1 \in SUBSET B
    BY <1>1, <1>5 DEF Passed
  <2>2. Cardinality(B1) <= Cardinality(B)
    BY <1>4, <2>1, Fewer
  <2>3. Cardinality(B) <= 2 * Limit - 1
    BY DEF BurstBounded
  <2>4. Cardinality(B) \in Nat /\ Cardinality(B1) \in Nat
    BY <1>4, EventSets
  <2>. HIDE DEF B, B1
  <2>5. Cardinality(B1) <= 2 * Limit - 1
    BY <2>2, <2>3, <2>4
  <2>. QED BY <2>5 DEF B1
<1>6. CASE now \in t..(t + Window)
  <2>1. PassedInRow' \in SUBSET Events /\ PassedBefore' \in SUBSET Events
    BY DEF PassedInRow, PassedBefore, Passed
  <2>2. B1 \in SUBSET (PassedInRow' \cup PassedBefore')
    <3>. SUFFICES ASSUME NEW x \in B1 PROVE x \in PassedInRow' \cup PassedBefore'
      OBVIOUS
    <3>1. checkedAt'[x] \in Int /\ x \in Passed' /\ checkedAt'[x] >= t
      BY <1>1 DEF Passed
    <3>2. checkedAt'[x] >= started' - Window
      BY <1>2, <1>6, <3>1
    <3>. HIDE DEF B1
    <3>. QED BY <1>2, <3>1, <3>2 DEF PassedInRow, PassedBefore
  <2>. HIDE DEF B, B1
  <2>3. Cardinality(B1) <= Cardinality(PassedInRow' \cup PassedBefore')
    BY <2>1, <2>2, Fewer
  <2>4. Cardinality(PassedInRow' \cup PassedBefore') <= Cardinality(PassedInRow') + Cardinality(PassedBefore')
    BY <2>1, AtMostBoth
  <2>5. /\ Cardinality(B1) \in Nat /\ Cardinality(PassedInRow' \cup PassedBefore') \in Nat
        /\ Cardinality(PassedInRow') \in Nat /\ Cardinality(PassedBefore') \in Nat
    BY <1>4, <2>1, EventSets
  <2>6. Cardinality(B1) <= 2 * Limit - 1
    BY <1>3, <2>3, <2>4, <2>5 DEF RowLimits
  <2>. QED BY <2>6 DEF B1
<1>. QED BY <1>5, <1>6

-----------------------------------------------------------------------------
(* The reasons of a deferral *)

\* A reason stays a reason when more calls are counted.
LEMMA ReasonsKept ==
  ASSUME TypeOK, Progress, DeferredForAReason,
         NEW F \in SUBSET Events,
         \A d \in Events : checkedAt[d] # Never => checkedAt'[d] = checkedAt[d],
         \A d \in Events : failedAt[d] # Never => failedAt'[d] = failedAt[d],
         \A d \in F : verdict'[d] = verdict[d] \/ verdict'[d] \in {"passed", "unread"},
         NEW d \in F
  PROVE  /\ verdict'[d] = "limit" => Cardinality(CountedBefore(d)') > Limit
         /\ verdict'[d] = "backoff" =>
              \E f \in Events : /\ failedAt'[f] # Never /\ failedAt'[f] <= checkedAt'[d]
                                /\ checkedAt'[d] < failedAt'[f] + MaxBackoff
<1>1. CASE verdict'[d] = "limit"
  <2>1. verdict[d] = "limit" /\ checkedAt[d] # Never
    BY <1>1 DEF Progress
  <2>2. CountedBefore(d) \in SUBSET CountedBefore(d)' /\ CountedBefore(d)' \in SUBSET Events
    BY <2>1 DEF CountedBefore
  <2>3. Cardinality(CountedBefore(d)) <= Cardinality(CountedBefore(d)')
    BY <2>2, Fewer
  <2>4. Cardinality(CountedBefore(d)) \in Nat /\ Cardinality(CountedBefore(d)') \in Nat
    BY <2>2, EventSets
  <2>5. Cardinality(CountedBefore(d)) > Limit
    BY <2>1 DEF DeferredForAReason
  <2>. QED BY <1>1, <2>3, <2>4, <2>5, WebhookAssumption
<1>2. CASE verdict'[d] = "backoff"
  <2>1. verdict[d] = "backoff" /\ checkedAt[d] # Never
    BY <1>2 DEF Progress
  <2>. QED BY <1>2, <2>1 DEF DeferredForAReason
<1>. QED BY <1>1, <1>2

\* A delivery the endpoint check defers has a reason.
LEMMA CheckedReasons ==
  ASSUME TypeOK, Progress, RowCounts, BackoffCaused, DeferredForAReason,
         NEW e \in Events, CheckEndpoint(e)
  PROVE  DeferredForAReason'
<1>. USE WebhookAssumption DEF Never
<1>1. /\ task[e] = "admission" /\ CountCall(e) /\ now' = now /\ failedAt' = failedAt
      /\ backoff' = backoff /\ verdict' = [verdict EXCEPT ![e] = Answer]
  BY DEF CheckEndpoint
<1>2. /\ checkedAt' = [checkedAt EXCEPT ![e] = now] /\ checkedAt[e] = -1
      /\ now \in Nat /\ checkedAt \in [Events -> Int] /\ failedAt \in [Events -> Int]
      /\ verdict \in [Events -> Verdicts] /\ backoff \in Nat
  BY <1>1 DEF TypeOK, Progress, Fresh, CountCall, Times
<1>3. \A d \in Events \ {e} :
        /\ verdict'[d] = "limit" => Cardinality(CountedBefore(d)') > Limit
        /\ verdict'[d] = "backoff" =>
             \E f \in Events : /\ failedAt'[f] # Never /\ failedAt'[f] <= checkedAt'[d]
                               /\ checkedAt'[d] < failedAt'[f] + MaxBackoff
  <2>1. \A d \in Events \ {e} : verdict'[d] = verdict[d]
    BY <1>1, <1>2
  <2>2. \A d \in Events : checkedAt[d] # Never => checkedAt'[d] = checkedAt[d]
    BY <1>2
  <2>. QED BY <1>1, <2>1, <2>2, ReasonsKept
<1>4. verdict'[e] = "limit" => Cardinality(CountedBefore(e)') > Limit
  <2>. SUFFICES ASSUME verdict'[e] = "limit" PROVE Cardinality(CountedBefore(e)') > Limit
    OBVIOUS
  <2>1. count' > Limit
    BY <1>1, <1>2 DEF Answer
  <2>2. RowCounts' /\ started' \in Nat /\ now <= started' + Window
    BY <1>1, CountedRow
  <2>3. count' = Cardinality(InRow')
    BY <2>2 DEF RowCounts
  <2>4. InRow' \in SUBSET CountedBefore(e)' /\ CountedBefore(e)' \in SUBSET Events
    BY <1>2, <2>2, <1>1 DEF InRow, CountedBefore, RowCounts
  <2>5. Cardinality(InRow') <= Cardinality(CountedBefore(e)')
    BY <2>4, Fewer
  <2>6. Cardinality(InRow') \in Nat /\ Cardinality(CountedBefore(e)') \in Nat
    BY <2>4, EventSets
  <2>. QED BY <2>1, <2>3, <2>5, <2>6
<1>5. verdict'[e] = "backoff" =>
        \E f \in Events : /\ failedAt'[f] # Never /\ failedAt'[f] <= checkedAt'[e]
                          /\ checkedAt'[e] < failedAt'[f] + MaxBackoff
  <2>. SUFFICES ASSUME verdict'[e] = "backoff"
                PROVE  \E f \in Events : /\ failedAt'[f] # Never /\ failedAt'[f] <= checkedAt'[e]
                                         /\ checkedAt'[e] < failedAt'[f] + MaxBackoff
    OBVIOUS
  <2>1. backoff > now
    BY <1>1, <1>2 DEF Answer
  <2>2. PICK f \in Events : failedAt[f] # Never /\ backoff <= failedAt[f] + MaxBackoff
    BY <1>2, <2>1 DEF BackoffCaused
  <2>3. failedAt[f] <= now
    BY DEF BackoffCaused
  <2>. QED BY <1>1, <1>2, <2>1, <2>2, <2>3
<1>. QED BY <1>3, <1>4, <1>5 DEF DeferredForAReason

-----------------------------------------------------------------------------
(* The steps *)

\* A back-off is never longer than MaxBackoff.
LEMMA BackoffRange == \A n \in Nat \ {0} : BackoffAfter(n) \in 0..MaxBackoff
<1>1. \A n \in 1..10 : Doublings[n] \in Nat
  BY DEF Doublings
<1>. SUFFICES ASSUME NEW n \in Nat \ {0} PROVE BackoffAfter(n) \in 0..MaxBackoff
  OBVIOUS
<1>. DEFINE b == Doublings[IF n < 10 THEN n ELSE 10]
<1>2. (IF n < 10 THEN n ELSE 10) \in 1..10
  OBVIOUS
<1>3. b \in Nat
  BY <1>1, <1>2
<1>4. BackoffAfter(n) = IF b < MaxBackoff THEN b ELSE MaxBackoff
  BY DEF BackoffAfter
<1>. HIDE DEF b
<1>. QED BY <1>3, <1>4, WebhookAssumption

\* The initial state satisfies the invariant.
LEMMA InitInv == Init => IInv
<1>. SUFFICES ASSUME Init PROVE IInv
  OBVIOUS
<1>. USE WebhookAssumption DEF Init, Never
<1>1. TypeOK
  <2>1. -1 \in Times /\ 1 \in 1..MaxAttempts /\ 1 \in 1..(MaxEvents + 1)
    BY DEF Times
  <2>2. task \in [Events -> Stages] /\ attempt \in [Events -> 1..MaxAttempts]
    BY <2>1 DEF Stages
  <2>3. verdict \in [Events -> Verdicts] /\ checkedAt \in [Events -> Times]
        /\ failedAt \in [Events -> Times] /\ received \in [Events -> Nat]
    BY <2>1 DEF Verdicts
  <2>4. sent \in 0..MaxEvents /\ next \in 1..(MaxEvents + 1) /\ now \in 0..MaxTime
        /\ faults \in 0..MaxFaults
    BY <2>1
  <2>. QED BY <2>1, <2>2, <2>3, <2>4 DEF TypeOK
<1>2. Progress /\ RowCounts /\ BackoffCaused
  BY DEF Progress, RowCounts, BackoffCaused, Fresh, Events
<1>3. Passed = {}
  BY DEF Passed
<1>4. RowLimits
  <2>1. PassedInRow = {} /\ PassedLater = {} /\ PassedBefore = {}
    BY <1>3 DEF PassedInRow, PassedLater, PassedBefore
  <2>. QED BY <2>1, NoneOrOne DEF RowLimits
<1>5. BurstBounded
  <2>1. \A t \in 0..MaxTime : {e \in Passed : checkedAt[e] \in t..(t + Window)} = {}
    BY <1>3
  <2>. QED BY <2>1, NoneOrOne DEF BurstBounded
<1>6. DeferredForAReason
  BY DEF DeferredForAReason
<1>. QED BY <1>1, <1>2, <1>4, <1>5, <1>6 DEF IInv

\* Every step keeps the variables in their types.
LEMMA TypeStep == TypeOK /\ [Next]_vars => TypeOK'
<1>. SUFFICES ASSUME TypeOK, [Next]_vars PROVE TypeOK'
  OBVIOUS
<1>. USE WebhookAssumption DEF TypeOK, channelVars, rowVars, historyVars, Goto, Fault, Times, Never
<1>1. CASE Send
  BY <1>1 DEF Send
<1>2. CASE Tick
  BY <1>2 DEF Tick
<1>3. CASE Toggle
  BY <1>3 DEF Toggle
<1>4. CASE Receive
  <2>1. next \in Events /\ next + 1 \in 1..(MaxEvents + 1)
    BY <1>4 DEF Receive, Events
  <2>. QED BY <1>4, <2>1 DEF Receive, Stages, Running, Ended
<1>5. CASE Lagged
  BY <1>5 DEF Lagged, Stages, Ended
<1>6. CASE Crash
  BY <1>6 DEF Crash, Stages, Ended, Told
<1>7. ASSUME NEW e \in Events, Deliver(e) PROVE TypeOK'
  <2>1. CASE CheckSuppression(e)
    BY <2>1 DEF CheckSuppression, Stages, Running, Ended
  <2>2. CASE CheckEndpoint(e)
    BY <2>2 DEF CheckEndpoint, CountCall, Answer, Verdicts, Stages, Running
  <2>3. CASE CheckEndpointFails(e)
    BY <2>3 DEF CheckEndpointFails, CountCall, Verdicts, Stages, Running
  <2>4. CASE Defer(e)
    BY <2>4 DEF Defer, Stages, Ended
  <2>5. CASE PostSucceeds(e)
    BY <2>5 DEF PostSucceeds, Stages, Told
  <2>6. CASE PostFails(e)
    BY <2>6 DEF PostFails, Stages, Running
  <2>7. CASE RecordSuccess(e)
    BY <2>7 DEF RecordSuccess, Stages, Told
  <2>8. CASE Acknowledge(e)
    BY <2>8 DEF Acknowledge, Stages, Told
  <2>9. CASE RecordFailure(e)
    <3>1. BackoffAfter(failures + 1) \in Nat
      BY BackoffRange
    <3>. QED BY <2>9, <3>1 DEF RecordFailure, Stages, Running
  <2>10. CASE DeadLetter(e)
    BY <2>10 DEF DeadLetter, Stages, Ended
  <2>. QED BY <1>7, <2>1, <2>2, <2>3, <2>4, <2>5, <2>6, <2>7, <2>8, <2>9, <2>10 DEF Deliver
<1>8. CASE UNCHANGED vars
  BY <1>8 DEF vars
<1>. QED BY <1>1, <1>2, <1>3, <1>4, <1>5, <1>6, <1>7, <1>8 DEF Next

\* Every step keeps each delivery on its way through the stages.
LEMMA ProgressStep == TypeOK /\ Progress /\ [Next]_vars => Progress'
<1>. SUFFICES ASSUME TypeOK, Progress, [Next]_vars PROVE Progress'
  OBVIOUS
<1>. USE WebhookAssumption
     DEF TypeOK, Progress, Fresh, channelVars, rowVars, historyVars, Goto, Fault, Never, Times, Events
<1>1. CASE Send
  BY <1>1 DEF Send
<1>2. CASE Tick
  BY <1>2 DEF Tick
<1>3. CASE Toggle
  BY <1>3 DEF Toggle
<1>4. CASE Receive
  BY <1>4 DEF Receive
<1>5. CASE Lagged
  BY <1>5 DEF Lagged
<1>6. CASE Crash
  BY <1>6 DEF Crash, Running
<1>7. ASSUME NEW e \in Events, Deliver(e) PROVE Progress'
  <2>1. CASE CheckSuppression(e)
    BY <2>1 DEF CheckSuppression
  <2>2. CASE CheckEndpoint(e)
    BY <2>2 DEF CheckEndpoint, CountCall, Answer
  <2>3. CASE CheckEndpointFails(e)
    <3>1. CASE CountCall(e) /\ verdict' = [verdict EXCEPT ![e] = "unread"]
      BY <2>3, <3>1 DEF CheckEndpointFails, CountCall
    <3>2. CASE UNCHANGED <<started, count, checkedAt, verdict>>
      BY <2>3, <3>2 DEF CheckEndpointFails
    <3>. QED BY <2>3, <3>1, <3>2 DEF CheckEndpointFails
  <2>4. CASE Defer(e)
    BY <2>4 DEF Defer
  <2>5. CASE PostSucceeds(e)
    BY <2>5 DEF PostSucceeds
  <2>6. CASE PostFails(e)
    <3>1. PICK n \in {0, 1} : received' = [received EXCEPT ![e] = @ + n]
      BY <2>6 DEF PostFails
    <3>2. CASE attempt[e] < MaxAttempts
      <4>1. attempt' = [attempt EXCEPT ![e] = @ + 1] /\ task' = task /\ task[e] = "post"
        BY <2>6, <3>2 DEF PostFails
      <4>2. received[e] \in Nat /\ attempt[e] \in Nat /\ received[e] < attempt[e]
        BY <4>1
      <4>3. received'[e] < attempt'[e] /\ \A d \in Events \ {e} :
              received'[d] = received[d] /\ attempt'[d] = attempt[d]
        BY <3>1, <4>1, <4>2
      <4>. QED BY <2>6, <4>1, <4>3 DEF PostFails
    <3>3. CASE attempt[e] >= MaxAttempts
      BY <2>6, <3>1, <3>3 DEF PostFails
    <3>. QED BY <3>2, <3>3
  <2>7. CASE RecordSuccess(e)
    BY <2>7 DEF RecordSuccess
  <2>8. CASE Acknowledge(e)
    BY <2>8 DEF Acknowledge
  <2>9. CASE RecordFailure(e)
    BY <2>9 DEF RecordFailure
  <2>10. CASE DeadLetter(e)
    BY <2>10 DEF DeadLetter
  <2>. QED BY <1>7, <2>1, <2>2, <2>3, <2>4, <2>5, <2>6, <2>7, <2>8, <2>9, <2>10 DEF Deliver
<1>8. CASE UNCHANGED vars
  BY <1>8 DEF vars
<1>. QED BY <1>1, <1>2, <1>3, <1>4, <1>5, <1>6, <1>7, <1>8 DEF Next

\* A step that leaves the row and what it has counted alone.
LEMMA RowKept ==
  ASSUME RowCounts, RowLimits, BurstBounded, now \in Nat,
         \A e \in Events : checkedAt[e] \in Int, started \in Int,
         now' \in Nat, now' >= now, UNCHANGED <<started, count, checkedAt, verdict>>
  PROVE  RowCounts' /\ RowLimits' /\ BurstBounded'
<1>1. RowCounts'
  BY DEF RowCounts, InRow
<1>2. RowLimits'
  BY DEF RowLimits, PassedInRow, PassedLater, PassedBefore, Passed
<1>3. BurstBounded'
  BY DEF BurstBounded, Passed
<1>. QED BY <1>1, <1>2, <1>3

\* Every step keeps the row, what passes it and the bursts within bounds.
LEMMA RowStep == IInv /\ [Next]_vars => RowCounts' /\ RowLimits' /\ BurstBounded'
<1>. SUFFICES ASSUME IInv, [Next]_vars PROVE RowCounts' /\ RowLimits' /\ BurstBounded'
  OBVIOUS
<1>. USE DEF channelVars, rowVars, historyVars
<1>1. /\ now \in Nat /\ started \in Int /\ \A e \in Events : checkedAt[e] \in Int
      /\ TypeOK /\ Progress /\ RowCounts /\ RowLimits /\ BurstBounded
  BY WebhookAssumption DEF IInv, TypeOK, Times, Never
<1>2. ASSUME NEW e \in Events, CheckEndpoint(e) PROVE RowCounts' /\ RowLimits' /\ BurstBounded'
  <2>1. /\ task[e] = "admission" /\ CountCall(e) /\ now' = now
        /\ verdict' = [verdict EXCEPT ![e] = Answer]
    BY <1>2 DEF CheckEndpoint
  <2>2. Answer \in Verdicts /\ (Answer = "passed" => count' <= Limit)
    <3>1. count \in Nat /\ count' \in Nat /\ Limit \in Nat
      BY <1>1, <2>1, WebhookAssumption DEF CountCall, TypeOK
    <3>. QED BY <3>1 DEF Answer, Verdicts
  <2>. HIDE DEF rowVars
  <2>3. RowCounts'
    BY <1>1, <2>1, CountedRow
  <2>4. RowLimits'
    BY <1>1, <2>1, <2>2, CountedLimits
  <2>5. BurstBounded'
    BY <1>1, <2>1, <2>2, CountedBurst
  <2>. QED BY <2>3, <2>4, <2>5
<1>3. ASSUME NEW e \in Events, CheckEndpointFails(e)
      PROVE  RowCounts' /\ RowLimits' /\ BurstBounded'
  <2>1. CASE CountCall(e) /\ verdict' = [verdict EXCEPT ![e] = "unread"]
    <3>1. task[e] = "admission" /\ now' = now /\ "unread" \in Verdicts
      BY <1>3 DEF CheckEndpointFails, Verdicts
    <3>2. RowCounts'
      BY <1>1, <2>1, <3>1, CountedRow
    <3>3. RowLimits'
      BY <1>1, <2>1, <3>1, CountedLimits
    <3>4. BurstBounded'
      BY <1>1, <2>1, <3>1, CountedBurst
    <3>. QED BY <3>2, <3>3, <3>4
  <2>2. CASE UNCHANGED <<started, count, checkedAt, verdict>>
    <3>1. now' = now
      BY <1>3 DEF CheckEndpointFails
    <3>. QED BY <1>1, <2>2, <3>1, RowKept
  <2>. QED BY <1>3, <2>1, <2>2 DEF CheckEndpointFails
<1>4. CASE /\ now' \in Nat /\ now' >= now /\ UNCHANGED <<started, count, checkedAt, verdict>>
  BY <1>1, <1>4, RowKept
<1>5. CASE Tick
  BY <1>1, <1>4, <1>5 DEF Tick
<1>6. CASE Send \/ Toggle \/ Receive \/ Lagged \/ Crash
  BY <1>1, <1>4, <1>6 DEF Send, Toggle, Receive, Lagged, Crash
<1>7. ASSUME NEW e \in Events, Deliver(e) PROVE RowCounts' /\ RowLimits' /\ BurstBounded'
  <2>1. CASE CheckSuppression(e) \/ Defer(e) \/ PostSucceeds(e) \/ PostFails(e)
    BY <1>1, <1>4, <2>1 DEF CheckSuppression, Defer, PostSucceeds, PostFails
  <2>2. CASE RecordSuccess(e) \/ Acknowledge(e) \/ RecordFailure(e) \/ DeadLetter(e)
    BY <1>1, <1>4, <2>2 DEF RecordSuccess, Acknowledge, RecordFailure, DeadLetter
  <2>. QED BY <1>2, <1>3, <1>7, <2>1, <2>2 DEF Deliver
<1>8. CASE UNCHANGED vars
  BY <1>1, <1>4, <1>8 DEF vars
<1>. QED BY <1>5, <1>6, <1>7, <1>8 DEF Next

\* Every step keeps a cause behind each back-off.
LEMMA BackoffStep == IInv /\ [Next]_vars => BackoffCaused'
<1>. SUFFICES ASSUME IInv, [Next]_vars PROVE BackoffCaused'
  OBVIOUS
<1>. USE WebhookAssumption DEF channelVars, rowVars, historyVars, Never
<1>1. /\ now \in Nat /\ backoff \in Nat /\ failedAt \in [Events -> Int] /\ failures \in Nat
      /\ TypeOK /\ Progress /\ BackoffCaused
  BY DEF IInv, TypeOK, Times
<1>2. ASSUME NEW e \in Events, RecordFailure(e), backoff' # backoff \/ failedAt' # failedAt
      PROVE  BackoffCaused'
  <2>1. /\ now' = now /\ failedAt' = [failedAt EXCEPT ![e] = now]
        /\ backoff' = now + BackoffAfter(failures + 1)
    BY <1>2 DEF RecordFailure
  <2>2. BackoffAfter(failures + 1) \in 0..MaxBackoff
    BY <1>1, BackoffRange
  <2>3. failedAt'[e] = now /\ backoff' <= failedAt'[e] + MaxBackoff
    BY <1>1, <2>1, <2>2
  <2>. QED BY <1>1, <2>1, <2>3 DEF BackoffCaused
<1>3. CASE now' \in Nat /\ now' >= now /\ failedAt' = failedAt /\ backoff' \in {0, backoff}
  BY <1>1, <1>3 DEF BackoffCaused
<1>4. CASE Tick
  BY <1>1, <1>3, <1>4 DEF Tick
<1>5. CASE Send \/ Toggle \/ Receive \/ Lagged \/ Crash
  BY <1>1, <1>3, <1>5 DEF Send, Toggle, Receive, Lagged, Crash
<1>6. ASSUME NEW e \in Events, Deliver(e) PROVE BackoffCaused'
  <2>1. CASE CheckSuppression(e) \/ CheckEndpoint(e) \/ CheckEndpointFails(e) \/ Defer(e)
    BY <1>1, <1>3, <2>1 DEF CheckSuppression, CheckEndpoint, CheckEndpointFails, Defer
  <2>2. CASE PostSucceeds(e) \/ PostFails(e) \/ RecordSuccess(e) \/ Acknowledge(e) \/ DeadLetter(e)
    BY <1>1, <1>3, <2>2 DEF PostSucceeds, PostFails, RecordSuccess, Acknowledge, DeadLetter
  <2>3. CASE RecordFailure(e)
    BY <1>1, <1>2, <1>3, <2>3 DEF RecordFailure
  <2>. QED BY <1>6, <2>1, <2>2, <2>3 DEF Deliver
<1>7. CASE UNCHANGED vars
  BY <1>1, <1>3, <1>7 DEF vars
<1>. QED BY <1>4, <1>5, <1>6, <1>7 DEF Next

\* Every step keeps a reason behind each deferral.
LEMMA ReasonStep == IInv /\ [Next]_vars => DeferredForAReason'
<1>. SUFFICES ASSUME IInv, [Next]_vars PROVE DeferredForAReason'
  OBVIOUS
<1>. USE DEF channelVars, rowVars, historyVars
<1>1. /\ TypeOK /\ Progress /\ RowCounts /\ BackoffCaused /\ DeferredForAReason
      /\ checkedAt \in [Events -> Times] /\ failedAt \in [Events -> Times]
      /\ verdict \in [Events -> Verdicts]
  BY DEF IInv, TypeOK
<1>2. CASE /\ \A d \in Events : checkedAt[d] # Never => checkedAt'[d] = checkedAt[d]
           /\ \A d \in Events : failedAt[d] # Never => failedAt'[d] = failedAt[d]
           /\ \A d \in Events : verdict'[d] = verdict[d] \/ verdict'[d] = "unread"
  <2>1. \A d \in Events :
          /\ verdict'[d] = "limit" => Cardinality(CountedBefore(d)') > Limit
          /\ verdict'[d] = "backoff" =>
               \E f \in Events : /\ failedAt'[f] # Never /\ failedAt'[f] <= checkedAt'[d]
                                 /\ checkedAt'[d] < failedAt'[f] + MaxBackoff
    BY <1>1, <1>2, ReasonsKept
  <2>. QED BY <2>1 DEF DeferredForAReason
<1>3. CASE UNCHANGED <<checkedAt, verdict, failedAt>>
  BY <1>2, <1>3
<1>4. CASE Send \/ Tick \/ Toggle \/ Receive \/ Lagged \/ Crash
  BY <1>3, <1>4 DEF Send, Tick, Toggle, Receive, Lagged, Crash
<1>5. ASSUME NEW e \in Events, Deliver(e) PROVE DeferredForAReason'
  <2>1. CASE CheckSuppression(e) \/ Defer(e) \/ PostSucceeds(e) \/ PostFails(e)
    BY <1>3, <2>1 DEF CheckSuppression, Defer, PostSucceeds, PostFails
  <2>2. CASE RecordSuccess(e) \/ Acknowledge(e) \/ DeadLetter(e)
    BY <1>3, <2>2 DEF RecordSuccess, Acknowledge, DeadLetter
  <2>3. CASE RecordFailure(e)
    BY <1>1, <1>2, <2>3 DEF RecordFailure, Progress
  <2>4. CASE CheckEndpoint(e)
    BY <1>1, <2>4, CheckedReasons
  <2>5. CASE CheckEndpointFails(e)
    BY <1>1, <1>2, <2>5 DEF CheckEndpointFails, CountCall, Progress, Fresh
  <2>. QED BY <1>5, <2>1, <2>2, <2>3, <2>4, <2>5 DEF Deliver
<1>6. CASE UNCHANGED vars
  BY <1>3, <1>6 DEF vars
<1>. QED BY <1>4, <1>5, <1>6 DEF Next

\* The invariant is inductive.
LEMMA Inductive == IInv /\ [Next]_vars => IInv'
BY TypeStep, ProgressStep, RowStep, BackoffStep, ReasonStep DEF IInv

\* The inductive invariant holds in every reachable state.
LEMMA Invariant == Spec => []IInv
BY InitInv, Inductive, PTL DEF Spec

-----------------------------------------------------------------------------
(* Theorems *)

\* Every variable keeps its type; no delivery makes more attempts than the
\* policy allows.
THEOREM TypeCorrect == Spec => []TypeOK
<1>1. IInv => TypeOK
  BY DEF IInv
<1>. QED BY <1>1, Invariant, PTL

\* However many deliveries share the row, whatever statements fail and however
\* often the process dies: in no stretch of a window's length do twice Limit
\* calls get past the rate limit.
THEOREM BurstSafe == Spec => []BurstBounded
<1>1. IInv => BurstBounded
  BY DEF IInv
<1>. QED BY <1>1, Invariant, PTL

\* A delivery is put off only in a window in which more than Limit calls were
\* counted, or less than MaxBackoff after a failure.
THEOREM ReasonSafe == Spec => []DeferredForAReason
<1>1. IInv => DeferredForAReason
  BY DEF IInv
<1>. QED BY <1>1, Invariant, PTL

\* A step that changes the fate of no delivery, or of one.
LEMMA SettleStep ==
  ASSUME TypeOK, Progress, TypeOK', [Next]_vars
  PROVE  [Fates!Settle]_<<[e \in Events |-> Fate(e)], received>>
<1>. DEFINE fate == [e \in Events |-> Fate(e)]
<1>. USE WebhookAssumption DEF TypeOK, Progress, Fresh, Goto, channelVars, rowVars, historyVars
<1>1. ASSUME /\ \A e \in Events : received'[e] # received[e] =>
                  /\ Fate(e) = "pending" /\ received'[e] = received[e] + 1
                  /\ received'[e] <= MaxAttempts
             /\ \A e \in Events : Fate(e)' # Fate(e) =>
                  /\ Fate(e) = "pending"
                  /\ Fate(e)' = "delivered" => received'[e] > 0
                  /\ Fate(e)' \in {"filtered", "missed", "suppressed", "deferred"} => received'[e] = 0
      PROVE  [Fates!Settle]_<<fate, received>>
  <2>1. \A e \in Events : Fate(e)' \in Fates!Fates
    BY DEF Fate, Fates!Fates, Fates!Unsent, Fates!MayHave, Stages, Ended, Told, Running
  <2>. QED BY <1>1, <2>1 DEF Fates!Settle, Fates!Hears, Fates!Fits, Fates!Unsent
<1>2. CASE UNCHANGED <<task, received>>
  BY <1>2 DEF Fate
<1>3. CASE Send \/ Tick \/ Toggle
  BY <1>2, <1>3 DEF Send, Tick, Toggle
<1>4. CASE Receive
  <2>1. next \in Events
    BY <1>4 DEF Receive, Events
  <2>. QED BY <1>1, <1>4, <2>1 DEF Receive, Fate, Ended, Told
<1>5. CASE Lagged
  BY <1>1, <1>5 DEF Lagged, Fate, Ended, Told, Events
<1>6. CASE Crash
  BY <1>1, <1>6 DEF Crash, Fate, Ended, Told, Running
<1>7. ASSUME NEW e \in Events, Deliver(e) PROVE [Fates!Settle]_<<fate, received>>
  <2>1. CASE CheckSuppression(e)
    BY <1>1, <2>1 DEF CheckSuppression, Fate, Ended, Told
  <2>2. CASE CheckEndpoint(e)
    BY <1>1, <2>2 DEF CheckEndpoint, Fate, Ended, Told
  <2>3. CASE CheckEndpointFails(e)
    BY <1>1, <2>3 DEF CheckEndpointFails, Fate, Ended, Told
  <2>4. CASE Defer(e)
    BY <1>1, <2>4 DEF Defer, Fate, Ended, Told
  <2>5. CASE PostSucceeds(e)
    BY <1>1, <2>5 DEF PostSucceeds, Fate, Ended, Told
  <2>6. CASE PostFails(e)
    BY <1>1, <2>6 DEF PostFails, Fate, Ended, Told
  <2>7. CASE RecordSuccess(e)
    BY <1>1, <2>7 DEF RecordSuccess, Fate, Ended, Told
  <2>8. CASE Acknowledge(e)
    BY <1>1, <2>8 DEF Acknowledge, Fate, Ended, Told
  <2>9. CASE RecordFailure(e)
    BY <1>1, <2>9 DEF RecordFailure, Fate, Ended, Told
  <2>10. CASE DeadLetter(e)
    BY <1>1, <2>10 DEF DeadLetter, Fate, Ended, Told
  <2>. QED BY <1>7, <2>1, <2>2, <2>3, <2>4, <2>5, <2>6, <2>7, <2>8, <2>9, <2>10 DEF Deliver
<1>8. CASE UNCHANGED vars
  BY <1>2, <1>8 DEF vars
<1>. QED BY <1>3, <1>4, <1>5, <1>6, <1>7, <1>8 DEF Next

\* Deliveries that run side by side keep the promise of DeliveryFates: one
\* fate for each event, requests only before it, and no more than attempts.
THEOREM Implements == Spec => ImplementsFates
<1>1. Init => Fates!Init
  BY DEF Init, Fates!Init, Fate, Ended, Told
<1>2. IInv /\ IInv' /\ [Next]_vars => [Fates!Settle]_<<[e \in Events |-> Fate(e)], received>>
  BY SettleStep DEF IInv
<1>. QED BY <1>1, <1>2, Invariant, PTL DEF Spec, ImplementsFates, Fates!Spec
=============================================================================
