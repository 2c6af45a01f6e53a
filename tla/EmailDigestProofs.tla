--------------------------- MODULE EmailDigestProofs ---------------------------
(***************************************************************************)
(* Proofs about EmailDigest, for days of any length, any schedule, quiet   *)
(* hours, events and number of restarts: one digest per period besides     *)
(* those of tasks that end in it, and no event mailed twice or lost        *)
(* without a cause.                                                        *)
(***************************************************************************)
EXTENDS EmailDigest, TLAPS

\* Only a critical event is in hand, while it is sent.
Control ==
  /\ hand # 0 <=> pc = "critical"
  /\ next <= sent + 1 /\ hand < next

\* What a schedule looks at remembers that a digest was begun besides those of
\* ended tasks: last_sent for the daily and the hourly one, the first tick of the
\* hour for cron.
Remembered ==
  digests > ends =>
    /\ schedule.kind = "daily" => hour >= schedule.hour /\ age <= hour - schedule.hour
    /\ schedule.kind = "hourly" => age = 0
    /\ schedule.kind = "cron" => ticked

\* Nothing has happened yet to what was not received.
Fresh ==
  /\ \A e \in Events : e >= next => mailed[e] = 0
  /\ \A e \in buffer \cup missed \cup lost : e < next

\* What is in the buffer or in hand was received.
Apart == buffer \cap missed = {} /\ hand \notin missed

IInv == /\ TypeOK /\ Control /\ Remembered /\ OneDigestPerPeriod
        /\ Fresh /\ Apart /\ MailedOnce

-----------------------------------------------------------------------------
\* The constants are numbers.
LEMMA Bounds ==
  /\ HoursPerDay \in Nat \ {0} /\ Channel \in Nat \ {0}
  /\ MaxEvents \in Nat /\ MaxCrashes \in Nat
BY EmailAssumption

\* An hour passes within the day, or begins the next.
LEMMA NextHour ==
  ASSUME TypeOK
  PROVE  /\ (hour + 1) % HoursPerDay \in Hours
         /\ \/ (hour + 1) % HoursPerDay = 0
            \/ (hour + 1) % HoursPerDay = hour + 1
BY EmailAssumption DEF TypeOK, Hours

\* A mail of a set counts once for each of its events.
LEMMA MailCounts ==
  ASSUME TypeOK, NEW S \in SUBSET Events, Mail(S)
  PROVE  /\ mailed' \in [Events -> Nat]
         /\ \A e \in S : mailed'[e] = mailed[e] + 1
         /\ \A e \in Events \ S : mailed'[e] = mailed[e]
BY DEF Mail, TypeOK

\* Every step keeps the variables in their types and the control consistent.
LEMMA TypeStep == TypeOK /\ Control /\ [Next]_vars => TypeOK' /\ Control'
<1>. SUFFICES ASSUME TypeOK, Control, [Next]_vars PROVE TypeOK' /\ Control'
  OBVIOUS
<1>. USE Bounds DEF configVars, clockVars, channelVars, digestVars
<1>1. CASE Send
  BY <1>1 DEF Send, TypeOK, Control
<1>2. CASE Close
  BY <1>2 DEF Close, TypeOK, Control
<1>3. CASE Advance
  <2>1. hour' \in Hours
    BY <1>3, NextHour DEF Advance
  <2>2. age' \in 0..HoursPerDay
    <3>1. age \in 0..HoursPerDay /\ age' = (IF age < HoursPerDay THEN age + 1 ELSE age)
      BY <1>3 DEF Advance, TypeOK
    <3>. QED BY <3>1, Bounds
  <2>3. digests' \in Nat /\ ends' \in Nat
    <3>1. \/ digests' = 0 /\ ends' = 0
          \/ digests' = digests /\ ends' = ends
      BY <1>3 DEF Advance
    <3>. QED BY <3>1 DEF TypeOK
  <2>. QED BY <1>3, <2>1, <2>2, <2>3 DEF Advance, TypeOK, Control
<1>4. CASE TickIdle
  BY <1>4 DEF TickIdle, TypeOK, Control
<1>5. CASE TickSends
  BY <1>5 DEF TickSends, TypeOK, Control
<1>6. CASE BatchDone
  <2>1. mailed' \in [Events -> Nat]
    BY <1>6, MailCounts DEF BatchDone, TypeOK
  <2>2. ticked' \in BOOLEAN /\ pc' = "select" /\ pc = "batch" /\ buffer' = {}
    BY <1>6 DEF BatchDone, Return, TypeOK
  <2>. QED BY <1>6, <2>1, <2>2 DEF BatchDone, TypeOK, Control
<1>7. CASE Receive
  <2>1. next \in Events /\ next' = next + 1 /\ pc = "select" /\ hand = 0 /\ next <= sent
    BY <1>7 DEF Receive, TypeOK, Control, Events
  <2>2. CASE next \in Wanted /\ next \in Critical
    <3>1. pc' = "critical" /\ hand' = next /\ buffer' = buffer
      BY <1>7, <2>2 DEF Receive
    <3>. QED BY <1>7, <2>1, <3>1 DEF Receive, TypeOK, Control, Events
  <2>3. CASE ~(next \in Wanted /\ next \in Critical)
    <3>1. pc' = pc /\ hand' = hand /\ buffer' \subseteq Events
      BY <1>7, <2>1, <2>3 DEF Receive, TypeOK
    <3>. QED BY <1>7, <2>1, <3>1 DEF Receive, TypeOK, Control, Events
  <2>. QED BY <2>2, <2>3
<1>8. CASE CriticalDone
  <2>1. hand \in Events /\ pc = "critical"
    BY <1>8 DEF CriticalDone, TypeOK, Control, Events
  <2>2. mailed' \in [Events -> Nat]
    BY <1>8, <2>1, MailCounts DEF CriticalDone
  <2>3. ticked' \in BOOLEAN /\ pc' = "select" /\ hand' = 0
    BY <1>8 DEF CriticalDone, Return, TypeOK
  <2>. QED BY <1>8, <2>2, <2>3 DEF CriticalDone, TypeOK, Control
<1>9. CASE Lagged
  <2>1. /\ next <= sent - Channel /\ next' = sent - Channel + 1
        /\ missed' = missed \cup next..(sent - Channel)
    BY <1>9 DEF Lagged
  <2>2. missed' \subseteq Events /\ next' \in 1..(MaxEvents + 1) /\ next' <= sent + 1 /\ next <= next'
    BY <2>1 DEF TypeOK, Events
  <2>. QED BY <1>9, <2>2 DEF Lagged, TypeOK, Control
<1>10. CASE Closed
  BY <1>10 DEF Closed, TypeOK, Control
<1>11. CASE FinalDone
  <2>1. mailed' \in [Events -> Nat]
    BY <1>11, MailCounts DEF FinalDone, TypeOK
  <2>2. pc' = "stopped" /\ pc = "final" /\ buffer' = {}
    BY <1>11 DEF FinalDone
  <2>. QED BY <1>11, <2>1, <2>2 DEF FinalDone, TypeOK, Control
<1>12. CASE Crash
  <2>1. /\ lost' = lost \cup buffer \cup ({hand} \ {0}) \cup next..sent
        /\ buffer' = {} /\ hand' = 0 /\ next' = sent + 1 /\ pc' = "select" /\ age' = 0
        /\ crashes' = crashes + 1 /\ crashes < MaxCrashes /\ onSecond' \in BOOLEAN
        /\ open' = TRUE /\ sent' = sent
    BY <1>12 DEF Crash
  <2>2. lost' \subseteq Events
    BY <2>1 DEF TypeOK, Events
  <2>3. crashes' \in 0..MaxCrashes /\ next' \in 1..(MaxEvents + 1) /\ age' \in 0..HoursPerDay
    BY <2>1 DEF TypeOK
  <2>. QED BY <1>12, <2>1, <2>2, <2>3 DEF Crash, TypeOK, Control
<1>13. CASE UNCHANGED vars
  BY <1>13 DEF vars, TypeOK, Control
<1>. QED BY <1>1, <1>2, <1>3, <1>4, <1>5, <1>6, <1>7, <1>8, <1>9, <1>10, <1>11, <1>12, <1>13
         DEF Next, Tick, Done, Recv

-----------------------------------------------------------------------------
(* One digest per period *)

\* Every step keeps the trace of the last digest, and one digest a period.
LEMMA PeriodStep ==
  TypeOK /\ Remembered /\ OneDigestPerPeriod /\ [Next]_vars
    => Remembered' /\ OneDigestPerPeriod'
<1>. SUFFICES ASSUME TypeOK, Remembered, OneDigestPerPeriod, [Next]_vars
              PROVE  Remembered' /\ OneDigestPerPeriod'
  OBVIOUS
<1>. USE EmailAssumption DEF configVars, clockVars, channelVars, digestVars
<1>0. /\ digests \in Nat /\ ends \in Nat /\ schedule.kind \in Kinds
      /\ schedule.hour \in Nat /\ hour \in Nat /\ age \in Nat
  BY DEF TypeOK, Hours
\* Steps that leave the hour alone, and last_sent or set it to now, and begin
\* no digest but the last one of a task that ends.
<1>1. ASSUME UNCHANGED <<schedule, hour>>, age' \in {age, 0}, ticked' \in {ticked, TRUE},
             \/ UNCHANGED <<digests, ends>>
             \/ digests' \in {digests, digests + 1} /\ ends' = ends + 1
      PROVE  Remembered' /\ OneDigestPerPeriod'
  <2>1. /\ schedule' = schedule /\ hour' = hour
        /\ age' = age \/ age' = 0
        /\ ticked => ticked' = TRUE
    BY <1>1 DEF TypeOK
  <2>2. digests' > ends' => digests > ends
    BY <1>0, <1>1
  <2>3. digests <= 1 + ends => digests' <= 1 + ends'
    BY <1>0, <1>1
  <2>4. schedule.kind = "daily" /\ digests' > ends'
          => hour >= schedule.hour /\ age' <= hour - schedule.hour
    BY <1>0, <2>1, <2>2 DEF Remembered
  <2>. QED BY <2>1, <2>2, <2>3, <2>4 DEF Remembered, OneDigestPerPeriod
<1>2. CASE Advance
  <2>1. CASE PeriodEnds(hour')
    <3>1. digests' = 0 /\ ends' = 0
      BY <1>2, <2>1 DEF Advance
    <3>. QED BY <3>1 DEF Remembered, OneDigestPerPeriod
  <2>2. CASE ~PeriodEnds(hour')
    <3>1. /\ schedule' = schedule /\ digests' = digests /\ ends' = ends /\ age' \in {age, age + 1}
          /\ schedule.kind = "daily" /\ hour' = hour + 1
      BY <1>2, <2>2, NextHour DEF Advance, PeriodEnds
    <3>. QED BY <1>0, <3>1 DEF Remembered, OneDigestPerPeriod
  <2>. QED BY <2>1, <2>2
<1>3. CASE TickSends
  <2>1. /\ Due /\ UNCHANGED <<schedule, hour, ends>> /\ age' = 0 /\ ticked' = TRUE
        /\ digests' = digests + 1
    BY <1>3 DEF TickSends
  <2>2. CASE schedule.kind = "daily"
    <3>1. hour >= schedule.hour /\ age > hour - schedule.hour
      BY <2>1, <2>2 DEF Due, DueAt
    <3>2. digests <= ends
      BY <1>0, <2>2, <3>1 DEF Remembered
    <3>. QED BY <1>0, <2>1, <2>2, <3>1, <3>2 DEF Remembered, OneDigestPerPeriod
  <2>3. CASE schedule.kind = "hourly"
    <3>1. digests <= ends
      BY <1>0, <2>1, <2>3 DEF Due, DueAt, Remembered
    <3>. QED BY <1>0, <2>1, <2>3, <3>1 DEF Remembered, OneDigestPerPeriod
  <2>4. CASE schedule.kind = "cron"
    <3>1. digests <= ends
      BY <1>0, <2>1, <2>4 DEF Due, DueAt, Remembered, TypeOK
    <3>. QED BY <1>0, <2>1, <2>4, <3>1 DEF Remembered, OneDigestPerPeriod
  <2>5. CASE schedule.kind = "immediate"
    BY <2>1, <2>5 DEF Remembered, OneDigestPerPeriod
  <2>. QED BY <1>0, <2>2, <2>3, <2>4, <2>5 DEF Kinds
<1>4. CASE Send \/ Close \/ TickIdle \/ Receive \/ Lagged
  BY <1>1, <1>4 DEF Send, Close, TickIdle, Receive, Lagged
<1>5. CASE Closed
  BY <1>1, <1>5 DEF Closed
<1>6. CASE Done
  BY <1>1, <1>6 DEF Done, BatchDone, CriticalDone, FinalDone, Return
<1>7. CASE Crash
  BY <1>1, <1>7 DEF Crash
<1>8. CASE UNCHANGED vars
  BY <1>1, <1>8 DEF vars
<1>. QED BY <1>2, <1>3, <1>4, <1>5, <1>6, <1>7, <1>8 DEF Next, Tick, Recv

-----------------------------------------------------------------------------
(* Every event once *)

\* Every step keeps what is waiting unmailed and in one place.
LEMMA MailStep == IInv /\ [Next]_vars => Fresh' /\ Apart' /\ MailedOnce'
<1>. SUFFICES ASSUME IInv, [Next]_vars PROVE Fresh' /\ Apart' /\ MailedOnce'
  OBVIOUS
<1>. USE Bounds DEF configVars, clockVars, channelVars, digestVars
<1>1. /\ TypeOK /\ Control /\ Fresh /\ Apart /\ MailedOnce
      /\ next \in Nat /\ sent \in Nat /\ hand \in Nat
      /\ buffer \subseteq Events /\ missed \subseteq Events /\ lost \subseteq Events
      /\ mailed \in [Events -> Nat] /\ \A e \in Events : e \in Int
      /\ \A e \in Events : e >= next => mailed[e] = 0
      /\ \A e \in buffer \cup missed \cup lost : e < next
      /\ \A e \in 1..(next - 1) : e \in Events /\ e # 0
  BY DEF IInv, TypeOK, Fresh, Events
<1>2. CASE UNCHANGED <<next, hand, buffer, mailed, missed, lost>>
  BY <1>1, <1>2 DEF Fresh, Apart, MailedOnce
\* A send that returns: the buffer, or the event in hand.
<1>3. CASE BatchDone \/ FinalDone
  <2>1. /\ buffer' = {} /\ hand' = hand /\ hand = 0 /\ UNCHANGED <<next, missed, lost>>
        /\ Mail(buffer)
    BY <1>1, <1>3 DEF BatchDone, FinalDone, Control
  <2>2. /\ \A e \in buffer : mailed'[e] = mailed[e] + 1
        /\ \A e \in Events \ buffer : mailed'[e] = mailed[e]
    BY <1>1, <2>1, MailCounts
  <2>3. Fresh'
    <3>1. \A e \in Events : e >= next => e \notin buffer
      BY <1>1
    <3>. QED BY <1>1, <2>1, <2>2, <3>1 DEF Fresh
  <2>4. Apart'
    BY <1>1, <2>1 DEF Apart
  <2>5. MailedOnce'
    <3>. SUFFICES ASSUME NEW e \in 1..(next - 1) \cap Wanted
                  PROVE  \/ e \in missed \cup lost /\ mailed'[e] = 0
                         \/ mailed'[e] = 1 /\ e \notin missed
      BY <2>1 DEF MailedOnce, Events
    <3>1. e \in Events /\ e # hand
      BY <1>1, <2>1
    <3>2. CASE e \in buffer
      BY <1>1, <2>2, <3>1, <3>2 DEF MailedOnce, Apart
    <3>3. CASE e \notin buffer
      BY <1>1, <2>2, <3>1, <3>3 DEF MailedOnce
    <3>. QED BY <3>2, <3>3
  <2>. QED BY <2>3, <2>4, <2>5
<1>4. CASE CriticalDone
  <2>1. /\ hand \in Events /\ hand < next /\ hand' = 0 /\ UNCHANGED <<next, buffer, missed, lost>>
        /\ Mail({hand})
    BY <1>1, <1>4 DEF CriticalDone, Control, TypeOK, Events
  <2>2. /\ mailed'[hand] = mailed[hand] + 1
        /\ \A e \in Events : e # hand => mailed'[e] = mailed[e]
    BY <1>1, <2>1, MailCounts
  <2>3. Fresh'
    BY <1>1, <2>1, <2>2 DEF Fresh, Events
  <2>4. 0 \notin missed
    BY <1>1 DEF TypeOK, Events
  <2>5. Apart'
    BY <1>1, <2>1, <2>4 DEF Apart
  <2>6. MailedOnce'
    <3>. SUFFICES ASSUME NEW e \in 1..(next - 1) \cap Wanted
                  PROVE  \/ e \in buffer /\ mailed'[e] = 0
                         \/ e \in missed \cup lost /\ mailed'[e] = 0 /\ e \notin buffer
                         \/ mailed'[e] = 1 /\ e \notin buffer /\ e \notin missed
      BY <2>1 DEF MailedOnce, Events
    <3>1. e \in Events
      BY <1>1
    <3>2. CASE e = hand
      BY <1>1, <2>2, <3>1, <3>2 DEF MailedOnce, Apart
    <3>3. CASE e # hand
      BY <1>1, <2>2, <3>1, <3>3 DEF MailedOnce
    <3>. QED BY <3>2, <3>3
  <2>. QED BY <2>3, <2>5, <2>6
<1>5. CASE Receive
  <2>1. /\ hand = 0 /\ next \in Events /\ next' = next + 1 /\ UNCHANGED <<mailed, missed, lost>>
    BY <1>1, <1>5 DEF Receive, Control, TypeOK, Events
  <2>2. /\ mailed[next] = 0 /\ next \notin buffer /\ next \notin missed /\ next \notin lost
        /\ \A e \in Events : e > next => mailed[e] = 0
        /\ \A e \in 1..(next' - 1) : e # next => e \in 1..(next - 1)
    BY <1>1, <2>1 DEF Fresh, Events
  <2>3. \/ next \in Wanted /\ hand' = next /\ buffer' = buffer
        \/ next \in Wanted /\ hand' = hand /\ buffer' = buffer \cup {next}
        \/ next \notin Wanted /\ hand' = hand /\ buffer' = buffer
    BY <1>5 DEF Receive
  <2>4. Fresh'
    <3>1. \A e \in buffer \cup missed \cup lost : e < next'
      <4>. SUFFICES ASSUME NEW e \in buffer \cup missed \cup lost PROVE e < next'
        OBVIOUS
      <4>1. e < next /\ e \in Int
        BY <1>1
      <4>. QED BY <1>1, <2>1, <4>1
    <3>2. next < next'
      BY <1>1, <2>1
    <3>3. \A e \in buffer' \cup missed' \cup lost' : e < next'
      BY <2>1, <2>3, <3>1, <3>2
    <3>4. \A e \in Events : e >= next' => mailed'[e] = 0
      BY <1>1, <2>1
    <3>. QED BY <3>3, <3>4 DEF Fresh
  <2>5. Apart'
    BY <1>1, <2>1, <2>2, <2>3 DEF Apart
  <2>6. MailedOnce'
    <3>. SUFFICES ASSUME NEW e \in 1..(next' - 1) \cap Wanted
                  PROVE  \/ e \in buffer' /\ mailed[e] = 0 /\ e # hand'
                         \/ e = hand' /\ mailed[e] = 0 /\ e \notin buffer'
                         \/ e \in missed \cup lost /\ mailed[e] = 0 /\ e \notin buffer' /\ e # hand'
                         \/ mailed[e] = 1 /\ e \notin buffer' /\ e # hand' /\ e \notin missed
      BY <2>1 DEF MailedOnce
    <3>1. CASE e = next
      BY <2>1, <2>2, <2>3, <3>1 DEF Events
    <3>2. CASE e # next
      <4>1. e \in 1..(next - 1) \cap Wanted /\ e # 0
        BY <2>2, <3>2
      <4>. QED BY <1>1, <2>1, <2>3, <3>2, <4>1 DEF MailedOnce
    <3>. QED BY <3>1, <3>2
  <2>. QED BY <2>4, <2>5, <2>6
\* What is skipped was never received.
<1>6. CASE Lagged
  <2>1. /\ hand = 0 /\ next <= sent - Channel /\ next' = sent - Channel + 1
        /\ missed' = missed \cup next..(sent - Channel)
        /\ UNCHANGED <<hand, buffer, mailed, lost>>
    BY <1>1, <1>6 DEF Lagged, Control
  <2>2. /\ next..(sent - Channel) \subseteq Events
        /\ \A e \in next..(sent - Channel) : mailed[e] = 0 /\ e \notin buffer
        /\ \A e \in 1..(next' - 1) : e \notin next..(sent - Channel) => e \in 1..(next - 1)
        /\ 0 \notin next..(sent - Channel) /\ next < next'
    BY <1>1, <2>1 DEF Fresh, TypeOK, Events
  <2>3. Fresh'
    BY <1>1, <2>1, <2>2 DEF Fresh, Events
  <2>4. Apart'
    BY <1>1, <2>1, <2>2 DEF Apart
  <2>5. MailedOnce'
    <3>. SUFFICES ASSUME NEW e \in 1..(next' - 1) \cap Wanted
                  PROVE  \/ e \in buffer /\ mailed[e] = 0
                         \/ e \in missed' \cup lost /\ mailed[e] = 0 /\ e \notin buffer
                         \/ mailed[e] = 1 /\ e \notin buffer /\ e \notin missed'
      BY <2>1 DEF MailedOnce
    <3>1. CASE e \in next..(sent - Channel)
      BY <2>1, <2>2, <3>1
    <3>2. CASE e \notin next..(sent - Channel)
      <4>1. e \in 1..(next - 1) \cap Wanted /\ e # 0
        BY <2>2, <3>2
      <4>. QED BY <1>1, <2>1, <3>2, <4>1 DEF MailedOnce
    <3>. QED BY <3>1, <3>2
  <2>. QED BY <2>3, <2>4, <2>5
\* What the process had goes with it.
<1>7. CASE Crash
  <2>1. /\ lost' = lost \cup buffer \cup ({hand} \ {0}) \cup next..sent
        /\ buffer' = {} /\ hand' = 0 /\ next' = sent + 1 /\ UNCHANGED <<mailed, missed>>
    BY <1>7 DEF Crash
  <2>2. next <= sent + 1 /\ hand < next /\ sent <= MaxEvents /\ 0 \notin missed
    BY <1>1 DEF Control, TypeOK, Events
  <2>3. Fresh'
    <3>1. \A e \in lost' \cup missed : e < next'
      BY <1>1, <2>1, <2>2
    <3>. QED BY <1>1, <2>1, <2>2, <3>1 DEF Fresh
  <2>4. Apart'
    BY <2>1, <2>2 DEF Apart
  <2>5. MailedOnce'
    <3>. SUFFICES ASSUME NEW e \in 1..sent \cap Wanted
                  PROVE  \/ e \in lost' /\ mailed[e] = 0
                         \/ e \in missed /\ mailed[e] = 0
                         \/ mailed[e] = 1 /\ e \notin missed
      BY <1>1, <2>1 DEF MailedOnce
    <3>1. CASE e >= next
      BY <1>1, <2>1, <2>2, <3>1 DEF Fresh, Events
    <3>2. CASE e < next
      <4>1. e \in 1..(next - 1) \cap Wanted /\ e # 0
        BY <1>1, <3>2
      <4>. QED BY <1>1, <2>1, <4>1 DEF MailedOnce
    <3>. QED BY <1>1, <3>1, <3>2
  <2>. QED BY <2>3, <2>4, <2>5
<1>. QED BY <1>2, <1>3, <1>4, <1>5, <1>6, <1>7 DEF Next, Tick, Done, Recv, Send, Close, Advance,
         TickIdle, TickSends, Closed, vars

-----------------------------------------------------------------------------
(* The theorems *)

\* The initial state satisfies the invariant.
LEMMA InitInv == Init => IInv
<1>. SUFFICES ASSUME Init PROVE IInv
  OBVIOUS
<1>. USE Bounds DEF Init
<1>1. TypeOK
  <2>0. /\ schedule \in Schedules /\ quiet \in QuietWindows /\ hour \in Hours
        /\ onSecond \in BOOLEAN /\ ticked \in BOOLEAN /\ open \in BOOLEAN
    OBVIOUS
  <2>1. hand \in 0..MaxEvents /\ sent \in 0..MaxEvents /\ next \in 1..(MaxEvents + 1)
    OBVIOUS
  <2>2. crashes \in 0..MaxCrashes /\ age \in 0..HoursPerDay
    OBVIOUS
  <2>3. mailed \in [Events -> Nat]
    OBVIOUS
  <2>. QED BY <2>0, <2>1, <2>2, <2>3 DEF TypeOK
<1>2. Control /\ Remembered /\ OneDigestPerPeriod
  BY DEF Control, Remembered, OneDigestPerPeriod
<1>3. Fresh /\ Apart /\ MailedOnce
  BY DEF Fresh, Apart, MailedOnce
<1>. QED BY <1>1, <1>2, <1>3 DEF IInv

\* The invariant is inductive.
LEMMA Inductive == IInv /\ [Next]_vars => IInv'
BY TypeStep, PeriodStep, MailStep DEF IInv

\* The inductive invariant holds in every reachable state.
THEOREM Invariant == Spec => []IInv
BY InitInv, Inductive, PTL DEF Spec

\* Every variable of the notifier stays in its type.
THEOREM TypeCorrect == Spec => []TypeOK
BY Invariant, PTL DEF IInv

\* All digest mails counted, no day and no hour has more than one besides those
\* that tasks flushed when they ended in it, however long the sends take and
\* however often the process is restarted (Schedule::is_due, Closed).
THEOREM PeriodSafe == Spec => []OneDigestPerPeriod
BY Invariant, PTL DEF IInv

\* No event is mailed twice, nor lost but to a lag or a restart
\* (EmailNotifier::spawn).
THEOREM MailedSafe == Spec => []MailedOnce
BY Invariant, PTL DEF IInv
=============================================================================
