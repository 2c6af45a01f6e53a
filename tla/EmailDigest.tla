----------------------------- MODULE EmailDigest -----------------------------
(***************************************************************************)
(* The e-mail notifier of email.rs: one task that receives the indexer's   *)
(* broadcast, keeps what is not critical in a buffer, and once a minute    *)
(* sends the buffer as a digest if the schedule says one is due and the    *)
(* hour is not a quiet one.  While it sends, it receives nothing.          *)
(*                                                                         *)
(* Time is the hour of the day, which goes round, and the hours since the  *)
(* last digest, counted up to a day: that is all Schedule::is_due tells    *)
(* apart.  Quiet hours begin and end on the hour.  send_batch_email is not *)
(* in the repository; its callers use it as a call that returns nothing,   *)
(* whether the mail went out or not.                                       *)
(***************************************************************************)
EXTENDS Integers

CONSTANTS HoursPerDay,   \* 24
          Schedules,     \* the schedules to choose from
          QuietWindows,  \* the quiet hours to choose from: <<start, end>>, equal for none
          Channel,       \* capacity of the broadcast channel (256)
          Wanted,        \* events the contract filter lets through
          Critical,      \* events of critical priority
          MaxEvents,     \* bound: events broadcast
          MaxCrashes     \* bound: ends of the process

Events == 1..MaxEvents
Hours  == 0..(HoursPerDay - 1)
Kinds  == {"immediate", "hourly", "daily", "cron"}

ASSUME EmailAssumption ==
  /\ HoursPerDay \in Nat \ {0} /\ Channel \in Nat \ {0}
  /\ MaxEvents \in Nat /\ MaxCrashes \in Nat
  /\ Schedules \subseteq [kind : Kinds, hour : Hours]
  /\ QuietWindows \subseteq Hours \X Hours
  /\ Wanted \subseteq Events /\ Critical \subseteq Events

VARIABLES
  schedule, quiet,  \* the configuration, for good
  onSecond,         \* the ticks fall on the second the cron expression names
  hour, ticked,     \* the hour; its first tick is over, or fell into a send
  age,              \* hours since last_sent, HoursPerDay for a day and more
  sent, next, open, \* events in the channel's history; the receiver's next; senders
  pc,               \* what the task is at
  hand, buffer,     \* the critical event being sent; events_buffer
  crashes,          \* counted against MaxCrashes
  mailed,           \* history: times send_batch_email returned with each event
  missed, lost,     \* history: events overwritten in the channel, gone with the process
  digests, ends     \* history: digest mails begun in this period; tasks that ended in it

configVars  == <<schedule, quiet>>
clockVars   == <<hour, ticked, age>>
channelVars == <<sent, open>>
digestVars  == <<digests, ends>>
vars == <<configVars, onSecond, clockVars, channelVars, next, pc, hand, buffer, crashes,
          mailed, missed, lost, digestVars>>

TypeOK ==
  /\ schedule \in Schedules /\ quiet \in QuietWindows /\ onSecond \in BOOLEAN
  /\ hour \in Hours /\ ticked \in BOOLEAN /\ age \in 0..HoursPerDay
  /\ sent \in 0..MaxEvents /\ next \in 1..(MaxEvents + 1) /\ open \in BOOLEAN
  /\ pc \in {"select", "batch", "critical", "final", "stopped"}
  /\ hand \in 0..MaxEvents /\ buffer \subseteq Events
  /\ crashes \in 0..MaxCrashes
  /\ mailed \in [Events -> Nat] /\ missed \subseteq Events /\ lost \subseteq Events
  /\ digests \in Nat /\ ends \in Nat

Init ==
  /\ schedule \in Schedules /\ quiet \in QuietWindows /\ onSecond \in BOOLEAN
  /\ hour \in Hours /\ ticked = FALSE /\ age = 0
  /\ sent = 0 /\ next = 1 /\ open = TRUE
  /\ pc = "select" /\ hand = 0 /\ buffer = {}
  /\ crashes = 0
  /\ mailed = [e \in Events |-> 0] /\ missed = {} /\ lost = {}
  /\ digests = 0 /\ ends = 0

-----------------------------------------------------------------------------
(* Schedule::is_due, QuietHours::contains *)

\* A cron expression names the second too (0 0 9 * * * and the like), and only
\* the first tick of its hour can meet minute 0.
DueAt(h, a, first) ==
  CASE schedule.kind = "immediate" -> TRUE
    [] schedule.kind = "hourly"    -> a > 0
    [] schedule.kind = "daily"     -> h >= schedule.hour /\ a > h - schedule.hour
    [] schedule.kind = "cron"      -> onSecond /\ h = schedule.hour /\ first

\* Bug: due when the last digest is a day old, or just not of today's schedule.
BugDue == CASE schedule.kind = "daily" -> hour >= schedule.hour /\ age >= hour - schedule.hour
            [] OTHER -> DueAt(hour, age, ~ticked)

Due == DueAt(hour, age, ~ticked)

\* A window that wraps past midnight has its start after its end.
QuietAt(h) ==
  IF quiet[1] <= quiet[2] THEN quiet[1] <= h /\ h < quiet[2]
                          ELSE h >= quiet[1] \/ h < quiet[2]

-----------------------------------------------------------------------------
(* The channel and the clock *)

Send ==
  /\ open /\ sent < MaxEvents
  /\ sent' = sent + 1
  /\ UNCHANGED <<configVars, onSecond, clockVars, open, next, pc, hand, buffer, crashes,
                 mailed, missed, lost, digestVars>>

Close ==
  /\ open /\ open' = FALSE
  /\ UNCHANGED <<configVars, onSecond, clockVars, sent, next, pc, hand, buffer, crashes,
                 mailed, missed, lost, digestVars>>

\* A daily digest is one of its day, any other one of its hour.
PeriodEnds(h) == schedule.kind = "daily" => h = 0

\* The interval fires in every hour in which the task is not sending.
Advance ==
  /\ pc = "select" => ticked
  /\ hour' = (hour + 1) % HoursPerDay
  /\ age' = IF age < HoursPerDay THEN age + 1 ELSE age
  /\ ticked' = FALSE
  /\ IF PeriodEnds(hour') THEN digests' = 0 /\ ends' = 0 ELSE UNCHANGED digestVars
  /\ UNCHANGED <<configVars, onSecond, channelVars, next, pc, hand, buffer, crashes,
                 mailed, missed, lost>>

-----------------------------------------------------------------------------
(* The task *)

\* Bug: a digest that quiet hours put off counts as sent.
BugTickIdle ==
  /\ pc = "select"
  /\ buffer = {} \/ ~Due \/ QuietAt(hour)
  /\ ticked' = TRUE
  /\ age' = IF Due /\ QuietAt(hour) THEN 0 ELSE age
  /\ UNCHANGED <<configVars, onSecond, hour, channelVars, next, pc, hand, buffer, crashes,
                 mailed, missed, lost, digestVars>>

\* batch_interval.tick() with nothing to send, not due, or in quiet hours.
TickIdle ==
  /\ pc = "select"
  /\ buffer = {} \/ ~Due \/ QuietAt(hour)
  /\ ticked' = TRUE
  /\ UNCHANGED <<configVars, onSecond, hour, age, channelVars, next, pc, hand, buffer, crashes,
                 mailed, missed, lost, digestVars>>

\* A digest: last_sent becomes the time it was begun.
TickSends ==
  /\ pc = "select"
  /\ buffer # {} /\ Due /\ ~QuietAt(hour)
  /\ pc' = "batch" /\ ticked' = TRUE /\ age' = 0
  /\ digests' = digests + 1
  /\ UNCHANGED <<configVars, onSecond, hour, channelVars, next, hand, buffer, crashes,
                 mailed, missed, lost, ends>>

\* The first tick of the hour may have come while the task was sending.
Return == pc' = "select" /\ ticked' \in {ticked, TRUE}

Mail(S) == mailed' = [e \in Events |-> IF e \in S THEN mailed[e] + 1 ELSE mailed[e]]

\* Bug: the buffer is not cleared.
BugBatchDone ==
  /\ pc = "batch"
  /\ Mail(buffer)
  /\ Return
  /\ UNCHANGED <<configVars, onSecond, hour, age, channelVars, next, hand, buffer, crashes,
                 missed, lost, digestVars>>

\* send_batch_email returns, and the buffer is cleared whatever came of it.
BatchDone ==
  /\ pc = "batch"
  /\ Mail(buffer) /\ buffer' = {}
  /\ Return
  /\ UNCHANGED <<configVars, onSecond, hour, age, channelVars, next, hand, crashes,
                 missed, lost, digestVars>>

\* Ok(event): filtered out, sent at once, or put into the buffer.
Receive ==
  /\ pc = "select"
  /\ next <= sent /\ next > sent - Channel
  /\ next' = next + 1
  /\ IF next \in Wanted /\ next \in Critical
     THEN pc' = "critical" /\ hand' = next /\ UNCHANGED buffer
     ELSE /\ buffer' = IF next \in Wanted THEN buffer \cup {next} ELSE buffer
          /\ UNCHANGED <<pc, hand>>
  /\ UNCHANGED <<configVars, onSecond, clockVars, channelVars, crashes,
                 mailed, missed, lost, digestVars>>

CriticalDone ==
  /\ pc = "critical"
  /\ Mail({hand}) /\ hand' = 0
  /\ Return
  /\ UNCHANGED <<configVars, onSecond, hour, age, channelVars, next, buffer, crashes,
                 missed, lost, digestVars>>

Lagged ==
  /\ pc = "select"
  /\ next <= sent - Channel
  /\ missed' = missed \cup next..(sent - Channel)
  /\ next' = sent - Channel + 1
  /\ UNCHANGED <<configVars, onSecond, clockVars, channelVars, pc, hand, buffer, crashes,
                 mailed, lost, digestVars>>

\* Closed: the buffer is flushed as one more digest, due or not, and the task
\* ends.
Closed ==
  /\ pc = "select" /\ ~open /\ next > sent
  /\ IF buffer = {} THEN pc' = "stopped" /\ UNCHANGED digests
                    ELSE pc' = "final" /\ digests' = digests + 1
  /\ ends' = ends + 1
  /\ UNCHANGED <<configVars, onSecond, clockVars, channelVars, next, hand, buffer, crashes,
                 mailed, missed, lost>>

FinalDone ==
  /\ pc = "final"
  /\ Mail(buffer) /\ buffer' = {}
  /\ pc' = "stopped"
  /\ UNCHANGED <<configVars, onSecond, clockVars, channelVars, next, hand, crashes,
                 missed, lost, digestVars>>

\* The process dies, or ends after a shutdown whether the last digest is out
\* or not, and is started again: buffer and channel are gone, the ticks begin
\* at another second, last_sent is the time of the start.
Crash ==
  /\ crashes < MaxCrashes /\ crashes' = crashes + 1
  /\ lost' = lost \cup buffer \cup ({hand} \ {0}) \cup next..sent
  /\ buffer' = {} /\ hand' = 0 /\ next' = sent + 1 /\ open' = TRUE
  /\ pc' = "select" /\ onSecond' \in BOOLEAN /\ age' = 0
  /\ UNCHANGED <<configVars, hour, ticked, sent, mailed, missed, digestVars>>

-----------------------------------------------------------------------------
Tick == TickIdle \/ TickSends
Done == BatchDone \/ CriticalDone \/ FinalDone
Recv == Receive \/ Lagged \/ Closed

Next == Send \/ Close \/ Advance \/ Tick \/ Recv \/ Done \/ Crash

\* Time goes on, the interval fires, a send returns, and select takes either
\* branch that is ready, at random.
Fairness == WF_vars(Advance) /\ WF_vars(Tick) /\ WF_vars(Recv) /\ WF_vars(Done)

Spec == Init /\ [][Next]_vars /\ Fairness

-----------------------------------------------------------------------------
(* Properties *)

\* However long sends take, whatever quiet hours put off and however often the
\* process is restarted: of all the digest mails of a day, or of an hour, the
\* schedule begins one at most; each further one is the flush of a task that
\* ended in that day or hour (lines 404-415, 439-443).
OneDigestPerPeriod == schedule.kind # "immediate" => digests <= 1 + ends

\* An event that was received is in the buffer, in hand, mailed once, or gone
\* with a process, and never two of these; one of a digest whose send failed
\* counts as mailed.
MailedOnce ==
  \A e \in 1..(next - 1) \cap Wanted :
    \/ e \in buffer /\ mailed[e] = 0 /\ e # hand
    \/ e = hand /\ mailed[e] = 0 /\ e \notin buffer
    \/ e \in missed \cup lost /\ mailed[e] = 0 /\ e \notin buffer /\ e # hand
    \/ mailed[e] = 1 /\ e \notin buffer /\ e # hand /\ e \notin missed

\* Some hour of the day is one in which a digest can be due and is not quiet.
Deliverable ==
  \E h \in Hours : ~QuietAt(h) /\ DueAt(h, HoursPerDay, TRUE)

\* What is in the buffer is sent in the end - if there is such an hour.  With
\* the daily digest inside quiet hours that wrap past midnight there is none.
EventuallyMailed == <>[](next > sent /\ (Deliverable => buffer = {}))
=============================================================================
