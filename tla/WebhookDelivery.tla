--------------------------- MODULE WebhookDelivery ---------------------------
(***************************************************************************)
(* Webhook delivery: the task of main.rs that receives the indexer's       *)
(* broadcast and starts deliver_with_retry_policy (webhook.rs) for every   *)
(* event, in a task of its own; the retries of retry_policy.rs; and the    *)
(* endpoint's row in rate_limit_endpoints, which all deliveries share.     *)
(*                                                                         *)
(* Events are numbered in the order they are broadcast.  Time is counted   *)
(* in ticks; the sleeps between attempts, full jitter included, may take   *)
(* any number of them, so they are no steps of their own.  The database's  *)
(* clock and the process's are one, and a statement takes no time.         *)
(***************************************************************************)
EXTENDS Integers, FiniteSets

CONSTANTS Wanted,        \* events the contract and content filters let through
          Channel,       \* capacity of the broadcast channel (256)
          MaxAttempts,   \* of the retry policy (5)
          Limit,         \* per_minute_limit of the endpoint
          Window,        \* length of the rate-limit window in ticks (1 minute)
          MaxBackoff,    \* cap of the endpoint's backoff in ticks (900 s)
          MaxEvents,     \* bound: events broadcast
          MaxTime,       \* bound: ticks of the clock
          MaxFaults      \* bound: failing statements, crashes, suppressions changed

Events == 1..MaxEvents
Never  == -1

\* rate_limit_endpoints checks per_minute_limit > 0; a policy of no attempts
\* makes execute_with_retry unwrap a None.
ASSUME WebhookAssumption ==
  /\ MaxEvents \in Nat /\ Wanted \subseteq Events
  /\ Channel \in Nat \ {0} /\ MaxAttempts \in Nat \ {0} /\ Limit \in Nat \ {0}
  /\ Window \in Nat /\ MaxBackoff \in Nat
  /\ MaxTime \in Nat /\ MaxFaults \in Nat

VARIABLES
  sent, next,                  \* events in the channel's history; the receiver's next
  now,                         \* the time
  task,                        \* where each event's delivery is, or how it ended
  attempt,                     \* the attempt it is at, 1 outside the loop
  started, count,              \* window_start (Never: no row yet) and window_count
  failures, backoff,           \* consecutive_failures, backoff_until (0: NULL)
  suppressed,                  \* the URL is on the suppression list
  faults,                      \* counted against MaxFaults
  received,                    \* history: times the endpoint processed each event
  checkedAt, verdict,          \* history: when the rate limit counted it, and its answer
  failedAt                     \* history: when its failure was recorded

channelVars == <<sent, next>>
rowVars     == <<started, count, failures, backoff>>
historyVars == <<received, checkedAt, verdict, failedAt>>
vars == <<channelVars, now, task, attempt, rowVars, suppressed, faults, historyVars>>

\* The steps of deliver_with_retry_policy, in order, and the ways it ends.
Running == {"suppression", "admission", "defer", "post", "failure", "deadletter"}
Told    == {"success", "acknowledge", "acknowledged", "delivered"}
Ended   == {"filtered", "missed", "suppressed", "deferred", "failed", "unrecorded", "lost"}
Stages  == {"waiting"} \cup Running \cup Told \cup Ended

Verdicts == {"none", "passed", "backoff", "limit", "unread"}
Times    == 0..MaxTime \cup {Never}

TypeOK ==
  /\ sent \in 0..MaxEvents /\ next \in 1..(MaxEvents + 1)
  /\ now \in 0..MaxTime
  /\ task \in [Events -> Stages] /\ attempt \in [Events -> 1..MaxAttempts]
  /\ started \in Times /\ count \in Nat /\ failures \in Nat /\ backoff \in Nat
  /\ suppressed \in BOOLEAN
  /\ faults \in 0..MaxFaults
  /\ received \in [Events -> Nat]
  /\ checkedAt \in [Events -> Times] /\ verdict \in [Events -> Verdicts]
  /\ failedAt \in [Events -> Times]

Init ==
  /\ sent = 0 /\ next = 1 /\ now = 0
  /\ task = [e \in Events |-> "waiting"] /\ attempt = [e \in Events |-> 1]
  /\ started = Never /\ count = 0 /\ failures = 0 /\ backoff = 0
  /\ suppressed = FALSE /\ faults = 0
  /\ received = [e \in Events |-> 0]
  /\ checkedAt = [e \in Events |-> Never] /\ verdict = [e \in Events |-> "none"]
  /\ failedAt = [e \in Events |-> Never]

Goto(e, stage) == task' = [task EXCEPT ![e] = stage]

Fault == faults < MaxFaults /\ faults' = faults + 1

-----------------------------------------------------------------------------
(* The channel, the clock, the operator *)

Send ==
  /\ sent < MaxEvents
  /\ sent' = sent + 1
  /\ UNCHANGED <<next, now, task, attempt, rowVars, suppressed, faults, historyVars>>

Tick ==
  /\ now < MaxTime
  /\ now' = now + 1
  /\ UNCHANGED <<channelVars, task, attempt, rowVars, suppressed, faults, historyVars>>

\* An entry of suppression_lists is added, removed, or expires.
Toggle ==
  /\ Fault
  /\ suppressed' = ~suppressed
  /\ UNCHANGED <<channelVars, now, task, attempt, rowVars, historyVars>>

\* Bug: the filters break out of the loop where they should continue.
BugReceive ==
  /\ next <= sent /\ next > sent - Channel
  /\ Goto(next, IF next \in Wanted THEN "suppression" ELSE "filtered")
  /\ next' = IF next \in Wanted THEN next + 1 ELSE next
  /\ UNCHANGED <<sent, now, attempt, rowVars, suppressed, faults, historyVars>>

\* rx.recv(): the event is filtered out, or its delivery is spawned.
Receive ==
  /\ next <= sent /\ next > sent - Channel
  /\ Goto(next, IF next \in Wanted THEN "suppression" ELSE "filtered")
  /\ next' = next + 1
  /\ UNCHANGED <<sent, now, attempt, rowVars, suppressed, faults, historyVars>>

\* Lagged(n): the events overwritten are skipped.
Lagged ==
  /\ next <= sent - Channel
  /\ task' = [e \in Events |-> IF e \in next..(sent - Channel) THEN "missed" ELSE task[e]]
  /\ next' = sent - Channel + 1
  /\ UNCHANGED <<sent, now, attempt, rowVars, suppressed, faults, historyVars>>

-----------------------------------------------------------------------------
(* One delivery: deliver_with_retry_policy *)

\* The suppression list; a query that fails counts as not suppressed.
CheckSuppression(e) ==
  /\ task[e] = "suppression"
  /\ \/ suppressed /\ Goto(e, "suppressed") /\ UNCHANGED faults
     \/ ~suppressed /\ Goto(e, "admission") /\ UNCHANGED faults
     \/ Fault /\ Goto(e, "admission")
  /\ UNCHANGED <<channelVars, now, attempt, rowVars, suppressed, historyVars>>

\* Bug: the window begins anew when it is just Window old.
BugLapsed == started # Never /\ started <= now - Window

\* The upsert of endpoint_rate_limited: a window older than Window begins anew.
Lapsed == started # Never /\ started < now - Window

CountCall(e) ==
  /\ started' = IF started = Never \/ Lapsed THEN now ELSE started
  /\ count' = IF started = Never \/ Lapsed THEN 1 ELSE count + 1
  /\ checkedAt' = [checkedAt EXCEPT ![e] = now]

\* Its answer: backoff_until is looked at before the count.
Answer == IF backoff > now THEN "backoff" ELSE IF count' > Limit THEN "limit" ELSE "passed"

\* Bug: the count is compared with >=, so that the last call of a window waits.
BugCheckEndpoint(e) ==
  /\ task[e] = "admission"
  /\ CountCall(e)
  /\ LET v == IF backoff > now THEN "backoff" ELSE IF count' >= Limit THEN "limit" ELSE "passed"
     IN  /\ verdict' = [verdict EXCEPT ![e] = v]
         /\ Goto(e, IF v = "passed" THEN "post" ELSE "defer")
  /\ UNCHANGED <<channelVars, now, attempt, failures, backoff, suppressed, faults,
                 received, failedAt>>

CheckEndpoint(e) ==
  /\ task[e] = "admission"
  /\ CountCall(e)
  /\ verdict' = [verdict EXCEPT ![e] = Answer]
  /\ Goto(e, IF Answer = "passed" THEN "post" ELSE "defer")
  /\ UNCHANGED <<channelVars, now, attempt, failures, backoff, suppressed, faults,
                 received, failedAt>>

\* The upsert fails, executed or not: the delivery goes on unlimited.
CheckEndpointFails(e) ==
  /\ task[e] = "admission"
  /\ Fault
  /\ \/ CountCall(e) /\ verdict' = [verdict EXCEPT ![e] = "unread"]
     \/ UNCHANGED <<started, count, checkedAt, verdict>>
  /\ Goto(e, "post")
  /\ UNCHANGED <<channelVars, now, attempt, failures, backoff, suppressed, received, failedAt>>

\* enqueue_endpoint_retry: the row in webhook_retry_queue, or an error logged.
Defer(e) ==
  /\ task[e] = "defer"
  /\ \/ Goto(e, "deferred") /\ UNCHANGED faults
     \/ Fault /\ Goto(e, "unrecorded")
  /\ UNCHANGED <<channelVars, now, attempt, rowVars, suppressed, historyVars>>

\* A POST answered with success ends execute_with_retry.
PostSucceeds(e) ==
  /\ task[e] = "post"
  /\ received' = [received EXCEPT ![e] = @ + 1]
  /\ Goto(e, "success") /\ attempt' = [attempt EXCEPT ![e] = 1]
  /\ UNCHANGED <<channelVars, now, rowVars, suppressed, faults,
                 checkedAt, verdict, failedAt>>

\* Bug: a request that is not answered does not count as an attempt.
BugPostFails(e) ==
  /\ task[e] = "post"
  /\ \E n \in {0, 1} :
       /\ received' = [received EXCEPT ![e] = @ + n]
       /\ attempt' = [attempt EXCEPT ![e] = IF n = 1 THEN @ ELSE (@ % MaxAttempts) + 1]
       /\ IF n = 0 /\ attempt[e] = MaxAttempts THEN Goto(e, "failure") ELSE UNCHANGED task
  /\ UNCHANGED <<channelVars, now, rowVars, suppressed, faults,
                 checkedAt, verdict, failedAt>>

\* A POST refused, unreachable or timed out; the endpoint may have processed it.
PostFails(e) ==
  /\ task[e] = "post"
  /\ \E n \in {0, 1} : received' = [received EXCEPT ![e] = @ + n]
  /\ IF attempt[e] < MaxAttempts
     THEN attempt' = [attempt EXCEPT ![e] = @ + 1] /\ UNCHANGED task
     ELSE attempt' = [attempt EXCEPT ![e] = 1] /\ Goto(e, "failure")
  /\ UNCHANGED <<channelVars, now, rowVars, suppressed, faults,
                 checkedAt, verdict, failedAt>>

\* record_endpoint_success: whatever other deliveries have met meanwhile.
RecordSuccess(e) ==
  /\ task[e] = "success"
  /\ \/ failures' = 0 /\ backoff' = 0 /\ UNCHANGED faults
     \/ Fault /\ UNCHANGED <<failures, backoff>>
  /\ Goto(e, "acknowledge")
  /\ UNCHANGED <<channelVars, now, attempt, started, count, suppressed, historyVars>>

\* The row in notification_acknowledgments.
Acknowledge(e) ==
  /\ task[e] = "acknowledge"
  /\ \/ Goto(e, "acknowledged") /\ UNCHANGED faults
     \/ Fault /\ Goto(e, "delivered")
  /\ UNCHANGED <<channelVars, now, attempt, rowVars, suppressed, historyVars>>

Doublings == <<2, 4, 8, 16, 32, 64, 128, 256, 512, 1024>>

\* 2^n ticks, n the failures in a row up to ten, and at most MaxBackoff.
BackoffAfter(n) ==
  LET b == Doublings[IF n < 10 THEN n ELSE 10] IN IF b < MaxBackoff THEN b ELSE MaxBackoff

\* record_endpoint_failure: an UPDATE that finds no row changes nothing.
RecordFailure(e) ==
  /\ task[e] = "failure"
  /\ \/ /\ started # Never
        /\ failures' = failures + 1
        /\ backoff' = now + BackoffAfter(failures + 1)
        /\ failedAt' = [failedAt EXCEPT ![e] = now]
        /\ UNCHANGED faults
     \/ started = Never /\ UNCHANGED <<failures, backoff, failedAt, faults>>
     \/ Fault /\ UNCHANGED <<failures, backoff, failedAt>>
  /\ Goto(e, "deadletter")
  /\ UNCHANGED <<channelVars, now, attempt, started, count, suppressed, received, checkedAt, verdict>>

\* The row in webhook_failures, or an error logged.
DeadLetter(e) ==
  /\ task[e] = "deadletter"
  /\ \/ Goto(e, "failed") /\ UNCHANGED faults
     \/ Fault /\ Goto(e, "unrecorded")
  /\ UNCHANGED <<channelVars, now, attempt, rowVars, suppressed, historyVars>>

-----------------------------------------------------------------------------
\* The process ends, by a crash or 30 seconds after a shutdown: its deliveries
\* and its channel are gone.  The next one receives what is broadcast from then.
Crash ==
  /\ Fault
  /\ task' = [e \in Events |->
                IF task[e] \in Running \/ (task[e] = "waiting" /\ e <= sent) THEN "lost"
                ELSE IF task[e] \in {"success", "acknowledge"} THEN "delivered"
                ELSE task[e]]
  /\ attempt' = [e \in Events |-> 1]
  /\ next' = sent + 1
  /\ UNCHANGED <<sent, now, rowVars, suppressed, historyVars>>

Deliver(e) ==
  \/ CheckSuppression(e) \/ CheckEndpoint(e) \/ CheckEndpointFails(e) \/ Defer(e)
  \/ PostSucceeds(e) \/ PostFails(e)
  \/ RecordSuccess(e) \/ Acknowledge(e) \/ RecordFailure(e) \/ DeadLetter(e)

Next == \/ Send \/ Tick \/ Toggle \/ Receive \/ Lagged \/ Crash
        \/ \E e \in Events : Deliver(e)

\* The receiving task and every delivery are tasks of the runtime; each wait
\* of theirs, for an answer (10 s), the database or a sleep, ends.
Fairness == WF_vars(Receive \/ Lagged) /\ \A e \in Events : WF_vars(Deliver(e))

Spec == Init /\ [][Next]_vars /\ Fairness

-----------------------------------------------------------------------------
(* Properties *)

Passed == {e \in Events : verdict[e] = "passed"}

\* In no stretch of a window's length, wherever it begins, do concurrent
\* deliveries get twice the limit past endpoint_rate_limited: the window that
\* begins anew has had its first call when the old one is already too old.
BurstBounded ==
  \A t \in 0..MaxTime :
    Cardinality({e \in Passed : checkedAt[e] \in t..(t + Window)}) <= 2 * Limit - 1

\* The deliveries counted no longer than a window's length before e was.
CountedBefore(e) ==
  {d \in Events : /\ checkedAt[d] # Never /\ checkedAt[d] <= checkedAt[e]
                  /\ checkedAt[e] - Window <= checkedAt[d]}

\* No event is put off without cause: more than Limit deliveries were counted
\* in the window before it, or one failed less than MaxBackoff ago.
DeferredForAReason ==
  \A e \in Events :
    /\ verdict[e] = "limit" => Cardinality(CountedBefore(e)) > Limit
    /\ verdict[e] = "backoff" =>
         \E d \in Events : /\ failedAt[d] # Never /\ failedAt[d] <= checkedAt[e]
                           /\ checkedAt[e] < failedAt[d] + MaxBackoff

Fate(e) == IF task[e] \in Ended THEN task[e]
           ELSE IF task[e] \in Told THEN "delivered" ELSE "pending"

\* Every event meets one fate, and the endpoint hears of it only before.
Fates == INSTANCE DeliveryFates WITH fate <- [e \in Events |-> Fate(e)]

ImplementsFates == Fates!Spec

\* Every event that is broadcast meets its fate.
EventuallyDecided == <>[](\A e \in 1..sent : Fate(e) # "pending")
=============================================================================
