-------------------------- MODULE SubscriptionQueue --------------------------
(***************************************************************************)
(* The delivery queue of src/subscriptions.rs and its two workers: the     *)
(* email worker (run_email_delivery_worker) and the push worker            *)
(* (src/push_notification.rs, run_push_delivery_worker), which main starts *)
(* on every replica. They read the same pending rows without locking them, *)
(* send, and mark the row afterwards; clients create subscriptions,        *)
(* acknowledge, cancel and change their channels meanwhile.                *)
(*                                                                         *)
(* create_subscription is the only code that runs which inserts rows:      *)
(* enqueue_event and run_delivery_worker have no callers. A row is due as  *)
(* soon as it is there (next_attempt_at is moved by run_delivery_worker    *)
(* only). Every subscription has the same e-mail address here, the case in *)
(* which they share its daily limit. The pause columns are read by neither *)
(* worker, and are left out; so are the logs the workers write.            *)
(***************************************************************************)
EXTENDS Integers, FiniteSets

CONSTANTS Subs, Events, Replicas, Tokens, None,
          Workers,     \* the workers whose service is configured, by replica
          Ledger,      \* [Events -> Nat]
          From,        \* [Subs -> Nat] the from_ledger each client asks for
          Rank,        \* [Subs -> Nat] the order of their ids
          Batch,       \* LIMIT 100: the subscriptions a worker reads at once
          Refusable,   \* the tokens the push service may find expired
          Limit,       \* EMAIL_DAILY_LIMIT
          MaxFaults,   \* bound: errors, crashes and dropped requests
          MaxCalls     \* bound: requests about existing subscriptions

ASSUME QueueAssumption ==
  /\ IsFiniteSet(Replicas) /\ Workers \subseteq Replicas \X {"mail", "push"}
  /\ None \notin Tokens \cup (Subs \X Events) /\ Refusable \subseteq Tokens
  /\ Ledger \in [Events -> Nat] /\ From \in [Subs -> Nat]
  /\ IsFiniteSet(Subs) /\ Rank \in [Subs -> Nat] /\ Batch \in Nat \ {0}
  /\ Limit \in Nat \ {0} /\ MaxFaults \in Nat /\ MaxCalls \in Nat

Mailers == {w \in Workers : w[2] = "mail"}
Rows == Subs \X Events
Tasks == [row : Rows, to : Tokens \cup {None}]

VARIABLES
  status,     \* [Subs -> ...] subscriptions.status, "none" before the insert
  acked,      \* [Subs -> Nat] acked_ledger
  mail,       \* [Subs -> BOOLEAN] email_enabled, with an address
  token,      \* [Subs -> ...] push_token of an enabled subscription
  queue,      \* [Rows -> ...] delivery_queue.status, "none" for no row
  creating,   \* subscriptions whose handler has not queued its events yet
  acking,     \* [Subs -> Nat] the ledger of a half-done acknowledgement, or 0
  pc,         \* [Workers -> ...] where each worker is
  todo,       \* [Workers -> SUBSET Tasks] what is left of the rows it read
  task,       \* [Workers -> Tasks] the row it is at
  charged,    \* send_count of the address, today
  faults,     \* errors, crashes and dropped requests so far
  calls,      \* requests so far
  sends,      \* history: [Rows -> Nat] messages sent
  late,       \* history: [Rows -> Nat] of those, sent when none was due any more
  lost,       \* history: [Rows -> Nat] messages sent that marked nothing
  mailed,     \* history: e-mails sent today
  asked,      \* history: [Subs -> ...] the token the client registered last
  raced       \* history: subscriptions that registered one during a send

table == <<status, acked, mail, token, creating, acking>>
work == <<pc, todo, task>>
budget == <<faults, calls>>
history == <<sends, late, lost, mailed, asked, raced>>
vars == <<table, queue, work, charged, budget, history>>

NoTask == [row |-> None, to |-> None]

TypeOK ==
  /\ status \in [Subs -> {"none", "active", "cancelled"}]
  /\ acked \in [Subs -> Nat] /\ acking \in [Subs -> Nat]
  /\ mail \in [Subs -> BOOLEAN]
  /\ token \in [Subs -> Tokens \cup {None}]
  /\ queue \in [Rows -> {"none", "pending", "delivered"}]
  /\ creating \subseteq Subs
  /\ pc \in [Workers -> {"idle", "row", "send", "mark"}]
  /\ todo \in [Workers -> SUBSET Tasks]
  /\ task \in [Workers -> Tasks \cup {NoTask}]
  /\ \A w \in Workers : task[w] = NoTask <=> pc[w] \in {"idle", "row"}
  /\ charged \in 0..(Limit + 1) /\ faults \in Nat /\ calls \in Nat /\ mailed \in Nat
  /\ sends \in [Rows -> Nat] /\ late \in [Rows -> Nat] /\ lost \in [Rows -> Nat]
  /\ raced \subseteq Subs
  /\ asked \in [Subs -> Tokens \cup {None}]

Init ==
  /\ creating = {} /\ charged = 0 /\ faults = 0 /\ calls = 0 /\ mailed = 0 /\ raced = {}
  /\ status = [s \in Subs |-> "none"]
  /\ acked = [s \in Subs |-> 0] /\ acking = acked
  /\ mail = [s \in Subs |-> FALSE]
  /\ token = [s \in Subs |-> None] /\ asked = token
  /\ queue = [r \in Rows |-> "none"]
  /\ pc = [w \in Workers |-> "idle"]
  /\ todo = [w \in Workers |-> {}]
  /\ task = [w \in Workers |-> NoTask]
  /\ sends = [r \in Rows |-> 0] /\ late = sends /\ lost = sends

Fault == faults < MaxFaults /\ faults' = faults + 1 /\ UNCHANGED calls
Call == calls < MaxCalls /\ calls' = calls + 1 /\ UNCHANGED faults

\* A message about the row is still due.
Due(row) == status[row[1]] = "active" /\ queue[row] = "pending"

-----------------------------------------------------------------------------
(* The clients *)

\* create_subscription inserts the subscription, ...
Create(s) ==
  /\ status[s] = "none"
  /\ status' = [status EXCEPT ![s] = "active"]
  /\ creating' = creating \cup {s}
  /\ UNCHANGED <<acked, mail, token, acking, queue, work, charged, budget, history>>

\* ... and, in a statement of its own, a row for every event there is by then.
Backfill(s, stored) ==
  /\ s \in creating /\ creating' = creating \ {s}
  /\ queue' = [r \in Rows |-> IF r[1] = s /\ r[2] \in stored /\ Ledger[r[2]] >= From[s]
                                THEN "pending" ELSE queue[r]]
  /\ UNCHANGED <<status, acked, mail, token, acking, work, charged, budget, history>>

\* The statement fails, or the request is dropped at the await.
BackfillLost(s) ==
  /\ Fault /\ s \in creating /\ creating' = creating \ {s}
  /\ UNCHANGED <<status, acked, mail, token, acking, queue, work, charged, history>>

Cancel(s) ==
  /\ Call /\ status[s] = "active" /\ s \notin creating
  /\ status' = [status EXCEPT ![s] = "cancelled"]
  /\ UNCHANGED <<acked, mail, token, creating, acking, queue, work, charged, history>>

\* ack_subscription moves acked_ledger, forward only and if active, ...
Ack(s, ledger) ==
  /\ Call /\ status[s] # "none" /\ s \notin creating /\ acking[s] = 0
  /\ acking' = [acking EXCEPT ![s] = ledger]
  /\ acked' = IF status[s] = "active" /\ acked[s] < ledger
                THEN [acked EXCEPT ![s] = ledger] ELSE acked
  /\ UNCHANGED <<status, mail, token, creating, queue, work, charged, history>>

\* ... and settles the rows up to the ledger, whatever the first did.
AckRows(s) ==
  /\ acking[s] > 0 /\ acking' = [acking EXCEPT ![s] = 0]
  /\ queue' = [r \in Rows |-> IF r[1] = s /\ Ledger[r[2]] <= acking[s] /\ queue[r] = "pending"
                                THEN "delivered" ELSE queue[r]]
  /\ UNCHANGED <<status, acked, mail, token, creating, work, charged, budget, history>>

AckLost(s) ==
  /\ Fault /\ acking[s] > 0 /\ acking' = [acking EXCEPT ![s] = 0]
  /\ UNCHANGED <<status, acked, mail, token, creating, queue, work, charged, history>>

\* update_subscription_email
SetMail(s, on) ==
  /\ Call /\ status[s] = "active" /\ s \notin creating
  /\ mail' = [mail EXCEPT ![s] = on]
  /\ UNCHANGED <<status, acked, token, creating, acking, queue, work, charged, history>>

\* A push worker has a message for s under way.
Pushing(s) ==
  \E w \in Workers : \E t \in todo[w] \cup {task[w]} :
    t # NoTask /\ t.row[1] = s /\ t.to # None

\* update_subscription_push
SetPush(s, t) ==
  /\ Call /\ status[s] = "active" /\ s \notin creating
  /\ token' = [token EXCEPT ![s] = t] /\ asked' = [asked EXCEPT ![s] = t]
  /\ raced' = IF Pushing(s) THEN raced \cup {s} ELSE raced \ {s}
  /\ UNCHANGED <<status, acked, mail, creating, acking, queue, work, charged,
                 sends, late, lost, mailed>>

-----------------------------------------------------------------------------
(* The workers *)

\* s.email_enabled, or s.push_enabled with a token
Wanted(w, s) == status[s] = "active" /\ (IF w[2] = "mail" THEN mail[s] ELSE token[s] # None)

\* Bug: no ORDER BY.
BugHeads(s) == {e \in Events : queue[<<s, e>>] = "pending"}

\* Bug: the status of the row is not looked at.
BugHeadsSettled(s) ==
  LET queued == {e \in Events : queue[<<s, e>>] # "none"}
  IN  {e \in queued : \A f \in queued : Ledger[e] <= Ledger[f]}

\* ORDER BY dq.ledger: the rows of s that may come first.
Heads(s) ==
  LET pending == {e \in Events : queue[<<s, e>>] = "pending"}
  IN  {e \in pending : \A f \in pending : Ledger[e] <= Ledger[f]}

Task(w, s, e) == [row |-> <<s, e>>, to |-> IF w[2] = "mail" THEN None ELSE token[s]]

\* The first of them by id.
FirstOf(subs) == {s \in subs : Cardinality({r \in subs : Rank[r] < Rank[s]}) < Batch}

\* Bug: the limit counts subscriptions that have no row as well.
BugPage(w) == {s \in FirstOf({r \in Subs : Wanted(w, r)}) : Heads(s) # {}}

\* ORDER BY s.id LIMIT 100
Page(w) == FirstOf({s \in Subs : Wanted(w, s) /\ Heads(s) # {}})

\* SELECT DISTINCT ON (s.id): one row of every subscription of the page.
Poll(w) ==
  /\ pc[w] = "idle" /\ Page(w) # {}
  /\ \E head \in [Page(w) -> Events] :
       /\ \A s \in Page(w) : head[s] \in Heads(s)
       /\ todo' = [todo EXCEPT ![w] = {Task(w, s, head[s]) : s \in Page(w)}]
  /\ pc' = [pc EXCEPT ![w] = "row"]
  /\ UNCHANGED <<table, queue, task, charged, budget, history>>

\* The loop over the rows has come to its end: sleep until the next tick.
Done(w) ==
  /\ pc[w] = "row" /\ todo[w] = {}
  /\ pc' = [pc EXCEPT ![w] = "idle"]
  /\ UNCHANGED <<table, queue, todo, task, charged, budget, history>>

\* The rows come in the order of their subscriptions.
Take(w, t) ==
  /\ pc[w] = "row" /\ t \in todo[w]
  /\ \A u \in todo[w] : Rank[t.row[1]] <= Rank[u.row[1]]
  /\ todo' = [todo EXCEPT ![w] = @ \ {t}]

Begin(w, t) ==
  /\ pc' = [pc EXCEPT ![w] = "send"]
  /\ task' = [task EXCEPT ![w] = t]

\* Bug: compare first, then count.
BugChargeLate(w, t) ==
  /\ w[2] = "mail" /\ Take(w, t)
  /\ charged' = IF charged > Limit THEN charged ELSE charged + 1
  /\ IF charged <= Limit THEN Begin(w, t) ELSE UNCHANGED <<pc, task>>
  /\ UNCHANGED <<table, queue, budget, history>>

\* check_and_increment_email_rate_limit: count first, then compare.
\* The counter stops where it says no: what lies beyond says the same.
Charge(w, t) ==
  /\ w[2] = "mail" /\ Take(w, t)
  /\ charged' = IF charged > Limit THEN charged ELSE charged + 1
  /\ IF charged' <= Limit THEN Begin(w, t) ELSE UNCHANGED <<pc, task>>
  /\ UNCHANGED <<table, queue, budget, history>>

\* The counter's statement fails: the row is left for the next poll.
ChargeFails(w, t) ==
  /\ w[2] = "mail" /\ Take(w, t) /\ Fault
  /\ UNCHANGED <<table, queue, pc, task, charged, history>>

\* The push worker has no limit.
StartPush(w, t) ==
  /\ w[2] = "push" /\ Take(w, t) /\ Begin(w, t)
  /\ UNCHANGED <<table, queue, charged, budget, history>>

Bump(f, r) == [f EXCEPT ![r] = @ + 1]

\* The service accepts the message.
Sent(w) ==
  LET row == task[w].row
  IN  /\ pc[w] = "send"
      /\ sends' = Bump(sends, row)
      /\ late' = IF Due(row) THEN late ELSE Bump(late, row)
      /\ mailed' = IF w[2] = "mail" THEN mailed + 1 ELSE mailed
      /\ UNCHANGED <<table, queue, todo, charged, asked, raced>>

\* It says so.
SendOk(w) ==
  /\ Sent(w) /\ pc' = [pc EXCEPT ![w] = "mark"]
  /\ UNCHANGED <<task, budget, lost>>

NextRow(w) ==
  /\ pc' = [pc EXCEPT ![w] = "row"]
  /\ task' = [task EXCEPT ![w] = NoTask]

\* Bug: a failed send is marked as a good one.
BugSendFails(w) ==
  /\ pc[w] = "send" /\ Fault /\ pc' = [pc EXCEPT ![w] = "mark"]
  /\ UNCHANGED <<table, queue, todo, task, charged, history>>

\* Bug: any failure of the push service counts as a refused token.
BugSendFailsWipes(w) ==
  /\ pc[w] = "send" /\ Fault /\ NextRow(w)
  /\ token' = [token EXCEPT ![task[w].row[1]] = None]
  /\ UNCHANGED <<status, acked, mail, creating, acking, queue, todo, charged, history>>

\* Its answer is lost, an error like any other: the row stays pending.
SendAnswerLost(w) ==
  /\ Sent(w) /\ Fault /\ NextRow(w)
  /\ lost' = Bump(lost, task[w].row)

\* The service cannot be reached or says no: logged, the row stays pending.
SendFails(w) ==
  /\ pc[w] = "send" /\ Fault /\ NextRow(w)
  /\ UNCHANGED <<table, queue, todo, charged, history>>

\* The service knows the token no more: whatever token the subscription has
\* by now is removed.
TokenRefused(w) ==
  /\ pc[w] = "send" /\ w[2] = "push" /\ task[w].to \in Refusable /\ NextRow(w)
  /\ token' = [token EXCEPT ![task[w].row[1]] = None]
  /\ UNCHANGED <<status, acked, mail, creating, acking, queue, todo, charged, budget, history>>

\* Bug: the push worker leaves the row pending.
BugMark(w) ==
  /\ pc[w] = "mark" /\ NextRow(w)
  /\ queue' = IF w[2] = "mail" THEN [queue EXCEPT ![task[w].row] = "delivered"] ELSE queue
  /\ UNCHANGED <<table, todo, charged, budget, history>>

\* UPDATE delivery_queue SET status = 'delivered'
Mark(w) ==
  /\ pc[w] = "mark" /\ NextRow(w)
  /\ queue' = [queue EXCEPT ![task[w].row] = "delivered"]
  /\ UNCHANGED <<table, todo, charged, budget, history>>

\* Its error is dropped.
MarkFails(w) ==
  /\ pc[w] = "mark" /\ Fault /\ NextRow(w)
  /\ lost' = Bump(lost, task[w].row)
  /\ UNCHANGED <<table, queue, todo, charged, sends, late, mailed, asked, raced>>

-----------------------------------------------------------------------------
\* A replica restarts: both its workers forget what they were at.
Crash(p) ==
  LET mine == {w \in Workers : w[1] = p}
      unmarked(r) == Cardinality({w \in mine : pc[w] = "mark" /\ task[w].row = r})
  IN  /\ Fault
      /\ \E w \in mine : pc[w] # "idle"
      /\ pc' = [w \in Workers |-> IF w \in mine THEN "idle" ELSE pc[w]]
      /\ todo' = [w \in Workers |-> IF w \in mine THEN {} ELSE todo[w]]
      /\ task' = [w \in Workers |-> IF w \in mine THEN NoTask ELSE task[w]]
      /\ lost' = [r \in Rows |-> lost[r] + unmarked(r)]
      /\ UNCHANGED <<table, queue, charged, sends, late, mailed, asked, raced>>

\* CURRENT_DATE changes: the address has a new counter.
NewDay ==
  /\ charged > 0 /\ charged' = 0 /\ mailed' = 0
  /\ UNCHANGED <<table, queue, work, budget, sends, late, lost, asked, raced>>

Client(s) ==
  \/ Create(s) \/ BackfillLost(s) \/ Cancel(s)
  \/ \E stored \in SUBSET Events : Backfill(s, stored)
  \/ \E e \in Events : Ack(s, Ledger[e])
  \/ AckRows(s) \/ AckLost(s)
  \/ \E on \in BOOLEAN : SetMail(s, on)
  \/ \E t \in Tokens \cup {None} : SetPush(s, t)

Worker(w) ==
  \/ Poll(w) \/ Done(w)
  \/ \E t \in todo[w] : Charge(w, t) \/ ChargeFails(w, t) \/ StartPush(w, t)
  \/ SendOk(w) \/ SendAnswerLost(w) \/ SendFails(w) \/ TokenRefused(w)
  \/ Mark(w) \/ MarkFails(w)

Next ==
  \/ \E s \in Subs : Client(s)
  \/ \E w \in Workers : Worker(w)
  \/ \E p \in Replicas : Crash(p)
  \/ NewDay

Spec == Init /\ [][Next]_vars

\* Every worker's loop goes on (an error is an outcome of its step), and
\* days pass.
FairSpec ==
  /\ Spec
  /\ \A w \in Workers : WF_vars(Worker(w))
  /\ WF_vars(NewDay)

-----------------------------------------------------------------------------
(* What the code promises *)

\* A row is taken off the queue (ack_subscription, both workers' UPDATE)
\* only if its event was sent on one of the channels or is acknowledged: no
\* failed send, expired token, error or crash takes it off. (The client of a
\* cancelled subscription still settles rows; its acked_ledger stays.)
SettledForAReason ==
  \A s \in Subs, e \in Events :
    queue[<<s, e>>] = "delivered" =>
      sends[<<s, e>>] > 0 \/ Ledger[e] <= acked[s] \/ status[s] = "cancelled"

\* The workers of all replicas read one row without locking it
\* (subscriptions.rs:823, push_notification.rs:722), so a subscriber may be
\* told of an event more than once: at most once by every worker, and once
\* more for every send whose answer or mark an error or a crash took away.
RepeatsBounded ==
  \A r \in Rows : sends[r] <= Cardinality(Workers) + lost[r]

\* After its acknowledgement or the cancellation of its subscription an event
\* is sent by those workers only that had read its row before, each once.
QuietAfterSettled ==
  \A r \in Rows : late[r] <= Cardinality(Workers)

\* The e-mails of a day, sent by all replicas, exceed EMAIL_DAILY_LIMIT by no
\* more than those that were counted before midnight and sent after it, one
\* per replica (check_and_increment_email_rate_limit).
DailyLimitKept == mailed <= Limit + Cardinality(Mailers)

\* A token the push service would accept is removed only if it was registered
\* while the worker had a message for an older one under way
\* (push_notification.rs:804 names the subscription, not the token).
ValidTokenKept ==
  \A s \in Subs :
    asked[s] \in Tokens \ Refusable => token[s] = asked[s] \/ s \in raced

\* The first message about an event comes after every queued event of an
\* earlier ledger has been sent or acknowledged, with any number of replicas
\* (docs/architecture.md:253).
FirstInOrder ==
  [][\A s \in Subs, e, f \in Events :
       /\ sends[<<s, e>>] = 0 /\ sends'[<<s, e>>] > 0
       /\ Ledger[f] < Ledger[e] /\ queue[<<s, f>>] # "none"
       => queue[<<s, f>>] = "delivered"]_vars

\* A queued event is sent or acknowledged in the end, unless the subscription
\* is cancelled or loses the channel: rows that fail stay at the head of the
\* queue and are tried again, subscriptions beyond the LIMIT of one poll come
\* up when those before them are through, and the daily limit is lifted every
\* day. (Of finitely many failures: rows that fail for ever hold up their
\* subscription, and a full page of such subscriptions all those behind it.)
EventuallyTold ==
  \A s \in Subs, e \in Events :
    /\ Due(<<s, e>>) /\ mail[s] ~> ~Due(<<s, e>>) \/ ~mail[s]
    /\ Due(<<s, e>>) /\ token[s] # None ~> ~Due(<<s, e>>) \/ token[s] = None

=============================================================================
