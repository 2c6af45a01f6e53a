----------------------- MODULE SubscriptionQueueProofs -----------------------
(***************************************************************************)
(* Proofs about SubscriptionQueue, for every number of subscriptions,      *)
(* events and workers. The argument: a worker holds tasks that were at the *)
(* head of the queue when it read them, one of each subscription, and it   *)
(* only ever drops them until it polls again.                              *)
(***************************************************************************)
EXTENDS SubscriptionQueue, FiniteSetTheorems, TLAPS

\* What w has read and is not through with.
Held(w) == (todo[w] \cup {task[w]}) \ {NoTask}

\* No row is there before create_subscription queues them.
BackfillFirst ==
  \A s \in Subs :
    /\ s \in creating => status[s] = "active"
    /\ s \in creating \/ status[s] = "none" => \A e \in Events : queue[<<s, e>>] = "none"

\* A row that is held is in the table, and no earlier one is pending.
HeldInOrder ==
  \A w \in Workers : \A t \in Held(w) :
    /\ queue[t.row] # "none"
    /\ \A f \in Events : Ledger[f] < Ledger[t.row[2]] => queue[<<t.row[1], f>>] # "pending"

\* A worker holds one row of a subscription.
HeldApart ==
  \A w \in Workers :
    /\ \A t, u \in todo[w] : t.row[1] = u.row[1] => t = u
    /\ task[w] # NoTask => \A t \in todo[w] : t.row[1] # task[w].row[1]

\* A row is marked after its message is out.
MarkSent == \A w \in Workers : pc[w] = "mark" => sends[task[w].row] > 0

\* An acknowledgement is recorded before it settles rows.
AckingAcked ==
  \A s \in Subs : acking[s] > 0 => acking[s] <= acked[s] \/ status[s] = "cancelled"

\* Without a race, what is pushed goes to the token that was registered last,
\* and only a token the service refuses is removed.
TokenKnown ==
  \A s \in Subs \ raced :
    /\ token[s] = asked[s] \/ (token[s] = None /\ asked[s] \in Refusable)
    /\ \A w \in Workers : \A t \in Held(w) : t.row[1] = s /\ t.to # None => t.to = asked[s]

-----------------------------------------------------------------------------
(* Tasks *)

\* A task names a row of a subscription, and is not the absence of one.
LEMMA TaskRow ==
  ASSUME NEW t \in Tasks
  PROVE  /\ t.row \in Rows /\ t.row[1] \in Subs /\ t.row[2] \in Events
         /\ t.row = <<t.row[1], t.row[2]>>
         /\ t.to \in Tokens \cup {None} /\ t # NoTask
  BY QueueAssumption DEF Tasks, Rows, NoTask

\* The task a worker makes of a row.
LEMMA MadeTask ==
  ASSUME NEW w \in Workers, NEW s \in Subs, NEW e \in Events, token \in [Subs -> Tokens \cup {None}]
  PROVE  /\ Task(w, s, e) \in Tasks /\ Task(w, s, e).row = <<s, e>>
         /\ Task(w, s, e).to # None => Task(w, s, e).to = token[s]
  BY DEF Task, Tasks, Rows

\* What a worker holds are tasks; at "send" and "mark" it is at one.
LEMMA HeldTasks ==
  ASSUME TypeOK, NEW w \in Workers
  PROVE  /\ Held(w) \subseteq Tasks /\ todo[w] \subseteq Held(w)
         /\ pc[w] \in {"send", "mark"} => task[w] \in Held(w)
  <1>1. todo[w] \subseteq Tasks /\ task[w] \in Tasks \cup {NoTask}
    BY DEF TypeOK
  <1>2. \A t \in todo[w] : t # NoTask
    BY <1>1, TaskRow
  <1> QED BY <1>1, <1>2 DEF Held, TypeOK

\* The tasks Poll reads: one of each subscription, at the head of its queue.
LEMMA PollTakes ==
  ASSUME TypeOK, NEW w \in Workers, Poll(w)
  PROVE  /\ \A t \in todo'[w] :
              \E s \in Subs, e \in Events :
                t = Task(w, s, e) /\ Wanted(w, s) /\ e \in Heads(s)
         /\ todo'[w] \subseteq Tasks
         /\ \A t, u \in todo'[w] : t.row[1] = u.row[1] => t = u
         /\ \A v \in Workers \ {w} : todo'[v] = todo[v]
         /\ todo' \in [Workers -> SUBSET Tasks]
  <1> DEFINE due == Page(w)
  <1>1. PICK head \in [due -> Events] :
          /\ \A s \in due : head[s] \in Heads(s)
          /\ todo' = [todo EXCEPT ![w] = {Task(w, s, head[s]) : s \in due}]
    BY DEF Poll
  <1>2. \A s \in due : s \in Subs /\ head[s] \in Events /\ Wanted(w, s)
    BY DEF Page, FirstOf
  <1>3. token \in [Subs -> Tokens \cup {None}] /\ todo \in [Workers -> SUBSET Tasks]
    BY DEF TypeOK
  <1>4. todo'[w] = {Task(w, s, head[s]) : s \in due}
    BY <1>1, <1>3
  <1> HIDE DEF due
  <1>5. \A s \in due : Task(w, s, head[s]) \in Tasks /\ Task(w, s, head[s]).row = <<s, head[s]>>
    BY <1>2, <1>3, MadeTask
  <1>6. \A s \in due : Task(w, s, head[s]).row[1] = s
    BY <1>5
  <1>7. todo'[w] \subseteq Tasks
    BY <1>4, <1>5
  <1>8. \A t, u \in todo'[w] : t.row[1] = u.row[1] => t = u
    BY <1>4, <1>6
  <1>9. \A t \in todo'[w] :
          \E s \in Subs, e \in Events :
            t = Task(w, s, e) /\ Wanted(w, s) /\ e \in Heads(s)
    BY <1>1, <1>2, <1>4
  <1> QED BY <1>1, <1>3, <1>7, <1>8, <1>9

\* Only Poll adds to what a worker holds.
LEMMA HeldShrinks ==
  ASSUME TypeOK, [Next]_vars, \A w \in Workers : ~Poll(w)
  PROVE  \A v \in Workers : Held(v)' \subseteq Held(v) /\ todo'[v] \subseteq todo[v]
  <1> USE DEF Held, TypeOK, work, table, budget, history
  <1>1. CASE UNCHANGED work
    BY <1>1
  <1>2. ASSUME NEW s \in Subs, Client(s) PROVE UNCHANGED work
    BY <1>2 DEF Client, Create, Backfill, BackfillLost, Cancel, Ack, AckRows, AckLost, SetMail, SetPush
  <1>3. ASSUME NEW w \in Workers, NEW v \in Workers, NEW t \in todo[w],
               Charge(w, t) \/ ChargeFails(w, t) \/ StartPush(w, t)
        PROVE  Held(v)' \subseteq Held(v) /\ todo'[v] \subseteq todo[v]
    BY <1>3 DEF Charge, ChargeFails, StartPush, Take, Begin
  <1>4. ASSUME NEW w \in Workers, NEW v \in Workers,
               \/ Done(w) \/ SendOk(w) \/ SendAnswerLost(w) \/ SendFails(w) \/ TokenRefused(w)
               \/ Mark(w) \/ MarkFails(w)
        PROVE  Held(v)' \subseteq Held(v) /\ todo'[v] \subseteq todo[v]
    BY <1>4 DEF Done, SendOk, SendAnswerLost, Sent, SendFails, TokenRefused, Mark, MarkFails, NextRow
  <1>5. ASSUME NEW p \in Replicas, NEW v \in Workers, Crash(p)
        PROVE  Held(v)' \subseteq Held(v) /\ todo'[v] \subseteq todo[v]
    BY <1>5 DEF Crash
  <1>6. CASE NewDay
    BY <1>6 DEF NewDay
  <1>7. CASE UNCHANGED vars
    BY <1>7 DEF vars
  <1> QED BY <1>1, <1>2, <1>3, <1>4, <1>5, <1>6, <1>7 DEF Next, Worker

-----------------------------------------------------------------------------
(* Types *)

\* The product of the replicas and the kinds of worker is finite.
LEMMA WorkersFinite ==
  IsFiniteSet(Workers) /\ IsFiniteSet(Mailers) /\ Cardinality(Workers) \in Nat
  /\ Cardinality(Mailers) \in Nat
  <1>1. IsFiniteSet({"mail", "push"})
    <2>1. IsFiniteSet({"mail"}) /\ IsFiniteSet({"push"})
      BY FS_Singleton
    <2>2. {"mail", "push"} = {"mail"} \cup {"push"}
      OBVIOUS
    <2> QED BY <2>1, <2>2, FS_Union
  <1>2. IsFiniteSet(Replicas \X {"mail", "push"})
    BY <1>1, QueueAssumption, FS_Product
  <1>3. IsFiniteSet(Workers) /\ IsFiniteSet(Mailers)
    <2>1. Workers \subseteq Replicas \X {"mail", "push"} /\ Mailers \subseteq Workers
      BY QueueAssumption DEF Mailers
    <2>2. IsFiniteSet(Workers)
      BY <2>1, <1>2, FS_Subset
    <2> QED BY <2>1, <2>2, FS_Subset
  <1> QED BY <1>3, FS_CardinalityType

\* The initial states have the types of TypeOK.
LEMMA InitTypes == Init => TypeOK
  BY QueueAssumption DEF Init, TypeOK, NoTask

\* Every step preserves the types.
LEMMA TypesStep == TypeOK /\ [Next]_vars => TypeOK'
  <1> USE DEF TypeOK, work, table, budget, history, Fault, Call, NextRow, Bump
  <1> SUFFICES ASSUME TypeOK, [Next]_vars PROVE TypeOK'
    OBVIOUS
  <1>1. ASSUME NEW s \in Subs, Create(s) \/ BackfillLost(s) \/ Cancel(s) \/ AckRows(s) \/ AckLost(s)
        PROVE TypeOK'
    BY <1>1 DEF Create, BackfillLost, Cancel, AckRows, AckLost
  <1>2. ASSUME NEW s \in Subs, NEW stored \in SUBSET Events, Backfill(s, stored) PROVE TypeOK'
    BY <1>2 DEF Backfill
  <1>3. ASSUME NEW s \in Subs, NEW e \in Events, Ack(s, Ledger[e]) PROVE TypeOK'
    BY <1>3, QueueAssumption DEF Ack
  <1>4. ASSUME NEW s \in Subs, NEW on \in BOOLEAN, SetMail(s, on) PROVE TypeOK'
    BY <1>4 DEF SetMail
  <1>5. ASSUME NEW s \in Subs, NEW t \in Tokens \cup {None}, SetPush(s, t) PROVE TypeOK'
    BY <1>5 DEF SetPush
  <1>6. ASSUME NEW w \in Workers, Poll(w) PROVE TypeOK'
    <2>1. todo' \in [Workers -> SUBSET Tasks]
      BY <1>6, PollTakes
    <2> QED BY <1>6, <2>1 DEF Poll
  <1>7. ASSUME NEW w \in Workers, Done(w) PROVE TypeOK'
    BY <1>7 DEF Done
  <1>8. ASSUME NEW w \in Workers, NEW t \in todo[w],
               Charge(w, t) \/ ChargeFails(w, t) \/ StartPush(w, t)
        PROVE TypeOK'
    <2>1. t \in Tasks /\ t # NoTask
      BY TaskRow
    <2>2. CASE Charge(w, t)
      <3>1. charged' \in 0..(Limit + 1)
        BY <2>2, QueueAssumption DEF Charge
      <3> QED BY <2>1, <2>2, <3>1 DEF Charge, Take, Begin
    <2>3. CASE ChargeFails(w, t)
      BY <2>1, <2>3 DEF ChargeFails, Take
    <2>4. CASE StartPush(w, t)
      BY <2>1, <2>4 DEF StartPush, Take, Begin
    <2> QED BY <1>8, <2>2, <2>3, <2>4
  <1>9. ASSUME NEW w \in Workers, SendOk(w) \/ SendAnswerLost(w) PROVE TypeOK'
    <2>1. task[w] \in Tasks /\ task[w].row \in Rows
      BY <1>9, TaskRow DEF SendOk, SendAnswerLost, Sent
    <2>2. sends' \in [Rows -> Nat] /\ late' \in [Rows -> Nat] /\ lost' \in [Rows -> Nat]
      BY <1>9, <2>1 DEF SendOk, SendAnswerLost, Sent
    <2> QED BY <1>9, <2>2 DEF SendOk, SendAnswerLost, Sent
  <1>10. ASSUME NEW w \in Workers, SendFails(w) PROVE TypeOK'
    BY <1>10 DEF SendFails
  <1>11. ASSUME NEW w \in Workers, TokenRefused(w) PROVE TypeOK'
    BY <1>11 DEF TokenRefused
  <1>12. ASSUME NEW w \in Workers, Mark(w) PROVE TypeOK'
    BY <1>12 DEF Mark
  <1>13. ASSUME NEW w \in Workers, MarkFails(w) PROVE TypeOK'
    <2>1. task[w] \in Tasks /\ task[w].row \in Rows
      BY <1>13, TaskRow DEF MarkFails
    <2>2. lost' \in [Rows -> Nat]
      BY <1>13, <2>1 DEF MarkFails
    <2> QED BY <1>13, <2>2 DEF MarkFails
  <1>14. ASSUME NEW p \in Replicas, Crash(p) PROVE TypeOK'
    <2> DEFINE unmarked(r) == {w \in {v \in Workers : v[1] = p} : pc[w] = "mark" /\ task[w].row = r}
    <2>1. \A r \in Rows : Cardinality(unmarked(r)) \in Nat
      <3> TAKE r \in Rows
      <3>1. unmarked(r) \subseteq Workers
        OBVIOUS
      <3> QED BY <3>1, WorkersFinite, FS_Subset, FS_CardinalityType
    <2>2. lost' = [r \in Rows |-> lost[r] + Cardinality(unmarked(r))]
      BY <1>14 DEF Crash
    <2>3. lost' \in [Rows -> Nat]
      BY <2>1, <2>2
    <2> QED BY <1>14, <2>3 DEF Crash
  <1>15. CASE NewDay
    BY <1>15, QueueAssumption DEF NewDay
  <1>16. CASE UNCHANGED vars
    BY <1>16 DEF vars
  <1> QED
    BY <1>1, <1>2, <1>3, <1>4, <1>5, <1>6, <1>7, <1>8, <1>9, <1>10, <1>11, <1>12, <1>13, <1>14, <1>15, <1>16
    DEF Next, Client, Worker

-----------------------------------------------------------------------------
(* Reasons and order *)

\* The parts of the invariant that count nothing.
Orderly ==
  /\ BackfillFirst /\ HeldInOrder /\ HeldApart /\ MarkSent /\ AckingAcked
  /\ TokenKnown /\ SettledForAReason

\* The head of a queue is pending, and nothing before it is.
LEMMA HeadFirst ==
  ASSUME NEW s \in Subs, NEW e \in Heads(s)
  PROVE  /\ e \in Events /\ queue[<<s, e>>] = "pending"
         /\ \A f \in Events : Ledger[f] < Ledger[e] => queue[<<s, f>>] # "pending"
  BY QueueAssumption DEF Heads

\* Rows come only while no one can hold any of the subscription.
LEMMA BackfillFirstStep ==
  ASSUME TypeOK, BackfillFirst, HeldInOrder, [Next]_vars
  PROVE  /\ BackfillFirst'
         /\ \A w \in Workers : \A t \in Held(w) :
              \A f \in Events : queue[<<t.row[1], f>>] # "pending"
                => queue'[<<t.row[1], f>>] # "pending"
         /\ \A r \in Rows : queue[r] # "none" => queue'[r] # "none"
  <1> USE DEF TypeOK, work, table, budget, history, Fault, Call, BackfillFirst, Rows
  <1>1. CASE UNCHANGED <<queue, status, creating>>
    BY <1>1
  <1>2. ASSUME NEW s \in Subs, Create(s) \/ BackfillLost(s) \/ Cancel(s)
        PROVE  BackfillFirst' /\ UNCHANGED queue
    BY <1>2 DEF Create, BackfillLost, Cancel
  <1>3. ASSUME NEW s \in Subs, NEW stored \in SUBSET Events, Backfill(s, stored)
        PROVE  /\ BackfillFirst'
               /\ \A w \in Workers : \A t \in Held(w) :
                    \A f \in Events : queue[<<t.row[1], f>>] # "pending"
                      => queue'[<<t.row[1], f>>] # "pending"
               /\ \A r \in Rows : queue[r] # "none" => queue'[r] # "none"
    <2>1. \A w \in Workers : \A t \in Held(w) : t.row[1] \in Subs /\ t.row[1] # s
      <3> SUFFICES ASSUME NEW w \in Workers, NEW t \in Held(w) PROVE t.row[1] \in Subs /\ t.row[1] # s
        OBVIOUS
      <3>1. t \in Tasks /\ queue[t.row] # "none"
        BY HeldTasks DEF HeldInOrder
      <3>2. t.row = <<t.row[1], t.row[2]>> /\ t.row[1] \in Subs /\ t.row[2] \in Events
        BY <3>1, TaskRow
      <3>3. \A e \in Events : queue[<<s, e>>] = "none"
        BY <1>3 DEF Backfill
      <3>4. ASSUME t.row[1] = s PROVE FALSE
        <4>1. t.row = <<s, t.row[2]>>
          BY <3>2, <3>4
        <4>2. queue[<<s, t.row[2]>>] = "none"
          BY <3>2, <3>3
        <4> QED BY <3>1, <4>1, <4>2
      <3> QED BY <3>2, <3>4
    <2>2. queue' = [r \in Rows |-> IF r[1] = s /\ r[2] \in stored /\ Ledger[r[2]] >= From[s]
                                     THEN "pending" ELSE queue[r]]
      BY <1>3 DEF Backfill
    <2>3. \A r \in Rows : r[1] # s => queue'[r] = queue[r]
      BY <2>2
    <2>4. BackfillFirst'
      BY <1>3, <2>3 DEF Backfill
    <2>5. \A r \in Rows : queue[r] # "none" => queue'[r] # "none"
      BY <2>2
    <2> QED BY <2>1, <2>3, <2>4, <2>5
  <1>4. ASSUME NEW s \in Subs, AckRows(s)
        PROVE  BackfillFirst' /\ \A r \in Rows : /\ queue[r] # "none" => queue'[r] # "none"
                                                 /\ queue'[r] = "pending" => queue[r] = "pending"
    BY <1>4 DEF AckRows
  <1>5. ASSUME NEW w \in Workers, Mark(w)
        PROVE  BackfillFirst' /\ \A r \in Rows : /\ queue[r] # "none" => queue'[r] # "none"
                                                 /\ queue'[r] = "pending" => queue[r] = "pending"
    <2>1. task[w].row \in Rows /\ queue[task[w].row] # "none"
      <3>1. task[w] \in Held(w) /\ Held(w) \subseteq Tasks
        BY <1>5, HeldTasks DEF Mark
      <3>2. task[w].row \in Rows
        BY <3>1, TaskRow
      <3> QED BY <3>1, <3>2 DEF HeldInOrder
    <2> QED BY <1>5, <2>1 DEF Mark
  <1>6. \A w \in Workers : \A t \in Held(w) : t.row[1] \in Subs
    BY HeldTasks, TaskRow
  <1>7. ASSUME NEW s \in Subs, Client(s), ~AckRows(s), \A stored \in SUBSET Events : ~Backfill(s, stored),
               ~(Create(s) \/ BackfillLost(s) \/ Cancel(s))
        PROVE  UNCHANGED <<queue, status, creating>>
    <2>1. CASE \E e \in Events : Ack(s, Ledger[e])
      BY <2>1 DEF Ack
    <2>2. CASE AckLost(s) \/ (\E on \in BOOLEAN : SetMail(s, on))
               \/ (\E t \in Tokens \cup {None} : SetPush(s, t))
      BY <2>2 DEF AckLost, SetMail, SetPush
    <2> QED BY <1>7, <2>1, <2>2 DEF Client
  <1>8. ASSUME NEW w \in Workers, Worker(w), ~Mark(w)
        PROVE  UNCHANGED <<queue, status, creating>>
    BY <1>8 DEF Worker, Poll, Done, Charge, ChargeFails, StartPush, SendOk, SendAnswerLost, Sent, SendFails, TokenRefused, MarkFails
  <1>9. ASSUME NEW p \in Replicas, Crash(p)
        PROVE  UNCHANGED <<queue, status, creating>>
    BY <1>9 DEF Crash
  <1>10. CASE NewDay
    BY <1>1, <1>10 DEF NewDay
  <1>11. CASE UNCHANGED vars
    BY <1>1, <1>11 DEF vars
  <1> QED
    BY <1>1, <1>2, <1>3, <1>4, <1>5, <1>6, <1>7, <1>8, <1>9, <1>10, <1>11 DEF Next

\* What a worker reads is in order; what it holds stays so.
LEMMA HeldInOrderStep ==
  TypeOK /\ BackfillFirst /\ HeldInOrder /\ [Next]_vars => HeldInOrder'
  <1> SUFFICES ASSUME TypeOK, BackfillFirst, HeldInOrder, [Next]_vars PROVE HeldInOrder'
    OBVIOUS
  <1>1. ASSUME NEW v \in Workers, NEW t \in Held(v)
        PROVE  /\ queue'[t.row] # "none"
               /\ \A f \in Events : Ledger[f] < Ledger[t.row[2]]
                    => queue'[<<t.row[1], f>>] # "pending"
    <2>1. t.row \in Rows
      BY HeldTasks, TaskRow
    <2> QED BY <2>1, BackfillFirstStep DEF HeldInOrder
  <1>2. ASSUME NEW w \in Workers, Poll(w), NEW v \in Workers, NEW t \in Held(v)', t \notin Held(v)
        PROVE  /\ queue'[t.row] # "none"
               /\ \A f \in Events : Ledger[f] < Ledger[t.row[2]]
                    => queue'[<<t.row[1], f>>] # "pending"
    <2>1. t \in todo'[w] /\ UNCHANGED queue
      BY <1>2, PollTakes DEF Held, Poll
    <2>2. PICK s \in Subs, e \in Events : t = Task(w, s, e) /\ e \in Heads(s)
      BY <1>2, <2>1, PollTakes
    <2>3. t.row = <<s, e>>
      BY <2>2, MadeTask DEF TypeOK
    <2>4. t.row[1] = s /\ t.row[2] = e
      BY <2>3
    <2>5. queue[<<s, e>>] = "pending"
          /\ \A f \in Events : Ledger[f] < Ledger[e] => queue[<<s, f>>] # "pending"
      BY <2>2, HeadFirst
    <2> QED BY <2>1, <2>3, <2>4, <2>5
  <1>3. ASSUME \A w \in Workers : ~Poll(w)
        PROVE  \A v \in Workers : Held(v)' \subseteq Held(v)
    BY <1>3, HeldShrinks
  <1> QED BY <1>1, <1>2, <1>3 DEF HeldInOrder

\* The rows of a poll are apart, and Begin takes a row out of the others.
LEMMA HeldApartStep == TypeOK /\ HeldApart /\ [Next]_vars => HeldApart'
  <1> USE DEF TypeOK, HeldApart, work, table, budget, history
  <1> SUFFICES ASSUME TypeOK, HeldApart, [Next]_vars PROVE HeldApart'
    OBVIOUS
  <1>1. ASSUME \A w \in Workers : ~Poll(w),
               \A w \in Workers : task'[w] \in {task[w], NoTask}
        PROVE  HeldApart'
    <2>1. \A v \in Workers : todo'[v] \subseteq todo[v]
      BY <1>1, HeldShrinks
    <2> QED BY <1>1, <2>1
  <1>2. ASSUME NEW w \in Workers, Poll(w) PROVE HeldApart'
    <2>1. UNCHANGED task /\ task[w] = NoTask
      BY <1>2 DEF Poll
    <2> QED BY <1>2, <2>1, PollTakes
  <1>3. ASSUME NEW w \in Workers, NEW t \in todo[w], Charge(w, t) \/ StartPush(w, t)
        PROVE  HeldApart'
    <2>1. /\ todo' = [todo EXCEPT ![w] = @ \ {t}]
          /\ task' = task \/ task' = [task EXCEPT ![w] = t]
      BY <1>3 DEF Charge, StartPush, Take, Begin
    <2>2. ASSUME NEW v \in Workers, v # w
          PROVE  todo'[v] = todo[v] /\ task'[v] = task[v]
      BY <2>1, <2>2
    <2>3. todo'[w] = todo[w] \ {t} /\ task'[w] \in {task[w], t}
      BY <2>1
    <2>4. \A u \in todo'[w] : u.row[1] # t.row[1]
      BY <2>3
    <2> QED BY <2>2, <2>3, <2>4
  <1>4. ASSUME NEW w \in Workers, Worker(w), ~Poll(w), \A t \in todo[w] : ~Charge(w, t) /\ ~StartPush(w, t)
        PROVE  \A v \in Workers : task'[v] \in {task[v], NoTask}
    BY <1>4 DEF Worker, Done, ChargeFails, SendOk, SendAnswerLost, Sent, SendFails, TokenRefused, Mark, MarkFails, NextRow
  <1>5. ASSUME NEW s \in Subs, Client(s) PROVE UNCHANGED work
    BY <1>5 DEF Client, Create, Backfill, BackfillLost, Cancel, Ack, AckRows, AckLost, SetMail, SetPush
  <1>6. ASSUME NEW p \in Replicas, Crash(p)
        PROVE  \A v \in Workers : task'[v] \in {task[v], NoTask}
    BY <1>6 DEF Crash
  <1>7. CASE NewDay \/ UNCHANGED vars
    BY <1>7 DEF NewDay, vars
  <1>8. CASE UNCHANGED work
    BY <1>8
  <1>9. CASE \A w \in Workers : ~Poll(w)
    BY <1>1, <1>3, <1>4, <1>5, <1>6, <1>7, <1>8, <1>9 DEF Next
  <1> QED BY <1>2, <1>9

\* The counts only grow, and a worker at "mark" has raised its row's.
LEMMA MarkSentStep == TypeOK /\ MarkSent /\ [Next]_vars => MarkSent' /\ \A r \in Rows : sends'[r] >= sends[r]
  <1> USE DEF TypeOK, work, table, budget, history
  <1> SUFFICES ASSUME TypeOK, MarkSent, [Next]_vars
               PROVE  MarkSent' /\ \A r \in Rows : sends'[r] >= sends[r]
    OBVIOUS
  <1>0. ASSUME UNCHANGED sends,
               \A w \in Workers : pc'[w] = "mark" => pc[w] = "mark" /\ task'[w] = task[w]
        PROVE  MarkSent' /\ \A r \in Rows : sends'[r] >= sends[r]
    BY <1>0 DEF MarkSent
  <1>1. ASSUME NEW w \in Workers, SendOk(w) \/ SendAnswerLost(w)
        PROVE  MarkSent' /\ \A r \in Rows : sends'[r] >= sends[r]
    <2>1. pc[w] = "send" /\ sends' = [sends EXCEPT ![task[w].row] = @ + 1]
      BY <1>1 DEF SendOk, SendAnswerLost, Sent, Bump
    <2>2. task[w] \in Tasks /\ task[w].row \in Rows
      BY <2>1, TaskRow
    <2>3. \A r \in Rows : sends'[r] >= sends[r] /\ (r = task[w].row => sends'[r] > 0)
      BY <2>1, <2>2
    <2>4. \A v \in Workers : pc[v] = "mark" => task[v].row \in Rows
      <3>1. \A v \in Workers : pc[v] = "mark" => task[v] \in Tasks
        OBVIOUS
      <3> QED BY <3>1, TaskRow
    <2>5. ASSUME NEW v \in Workers, pc'[v] = "mark"
          PROVE  task'[v] = task[v] /\ (v = w \/ pc[v] = "mark")
      BY <1>1, <2>5 DEF SendOk, SendAnswerLost, Sent, NextRow
    <2>6. ASSUME NEW v \in Workers, pc'[v] = "mark" PROVE sends'[task[v].row] > 0
      <3>1. CASE v = w
        BY <3>1, <2>2, <2>3
      <3>2. CASE v # w
        <4>1. pc[v] = "mark"
          BY <2>5, <2>6, <3>2
        <4>2. task[v].row \in Rows /\ sends[task[v].row] > 0
          BY <4>1, <2>4 DEF MarkSent
        <4> HIDE DEF TypeOK
        <4>3. sends[task[v].row] \in Nat /\ sends'[task[v].row] \in Nat
          BY <4>2, TypesStep DEF TypeOK
        <4> QED BY <2>3, <4>2, <4>3
      <3> QED BY <3>1, <3>2
    <2> QED BY <2>3, <2>5, <2>6 DEF MarkSent
  <1>2. ASSUME NEW w \in Workers, Worker(w), ~SendOk(w), ~SendAnswerLost(w)
        PROVE  /\ UNCHANGED sends
               /\ \A v \in Workers : pc'[v] = "mark" => pc[v] = "mark" /\ task'[v] = task[v]
    BY <1>2 DEF Worker, Poll, Done, Charge, ChargeFails, StartPush, Take, Begin, SendFails,
                TokenRefused, Mark, MarkFails, NextRow
  <1>3. ASSUME NEW s \in Subs, Client(s) PROVE UNCHANGED <<work, sends>>
    BY <1>3 DEF Client, Create, Backfill, BackfillLost, Cancel, Ack, AckRows, AckLost, SetMail, SetPush
  <1>4. ASSUME NEW p \in Replicas, Crash(p)
        PROVE  /\ UNCHANGED sends
               /\ \A v \in Workers : pc'[v] = "mark" => pc[v] = "mark" /\ task'[v] = task[v]
    BY <1>4 DEF Crash
  <1>5. CASE NewDay \/ UNCHANGED vars
    BY <1>0, <1>5 DEF NewDay, vars
  <1> QED BY <1>0, <1>1, <1>2, <1>3, <1>4, <1>5 DEF Next

\* A row leaves the queue by an acknowledgement that was recorded, or by the
\* worker whose message about it is out.
LEMMA SettledStep ==
  TypeOK /\ MarkSent /\ AckingAcked /\ SettledForAReason /\ [Next]_vars
    => AckingAcked' /\ SettledForAReason'
  <1> USE QueueAssumption DEF TypeOK, AckingAcked, SettledForAReason, Rows, table, budget, history, Fault, Call
  <1> SUFFICES ASSUME TypeOK, MarkSent, AckingAcked, SettledForAReason, [Next]_vars
               PROVE  AckingAcked' /\ SettledForAReason'
    OBVIOUS
  <1>1. \A r \in Rows : sends'[r] >= sends[r] /\ sends'[r] \in Nat
    BY MarkSentStep, TypesStep
  <1>0. ASSUME UNCHANGED <<status, acked, acking, queue>>
        PROVE  AckingAcked' /\ SettledForAReason'
    BY <1>0, <1>1
  <1>2. ASSUME NEW s \in Subs, Create(s) \/ BackfillLost(s) \/ Cancel(s) \/ AckLost(s)
        PROVE  AckingAcked' /\ SettledForAReason'
    BY <1>2 DEF Create, BackfillLost, Cancel, AckLost
  <1>3. ASSUME NEW s \in Subs, NEW stored \in SUBSET Events, Backfill(s, stored)
        PROVE  AckingAcked' /\ SettledForAReason'
    BY <1>3 DEF Backfill
  <1>4. ASSUME NEW s \in Subs, NEW e \in Events, Ack(s, Ledger[e])
        PROVE  AckingAcked' /\ SettledForAReason'
    <2>1. status[s] \in {"active", "cancelled"} /\ Ledger[e] \in Nat
      BY <1>4 DEF Ack
    <2>2. /\ \A q \in Subs : acked'[q] >= acked[q] /\ acked'[q] \in Nat
          /\ status[s] = "active" => acked'[s] >= Ledger[e]
      BY <1>4, <2>1 DEF Ack
    <2>3. AckingAcked'
      BY <1>4, <2>1, <2>2 DEF Ack
    <2>4. SettledForAReason'
      BY <1>4, <2>2 DEF Ack
    <2> QED BY <2>3, <2>4
  <1>5. ASSUME NEW s \in Subs, AckRows(s)
        PROVE  AckingAcked' /\ SettledForAReason'
    <2>1. AckingAcked'
      BY <1>5 DEF AckRows
    <2>2. ASSUME NEW q \in Subs, NEW e \in Events, queue'[<<q, e>>] = "delivered"
          PROVE  \/ queue[<<q, e>>] = "delivered"
                 \/ q = s /\ Ledger[e] <= acking[s] /\ acking[s] > 0
      BY <1>5, <2>2 DEF AckRows
    <2>3. UNCHANGED <<sends, acked, status>>
      BY <1>5 DEF AckRows
    <2> QED BY <2>1, <2>2, <2>3
  <1>6. ASSUME NEW w \in Workers, Mark(w)
        PROVE  AckingAcked' /\ SettledForAReason'
    <2>1. queue' = [queue EXCEPT ![task[w].row] = "delivered"] /\ UNCHANGED <<sends, acked, acking, status>>
          /\ sends[task[w].row] > 0
      BY <1>6 DEF Mark, MarkSent
    <2>2. \A r \in Rows : queue'[r] = "delivered" => queue[r] = "delivered" \/ sends[r] > 0
      BY <2>1
    <2> QED BY <2>1, <2>2
  <1>7. ASSUME NEW s \in Subs,
               (\E on \in BOOLEAN : SetMail(s, on)) \/ (\E t \in Tokens \cup {None} : SetPush(s, t))
        PROVE  UNCHANGED <<status, acked, acking, queue>>
    BY <1>7 DEF SetMail, SetPush
  <1>8. ASSUME NEW w \in Workers, Worker(w), ~Mark(w)
        PROVE  UNCHANGED <<status, acked, acking, queue>>
    BY <1>8 DEF Worker, Poll, Done, Charge, ChargeFails, StartPush, SendOk, SendAnswerLost, Sent, SendFails, TokenRefused, MarkFails
  <1>9. ASSUME NEW p \in Replicas, Crash(p)
        PROVE  UNCHANGED <<status, acked, acking, queue>>
    BY <1>9 DEF Crash
  <1>10. CASE NewDay \/ UNCHANGED vars
    BY <1>0, <1>10 DEF NewDay, vars
  <1> QED
    BY <1>0, <1>2, <1>3, <1>4, <1>5, <1>6, <1>7, <1>8, <1>9, <1>10 DEF Next, Client

\* The token of a subscription changes with its client's, or is refused.
LEMMA TokenKnownStep == TypeOK /\ TokenKnown /\ [Next]_vars => TokenKnown'
  <1> SUFFICES ASSUME TypeOK, TokenKnown, [Next]_vars PROVE TokenKnown'
    OBVIOUS
  <1>0. ASSUME UNCHANGED <<token, asked, raced>>, \A v \in Workers : Held(v)' \subseteq Held(v)
        PROVE  TokenKnown'
    BY <1>0 DEF TokenKnown
  <1>1. ASSUME NEW w \in Workers, Poll(w) PROVE TokenKnown'
    <2>1. UNCHANGED <<token, asked, raced, task>>
      BY <1>1 DEF Poll, table, history
    <2>2. ASSUME NEW v \in Workers, NEW t \in Held(v)', t \notin Held(v), t.row[1] \notin raced, t.to # None
          PROVE  t.to = asked[t.row[1]]
      <3>1. t \in todo'[w]
        BY <1>1, <2>1, <2>2, PollTakes DEF Held
      <3>2. PICK s \in Subs, e \in Events : t = Task(w, s, e)
        BY <1>1, <3>1, PollTakes
      <3>3. t.row[1] = s /\ t.to = token[s]
        BY <2>2, <3>2, MadeTask DEF TypeOK
      <3> QED BY <2>2, <3>3 DEF TokenKnown
    <2>3. \A s \in Subs : s \notin raced => (token[s] = asked[s] \/ (token[s] = None /\ asked[s] \in Refusable))
      BY DEF TokenKnown
    <2>4. ASSUME NEW s \in Subs, s \notin raced, NEW v \in Workers, NEW t \in Held(v)', t.row[1] = s, t.to # None
          PROVE  t.to = asked[s]
      <3>1. CASE t \in Held(v)
        BY <2>4, <3>1 DEF TokenKnown
      <3>2. CASE t \notin Held(v)
        BY <2>2, <2>4, <3>2
      <3> QED BY <3>1, <3>2
    <2> QED BY <2>1, <2>3, <2>4 DEF TokenKnown
  <1>2. ASSUME NEW s \in Subs, NEW k \in Tokens \cup {None}, SetPush(s, k) PROVE TokenKnown'
    <2>1. /\ token' = [token EXCEPT ![s] = k] /\ asked' = [asked EXCEPT ![s] = k]
          /\ raced' = (IF Pushing(s) THEN raced \cup {s} ELSE raced \ {s})
          /\ UNCHANGED <<todo, task>>
      BY <1>2 DEF SetPush, work
    <2>2. \A v \in Workers : Held(v)' = Held(v)
      BY <2>1 DEF Held
    <2>3. ~Pushing(s) => \A v \in Workers : \A t \in Held(v) : t.row[1] = s => t.to = None
      BY DEF Pushing, Held
    <2>4. ASSUME NEW q \in Subs, q # s
          PROVE  token'[q] = token[q] /\ asked'[q] = asked[q] /\ (q \in raced' <=> q \in raced)
      BY <2>1, <2>4
    <2>5. token'[s] = asked'[s] /\ (s \notin raced' => ~Pushing(s))
      BY <2>1 DEF TypeOK
    <2>6. ASSUME NEW q \in Subs \ raced'
          PROVE  /\ token'[q] = asked'[q] \/ (token'[q] = None /\ asked'[q] \in Refusable)
                 /\ \A w \in Workers : \A t \in Held(w)' :
                      t.row[1] = q /\ t.to # None => t.to = asked'[q]
      <3>1. CASE q = s
        <4>1. s \notin raced'
          BY <3>1
        <4>2. \A w \in Workers : \A t \in Held(w)' : t.row[1] = s => t.to = None
          BY <4>1, <2>2, <2>3, <2>5
        <4> QED BY <3>1, <4>2, <2>5
      <3>2. CASE q # s
        <4>1. q \notin raced /\ token'[q] = token[q] /\ asked'[q] = asked[q]
          BY <3>2, <2>4
        <4> QED BY <4>1, <2>2 DEF TokenKnown
      <3> QED BY <3>1, <3>2
    <2> QED BY <2>6 DEF TokenKnown
  <1>3. ASSUME NEW w \in Workers, TokenRefused(w) PROVE TokenKnown'
    <2> DEFINE s == task[w].row[1]
    <2>1. /\ token' = [token EXCEPT ![s] = None] /\ UNCHANGED <<asked, raced>>
          /\ task[w].to \in Refusable /\ task[w] \in Held(w)
      BY <1>3, HeldTasks DEF TokenRefused, history
    <2>2. s \in Subs /\ task[w].to # None
      BY <2>1, HeldTasks, TaskRow, QueueAssumption
    <2>3. s \notin raced => asked[s] \in Refusable
      BY <2>1, <2>2 DEF TokenKnown
    <2>4. \A v \in Workers : Held(v)' \subseteq Held(v)
      BY <1>3 DEF TokenRefused, NextRow, Held, TypeOK
    <2>5. \A q \in Subs : token'[q] = IF q = s THEN None ELSE token[q]
      BY <2>1, <2>2 DEF TypeOK
    <2> HIDE DEF s
    <2> QED BY <2>1, <2>3, <2>4, <2>5 DEF TokenKnown
  <1>4. ASSUME NEW s \in Subs, Client(s), \A k \in Tokens \cup {None} : ~SetPush(s, k)
        PROVE  UNCHANGED <<token, asked, raced>>
    BY <1>4 DEF Client, Create, Backfill, BackfillLost, Cancel, Ack, AckRows, AckLost, SetMail, table, history
  <1>5. ASSUME NEW w \in Workers, Worker(w), ~TokenRefused(w)
        PROVE  UNCHANGED <<token, asked, raced>>
    BY <1>5 DEF Worker, Poll, Done, Charge, ChargeFails, StartPush, SendOk, SendAnswerLost, Sent, SendFails, Mark, MarkFails,
                table, history
  <1>6. ASSUME NEW p \in Replicas, Crash(p)
        PROVE  UNCHANGED <<token, asked, raced>>
    BY <1>6 DEF Crash, table
  <1>7. CASE NewDay \/ UNCHANGED vars
    BY <1>7, <1>0 DEF NewDay, vars, Held, work, table, history
  <1>8. ASSUME \A w \in Workers : ~Poll(w) PROVE \A v \in Workers : Held(v)' \subseteq Held(v)
    BY <1>8, HeldShrinks
  <1> QED BY <1>0, <1>1, <1>2, <1>3, <1>4, <1>5, <1>6, <1>7, <1>8 DEF Next

\* The initial states are orderly: there is nothing.
LEMMA InitOrderly == Init => Orderly
  <1> SUFFICES ASSUME Init PROVE Orderly
    OBVIOUS
  <1>1. \A w \in Workers : Held(w) = {}
    BY DEF Init, Held
  <1>2. BackfillFirst /\ AckingAcked /\ SettledForAReason
    BY DEF Init, BackfillFirst, AckingAcked, SettledForAReason, Rows
  <1>3. HeldApart /\ MarkSent
    BY DEF Init, HeldApart, MarkSent
  <1>4. HeldInOrder
    BY <1>1 DEF HeldInOrder
  <1>5. TokenKnown
    BY <1>1 DEF Init, TokenKnown
  <1> QED BY <1>2, <1>3, <1>4, <1>5 DEF Orderly

\* Every step keeps the parts that count nothing.
LEMMA OrderlyStep == TypeOK /\ Orderly /\ [Next]_vars => Orderly'
  <1> SUFFICES ASSUME TypeOK, Orderly, [Next]_vars PROVE Orderly'
    OBVIOUS
  <1>1. BackfillFirst'
    BY BackfillFirstStep DEF Orderly
  <1> QED BY <1>1, HeldInOrderStep, HeldApartStep, MarkSentStep, SettledStep, TokenKnownStep DEF Orderly

-----------------------------------------------------------------------------
(* Repeats and late messages *)

\* The workers that will send row r, and those that have sent it and not
\* marked it.
Sending(r) ==
  {w \in Workers : (\E t \in todo[w] : t.row = r) \/ (pc[w] = "send" /\ task[w].row = r)}
Marking(r) == {w \in Workers : pc[w] = "mark" /\ task[w].row = r}

\* While a row is pending its messages are those at "mark" and those lost;
\* once it is settled nobody reads it any more, and what its readers may
\* still send is part of the bound.
RowCount(r) ==
  /\ queue[r] = "none" => sends[r] = 0 /\ late[r] = 0
  /\ queue[r] = "pending" => sends[r] <= lost[r] + Cardinality(Marking(r))
  /\ queue[r] = "delivered" => sends[r] + Cardinality(Sending(r)) <= lost[r] + Cardinality(Workers)
  /\ Due(r) => late[r] = 0
  /\ ~Due(r) => late[r] + Cardinality(Sending(r)) <= Cardinality(Workers)

RowCounts == \A r \in Rows : RowCount(r)

\* A worker is at a row once.
LEMMA RowNumbers ==
  ASSUME TypeOK, HeldApart, NEW r \in Rows
  PROVE  /\ IsFiniteSet(Sending(r)) /\ IsFiniteSet(Marking(r)) /\ IsFiniteSet(Workers)
         /\ Cardinality(Sending(r)) \in Nat /\ Cardinality(Marking(r)) \in Nat
         /\ Cardinality(Workers) \in Nat
         /\ Sending(r) \cap Marking(r) = {}
         /\ Cardinality(Sending(r)) + Cardinality(Marking(r)) <= Cardinality(Workers)
         /\ sends[r] \in Nat /\ late[r] \in Nat /\ lost[r] \in Nat
  <1>1. Sending(r) \subseteq Workers /\ Marking(r) \subseteq Workers
        /\ Sending(r) \cup Marking(r) \subseteq Workers
    BY DEF Sending, Marking
  <1>2. Sending(r) \cap Marking(r) = {}
    <2> SUFFICES ASSUME NEW w \in Sending(r), w \in Marking(r) PROVE FALSE
      OBVIOUS
    <2>1. w \in Workers /\ pc[w] = "mark" /\ task[w].row = r /\ task[w] # NoTask
      BY DEF Marking, TypeOK
    <2>2. PICK t \in todo[w] : t.row = r
      BY <2>1 DEF Sending
    <2> QED BY <2>1, <2>2 DEF HeldApart
  <1>3. IsFiniteSet(Sending(r)) /\ IsFiniteSet(Marking(r))
    BY <1>1, WorkersFinite, FS_Subset
  <1>4. Cardinality(Sending(r)) \in Nat /\ Cardinality(Marking(r)) \in Nat
    BY <1>3, FS_CardinalityType
  <1>5. Cardinality(Sending(r) \cup Marking(r)) = Cardinality(Sending(r)) + Cardinality(Marking(r))
    <2>1. Cardinality(Sending(r) \cup Marking(r))
            = Cardinality(Sending(r)) + Cardinality(Marking(r)) - Cardinality(Sending(r) \cap Marking(r))
      BY <1>3, FS_Union
    <2>2. Cardinality({}) = 0
      BY FS_EmptySet
    <2>3. Cardinality(Sending(r) \cap Marking(r)) = 0
      BY <1>2, <2>2
    <2> QED BY <2>1, <2>3, <1>4
  <1>6. Cardinality(Sending(r) \cup Marking(r)) <= Cardinality(Workers)
    BY <1>1, WorkersFinite, FS_Subset
  <1>7. sends[r] \in Nat /\ late[r] \in Nat /\ lost[r] \in Nat
    BY DEF TypeOK
  <1> QED BY <1>2, <1>3, <1>4, <1>5, <1>6, <1>7, WorkersFinite

\* A step that sends and loses nothing of r, and adds none that would send it.
LEMMA QuietRow ==
  ASSUME TypeOK, TypeOK', HeldApart, HeldApart', NEW r \in Rows, RowCount(r),
         sends'[r] = sends[r], late'[r] = late[r], lost'[r] = lost[r],
         Marking(r)' = Marking(r) \/ queue'[r] # "pending",
         Sending(r)' \subseteq Sending(r) \/ (Due(r) /\ Due(r)'),
         \/ queue'[r] = queue[r]
         \/ queue[r] = "none" /\ queue'[r] = "pending"
         \/ queue[r] = "pending" /\ queue'[r] = "delivered",
         Due(r)' => Due(r) \/ queue[r] = "none"
  PROVE  RowCount(r)'
  <1> DEFINE S == Cardinality(Sending(r))  M == Cardinality(Marking(r))  N == Cardinality(Workers)
             T == Cardinality(Sending(r)')
  <1>1. S \in Nat /\ M \in Nat /\ N \in Nat /\ S + M <= N /\ IsFiniteSet(Sending(r))
        /\ sends[r] \in Nat /\ late[r] \in Nat /\ lost[r] \in Nat
    BY RowNumbers
  <1>2. T \in Nat /\ T <= N
    <2>1. Sending(r)' \subseteq Workers
      BY DEF Sending
    <2> QED BY <2>1, WorkersFinite, FS_Subset, FS_CardinalityType
  <1>3. Sending(r)' \subseteq Sending(r) => T <= S
    BY <1>1, FS_Subset
  <1>4. queue[r] = "none" => sends[r] = 0 /\ late[r] = 0
    BY DEF RowCount
  <1>5. queue[r] = "pending" => sends[r] <= lost[r] + M
    BY DEF RowCount
  <1>6. queue[r] = "delivered" => sends[r] + S <= lost[r] + N
    BY DEF RowCount
  <1>7. (Due(r) => late[r] = 0) /\ (~Due(r) => late[r] + S <= N)
    BY DEF RowCount
  <1>8. Due(r) => queue[r] = "pending"
    BY DEF Due
  <1>9. Due(r)' => queue'[r] = "pending"
    BY DEF Due
  <1>10. queue[r] \in {"none", "pending", "delivered"}
    BY DEF TypeOK
  <1> HIDE DEF S, M, N, T
  <1>11. queue'[r] = "none" => sends'[r] = 0 /\ late'[r] = 0
    BY <1>4
  <1>12. queue'[r] = "pending" => sends'[r] <= lost'[r] + Cardinality(Marking(r))'
    <2>1. ASSUME queue'[r] = "pending" PROVE sends[r] <= lost[r] + M
      BY <2>1, <1>1, <1>4, <1>5
    <2> QED BY <2>1 DEF M
  <1>13. queue'[r] = "delivered" => sends[r] + T <= lost[r] + N
    BY <1>1, <1>2, <1>3, <1>5, <1>6, <1>8, <1>9
  <1>14. (Due(r)' => late[r] = 0) /\ (~Due(r)' => late[r] + T <= N)
    BY <1>1, <1>2, <1>3, <1>4, <1>7
  <1> QED BY <1>11, <1>12, <1>13, <1>14 DEF RowCount, T, N

\* The row a worker is at.
LEMMA AtRow ==
  ASSUME TypeOK, NEW w \in Workers, pc[w] \in {"send", "mark"}
  PROVE  task[w] # NoTask /\ task[w] \in Held(w) /\ task[w].row \in Rows
  BY HeldTasks, TaskRow

\* A message that goes out takes its worker from those that will send, to
\* those that will mark unless the answer is lost.
LEMMA SentCounts ==
  ASSUME TypeOK, TypeOK', HeldInOrder, HeldApart, HeldApart', RowCounts, NEW w \in Workers,
         SendOk(w) \/ SendAnswerLost(w)
  PROVE  RowCounts'
  <1>0. pc[w] = "send"
    BY DEF SendOk, SendAnswerLost, Sent
  <1>1. PICK q \in Rows : q = task[w].row /\ queue[q] # "none" /\ task[w] # NoTask
    BY <1>0, AtRow DEF HeldInOrder
  <1>2. /\ UNCHANGED <<todo, queue, status>>
        /\ sends' = [sends EXCEPT ![q] = @ + 1]
        /\ late' = IF Due(q) THEN late ELSE [late EXCEPT ![q] = @ + 1]
    BY <1>1 DEF SendOk, SendAnswerLost, Sent, work, table, Bump
  <1>3. \A v \in Workers : v # w => pc'[v] = pc[v] /\ task'[v] = task[v]
    BY DEF SendOk, SendAnswerLost, Sent, NextRow, TypeOK
  <1>4. \/ pc'[w] = "mark" /\ task'[w] = task[w] /\ UNCHANGED lost
        \/ pc'[w] = "row" /\ lost' = [lost EXCEPT ![q] = @ + 1]
    BY <1>1 DEF SendOk, SendAnswerLost, Sent, NextRow, Bump, TypeOK
  <1>5. \A r \in Rows : (Due(r)' <=> Due(r))
    BY <1>2 DEF Due
  <1>6. ASSUME NEW r \in Rows, r # q PROVE RowCount(r)'
    <2>1. Marking(r)' = Marking(r) /\ Sending(r)' = Sending(r)
      BY <1>0, <1>1, <1>2, <1>3, <1>4, <1>6 DEF Marking, Sending
    <2>2. sends'[r] = sends[r] /\ late'[r] = late[r] /\ lost'[r] = lost[r]
      BY <1>1, <1>2, <1>4, <1>6 DEF TypeOK
    <2> QED BY <2>1, <2>2, <1>2, <1>5 DEF RowCounts, RowCount
  <1>7. RowCount(q)'
    <2>1. Sending(q)' = Sending(q) \ {w}
      <3>1. \A t \in todo[w] : t.row # q
        BY <1>1 DEF HeldApart
      <3> QED BY <3>1, <1>1, <1>2, <1>3, <1>4 DEF Sending
    <2>2. w \in Sending(q) /\ w \notin Marking(q)
      BY <1>0, <1>1 DEF Sending, Marking
    <2>3. \/ Marking(q)' = Marking(q) \cup {w} /\ lost'[q] = lost[q]
          \/ Marking(q)' = Marking(q) /\ lost'[q] = lost[q] + 1
      BY <1>0, <1>1, <1>3, <1>4 DEF Marking, TypeOK
    <2> DEFINE S == Cardinality(Sending(q))  M == Cardinality(Marking(q))  N == Cardinality(Workers)
               K == Cardinality(Marking(q)')
    <2>4. S \in Nat /\ M \in Nat /\ N \in Nat /\ S + M <= N
          /\ sends[q] \in Nat /\ late[q] \in Nat /\ lost[q] \in Nat /\ lost'[q] \in Nat
          /\ IsFiniteSet(Sending(q)) /\ IsFiniteSet(Marking(q))
      BY <1>1, RowNumbers DEF TypeOK
    <2>5. Cardinality(Sending(q)') = S - 1
      <3>1. Cardinality(Sending(q) \ {w}) = S - 1
        BY <2>2, <2>4, FS_RemoveElement
      <3> QED BY <2>1, <3>1
    <2>6. K \in Nat /\ lost'[q] + K = lost[q] + M + 1 /\ lost'[q] >= lost[q]
      <3>1. Cardinality(Marking(q) \cup {w}) = M + 1
        BY <2>2, <2>4, FS_AddElement
      <3>2. (K = M + 1 /\ lost'[q] = lost[q]) \/ (K = M /\ lost'[q] = lost[q] + 1)
        <4>1. CASE Marking(q)' = Marking(q) \cup {w} /\ lost'[q] = lost[q]
          BY <3>1, <4>1
        <4>2. CASE Marking(q)' = Marking(q) /\ lost'[q] = lost[q] + 1
          BY <4>2
        <4> QED BY <2>3, <4>1, <4>2
      <3> HIDE DEF K, M
      <3> QED BY <2>4, <3>2
    <2>7. sends'[q] = sends[q] + 1 /\ late'[q] = (IF Due(q) THEN late[q] ELSE late[q] + 1)
          /\ queue'[q] = queue[q]
      BY <1>1, <1>2 DEF TypeOK
    <2>8. /\ queue[q] = "pending" => sends[q] <= lost[q] + M
          /\ queue[q] = "delivered" => sends[q] + S <= lost[q] + N
          /\ Due(q) => late[q] = 0
          /\ ~Due(q) => late[q] + S <= N
      BY <1>1 DEF RowCounts, RowCount
    <2> HIDE DEF S, M, N, K
    <2>9. queue'[q] = "pending" => sends'[q] <= lost'[q] + K
      BY <2>4, <2>6, <2>7, <2>8
    <2>10. queue'[q] = "delivered" => sends'[q] + Cardinality(Sending(q)') <= lost'[q] + N
      BY <2>4, <2>5, <2>6, <2>7, <2>8
    <2>11. (Due(q)' => late'[q] = 0) /\ (~Due(q)' => late'[q] + Cardinality(Sending(q)') <= N)
      BY <1>1, <1>5, <2>4, <2>5, <2>7, <2>8
    <2> QED BY <1>1, <2>7, <2>9, <2>10, <2>11 DEF RowCount, N, K
  <1> QED BY <1>6, <1>7 DEF RowCounts

\* A worker that is through with its row leaves those that will mark it, and
\* what it has sent is marked or lost.
LEMMA MarkCounts ==
  ASSUME TypeOK, TypeOK', HeldInOrder, HeldApart, HeldApart', RowCounts,
         NEW w \in Workers, Mark(w) \/ MarkFails(w)
  PROVE  RowCounts'
  <1>1. PICK q \in Rows : q = task[w].row /\ queue[q] # "none"
    BY AtRow DEF Mark, MarkFails, HeldInOrder
  <1>2. /\ pc[w] = "mark" /\ pc' = [pc EXCEPT ![w] = "row"] /\ task' = [task EXCEPT ![w] = NoTask]
        /\ UNCHANGED <<todo, status, sends, late>>
    BY DEF Mark, MarkFails, NextRow, table, history
  <1>3. \/ queue' = [queue EXCEPT ![q] = "delivered"] /\ UNCHANGED lost
        \/ lost' = [lost EXCEPT ![q] = @ + 1] /\ UNCHANGED queue
    BY <1>1 DEF Mark, MarkFails, Bump, history
  <1>4. /\ pc'[w] = "row"
        /\ \A v \in Workers : v # w => pc'[v] = pc[v] /\ task'[v] = task[v]
    BY <1>2 DEF TypeOK
  <1>5. \A r \in Rows : Sending(r)' = Sending(r)
    BY <1>2, <1>4 DEF Sending
  <1>6. ASSUME NEW r \in Rows, r # q PROVE RowCount(r)'
    <2>1. Marking(r)' = Marking(r)
      BY <1>1, <1>2, <1>4, <1>6 DEF Marking
    <2>2. queue'[r] = queue[r] /\ lost'[r] = lost[r]
      BY <1>1, <1>3, <1>6 DEF TypeOK
    <2>3. Due(r)' <=> Due(r)
      BY <1>2, <2>2 DEF Due
    <2> QED BY <2>1, <2>2, <2>3, <1>2, <1>5 DEF RowCounts, RowCount
  <1>7. CASE queue' = [queue EXCEPT ![q] = "delivered"] /\ UNCHANGED lost
    <2>1. queue'[q] = "delivered" /\ queue[q] \in {"pending", "delivered"} /\ ~Due(q)'
      BY <1>1, <1>7 DEF TypeOK, Due
    <2>2. RowCount(q) /\ sends'[q] = sends[q] /\ late'[q] = late[q] /\ lost'[q] = lost[q]
      BY <1>1, <1>2, <1>7 DEF RowCounts
    <2>3. Sending(q)' \subseteq Sending(q) /\ queue'[q] # "pending"
      BY <1>1, <1>5, <2>1
    <2>4. RowCount(q)'
      BY <1>1, <2>1, <2>2, <2>3, QuietRow
    <2> QED BY <1>6, <2>4 DEF RowCounts
  <1>8. CASE lost' = [lost EXCEPT ![q] = @ + 1] /\ UNCHANGED queue
    <2>1. w \in Marking(q) /\ Marking(q)' = Marking(q) \ {w}
      BY <1>1, <1>2, <1>4 DEF Marking
    <2> DEFINE S == Cardinality(Sending(q))  M == Cardinality(Marking(q))  N == Cardinality(Workers)
    <2>2. S \in Nat /\ M \in Nat /\ N \in Nat
          /\ sends[q] \in Nat /\ lost[q] \in Nat /\ IsFiniteSet(Marking(q))
      BY <1>1, RowNumbers
    <2>3. Cardinality(Marking(q)') = M - 1
      BY <2>1, <2>2, FS_RemoveElement
    <2>4. lost'[q] = lost[q] + 1
      BY <1>1, <1>8 DEF TypeOK
    <2>5. /\ queue[q] = "pending" => sends[q] <= lost[q] + M
          /\ queue[q] = "delivered" => sends[q] + S <= lost[q] + N
          /\ Due(q) => late[q] = 0
          /\ ~Due(q) => late[q] + S <= N
      BY <1>1 DEF RowCounts, RowCount
    <2> HIDE DEF S, M, N
    <2>6. queue[q] = "pending" => sends[q] <= lost'[q] + Cardinality(Marking(q)')
      BY <2>2, <2>3, <2>4, <2>5
    <2>7. queue[q] = "delivered" => sends[q] + S <= lost'[q] + N
      BY <2>2, <2>4, <2>5
    <2>8. Due(q)' <=> Due(q)
      BY <1>2, <1>8 DEF Due
    <2>9. RowCount(q)'
      BY <1>1, <1>2, <1>5, <1>8, <2>5, <2>6, <2>7, <2>8 DEF RowCount, S, N
    <2> QED BY <1>6, <2>9 DEF RowCounts
  <1> QED BY <1>3, <1>7, <1>8

\* A restart forgets what its workers would send, and loses what they have
\* sent and not marked.
LEMMA CrashCounts ==
  ASSUME TypeOK, TypeOK', HeldApart, RowCounts, NEW p \in Replicas, Crash(p)
  PROVE  RowCounts'
  <1> SUFFICES ASSUME NEW r \in Rows PROVE RowCount(r)'
    BY DEF RowCounts
  <1> DEFINE mine == {w \in Workers : w[1] = p}
             gone == {w \in mine : pc[w] = "mark" /\ task[w].row = r}
  <1>1. /\ pc' = [w \in Workers |-> IF w \in mine THEN "idle" ELSE pc[w]]
        /\ todo' = [w \in Workers |-> IF w \in mine THEN {} ELSE todo[w]]
        /\ task' = [w \in Workers |-> IF w \in mine THEN NoTask ELSE task[w]]
        /\ lost'[r] = lost[r] + Cardinality(gone)
        /\ UNCHANGED <<queue, status, sends, late>>
    BY DEF Crash, table
  <1>2. gone = Marking(r) \cap mine
    BY DEF Marking
  <1>3. Marking(r)' = Marking(r) \ mine /\ Sending(r)' \subseteq Sending(r)
    BY <1>1 DEF Marking, Sending
  <1> HIDE DEF mine, gone
  <1> DEFINE S == Cardinality(Sending(r))  M == Cardinality(Marking(r))  N == Cardinality(Workers)
  <1>4. /\ S \in Nat /\ M \in Nat /\ N \in Nat /\ S + M <= N
        /\ sends[r] \in Nat /\ late[r] \in Nat /\ lost[r] \in Nat
        /\ IsFiniteSet(Sending(r)) /\ IsFiniteSet(Marking(r))
    BY RowNumbers
  <1>5. Cardinality(Sending(r)') <= S /\ Cardinality(Sending(r)') \in Nat
    BY <1>3, <1>4, FS_Subset, FS_CardinalityType
  <1>6. Cardinality(Marking(r)') = M - Cardinality(gone)
    BY <1>2, <1>3, <1>4, FS_Difference
  <1>7. Cardinality(gone) \in Nat
    BY <1>2, <1>4, FS_Intersection, FS_CardinalityType
  <1>8. /\ queue[r] = "none" => sends[r] = 0 /\ late[r] = 0
        /\ queue[r] = "pending" => sends[r] <= lost[r] + M
        /\ queue[r] = "delivered" => sends[r] + S <= lost[r] + N
        /\ Due(r) => late[r] = 0
        /\ ~Due(r) => late[r] + S <= N
    BY DEF RowCounts, RowCount
  <1>9. Due(r)' <=> Due(r)
    BY <1>1 DEF Due
  <1> HIDE DEF S, M, N
  <1>10. queue[r] = "pending" => sends[r] <= lost'[r] + Cardinality(Marking(r)')
    BY <1>1, <1>4, <1>6, <1>7, <1>8
  <1>11. queue[r] = "delivered" => sends[r] + Cardinality(Sending(r)') <= lost'[r] + N
    BY <1>1, <1>4, <1>5, <1>7, <1>8
  <1>12. ~Due(r) => late[r] + Cardinality(Sending(r)') <= N
    BY <1>4, <1>5, <1>8
  <1> QED BY <1>1, <1>8, <1>9, <1>10, <1>11, <1>12 DEF RowCount, N

\* A poll adds a worker to the readers of due rows only.
LEMMA PollCounts ==
  ASSUME TypeOK, TypeOK', HeldApart, HeldApart', RowCounts, NEW w \in Workers, Poll(w)
  PROVE  RowCounts'
  <1> SUFFICES ASSUME NEW r \in Rows PROVE RowCount(r)'
    BY DEF RowCounts
  <1>1. /\ pc[w] = "idle" /\ pc' = [pc EXCEPT ![w] = "row"]
        /\ UNCHANGED <<queue, status, sends, late, lost, task>>
    BY DEF Poll, table, history
  <1>2. \A v \in Workers : (pc'[v] = "mark" <=> pc[v] = "mark") /\ (pc'[v] = "send" <=> pc[v] = "send")
    BY <1>1 DEF TypeOK
  <1>3. Marking(r)' = Marking(r)
    BY <1>1, <1>2 DEF Marking
  <1>4. Due(r)' <=> Due(r)
    BY <1>1 DEF Due
  <1>5. Sending(r)' \subseteq Sending(r) \/ Due(r)
    <2> SUFFICES ASSUME NEW v \in Sending(r)', v \notin Sending(r) PROVE Due(r)
      OBVIOUS
    <2>1. v \in Workers
      BY DEF Sending
    <2>2. PICK t \in todo'[v] : t.row = r /\ t \notin todo[v]
      BY <1>1, <1>2, <2>1 DEF Sending
    <2>3. t \in todo'[w]
      BY <2>1, <2>2, PollTakes
    <2>4. PICK s \in Subs, e \in Events : t = Task(w, s, e) /\ Wanted(w, s) /\ e \in Heads(s)
      BY <2>3, PollTakes
    <2>5. r = <<s, e>>
      <3>1. Task(w, s, e).row = <<s, e>>
        BY MadeTask DEF TypeOK
      <3> QED BY <2>2, <2>4, <3>1
    <2>6. queue[r] = "pending"
      BY <2>4, <2>5, HeadFirst
    <2>7. status[r[1]] = "active"
      BY <2>4, <2>5 DEF Wanted
    <2> QED BY <2>6, <2>7 DEF Due
  <1>6. RowCount(r) /\ sends'[r] = sends[r] /\ late'[r] = late[r] /\ lost'[r] = lost[r]
        /\ queue'[r] = queue[r]
    BY <1>1 DEF RowCounts
  <1> QED BY <1>3, <1>4, <1>5, <1>6, QuietRow

\* A step of a client moves no worker; it makes no message due again.
LEMMA ClientCounts ==
  ASSUME TypeOK, TypeOK', BackfillFirst, HeldApart, HeldApart', RowCounts,
         NEW s \in Subs, Client(s)
  PROVE  RowCounts'
  <1> SUFFICES ASSUME NEW r \in Rows PROVE RowCount(r)'
    BY DEF RowCounts
  <1> USE DEF Rows, TypeOK, Due
  <1>1. UNCHANGED <<work, sends, late, lost>>
    BY DEF Client, Create, Backfill, BackfillLost, Cancel, Ack, AckRows, AckLost, SetMail, SetPush, history
  <1>2. Marking(r)' = Marking(r) /\ Sending(r)' = Sending(r)
    BY <1>1 DEF Marking, Sending, work
  <1>3. r[1] \in Subs /\ r[2] \in Events /\ r = <<r[1], r[2]>>
    OBVIOUS
  <1>4. (r[1] \in creating \/ status[r[1]] = "none") => queue[r] = "none"
    BY <1>3 DEF BackfillFirst
  <1> DEFINE Moves == /\ \/ queue'[r] = queue[r]
                         \/ queue[r] = "none" /\ queue'[r] = "pending"
                         \/ queue[r] = "pending" /\ queue'[r] = "delivered"
                      /\ Due(r)' => Due(r) \/ queue[r] = "none"
  <1>5. Moves
    <2>1. CASE Create(s)
      BY <2>1, <1>3, <1>4 DEF Create
    <2>2. ASSUME NEW stored \in SUBSET Events, Backfill(s, stored)
          PROVE  Moves
      BY <2>2, <1>3, <1>4 DEF Backfill
    <2>3. CASE AckRows(s)
      BY <2>3, <1>3 DEF AckRows, table
    <2>4. CASE Cancel(s)
      BY <2>4, <1>3 DEF Cancel
    <2>5. CASE UNCHANGED <<queue, status>>
      BY <2>5
    <2>6. ASSUME BackfillLost(s) \/ AckLost(s) \/ (\E e \in Events : Ack(s, Ledger[e]))
                 \/ (\E on \in BOOLEAN : SetMail(s, on)) \/ (\E t \in Tokens \cup {None} : SetPush(s, t))
          PROVE  UNCHANGED <<queue, status>>
      BY <2>6 DEF BackfillLost, AckLost, Ack, SetMail, SetPush
    <2> QED BY <2>1, <2>2, <2>3, <2>4, <2>5, <2>6 DEF Client
  <1>6. RowCount(r) /\ sends'[r] = sends[r] /\ late'[r] = late[r] /\ lost'[r] = lost[r]
    BY <1>1 DEF RowCounts
  <1> QED BY <1>2, <1>5, <1>6, QuietRow

\* No other step of a worker sends, marks or loses a message.
LEMMA OtherCounts ==
  ASSUME TypeOK, TypeOK', HeldApart, HeldApart', RowCounts, NEW w \in Workers,
         \/ Done(w) \/ SendFails(w) \/ TokenRefused(w)
         \/ \E t \in todo[w] : Charge(w, t) \/ ChargeFails(w, t) \/ StartPush(w, t)
  PROVE  RowCounts'
  <1> SUFFICES ASSUME NEW r \in Rows PROVE RowCount(r)'
    BY DEF RowCounts
  <1>1. UNCHANGED <<queue, status, sends, late, lost>>
    BY DEF Done, SendFails, TokenRefused, Charge, ChargeFails, StartPush, table, history
  <1>2. Due(r)' <=> Due(r)
    BY <1>1 DEF Due
  <1>3. Marking(r)' = Marking(r) /\ Sending(r)' \subseteq Sending(r)
    <2>1. CASE Done(w)
      BY <2>1 DEF Done, Marking, Sending, TypeOK
    <2>2. CASE SendFails(w) \/ TokenRefused(w)
      <3>1. /\ pc[w] = "send" /\ pc' = [pc EXCEPT ![w] = "row"]
            /\ task' = [task EXCEPT ![w] = NoTask] /\ UNCHANGED todo
        BY <2>2 DEF SendFails, TokenRefused, NextRow
      <3> QED BY <3>1 DEF Marking, Sending, TypeOK
    <2>3. ASSUME NEW t \in todo[w], Charge(w, t) \/ ChargeFails(w, t) \/ StartPush(w, t)
          PROVE  Marking(r)' = Marking(r) /\ Sending(r)' \subseteq Sending(r)
      <3>1. /\ pc[w] = "row" /\ todo' = [todo EXCEPT ![w] = @ \ {t}]
            /\ \/ UNCHANGED <<pc, task>>
               \/ pc' = [pc EXCEPT ![w] = "send"] /\ task' = [task EXCEPT ![w] = t]
        BY <2>3 DEF Charge, ChargeFails, StartPush, Take, Begin
      <3>2. \A v \in Workers : /\ todo'[v] \subseteq todo[v]
                               /\ v # w => pc'[v] = pc[v] /\ task'[v] = task[v]
        BY <3>1 DEF TypeOK
      <3>3. pc'[w] # "mark" /\ (pc'[w] = "send" => task'[w] = t)
        BY <3>1 DEF TypeOK
      <3>4. Marking(r)' = Marking(r)
        BY <3>1, <3>2, <3>3 DEF Marking
      <3>5. Sending(r)' \subseteq Sending(r)
        BY <3>2, <3>3 DEF Sending
      <3> QED BY <3>4, <3>5
    <2> QED BY <2>1, <2>2, <2>3
  <1>4. RowCount(r) /\ sends'[r] = sends[r] /\ late'[r] = late[r] /\ lost'[r] = lost[r]
        /\ queue'[r] = queue[r]
    BY <1>1 DEF RowCounts
  <1> QED BY <1>2, <1>3, <1>4, QuietRow

\* Every step keeps the account of every row.
LEMMA RowCountsStep == TypeOK /\ Orderly /\ RowCounts /\ [Next]_vars => RowCounts'
  <1> SUFFICES ASSUME TypeOK, Orderly, RowCounts, [Next]_vars PROVE RowCounts'
    OBVIOUS
  <1>1. /\ TypeOK' /\ BackfillFirst /\ HeldInOrder /\ HeldApart /\ HeldApart'
    BY TypesStep, OrderlyStep DEF Orderly
  <1>2. ASSUME NEW w \in Workers, Worker(w) PROVE RowCounts'
    BY <1>1, <1>2, PollCounts, SentCounts, MarkCounts, OtherCounts DEF Worker
  <1>3. CASE NewDay \/ UNCHANGED vars
    <2>1. UNCHANGED <<queue, status, work, sends, late, lost>>
      BY <1>3 DEF NewDay, vars, table, history
    <2> QED BY <2>1 DEF RowCounts, RowCount, Due, Marking, Sending, work
  <1> QED BY <1>1, <1>2, <1>3, ClientCounts, CrashCounts DEF Next

-----------------------------------------------------------------------------
(* The day's e-mails *)

\* An e-mail is counted before it is sent: those sent today and those about to
\* be are counted today, except for one per worker from before midnight.
AtSend == {w \in Mailers : pc[w] = "send"}
DayCount ==
  /\ mailed + Cardinality(AtSend) <= charged + Cardinality(Mailers)
  /\ mailed + Cardinality(AtSend) <= Limit + Cardinality(Mailers)

\* The workers about to send an e-mail are no more than there are.
LEMMA DayNumbers ==
  ASSUME TypeOK
  PROVE  /\ IsFiniteSet(AtSend) /\ Cardinality(AtSend) \in Nat /\ Cardinality(Mailers) \in Nat
         /\ Cardinality(AtSend) <= Cardinality(Mailers)
         /\ charged \in Nat /\ mailed \in Nat /\ Limit \in Nat
  <1>1. AtSend \subseteq Mailers
    BY DEF AtSend
  <1>2. charged \in Nat /\ mailed \in Nat /\ Limit \in Nat
    BY QueueAssumption DEF TypeOK
  <1> QED BY <1>1, <1>2, WorkersFinite, FS_Subset, FS_CardinalityType

\* An e-mail is sent by a worker that was counted, or before midnight.
LEMMA DayCountStep == TypeOK /\ DayCount /\ [Next]_vars => DayCount'
  <1> SUFFICES ASSUME TypeOK, DayCount, [Next]_vars PROVE DayCount'
    OBVIOUS
  <1> DEFINE S == Cardinality(AtSend)  N == Cardinality(Mailers)
  <1>1. /\ S \in Nat /\ N \in Nat /\ S <= N /\ IsFiniteSet(AtSend)
        /\ charged \in Nat /\ mailed \in Nat /\ Limit \in Nat
    BY DayNumbers
  <1>2. /\ Cardinality(AtSend') \in Nat /\ Cardinality(AtSend') <= N
    <2>1. AtSend' \subseteq Mailers
      BY DEF AtSend
    <2> QED BY <2>1, WorkersFinite, FS_Subset, FS_CardinalityType
  <1>3. mailed + S <= charged + N /\ mailed + S <= Limit + N
    BY DEF DayCount
  <1> HIDE DEF S, N
  <1>4. ASSUME UNCHANGED mailed, charged' \in Nat, charged' >= charged, AtSend' \subseteq AtSend
        PROVE  DayCount'
    <2>1. Cardinality(AtSend') <= S
      BY <1>1, <1>4, FS_Subset DEF S
    <2> QED BY <1>1, <1>2, <1>3, <1>4, <2>1 DEF DayCount, N
  <1>5. ASSUME NEW w \in Workers, NEW t \in todo[w], Charge(w, t) PROVE DayCount'
    <2>1. /\ charged' = (IF charged > Limit THEN charged ELSE charged + 1) /\ UNCHANGED mailed
          /\ pc[w] = "row"
      BY <1>5 DEF Charge, Take, history
    <2>2. CASE charged' <= Limit
      <3>1. pc' = [pc EXCEPT ![w] = "send"] /\ w \in Mailers
        BY <1>5, <2>2 DEF Charge, Begin, Mailers
      <3>2. AtSend' = AtSend \cup {w} /\ w \notin AtSend
        BY <2>1, <3>1 DEF AtSend, TypeOK, Mailers
      <3>3. Cardinality(AtSend') = S + 1
        <4>1. Cardinality(AtSend \cup {w}) = S + 1
          BY <1>1, <3>2, FS_AddElement DEF S
        <4> QED BY <3>2, <4>1
      <3>4. charged' = charged + 1
        BY <1>1, <2>1, <2>2
      <3> QED BY <1>1, <1>3, <2>1, <2>2, <3>3, <3>4 DEF DayCount, N
    <2>3. CASE ~(charged' <= Limit)
      <3>1. UNCHANGED pc
        BY <1>5, <2>3 DEF Charge
      <3>2. charged' \in Nat /\ charged' >= charged
        BY <1>1, <2>1
      <3> QED BY <1>4, <2>1, <3>1, <3>2 DEF AtSend
    <2> QED BY <2>2, <2>3
  <1>6. ASSUME NEW w \in Workers, SendOk(w) \/ SendAnswerLost(w) PROVE DayCount'
    <2>1. /\ pc[w] = "send" /\ UNCHANGED charged
          /\ pc' = [pc EXCEPT ![w] = "mark"] \/ pc' = [pc EXCEPT ![w] = "row"]
          /\ mailed' = IF w[2] = "mail" THEN mailed + 1 ELSE mailed
      BY <1>6 DEF SendOk, SendAnswerLost, Sent, NextRow
    <2>2. CASE w[2] = "mail"
      <3>1. AtSend' = AtSend \ {w} /\ w \in AtSend
        BY <2>1, <2>2 DEF AtSend, TypeOK, Mailers
      <3>2. Cardinality(AtSend') = S - 1
        <4>1. Cardinality(AtSend \ {w}) = S - 1
          BY <1>1, <3>1, FS_RemoveElement DEF S
        <4> QED BY <3>1, <4>1
      <3> QED BY <1>1, <1>3, <2>1, <2>2, <3>2 DEF DayCount, N
    <2>3. CASE w[2] # "mail"
      <3>1. AtSend' = AtSend
        BY <2>1, <2>3 DEF AtSend, TypeOK, Mailers
      <3> QED BY <1>1, <1>4, <2>1, <2>3, <3>1
    <2> QED BY <2>2, <2>3
  <1>7. CASE NewDay
    BY <1>1, <1>2, <1>7 DEF NewDay, DayCount, N
  <1>8. ASSUME NEW s \in Subs, Client(s) PROVE UNCHANGED <<charged, mailed, pc>>
    BY <1>8 DEF Client, Create, Backfill, BackfillLost, Cancel, Ack, AckRows, AckLost, SetMail, SetPush,
                work, history
  <1>9. ASSUME NEW w \in Workers, Worker(w), ~SendOk(w), ~SendAnswerLost(w), \A t \in todo[w] : ~Charge(w, t)
        PROVE  UNCHANGED <<charged, mailed>> /\ AtSend' \subseteq AtSend
    <2>1. UNCHANGED <<charged, mailed>>
      BY <1>9 DEF Worker, Poll, Done, ChargeFails, StartPush, SendFails, TokenRefused, Mark, MarkFails, history
    <2>2. \A v \in Workers : pc'[v] = "send" => pc[v] = "send" \/ (v = w /\ w[2] = "push")
      BY <1>9 DEF Worker, Poll, Done, ChargeFails, StartPush, Take, Begin, SendFails, TokenRefused, Mark,
                  MarkFails, NextRow, TypeOK
    <2> QED BY <2>1, <2>2 DEF AtSend, Mailers
  <1>10. ASSUME NEW p \in Replicas, Crash(p)
         PROVE  UNCHANGED <<charged, mailed>> /\ AtSend' \subseteq AtSend
    <2>1. \A v \in Workers : pc'[v] = "send" => pc[v] = "send"
      BY <1>10 DEF Crash
    <2> QED BY <1>10, <2>1 DEF Crash, AtSend, Mailers
  <1>11. CASE UNCHANGED <<charged, mailed, pc>>
    BY <1>1, <1>4, <1>11 DEF AtSend
  <1> QED
    BY <1>1, <1>4, <1>5, <1>6, <1>7, <1>8, <1>9, <1>10, <1>11 DEF Next, vars, work, history, Worker

-----------------------------------------------------------------------------
(* The theorems *)

\* The inductive invariant.
IInv == TypeOK /\ Orderly /\ RowCounts /\ DayCount

\* In the initial states there is nothing to count.
LEMMA InitIInv == Init => IInv
  <1> SUFFICES ASSUME Init PROVE IInv
    OBVIOUS
  <1>1. TypeOK /\ Orderly
    BY InitTypes, InitOrderly
  <1>2. ASSUME NEW r \in Rows PROVE RowCount(r)
    <2>1. /\ queue[r] = "none" /\ sends[r] = 0 /\ late[r] = 0
      BY DEF Init
    <2>2. Cardinality(Sending(r)) \in Nat /\ Cardinality(Workers) \in Nat
          /\ Cardinality(Sending(r)) <= Cardinality(Workers)
      <3>1. Sending(r) \subseteq Workers
        BY DEF Sending
      <3> QED BY <3>1, WorkersFinite, FS_Subset, FS_CardinalityType
    <2> QED BY <2>1, <2>2 DEF RowCount, Due
  <1>3. DayCount
    BY <1>1, DayNumbers DEF DayCount, Init
  <1> QED BY <1>1, <1>2, <1>3 DEF IInv, RowCounts

\* The inductive invariant holds in every reachable state.
THEOREM Invariant == Spec => []IInv
<1>1. IInv /\ [Next]_vars => IInv'
  BY TypesStep, OrderlyStep, RowCountsStep, DayCountStep DEF IInv
<1> QED BY InitIInv, <1>1, PTL DEF Spec

\* Every state has the types of TypeOK.
THEOREM TypeCorrect == Spec => []TypeOK
<1>1. IInv => TypeOK
  BY DEF IInv
<1> QED BY Invariant, <1>1, PTL

\* A row leaves the queue only for a message that was sent, an
\* acknowledgement, or with a cancelled subscription (ack_subscription, the
\* UPDATEs of both workers).
THEOREM SettledReasons == Spec => []SettledForAReason
<1>1. IInv => SettledForAReason
  BY DEF IInv, Orderly
<1> QED BY Invariant, <1>1, PTL

\* An event is told at most once by every worker, and once more for every send
\* that was not marked (push_notification.rs:722, subscriptions.rs:823).
THEOREM RepeatBound == Spec => []RepeatsBounded
<1>1. IInv => RepeatsBounded
  <2> SUFFICES ASSUME IInv, NEW r \in Rows PROVE sends[r] <= Cardinality(Workers) + lost[r]
    BY DEF RepeatsBounded
  <2>1. RowCount(r) /\ queue[r] \in {"none", "pending", "delivered"} /\ TypeOK /\ HeldApart
    BY DEF IInv, RowCounts, TypeOK, Orderly
  <2> QED BY <2>1, RowNumbers DEF RowCount
<1> QED BY Invariant, <1>1, PTL

\* Once an event is settled, each worker sends it at most once more.
THEOREM QuietBound == Spec => []QuietAfterSettled
<1>1. IInv => QuietAfterSettled
  <2> SUFFICES ASSUME IInv, NEW r \in Rows PROVE late[r] <= Cardinality(Workers)
    BY DEF QuietAfterSettled
  <2>1. RowCount(r) /\ TypeOK /\ HeldApart
    BY DEF IInv, RowCounts, Orderly
  <2> QED BY <2>1, RowNumbers DEF RowCount
<1> QED BY Invariant, <1>1, PTL

\* A day's e-mails exceed the limit by at most one per e-mail worker
\* (check_and_increment_email_rate_limit).
THEOREM DayBound == Spec => []DailyLimitKept
<1>1. IInv => DailyLimitKept
  <2> SUFFICES ASSUME IInv PROVE DailyLimitKept
    OBVIOUS
  <2> QED BY DayNumbers DEF IInv, DayCount, DailyLimitKept
<1> QED BY Invariant, <1>1, PTL

\* A token that the service would accept is removed only in a race with its
\* registration (push_notification.rs:804).
THEOREM TokenKept == Spec => []ValidTokenKept
<1>1. IInv => ValidTokenKept
  BY DEF IInv, Orderly, TokenKnown, ValidTokenKept
<1> QED BY Invariant, <1>1, PTL

\* Events are told in ledger order, whatever the number of replicas
\* (ORDER BY dq.ledger of both workers).
THEOREM InOrder == Spec => FirstInOrder
<1>1. IInv /\ [Next]_vars =>
        [\A s \in Subs, e, f \in Events :
           /\ sends[<<s, e>>] = 0 /\ sends'[<<s, e>>] > 0
           /\ Ledger[f] < Ledger[e] /\ queue[<<s, f>>] # "none"
           => queue[<<s, f>>] = "delivered"]_vars
  <2> SUFFICES ASSUME IInv, Next, NEW s \in Subs, NEW e \in Events, NEW f \in Events,
                      sends[<<s, e>>] = 0, sends'[<<s, e>>] > 0,
                      Ledger[f] < Ledger[e], queue[<<s, f>>] # "none"
               PROVE  queue[<<s, f>>] = "delivered"
    BY DEF vars
  <2>1. TypeOK /\ HeldInOrder /\ <<s, f>> \in Rows /\ <<s, e>> \in Rows
    BY DEF IInv, Orderly, Rows
  <2>2. PICK w \in Workers : SendOk(w) \/ SendAnswerLost(w)
    <3>1. ~UNCHANGED sends
      OBVIOUS
    <3>2. ASSUME NEW q \in Subs, Client(q) PROVE UNCHANGED sends
      BY <3>2 DEF Client, Create, Backfill, BackfillLost, Cancel, Ack, AckRows, AckLost, SetMail, SetPush,
                  history
    <3>3. ASSUME NEW w \in Workers, Worker(w), ~SendOk(w), ~SendAnswerLost(w) PROVE UNCHANGED sends
      BY <3>3 DEF Worker, Poll, Done, Charge, ChargeFails, StartPush, SendFails, TokenRefused, Mark,
                  MarkFails, history
    <3>4. ASSUME NEW p \in Replicas, Crash(p) PROVE UNCHANGED sends
      BY <3>4 DEF Crash
    <3>5. NewDay => UNCHANGED sends
      BY DEF NewDay
    <3> QED BY <3>1, <3>2, <3>3, <3>4, <3>5 DEF Next
  <2>3. task[w] \in Held(w) /\ task[w].row \in Rows /\ sends' = [sends EXCEPT ![task[w].row] = @ + 1]
    BY <2>1, <2>2, AtRow DEF SendOk, SendAnswerLost, Sent, Bump
  <2>4. task[w].row = <<s, e>>
    BY <2>1, <2>3 DEF TypeOK
  <2>5. queue[<<s, f>>] # "pending"
    BY <2>1, <2>3, <2>4 DEF HeldInOrder
  <2> QED BY <2>1, <2>5 DEF TypeOK
<1> QED BY Invariant, <1>1, PTL DEF Spec, FirstInOrder

=============================================================================
