------------------------------ MODULE SseStream ------------------------------
(***************************************************************************)
(* The SSE streams of src/handlers.rs (stream_events_internal and          *)
(* stream_events_multi) over the ring buffer of src/sse_ring_buffer.rs and *)
(* the broadcast channel the indexer sends to: admission, replay from      *)
(* Last-Event-ID, live frames, lag, shutdown, and clients that come back.  *)
(*                                                                         *)
(* Events are numbered in the order the indexer pushes them: number n      *)
(* stands for the event and for the UUID its slot in the ring buffer has.  *)
(* The UUID is put into the broadcast copy only: a frame replayed from the *)
(* ring buffer has the id "<tx_hash>-<ledger>", which is no UUID and, sent *)
(* back as Last-Event-ID, counts as none (0). The row of the event in the  *)
(* events table has another UUID, its id, which clients know from the REST *)
(* endpoints and from frames replayed from the table; the ring buffer does *)
(* not know it. Rows are seen once the indexer's transaction has committed *)
(* and all rows of one transaction have the same created_at, NOW().        *)
(***************************************************************************)
EXTENDS Integers, FiniteSets, FiniteSetsExt

CONSTANTS Clients,         \* each with one connection at a time
          Multi,           \* those that use stream_events_multi
          Careless,        \* those whose contract_id may be malformed
          Wants,           \* the events each client's filters let through
          Selected,        \* those that the fallback's query selects, by contract
          RestReaders,     \* clients that start from a row they have read
          IpOf,            \* the address of each client
          MaxConnections,  \* sse_max_connections
          MaxPerIp,        \* sse_max_connections_per_ip, 0 for no limit
          Capacity,        \* of the ring buffer
          ReplayLimit,     \* sse_replay_limit
          Channel,         \* capacity of the broadcast channel (256)
          MaxLag,          \* sse_max_lag_before_disconnect, 0 for none
          MaxEvents,       \* bound: events pushed
          MaxStored,       \* bound: events whose transactions are ended
          MaxArrivals      \* bound: requests per client

Ips == {IpOf[c] : c \in Clients}
Events == 1..MaxEvents
Requests == UNION {{c} \X (1..MaxArrivals[c]) : c \in Clients}

ASSUME SseAssumption ==
  /\ IsFiniteSet(Clients) /\ Clients # {}
  /\ Multi \subseteq Clients /\ Careless \subseteq Clients \ Multi
  /\ RestReaders \subseteq Clients
  /\ MaxEvents \in Nat /\ MaxStored \in Nat
  /\ Wants \in [Clients -> SUBSET Events] /\ Selected \in [Clients -> SUBSET Events]
  /\ \A c \in Clients : Wants[c] \subseteq Selected[c]
  /\ MaxConnections \in Nat /\ MaxPerIp \in Nat /\ ReplayLimit \in Nat
  /\ Capacity \in Nat \ {0} /\ Channel \in Nat \ {0} /\ MaxLag \in Nat
  /\ MaxArrivals \in [Clients -> Nat]

VARIABLES
  pushed, sent,            \* events in the ring buffer's and the channel's history
  created, closed,         \* created_at of each event's row, 0 for no row; the
                           \* events up to closed are of transactions that ended
  shutdown,                \* the value of the shutdown watch
  connections, perIp,      \* AppState::sse_connections, sse_connections_per_ip
  pc,                      \* where each client's request is
  lastId, rowId,           \* the client's Last-Event-ID, if usable: of the ring
                           \* buffer, or of a row
  replay, rows, position,  \* frames to replay from the ring buffer, and from the
                           \* table; the receiver's next event
  arrivals,                \* history: requests made
  snapshot,                \* history: pushed when the ring buffer was read
  seen, excused,           \* history: events received; misses with a known cause
  lastFrame, repeats,      \* history: last frame of the connection, frames seen twice in it
  leaked                   \* history: the requests whose slot is never given back

tableVars   == <<created, closed>>
serverVars  == <<pushed, sent, tableVars, shutdown>>
countVars   == <<connections, perIp>>
idVars      == <<lastId, rowId>>
streamVars  == <<pc, idVars, replay, rows, position>>
historyVars == <<arrivals, snapshot, seen, excused, lastFrame, repeats, leaked>>
vars == <<serverVars, countVars, streamVars, historyVars>>

Handling  == {"check", "ipcheck", "ipadd", "count", "validate", "snapshot", "query", "subscribe"}
Streaming == {"stream", "closing"}

TypeOK ==
  /\ pushed \in 0..MaxEvents /\ sent \in 0..MaxEvents /\ shutdown \in BOOLEAN
  /\ connections \in Nat /\ perIp \in [Ips -> Nat]
  /\ pc \in [Clients -> Handling \cup Streaming \cup {"away"}]
  /\ created \in [Events -> 0..MaxEvents] /\ closed \in 0..MaxEvents
  /\ lastId \in [Clients -> 0..MaxEvents] /\ rowId \in [Clients -> 0..MaxEvents]
  /\ \A c \in Clients : lastId[c] = 0 \/ rowId[c] = 0
  /\ rows \in [Clients -> SUBSET Events]
  /\ replay \in [Clients -> SUBSET Events] /\ position \in [Clients -> 0..(MaxEvents + 1)]
  /\ arrivals \in [Clients -> Nat] /\ \A c \in Clients : arrivals[c] <= MaxArrivals[c]
  /\ snapshot \in [Clients -> 0..MaxEvents]
  /\ seen \in [Clients -> SUBSET Events] /\ excused \in [Clients -> SUBSET Events]
  /\ lastFrame \in [Clients -> 0..MaxEvents] /\ repeats \in [Clients -> SUBSET Events]
  /\ leaked \subseteq Requests

Init ==
  /\ pushed = 0 /\ sent = 0 /\ shutdown = FALSE
  /\ created = [e \in Events |-> 0] /\ closed = 0
  /\ connections = 0 /\ perIp = [i \in Ips |-> 0]
  /\ pc = [c \in Clients |-> "away"]
  /\ lastId = [c \in Clients |-> 0] /\ rowId = [c \in Clients |-> 0]
  /\ replay = [c \in Clients |-> {}] /\ rows = [c \in Clients |-> {}] /\ position = [c \in Clients |-> 0]
  /\ arrivals = [c \in Clients |-> 0] /\ snapshot = [c \in Clients |-> 0]
  /\ seen = [c \in Clients |-> {}] /\ excused = [c \in Clients |-> {}]
  /\ lastFrame = [c \in Clients |-> 0] /\ repeats = [c \in Clients |-> {}]
  /\ leaked = {}

At(c, where) == pc[c] = where
Goto(c, where) == pc' = [pc EXCEPT ![c] = where]

-----------------------------------------------------------------------------
(* The indexer: SseRingBuffer::push, the broadcast of the copy, the end of   *)
(* the transaction of a page. It stores the page at hand to its end after a  *)
(* shutdown.                                                                 *)

Push ==
  /\ pushed = sent /\ pushed < MaxEvents
  /\ pushed' = pushed + 1
  /\ UNCHANGED <<sent, tableVars, shutdown, countVars, streamVars, historyVars>>

Send ==
  /\ sent < pushed
  /\ sent' = pushed
  /\ UNCHANGED <<pushed, tableVars, shutdown, countVars, streamVars, historyVars>>

\* The rows are there, and created by one NOW(); or a failed INSERT or COMMIT
\* has rolled all of them back.
EndPage(stored) ==
  /\ pushed = sent /\ closed < pushed /\ pushed <= MaxStored
  /\ closed' = pushed
  /\ created' = IF stored
                THEN [e \in Events |-> IF closed < e /\ e <= pushed THEN closed + 1 ELSE created[e]]
                ELSE created
  /\ UNCHANGED <<pushed, sent, shutdown, countVars, streamVars, historyVars>>

InRing(e) == pushed - Capacity < e /\ e <= pushed

\* main.rs shutdown_signal: shutdown_tx.send(true).
Shutdown ==
  /\ ~shutdown /\ shutdown' = TRUE
  /\ UNCHANGED <<pushed, sent, tableVars, countVars, streamVars, historyVars>>

-----------------------------------------------------------------------------
(* Admission *)

Arrive(c) ==
  /\ At(c, "away") /\ ~shutdown /\ arrivals[c] < MaxArrivals[c]
  /\ arrivals' = [arrivals EXCEPT ![c] = @ + 1]
  /\ Goto(c, "check")
  /\ UNCHANGED <<serverVars, countVars, idVars, replay, rows, position,
                 snapshot, seen, excused, lastFrame, repeats, leaked>>

\* A client that reads on from the last row of a REST answer.
ArriveFromRow(c, e) ==
  /\ At(c, "away") /\ ~shutdown /\ arrivals[c] < MaxArrivals[c]
  /\ c \in RestReaders /\ created[e] # 0
  /\ arrivals' = [arrivals EXCEPT ![c] = @ + 1]
  /\ lastId' = [lastId EXCEPT ![c] = 0] /\ rowId' = [rowId EXCEPT ![c] = e]
  /\ seen' = [seen EXCEPT ![c] = {}] /\ excused' = [excused EXCEPT ![c] = {}]
  /\ Goto(c, "check")
  /\ UNCHANGED <<serverVars, countVars, replay, rows, position,
                 snapshot, lastFrame, repeats, leaked>>

CheckLimit(c) ==
  /\ At(c, "check")
  /\ Goto(c, IF connections >= MaxConnections THEN "away" ELSE "ipcheck")
  /\ UNCHANGED <<serverVars, countVars, idVars, replay, rows, position, historyVars>>

CheckIp(c) ==
  /\ At(c, "ipcheck")
  /\ Goto(c, IF MaxPerIp = 0 THEN "count"
             ELSE IF perIp[IpOf[c]] >= MaxPerIp THEN "away" ELSE "ipadd")
  /\ UNCHANGED <<serverVars, countVars, idVars, replay, rows, position, historyVars>>

AddIp(c) ==
  /\ At(c, "ipadd")
  /\ perIp' = [perIp EXCEPT ![IpOf[c]] = @ + 1]
  /\ Goto(c, "count")
  /\ UNCHANGED <<serverVars, connections, idVars, replay, rows, position, historyVars>>

Count(c) ==
  /\ At(c, "count")
  /\ connections' = connections + 1
  /\ Goto(c, "validate")
  /\ UNCHANGED <<serverVars, perIp, idVars, replay, rows, position, historyVars>>

\* A slot given back; the address counter does not go below zero.
FreeSlot(c) ==
  /\ connections' = connections - 1
  /\ perIp' = IF MaxPerIp > 0 /\ perIp[IpOf[c]] > 0
              THEN [perIp EXCEPT ![IpOf[c]] = @ - 1] ELSE perIp

\* Bug: an invalid contract_id returns early, with the slot.
BugRejectKeepsSlot(c) ==
  /\ At(c, "validate") /\ c \in Careless
  /\ Goto(c, "away")
  /\ UNCHANGED <<serverVars, countVars, idVars, replay, rows, position, historyVars>>

\* Only stream_events_internal validates after it has counted.
Reject(c) ==
  /\ At(c, "validate") /\ c \in Careless
  /\ FreeSlot(c)
  /\ Goto(c, "away")
  /\ UNCHANGED <<serverVars, idVars, replay, rows, position, historyVars>>

\* Bug: the stream is counted again when it is set up.
BugAccept(c) ==
  /\ At(c, "validate")
  /\ connections' = connections + 1
  /\ Goto(c, "snapshot")
  /\ UNCHANGED <<serverVars, perIp, idVars, replay, rows, position, historyVars>>

Accept(c) ==
  /\ At(c, "validate")
  /\ Goto(c, "snapshot")
  /\ UNCHANGED <<serverVars, countVars, idVars, replay, rows, position, historyVars>>

-----------------------------------------------------------------------------
(* Replay *)

\* Bug: events_since also skips the event after the last one received.
BugMissed(c) == IF lastId[c] # 0 /\ InRing(lastId[c])
                THEN {e \in Wants[c] : lastId[c] + 1 < e /\ e <= pushed} ELSE {}

\* events_since, filtered.
Missed(c) == IF lastId[c] # 0 /\ InRing(lastId[c])
             THEN {e \in Wants[c] : lastId[c] < e /\ e <= pushed} ELSE {}

\* take(sse_replay_limit)
FirstOf(S, n) == {e \in S : Cardinality({f \in S : f < e}) < n}

Before(c) == {e \in Wants[c] : e <= pushed}

\* Without a usable id, or with one of the ring buffer that was evicted, what
\* came before is given up; so is what is over the limit. The table is asked
\* when the ring buffer has nothing for the id.
Snapshot(c) ==
  /\ At(c, "snapshot")
  /\ replay' = [replay EXCEPT ![c] = FirstOf(Missed(c), ReplayLimit)]
  /\ snapshot' = [snapshot EXCEPT ![c] = pushed]
  /\ excused' = [excused EXCEPT ![c] = @ \cup
       IF rowId[c] # 0 THEN {}
       ELSE IF lastId[c] # 0 /\ InRing(lastId[c]) THEN Missed(c) \ replay'[c]
       ELSE Before(c)]
  /\ Goto(c, IF (lastId[c] # 0 \/ rowId[c] # 0) /\ replay'[c] = {} THEN "query" ELSE "subscribe")
  /\ UNCHANGED <<serverVars, countVars, idVars, rows, position,
                 arrivals, seen, lastFrame, repeats, leaked>>

\* created_at > (that of the row with the id). The UUIDs of the ring buffer
\* are no row's id, and the columns stream_events_multi selects lack one that
\* the type it decodes them to requires, an error as soon as there is a row:
\* no rows, as on any error.
RowsSince(c) ==
  IF rowId[c] = 0 \/ c \in Multi THEN {}
  ELSE {e \in Selected[c] : created[e] > created[rowId[c]]}

\* What the query cannot find: events whose rows are not there, and those
\* of the transaction of the client's row or of earlier ones.
Unfindable(c) ==
  {e \in Before(c) : c \in Multi \/ created[e] = 0 \/ created[e] <= created[rowId[c]]}

\* The fallback: ORDER BY created_at LIMIT sse_replay_limit.
QueryDb(c) ==
  /\ At(c, "query")
  /\ \E found \in SUBSET RowsSince(c) :
       /\ Cardinality(found) = Min({ReplayLimit, Cardinality(RowsSince(c))})
       /\ \A e \in found, f \in RowsSince(c) \ found : created[e] <= created[f]
       /\ rows' = [rows EXCEPT ![c] = found]
  /\ IF rowId[c] = 0 THEN UNCHANGED <<snapshot, excused>>
     ELSE /\ snapshot' = [snapshot EXCEPT ![c] = pushed]
          /\ excused' = [excused EXCEPT ![c] = @ \cup Unfindable(c) \cup (RowsSince(c) \ rows'[c])]
  /\ Goto(c, "subscribe")
  /\ UNCHANGED <<serverVars, countVars, idVars, replay, position,
                 arrivals, seen, lastFrame, repeats, leaked>>

\* Its error is dropped, and all it would have found is missed.
QueryFails(c) ==
  /\ At(c, "query") /\ rowId[c] # 0 /\ c \notin Multi
  /\ snapshot' = [snapshot EXCEPT ![c] = pushed]
  /\ excused' = [excused EXCEPT ![c] = @ \cup Before(c)]
  /\ Goto(c, "subscribe")
  /\ UNCHANGED <<serverVars, countVars, idVars, replay, rows, position,
                 arrivals, seen, lastFrame, repeats, leaked>>

\* The oldest event the channel still has.
Oldest == IF sent > Channel THEN sent - Channel + 1 ELSE 1

\* Bug: the receiver starts with what the channel still has.
BugSubscribe(c) ==
  /\ At(c, "subscribe")
  /\ position' = [position EXCEPT ![c] = Oldest]
  /\ excused' = [excused EXCEPT ![c] = @ \cup {e \in Wants[c] : snapshot[c] < e /\ e <= sent}]
  /\ Goto(c, "stream")
  /\ UNCHANGED <<serverVars, countVars, idVars, replay, rows,
                 arrivals, snapshot, seen, lastFrame, repeats, leaked>>

\* event_tx.subscribe(): what is sent from now on. Events pushed after the
\* snapshot and sent by now are in neither.
Subscribe(c) ==
  /\ At(c, "subscribe")
  /\ position' = [position EXCEPT ![c] = sent + 1]
  /\ excused' = [excused EXCEPT ![c] = @ \cup {e \in Wants[c] : snapshot[c] < e /\ e <= sent}]
  /\ Goto(c, "stream")
  /\ UNCHANGED <<serverVars, countVars, idVars, replay, rows,
                 arrivals, snapshot, seen, lastFrame, repeats, leaked>>

-----------------------------------------------------------------------------
(* The stream *)

Deliver(c, e) ==
  /\ seen' = [seen EXCEPT ![c] = @ \cup {e}]
  /\ lastFrame' = [lastFrame EXCEPT ![c] = e]
  /\ repeats' = [repeats EXCEPT ![c] = IF e \in seen[c] THEN @ \cup {e} ELSE @]

\* The client remembers the id of the frame: of the ring buffer's, or of a row.
Remember(c, ring, row) ==
  /\ lastId' = [lastId EXCEPT ![c] = ring]
  /\ rowId' = [rowId EXCEPT ![c] = row]

\* A replayed frame: its id is not a UUID.
ReplayFrame(c) ==
  /\ At(c, "stream") /\ replay[c] # {}
  /\ LET e == Min(replay[c]) IN
       /\ Deliver(c, e)
       /\ replay' = [replay EXCEPT ![c] = @ \ {e}]
  /\ Remember(c, 0, 0)
  /\ UNCHANGED <<serverVars, countVars, pc, rows, position, arrivals, snapshot, excused, leaked>>

\* A frame replayed from the table, by created_at, with its row's id.
ReplayRow(c) ==
  /\ At(c, "stream") /\ replay[c] = {}
  /\ \E e \in rows[c] :
       /\ \A f \in rows[c] : created[e] <= created[f]
       /\ Deliver(c, e)
       /\ rows' = [rows EXCEPT ![c] = @ \ {e}]
       /\ Remember(c, 0, e)
  /\ UNCHANGED <<serverVars, countVars, pc, replay, position, arrivals, snapshot, excused, leaked>>

\* recv returns an event, which the filters pass or skip.
LiveFrame(c) ==
  /\ At(c, "stream") /\ replay[c] = {} /\ rows[c] = {}
  /\ Oldest <= position[c] /\ position[c] <= sent
  /\ position' = [position EXCEPT ![c] = @ + 1]
  /\ IF position[c] \in Wants[c]
     THEN /\ Deliver(c, position[c])
          /\ Remember(c, position[c], 0)
     ELSE UNCHANGED <<seen, lastFrame, repeats, idVars>>
  /\ UNCHANGED <<serverVars, countVars, pc, replay, rows, arrivals, snapshot, excused, leaked>>

\* Bug: the receiver stays where it was.
BugLagged(c) ==
  /\ At(c, "stream") /\ replay[c] = {} /\ rows[c] = {}
  /\ position[c] < Oldest
  /\ IF MaxLag > 0 /\ Oldest - position[c] >= MaxLag THEN Goto(c, "closing") ELSE UNCHANGED pc
  /\ UNCHANGED <<serverVars, countVars, idVars, replay, rows, position, historyVars>>

\* recv returns Lagged: the client is told how many, and is disconnected
\* when they are too many.
Lagged(c) ==
  /\ At(c, "stream") /\ replay[c] = {} /\ rows[c] = {}
  /\ position[c] < Oldest
  /\ position' = [position EXCEPT ![c] = Oldest]
  /\ excused' = [excused EXCEPT ![c] = @ \cup {e \in Wants[c] : position[c] <= e /\ e < Oldest}]
  /\ IF MaxLag > 0 /\ Oldest - position[c] >= MaxLag THEN Goto(c, "closing") ELSE UNCHANGED pc
  /\ UNCHANGED <<serverVars, countVars, idVars, replay, rows,
                 arrivals, snapshot, seen, lastFrame, repeats, leaked>>

\* Only the streams of stream_events_internal watch the shutdown signal.
CloseOnShutdown(c) ==
  /\ At(c, "stream") /\ replay[c] = {} /\ rows[c] = {} /\ shutdown /\ c \notin Multi
  /\ Goto(c, "closing")
  /\ UNCHANGED <<serverVars, countVars, idVars, replay, rows, position, historyVars>>

\* The connection is over, and its receiver and its replay are dropped.
Drop(c) ==
  /\ Goto(c, "away")
  /\ replay' = [replay EXCEPT ![c] = {}] /\ rows' = [rows EXCEPT ![c] = {}]
  /\ position' = [position EXCEPT ![c] = 0]
  /\ snapshot' = [snapshot EXCEPT ![c] = 0]
  /\ lastFrame' = [lastFrame EXCEPT ![c] = 0] /\ repeats' = [repeats EXCEPT ![c] = {}]

\* The stream yields None: the slot is given back.
Finish(c) ==
  /\ At(c, "closing")
  /\ FreeSlot(c)
  /\ Drop(c)
  /\ UNCHANGED <<serverVars, idVars, arrivals, seen, excused, leaked>>

\* The client goes away: the response, or the request at its await, is
\* dropped, and nothing gives the slot back.
Disconnect(c) ==
  /\ pc[c] \in Streaming \cup {"query"}
  /\ leaked' = leaked \cup {<<c, arrivals[c]>>}
  /\ Drop(c)
  /\ UNCHANGED <<serverVars, countVars, idVars, arrivals, seen, excused>>

-----------------------------------------------------------------------------
Handle(c) == \/ CheckLimit(c) \/ CheckIp(c) \/ AddIp(c) \/ Count(c) \/ Reject(c) \/ Accept(c)
             \/ Snapshot(c) \/ QueryDb(c) \/ QueryFails(c) \/ Subscribe(c)

Stream(c) == \/ ReplayFrame(c) \/ ReplayRow(c) \/ LiveFrame(c) \/ Lagged(c)
             \/ CloseOnShutdown(c) \/ Finish(c)

Next == \/ Push \/ Send \/ Shutdown \/ \E stored \in BOOLEAN : EndPage(stored)
        \/ \E c \in Clients : \E e \in Events : ArriveFromRow(c, e)
        \/ \E c \in Clients : Arrive(c) \/ Handle(c) \/ Stream(c) \/ Disconnect(c)

\* The runtime polls every request and every stream whose client reads.
Fairness == \A c \in Clients : WF_vars(Handle(c) \/ Stream(c))

Spec == Init /\ [][Next]_vars /\ Fairness

-----------------------------------------------------------------------------
(* Properties *)

Counted  == {"validate", "snapshot", "query", "subscribe"} \cup Streaming
Those(S) == {c \in Clients : pc[c] \in S}
From(i)  == {c \in Clients : IpOf[c] = i}

\* The connection counters are the requests between their increment and their
\* decrement, and those whose client left (lines 1544-1551, 1566, 1815-1821):
\* no path gives a slot back twice or forgets to count one.
SlotsAccounted ==
  /\ connections = Cardinality(Those(Counted)) + Cardinality(leaked)
  /\ MaxPerIp > 0 => \A i \in Ips :
       perIp[i] = Cardinality(Those(Counted \cup {"count"}) \cap From(i))
                  + Cardinality({r \in leaked : r[1] \in From(i)})

\* The limit is read before the counter is raised (1507, 1545), so requests
\* in between can go over it, by no more than the others there are at once.
OvershootBounded ==
  connections + Cardinality(Those({"ipcheck", "ipadd", "count"}))
    <= MaxConnections + Cardinality(Clients) - 1

\* A stream that has passed a wanted event has delivered it or is about to,
\* unless one of these took it away (1592-1670, 1768): no usable id; an id of
\* the ring buffer that was evicted; the limit of the replay; a push between
\* reading the ring buffer, or the table, and subscribing; a row that was not
\* there when the table was asked, or is of the same transaction as the
\* client's; a failed query; the query of stream_events_multi; lag. Nothing
\* else is missed. docs/sse-reconnection.md promises that nothing is, and only
\* the limit and lag are its exceptions: AllReplayed, below, says so.
MissedAccounted ==
  \A c \in Those({"stream"}), e \in Events :
    e \in Wants[c] /\ e < position[c]
      => e \in seen[c] \cup replay[c] \cup rows[c] \cup excused[c]

\* A connection repeats at most the one event that was in the ring buffer and
\* not yet in the channel when the client came back (indexer.rs 882, 889).
OneRepeat == \A c \in Those({"stream"}) : Cardinality(repeats[c]) <= 1

OneTransaction(e, f) == created[e] # 0 /\ created[e] = created[f]

\* The frames of one connection, replayed and live, never go back, but for the
\* rows of one transaction, which the query leaves in any order.
FramesInOrder ==
  [][\A c \in Clients : pc[c] = "stream" /\ pc'[c] = "stream" =>
       lastFrame[c] <= lastFrame'[c] \/ OneTransaction(lastFrame[c], lastFrame'[c])]_vars

Behind(c) == pc[c] = "stream" /\ (replay[c] # {} \/ rows[c] # {} \/ position[c] <= sent)

\* No stream stays behind (1677-1800): whatever the ring buffer, the table and
\* the channel have for it, through lag, the closing of others and the shutdown,
\* it comes to the end of that, or it ends. MissedAccounted says what became of
\* every event on the way. (Of the finitely many events of an instance.)
EventuallyReceived == []<>(\A c \in Clients : ~Behind(c))

-----------------------------------------------------------------------------
(* What the documentation says, which the code does not do *)

\* "Clients that disconnect and reconnect will receive all events they missed",
\* and for evicted ones "the server falls back to a database query" (docs/
\* sse-reconnection.md:4, 19; handlers.rs:1594): when the replay of a client
\* that has received an event is put together, it has, or had before, every
\* wanted event whose row a later transaction has put into the table, but for
\* those that are to come live. (Of a client that never lagged, with a limit of
\* the replay that is not reached.)
AllReplayed ==
  [][\A c \in Clients :
       /\ Snapshot(c) \/ QueryDb(c)
       /\ pc'[c] = "subscribe" /\ seen[c] # {} /\ created[Min(seen[c])] # 0
       => \A e \in Wants[c] :
            created[Min(seen[c])] < created[e] /\ e <= sent
              => e \in seen[c] \cup replay'[c] \cup rows'[c]]_vars

=============================================================================
