--------------------------- MODULE SseStreamProofs ---------------------------
(***************************************************************************)
(* Proofs about SseStream, for every set of clients, filters, limits and   *)
(* bounds. What a client has received or been excused from covers all that *)
(* is up to its last usable id; reading the ring buffer, or the table,     *)
(* extends that to the snapshot, subscribing to what has been sent, and    *)
(* each live frame by one. Frames are in order because a replay ends where *)
(* the live stream starts, or one event later, and because the rows of     *)
(* later events are later rows.                                            *)
(***************************************************************************)
EXTENDS SseStream, FiniteSetTheorems, WellFoundedInduction, TLAPS

\* A set of events that is not empty has its least element.
LEMMA MinEvent ==
  ASSUME NEW S \in SUBSET Events, S # {}
  PROVE  Min(S) \in S /\ \A e \in S : Min(S) <= e
  <1> DEFINE Less == {ss \in Nat \X Nat : ss[1] < ss[2]}
  <1>1. IsWellFoundedOn(Less, Nat)
    BY NatLessThanWellFounded DEF OpToRel
  <1>2. S \subseteq Nat
    BY DEF Events
  <1>3. \E x \in S : \A y \in S : <<y, x>> \notin Less
    <2> HIDE DEF Less
    <2> QED BY <1>1, <1>2, WFMin
  <1>4. ASSUME NEW x \in Nat, NEW y \in Nat, <<y, x>> \notin Less PROVE x <= y
    BY <1>4
  <1>5. \E x \in S : \A y \in S : x <= y
    BY <1>2, <1>3, <1>4
  <1> QED
    BY <1>5 DEF Min

\* An event is a number that is not 0; clients want and select events.
LEMMA EventNumbers ==
  /\ \A e \in Events : e \in Nat /\ e # 0 /\ e \in 0..MaxEvents
  /\ 0 \in 0..MaxEvents
  /\ \A r \in 0..MaxEvents : r \in Nat /\ (r # 0 => r \in Events)
  /\ \A c \in Clients : Wants[c] \subseteq Events /\ Selected[c] \subseteq Events /\ Wants[c] \subseteq Selected[c]
  <1>1. \A c \in Clients : Wants[c] \subseteq Events /\ Selected[c] \subseteq Events /\ Wants[c] \subseteq Selected[c]
    BY SseAssumption
  <1> QED BY <1>1, SseAssumption DEF Events

-----------------------------------------------------------------------------
(* The inductive invariant *)

StreamTypes ==
  /\ pushed \in Nat /\ sent \in Nat /\ pushed \in {sent, sent + 1} /\ pushed <= MaxEvents
  /\ closed \in Nat /\ closed <= sent /\ created \in [Events -> 0..MaxEvents]
  /\ pc \in [Clients -> Handling \cup Streaming \cup {"away"}]
  /\ lastId \in [Clients -> 0..MaxEvents] /\ rowId \in [Clients -> 0..MaxEvents]
  /\ replay \in [Clients -> SUBSET Events] /\ rows \in [Clients -> SUBSET Events]
  /\ position \in [Clients -> Nat] /\ snapshot \in [Clients -> Nat]
  /\ seen \in [Clients -> SUBSET Events] /\ excused \in [Clients -> SUBSET Events]
  /\ lastFrame \in [Clients -> 0..MaxEvents]

\* Rows are those of transactions that ended, and later events have later rows.
TableInv ==
  /\ \A e \in Events : created[e] # 0 => e <= closed /\ created[e] <= e
  /\ \A f, e \in Events : f <= e /\ created[f] # 0 /\ created[e] # 0 => created[f] <= created[e]

\* A row to read on from exists. Rows to replay come when the ring buffer has
\* nothing, behind the receiver, and each has that of the last frame before it.
RowOk(c) ==
  /\ lastId[c] = 0 \/ rowId[c] = 0
  /\ rowId[c] # 0 => created[rowId[c]] # 0
  /\ pc[c] = "query" => replay[c] = {}
  /\ rows[c] # {} => /\ replay[c] = {} /\ rowId[c] # 0 /\ pc[c] \in {"subscribe", "stream"}
                     /\ lastFrame[c] \in {0, rowId[c]}
  /\ \A e \in rows[c] : /\ created[e] # 0 /\ created[rowId[c]] <= created[e]
                        /\ pc[c] = "stream" => e <= position[c]

RowInv == \A c \in Clients : RowOk(c)

Known(c) == seen[c] \cup replay[c] \cup rows[c] \cup excused[c]

\* All up to the last usable id is received or excused.
IdCovers(c) == \A e \in Wants[c] : e <= lastId[c] => e \in seen[c] \cup excused[c]

\* So is, or will be replayed, all up to the snapshot. With the id of a row the
\* table is asked first.
SnapshotCovers(c) ==
  pc[c] = "subscribe" \/ (pc[c] = "query" /\ rowId[c] = 0) =>
    \A e \in Wants[c] : e <= snapshot[c] => e \in Known(c)

\* And then all up to the receiver's next event.
StreamCovers(c) == pc[c] = "stream" => \A e \in Wants[c] : e < position[c] => e \in Known(c)

\* The replay is not ahead of the snapshot, nor of the receiver.
ReplayBehind(c) ==
  /\ pc[c] \in {"query", "subscribe"} =>
       snapshot[c] <= pushed /\ \A e \in replay[c] : e <= snapshot[c]
  /\ pc[c] = "stream" =>
       /\ lastFrame[c] <= position[c]
       /\ \A e \in replay[c] : lastFrame[c] <= e /\ e <= position[c]
  /\ pc[c] \notin Streaming => lastFrame[c] = 0

CoverOk(c) == IdCovers(c) /\ SnapshotCovers(c) /\ StreamCovers(c) /\ ReplayBehind(c)

CoverInv == \A c \in Clients : CoverOk(c)

IInv == StreamTypes /\ TableInv /\ RowInv /\ CoverInv

\* At first no request is made: nothing is read, replayed or missed.
LEMMA InitIInv == Init => IInv
  <1> SUFFICES ASSUME Init PROVE IInv
    OBVIOUS
  <1>1. StreamTypes
    BY SseAssumption DEF Init, StreamTypes, Handling, Streaming
  <1>2. TableInv /\ RowInv
    BY DEF Init, TableInv, RowInv, RowOk
  <1>3. CoverInv
    BY SseAssumption DEF Init, CoverInv, CoverOk, IdCovers, SnapshotCovers, StreamCovers, ReplayBehind,
       Events, Streaming
  <1> QED BY <1>1, <1>2, <1>3 DEF IInv

\* What the query gives: some of the rows since the client's, none without one.
LEMMA QueryGives ==
  ASSUME NEW c \in Clients, QueryDb(c)
  PROVE  \E found \in SUBSET Selected[c] :
           /\ rows' = [rows EXCEPT ![c] = found]
           /\ found # {} => rowId[c] # 0
           /\ \A e \in found : created[e] > created[rowId[c]]
           /\ rowId[c] = 0 => UNCHANGED <<snapshot, excused>>
           /\ rowId[c] # 0 => /\ snapshot' = [snapshot EXCEPT ![c] = pushed]
                              /\ excused' = [excused EXCEPT ![c] =
                                   @ \cup Unfindable(c) \cup (RowsSince(c) \ rows'[c])]
  <1>1. PICK found \in SUBSET RowsSince(c) : rows' = [rows EXCEPT ![c] = found]
    BY DEF QueryDb
  <1>2. /\ rowId[c] = 0 => UNCHANGED <<snapshot, excused>>
        /\ rowId[c] # 0 => /\ snapshot' = [snapshot EXCEPT ![c] = pushed]
                           /\ excused' = [excused EXCEPT ![c] =
                                @ \cup Unfindable(c) \cup (RowsSince(c) \ rows'[c])]
    BY DEF QueryDb
  <1>3. found \in SUBSET Selected[c] /\ (found # {} => rowId[c] # 0)
        /\ \A e \in found : created[e] > created[rowId[c]]
    BY DEF RowsSince
  <1> QED BY <1>1, <1>2, <1>3

\* Every event the client wants that was pushed is found, or there is no finding it.
LEMMA QueryCovers ==
  ASSUME StreamTypes, NEW c \in Clients, rowId[c] # 0, NEW e \in Wants[c], e <= pushed,
         rowId[c] \in Events
  PROVE  e \in Unfindable(c) \cup RowsSince(c)
  <1> USE SseAssumption DEF StreamTypes
  <1>1. e \in Events /\ e \in Selected[c] /\ created[e] \in Nat /\ created[rowId[c]] \in Nat
    OBVIOUS
  <1>2. e \in Before(c)
    BY DEF Before
  <1>3. CASE c \in Multi \/ created[e] = 0 \/ created[e] <= created[rowId[c]]
    BY <1>2, <1>3 DEF Unfindable
  <1>4. CASE c \notin Multi /\ created[e] > created[rowId[c]]
    BY <1>1, <1>4 DEF RowsSince
  <1> QED BY <1>1, <1>3, <1>4

\* Unfindable rows and rows found are events.
LEMMA QueryTypes ==
  ASSUME NEW c \in Clients
  PROVE  /\ Unfindable(c) \in SUBSET Events /\ RowsSince(c) \in SUBSET Events
         /\ Before(c) \in SUBSET Events
         /\ \A e \in Wants[c] : e <= pushed => e \in Before(c)
  BY SseAssumption DEF Unfindable, RowsSince, Before

\* A live frame is one of the events.
LEMMA LiveFrameTypes ==
  ASSUME StreamTypes, NEW c \in Clients, LiveFrame(c)
  PROVE  StreamTypes'
  <1> USE DEF StreamTypes, LiveFrame
  <1>1. Wants[c] \subseteq Events /\ position[c] \in Nat
    BY SseAssumption
  <1>2. UNCHANGED <<pushed, sent, closed, created, pc, replay, rows, snapshot, excused>>
    BY DEF serverVars, tableVars
  <1>3. position' \in [Clients -> Nat]
    BY <1>1
  <1>4. CASE position[c] \in Wants[c]
    <2>1. position[c] \in Events /\ position[c] \in 0..MaxEvents /\ 0 \in 0..MaxEvents
      BY <1>1, <1>4, SseAssumption DEF Events
    <2>2. /\ lastId' = [lastId EXCEPT ![c] = position[c]] /\ rowId' = [rowId EXCEPT ![c] = 0]
          /\ seen' = [seen EXCEPT ![c] = @ \cup {position[c]}]
          /\ lastFrame' = [lastFrame EXCEPT ![c] = position[c]]
      BY <1>4 DEF Deliver, Remember
    <2>3. /\ lastId' \in [Clients -> 0..MaxEvents] /\ rowId' \in [Clients -> 0..MaxEvents]
          /\ seen' \in [Clients -> SUBSET Events] /\ lastFrame' \in [Clients -> 0..MaxEvents]
      <3> HIDE DEF LiveFrame
      <3> QED BY <2>1, <2>2
    <2> HIDE DEF LiveFrame
    <2> QED BY <1>2, <1>3, <2>3
  <1>5. CASE position[c] \notin Wants[c]
    <2>1. UNCHANGED <<lastId, rowId, seen, lastFrame>>
      BY <1>5 DEF idVars
    <2> HIDE DEF LiveFrame
    <2> QED BY <1>2, <1>3, <2>1
  <1> QED BY <1>4, <1>5

\* Only the end of a page changes the table.
LEMMA TableKept ==
  ASSUME [Next]_vars
  PROVE  UNCHANGED tableVars \/ \E stored \in BOOLEAN : EndPage(stored)
  <1> USE DEF tableVars, serverVars
  <1>1. CASE Push \/ Send \/ Shutdown
    BY <1>1 DEF Push, Send, Shutdown
  <1>2. ASSUME NEW c \in Clients, NEW e \in Events, ArriveFromRow(c, e) PROVE UNCHANGED tableVars
    BY <1>2 DEF ArriveFromRow
  <1>3. ASSUME NEW c \in Clients, Handle(c) PROVE UNCHANGED tableVars
    BY <1>3 DEF Handle, CheckLimit, CheckIp, AddIp, Count, Reject, Accept, Snapshot, QueryDb,
                QueryFails, Subscribe
  <1>4. ASSUME NEW c \in Clients, Stream(c) PROVE UNCHANGED tableVars
    BY <1>4 DEF Stream, ReplayFrame, ReplayRow, LiveFrame, Lagged, CloseOnShutdown, Finish
  <1>5. ASSUME NEW c \in Clients, Arrive(c) \/ Disconnect(c) PROVE UNCHANGED tableVars
    BY <1>5 DEF Arrive, Disconnect
  <1>6. CASE UNCHANGED vars
    BY <1>6 DEF vars
  <1> QED BY <1>1, <1>2, <1>3, <1>4, <1>5, <1>6 DEF Next

\* The rows of a page are newer than those before, and older than its events.
LEMMA EndPageTable ==
  ASSUME StreamTypes, TableInv, NEW stored \in BOOLEAN, EndPage(stored)
  PROVE  /\ TableInv' /\ closed' \in Nat /\ closed' <= sent /\ created' \in [Events -> 0..MaxEvents]
         /\ \A e \in Events : created[e] # 0 => created'[e] = created[e]
  <1> USE SseAssumption DEF StreamTypes, TableInv, Events
  <1>1. closed' = pushed /\ closed < pushed /\ pushed = sent /\ closed + 1 \in 1..MaxEvents
    BY DEF EndPage
  <1>2. CASE stored
    <2>1. \A e \in Events : created'[e] = IF closed < e /\ e <= pushed THEN closed + 1 ELSE created[e]
      BY <1>2 DEF EndPage
    <2>2. created' \in [Events -> 0..MaxEvents]
      BY <1>1, <1>2 DEF EndPage
    <2>3. \A e \in Events : created[e] # 0 => e <= closed /\ created'[e] = created[e]
      BY <2>1
    <2>4. \A e \in Events : created'[e] # 0 => e <= closed' /\ created'[e] <= e
      BY <1>1, <2>1
    <2>5. ASSUME NEW f \in Events, NEW e \in Events, f <= e, created'[f] # 0, created'[e] # 0
          PROVE  created'[f] <= created'[e]
      <3>1. CASE closed < f
        BY <1>1, <2>1, <2>5, <3>1
      <3>2. CASE f <= closed /\ closed < e
        BY <1>1, <2>1, <2>5, <3>2
      <3>3. CASE e <= closed
        BY <1>1, <2>1, <2>5, <3>3
      <3> QED BY <1>1, <3>1, <3>2, <3>3
    <2> QED BY <1>1, <2>2, <2>3, <2>4, <2>5
  <1>3. CASE ~ stored
    BY <1>1, <1>3 DEF EndPage
  <1> QED BY <1>2, <1>3

\* The table stays in order.
LEMMA TableStep == StreamTypes /\ TableInv /\ [Next]_vars => TableInv'
  <1> SUFFICES ASSUME StreamTypes, TableInv, [Next]_vars PROVE TableInv'
    OBVIOUS
  <1>1. CASE UNCHANGED tableVars
    BY <1>1 DEF tableVars, TableInv
  <1>2. ASSUME NEW stored \in BOOLEAN, EndPage(stored) PROVE TableInv'
    BY <1>2, EndPageTable
  <1> QED BY <1>1, <1>2, TableKept

\* What a step of one request does is not felt by the others.
Alone(c) ==
  \A d \in Clients \ {c} :
    /\ pc'[d] = pc[d] /\ lastId'[d] = lastId[d] /\ rowId'[d] = rowId[d]
    /\ replay'[d] = replay[d] /\ rows'[d] = rows[d] /\ position'[d] = position[d]
    /\ snapshot'[d] = snapshot[d] /\ seen'[d] = seen[d] /\ excused'[d] = excused[d]
    /\ lastFrame'[d] = lastFrame[d]

\* Every step of a request is such a step, and leaves the indexer's part alone.
LEMMA StepsAlone ==
  ASSUME StreamTypes, NEW c \in Clients,
         \/ Arrive(c) \/ (\E e \in Events : ArriveFromRow(c, e))
         \/ Handle(c) \/ Stream(c) \/ Disconnect(c)
  PROVE  Alone(c) /\ UNCHANGED <<pushed, sent, created, closed>>
  <1> USE DEF StreamTypes, Alone, serverVars, tableVars, idVars, streamVars, historyVars, Goto
  <1>1. ASSUME Arrive(c) \/ \E e \in Events : ArriveFromRow(c, e)
        PROVE  Alone(c) /\ UNCHANGED <<pushed, sent, created, closed>>
    BY <1>1 DEF Arrive, ArriveFromRow
  <1>2. ASSUME \/ CheckLimit(c) \/ CheckIp(c) \/ AddIp(c) \/ Count(c) \/ Reject(c) \/ Accept(c)
               \/ Subscribe(c) \/ Snapshot(c)
        PROVE  Alone(c) /\ UNCHANGED <<pushed, sent, created, closed>>
    BY <1>2 DEF CheckLimit, CheckIp, AddIp, Count, Reject, Accept, Subscribe, Snapshot
  <1>3. ASSUME QueryDb(c) \/ QueryFails(c)
        PROVE  Alone(c) /\ UNCHANGED <<pushed, sent, created, closed>>
    <2>1. CASE QueryDb(c)
      <3>1. UNCHANGED <<pushed, sent, created, closed, lastId, rowId, replay, position, seen, lastFrame>>
            /\ pc' = [pc EXCEPT ![c] = "subscribe"]
        BY <2>1 DEF QueryDb
      <3>2. \E found \in SUBSET Selected[c] : rows' = [rows EXCEPT ![c] = found]
        BY <2>1, QueryGives
      <3>3. \A d \in Clients \ {c} : snapshot'[d] = snapshot[d] /\ excused'[d] = excused[d]
        BY <2>1 DEF QueryDb
      <3> QED BY <3>1, <3>2, <3>3
    <2>2. CASE QueryFails(c)
      BY <2>2 DEF QueryFails
    <2> QED BY <1>3, <2>1, <2>2
  <1>4. ASSUME ReplayFrame(c) \/ ReplayRow(c) \/ LiveFrame(c)
        PROVE  Alone(c) /\ UNCHANGED <<pushed, sent, created, closed>>
    BY <1>4 DEF ReplayFrame, ReplayRow, LiveFrame, Deliver, Remember
  <1>5. ASSUME Lagged(c) \/ CloseOnShutdown(c) \/ Finish(c) \/ Disconnect(c)
        PROVE  Alone(c) /\ UNCHANGED <<pushed, sent, created, closed>>
    BY <1>5 DEF Lagged, CloseOnShutdown, Finish, Disconnect, Drop
  <1> QED BY <1>1, <1>2, <1>3, <1>4, <1>5 DEF Handle, Stream

\* What is to be replayed from the table stays behind the receiver, and in order.
LEMMA RowStep ==
  ASSUME StreamTypes, TableInv, RowInv, CoverInv, NEW c \in Clients,
         \/ Arrive(c) \/ (\E e \in Events : ArriveFromRow(c, e))
         \/ Handle(c) \/ Stream(c) \/ Disconnect(c)
  PROVE  RowOk(c)'
  <1> USE DEF StreamTypes, RowOk, serverVars, tableVars, idVars, streamVars, historyVars
  <1>0. RowOk(c)
    BY DEF RowInv
  <1>1. created' = created
    BY StepsAlone
  <1>2. CASE Arrive(c) \/ CheckLimit(c) \/ CheckIp(c) \/ AddIp(c) \/ Count(c) \/ Reject(c) \/ Accept(c)
    <2>1. /\ pc[c] \notin {"query", "subscribe", "stream"} /\ pc'[c] \notin {"query", "subscribe", "stream"}
          /\ UNCHANGED <<lastId, rowId, replay, rows, position, lastFrame>>
      BY <1>2 DEF Arrive, CheckLimit, CheckIp, AddIp, Count, Reject, Accept, At, Goto
    <2> QED BY <1>0, <1>1, <2>1
  <1>3. ASSUME NEW e \in Events, ArriveFromRow(c, e) PROVE RowOk(c)'
    <2>1. /\ pc[c] = "away" /\ pc'[c] = "check" /\ lastId'[c] = 0 /\ rowId'[c] = e /\ created[e] # 0
          /\ UNCHANGED <<replay, rows, position, lastFrame>>
      BY <1>3 DEF ArriveFromRow, At, Goto
    <2> QED BY <1>0, <1>1, <2>1
  <1>4. CASE Snapshot(c)
    <2>1. /\ pc[c] = "snapshot" /\ UNCHANGED <<lastId, rowId, rows, position, lastFrame>>
          /\ pc'[c] \in {"query", "subscribe"} /\ (pc'[c] = "query" => replay'[c] = {})
      BY <1>4 DEF Snapshot, At, Goto
    <2> QED BY <1>0, <1>1, <2>1
  <1>5. CASE QueryDb(c)
    <2>1. PICK found \in SUBSET Selected[c] :
             /\ rows' = [rows EXCEPT ![c] = found] /\ (found # {} => rowId[c] # 0)
             /\ \A e \in found : created[e] > created[rowId[c]]
      BY <1>5, QueryGives
    <2>2. /\ pc[c] = "query" /\ pc'[c] = "subscribe" /\ rows'[c] = found
          /\ UNCHANGED <<lastId, rowId, replay, position, lastFrame>>
      BY <1>5, <2>1 DEF QueryDb, At, Goto
    <2>3. lastFrame[c] = 0 /\ replay[c] = {}
      BY <1>0, <2>2 DEF CoverInv, CoverOk, ReplayBehind, Streaming
    <2>4. ASSUME NEW e \in found PROVE created[e] # 0 /\ created[rowId[c]] <= created[e]
      <3>0. rowId[c] \in 0..MaxEvents /\ rowId[c] # 0
        BY <2>1
      <3>1. e \in Events /\ rowId[c] \in Events
        BY <2>1, <3>0, EventNumbers
      <3>2. created[e] \in Nat /\ created[rowId[c]] \in Nat
        BY <3>1
      <3> QED BY <2>1, <3>2
    <2> QED BY <1>0, <1>1, <2>1, <2>2, <2>3, <2>4
  <1>6. CASE QueryFails(c)
    <2>1. /\ pc[c] = "query" /\ pc'[c] = "subscribe"
          /\ UNCHANGED <<lastId, rowId, replay, rows, position, lastFrame>>
      BY <1>6 DEF QueryFails, At, Goto
    <2> QED BY <1>0, <1>1, <2>1
  <1>7. CASE Subscribe(c)
    <2>1. /\ pc[c] = "subscribe" /\ pc'[c] = "stream" /\ position'[c] = sent + 1
          /\ UNCHANGED <<lastId, rowId, replay, rows, lastFrame>>
      BY <1>7 DEF Subscribe, At, Goto
    <2>2. ASSUME NEW e \in rows[c] PROVE e <= sent + 1
      <3>1. e \in Events /\ created[e] # 0
        BY <1>0
      <3>2. e <= closed /\ e \in Nat
        BY <3>1 DEF TableInv, Events
      <3> QED BY <3>2
    <2> QED BY <1>0, <1>1, <2>1, <2>2
  <1>8. CASE ReplayFrame(c)
    <2>1. rows[c] = {} /\ pc[c] = "stream" /\ lastId'[c] = 0 /\ rowId'[c] = 0 /\ UNCHANGED <<pc, rows, position>>
      BY <1>0, <1>8 DEF ReplayFrame, Remember, At
    <2> QED BY <1>0, <1>1, <2>1
  <1>9. CASE ReplayRow(c)
    <2>1. PICK e \in rows[c] :
            /\ \A f \in rows[c] : created[e] <= created[f]
            /\ rows'[c] = rows[c] \ {e} /\ lastId'[c] = 0 /\ rowId'[c] = e /\ lastFrame'[c] = e
      BY <1>9 DEF ReplayRow, Deliver, Remember
    <2>2. pc[c] = "stream" /\ replay[c] = {} /\ e \in Events /\ created[e] # 0
          /\ UNCHANGED <<pc, replay, position>>
      BY <1>0, <1>9, <2>1 DEF ReplayRow, At
    <2>3. e # 0 /\ lastFrame'[c] \in {0, rowId'[c]}
      BY <2>1, <2>2, SseAssumption DEF Events
    <2> QED BY <1>0, <1>1, <2>1, <2>2, <2>3
  <1>10. CASE LiveFrame(c)
    <2>1. rows[c] = {} /\ pc[c] = "stream" /\ UNCHANGED <<pc, rows>>
      BY <1>10 DEF LiveFrame, At
    <2>2. rowId'[c] = 0 \/ (rowId'[c] = rowId[c] /\ lastId'[c] = lastId[c])
      BY <1>10 DEF LiveFrame, Remember
    <2> QED BY <1>0, <1>1, <2>1, <2>2
  <1>11. CASE Lagged(c) \/ CloseOnShutdown(c)
    <2>1. /\ rows[c] = {} /\ pc[c] = "stream" /\ pc'[c] \in {"stream", "closing"}
          /\ UNCHANGED <<lastId, rowId, replay, rows, lastFrame>>
      BY <1>11 DEF Lagged, CloseOnShutdown, At, Goto
    <2> QED BY <1>0, <1>1, <2>1
  <1>12. CASE Finish(c) \/ Disconnect(c)
    <2>1. pc'[c] = "away" /\ rows'[c] = {} /\ UNCHANGED <<lastId, rowId>>
      BY <1>12 DEF Finish, Disconnect, Drop, Goto
    <2> QED BY <1>0, <1>1, <2>1
  <1> QED
    BY <1>2, <1>3, <1>4, <1>5, <1>6, <1>7, <1>8, <1>9, <1>10, <1>11, <1>12 DEF Handle, Stream

\* Every step of a request keeps its types.
LEMMA TypesStep ==
  ASSUME StreamTypes, NEW c \in Clients,
         \/ Arrive(c) \/ (\E e \in Events : ArriveFromRow(c, e))
         \/ Handle(c) \/ Stream(c) \/ Disconnect(c)
  PROVE  StreamTypes'
  <1> USE DEF StreamTypes, serverVars, tableVars, idVars, streamVars, historyVars, Goto, Handling, Streaming
  <1>1. CASE Arrive(c) \/ CheckLimit(c) \/ CheckIp(c) \/ AddIp(c) \/ Count(c) \/ Reject(c) \/ Accept(c)
    BY <1>1 DEF Arrive, CheckLimit, CheckIp, AddIp, Count, Reject, Accept
  <1>2. ASSUME NEW e \in Events, ArriveFromRow(c, e) PROVE StreamTypes'
    <2>1. e \in 0..MaxEvents /\ 0 \in 0..MaxEvents
      BY EventNumbers
    <2> QED BY <1>2, <2>1 DEF ArriveFromRow
  <1>3. CASE Snapshot(c)
    <2> DEFINE R == FirstOf(Missed(c), ReplayLimit)
               X == IF rowId[c] # 0 THEN {}
                    ELSE IF lastId[c] # 0 /\ InRing(lastId[c]) THEN Missed(c) \ replay'[c] ELSE Before(c)
    <2>1. R \in SUBSET Events /\ X \in SUBSET Events
      BY QueryTypes, SseAssumption DEF FirstOf, Missed
    <2>2. replay' = [replay EXCEPT ![c] = R] /\ excused' = [excused EXCEPT ![c] = @ \cup X]
      BY <1>3 DEF Snapshot
    <2>3. /\ snapshot' = [snapshot EXCEPT ![c] = pushed]
          /\ \E w \in {"query", "subscribe"} : pc' = [pc EXCEPT ![c] = w]
          /\ UNCHANGED <<pushed, sent, closed, created, lastId, rowId, rows, position, seen, lastFrame>>
      BY <1>3 DEF Snapshot
    <2> HIDE DEF R, X
    <2> QED BY <2>1, <2>2, <2>3
  <1>4. CASE QueryDb(c)
    <2>1. PICK found \in SUBSET Selected[c] : rows' = [rows EXCEPT ![c] = found]
      BY <1>4, QueryGives
    <2>2. /\ snapshot' = snapshot \/ snapshot' = [snapshot EXCEPT ![c] = pushed]
          /\ excused' = excused \/ \E X \in SUBSET Events : excused' = [excused EXCEPT ![c] = @ \cup X]
      <3>1. \E X \in SUBSET Events : X = Unfindable(c) \cup (RowsSince(c) \ rows'[c])
        BY QueryTypes
      <3>2. \/ UNCHANGED <<snapshot, excused>>
            \/ /\ snapshot' = [snapshot EXCEPT ![c] = pushed]
               /\ excused' = [excused EXCEPT ![c] = @ \cup (Unfindable(c) \cup (RowsSince(c) \ rows'[c]))]
        <4>1. CASE rowId[c] = 0
          BY <1>4, <4>1 DEF QueryDb
        <4>2. CASE rowId[c] # 0
          <5>1. /\ snapshot' = [snapshot EXCEPT ![c] = pushed]
                /\ excused' = [excused EXCEPT ![c] = excused[c] \cup Unfindable(c) \cup (RowsSince(c) \ rows'[c])]
            BY <1>4, <4>2 DEF QueryDb
          <5>2. excused[c] \cup Unfindable(c) \cup (RowsSince(c) \ rows'[c])
                = excused[c] \cup (Unfindable(c) \cup (RowsSince(c) \ rows'[c]))
            OBVIOUS
          <5> QED BY <5>1, <5>2
        <4> QED BY <4>1, <4>2
      <3> QED BY <3>1, <3>2
    <2>3. /\ pc' = [pc EXCEPT ![c] = "subscribe"]
          /\ UNCHANGED <<pushed, sent, closed, created, lastId, rowId, replay, position, seen, lastFrame>>
      BY <1>4 DEF QueryDb
    <2>4. found \in SUBSET Events
      BY SseAssumption
    <2> QED BY <2>1, <2>2, <2>3, <2>4
  <1>5. CASE QueryFails(c)
    <2>1. Before(c) \in SUBSET Events
      BY QueryTypes
    <2> QED BY <1>5, <2>1 DEF QueryFails
  <1>6. CASE Subscribe(c)
    <2>1. Wants[c] \subseteq Events
      BY SseAssumption
    <2> QED BY <1>6, <2>1 DEF Subscribe
  <1>7. CASE ReplayFrame(c)
    <2>1. Min(replay[c]) \in Events
      BY <1>7, MinEvent DEF ReplayFrame
    <2>2. Min(replay[c]) \in 0..MaxEvents /\ 0 \in 0..MaxEvents
      BY <2>1, SseAssumption DEF Events
    <2> QED BY <1>7, <2>1, <2>2 DEF ReplayFrame, Deliver, Remember
  <1>8. CASE ReplayRow(c)
    <2>1. PICK e \in rows[c] : Deliver(c, e) /\ rows' = [rows EXCEPT ![c] = @ \ {e}] /\ Remember(c, 0, e)
      BY <1>8 DEF ReplayRow
    <2>2. e \in Events /\ e \in 0..MaxEvents /\ 0 \in 0..MaxEvents
      BY SseAssumption DEF Events
    <2>3. UNCHANGED <<pushed, sent, closed, created, pc, replay, position, snapshot, excused>>
      BY <1>8 DEF ReplayRow
    <2> QED BY <2>1, <2>2, <2>3 DEF Deliver, Remember
  <1>9. CASE LiveFrame(c)
    BY <1>9, LiveFrameTypes
  <1>10. CASE Lagged(c)
    <2>1. Wants[c] \subseteq Events /\ Oldest \in Nat
      BY SseAssumption DEF Oldest
    <2> QED BY <1>10, <2>1 DEF Lagged
  <1>11. CASE CloseOnShutdown(c) \/ Finish(c) \/ Disconnect(c)
    <2>1. CASE CloseOnShutdown(c)
      BY <1>11, <2>1 DEF CloseOnShutdown
    <2>2. CASE Finish(c) \/ Disconnect(c)
      <3>1. 0 \in 0..MaxEvents
        BY EventNumbers
      <3>2. Drop(c) /\ UNCHANGED <<pushed, sent, closed, created, lastId, rowId, seen, excused>>
        BY <2>2 DEF Finish, Disconnect
      <3> QED BY <3>1, <3>2 DEF Drop
    <2> QED BY <1>11, <2>1, <2>2
  <1> QED
    BY <1>1, <1>2, <1>3, <1>4, <1>5, <1>6, <1>7, <1>8, <1>9, <1>10, <1>11 DEF Handle, Stream

\* Every step of a request keeps covered what it has passed.
LEMMA CoverStep ==
  ASSUME StreamTypes, TableInv, RowInv, CoverInv, NEW c \in Clients,
         \/ Arrive(c) \/ (\E e \in Events : ArriveFromRow(c, e))
         \/ Handle(c) \/ Stream(c) \/ Disconnect(c)
  PROVE  CoverOk(c)'
  <1> USE DEF StreamTypes, CoverOk, IdCovers, SnapshotCovers, StreamCovers, ReplayBehind, Streaming, Known,
          serverVars, tableVars, idVars, streamVars, historyVars
  <1>0. CoverOk(c) /\ RowOk(c) /\ \A e \in Wants[c] : e \in Events /\ e \in Nat
    BY EventNumbers DEF RowInv, CoverInv
  <1>1. UNCHANGED <<pushed, sent>>
    BY StepsAlone
  <1>2. CASE Arrive(c) \/ CheckLimit(c) \/ CheckIp(c) \/ AddIp(c) \/ Count(c) \/ Reject(c) \/ Accept(c)
    <2>1. /\ pc[c] \notin {"query", "subscribe", "stream", "closing"}
          /\ pc'[c] \notin {"query", "subscribe", "stream", "closing"}
          /\ UNCHANGED <<lastId, rowId, replay, rows, position, snapshot, seen, excused, lastFrame>>
      BY <1>2 DEF Arrive, CheckLimit, CheckIp, AddIp, Count, Reject, Accept, At, Goto
    <2> QED BY <1>0, <1>1, <2>1
  <1>3. ASSUME NEW e \in Events, ArriveFromRow(c, e) PROVE CoverOk(c)'
    <2>1. /\ pc[c] = "away" /\ pc'[c] = "check" /\ lastId'[c] = 0
          /\ UNCHANGED <<replay, rows, position, snapshot, lastFrame>>
      BY <1>3 DEF ArriveFromRow, At, Goto
    <2>2. \A f \in Wants[c] : ~ (f <= 0)
      BY SseAssumption DEF Events
    <2> QED BY <1>0, <1>1, <2>1, <2>2
  <1>4. CASE Snapshot(c)
    <2> DEFINE R == FirstOf(Missed(c), ReplayLimit)
    <2>1. R \subseteq Missed(c) /\ Missed(c) \subseteq Wants[c] /\ \A e \in Missed(c) : e <= pushed
      BY DEF FirstOf, Missed
    <2>2. /\ replay'[c] = R /\ pc[c] = "snapshot" /\ pc'[c] \in {"query", "subscribe"} /\ snapshot'[c] = pushed
          /\ UNCHANGED <<lastId, rowId, rows, position, seen, lastFrame>>
      BY <1>4 DEF Snapshot, At, Goto
    <2>3. excused'[c] = excused[c] \cup (IF rowId[c] # 0 THEN {}
                          ELSE IF lastId[c] # 0 /\ InRing(lastId[c]) THEN Missed(c) \ R ELSE Before(c))
      BY <1>4, <2>2 DEF Snapshot
    <2>4. rowId[c] # 0 => pc'[c] = "query"
      <3>1. ASSUME rowId[c] # 0 PROVE R = {}
        BY <1>0, <3>1 DEF RowOk, FirstOf, Missed
      <3> QED BY <1>4, <3>1 DEF Snapshot, Goto
    <2>5. ASSUME rowId[c] = 0, NEW e \in Wants[c], e <= pushed
          PROVE  e \in seen'[c] \cup replay'[c] \cup excused'[c]
      <3>1. CASE lastId[c] # 0 /\ InRing(lastId[c])
        <4>1. CASE e <= lastId[c]
          BY <1>0, <2>2, <2>3, <4>1
        <4>2. CASE lastId[c] < e
          <5>1. e \in Missed(c)
            BY <2>5, <3>1, <4>2 DEF Missed
          <5> QED BY <2>2, <2>3, <2>5, <3>1, <5>1
        <4>3. e \in Nat /\ lastId[c] \in Nat
          BY <1>0
        <4> QED BY <4>1, <4>2, <4>3
      <3>2. CASE ~ (lastId[c] # 0 /\ InRing(lastId[c]))
        BY <2>3, <2>5, <3>2, QueryTypes
      <3> QED BY <3>1, <3>2
    <2> HIDE DEF R
    <2>6. IdCovers(c)'
      BY <1>0, <2>2, <2>3
    <2>7. SnapshotCovers(c)'
      BY <2>2, <2>4, <2>5
    <2>8. ReplayBehind(c)' /\ StreamCovers(c)'
      BY <1>0, <1>1, <2>1, <2>2
    <2> QED BY <2>6, <2>7, <2>8
  <1>5. CASE QueryDb(c)
    <2>1. PICK found \in SUBSET Selected[c] :
           /\ rows' = [rows EXCEPT ![c] = found]
           /\ rowId[c] = 0 => UNCHANGED <<snapshot, excused>>
           /\ rowId[c] # 0 => /\ snapshot' = [snapshot EXCEPT ![c] = pushed]
                              /\ excused' = [excused EXCEPT ![c] =
                                   @ \cup Unfindable(c) \cup (RowsSince(c) \ rows'[c])]
      BY <1>5, QueryGives
    <2>2. /\ pc[c] = "query" /\ pc'[c] = "subscribe"
          /\ UNCHANGED <<lastId, rowId, replay, position, seen, lastFrame>>
      BY <1>5 DEF QueryDb, At, Goto
    <2>3. replay[c] = {} /\ rows[c] = {} /\ lastFrame[c] = 0
      BY <1>0, <2>2 DEF RowOk
    <2>4. CASE rowId[c] = 0
      BY <1>0, <1>1, <2>1, <2>2, <2>3, <2>4
    <2>5. CASE rowId[c] # 0
      <3>1. rowId[c] \in Events
        BY <2>5, SseAssumption DEF Events
      <3>2. snapshot'[c] = pushed /\ excused'[c] = excused[c] \cup Unfindable(c) \cup (RowsSince(c) \ rows'[c])
        BY <2>1, <2>5
      <3>3. ASSUME NEW e \in Wants[c], e <= pushed PROVE e \in rows'[c] \cup excused'[c]
        BY <2>5, <3>1, <3>2, <3>3, QueryCovers
      <3>4. lastId[c] = 0
        BY <1>0, <2>5 DEF RowOk
      <3>5. IdCovers(c)'
        BY <1>0, <2>2, <3>2
      <3>6. SnapshotCovers(c)'
        BY <2>2, <3>2, <3>3
      <3>7. ReplayBehind(c)' /\ StreamCovers(c)'
        BY <1>1, <2>2, <2>3, <3>2
      <3> QED BY <3>5, <3>6, <3>7
    <2> QED BY <2>4, <2>5
  <1>6. CASE QueryFails(c)
    <2>1. /\ pc[c] = "query" /\ pc'[c] = "subscribe" /\ snapshot'[c] = pushed
          /\ excused'[c] = excused[c] \cup Before(c)
          /\ UNCHANGED <<lastId, rowId, replay, rows, position, seen, lastFrame>>
      BY <1>6 DEF QueryFails, At, Goto
    <2>2. replay[c] = {} /\ lastFrame[c] = 0
      BY <1>0, <2>1 DEF RowOk
    <2>3. \A e \in Wants[c] : e <= pushed => e \in excused'[c]
      BY <2>1, QueryTypes
    <2> QED BY <1>0, <1>1, <2>1, <2>2, <2>3
  <1>7. CASE Subscribe(c)
    <2>1. /\ pc[c] = "subscribe" /\ pc'[c] = "stream" /\ position'[c] = sent + 1
          /\ excused'[c] = excused[c] \cup {e \in Wants[c] : snapshot[c] < e /\ e <= sent}
          /\ UNCHANGED <<lastId, rowId, replay, rows, snapshot, seen, lastFrame>>
      BY <1>7 DEF Subscribe, At, Goto
    <2>2. lastFrame[c] = 0 /\ \A e \in replay[c] : e <= sent + 1 /\ e \in Nat
      BY <1>0, <2>1 DEF Events
    <2>3. ReplayBehind(c)'
      BY <2>1, <2>2
    <2>4. StreamCovers(c)' /\ IdCovers(c)' /\ SnapshotCovers(c)'
      BY <1>0, <2>1
    <2> QED BY <2>3, <2>4
  <1>8. CASE ReplayFrame(c)
    <2> DEFINE e == Min(replay[c])
    <2>1. e \in replay[c] /\ e \in Nat /\ \A f \in replay[c] : e <= f
      BY <1>8, MinEvent, EventNumbers DEF ReplayFrame
    <2>2. /\ pc[c] = "stream" /\ seen'[c] = seen[c] \cup {e} /\ replay'[c] = replay[c] \ {e}
          /\ lastFrame'[c] = e /\ lastId'[c] = 0
          /\ UNCHANGED <<pc, rows, position, snapshot, excused>>
      BY <1>8 DEF ReplayFrame, Deliver, Remember, At
    <2> HIDE DEF e
    <2>3. IdCovers(c)' /\ SnapshotCovers(c)'
      BY <2>2, SseAssumption DEF Events
    <2>4. StreamCovers(c)' /\ ReplayBehind(c)'
      BY <1>0, <2>1, <2>2
    <2> QED BY <2>3, <2>4
  <1>9. CASE ReplayRow(c)
    <2>1. PICK e \in rows[c] : Deliver(c, e) /\ rows' = [rows EXCEPT ![c] = @ \ {e}] /\ Remember(c, 0, e)
      BY <1>9 DEF ReplayRow
    <2>2. /\ pc[c] = "stream" /\ seen'[c] = seen[c] \cup {e} /\ rows'[c] = rows[c] \ {e} /\ replay[c] = {}
          /\ lastFrame'[c] = e /\ lastId'[c] = 0
          /\ UNCHANGED <<pc, replay, position, snapshot, excused>>
      BY <1>9, <2>1 DEF ReplayRow, Deliver, Remember, At
    <2>3. e <= position[c]
      BY <1>0, <2>2 DEF RowOk
    <2>4. IdCovers(c)' /\ SnapshotCovers(c)'
      BY <2>2, SseAssumption DEF Events
    <2>5. StreamCovers(c)' /\ ReplayBehind(c)'
      BY <1>0, <2>2, <2>3
    <2> QED BY <2>4, <2>5
  <1>10. CASE LiveFrame(c)
    <2>1. /\ pc[c] = "stream" /\ replay[c] = {} /\ rows[c] = {} /\ position'[c] = position[c] + 1
          /\ UNCHANGED <<pc, replay, rows, snapshot, excused>>
      BY <1>10 DEF LiveFrame, At
    <2>2. ASSUME NEW e \in Wants[c], e < position[c] PROVE e \in seen[c] \cup excused[c]
      BY <1>0, <2>1, <2>2
    <2>3. CASE position[c] \in Wants[c]
      <3>1. /\ seen'[c] = seen[c] \cup {position[c]} /\ lastFrame'[c] = position[c] /\ lastId'[c] = position[c]
        BY <1>10, <2>3 DEF LiveFrame, Deliver, Remember
      <3>2. ASSUME NEW e \in Wants[c], e <= position[c] PROVE e \in seen'[c] \cup excused'[c]
        BY <1>0, <2>1, <2>2, <3>1, <3>2
      <3>3. ASSUME NEW e \in Wants[c], e < position'[c] PROVE e \in seen'[c] \cup excused'[c]
        BY <1>0, <2>1, <3>2, <3>3
      <3> QED BY <2>1, <3>1, <3>2, <3>3
    <2>4. CASE position[c] \notin Wants[c]
      <3>1. UNCHANGED <<seen, lastFrame, lastId, rowId>>
        BY <1>10, <2>4 DEF LiveFrame
      <3>2. ASSUME NEW e \in Wants[c], e < position'[c] PROVE e \in seen'[c] \cup excused'[c]
        BY <1>0, <2>1, <2>2, <2>4, <3>1, <3>2
      <3> QED BY <1>0, <2>1, <3>1, <3>2
    <2> QED BY <2>3, <2>4
  <1>11. CASE Lagged(c)
    <2>1. /\ pc[c] = "stream" /\ pc'[c] \in {"stream", "closing"} /\ replay[c] = {} /\ rows[c] = {}
          /\ position[c] < Oldest /\ position'[c] = Oldest /\ Oldest \in Nat
          /\ excused'[c] = excused[c] \cup {e \in Wants[c] : position[c] <= e /\ e < Oldest}
          /\ UNCHANGED <<lastId, rowId, replay, rows, snapshot, seen, lastFrame>>
      BY <1>11, SseAssumption DEF Lagged, Oldest, At, Goto
    <2> HIDE DEF Oldest
    <2> QED BY <1>0, <2>1
  <1>12. CASE CloseOnShutdown(c)
    <2>1. /\ pc[c] = "stream" /\ pc'[c] = "closing"
          /\ UNCHANGED <<lastId, rowId, replay, rows, position, snapshot, seen, excused, lastFrame>>
      BY <1>12 DEF CloseOnShutdown, At, Goto
    <2> QED BY <1>0, <2>1
  <1>13. CASE Finish(c) \/ Disconnect(c)
    <2>1. pc'[c] = "away" /\ lastFrame'[c] = 0 /\ UNCHANGED <<lastId, rowId, seen, excused>>
      BY <1>13 DEF Finish, Disconnect, Drop, Goto
    <2> QED BY <1>0, <2>1
  <1> QED
    BY <1>2, <1>3, <1>4, <1>5, <1>6, <1>7, <1>8, <1>9, <1>10, <1>11, <1>12, <1>13 DEF Handle, Stream

\* Every step preserves the invariant: a request changes its own part only, the
\* indexer pushes and stores what no request has passed.
LEMMA NextIInv == IInv /\ [Next]_vars => IInv'
  <1> SUFFICES ASSUME IInv, [Next]_vars PROVE IInv'
    OBVIOUS
  <1>0. StreamTypes /\ TableInv /\ RowInv /\ CoverInv /\ TableInv'
    BY TableStep DEF IInv
  <1>1. CASE Push \/ Send \/ Shutdown \/ UNCHANGED vars
    <2>1. /\ UNCHANGED <<created, closed, pc, lastId, rowId, replay, rows, position, snapshot, seen,
                         excused, lastFrame>>
          /\ pushed' \in Nat /\ pushed' <= MaxEvents /\ sent' \in Nat /\ pushed' \in {sent', sent' + 1}
          /\ pushed <= pushed' /\ closed <= sent'
      BY <1>0, <1>1, SseAssumption DEF Push, Send, Shutdown, vars, serverVars, tableVars, idVars, streamVars,
         historyVars, StreamTypes
    <2>2. StreamTypes'
      BY <1>0, <2>1 DEF StreamTypes
    <2>3. RowInv'
      BY <1>0, <2>1 DEF RowInv, RowOk
    <2>4. ASSUME NEW c \in Clients PROVE CoverOk(c)'
      <3>1. CoverOk(c) /\ snapshot[c] \in Nat /\ pushed \in Nat
        BY <1>0 DEF CoverInv, StreamTypes
      <3> QED BY <2>1, <3>1 DEF CoverOk, IdCovers, SnapshotCovers, StreamCovers, ReplayBehind, Known
    <2> QED BY <1>0, <2>2, <2>3, <2>4 DEF IInv, CoverInv
  <1>2. ASSUME NEW stored \in BOOLEAN, EndPage(stored) PROVE IInv'
    <2>1. UNCHANGED <<pushed, sent, pc, lastId, rowId, replay, rows, position, snapshot, seen, excused, lastFrame>>
      BY <1>2 DEF EndPage, idVars, streamVars, historyVars
    <2>2. /\ closed' \in Nat /\ closed' <= sent /\ created' \in [Events -> 0..MaxEvents]
          /\ \A e \in Events : created[e] # 0 => created'[e] = created[e]
      BY <1>0, <1>2, EndPageTable
    <2>3. StreamTypes'
      BY <1>0, <2>1, <2>2 DEF StreamTypes
    <2>4. ASSUME NEW c \in Clients PROVE RowOk(c)'
      <3>1. rows[c] \subseteq Events /\ (rowId[c] # 0 => rowId[c] \in Events)
        BY <1>0, SseAssumption DEF StreamTypes, Events
      <3>2. RowOk(c)
        BY <1>0 DEF RowInv
      <3> QED BY <2>1, <2>2, <3>1, <3>2 DEF RowOk
    <2>5. CoverInv'
      BY <1>0, <2>1 DEF CoverInv, CoverOk, IdCovers, SnapshotCovers, StreamCovers, ReplayBehind, Known
    <2> QED BY <1>0, <2>3, <2>4, <2>5 DEF IInv, RowInv
  <1>3. ASSUME NEW c \in Clients,
               \/ Arrive(c) \/ (\E e \in Events : ArriveFromRow(c, e))
               \/ Handle(c) \/ Stream(c) \/ Disconnect(c)
        PROVE  IInv'
    <2>1. StreamTypes'
      BY <1>0, <1>3, TypesStep
    <2>2. RowOk(c)' /\ CoverOk(c)'
      BY <1>0, <1>3, RowStep, CoverStep
    <2>3. Alone(c) /\ UNCHANGED <<pushed, created>>
      BY <1>0, <1>3, StepsAlone
    <2>4. ASSUME NEW d \in Clients, d # c PROVE RowOk(d)' /\ CoverOk(d)'
      <3>1. RowOk(d) /\ CoverOk(d)
        BY <1>0 DEF RowInv, CoverInv
      <3>2. RowOk(d)'
        BY <2>3, <2>4, <3>1 DEF RowOk, Alone
      <3>3. CoverOk(d)'
        BY <2>3, <2>4, <3>1 DEF CoverOk, IdCovers, SnapshotCovers, StreamCovers, ReplayBehind, Known, Alone
      <3> QED BY <3>2, <3>3
    <2> QED BY <1>0, <2>1, <2>2, <2>4 DEF IInv, RowInv, CoverInv
  <1> QED BY <1>1, <1>2, <1>3 DEF Next

\* The inductive invariant holds in every reachable state.
THEOREM Invariant == Spec => []IInv
  BY InitIInv, NextIInv, PTL DEF Spec

\* A stream misses no wanted event without a known cause.
THEOREM MissedSafe == Spec => []MissedAccounted
  <1>1. IInv => MissedAccounted
    BY SseAssumption DEF IInv, CoverInv, CoverOk, StreamCovers, MissedAccounted, Known, Those
  <1> QED BY <1>1, Invariant, PTL

\* The frames of one connection never go back, but among the rows of one
\* transaction.
THEOREM OrderSafe == Spec => FramesInOrder
  <1> DEFINE Order(c) == lastFrame[c] <= lastFrame'[c] \/ OneTransaction(lastFrame[c], lastFrame'[c])
  <1>1. ASSUME IInv, [Next]_vars
        PROVE  [\A c \in Clients : pc[c] = "stream" /\ pc'[c] = "stream" => Order(c)]_vars
    <2> SUFFICES ASSUME Next, NEW d \in Clients, pc[d] = "stream", pc'[d] = "stream"
                 PROVE  Order(d)
      BY <1>1
    <2>0. StreamTypes /\ TableInv /\ RowOk(d) /\ CoverOk(d) /\ lastFrame[d] \in Nat
      BY <1>1 DEF IInv, RowInv, CoverInv, StreamTypes
    <2>1. CASE lastFrame'[d] = lastFrame[d]
      BY <2>0, <2>1
    <2>2. CASE ReplayFrame(d)
      <3>1. lastFrame'[d] = Min(replay[d]) /\ Min(replay[d]) \in replay[d]
        BY <2>0, <2>2, MinEvent DEF ReplayFrame, Deliver, StreamTypes
      <3> QED BY <2>0, <3>1 DEF CoverOk, ReplayBehind
    <2>3. CASE ReplayRow(d)
      <3>1. PICK e \in rows[d] : lastFrame'[d] = e
        BY <2>0, <2>3 DEF ReplayRow, Deliver, StreamTypes
      <3>2. /\ lastFrame[d] \in {0, rowId[d]} /\ rowId[d] # 0 /\ created[rowId[d]] # 0
            /\ created[e] # 0 /\ created[rowId[d]] <= created[e]
        BY <2>0 DEF RowOk
      <3>3. e \in Events /\ e \in Nat /\ rowId[d] \in Events /\ created[e] \in Nat /\ created[rowId[d]] \in Nat
        BY <2>0, <3>2, EventNumbers DEF StreamTypes
      <3>4. e <= rowId[d] => created[e] <= created[rowId[d]]
        BY <2>0, <3>2, <3>3 DEF TableInv
      <3>5. CASE lastFrame[d] <= e
        BY <3>1, <3>5
      <3>6. CASE ~ (lastFrame[d] <= e)
        <4>1. lastFrame[d] = rowId[d] /\ e <= rowId[d]
          BY <2>0, <3>2, <3>3, <3>6
        <4>2. created[e] = created[rowId[d]]
          BY <3>2, <3>3, <3>4, <4>1
        <4> QED BY <3>1, <3>2, <4>1, <4>2 DEF OneTransaction
      <3> QED BY <3>5, <3>6
    <2>4. CASE LiveFrame(d)
      <3>1. lastFrame'[d] \in {lastFrame[d], position[d]}
        BY <2>0, <2>4 DEF LiveFrame, Deliver, StreamTypes
      <3> QED BY <2>0, <3>1 DEF CoverOk, ReplayBehind
    <2>5. ASSUME NEW c \in Clients, c # d,
                 \/ Arrive(c) \/ (\E e \in Events : ArriveFromRow(c, e))
                 \/ Handle(c) \/ Stream(c) \/ Disconnect(c)
          PROVE  lastFrame'[d] = lastFrame[d]
      BY <2>0, <2>5, StepsAlone DEF Alone
    <2>6. CASE Arrive(d) \/ (\E e \in Events : ArriveFromRow(d, e)) \/ Handle(d) \/ Lagged(d) \/ CloseOnShutdown(d)
      <3>1. UNCHANGED lastFrame
        BY <2>6 DEF Arrive, ArriveFromRow, Handle, CheckLimit, CheckIp, AddIp, Count, Reject, Accept, Snapshot,
                    QueryDb, QueryFails, Subscribe, Lagged, CloseOnShutdown, historyVars
      <3> QED BY <2>0, <3>1
    <2>7. CASE Finish(d) \/ Disconnect(d)
      BY <2>0, <2>7 DEF Finish, Disconnect, Drop, Goto, StreamTypes
    <2>8. CASE Push \/ Send \/ Shutdown \/ \E stored \in BOOLEAN : EndPage(stored)
      <3>1. UNCHANGED lastFrame
        BY <2>8 DEF Push, Send, Shutdown, EndPage, historyVars
      <3> QED BY <2>0, <3>1
    <2> QED BY <2>1, <2>2, <2>3, <2>4, <2>5, <2>6, <2>7, <2>8 DEF Next, Stream
  <1> QED BY <1>1, Invariant, PTL DEF Spec, FramesInOrder

-----------------------------------------------------------------------------
(* The counters: a request is counted between two of its steps, and its slot *)
(* goes back or leaks once, because the pair of client and request number is *)
(* new each time.                                                            *)

Pending == {"ipcheck", "ipadd", "count"}

SlotTypes ==
  /\ pc \in [Clients -> Handling \cup Streaming \cup {"away"}]
  /\ connections \in Int /\ perIp \in [Ips -> Nat]
  /\ arrivals \in [Clients -> Nat] /\ leaked \subseteq Clients \X Nat /\ IsFiniteSet(leaked)

\* Of a request that is still there nothing leaked.
LeakedOld ==
  \A l \in leaked : l[2] <= arrivals[l[1]] /\ (pc[l[1]] # "away" => l[2] < arrivals[l[1]])

Leaks(i) == {r \in leaked : r[1] \in From(i)}

SlotInv == SlotTypes /\ LeakedOld /\ SlotsAccounted /\ OvershootBounded

\* Adding and removing one element, in numbers.
LEMMA Cards ==
  ASSUME NEW S, IsFiniteSet(S), NEW x
  PROVE  /\ Cardinality(S) \in Nat
         /\ IsFiniteSet(S \cup {x}) /\ IsFiniteSet(S \ {x})
         /\ x \notin S => Cardinality(S \cup {x}) = Cardinality(S) + 1
         /\ x \in S => Cardinality(S \cup {x}) = Cardinality(S)
         /\ x \in S => Cardinality(S \ {x}) = Cardinality(S) - 1 /\ Cardinality(S) > 0
         /\ x \notin S => Cardinality(S \ {x}) = Cardinality(S)
  <1>1. Cardinality(S) \in Nat
    BY FS_CardinalityType
  <1>2. IsFiniteSet(S \cup {x}) /\ (x \notin S => Cardinality(S \cup {x}) = Cardinality(S) + 1)
    <2>1. CASE x \in S
      <3>1. S \cup {x} = S
        BY <2>1
      <3> QED BY <2>1, <3>1
    <2>2. CASE x \notin S
      BY <2>2, <1>1, FS_AddElement
    <2> QED BY <2>1, <2>2
  <1>3. x \in S => S \cup {x} = S
    OBVIOUS
  <1>4. x \notin S => S \ {x} = S
    OBVIOUS
  <1>5. ASSUME x \in S
        PROVE  Cardinality(S \ {x}) = Cardinality(S) - 1 /\ Cardinality(S) > 0 /\ IsFiniteSet(S \ {x})
    <2>1. IsFiniteSet(S \ {x}) /\ Cardinality(S \ {x}) = Cardinality(S) - 1
      BY <1>5, FS_RemoveElement
    <2>2. Cardinality(S \ {x}) \in Nat
      BY <2>1, FS_CardinalityType
    <2> QED BY <1>1, <2>1, <2>2
  <1> QED BY <1>1, <1>2, <1>3, <1>4, <1>5

\* A request that moves enters or leaves the sets its places say.
LEMMA Moves ==
  ASSUME SlotTypes, NEW c \in Clients, NEW w, Goto(c, w), NEW S
  PROVE  Those(S)' = IF w \in S THEN Those(S) \cup {c} ELSE Those(S) \ {c}
  BY DEF SlotTypes, Goto, Those

\* The requests at some places are finitely many, and so are those of one address.
LEMMA ThoseFinite ==
  ASSUME NEW S
  PROVE  IsFiniteSet(Those(S)) /\ Cardinality(Those(S)) \in Nat
         /\ Cardinality(Those(S)) <= Cardinality(Clients)
         /\ Cardinality(Clients) \in Nat
  <1>1. Those(S) \subseteq Clients /\ IsFiniteSet(Clients)
    BY SseAssumption DEF Those
  <1> QED BY <1>1, FS_Subset, FS_CardinalityType

Ind(w, S) == IF w \in S THEN 1 ELSE 0

\* Adding x to a set, or taking it away, in one formula.
LEMMA CardStep ==
  ASSUME NEW S, IsFiniteSet(S), NEW x, NEW U, NEW in \in {0, 1}, NEW was \in {0, 1},
         was = 1 <=> x \in S, in = 1 => U = S \cup {x}, in = 0 => U = S \ {x}
  PROVE  /\ Cardinality(S) \in Nat
         /\ Cardinality(U) = Cardinality(S) + in - was
         /\ was = 1 => Cardinality(S) > 0
  <1>1. /\ Cardinality(S) \in Nat
        /\ x \notin S => Cardinality(S \cup {x}) = Cardinality(S) + 1
        /\ x \in S => Cardinality(S \cup {x}) = Cardinality(S)
        /\ x \in S => Cardinality(S \ {x}) = Cardinality(S) - 1 /\ Cardinality(S) > 0
        /\ x \notin S => Cardinality(S \ {x}) = Cardinality(S)
    BY Cards
  <1>2. CASE in = 1
    <2>1. U = S \cup {x}
      BY <1>2
    <2>2. CASE x \in S
      BY <1>1, <1>2, <2>1, <2>2
    <2>3. CASE x \notin S
      BY <1>1, <1>2, <2>1, <2>3
    <2> QED BY <2>2, <2>3
  <1>3. CASE in = 0
    <2>1. U = S \ {x}
      BY <1>3
    <2>2. CASE x \in S
      BY <1>1, <1>3, <2>1, <2>2
    <2>3. CASE x \notin S
      BY <1>1, <1>3, <2>1, <2>3
    <2> QED BY <2>2, <2>3
  <1> QED BY <1>2, <1>3

\* What a move changes in the numbers of requests at some places, in all and
\* of one address.
LEMMA Shift ==
  ASSUME SlotTypes, NEW c \in Clients, NEW w, Goto(c, w), NEW S
  PROVE  /\ Cardinality(Those(S))' = Cardinality(Those(S)) + Ind(w, S) - Ind(pc[c], S)
         /\ \A i \in Ips :
              /\ Cardinality(Those(S) \cap From(i)) \in Nat
              /\ IpOf[c] = i => Cardinality(Those(S) \cap From(i))'
                   = Cardinality(Those(S) \cap From(i)) + Ind(w, S) - Ind(pc[c], S)
              /\ IpOf[c] # i => Cardinality(Those(S) \cap From(i))'
                   = Cardinality(Those(S) \cap From(i))
              /\ IpOf[c] = i /\ pc[c] \in S => Cardinality(Those(S) \cap From(i)) > 0
  <1> DEFINE T == Those(S)
             U == IF w \in S THEN T \cup {c} ELSE T \ {c}
  <1>1. T' = U
    BY Moves
  <1>2. IsFiniteSet(T)
    BY ThoseFinite
  <1>3. c \in T <=> pc[c] \in S
    BY DEF Those
  <1>4. Cardinality(U) = Cardinality(T) + Ind(w, S) - Ind(pc[c], S)
    <2> DEFINE in == Ind(w, S)
               was == Ind(pc[c], S)
    <2>1. in \in {0, 1} /\ was \in {0, 1} /\ (was = 1 <=> c \in T)
      BY <1>3 DEF Ind
    <2>2. (in = 1 => U = T \cup {c}) /\ (in = 0 => U = T \ {c})
      BY DEF Ind
    <2> HIDE DEF T, U, in, was
    <2>3. Cardinality(U) = Cardinality(T) + in - was
      BY <1>2, <2>1, <2>2, CardStep
    <2> QED BY <2>3 DEF in, was
  <1>5. ASSUME NEW i \in Ips
        PROVE  /\ Cardinality(T \cap From(i)) \in Nat
               /\ IpOf[c] = i => Cardinality(U \cap From(i))
                    = Cardinality(T \cap From(i)) + Ind(w, S) - Ind(pc[c], S)
               /\ IpOf[c] # i => Cardinality(U \cap From(i)) = Cardinality(T \cap From(i))
               /\ IpOf[c] = i /\ pc[c] \in S => Cardinality(T \cap From(i)) > 0
    <2> DEFINE V == T \cap From(i)
    <2>1. IsFiniteSet(V)
      BY <1>2, FS_Subset
    <2>2. CASE IpOf[c] = i
      <3>1. c \in From(i)
        BY <2>2 DEF From
      <3>2. U \cap From(i) = IF w \in S THEN V \cup {c} ELSE V \ {c}
        BY <3>1
      <3>3. c \in V <=> pc[c] \in S
        BY <3>1, <1>3
      <3> DEFINE in == Ind(w, S)
                 was == Ind(pc[c], S)
                 X == U \cap From(i)
      <3>4. in \in {0, 1} /\ was \in {0, 1} /\ (was = 1 <=> c \in V)
        BY <3>3 DEF Ind
      <3>5. (in = 1 => X = V \cup {c}) /\ (in = 0 => X = V \ {c})
        BY <3>2 DEF Ind
      <3> HIDE DEF V, X, in, was
      <3>6. Cardinality(V) \in Nat /\ Cardinality(X) = Cardinality(V) + in - was
            /\ (was = 1 => Cardinality(V) > 0)
        BY <2>1, <3>4, <3>5, CardStep
      <3>7. Cardinality(V) \in Nat /\ Cardinality(X) = Cardinality(V) + in - was
            /\ (pc[c] \in S => Cardinality(V) > 0)
        BY <3>6 DEF was, Ind
      <3> QED BY <2>2, <3>7 DEF V, X, in, was
    <2>3. CASE IpOf[c] # i
      <3>1. c \notin From(i)
        BY <2>3 DEF From
      <3>2. U \cap From(i) = V
        BY <3>1
      <3> QED BY <2>1, <2>3, <3>2, FS_CardinalityType
    <2> QED BY <2>2, <2>3
  <1> HIDE DEF T
  <1>6. \A i \in Ips : (T \cap From(i))' = U \cap From(i)
    BY <1>1 DEF From
  <1> QED BY <1>1, <1>4, <1>5, <1>6 DEF T

\* The same for one address.
LEMMA ShiftIp ==
  ASSUME SlotTypes, NEW c \in Clients, NEW w, Goto(c, w), NEW S, NEW i \in Ips
  PROVE  /\ Cardinality(Those(S) \cap From(i)) \in Nat
         /\ IpOf[c] = i => Cardinality(Those(S) \cap From(i))'
              = Cardinality(Those(S) \cap From(i)) + Ind(w, S) - Ind(pc[c], S)
         /\ IpOf[c] # i => Cardinality(Those(S) \cap From(i))' = Cardinality(Those(S) \cap From(i))
         /\ IpOf[c] = i /\ pc[c] \in S => Cardinality(Those(S) \cap From(i)) > 0
  BY Shift

\* At first nothing is counted and nothing is to be counted.
LEMMA SlotInit == Init => SlotInv
  <1> SUFFICES ASSUME Init PROVE SlotInv
    OBVIOUS
  <1>1. Those(Counted) = {} /\ Those(Counted \cup {"count"}) = {} /\ Those({"ipcheck", "ipadd", "count"}) = {}
    BY DEF Init, Those, Counted, Streaming
  <1>2. leaked = {} /\ \A i \in Ips : {r \in leaked : r[1] \in From(i)} = {}
                  /\ Those(Counted \cup {"count"}) \cap From(i) = {}
    BY <1>1 DEF Init
  <1>3. Cardinality({}) = 0 /\ IsFiniteSet({})
    BY FS_EmptySet
  <1>4. Cardinality(Clients) \in Nat
    BY ThoseFinite
  <1>5. SlotTypes /\ LeakedOld
    BY <1>3 DEF SlotTypes, LeakedOld, Init
  <1>6. SlotsAccounted
    <2>1. connections = 0 /\ \A i \in Ips : perIp[i] = 0
      BY DEF Init
    <2> QED BY <1>1, <1>2, <1>3, <2>1 DEF SlotsAccounted
  <1>7. OvershootBounded
    <2>1. Cardinality(Clients) # 0
      BY FS_EmptySet, SseAssumption
    <2>2. connections = 0 /\ MaxConnections \in Nat
      BY SseAssumption DEF Init
    <2>3. Cardinality(Those({"ipcheck", "ipadd", "count"})) = 0
      BY <1>1, <1>3
    <2> QED BY <1>4, <2>1, <2>2, <2>3 DEF OvershootBounded
  <1> QED BY <1>5, <1>6, <1>7 DEF SlotInv

\* The numbers the counters are compared with, in one place.
LEMMA Numbers ==
  ASSUME SlotTypes
  PROVE  /\ Cardinality(leaked) \in Nat /\ Cardinality(Clients) \in Nat
         /\ Cardinality(Those(Counted)) \in Nat
         /\ Cardinality(Those(Pending)) \in Nat /\ Cardinality(Those(Pending)) <= Cardinality(Clients)
         /\ \A i \in Ips : IsFiniteSet(Leaks(i)) /\ Cardinality(Leaks(i)) \in Nat
  <1>1. \A i \in Ips : Leaks(i) \subseteq leaked
    BY DEF Leaks
  <1> QED BY <1>1, ThoseFinite, FS_Subset, FS_CardinalityType DEF SlotTypes

CountedByIp == Counted \cup {"count"}

SlotNumbers ==
  /\ connections = Cardinality(Those(Counted)) + Cardinality(leaked)
  /\ connections + Cardinality(Those(Pending)) <= MaxConnections + Cardinality(Clients) - 1

IpNumbers ==
  MaxPerIp > 0 => \A i \in Ips :
    perIp[i] = Cardinality(Those(CountedByIp) \cap From(i)) + Cardinality(Leaks(i))

\* The two properties, in the numbers of requests the proof works with.
LEMMA InNumbers == SlotsAccounted /\ OvershootBounded <=> SlotNumbers /\ IpNumbers
  BY DEF SlotsAccounted, OvershootBounded, SlotNumbers, IpNumbers, Pending, Leaks, CountedByIp

\* A step that moves a request within the counted, or outside of them and of
\* the pending, and leaves the counters alone.
LEMMA MoveOnly ==
  ASSUME SlotTypes, SlotNumbers, IpNumbers, NEW c \in Clients, NEW w, Goto(c, w),
         UNCHANGED <<connections, perIp, leaked>>,
         w \in Counted <=> pc[c] \in Counted,
         MaxPerIp > 0 => (w = "count" <=> pc[c] = "count"),
         w \in Pending /\ pc[c] \notin Pending => connections < MaxConnections
  PROVE  SlotNumbers' /\ IpNumbers'
  <1>0. ASSUME NEW i \in Ips
        PROVE  /\ Cardinality(Those(CountedByIp) \cap From(i)) \in Nat
               /\ IpOf[c] = i => Cardinality(Those(CountedByIp) \cap From(i))'
                    = Cardinality(Those(CountedByIp) \cap From(i))
                      + Ind(w, CountedByIp) - Ind(pc[c], CountedByIp)
               /\ IpOf[c] # i => Cardinality(Those(CountedByIp) \cap From(i))'
                                = Cardinality(Those(CountedByIp) \cap From(i))
    <2>1. Cardinality(Those(CountedByIp) \cap From(i)) \in Nat
      BY ShiftIp
    <2>2. IpOf[c] = i => Cardinality(Those(CountedByIp) \cap From(i))'
                    = Cardinality(Those(CountedByIp) \cap From(i))
                      + Ind(w, CountedByIp) - Ind(pc[c], CountedByIp)
      BY ShiftIp
    <2>3. IpOf[c] # i => Cardinality(Those(CountedByIp) \cap From(i))'
                                = Cardinality(Those(CountedByIp) \cap From(i))
      BY ShiftIp
    <2> QED BY <2>1, <2>2, <2>3
  <1> USE SseAssumption DEF SlotTypes
  <1>1. Cardinality(Those(Counted))' = Cardinality(Those(Counted))
    BY Shift, Numbers DEF Ind
  <1>2. Cardinality(leaked)' = Cardinality(leaked) /\ \A i \in Ips : Cardinality(Leaks(i))' = Cardinality(Leaks(i))
    BY DEF Leaks
  <1>3. Cardinality(Those(Pending))' = Cardinality(Those(Pending)) + Ind(w, Pending) - Ind(pc[c], Pending)
    BY Shift
  <1>4. Cardinality(Those(Pending))' <= Cardinality(Clients) /\ Cardinality(Those(Pending))' \in Nat
    <2>1. Those(Pending)' \subseteq Clients
      BY DEF Those
    <2> QED BY <2>1, FS_Subset, FS_CardinalityType
  <1>5. SlotNumbers'
    BY <1>1, <1>2, <1>3, <1>4, Numbers DEF SlotNumbers, Ind
  <1>6. ASSUME MaxPerIp > 0, NEW i \in Ips
        PROVE  Cardinality(Those(CountedByIp) \cap From(i))'
               = Cardinality(Those(CountedByIp) \cap From(i))
    <2>1. Ind(w, CountedByIp) = Ind(pc[c], CountedByIp) /\ Ind(w, CountedByIp) \in {0, 1}
      BY <1>6 DEF Ind, CountedByIp
    <2>3. Cardinality(Those(CountedByIp) \cap From(i))' = Cardinality(Those(CountedByIp) \cap From(i))
      BY <1>0, <2>1
    <2> QED BY <2>3
  <1> QED BY <1>2, <1>5, <1>6 DEF IpNumbers

\* Every step keeps the types, and leaks the slot of a request only as it ends.
LEMMA SlotTypesStep == SlotTypes /\ LeakedOld /\ [Next]_vars => SlotTypes' /\ LeakedOld'
  <1> USE SseAssumption DEF SlotTypes, LeakedOld, Goto, At, Handling, Streaming, Ips,
            serverVars, tableVars, countVars, idVars, streamVars, historyVars
  <1> SUFFICES ASSUME SlotTypes, LeakedOld, [Next]_vars PROVE SlotTypes' /\ LeakedOld'
    OBVIOUS
  <1>1. CASE Push \/ Send \/ Shutdown \/ \E stored \in BOOLEAN : EndPage(stored)
    BY <1>1 DEF Push, Send, Shutdown, EndPage
  <1>2. ASSUME NEW c \in Clients, Arrive(c) PROVE SlotTypes' /\ LeakedOld'
    BY <1>2 DEF Arrive
  <1>19. ASSUME NEW c \in Clients, NEW e \in Events, ArriveFromRow(c, e) PROVE SlotTypes' /\ LeakedOld'
    BY <1>19 DEF ArriveFromRow
  <1>3. ASSUME NEW c \in Clients, CheckLimit(c) PROVE SlotTypes' /\ LeakedOld'
    BY <1>3 DEF CheckLimit
  <1>4. ASSUME NEW c \in Clients, CheckIp(c) PROVE SlotTypes' /\ LeakedOld'
    BY <1>4 DEF CheckIp
  <1>5. ASSUME NEW c \in Clients, AddIp(c) PROVE SlotTypes' /\ LeakedOld'
    BY <1>5 DEF AddIp
  <1>6. ASSUME NEW c \in Clients, Count(c) PROVE SlotTypes' /\ LeakedOld'
    BY <1>6 DEF Count
  <1>7. ASSUME NEW c \in Clients, Reject(c) PROVE SlotTypes' /\ LeakedOld'
    BY <1>7 DEF Reject, FreeSlot
  <1>8. ASSUME NEW c \in Clients, Accept(c) PROVE SlotTypes' /\ LeakedOld'
    BY <1>8 DEF Accept
  <1>9. ASSUME NEW c \in Clients, Snapshot(c) PROVE SlotTypes' /\ LeakedOld'
    BY <1>9 DEF Snapshot
  <1>10. ASSUME NEW c \in Clients, QueryDb(c) \/ QueryFails(c) PROVE SlotTypes' /\ LeakedOld'
    BY <1>10 DEF QueryDb, QueryFails
  <1>11. ASSUME NEW c \in Clients, Subscribe(c) PROVE SlotTypes' /\ LeakedOld'
    BY <1>11 DEF Subscribe
  <1>12. ASSUME NEW c \in Clients, ReplayFrame(c) \/ ReplayRow(c) PROVE SlotTypes' /\ LeakedOld'
    BY <1>12 DEF ReplayFrame, ReplayRow
  <1>13. ASSUME NEW c \in Clients, LiveFrame(c) PROVE SlotTypes' /\ LeakedOld'
    BY <1>13 DEF LiveFrame
  <1>14. ASSUME NEW c \in Clients, Lagged(c) PROVE SlotTypes' /\ LeakedOld'
    BY <1>14 DEF Lagged
  <1>15. ASSUME NEW c \in Clients, CloseOnShutdown(c) PROVE SlotTypes' /\ LeakedOld'
    BY <1>15 DEF CloseOnShutdown
  <1>16. ASSUME NEW c \in Clients, Finish(c) PROVE SlotTypes' /\ LeakedOld'
    BY <1>16 DEF Finish, FreeSlot, Drop
  <1>17. ASSUME NEW c \in Clients, Disconnect(c) PROVE SlotTypes' /\ LeakedOld'
    <2>1. leaked' = leaked \cup {<<c, arrivals[c]>>} /\ pc[c] # "away"
          /\ Goto(c, "away") /\ UNCHANGED <<connections, perIp, arrivals>>
      BY <1>17 DEF Disconnect, Drop
    <2>2. IsFiniteSet(leaked')
      BY <2>1, Cards
    <2>3. SlotTypes'
      BY <2>1, <2>2
    <2>4. LeakedOld'
      BY <2>1
    <2> QED BY <2>3, <2>4
  <1>18. CASE UNCHANGED vars
    BY <1>18 DEF vars
  <1> QED
    BY <1>1, <1>2, <1>3, <1>4, <1>5, <1>6, <1>7, <1>8, <1>9, <1>10, <1>11, <1>12, <1>13, <1>14, <1>15, <1>16, <1>17, <1>18, <1>19
    DEF Next, Handle, Stream

\* A step that leaves alone what the counters are compared with.
LEMMA SameNumbers ==
  ASSUME SlotNumbers, IpNumbers, UNCHANGED <<connections, perIp, leaked, pc>>
  PROVE  SlotNumbers' /\ IpNumbers'
  BY DEF SlotNumbers, IpNumbers, Those, Leaks

\* A request is counted for its address, and then in all.
LEMMA AddIpNumbers ==
  ASSUME SlotTypes, SlotNumbers, IpNumbers, NEW c \in Clients, AddIp(c)
  PROVE  SlotNumbers' /\ IpNumbers'
  <1>1. Goto(c, "count") /\ pc[c] = "ipadd" /\ UNCHANGED <<connections, leaked>>
    BY DEF AddIp, At, historyVars
  <1>2. Cardinality(Those(Counted))' = Cardinality(Those(Counted))
    BY <1>1, Shift, Numbers DEF Ind, Counted, Streaming
  <1>3. Cardinality(Those(Pending))' = Cardinality(Those(Pending))
    BY <1>1, Shift, Numbers DEF Ind, Pending
  <1>4. SlotNumbers'
    BY <1>1, <1>2, <1>3 DEF SlotNumbers
  <1>5. ASSUME MaxPerIp > 0, NEW i \in Ips
        PROVE  perIp'[i] = Cardinality(Those(CountedByIp) \cap From(i))' + Cardinality(Leaks(i))'
    <2>1. Cardinality(Leaks(i))' = Cardinality(Leaks(i)) /\ Cardinality(Leaks(i)) \in Nat
      BY <1>1, Numbers DEF Leaks
    <2>2. perIp[i] = Cardinality(Those(CountedByIp) \cap From(i)) + Cardinality(Leaks(i))
      BY <1>5 DEF IpNumbers
    <2>3. Ind("count", CountedByIp) = 1 /\ Ind(pc[c], CountedByIp) = 0
      BY <1>1 DEF Ind, CountedByIp, Counted, Streaming
    <2>4. Cardinality(Those(CountedByIp) \cap From(i)) \in Nat
      BY <1>1, ShiftIp
    <2>5. CASE IpOf[c] = i
      <3>1. Cardinality(Those(CountedByIp) \cap From(i))' = Cardinality(Those(CountedByIp) \cap From(i))
              + Ind("count", CountedByIp) - Ind(pc[c], CountedByIp)
        BY <1>1, <2>5, ShiftIp
      <3>2. perIp'[i] = perIp[i] + 1
        BY <2>5 DEF AddIp, SlotTypes
      <3> QED BY <2>1, <2>2, <2>3, <2>4, <3>1, <3>2
    <2>6. CASE IpOf[c] # i
      <3>1. Cardinality(Those(CountedByIp) \cap From(i))' = Cardinality(Those(CountedByIp) \cap From(i))
        BY <1>1, <2>6, ShiftIp
      <3>2. perIp'[i] = perIp[i]
        BY <2>6 DEF AddIp, SlotTypes
      <3> QED BY <2>1, <2>2, <3>1, <3>2
    <2> QED BY <2>5, <2>6
  <1> QED BY <1>4, <1>5 DEF IpNumbers

\* A pending request becomes a counted one as the counter is raised.
LEMMA CountNumbers ==
  ASSUME SlotTypes, SlotNumbers, IpNumbers, NEW c \in Clients, Count(c)
  PROVE  SlotNumbers' /\ IpNumbers'
  <1>1. Goto(c, "validate") /\ pc[c] = "count" /\ connections' = connections + 1 /\ UNCHANGED <<perIp, leaked>>
    BY DEF Count, At, historyVars
  <1>2. Cardinality(Those(Counted))' = Cardinality(Those(Counted)) + 1
    BY <1>1, Shift, Numbers DEF Ind, Counted, Streaming
  <1>3. Cardinality(Those(Pending))' = Cardinality(Those(Pending)) - 1
    BY <1>1, Shift, Numbers DEF Ind, Pending
  <1>4. SlotNumbers'
    BY <1>1, <1>2, <1>3, Numbers, SseAssumption DEF SlotNumbers
  <1>5. ASSUME NEW i \in Ips
        PROVE  Cardinality(Those(CountedByIp) \cap From(i))' = Cardinality(Those(CountedByIp) \cap From(i))
    <2>1. Ind("validate", CountedByIp) = 1 /\ Ind(pc[c], CountedByIp) = 1
      BY <1>1 DEF Ind, CountedByIp, Counted, Streaming
    <2>2. Cardinality(Those(CountedByIp) \cap From(i)) \in Nat
      BY <1>1, ShiftIp
    <2>3. IpOf[c] = i => Cardinality(Those(CountedByIp) \cap From(i))'
            = Cardinality(Those(CountedByIp) \cap From(i)) + Ind("validate", CountedByIp) - Ind(pc[c], CountedByIp)
      BY <1>1, ShiftIp
    <2>4. IpOf[c] # i => Cardinality(Those(CountedByIp) \cap From(i))' = Cardinality(Those(CountedByIp) \cap From(i))
      BY <1>1, ShiftIp
    <2> QED BY <2>1, <2>2, <2>3, <2>4
  <1> QED BY <1>1, <1>4, <1>5 DEF IpNumbers, Leaks

\* A request that ends gives back one slot of each counter.
LEMMA FreeNumbers ==
  ASSUME SlotTypes, SlotNumbers, IpNumbers, NEW c \in Clients, FreeSlot(c), Goto(c, "away"),
         pc[c] \in Counted, UNCHANGED leaked
  PROVE  SlotNumbers' /\ IpNumbers'
  <1>1. Cardinality(Those(Counted))' = Cardinality(Those(Counted)) - 1
    BY Shift, Numbers DEF Ind, Counted, Streaming
  <1>2. Cardinality(Those(Pending))' = Cardinality(Those(Pending))
    BY Shift, Numbers DEF Ind, Pending, Counted, Streaming
  <1>3. SlotNumbers'
    BY <1>1, <1>2, Numbers, SseAssumption DEF SlotNumbers, FreeSlot, SlotTypes
  <1>4. ASSUME MaxPerIp > 0, NEW i \in Ips
        PROVE  perIp'[i] = Cardinality(Those(CountedByIp) \cap From(i))' + Cardinality(Leaks(i))'
    <2>1. Cardinality(Leaks(i))' = Cardinality(Leaks(i)) /\ Cardinality(Leaks(i)) \in Nat
      BY Numbers DEF Leaks
    <2>2. perIp[i] = Cardinality(Those(CountedByIp) \cap From(i)) + Cardinality(Leaks(i))
      BY <1>4 DEF IpNumbers
    <2>3. Ind("away", CountedByIp) = 0 /\ Ind(pc[c], CountedByIp) = 1 /\ pc[c] \in CountedByIp
      BY DEF Ind, CountedByIp, Counted, Streaming
    <2>4. Cardinality(Those(CountedByIp) \cap From(i)) \in Nat
      BY ShiftIp
    <2>5. CASE IpOf[c] = i
      <3>1. Cardinality(Those(CountedByIp) \cap From(i))' = Cardinality(Those(CountedByIp) \cap From(i))
              + Ind("away", CountedByIp) - Ind(pc[c], CountedByIp)
        BY <2>5, ShiftIp
      <3>2. Cardinality(Those(CountedByIp) \cap From(i)) > 0
        BY <2>3, <2>5, ShiftIp
      <3>3. perIp[i] > 0
        BY <2>1, <2>2, <2>4, <3>2
      <3>4. perIp'[i] = perIp[i] - 1
        BY <1>4, <2>5, <3>3 DEF FreeSlot, SlotTypes
      <3> QED BY <2>1, <2>2, <2>3, <2>4, <3>1, <3>4
    <2>6. CASE IpOf[c] # i
      <3>1. Cardinality(Those(CountedByIp) \cap From(i))' = Cardinality(Those(CountedByIp) \cap From(i))
        BY <2>6, ShiftIp
      <3>2. perIp'[i] = perIp[i]
        BY <2>6 DEF FreeSlot, SlotTypes
      <3> QED BY <2>1, <2>2, <3>1, <3>2
    <2> QED BY <2>5, <2>6
  <1> QED BY <1>3, <1>4 DEF IpNumbers

\* A client that leaves turns its slot into a leaked one.
LEMMA LeakNumbers ==
  ASSUME SlotTypes, LeakedOld, SlotNumbers, IpNumbers, NEW c \in Clients, Disconnect(c)
  PROVE  SlotNumbers' /\ IpNumbers'
  <1> DEFINE l == <<c, arrivals[c]>>
  <1>1. Goto(c, "away") /\ pc[c] \in Counted /\ UNCHANGED <<connections, perIp>>
    BY DEF Disconnect, Drop, countVars, Counted, Streaming
  <1>2. leaked' = leaked \cup {l} /\ l \notin leaked
    BY DEF Disconnect, LeakedOld, SlotTypes, Streaming
  <1>3. Cardinality(leaked)' = Cardinality(leaked) + 1
    BY <1>2, Cards DEF SlotTypes
  <1>4. Cardinality(Those(Counted))' = Cardinality(Those(Counted)) - 1
    BY <1>1, Shift, Numbers DEF Ind, Counted, Streaming
  <1>5. Cardinality(Those(Pending))' = Cardinality(Those(Pending))
    BY <1>1, Shift, Numbers DEF Ind, Pending, Counted, Streaming
  <1>6. SlotNumbers'
    BY <1>1, <1>3, <1>4, <1>5, Numbers DEF SlotNumbers
  <1>7. ASSUME MaxPerIp > 0, NEW i \in Ips
        PROVE  perIp'[i] = Cardinality(Those(CountedByIp) \cap From(i))' + Cardinality(Leaks(i))'
    <2>1. perIp[i] = Cardinality(Those(CountedByIp) \cap From(i)) + Cardinality(Leaks(i))
      BY <1>7 DEF IpNumbers
    <2>2. Ind("away", CountedByIp) = 0 /\ Ind(pc[c], CountedByIp) = 1
      BY <1>1 DEF Ind, CountedByIp, Counted, Streaming
    <2>3. Cardinality(Those(CountedByIp) \cap From(i)) \in Nat
      BY <1>1, ShiftIp
    <2>4. IsFiniteSet(Leaks(i)) /\ Cardinality(Leaks(i)) \in Nat
      BY Numbers
    <2>5. CASE IpOf[c] = i
      <3>1. Cardinality(Those(CountedByIp) \cap From(i))' = Cardinality(Those(CountedByIp) \cap From(i))
              + Ind("away", CountedByIp) - Ind(pc[c], CountedByIp)
        BY <1>1, <2>5, ShiftIp
      <3>2. Leaks(i)' = Leaks(i) \cup {l} /\ l \notin Leaks(i)
        BY <1>2, <2>5 DEF Leaks, From
      <3>3. Cardinality(Leaks(i))' = Cardinality(Leaks(i)) + 1
        BY <2>4, <3>2, Cards
      <3> QED BY <1>1, <2>1, <2>2, <2>3, <2>4, <3>1, <3>3
    <2>6. CASE IpOf[c] # i
      <3>1. Cardinality(Those(CountedByIp) \cap From(i))' = Cardinality(Those(CountedByIp) \cap From(i))
        BY <1>1, <2>6, ShiftIp
      <3>2. Leaks(i)' = Leaks(i)
        BY <1>2, <2>6 DEF Leaks, From
      <3> QED BY <1>1, <2>1, <3>1, <3>2
    <2> QED BY <2>5, <2>6
  <1> QED BY <1>6, <1>7 DEF IpNumbers

\* Every step keeps the counters what they count.
LEMMA NumbersStep ==
  SlotTypes /\ LeakedOld /\ SlotNumbers /\ IpNumbers /\ [Next]_vars => SlotNumbers' /\ IpNumbers'
  <1> SUFFICES ASSUME SlotTypes, LeakedOld, SlotNumbers, IpNumbers, [Next]_vars
               PROVE  SlotNumbers' /\ IpNumbers'
    OBVIOUS
  <1>1. CASE Push \/ Send \/ Shutdown \/ (\E stored \in BOOLEAN : EndPage(stored)) \/ UNCHANGED vars
    BY <1>1, SameNumbers DEF Push, Send, Shutdown, EndPage, vars, countVars, streamVars, historyVars
  <1>2. ASSUME NEW c \in Clients, ReplayFrame(c) \/ ReplayRow(c) \/ LiveFrame(c) PROVE SlotNumbers' /\ IpNumbers'
    BY <1>2, SameNumbers DEF ReplayFrame, ReplayRow, LiveFrame, countVars
  <1>3. ASSUME NEW c \in Clients, Arrive(c) \/ \E e \in Events : ArriveFromRow(c, e)
        PROVE  SlotNumbers' /\ IpNumbers'
    <2>1. pc[c] = "away" /\ Goto(c, "check") /\ UNCHANGED <<connections, perIp, leaked>>
      BY <1>3 DEF Arrive, ArriveFromRow, At, countVars
    <2> QED BY <2>1, MoveOnly DEF Counted, Streaming, Pending
  <1>4. ASSUME NEW c \in Clients, CheckLimit(c) PROVE SlotNumbers' /\ IpNumbers'
    <2>1. UNCHANGED <<connections, perIp, leaked>> /\ pc[c] = "check"
      BY <1>4 DEF CheckLimit, At, countVars, historyVars
    <2>2. CASE connections >= MaxConnections
      <3>1. Goto(c, "away")
        BY <1>4, <2>2 DEF CheckLimit
      <3> QED BY <2>1, <3>1, MoveOnly DEF Counted, Streaming, Pending
    <2>3. CASE ~ (connections >= MaxConnections)
      <3>1. Goto(c, "ipcheck") /\ connections < MaxConnections
        BY <1>4, <2>3, SseAssumption DEF CheckLimit, SlotTypes
      <3> QED BY <2>1, <3>1, MoveOnly DEF Counted, Streaming, Pending
    <2> QED BY <2>2, <2>3
  <1>5. ASSUME NEW c \in Clients, CheckIp(c) PROVE SlotNumbers' /\ IpNumbers'
    <2>1. UNCHANGED <<connections, perIp, leaked>> /\ pc[c] = "ipcheck"
      BY <1>5 DEF CheckIp, At, countVars, historyVars
    <2>2. CASE MaxPerIp = 0
      <3>1. Goto(c, "count")
        BY <1>5, <2>2 DEF CheckIp
      <3> QED BY <2>1, <2>2, <3>1, MoveOnly DEF Counted, Streaming, Pending
    <2>3. CASE MaxPerIp # 0
      <3>1. Goto(c, "away") \/ Goto(c, "ipadd")
        BY <1>5, <2>3 DEF CheckIp
      <3>2. CASE Goto(c, "away")
        BY <2>1, <3>2, MoveOnly DEF Counted, Streaming, Pending
      <3>3. CASE Goto(c, "ipadd")
        BY <2>1, <3>3, MoveOnly DEF Counted, Streaming, Pending
      <3> QED BY <3>1, <3>2, <3>3
    <2> QED BY <2>2, <2>3
  <1>6. ASSUME NEW c \in Clients, AddIp(c) PROVE SlotNumbers' /\ IpNumbers'
    BY <1>6, AddIpNumbers
  <1>7. ASSUME NEW c \in Clients, Count(c) PROVE SlotNumbers' /\ IpNumbers'
    BY <1>7, CountNumbers
  <1>8. ASSUME NEW c \in Clients, Reject(c) \/ Finish(c) PROVE SlotNumbers' /\ IpNumbers'
    BY <1>8, FreeNumbers DEF Reject, Finish, Drop, At, Counted, Streaming, historyVars
  <1>9. ASSUME NEW c \in Clients, Accept(c) PROVE SlotNumbers' /\ IpNumbers'
    BY <1>9, MoveOnly DEF Accept, At, Counted, Streaming, Pending, countVars, historyVars
  <1>10. ASSUME NEW c \in Clients, Snapshot(c) PROVE SlotNumbers' /\ IpNumbers'
    <2>1. pc[c] = "snapshot" /\ UNCHANGED <<connections, perIp, leaked>>
      BY <1>10 DEF Snapshot, At, countVars
    <2>2. Goto(c, "query") \/ Goto(c, "subscribe")
      BY <1>10 DEF Snapshot
    <2>3. CASE Goto(c, "query")
      BY <2>1, <2>3, MoveOnly DEF Counted, Streaming, Pending
    <2>4. CASE Goto(c, "subscribe")
      BY <2>1, <2>4, MoveOnly DEF Counted, Streaming, Pending
    <2> QED BY <2>2, <2>3, <2>4
  <1>11. ASSUME NEW c \in Clients, QueryDb(c) \/ QueryFails(c) PROVE SlotNumbers' /\ IpNumbers'
    <2>1. pc[c] = "query" /\ Goto(c, "subscribe") /\ UNCHANGED <<connections, perIp, leaked>>
      BY <1>11 DEF QueryDb, QueryFails, At, countVars
    <2> QED BY <2>1, MoveOnly DEF Counted, Streaming, Pending
  <1>12. ASSUME NEW c \in Clients, Subscribe(c) PROVE SlotNumbers' /\ IpNumbers'
    BY <1>12, MoveOnly DEF Subscribe, At, Counted, Streaming, Pending, countVars
  <1>13. ASSUME NEW c \in Clients, Lagged(c) PROVE SlotNumbers' /\ IpNumbers'
    <2>1. pc[c] = "stream" /\ UNCHANGED <<connections, perIp, leaked>>
      BY <1>13 DEF Lagged, At, countVars
    <2>2. Goto(c, "closing") \/ UNCHANGED pc
      BY <1>13 DEF Lagged
    <2>3. CASE Goto(c, "closing")
      BY <2>1, <2>3, MoveOnly DEF Counted, Streaming, Pending
    <2>4. CASE UNCHANGED pc
      BY <2>1, <2>4, SameNumbers
    <2> QED BY <2>2, <2>3, <2>4
  <1>14. ASSUME NEW c \in Clients, CloseOnShutdown(c) PROVE SlotNumbers' /\ IpNumbers'
    BY <1>14, MoveOnly DEF CloseOnShutdown, At, Counted, Streaming, Pending, countVars, historyVars
  <1>15. ASSUME NEW c \in Clients, Disconnect(c) PROVE SlotNumbers' /\ IpNumbers'
    BY <1>15, LeakNumbers
  <1> QED
    BY <1>1, <1>2, <1>3, <1>4, <1>5, <1>6, <1>7, <1>8, <1>9, <1>10, <1>11, <1>12, <1>13, <1>14, <1>15
    DEF Next, Handle, Stream

\* The counters hold exactly the requests that are counted, in every state.
THEOREM SlotInvariant == Spec => []SlotInv
  <1>1. SlotInv /\ [Next]_vars => SlotInv'
    <2> SUFFICES ASSUME SlotInv, [Next]_vars PROVE SlotInv'
      OBVIOUS
    <2>1. SlotTypes' /\ LeakedOld'
      BY SlotTypesStep DEF SlotInv
    <2>2. SlotNumbers' /\ IpNumbers'
      BY NumbersStep, InNumbers DEF SlotInv
    <2>3. SlotsAccounted' /\ OvershootBounded'
      BY <2>2 DEF SlotsAccounted, OvershootBounded, SlotNumbers, IpNumbers, Pending, Leaks, CountedByIp
    <2> QED BY <2>1, <2>3 DEF SlotInv
  <1> QED BY <1>1, SlotInit, PTL DEF Spec

\* No path forgets a slot or gives it back twice.
THEOREM SlotsSafe == Spec => []SlotsAccounted
  <1>1. SlotInv => SlotsAccounted
    BY DEF SlotInv
  <1> QED BY <1>1, SlotInvariant, PTL

\* Requests admitted at once overshoot the limit by fewer than the clients.
THEOREM OvershootSafe == Spec => []OvershootBounded
  <1>1. SlotInv => OvershootBounded
    BY DEF SlotInv
  <1> QED BY <1>1, SlotInvariant, PTL

-----------------------------------------------------------------------------
(* Repeats: a usable id is that of the newest event received, so a replay    *)
(* is all new; live frames start no earlier than the newest event received   *)
(* or replayed, and can meet only that one again.                            *)

RepeatTypes == repeats \in [Clients -> SUBSET Events]

SeenWasPushed(c) == \A e \in seen[c] : e <= pushed

IdNewest(c) == lastId[c] # 0 => \A e \in seen[c] : e <= lastId[c]

\* The row to read on from is the newest of those received.
RowNewest(c) == rowId[c] # 0 => \A e \in seen[c] : created[e] # 0 /\ created[e] <= created[rowId[c]]

ReplayNew(c) ==
  /\ pc[c] \in {"query", "subscribe", "stream"} =>
       replay[c] \cap seen[c] = {} /\ \A e \in replay[c] : e <= pushed
  /\ rows[c] \cap seen[c] = {}

\* The receiver is at the newest event at worst, and past it after a repeat.
RepeatAtStart(c) ==
  /\ pc[c] = "stream" =>
       /\ \A e \in seen[c] \cup replay[c] \cup rows[c] : e <= position[c]
       /\ repeats[c] # {} => \A e \in seen[c] \cup replay[c] \cup rows[c] : e # position[c]
       /\ \A x, y \in repeats[c] : x = y
  /\ pc[c] \notin Streaming => repeats[c] = {}

RepeatOk(c) == SeenWasPushed(c) /\ IdNewest(c) /\ RowNewest(c) /\ ReplayNew(c) /\ RepeatAtStart(c)

RepeatInv == RepeatTypes /\ \A c \in Clients : RepeatOk(c)

\* A row to be replayed is that of an event pushed and sent.
LEMMA RowsSent ==
  ASSUME StreamTypes, TableInv, NEW c \in Clients, NEW e \in rows[c], RowOk(c)
  PROVE  e \in Nat /\ e <= sent /\ e <= pushed /\ e \in Events
  <1>1. e \in Events /\ created[e] # 0
    BY DEF StreamTypes, RowOk
  <1>2. e \in Nat /\ e <= closed
    BY <1>1, EventNumbers DEF TableInv
  <1> QED BY <1>1, <1>2 DEF StreamTypes

\* A step of one request repeats nothing to the others.
LEMMA RepeatsAlone ==
  ASSUME RepeatTypes, StreamTypes, NEW c \in Clients,
         \/ Arrive(c) \/ (\E e \in Events : ArriveFromRow(c, e))
         \/ Handle(c) \/ Stream(c) \/ Disconnect(c)
  PROVE  RepeatTypes' /\ \A d \in Clients \ {c} : repeats'[d] = repeats[d]
  <1> USE DEF RepeatTypes, historyVars
  <1>1. CASE Arrive(c) \/ (\E e \in Events : ArriveFromRow(c, e)) \/ Handle(c) \/ Lagged(c) \/ CloseOnShutdown(c)
    <2>1. UNCHANGED repeats
      BY <1>1 DEF Arrive, ArriveFromRow, Handle, CheckLimit, CheckIp, AddIp, Count, Reject, Accept, Snapshot,
                  QueryDb, QueryFails, Subscribe, Lagged, CloseOnShutdown
    <2> QED BY <2>1
  <1>2. CASE Finish(c) \/ Disconnect(c)
    <2>1. repeats' = [repeats EXCEPT ![c] = {}]
      BY <1>2 DEF Finish, Disconnect, Drop
    <2> QED BY <2>1
  <1>3. CASE ReplayFrame(c) \/ ReplayRow(c) \/ LiveFrame(c)
    <2>1. UNCHANGED repeats \/ \E e \in Events : Deliver(c, e)
      <3>1. CASE ReplayFrame(c)
        <4>1. Min(replay[c]) \in Events
          BY <3>1, MinEvent DEF ReplayFrame, StreamTypes
        <4> QED BY <3>1, <4>1 DEF ReplayFrame
      <3>2. CASE ReplayRow(c)
        BY <3>2 DEF ReplayRow, StreamTypes
      <3>3. CASE LiveFrame(c)
        <4>1. position[c] \in Wants[c] => position[c] \in Events
          BY EventNumbers
        <4> QED BY <3>3, <4>1 DEF LiveFrame
      <3> QED BY <1>3, <3>1, <3>2, <3>3
    <2>2. ASSUME NEW e \in Events, Deliver(c, e)
          PROVE  RepeatTypes' /\ \A d \in Clients \ {c} : repeats'[d] = repeats[d]
      <3>1. repeats' = [repeats EXCEPT ![c] = IF e \in seen[c] THEN @ \cup {e} ELSE @]
        BY <2>2 DEF Deliver
      <3> QED BY <3>1
    <2> QED BY <2>1, <2>2
  <1> QED BY <1>1, <1>2, <1>3 DEF Stream

\* Every step of a request keeps the repeats where they can be.
LEMMA RepeatOkStep ==
  ASSUME IInv, RepeatInv, NEW c \in Clients,
         \/ Arrive(c) \/ (\E e \in Events : ArriveFromRow(c, e))
         \/ Handle(c) \/ Stream(c) \/ Disconnect(c)
  PROVE  RepeatOk(c)'
  <1> USE DEF RepeatOk, SeenWasPushed, IdNewest, RowNewest, ReplayNew, RepeatAtStart, Streaming
  <1>0. /\ StreamTypes /\ TableInv /\ RowOk(c) /\ CoverOk(c) /\ RepeatOk(c)
        /\ UNCHANGED <<pushed, sent, created, closed>>
    BY StepsAlone DEF IInv, RowInv, CoverInv, RepeatInv
  <1>1. /\ pushed \in Nat /\ sent \in Nat /\ pushed <= sent + 1 /\ position[c] \in Nat /\ repeats[c] \subseteq Events
        /\ lastId[c] \in Nat /\ \A e \in seen[c] \cup replay[c] \cup rows[c] : e \in Events /\ e \in Nat /\ e # 0
    <2>1. \A e \in seen[c] \cup replay[c] \cup rows[c] : e \in Events
      BY <1>0 DEF StreamTypes
    <2> QED BY <1>0, <2>1, EventNumbers DEF StreamTypes, RepeatInv, RepeatTypes
  <1>2. CASE Arrive(c) \/ CheckLimit(c) \/ CheckIp(c) \/ AddIp(c) \/ Count(c) \/ Reject(c) \/ Accept(c)
    <2>1. /\ pc[c] \notin {"query", "subscribe", "stream", "closing"}
          /\ pc'[c] \notin {"query", "subscribe", "stream", "closing"}
          /\ UNCHANGED <<lastId, rowId, replay, rows, seen, repeats>>
      BY <1>0, <1>2 DEF Arrive, CheckLimit, CheckIp, AddIp, Count, Reject, Accept, At, Goto, StreamTypes,
         idVars, historyVars
    <2> QED BY <1>0, <2>1
  <1>3. ASSUME NEW e \in Events, ArriveFromRow(c, e) PROVE RepeatOk(c)'
    <2>1. /\ pc[c] = "away" /\ pc'[c] = "check" /\ lastId'[c] = 0 /\ seen'[c] = {}
          /\ UNCHANGED <<replay, rows, repeats>>
      BY <1>0, <1>3 DEF ArriveFromRow, At, Goto, StreamTypes
    <2> QED BY <1>0, <2>1
  <1>4. CASE Snapshot(c)
    <2> DEFINE R == FirstOf(Missed(c), ReplayLimit)
    <2>1. \A e \in R : lastId[c] # 0 /\ lastId[c] < e /\ e \in Events /\ e <= pushed
      BY EventNumbers DEF FirstOf, Missed
    <2>2. R \cap seen[c] = {}
      BY <1>0, <1>1, <2>1, EventNumbers
    <2>3. /\ replay'[c] = R /\ pc[c] = "snapshot" /\ pc'[c] \in {"query", "subscribe"}
          /\ UNCHANGED <<lastId, rowId, rows, position, seen, repeats>>
      BY <1>0, <1>4 DEF Snapshot, At, Goto, StreamTypes, idVars
    <2> HIDE DEF R
    <2> QED BY <1>0, <2>1, <2>2, <2>3
  <1>5. CASE QueryDb(c)
    <2>1. PICK found \in SUBSET Selected[c] :
             /\ rows' = [rows EXCEPT ![c] = found] /\ (found # {} => rowId[c] # 0)
             /\ \A e \in found : created[e] > created[rowId[c]]
      BY <1>5, QueryGives
    <2>2. /\ pc[c] = "query" /\ pc'[c] = "subscribe" /\ rows'[c] = found
          /\ UNCHANGED <<lastId, rowId, replay, position, seen, repeats>>
      BY <1>0, <1>5, <2>1 DEF QueryDb, At, Goto, StreamTypes, idVars
    <2>3. ASSUME NEW e \in found, e \in seen[c] PROVE FALSE
      <3>1. rowId[c] \in Events /\ e \in Events
        <4>1. rowId[c] \in 0..MaxEvents /\ rowId[c] # 0
          BY <1>0, <2>1 DEF StreamTypes
        <4> QED BY <2>1, <4>1, EventNumbers
      <3>2. created[e] \in Nat /\ created[rowId[c]] \in Nat
        BY <1>0, <3>1, EventNumbers DEF StreamTypes
      <3>3. created[e] <= created[rowId[c]]
        BY <1>0, <2>1, <2>3
      <3> QED BY <2>1, <3>2, <3>3
    <2> QED BY <1>0, <2>2, <2>3
  <1>6. CASE QueryFails(c)
    <2>1. /\ pc[c] = "query" /\ pc'[c] = "subscribe"
          /\ UNCHANGED <<lastId, rowId, replay, rows, position, seen, repeats>>
      BY <1>0, <1>6 DEF QueryFails, At, Goto, StreamTypes, idVars
    <2> QED BY <1>0, <2>1
  <1>7. CASE Subscribe(c)
    <2>1. /\ pc[c] = "subscribe" /\ pc'[c] = "stream" /\ position'[c] = sent + 1
          /\ UNCHANGED <<lastId, rowId, replay, rows, seen, repeats>>
      BY <1>0, <1>7 DEF Subscribe, At, Goto, StreamTypes, idVars
    <2>2. \A e \in rows[c] : e <= sent + 1
      BY <1>0, <1>1, RowsSent
    <2>3. \A e \in seen[c] \cup replay[c] : e <= sent + 1
      BY <1>0, <1>1, <2>1
    <2>4. repeats[c] = {}
      BY <1>0, <2>1
    <2> QED BY <1>0, <2>1, <2>2, <2>3, <2>4
  <1>8. CASE ReplayFrame(c)
    <2> DEFINE e == Min(replay[c])
    <2>1. e \in replay[c]
      BY <1>0, <1>8, MinEvent DEF ReplayFrame, StreamTypes
    <2>2. pc[c] = "stream" /\ e \notin seen[c] /\ e <= pushed
      BY <1>0, <1>8, <2>1 DEF ReplayFrame, At
    <2>3. rows[c] = {}
      BY <1>0, <2>1 DEF RowOk
    <2>4. /\ seen'[c] = seen[c] \cup {e} /\ replay'[c] = replay[c] \ {e} /\ lastId'[c] = 0 /\ rowId'[c] = 0
          /\ repeats'[c] = repeats[c] /\ UNCHANGED <<pc, position, rows>>
      BY <1>0, <1>8, <2>2 DEF ReplayFrame, Deliver, Remember, StreamTypes, RepeatInv, RepeatTypes
    <2> HIDE DEF e
    <2> QED BY <1>0, <2>1, <2>2, <2>3, <2>4
  <1>9. CASE ReplayRow(c)
    <2>1. PICK e \in rows[c] : Deliver(c, e) /\ rows' = [rows EXCEPT ![c] = @ \ {e}] /\ Remember(c, 0, e)
      BY <1>9 DEF ReplayRow
    <2>2. pc[c] = "stream" /\ replay[c] = {} /\ UNCHANGED <<pc, replay, position>>
      BY <1>9 DEF ReplayRow, At
    <2>3. e \notin seen[c] /\ e <= pushed /\ e <= position[c]
      BY <1>0, <2>2, RowsSent
    <2>4. /\ seen'[c] = seen[c] \cup {e} /\ rows'[c] = rows[c] \ {e} /\ lastId'[c] = 0 /\ rowId'[c] = e
          /\ repeats'[c] = repeats[c]
      BY <1>0, <2>1, <2>3 DEF Deliver, Remember, StreamTypes, RepeatInv, RepeatTypes
    <2>5. ASSUME NEW f \in seen'[c] PROVE created[f] # 0 /\ created[f] <= created[e]
      <3>1. /\ created[e] # 0 /\ created[rowId[c]] <= created[e] /\ rowId[c] # 0 /\ e \in Events
            /\ rowId[c] \in 0..MaxEvents
        BY <1>0, <1>1 DEF RowOk, StreamTypes
      <3>2. rowId[c] \in Events /\ f \in Events
        BY <1>1, <2>4, <3>1, EventNumbers
      <3>3. created[f] \in Nat /\ created[e] \in Nat /\ created[rowId[c]] \in Nat
        BY <1>0, <3>1, <3>2, EventNumbers DEF StreamTypes
      <3> QED BY <1>0, <2>4, <3>1, <3>3
    <2>6. SeenWasPushed(c)' /\ IdNewest(c)' /\ ReplayNew(c)'
      BY <1>0, <2>2, <2>3, <2>4
    <2>7. RowNewest(c)'
      BY <1>0, <2>4, <2>5
    <2>8. RepeatAtStart(c)'
      BY <1>0, <2>2, <2>4
    <2> QED BY <2>6, <2>7, <2>8
  <1>10. CASE LiveFrame(c)
    <2>1. /\ pc[c] = "stream" /\ replay[c] = {} /\ rows[c] = {} /\ position[c] <= sent /\ sent <= pushed
          /\ position'[c] = position[c] + 1 /\ UNCHANGED <<pc, replay, rows>>
      BY <1>0, <1>10 DEF LiveFrame, At, StreamTypes
    <2>2. CASE position[c] \notin Wants[c]
      <3>1. UNCHANGED <<lastId, rowId, seen, repeats>>
        BY <1>10, <2>2 DEF LiveFrame, idVars
      <3>2. \A e \in seen[c] : e <= position'[c] /\ e # position'[c]
        BY <1>0, <1>1, <2>1
      <3> QED BY <1>0, <2>1, <3>1, <3>2
    <2>3. CASE position[c] \in Wants[c]
      <3>1. /\ seen'[c] = seen[c] \cup {position[c]} /\ lastId'[c] = position[c] /\ rowId'[c] = 0
            /\ repeats'[c] = IF position[c] \in seen[c] THEN repeats[c] \cup {position[c]} ELSE repeats[c]
        BY <1>0, <1>10, <2>3 DEF LiveFrame, Deliver, Remember, StreamTypes, RepeatInv, RepeatTypes
      <3>2. \A e \in seen'[c] : e <= position[c] /\ e < position'[c] /\ e <= pushed
        BY <1>0, <1>1, <2>1, <3>1
      <3>3. position[c] \in seen[c] => repeats[c] = {}
        BY <1>0, <2>1
      <3>4. \A x, y \in repeats'[c] : x = y
        BY <1>0, <2>1, <3>1, <3>3
      <3>5. \A e \in seen'[c] : e <= position'[c] /\ e # position'[c]
        BY <1>1, <2>1, <3>1, <3>2
      <3> QED BY <1>0, <2>1, <3>1, <3>2, <3>4, <3>5
    <2> QED BY <2>2, <2>3
  <1>11. CASE Lagged(c)
    <2>1. /\ pc[c] = "stream" /\ pc'[c] \in {"stream", "closing"} /\ position[c] < Oldest /\ Oldest \in Nat
          /\ position'[c] = Oldest /\ replay[c] = {} /\ rows[c] = {}
          /\ UNCHANGED <<lastId, rowId, replay, rows, seen, repeats>>
      BY <1>0, <1>11, SseAssumption DEF Lagged, Oldest, At, Goto, StreamTypes, idVars
    <2>2. \A e \in seen[c] : e <= Oldest /\ e # Oldest
      BY <1>0, <1>1, <2>1
    <2> HIDE DEF Oldest
    <2> QED BY <1>0, <2>1, <2>2
  <1>12. CASE CloseOnShutdown(c)
    <2>1. /\ pc[c] = "stream" /\ pc'[c] = "closing" /\ replay[c] = {} /\ rows[c] = {}
          /\ UNCHANGED <<lastId, rowId, replay, rows, position, seen, repeats>>
      BY <1>0, <1>12 DEF CloseOnShutdown, At, Goto, StreamTypes, idVars, historyVars
    <2> QED BY <1>0, <2>1
  <1>13. CASE Finish(c) \/ Disconnect(c)
    <2>1. /\ pc'[c] = "away" /\ repeats'[c] = {} /\ rows'[c] = {} /\ UNCHANGED <<lastId, rowId, seen>>
      BY <1>0, <1>13 DEF Finish, Disconnect, Drop, Goto, StreamTypes, RepeatInv, RepeatTypes, idVars
    <2> QED BY <1>0, <2>1
  <1> QED
    BY <1>2, <1>3, <1>4, <1>5, <1>6, <1>7, <1>8, <1>9, <1>10, <1>11, <1>12, <1>13 DEF Handle, Stream

\* Every step keeps the repeats where they can be.
LEMMA RepeatStep == IInv /\ RepeatInv /\ [Next]_vars => RepeatInv'
  <1> SUFFICES ASSUME IInv, RepeatInv, [Next]_vars PROVE RepeatInv'
    OBVIOUS
  <1>0. StreamTypes /\ TableInv /\ RepeatTypes
    BY DEF IInv, RepeatInv
  <1>1. CASE Push \/ Send \/ Shutdown \/ UNCHANGED vars
    <2>1. UNCHANGED <<created, pc, lastId, rowId, replay, rows, position, seen, repeats>>
          /\ pushed <= pushed' /\ pushed \in Nat /\ pushed' \in Nat
      BY <1>0, <1>1 DEF Push, Send, Shutdown, vars, serverVars, tableVars, idVars, streamVars, historyVars, StreamTypes
    <2>2. ASSUME NEW c \in Clients PROVE RepeatOk(c)'
      <3>1. RepeatOk(c) /\ \A e \in seen[c] \cup replay[c] : e \in Nat
        BY <1>0, EventNumbers DEF RepeatInv, StreamTypes
      <3> QED BY <2>1, <3>1 DEF RepeatOk, SeenWasPushed, IdNewest, RowNewest, ReplayNew, RepeatAtStart
    <2> QED BY <1>0, <2>1, <2>2 DEF RepeatInv, RepeatTypes
  <1>2. ASSUME NEW stored \in BOOLEAN, EndPage(stored) PROVE RepeatInv'
    <2>1. UNCHANGED <<pushed, pc, lastId, rowId, replay, rows, position, seen, repeats>>
      BY <1>2 DEF EndPage, idVars, streamVars, historyVars
    <2>2. \A e \in Events : created[e] # 0 => created'[e] = created[e]
      BY <1>0, <1>2, EndPageTable
    <2>3. ASSUME NEW c \in Clients PROVE RepeatOk(c)'
      <3>1. RepeatOk(c) /\ RowOk(c) /\ seen[c] \subseteq Events /\ (rowId[c] # 0 => rowId[c] \in Events)
        BY <1>0, EventNumbers DEF IInv, RowInv, RepeatInv, StreamTypes
      <3>2. RowNewest(c)'
        BY <2>1, <2>2, <3>1 DEF RepeatOk, RowNewest, RowOk
      <3> QED BY <2>1, <3>1, <3>2 DEF RepeatOk, SeenWasPushed, IdNewest, ReplayNew, RepeatAtStart
    <2> QED BY <1>0, <2>1, <2>3 DEF RepeatInv, RepeatTypes
  <1>3. ASSUME NEW c \in Clients,
               \/ Arrive(c) \/ (\E e \in Events : ArriveFromRow(c, e))
               \/ Handle(c) \/ Stream(c) \/ Disconnect(c)
        PROVE  RepeatInv'
    <2>1. RepeatTypes' /\ RepeatOk(c)'
      BY <1>0, <1>3, RepeatsAlone, RepeatOkStep
    <2>2. ASSUME NEW d \in Clients, d # c PROVE RepeatOk(d)'
      <3>1. Alone(c) /\ UNCHANGED <<pushed, created>> /\ repeats'[d] = repeats[d]
        BY <1>0, <1>3, <2>2, StepsAlone, RepeatsAlone
      <3>2. RepeatOk(d)
        BY DEF RepeatInv
      <3> QED BY <2>2, <3>1, <3>2 DEF RepeatOk, SeenWasPushed, IdNewest, RowNewest, ReplayNew, RepeatAtStart, Alone
    <2> QED BY <2>1, <2>2 DEF RepeatInv
  <1> QED BY <1>1, <1>2, <1>3 DEF Next

\* Where events are repeated, in every reachable state.
THEOREM RepeatInvariant == Spec => []RepeatInv
  <1>1. Init => RepeatInv
    BY DEF Init, RepeatInv, RepeatTypes, RepeatOk, SeenWasPushed, IdNewest, RowNewest, ReplayNew, RepeatAtStart
  <1> QED BY <1>1, RepeatStep, Invariant, PTL DEF Spec

\* A connection repeats at most one event.
THEOREM OneRepeatSafe == Spec => []OneRepeat
  <1>1. RepeatInv => OneRepeat
    <2> SUFFICES ASSUME RepeatInv, NEW c \in Clients, pc[c] = "stream"
                 PROVE  Cardinality(repeats[c]) <= 1
      BY DEF OneRepeat, Those
    <2>1. \A x, y \in repeats[c] : x = y
      BY DEF RepeatInv, RepeatOk, RepeatAtStart
    <2>2. CASE repeats[c] = {}
      BY <2>2, FS_EmptySet
    <2>3. ASSUME NEW x \in repeats[c] PROVE Cardinality(repeats[c]) <= 1
      <3>1. repeats[c] = {x}
        BY <2>1
      <3>2. Cardinality({x}) = 1
        BY FS_Singleton
      <3> QED BY <3>1, <3>2
    <2> QED BY <2>2, <2>3
  <1> QED BY <1>1, RepeatInvariant, PTL

-----------------------------------------------------------------------------
(* The rest of the types: a receiver is at most one past the last event, and *)
(* a slot is leaked by a request that was made.                              *)

RestTypes ==
  /\ shutdown \in BOOLEAN
  /\ \A c \in Clients :
       /\ arrivals[c] <= MaxArrivals[c] /\ (pc[c] # "away" => arrivals[c] > 0)
       /\ snapshot[c] <= MaxEvents /\ position[c] <= MaxEvents + 1
  /\ leaked \subseteq Requests

\* Every step keeps them.
LEMMA RestStep == IInv /\ SlotTypes /\ RestTypes /\ [Next]_vars => RestTypes'
  <1> USE SseAssumption DEF StreamTypes, SlotTypes, RestTypes, At, Goto,
            serverVars, tableVars, countVars, idVars, streamVars, historyVars
  <1> SUFFICES ASSUME IInv, SlotTypes, RestTypes, [Next]_vars PROVE RestTypes'
    OBVIOUS
  <1>0. StreamTypes
    BY DEF IInv
  <1>1. CASE Push \/ Send \/ Shutdown \/ \E stored \in BOOLEAN : EndPage(stored)
    BY <1>0, <1>1 DEF Push, Send, Shutdown, EndPage
  <1>2. ASSUME NEW c \in Clients, Arrive(c) PROVE RestTypes'
    BY <1>0, <1>2 DEF Arrive
  <1>12. ASSUME NEW c \in Clients, NEW e \in Events, ArriveFromRow(c, e) PROVE RestTypes'
    BY <1>0, <1>12 DEF ArriveFromRow
  <1>3. ASSUME NEW c \in Clients, CheckLimit(c) \/ CheckIp(c) \/ AddIp(c) \/ Count(c) PROVE RestTypes'
    BY <1>0, <1>3 DEF CheckLimit, CheckIp, AddIp, Count
  <1>4. ASSUME NEW c \in Clients, Reject(c) \/ Accept(c) \/ QueryDb(c) \/ QueryFails(c) PROVE RestTypes'
    <2>1. CASE Reject(c) \/ Accept(c)
      BY <1>0, <2>1 DEF Reject, Accept
    <2>2. CASE QueryDb(c)
      BY <1>0, <2>2 DEF QueryDb
    <2>3. CASE QueryFails(c)
      BY <1>0, <2>3 DEF QueryFails
    <2> QED BY <1>4, <2>1, <2>2, <2>3
  <1>5. ASSUME NEW c \in Clients, Snapshot(c) PROVE RestTypes'
    BY <1>0, <1>5 DEF Snapshot
  <1>6. ASSUME NEW c \in Clients, Subscribe(c) PROVE RestTypes'
    BY <1>0, <1>6 DEF Subscribe
  <1>7. ASSUME NEW c \in Clients, ReplayFrame(c) \/ ReplayRow(c) \/ LiveFrame(c) PROVE RestTypes'
    BY <1>0, <1>7 DEF ReplayFrame, ReplayRow, LiveFrame
  <1>8. ASSUME NEW c \in Clients, Lagged(c) PROVE RestTypes'
    BY <1>0, <1>8 DEF Lagged, Oldest
  <1>9. ASSUME NEW c \in Clients, CloseOnShutdown(c) \/ Finish(c) PROVE RestTypes'
    BY <1>0, <1>9 DEF CloseOnShutdown, Finish, Drop
  <1>10. ASSUME NEW c \in Clients, Disconnect(c) PROVE RestTypes'
    <2>1. arrivals[c] \in 1..MaxArrivals[c]
      BY <1>10 DEF Disconnect, Streaming
    <2>2. <<c, arrivals[c]>> \in Requests
      BY <2>1 DEF Requests
    <2>3. leaked' \subseteq Requests
      BY <1>10, <2>2 DEF Disconnect
    <2>4. /\ pc' = [pc EXCEPT ![c] = "away"] /\ position' = [position EXCEPT ![c] = 0]
          /\ snapshot' = [snapshot EXCEPT ![c] = 0] /\ UNCHANGED <<arrivals, shutdown>>
      BY <1>10 DEF Disconnect, Drop
    <2> QED BY <1>0, <2>3, <2>4
  <1>11. CASE UNCHANGED vars
    BY <1>11 DEF vars
  <1> QED
    BY <1>1, <1>2, <1>3, <1>4, <1>5, <1>6, <1>7, <1>8, <1>9, <1>10, <1>11, <1>12
    DEF Next, Handle, Stream

\* The variables keep their types; the connection counter never wraps below 0.
THEOREM TypeCorrect == Spec => []TypeOK
  <1>1. Init => RestTypes
    <2> SUFFICES ASSUME Init PROVE RestTypes
      OBVIOUS
    <2>1. MaxEvents \in Nat /\ \A c \in Clients : MaxArrivals[c] \in Nat
      BY SseAssumption
    <2>2. \A c \in Clients : arrivals[c] = 0 /\ pc[c] = "away" /\ snapshot[c] = 0 /\ position[c] = 0
      BY DEF Init
    <2>3. shutdown \in BOOLEAN /\ leaked \subseteq Requests
      BY DEF Init
    <2>4. \A c \in Clients : 0 <= MaxArrivals[c] /\ 0 <= MaxEvents /\ 0 <= MaxEvents + 1
      BY <2>1
    <2> QED BY <2>2, <2>3, <2>4 DEF RestTypes
  <1>2. IInv /\ SlotInv /\ RepeatInv /\ RestTypes => TypeOK
    <2> SUFFICES ASSUME IInv, SlotInv, RepeatInv, RestTypes PROVE TypeOK
      OBVIOUS
    <2>1. connections \in Nat
      BY Numbers DEF SlotInv, SlotsAccounted
    <2>2. /\ position \in [Clients -> 0..(MaxEvents + 1)] /\ snapshot \in [Clients -> 0..MaxEvents]
          /\ pushed \in 0..MaxEvents /\ sent \in 0..MaxEvents /\ closed \in 0..MaxEvents
      BY SseAssumption DEF IInv, StreamTypes, RestTypes
    <2>3. \A c \in Clients : lastId[c] = 0 \/ rowId[c] = 0
      BY DEF IInv, RowInv, RowOk
    <2> QED BY <2>1, <2>2, <2>3 DEF TypeOK, IInv, StreamTypes, SlotInv, SlotTypes, RepeatInv, RepeatTypes, RestTypes
  <1>3. SlotInv => SlotTypes
    BY DEF SlotInv
  <1> QED BY <1>1, <1>2, <1>3, RestStep, Invariant, SlotInvariant, RepeatInvariant, PTL DEF Spec
=============================================================================
