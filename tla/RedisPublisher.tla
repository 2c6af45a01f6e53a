--------------------------- MODULE RedisPublisher ---------------------------
(***************************************************************************)
(* The Redis publisher of queue_publisher.rs: one task that receives the   *)
(* indexer's broadcast and appends every event to a Redis stream, with     *)
(* three attempts, and a bounded buffer for what could not be appended,    *)
(* which is drained when the next event comes.                             *)
(*                                                                         *)
(* Events are numbered in the order they are broadcast.  XADD always adds  *)
(* an entry, so a retry of one that was executed adds it twice.            *)
(***************************************************************************)
EXTENDS Integers, Sequences, FiniteSets

CONSTANTS Channel,     \* capacity of the broadcast channel (256)
          MaxBuffer,   \* redis_max_buffer_size
          MaxRetries,  \* MAX_RETRIES (3)
          MaxEvents,   \* bound: events broadcast
          MaxOutages,  \* bound: times Redis goes down
          MaxLost,     \* bound: answers lost after XADD was executed
          MaxCrashes   \* bound: ends of the process

Events == 1..MaxEvents

ASSUME RedisAssumption ==
  /\ Channel \in Nat \ {0} /\ MaxBuffer \in Nat /\ MaxRetries \in Nat \ {0}
  /\ MaxEvents \in Nat /\ MaxOutages \in Nat /\ MaxLost \in Nat /\ MaxCrashes \in Nat

VARIABLES
  sent, next,        \* events in the channel's history; the receiver's next
  open,              \* the channel has senders
  up, outages,       \* Redis answers; how often it has gone down
  pc,                \* what the task is at
  hand,              \* the event received last, 0 for none in hand
  attempt,           \* failed attempts of publish_with_retry
  buffer,            \* RedisPublisher::buffer, oldest first
  stream,            \* the Redis stream
  crashes,           \* counted against MaxCrashes
  missed, dropped,   \* history: events overwritten in the channel, dropped from the buffer
  gone,              \* history: events gone with a process
  lost               \* history: answers lost, each an entry that may be repeated

channelVars == <<sent, next, open>>
redisVars   == <<up, outages, stream>>
taskVars    == <<pc, hand, attempt, buffer>>
historyVars == <<missed, dropped, gone, crashes, lost>>
vars == <<channelVars, redisVars, taskVars, historyVars>>

Ranges(s) == {s[i] : i \in 1..Len(s)}

TypeOK ==
  /\ sent \in 0..MaxEvents /\ next \in 1..(MaxEvents + 1) /\ open \in BOOLEAN
  /\ up \in BOOLEAN /\ outages \in 0..MaxOutages
  /\ pc \in {"connect", "recv", "drain", "publish", "stopped"} /\ hand \in 0..MaxEvents
  /\ attempt \in 0..(MaxRetries - 1)
  /\ buffer \in Seq(Events) /\ stream \in Seq(Events)
  /\ missed \subseteq Events /\ dropped \subseteq Events /\ gone \subseteq Events
  /\ crashes \in 0..MaxCrashes /\ lost \in 0..MaxLost

Init ==
  /\ sent = 0 /\ next = 1 /\ open = TRUE
  /\ up = TRUE /\ outages = 0
  /\ pc = "connect" /\ hand = 0 /\ attempt = 0 /\ buffer = <<>>
  /\ stream = <<>> /\ missed = {} /\ dropped = {} /\ gone = {}
  /\ crashes = 0 /\ lost = 0

-----------------------------------------------------------------------------
(* The channel and Redis *)

Send ==
  /\ open /\ sent < MaxEvents
  /\ sent' = sent + 1
  /\ UNCHANGED <<next, open, redisVars, taskVars, historyVars>>

\* The last sender is dropped.
Close ==
  /\ open /\ open' = FALSE
  /\ UNCHANGED <<sent, next, redisVars, taskVars, historyVars>>

GoDown ==
  /\ up /\ outages < MaxOutages
  /\ up' = FALSE /\ outages' = outages + 1
  /\ UNCHANGED <<channelVars, stream, taskVars, historyVars>>

ComeUp ==
  /\ ~up /\ up' = TRUE
  /\ UNCHANGED <<channelVars, outages, stream, taskVars, historyVars>>

-----------------------------------------------------------------------------
(* The task *)

\* RedisPublisher::new: without a connection the task ends at once.
Connect ==
  /\ pc = "connect"
  /\ pc' = IF up THEN "recv" ELSE "stopped"
  /\ UNCHANGED <<channelVars, redisVars, hand, attempt, buffer, historyVars>>

\* Ok(event): with a buffer it is drained first.
Receive ==
  /\ pc = "recv"
  /\ next <= sent /\ next > sent - Channel
  /\ hand' = next /\ next' = next + 1
  /\ pc' = IF buffer = <<>> THEN "publish" ELSE "drain"
  /\ UNCHANGED <<sent, open, redisVars, attempt, buffer, historyVars>>

Lagged ==
  /\ pc = "recv"
  /\ next <= sent - Channel
  /\ missed' = missed \cup next..(sent - Channel)
  /\ next' = sent - Channel + 1
  /\ UNCHANGED <<sent, open, redisVars, taskVars, dropped, gone, crashes, lost>>

\* Closed: the task ends, and its buffer with it.
Stop ==
  /\ pc = "recv" /\ ~open /\ next > sent
  /\ pc' = "stopped"
  /\ UNCHANGED <<channelVars, redisVars, hand, attempt, buffer, historyVars>>

\* publish(): XADD is executed and answered, ...
Added(e) == up /\ stream' = Append(stream, e) /\ UNCHANGED lost

\* ... or it fails, executed with its answer lost, or not.
NotAdded(e) ==
  \/ ~up /\ UNCHANGED <<stream, lost>>
  \/ up /\ lost < MaxLost /\ lost' = lost + 1 /\ stream' = Append(stream, e)

\* try_drain_buffer: the front is removed once it is in the stream.
DrainOne ==
  /\ pc = "drain"
  /\ Added(Head(buffer))
  /\ buffer' = Tail(buffer)
  /\ pc' = IF Tail(buffer) = <<>> THEN "publish" ELSE "drain"
  /\ UNCHANGED <<channelVars, up, outages, hand, attempt, missed, dropped, gone, crashes>>

\* Bug: when the buffer is full the new event is dropped.
BugBufferEvent ==
  /\ buffer' = IF Len(buffer) >= MaxBuffer THEN buffer ELSE Append(buffer, hand)
  /\ UNCHANGED dropped

\* buffer_event: of a full buffer the oldest is dropped, and one always fits.
BufferEvent ==
  LET kept == IF Len(buffer) >= MaxBuffer /\ buffer # <<>> THEN Tail(buffer) ELSE buffer
  IN  /\ buffer' = Append(kept, hand)
      /\ dropped' = dropped \cup (Ranges(buffer) \ Ranges(kept))

\* Bug: an event that finds the buffer not drained is published all the same.
BugDrainFails ==
  /\ pc = "drain"
  /\ NotAdded(Head(buffer))
  /\ pc' = "publish"
  /\ UNCHANGED <<channelVars, up, outages, hand, attempt, buffer, missed, dropped, gone, crashes>>

DrainFails ==
  /\ pc = "drain"
  /\ NotAdded(Head(buffer))
  /\ BufferEvent
  /\ pc' = "recv" /\ hand' = 0
  /\ UNCHANGED <<channelVars, up, outages, attempt, missed, gone, crashes>>

\* publish_with_retry: an attempt that is answered, ...
Publish ==
  /\ pc = "publish"
  /\ Added(hand)
  /\ pc' = "recv" /\ hand' = 0 /\ attempt' = 0
  /\ UNCHANGED <<channelVars, up, outages, buffer, missed, dropped, gone, crashes>>

\* Bug: the attempts are not counted.
BugPublishRetries ==
  /\ pc = "publish"
  /\ attempt + 1 < MaxRetries
  /\ NotAdded(hand)
  /\ UNCHANGED <<channelVars, up, outages, taskVars, missed, dropped, gone, crashes>>

\* ... one that is not and is followed by another after a backoff, ...
PublishRetries ==
  /\ pc = "publish"
  /\ attempt + 1 < MaxRetries
  /\ NotAdded(hand)
  /\ attempt' = attempt + 1
  /\ UNCHANGED <<channelVars, up, outages, pc, hand, buffer, missed, dropped, gone, crashes>>

\* ... and the last, after which the event is put into the buffer.
PublishGivesUp ==
  /\ pc = "publish"
  /\ attempt + 1 >= MaxRetries
  /\ NotAdded(hand)
  /\ BufferEvent
  /\ pc' = "recv" /\ hand' = 0 /\ attempt' = 0
  /\ UNCHANGED <<channelVars, up, outages, missed, gone, crashes>>

\* The process ends and is started again: buffer and channel are gone, the
\* stream stays.
Crash ==
  /\ crashes < MaxCrashes /\ crashes' = crashes + 1
  /\ gone' = gone \cup Ranges(buffer) \cup ({hand} \ {0}) \cup next..sent
  /\ pc' = "connect" /\ hand' = 0 /\ attempt' = 0 /\ buffer' = <<>>
  /\ next' = sent + 1 /\ open' = TRUE
  /\ UNCHANGED <<sent, redisVars, missed, dropped, lost>>

-----------------------------------------------------------------------------
Step == \/ Connect \/ Receive \/ Lagged \/ Stop
        \/ DrainOne \/ DrainFails \/ Publish \/ PublishRetries \/ PublishGivesUp

Next == Send \/ Close \/ GoDown \/ ComeUp \/ Crash \/ Step

\* The task is one of the runtime's; a command to Redis ends in an answer or
\* an error, a backoff of 100 ms and more in its next attempt.
Fairness == WF_vars(Step)

Spec == Init /\ [][Next]_vars /\ Fairness

-----------------------------------------------------------------------------
(* Properties *)

\* Readers of the stream see events in the order they were indexed, copies of
\* one next to each other: an event never passes those that wait before it in
\* the buffer.
StreamInOrder == \A i, j \in 1..Len(stream) : i < j => stream[i] <= stream[j]

\* The buffer holds the newest of what could not be published: an event that
\* was received is in the stream, in hand or in the buffer, gone with a
\* process, or was dropped, and then is older than what is in the buffer, and
\* gave way to MaxBuffer later ones.
NewestKept ==
  /\ \A e \in 1..(next - 1) :
       e \in Ranges(stream) \cup Ranges(buffer) \cup {hand} \cup missed \cup dropped \cup gone
  /\ \A d \in dropped : \A i \in 1..Len(buffer) : d < buffer[i]
  /\ \A d \in dropped :
       Cardinality({e \in Ranges(stream) \cup Ranges(buffer) \cup dropped \cup gone : e > d})
         >= MaxBuffer

\* The stream has a copy too many only for an answer that was lost.
CopiesExplained == Len(stream) <= Cardinality(Ranges(stream)) + lost

\* Every event received is published in the end, or dropped, or gone with a
\* process, or it is still in the buffer because no event has been received
\* since the last that failed: what waits there is published with the next.
Newest(S) == CHOOSE e \in S : \A f \in S : f <= e

Stranded == buffer # <<>> /\ buffer[Len(buffer)] = Newest((1..(next - 1)) \ missed)

EventuallyPublished ==
  <>[](/\ next > sent \/ pc = "stopped"
       /\ \A e \in 1..(next - 1) :
            \/ e \in Ranges(stream) \cup missed \cup dropped \cup gone
            \/ e \in Ranges(buffer) /\ Stranded)
=============================================================================
