------------------------ MODULE RedisPublisherProofs ------------------------
(***************************************************************************)
(* Proofs about RedisPublisher, for any sizes of channel and buffer, any   *)
(* number of attempts, and any outages, lost answers and restarts: the order of the  *)
(* stream, what the buffer keeps, and the copies in the stream.            *)
(***************************************************************************)
EXTENDS RedisPublisher, SequenceTheorems, FiniteSetTheorems, TLAPS

\* What is tried next: the front of the buffer, or the event in hand.
Due == IF buffer # <<>> THEN Head(buffer) ELSE hand

\* An event in hand is published only when nothing waits before it.
Control ==
  /\ hand # 0 <=> pc \in {"drain", "publish"}
  /\ pc = "drain" => buffer # <<>>
  /\ pc = "publish" => buffer = <<>>
  /\ next <= sent + 1 /\ hand < next

\* From the front of the stream to the event in hand, events go up; only what
\* is tried next can be in the stream already.
Ordered ==
  /\ StreamInOrder
  /\ \A i, j \in 1..Len(buffer) : i < j => buffer[i] < buffer[j]
  /\ \A e \in Ranges(stream) : \A f \in Ranges(buffer) : e <= f
  /\ \A e \in Ranges(stream) \cup Ranges(buffer) \cup dropped : e < next
  /\ hand # 0 => /\ \A e \in Ranges(stream) : e <= hand
                 /\ \A e \in Ranges(buffer) : e < hand
                 /\ \A d \in dropped : d < hand

\* The buffer holds no event twice.
BufferDistinct == Cardinality(Ranges(buffer)) = Len(buffer)

\* Entries of the stream, and one more if what is tried next is there already.
CopiesCounted ==
  Len(stream) + (IF Due \in Ranges(stream) THEN 1 ELSE 0) <= Cardinality(Ranges(stream)) + lost

IInv == TypeOK /\ Control /\ Ordered /\ BufferDistinct /\ NewestKept /\ CopiesCounted

-----------------------------------------------------------------------------
(* Sequences and sets of events *)

Sorted(s)     == \A i, j \in 1..Len(s) : i < j => s[i] <= s[j]
Increasing(s) == \A i, j \in 1..Len(s) : i < j => s[i] < s[j]

\* A sequence of events has a length, and its entries are events.
LEMMA SeqRange ==
  ASSUME NEW s \in Seq(Events)
  PROVE  Len(s) \in Nat /\ Ranges(s) \in SUBSET Events
BY LenProperties, ElementOfSeq DEF Ranges

\* The empty sequence has no entries.
LEMMA EmptyRange == Ranges(<<>>) = {} /\ <<>> \in Seq(Events) /\ Len(<<>>) = 0
BY EmptySeq DEF Ranges

\* An event appended is an entry more.
LEMMA AppendRange ==
  ASSUME NEW s \in Seq(Events), NEW e \in Events
  PROVE  /\ Append(s, e) \in Seq(Events) /\ Append(s, e) # <<>>
         /\ Len(Append(s, e)) = Len(s) + 1
         /\ Ranges(Append(s, e)) = Ranges(s) \cup {e}
<1>1. /\ Append(s, e) \in Seq(Events) /\ Append(s, e) # <<>>
      /\ Len(Append(s, e)) = Len(s) + 1 /\ Len(s) \in Nat
      /\ \A i \in 1..Len(s) : Append(s, e)[i] = s[i]
      /\ Append(s, e)[Len(s) + 1] = e
  BY AppendProperties, LenProperties
<1>2. 1..(Len(s) + 1) = 1..Len(s) \cup {Len(s) + 1}
  BY <1>1
<1>. QED BY <1>1, <1>2 DEF Ranges

\* A sequence that is not empty is its head and its tail.
LEMMA TailRange ==
  ASSUME NEW s \in Seq(Events), s # <<>>
  PROVE  /\ Head(s) = s[1] /\ Head(s) \in Events /\ Tail(s) \in Seq(Events)
         /\ Len(s) \in Nat \ {0} /\ Len(Tail(s)) = Len(s) - 1
         /\ \A i \in 1..(Len(s) - 1) : Tail(s)[i] = s[i + 1]
         /\ Ranges(s) = Ranges(Tail(s)) \cup {Head(s)}
<1>1. /\ Head(s) \in Events /\ Tail(s) \in Seq(Events) /\ Len(Tail(s)) = Len(s) - 1
      /\ \A i \in 1..Len(Tail(s)) : Tail(s)[i] = s[i + 1]
  BY HeadTailProperties
<1>2. Len(s) \in Nat \ {0}
  BY EmptySeq, LenProperties
<1>3. Head(s) = s[1]
  OBVIOUS
<1>4. 1..Len(s) = {1} \cup {i + 1 : i \in 1..(Len(s) - 1)}
  <2>1. \A i \in 1..Len(s) : i = 1 \/ (i - 1 \in 1..(Len(s) - 1) /\ i = (i - 1) + 1)
    BY <1>2
  <2>2. \A i \in 1..(Len(s) - 1) : i + 1 \in 1..Len(s)
    BY <1>2
  <2>. QED BY <1>2, <2>1, <2>2
<1>5. Ranges(s) = Ranges(Tail(s)) \cup {Head(s)}
  <2>1. Ranges(s) \subseteq Ranges(Tail(s)) \cup {Head(s)}
    <3>. SUFFICES ASSUME NEW i \in 1..Len(s) PROVE s[i] \in Ranges(Tail(s)) \cup {Head(s)}
      BY DEF Ranges
    <3>1. CASE i = 1
      BY <1>3, <3>1
    <3>2. CASE i # 1
      <4>1. i - 1 \in 1..Len(Tail(s)) /\ (i - 1) + 1 = i
        BY <1>1, <1>2, <3>2
      <4>2. s[i] = Tail(s)[i - 1]
        BY <1>1, <4>1
      <4>. QED BY <4>1, <4>2 DEF Ranges
    <3>. QED BY <3>1, <3>2
  <2>2. Ranges(Tail(s)) \subseteq Ranges(s)
    <3>. SUFFICES ASSUME NEW i \in 1..Len(Tail(s)) PROVE Tail(s)[i] \in Ranges(s)
      BY DEF Ranges
    <3>1. i + 1 \in 1..Len(s) /\ Tail(s)[i] = s[i + 1]
      BY <1>1, <1>2
    <3>. QED BY <3>1 DEF Ranges
  <2>3. Head(s) \in Ranges(s)
    BY <1>2, <1>3 DEF Ranges
  <2>. QED BY <2>1, <2>2, <2>3
<1>. QED BY <1>1, <1>2, <1>3, <1>5

\* A sorted sequence stays so if nothing in it is above what is appended.
LEMMA AppendSorted ==
  ASSUME NEW s \in Seq(Events), Sorted(s), NEW e \in Events, \A x \in Ranges(s) : x <= e
  PROVE  Sorted(Append(s, e))
<1>1. /\ Len(Append(s, e)) = Len(s) + 1 /\ Len(s) \in Nat
      /\ \A i \in 1..Len(s) : Append(s, e)[i] = s[i] /\ s[i] \in Events
      /\ Append(s, e)[Len(s) + 1] = e
  BY AppendProperties, LenProperties, ElementOfSeq
<1>2. \A i \in 1..Len(s) : s[i] <= e
  BY DEF Ranges
<1>. QED BY <1>1, <1>2 DEF Sorted, Events

\* An increasing one stays so if everything in it is below.
LEMMA AppendIncreasing ==
  ASSUME NEW s \in Seq(Events), Increasing(s), NEW e \in Events, \A x \in Ranges(s) : x < e
  PROVE  Increasing(Append(s, e))
<1>1. /\ Len(Append(s, e)) = Len(s) + 1 /\ Len(s) \in Nat
      /\ \A i \in 1..Len(s) : Append(s, e)[i] = s[i] /\ s[i] \in Events
      /\ Append(s, e)[Len(s) + 1] = e
  BY AppendProperties, LenProperties, ElementOfSeq
<1>2. \A i \in 1..Len(s) : s[i] < e
  BY DEF Ranges
<1>. SUFFICES ASSUME NEW i \in 1..(Len(s) + 1), NEW j \in 1..(Len(s) + 1), i < j
              PROVE  Append(s, e)[i] < Append(s, e)[j]
  BY <1>1 DEF Increasing
<1>3. i \in 1..Len(s) /\ (j \in 1..Len(s) \/ j = Len(s) + 1)
  BY <1>1
<1>. QED BY <1>1, <1>2, <1>3 DEF Increasing

\* The tail of an increasing sequence is increasing, and above the head.
LEMMA TailIncreasing ==
  ASSUME NEW s \in Seq(Events), Increasing(s), s # <<>>
  PROVE  Increasing(Tail(s)) /\ \A x \in Ranges(Tail(s)) : Head(s) < x
<1>1. /\ Head(s) = s[1] /\ Len(s) \in Nat \ {0} /\ Len(Tail(s)) = Len(s) - 1
      /\ \A i \in 1..(Len(s) - 1) : Tail(s)[i] = s[i + 1]
  BY TailRange
<1>2. Increasing(Tail(s))
  BY <1>1 DEF Increasing
<1>3. ASSUME NEW i \in 1..Len(Tail(s)) PROVE Head(s) < Tail(s)[i]
  BY <1>1 DEF Increasing
<1>. QED BY <1>2, <1>3 DEF Ranges

\* Sets of events are finite, so they can be counted.
LEMMA EventSets ==
  \A S \in SUBSET Events : IsFiniteSet(S) /\ Cardinality(S) \in Nat
<1>1. IsFiniteSet(Events)
  BY RedisAssumption, FS_Interval DEF Events
<1>. QED BY <1>1, FS_Subset, FS_CardinalityType

\* Fewer events, a smaller count.
LEMMA Fewer ==
  ASSUME NEW T \in SUBSET Events, NEW S \in SUBSET T
  PROVE  Cardinality(S) <= Cardinality(T)
<1>1. IsFiniteSet(T) /\ S \in SUBSET Events
  BY EventSets
<1>. QED BY <1>1, FS_Subset

\* An event more, one more in the count.
LEMMA OneMore ==
  ASSUME NEW S \in SUBSET Events, NEW e \in Events \ S
  PROVE  Cardinality(S \cup {e}) = Cardinality(S) + 1
BY EventSets, FS_AddElement

\* An event less, one less in the count.
LEMMA OneFewer ==
  ASSUME NEW S \in SUBSET Events, NEW e \in S
  PROVE  Cardinality(S \ {e}) = Cardinality(S) - 1
BY EventSets, FS_RemoveElement

-----------------------------------------------------------------------------
(* The steps: types and control *)

\* An attempt that fails may have added its event all the same.
LEMMA NotAddedAdds ==
  ASSUME TypeOK, NEW e \in Events, NotAdded(e)
  PROVE  \/ stream' = stream /\ lost' = lost
         \/ stream' = Append(stream, e) /\ lost' = lost + 1 /\ lost' \in 0..MaxLost
BY RedisAssumption DEF NotAdded, TypeOK

\* The buffer after buffer_event: what was kept, then the event in hand.
Kept == IF Len(buffer) >= MaxBuffer /\ buffer # <<>> THEN Tail(buffer) ELSE buffer

\* What buffer_event keeps is of the buffer, in its order.
LEMMA KeptRange ==
  ASSUME TypeOK
  PROVE  /\ Kept \in Seq(Events) /\ Ranges(Kept) \in SUBSET Ranges(buffer)
         /\ Increasing(buffer) => Increasing(Kept)
<1>1. CASE Kept = buffer
  BY <1>1 DEF TypeOK
<1>2. CASE buffer # <<>> /\ Kept = Tail(buffer)
  BY <1>2, TailRange, TailIncreasing DEF TypeOK
<1>. QED BY <1>1, <1>2 DEF Kept

\* buffer_event drops what is not kept and appends the event in hand.
LEMMA BufferEventKeeps ==
  ASSUME TypeOK, BufferEvent, hand \in Events
  PROVE  /\ buffer' = Append(Kept, hand) /\ buffer' \in Seq(Events) /\ buffer' # <<>>
         /\ Ranges(buffer') = Ranges(Kept) \cup {hand}
         /\ dropped' = dropped \cup (Ranges(buffer) \ Ranges(Kept))
BY KeptRange, AppendRange DEF BufferEvent, Kept

\* Every step keeps the variables in their types and the control consistent.
LEMMA TypeStep == TypeOK /\ Control /\ [Next]_vars => TypeOK' /\ Control'
<1>. SUFFICES ASSUME TypeOK, Control, [Next]_vars PROVE TypeOK' /\ Control'
  OBVIOUS
<1>. USE RedisAssumption DEF channelVars, redisVars, taskVars, historyVars
<1>1. hand # 0 => hand \in Events
  BY DEF TypeOK, Events
<1>2. CASE Send \/ Close \/ GoDown \/ ComeUp
  <2>1. TypeOK'
    <3>1. CASE Send
      BY <3>1 DEF Send, TypeOK
    <3>2. CASE Close
      BY <3>2 DEF Close, TypeOK
    <3>3. CASE GoDown
      <4>1. up' = FALSE /\ outages' = outages + 1 /\ outages < MaxOutages
        BY <3>3 DEF GoDown
      <4>2. outages' \in 0..MaxOutages
        BY <4>1 DEF TypeOK
      <4>. QED BY <3>3, <4>1, <4>2 DEF GoDown, TypeOK
    <3>4. CASE ComeUp
      BY <3>4 DEF ComeUp, TypeOK
    <3>. QED BY <1>2, <3>1, <3>2, <3>3, <3>4
  <2>2. Control'
    BY <1>2 DEF Send, Close, GoDown, ComeUp, TypeOK, Control
  <2>. QED BY <2>1, <2>2
<1>3. CASE Connect
  BY <1>3 DEF Connect, TypeOK, Control
<1>4. CASE Receive
  <2>1. next \in 1..MaxEvents
    BY <1>4 DEF Receive, TypeOK
  <2>2. TypeOK'
    BY <1>4, <2>1 DEF Receive, TypeOK
  <2>3. Control'
    BY <1>4, <2>1 DEF Receive, TypeOK, Control
  <2>. QED BY <2>2, <2>3
<1>5. CASE Lagged
  <2>1. next..(sent - Channel) \subseteq Events
    BY <1>5 DEF TypeOK, Events
  <2>2. TypeOK'
    BY <1>5, <2>1 DEF Lagged, TypeOK
  <2>3. Control'
    BY <1>5 DEF Lagged, TypeOK, Control
  <2>. QED BY <2>2, <2>3
<1>6. CASE Stop
  BY <1>6 DEF Stop, TypeOK, Control
<1>7. CASE DrainOne
  <2>1. buffer # <<>> /\ hand \in Events /\ pc = "drain"
    BY <1>1, <1>7 DEF DrainOne, Control
  <2>2. Head(buffer) \in Events /\ Tail(buffer) \in Seq(Events)
    BY <2>1, TailRange DEF TypeOK
  <2>3. stream' \in Seq(Events)
    BY <1>7, <2>2, AppendRange DEF DrainOne, Added, TypeOK
  <2>4. TypeOK'
    BY <1>7, <2>2, <2>3 DEF DrainOne, Added, TypeOK
  <2>5. Control'
    BY <1>7, <2>1 DEF DrainOne, Control, TypeOK
  <2>. QED BY <2>4, <2>5
<1>8. CASE DrainFails
  <2>1. buffer # <<>> /\ hand \in Events
    BY <1>1, <1>8 DEF DrainFails, Control
  <2>2. Head(buffer) \in Events
    BY <2>1, TailRange DEF TypeOK
  <2>3. stream' \in Seq(Events) /\ lost' \in 0..MaxLost
    BY <1>8, <2>2, NotAddedAdds, AppendRange DEF DrainFails, TypeOK
  <2>4. buffer' \in Seq(Events) /\ dropped' \subseteq Events
    BY <1>8, <2>1, BufferEventKeeps, SeqRange DEF DrainFails, TypeOK
  <2>5. TypeOK'
    BY <1>8, <2>3, <2>4 DEF DrainFails, TypeOK
  <2>6. Control'
    BY <1>8 DEF DrainFails, Control, TypeOK
  <2>. QED BY <2>5, <2>6
<1>9. CASE Publish
  <2>1. hand \in Events
    BY <1>1, <1>9 DEF Publish, Control
  <2>2. stream' \in Seq(Events)
    BY <1>9, <2>1, AppendRange DEF Publish, Added, TypeOK
  <2>3. TypeOK'
    BY <1>9, <2>2 DEF Publish, Added, TypeOK
  <2>4. Control'
    BY <1>9 DEF Publish, Control, TypeOK
  <2>. QED BY <2>3, <2>4
<1>10. CASE PublishRetries
  <2>1. hand \in Events
    BY <1>1, <1>10 DEF PublishRetries, Control
  <2>2. stream' \in Seq(Events) /\ lost' \in 0..MaxLost
    BY <1>10, <2>1, NotAddedAdds, AppendRange DEF PublishRetries, TypeOK
  <2>3. TypeOK'
    BY <1>10, <2>2 DEF PublishRetries, TypeOK
  <2>4. Control'
    BY <1>10 DEF PublishRetries, Control
  <2>. QED BY <2>3, <2>4
<1>11. CASE PublishGivesUp
  <2>1. hand \in Events
    BY <1>1, <1>11 DEF PublishGivesUp, Control
  <2>2. stream' \in Seq(Events) /\ lost' \in 0..MaxLost
    BY <1>11, <2>1, NotAddedAdds, AppendRange DEF PublishGivesUp, TypeOK
  <2>3. buffer' \in Seq(Events) /\ dropped' \subseteq Events
    BY <1>11, <2>1, BufferEventKeeps, SeqRange DEF PublishGivesUp, TypeOK
  <2>4. TypeOK'
    BY <1>11, <2>2, <2>3 DEF PublishGivesUp, TypeOK
  <2>5. Control'
    BY <1>11 DEF PublishGivesUp, Control, TypeOK
  <2>. QED BY <2>4, <2>5
<1>12. CASE UNCHANGED vars
  BY <1>12 DEF vars, TypeOK, Control
<1>13. CASE Crash
  <2>1. /\ gone' = gone \cup Ranges(buffer) \cup ({hand} \ {0}) \cup next..sent
        /\ pc' = "connect" /\ hand' = 0 /\ attempt' = 0 /\ buffer' = <<>>
        /\ next' = sent + 1 /\ open' = TRUE /\ crashes' = crashes + 1 /\ crashes < MaxCrashes
    BY <1>13 DEF Crash
  <2>2. Ranges(buffer) \subseteq Events /\ ({hand} \ {0}) \subseteq Events
    BY <1>1, SeqRange DEF TypeOK
  <2>3. next..sent \subseteq Events
    BY DEF TypeOK, Events
  <2>4. gone' \subseteq Events /\ buffer' \in Seq(Events)
    BY <2>1, <2>2, <2>3, EmptyRange DEF TypeOK
  <2>5. crashes' \in 0..MaxCrashes /\ next' \in 1..(MaxEvents + 1) /\ attempt' \in 0..(MaxRetries - 1)
    BY <2>1 DEF TypeOK
  <2>. QED BY <1>13, <2>1, <2>4, <2>5 DEF Crash, TypeOK, Control
<1>. QED BY <1>2, <1>3, <1>4, <1>5, <1>6, <1>7, <1>8, <1>9, <1>10, <1>11, <1>12, <1>13
         DEF Next, Step

-----------------------------------------------------------------------------
(* The steps: order *)

\* The order, with its parts spelled out.
LEMMA OrderedDef ==
  Ordered <=>
    /\ Sorted(stream) /\ Increasing(buffer)
    /\ \A e \in Ranges(stream) : \A f \in Ranges(buffer) : e <= f
    /\ \A e \in Ranges(stream) \cup Ranges(buffer) \cup dropped : e < next
    /\ hand # 0 => /\ \A e \in Ranges(stream) : e <= hand
                   /\ \A e \in Ranges(buffer) : e < hand
                   /\ \A d \in dropped : d < hand
BY DEF Ordered, StreamInOrder, Sorted, Increasing

\* What an append of the front of the buffer, or of the event in hand, keeps.
LEMMA StreamAppend ==
  ASSUME TypeOK, Sorted(stream), NEW e \in Events, \A x \in Ranges(stream) : x <= e,
         stream' \in {stream, Append(stream, e)}
  PROVE  /\ Sorted(stream') /\ Ranges(stream) \subseteq Ranges(stream')
         /\ Ranges(stream') \subseteq Ranges(stream) \cup {e}
         /\ \A x \in Ranges(stream') : x <= e
<1>1. CASE stream' = stream
  BY <1>1
<1>2. CASE stream' = Append(stream, e)
  BY <1>2, AppendSorted, AppendRange DEF TypeOK, Events
<1>. QED BY <1>1, <1>2

\* buffer_event keeps the buffer increasing and the event in hand its last.
LEMMA BufferEventOrdered ==
  ASSUME TypeOK, Increasing(buffer), BufferEvent, hand \in Events,
         \A e \in Ranges(buffer) : e < hand
  PROVE  /\ Increasing(buffer') /\ Ranges(buffer') \subseteq Ranges(buffer) \cup {hand}
<1>1. /\ buffer' = Append(Kept, hand) /\ Ranges(buffer') = Ranges(Kept) \cup {hand}
      /\ Kept \in Seq(Events) /\ Ranges(Kept) \in SUBSET Ranges(buffer) /\ Increasing(Kept)
  BY BufferEventKeeps, KeptRange
<1>2. \A e \in Ranges(Kept) : e < hand
  BY <1>1
<1>3. Increasing(Append(Kept, hand))
  BY <1>1, <1>2, AppendIncreasing
<1>. QED BY <1>1, <1>3

\* Every step keeps the order.
LEMMA OrderStep == IInv /\ [Next]_vars => Ordered'
<1>. SUFFICES ASSUME IInv, [Next]_vars PROVE Ordered'
  OBVIOUS
<1>. USE RedisAssumption DEF channelVars, redisVars, taskVars, historyVars
<1>1. /\ TypeOK /\ Control /\ Ordered /\ NewestKept
      /\ Sorted(stream) /\ Increasing(buffer)
      /\ stream \in Seq(Events) /\ buffer \in Seq(Events)
      /\ Ranges(stream) \in SUBSET Events /\ Ranges(buffer) \in SUBSET Events
      /\ dropped \in SUBSET Events /\ next \in Int
      /\ (hand # 0 <=> hand \in Events) /\ \A e \in Events : e \in Int
  BY OrderedDef, SeqRange DEF IInv, TypeOK, Events
<1>2. CASE /\ UNCHANGED <<stream, buffer, dropped>> /\ next' \in Int /\ next' >= next
           /\ hand' \in {0, hand}
  <2>1. \A e \in Ranges(stream') \cup Ranges(buffer') \cup dropped' : e < next'
    <3>1. \A e \in Ranges(stream) \cup Ranges(buffer) \cup dropped : e \in Int /\ e < next
      BY <1>1, OrderedDef
    <3>. QED BY <1>1, <1>2, <3>1
  <2>. QED BY <1>1, <1>2, <2>1 DEF Ordered, StreamInOrder
<1>3. CASE Send \/ Close \/ GoDown \/ ComeUp \/ Connect \/ Stop
  BY <1>1, <1>2, <1>3 DEF Send, Close, GoDown, ComeUp, Connect, Stop
<1>4. CASE Lagged
  BY <1>1, <1>2, <1>4 DEF Lagged, TypeOK
<1>5. CASE Receive
  <2>1. /\ UNCHANGED <<stream, buffer, dropped>> /\ hand' = next /\ next' = next + 1
        /\ next \in Events
    BY <1>1, <1>5 DEF Receive, TypeOK, Events
  <2>2. \A d \in dropped : d < next
    BY <1>1, OrderedDef
  <2>3. \A e \in Ranges(stream) \cup Ranges(buffer) \cup dropped : e \in Int /\ e < next
    BY <1>1, OrderedDef
  <2>4. \A e \in Ranges(stream') \cup Ranges(buffer') \cup dropped' : e <= hand' /\ e < hand' /\ e < next'
    BY <1>1, <2>1, <2>3
  <2>. QED BY <1>1, <2>1, <2>2, <2>4 DEF Ordered, StreamInOrder
<1>6. CASE DrainOne
  <2>1. /\ buffer # <<>> /\ hand \in Events /\ UNCHANGED <<hand, next, dropped>>
        /\ stream' = Append(stream, Head(buffer)) /\ buffer' = Tail(buffer)
    BY <1>1, <1>6 DEF DrainOne, Added, Control
  <2>2. /\ Head(buffer) \in Events /\ Ranges(buffer) = Ranges(buffer') \cup {Head(buffer)}
        /\ Increasing(buffer') /\ \A x \in Ranges(buffer') : Head(buffer) < x
    BY <1>1, <2>1, TailRange, TailIncreasing
  <2>3. \A x \in Ranges(stream) : x <= Head(buffer)
    BY <1>1, <2>2, OrderedDef
  <2>4. /\ Sorted(stream') /\ Ranges(stream') \subseteq Ranges(stream) \cup {Head(buffer)}
        /\ \A x \in Ranges(stream') : x <= Head(buffer)
    BY <1>1, <2>1, <2>2, <2>3, StreamAppend
  <2>5. \A e \in Ranges(stream') \cup Ranges(buffer') \cup dropped' : e < next'
    BY <1>1, <2>1, <2>2, <2>4, OrderedDef
  <2>6. /\ \A e \in Ranges(stream') : e <= hand' /\ \A f \in Ranges(buffer') : e <= f
        /\ \A e \in Ranges(buffer') : e < hand'
        /\ \A d \in dropped' : d < hand'
    <3>1. Head(buffer) < hand /\ \A e \in Ranges(buffer') : e < hand
      BY <1>1, <2>1, <2>2, OrderedDef DEF Events
    <3>. QED BY <1>1, <2>1, <2>2, <2>4, <3>1, OrderedDef DEF Events
  <2>7. StreamInOrder' /\ \A i, j \in 1..Len(buffer') : i < j => buffer'[i] < buffer'[j]
    BY <2>2, <2>4 DEF StreamInOrder, Sorted, Increasing
  <2>. QED BY <2>5, <2>6, <2>7 DEF Ordered
<1>7. CASE DrainFails
  <2>1. /\ buffer # <<>> /\ hand \in Events /\ hand' = 0 /\ next' = next
        /\ BufferEvent /\ NotAdded(Head(buffer))
    BY <1>1, <1>7 DEF DrainFails, Control
  <2>2. Head(buffer) \in Ranges(buffer) /\ \A x \in Ranges(buffer) : Head(buffer) <= x
    BY <1>1, <2>1, TailRange, TailIncreasing DEF Events
  <2>3. \A x \in Ranges(stream) : x <= Head(buffer)
    BY <1>1, <2>2, OrderedDef
  <2>4. stream' \in {stream, Append(stream, Head(buffer))}
    BY <1>1, <2>1, <2>2, NotAddedAdds
  <2>5. /\ Sorted(stream') /\ Ranges(stream') \subseteq Ranges(stream) \cup {Head(buffer)}
        /\ \A x \in Ranges(stream') : x <= Head(buffer)
    BY <1>1, <2>2, <2>3, <2>4, StreamAppend
  <2>6. Increasing(buffer') /\ Ranges(buffer') \subseteq Ranges(buffer) \cup {hand}
    BY <1>1, <2>1, BufferEventOrdered, OrderedDef
  <2>7. dropped' \subseteq dropped \cup Ranges(buffer)
    BY <1>1, <2>1, BufferEventKeeps
  <2>8. \A e \in Ranges(stream') \cup Ranges(buffer') \cup dropped' : e < next'
    BY <1>1, <2>1, <2>2, <2>5, <2>6, <2>7, OrderedDef DEF Control
  <2>9. \A e \in Ranges(stream') : \A f \in Ranges(buffer') : e <= f
    <3>1. Head(buffer) \in Int /\ hand \in Int /\ Head(buffer) < hand
      BY <1>1, <2>1, <2>2, OrderedDef
    <3>2. \A f \in Ranges(buffer') : f \in Int /\ Head(buffer) <= f
      <4>. SUFFICES ASSUME NEW f \in Ranges(buffer') PROVE f \in Int /\ Head(buffer) <= f
        OBVIOUS
      <4>1. CASE f \in Ranges(buffer)
        BY <1>1, <2>2, <4>1
      <4>2. CASE f = hand
        BY <3>1, <4>2
      <4>. QED BY <2>6, <4>1, <4>2
    <3>3. \A e \in Ranges(stream') : e \in Int /\ e <= Head(buffer)
      <4>1. Ranges(stream') \subseteq Events
        BY <1>1, <2>2, <2>5
      <4>. QED BY <1>1, <2>5, <4>1
    <3>. QED BY <3>1, <3>2, <3>3
  <2>10. StreamInOrder' /\ \A i, j \in 1..Len(buffer') : i < j => buffer'[i] < buffer'[j]
    BY <2>5, <2>6 DEF StreamInOrder, Sorted, Increasing
  <2>. QED BY <2>1, <2>8, <2>9, <2>10 DEF Ordered
<1>8. ASSUME stream' \in {stream, Append(stream, hand)}, hand \in Events, buffer = <<>>,
             UNCHANGED <<buffer, next, dropped>>, hand' \in {0, hand}
      PROVE  Ordered'
  <2>1. /\ Sorted(stream') /\ Ranges(stream') \subseteq Ranges(stream) \cup {hand}
        /\ \A x \in Ranges(stream') : x <= hand
    BY <1>1, <1>8, StreamAppend, OrderedDef
  <2>2. Ranges(buffer') = {} /\ Len(buffer') = 0
    BY <1>8, EmptyRange
  <2>3. \A e \in Ranges(stream') \cup Ranges(buffer') \cup dropped' : e < next'
    BY <1>1, <1>8, <2>1, <2>2, OrderedDef DEF Control
  <2>4. StreamInOrder' /\ \A i, j \in 1..Len(buffer') : i < j => buffer'[i] < buffer'[j]
    BY <2>1, <2>2 DEF StreamInOrder, Sorted
  <2>5. hand' # 0 => \A d \in dropped' : d < hand'
    BY <1>1, <1>8, OrderedDef
  <2>. QED BY <1>8, <2>1, <2>2, <2>3, <2>4, <2>5 DEF Ordered
<1>9. CASE Publish
  <2>1. hand \in Events /\ buffer = <<>>
    BY <1>1, <1>9 DEF Publish, Control
  <2>. QED BY <1>8, <1>9, <2>1 DEF Publish, Added
<1>10. CASE PublishRetries
  <2>1. hand \in Events /\ buffer = <<>>
    BY <1>1, <1>10 DEF PublishRetries, Control
  <2>2. stream' \in {stream, Append(stream, hand)}
    BY <1>1, <1>10, <2>1, NotAddedAdds DEF PublishRetries
  <2>. QED BY <1>8, <1>10, <2>1, <2>2 DEF PublishRetries
<1>11. CASE PublishGivesUp
  <2>1. /\ hand \in Events /\ buffer = <<>> /\ hand' = 0 /\ next' = next
        /\ BufferEvent /\ NotAdded(hand)
    BY <1>1, <1>11 DEF PublishGivesUp, Control
  <2>2. stream' \in {stream, Append(stream, hand)}
    BY <1>1, <2>1, NotAddedAdds
  <2>3. /\ Sorted(stream') /\ Ranges(stream') \subseteq Ranges(stream) \cup {hand}
        /\ \A x \in Ranges(stream') : x <= hand
    BY <1>1, <2>1, <2>2, StreamAppend, OrderedDef
  <2>4. Ranges(buffer) = {}
    BY <2>1, EmptyRange
  <2>5. Increasing(buffer') /\ Ranges(buffer') \subseteq {hand} /\ dropped' \subseteq dropped
    BY <1>1, <2>1, <2>4, BufferEventOrdered, BufferEventKeeps
  <2>6. \A e \in Ranges(stream') \cup Ranges(buffer') \cup dropped' : e < next'
    BY <1>1, <2>1, <2>3, <2>5, OrderedDef DEF Control
  <2>7. StreamInOrder' /\ \A i, j \in 1..Len(buffer') : i < j => buffer'[i] < buffer'[j]
    BY <2>3, <2>5 DEF StreamInOrder, Sorted, Increasing
  <2>. QED BY <2>1, <2>3, <2>5, <2>6, <2>7 DEF Ordered
<1>12. CASE UNCHANGED vars
  BY <1>1, <1>2, <1>12 DEF vars
<1>13. CASE Crash
  <2>1. /\ buffer' = <<>> /\ hand' = 0 /\ UNCHANGED <<stream, dropped>>
        /\ next' = sent + 1 /\ next <= next'
    BY <1>1, <1>13 DEF Crash, Control
  <2>2. Ranges(buffer') = {} /\ Len(buffer') = 0 /\ next' \in Int
    BY <2>1, EmptyRange, <1>1 DEF TypeOK
  <2>3. \A e \in Ranges(stream) \cup dropped : e \in Int /\ e < next
    BY <1>1, OrderedDef
  <2>4. \A e \in Ranges(stream') \cup Ranges(buffer') \cup dropped' : e < next'
    BY <1>1, <2>1, <2>2, <2>3
  <2>. QED BY <1>1, <2>1, <2>2, <2>4 DEF Ordered, StreamInOrder
<1>. QED BY <1>3, <1>4, <1>5, <1>6, <1>7, <1>9, <1>10, <1>11, <1>12, <1>13 DEF Next, Step

-----------------------------------------------------------------------------
(* The steps: the buffer *)

\* Without its head a sequence of distinct events loses that event alone.
LEMMA TailDistinct ==
  ASSUME NEW s \in Seq(Events), Increasing(s), s # <<>>, Cardinality(Ranges(s)) = Len(s)
  PROVE  /\ Cardinality(Ranges(Tail(s))) = Len(Tail(s))
         /\ Ranges(s) \ Ranges(Tail(s)) = {Head(s)}
<1>1. /\ Head(s) \in Events /\ Tail(s) \in Seq(Events) /\ Len(Tail(s)) = Len(s) - 1
      /\ Ranges(s) = Ranges(Tail(s)) \cup {Head(s)} /\ Ranges(s) \in SUBSET Events
  BY TailRange, SeqRange
<1>2. \A x \in Ranges(Tail(s)) : x # Head(s)
  BY <1>1, TailIncreasing DEF Events
<1>3. Ranges(Tail(s)) = Ranges(s) \ {Head(s)} /\ Head(s) \in Ranges(s)
  BY <1>1, <1>2
<1>4. Cardinality(Ranges(Tail(s))) = Cardinality(Ranges(s)) - 1
  BY <1>1, <1>3, OneFewer
<1>. QED BY <1>1, <1>3, <1>4

\* What buffer_event drops is older than all it keeps, and it keeps at least
\* MaxBuffer.
LEMMA BufferEventDrops ==
  ASSUME TypeOK, Increasing(buffer), BufferDistinct, BufferEvent, hand \in Events,
         \A e \in Ranges(buffer) : e < hand
  PROVE  /\ BufferDistinct'
         /\ dropped' \ dropped # {} =>
              /\ Len(buffer') >= MaxBuffer
              /\ dropped' \ dropped \subseteq Ranges(buffer)
              /\ \A d \in dropped' \ dropped : \A f \in Ranges(buffer') : d < f
<1>1. /\ buffer' = Append(Kept, hand) /\ Ranges(buffer') = Ranges(Kept) \cup {hand}
      /\ dropped' = dropped \cup (Ranges(buffer) \ Ranges(Kept))
      /\ Kept \in Seq(Events) /\ Ranges(Kept) \in SUBSET Ranges(buffer)
      /\ buffer \in Seq(Events) /\ Ranges(Kept) \in SUBSET Events
      /\ Len(buffer') = Len(Kept) + 1
  BY BufferEventKeeps, KeptRange, AppendRange, SeqRange DEF TypeOK
<1>2. hand \notin Ranges(buffer)
  BY DEF Events
<1>3. Cardinality(Ranges(buffer')) = Cardinality(Ranges(Kept)) + 1
  BY <1>1, <1>2, OneMore
<1>4. CASE Kept = buffer
  BY <1>1, <1>3, <1>4 DEF BufferDistinct
<1>5. CASE buffer # <<>> /\ Len(buffer) >= MaxBuffer /\ Kept = Tail(buffer)
  <2>1. /\ Cardinality(Ranges(Kept)) = Len(Kept) /\ Ranges(buffer) \ Ranges(Kept) = {Head(buffer)}
        /\ Len(Kept) = Len(buffer) - 1 /\ Len(buffer) \in Nat
    BY <1>1, <1>5, TailDistinct, TailRange DEF BufferDistinct
  <2>2. BufferDistinct'
    BY <1>1, <1>3, <2>1 DEF BufferDistinct
  <2>3. Len(buffer') >= MaxBuffer
    BY <1>1, <1>5, <2>1, RedisAssumption
  <2>4. Head(buffer) \in Ranges(buffer) /\ \A x \in Ranges(Kept) : Head(buffer) < x
    BY <1>1, <1>5, <2>1, TailIncreasing
  <2>. QED BY <1>1, <2>1, <2>2, <2>3, <2>4
<1>. QED BY <1>4, <1>5 DEF Kept

\* Every step keeps the events of the buffer distinct.
LEMMA DistinctStep == IInv /\ [Next]_vars => BufferDistinct'
<1>. SUFFICES ASSUME IInv, [Next]_vars PROVE BufferDistinct'
  OBVIOUS
<1>. USE DEF channelVars, redisVars, taskVars, historyVars
<1>1. /\ TypeOK /\ Control /\ Ordered /\ BufferDistinct
      /\ Increasing(buffer) /\ buffer \in Seq(Events)
      /\ (hand # 0 <=> hand \in Events)
      /\ hand # 0 => \A e \in Ranges(buffer) : e < hand
  BY OrderedDef DEF IInv, TypeOK, Events
<1>2. CASE buffer' = buffer
  BY <1>1, <1>2 DEF BufferDistinct
<1>3. CASE DrainOne
  <2>1. buffer # <<>> /\ buffer' = Tail(buffer)
    BY <1>1, <1>3 DEF DrainOne, Control
  <2>. QED BY <1>1, <2>1, TailDistinct DEF BufferDistinct
<1>4. CASE DrainFails \/ PublishGivesUp
  <2>1. hand \in Events /\ BufferEvent
    BY <1>1, <1>4 DEF DrainFails, PublishGivesUp, Control
  <2>. QED BY <1>1, <2>1, BufferEventDrops
<1>5. CASE Crash
  <2>1. Ranges(buffer') = {} /\ Len(buffer') = 0
    BY <1>5, EmptyRange DEF Crash
  <2>. QED BY <2>1, FS_EmptySet DEF BufferDistinct
<1>. QED BY <1>2, <1>3, <1>4, <1>5 DEF Next, Step, Send, Close, GoDown, ComeUp, Connect, Receive,
         Lagged, Stop, Publish, PublishRetries, vars

\* NewestKept in terms of sets.
Placed == Ranges(stream) \cup Ranges(buffer) \cup dropped \cup gone

\* What is kept of the newest, with its parts spelled out.
LEMMA NewestDef ==
  NewestKept <=>
    /\ \A e \in 1..(next - 1) : e \in Placed \cup {hand} \cup missed
    /\ \A d \in dropped : \A f \in Ranges(buffer) : d < f
    /\ \A d \in dropped : Cardinality({e \in Placed : e > d}) >= MaxBuffer
BY DEF NewestKept, Placed, Ranges

\* What is placed stays so, and what is dropped gave way to MaxBuffer others.
LEMMA PlacedStep == IInv /\ [Next]_vars => Placed \subseteq Placed'
<1>. SUFFICES ASSUME IInv, [Next]_vars PROVE Placed \subseteq Placed'
  OBVIOUS
<1>. USE DEF channelVars, redisVars, taskVars, historyVars, Placed
<1>1. /\ TypeOK /\ Control /\ stream \in Seq(Events) /\ buffer \in Seq(Events)
      /\ (hand # 0 <=> hand \in Events)
  BY DEF IInv, TypeOK, Events
<1>2. ASSUME NEW e \in Events, stream' \in {stream, Append(stream, e)}
      PROVE  Ranges(stream) \subseteq Ranges(stream')
  BY <1>1, <1>2, AppendRange
<1>3. CASE UNCHANGED <<stream, buffer, dropped, gone>>
  BY <1>3
<1>4. CASE DrainOne
  <2>1. /\ buffer # <<>> /\ buffer' = Tail(buffer) /\ UNCHANGED <<dropped, gone>>
        /\ stream' = Append(stream, Head(buffer))
    BY <1>1, <1>4 DEF DrainOne, Added, Control
  <2>2. Head(buffer) \in Events /\ Ranges(buffer) = Ranges(buffer') \cup {Head(buffer)}
    BY <1>1, <2>1, TailRange
  <2>3. Ranges(stream') = Ranges(stream) \cup {Head(buffer)}
    BY <1>1, <2>1, <2>2, AppendRange
  <2>. QED BY <2>1, <2>2, <2>3
<1>5. CASE DrainFails
  <2>1. /\ buffer # <<>> /\ hand \in Events /\ BufferEvent /\ NotAdded(Head(buffer))
        /\ gone' = gone
    BY <1>1, <1>5 DEF DrainFails, Control
  <2>2. Ranges(stream) \subseteq Ranges(stream')
    BY <1>1, <1>2, <2>1, TailRange, NotAddedAdds
  <2>3. Ranges(buffer) \cup dropped \subseteq Ranges(buffer') \cup dropped'
    BY <1>1, <2>1, BufferEventKeeps
  <2>. QED BY <2>1, <2>2, <2>3
<1>6. CASE Publish \/ PublishRetries
  <2>1. hand \in Events /\ UNCHANGED <<buffer, dropped, gone>>
    BY <1>1, <1>6 DEF Publish, PublishRetries, Control
  <2>2. stream' \in {stream, Append(stream, hand)}
    BY <1>1, <1>6, <2>1, NotAddedAdds DEF Publish, PublishRetries, Added
  <2>. QED BY <1>2, <2>1, <2>2
<1>7. CASE PublishGivesUp
  <2>1. hand \in Events /\ BufferEvent /\ NotAdded(hand) /\ gone' = gone
    BY <1>1, <1>7 DEF PublishGivesUp, Control
  <2>2. Ranges(stream) \subseteq Ranges(stream')
    BY <1>1, <1>2, <2>1, NotAddedAdds
  <2>3. Ranges(buffer) \cup dropped \subseteq Ranges(buffer') \cup dropped'
    BY <1>1, <2>1, BufferEventKeeps
  <2>. QED BY <2>1, <2>2, <2>3
<1>8. CASE Crash
  BY <1>8 DEF Crash
<1>. QED BY <1>3, <1>4, <1>5, <1>6, <1>7, <1>8 DEF Next, Step, Send, Close, GoDown, ComeUp, Connect,
         Receive, Lagged, Stop, vars

\* Of the events received none is lost sight of.
LEMMA CoverStep ==
  IInv /\ [Next]_vars => \A e \in 1..(next' - 1) : e \in Placed' \cup {hand'} \cup missed'
<1>. SUFFICES ASSUME IInv, [Next]_vars
              PROVE  \A e \in 1..(next' - 1) : e \in Placed' \cup {hand'} \cup missed'
  OBVIOUS
<1>. USE DEF channelVars, redisVars, taskVars, historyVars
<1>1. /\ TypeOK /\ Control /\ NewestKept /\ next \in Nat \ {0} /\ sent \in Nat
      /\ (hand # 0 <=> hand \in Events) /\ Placed \subseteq Placed'
  BY PlacedStep DEF IInv, TypeOK, Events
<1>2. \A e \in 1..(next - 1) : e \in Placed' \cup {hand} \cup missed
  BY <1>1, NewestDef
<1>3. CASE next' = next /\ missed' = missed /\ hand' = hand
  BY <1>2, <1>3
<1>4. CASE Send \/ Close \/ GoDown \/ ComeUp \/ Connect \/ Stop \/ DrainOne \/ PublishRetries
           \/ UNCHANGED vars
  BY <1>3, <1>4 DEF Send, Close, GoDown, ComeUp, Connect, Stop, DrainOne, PublishRetries, vars
<1>5. CASE Receive
  <2>1. /\ hand = 0 /\ hand' = next /\ next' = next + 1 /\ missed' = missed
    BY <1>1, <1>5 DEF Receive, Control
  <2>2. \A e \in 1..(next' - 1) : e \in 1..(next - 1) \/ e = hand'
    BY <1>1, <2>1
  <2>3. \A e \in 1..(next - 1) : e # hand
    BY <2>1
  <2>. QED BY <1>2, <2>1, <2>2, <2>3
<1>6. CASE Lagged
  <2>1. /\ next <= sent - Channel /\ next' = sent - Channel + 1
        /\ missed' = missed \cup next..(sent - Channel) /\ hand' = hand
    BY <1>6 DEF Lagged
  <2>2. \A e \in 1..(next' - 1) : e \in 1..(next - 1) \/ e \in next..(sent - Channel)
    BY <1>1, <2>1, RedisAssumption
  <2>. QED BY <1>2, <2>1, <2>2
<1>7. ASSUME next' = next, missed' = missed, hand \in Placed'
      PROVE  \A e \in 1..(next' - 1) : e \in Placed' \cup {hand'} \cup missed'
  BY <1>2, <1>7
<1>8. CASE Publish
  <2>1. hand \in Events /\ stream' = Append(stream, hand) /\ next' = next /\ missed' = missed
    BY <1>1, <1>8 DEF Publish, Added, Control
  <2>2. hand \in Ranges(stream')
    BY <1>1, <2>1, AppendRange DEF TypeOK
  <2>. QED BY <1>7, <2>1, <2>2 DEF Placed
<1>9. CASE DrainFails \/ PublishGivesUp
  <2>1. hand \in Events /\ BufferEvent /\ next' = next /\ missed' = missed
    BY <1>1, <1>9 DEF DrainFails, PublishGivesUp, Control
  <2>2. hand \in Ranges(buffer')
    BY <1>1, <2>1, BufferEventKeeps
  <2>. QED BY <1>7, <2>1, <2>2 DEF Placed
<1>10. CASE Crash
  <2>1. /\ gone' = gone \cup Ranges(buffer) \cup ({hand} \ {0}) \cup next..sent
        /\ next' = sent + 1 /\ missed' = missed
    BY <1>10 DEF Crash
  <2>2. \A e \in 1..(next' - 1) : e # 0 /\ (e \in 1..(next - 1) \/ e \in next..sent)
    BY <1>1, <2>1
  <2>. QED BY <1>2, <2>1, <2>2 DEF Placed
<1>. QED BY <1>4, <1>5, <1>6, <1>8, <1>9, <1>10 DEF Next, Step

\* Every step keeps the newest.
LEMMA NewestStep == IInv /\ [Next]_vars => NewestKept'
<1>. SUFFICES ASSUME IInv, [Next]_vars PROVE NewestKept'
  OBVIOUS
<1>0. ASSUME \A d \in dropped' : \A f \in Ranges(buffer') : d < f,
             \A d \in dropped' : Cardinality({e \in Placed' : e > d}) >= MaxBuffer
      PROVE  NewestKept'
  <2>1. \A e \in 1..(next' - 1) : e \in Placed' \cup {hand'} \cup missed'
    BY CoverStep
  <2>. QED BY <1>0, <2>1 DEF NewestKept, Placed, Ranges
<1>. USE DEF channelVars, redisVars, taskVars, historyVars
<1>1. /\ TypeOK /\ Control /\ Ordered /\ BufferDistinct /\ NewestKept
      /\ Increasing(buffer) /\ buffer \in Seq(Events) /\ stream \in Seq(Events)
      /\ dropped \in SUBSET Events
      /\ (hand # 0 <=> hand \in Events)
      /\ hand # 0 => /\ \A e \in Ranges(buffer) : e < hand
                     /\ \A d \in dropped : d < hand
      /\ Placed \subseteq Placed'
  BY OrderedDef, PlacedStep DEF IInv, TypeOK, Events
<1>2. TypeOK' /\ BufferDistinct'
  BY TypeStep, DistinctStep DEF IInv
<1>3. Placed' \in SUBSET Events
  <2>1. /\ stream' \in Seq(Events) /\ buffer' \in Seq(Events)
        /\ dropped' \subseteq Events /\ gone' \subseteq Events
    BY <1>2 DEF TypeOK
  <2>. QED BY <2>1, SeqRange DEF Placed
\* What was dropped before is followed by as many as before, and older than
\* what has come into the buffer.
<1>4. ASSUME NEW d \in dropped
      PROVE  Cardinality({e \in Placed' : e > d}) >= MaxBuffer
  <2>1. {e \in Placed : e > d} \subseteq {e \in Placed' : e > d}
    BY <1>1
  <2>2. Cardinality({e \in Placed : e > d}) >= MaxBuffer
    BY <1>1, NewestDef
  <2>3. Cardinality({e \in Placed : e > d}) <= Cardinality({e \in Placed' : e > d})
    BY <1>3, <2>1, Fewer
  <2>4. /\ Cardinality({e \in Placed : e > d}) \in Nat
        /\ Cardinality({e \in Placed' : e > d}) \in Nat
    BY <1>1, <1>3, EventSets
  <2>. QED BY <2>2, <2>3, <2>4, RedisAssumption
<1>5. ASSUME Ranges(buffer') \subseteq Ranges(buffer), dropped' = dropped
      PROVE  NewestKept'
  <2>1. \A d \in dropped' : \A f \in Ranges(buffer') : d < f
    BY <1>1, <1>5, NewestDef
  <2>2. \A d \in dropped' : Cardinality({e \in Placed' : e > d}) >= MaxBuffer
    BY <1>4, <1>5
  <2>. QED BY <1>0, <2>1, <2>2
<1>6. CASE UNCHANGED <<buffer, dropped>>
  BY <1>5, <1>6
<1>7. CASE DrainOne
  <2>1. buffer # <<>> /\ buffer' = Tail(buffer) /\ dropped' = dropped
    BY <1>1, <1>7 DEF DrainOne, Control
  <2>. QED BY <1>1, <1>5, <2>1, TailRange
<1>8. CASE DrainFails \/ PublishGivesUp
  <2>1. hand \in Events /\ BufferEvent
    BY <1>1, <1>8 DEF DrainFails, PublishGivesUp, Control
  <2>2. /\ dropped' \ dropped # {} => Len(buffer') >= MaxBuffer
        /\ \A d \in dropped' \ dropped : \A f \in Ranges(buffer') : d < f
        /\ Ranges(buffer') \subseteq Ranges(buffer) \cup {hand}
    <3>1. \A e \in Ranges(buffer) : e < hand
      BY <1>1, <2>1
    <3>2. /\ dropped' \ dropped # {} =>
              /\ Len(buffer') >= MaxBuffer
              /\ \A d \in dropped' \ dropped : \A f \in Ranges(buffer') : d < f
      BY <1>1, <2>1, <3>1, BufferEventDrops
    <3>. QED BY <1>1, <2>1, <3>1, <3>2, BufferEventOrdered
  <2>3. \A d \in dropped' : \A f \in Ranges(buffer') : d < f
    <3>. SUFFICES ASSUME NEW d \in dropped', NEW f \in Ranges(buffer') PROVE d < f
      OBVIOUS
    <3>1. CASE d \in dropped
      <4>1. d < hand /\ \A x \in Ranges(buffer) : d < x
        BY <1>1, <2>1, <3>1, NewestDef
      <4>. QED BY <2>2, <4>1
    <3>2. CASE d \notin dropped
      BY <2>2, <3>2
    <3>. QED BY <3>1, <3>2
  <2>4. ASSUME NEW d \in dropped' \ dropped
        PROVE  Cardinality({e \in Placed' : e > d}) >= MaxBuffer
    <3>1. Ranges(buffer') \subseteq Events /\ d \in Events /\ Len(buffer') \in Nat
      BY <1>2, SeqRange DEF TypeOK
    <3>2. Ranges(buffer') \subseteq {e \in Placed' : e > d}
      BY <2>2, <3>1 DEF Placed, Events
    <3>3. Cardinality(Ranges(buffer')) <= Cardinality({e \in Placed' : e > d})
      BY <1>3, <3>2, Fewer
    <3>4. Cardinality(Ranges(buffer')) >= MaxBuffer
      BY <1>2, <2>2 DEF BufferDistinct
    <3>5. Cardinality({e \in Placed' : e > d}) \in Nat /\ Cardinality(Ranges(buffer')) \in Nat
      BY <1>3, <3>1, EventSets
    <3>. QED BY <3>3, <3>4, <3>5, RedisAssumption
  <2>. QED BY <1>0, <1>4, <2>3, <2>4
<1>9. CASE Crash
  <2>1. Ranges(buffer') = {} /\ dropped' = dropped
    BY <1>9, EmptyRange DEF Crash
  <2>. QED BY <1>5, <2>1
<1>. QED BY <1>6, <1>7, <1>8, <1>9 DEF Next, Step, Send, Close, GoDown, ComeUp, Connect, Receive,
         Lagged, Stop, Publish, PublishRetries, vars

-----------------------------------------------------------------------------
(* The steps: copies *)

\* One entry more of what is tried is covered by the count.
LEMMA AppendCopies ==
  ASSUME TypeOK, CopiesCounted, Due \in Events, stream' = Append(stream, Due)
  PROVE  /\ Len(stream') <= Cardinality(Ranges(stream')) + lost
         /\ Due \in Ranges(stream')
<1>1. /\ stream \in Seq(Events) /\ Len(stream) \in Nat /\ Ranges(stream) \in SUBSET Events
      /\ Len(stream') = Len(stream) + 1 /\ Ranges(stream') = Ranges(stream) \cup {Due}
      /\ lost \in Nat
  BY SeqRange, AppendRange, RedisAssumption DEF TypeOK
<1>2. Cardinality(Ranges(stream)) \in Nat
  BY <1>1, EventSets
<1>3. CASE Due \in Ranges(stream)
  <2>1. Ranges(stream') = Ranges(stream)
    BY <1>1, <1>3
  <2>. QED BY <1>1, <1>2, <1>3, <2>1 DEF CopiesCounted
<1>4. CASE Due \notin Ranges(stream)
  <2>1. Cardinality(Ranges(stream')) = Cardinality(Ranges(stream)) + 1
    BY <1>1, <1>4, OneMore
  <2>. QED BY <1>1, <1>2, <1>4, <2>1 DEF CopiesCounted
<1>. QED BY <1>3, <1>4

\* An attempt that fails keeps the count of what it tried.
LEMMA FailedCopies ==
  ASSUME TypeOK, CopiesCounted, Due \in Events, NotAdded(Due)
  PROVE  Len(stream') + (IF Due \in Ranges(stream') THEN 1 ELSE 0)
           <= Cardinality(Ranges(stream')) + lost'
<1>1. CASE stream' = stream /\ lost' = lost
  BY <1>1 DEF CopiesCounted
<1>2. CASE stream' = Append(stream, Due) /\ lost' = lost + 1
  <2>1. /\ Len(stream') <= Cardinality(Ranges(stream')) + lost
        /\ Due \in Ranges(stream')
    BY <1>2, AppendCopies
  <2>2. stream' \in Seq(Events) /\ lost \in Nat
    BY <1>2, AppendRange, RedisAssumption DEF TypeOK
  <2>3. Len(stream') \in Nat /\ Cardinality(Ranges(stream')) \in Nat
    BY <2>2, SeqRange, EventSets
  <2>. QED BY <1>2, <2>1, <2>2, <2>3
<1>. QED BY <1>1, <1>2, NotAddedAdds

\* What is tried next after a failed drain is the same event, or a newer one
\* that is not in the stream.
LEMMA DueAfterDrain ==
  ASSUME TypeOK, Ordered, buffer # <<>>, hand \in Events, BufferEvent, NotAdded(Due)
  PROVE  Due' = Due \/ Due' \notin Ranges(stream')
<1>1. /\ Increasing(buffer) /\ buffer \in Seq(Events) /\ stream \in Seq(Events)
      /\ Due = Head(buffer) /\ Head(buffer) = buffer[1] /\ Head(buffer) \in Events
      /\ Head(buffer) \in Ranges(buffer) /\ Head(buffer) < hand
      /\ \A x \in Ranges(Tail(buffer)) : Head(buffer) < x
  <2>1. /\ Increasing(buffer) /\ hand # 0 /\ buffer \in Seq(Events) /\ stream \in Seq(Events)
    BY OrderedDef DEF TypeOK, Events
  <2>2. /\ Due = Head(buffer) /\ Head(buffer) = buffer[1] /\ Head(buffer) \in Events
        /\ Head(buffer) \in Ranges(buffer)
    BY <2>1, TailRange DEF Due
  <2>. QED BY <2>1, <2>2, OrderedDef, TailIncreasing
<1>2. /\ buffer' = Append(Kept, hand) /\ buffer' \in Seq(Events) /\ buffer' # <<>>
      /\ Ranges(buffer') = Ranges(Kept) \cup {hand} /\ Kept \in Seq(Events)
  BY BufferEventKeeps, KeptRange
<1>3. Due' = Head(buffer') /\ Head(buffer') = buffer'[1] /\ Head(buffer') \in Ranges(buffer')
  BY <1>2, TailRange DEF Due
<1>4. CASE Kept = buffer
  <2>1. Len(buffer) \in Nat \ {0} /\ \A i \in 1..Len(buffer) : buffer'[i] = buffer[i]
    BY <1>1, <1>2, <1>4, TailRange, AppendProperties
  <2>. QED BY <1>1, <1>3, <2>1
<1>5. CASE Kept = Tail(buffer)
  <2>1. Due < Due' /\ Due' \in Events
    BY <1>1, <1>2, <1>3, <1>5, SeqRange
  <2>2. stream' \in {stream, Append(stream, Due)} /\ \A x \in Ranges(stream) : x <= Due
    BY <1>1, NotAddedAdds, OrderedDef
  <2>3. \A x \in Ranges(stream') : x <= Due
    BY <1>1, <2>2, StreamAppend, OrderedDef
  <2>. QED BY <1>1, <2>1, <2>3 DEF Events
<1>. QED BY <1>4, <1>5 DEF Kept

\* Every step keeps the copies paid for.
LEMMA CopiesStep == IInv /\ [Next]_vars => CopiesCounted'
<1>. SUFFICES ASSUME IInv, [Next]_vars PROVE CopiesCounted'
  OBVIOUS
<1>. USE DEF channelVars, redisVars, taskVars, historyVars
<1>1. /\ TypeOK /\ Control /\ Ordered /\ CopiesCounted
      /\ buffer \in Seq(Events) /\ stream \in Seq(Events)
      /\ Ranges(stream) \in SUBSET Events /\ Ranges(buffer) \in SUBSET Events
      /\ (hand # 0 <=> hand \in Events)
      /\ Len(stream) \in Nat /\ Cardinality(Ranges(stream)) \in Nat /\ lost \in Nat
  BY SeqRange, EventSets, RedisAssumption DEF IInv, TypeOK, Events
<1>2. /\ Len(stream) <= Cardinality(Ranges(stream)) + lost
  BY <1>1 DEF CopiesCounted
<1>3. CASE UNCHANGED <<stream, lost, buffer, hand>>
  BY <1>1, <1>3 DEF CopiesCounted, Due
<1>4. CASE Receive
  <2>1. UNCHANGED <<stream, lost, buffer>> /\ hand' = next /\ next \in Int
    BY <1>1, <1>4 DEF Receive, TypeOK
  <2>2. CASE buffer # <<>>
    BY <1>1, <2>1, <2>2 DEF CopiesCounted, Due
  <2>3. CASE buffer = <<>>
    <3>1. Due' = next /\ \A e \in Ranges(stream) : e < next
      BY <1>1, <2>1, <2>3, OrderedDef DEF Due
    <3>2. Due' \notin Ranges(stream')
      BY <1>1, <2>1, <3>1 DEF Events
    <3>. QED BY <1>1, <1>2, <2>1, <3>2 DEF CopiesCounted
  <2>. QED BY <2>2, <2>3
\* An entry answered: what is tried next is not in the stream.
<1>5. ASSUME Due \in Events, stream' = Append(stream, Due), lost' = lost,
             Due' \notin Ranges(stream')
      PROVE  CopiesCounted'
  <2>1. Len(stream') <= Cardinality(Ranges(stream')) + lost'
    BY <1>1, <1>5, AppendCopies
  <2>2. Len(stream') \in Nat
    BY <1>1, <1>5, AppendRange
  <2>. QED BY <1>5, <2>1, <2>2 DEF CopiesCounted
<1>6. CASE DrainOne
  <2>1. /\ buffer # <<>> /\ hand \in Events /\ hand' = hand /\ lost' = lost
        /\ buffer' = Tail(buffer) /\ Due = Head(buffer)
        /\ stream' = Append(stream, Due)
    BY <1>1, <1>6 DEF DrainOne, Added, Control, Due
  <2>2. Due \in Events /\ Due \in Ranges(buffer) /\ Ranges(Tail(buffer)) \subseteq Events
    BY <1>1, <2>1, TailRange, SeqRange
  <2>3. Due < hand /\ \A x \in Ranges(Tail(buffer)) : Due < x
    BY <1>1, <2>1, <2>2, TailIncreasing, OrderedDef
  <2>4. Due < Due' /\ Due' \in Events
    <3>1. CASE Tail(buffer) = <<>>
      BY <2>1, <2>3, <3>1 DEF Due
    <3>2. CASE Tail(buffer) # <<>>
      <4>1. Due' = Head(Tail(buffer)) /\ Head(Tail(buffer)) \in Ranges(Tail(buffer))
        BY <1>1, <2>1, <3>2, TailRange DEF Due
      <4>. QED BY <2>2, <2>3, <4>1
    <3>. QED BY <3>1, <3>2
  <2>5. \A x \in Ranges(stream') : x <= Due
    BY <1>1, <2>1, <2>2, StreamAppend, OrderedDef
  <2>. QED BY <1>5, <2>1, <2>2, <2>4, <2>5 DEF Events
<1>7. CASE Publish
  <2>1. /\ buffer = <<>> /\ hand \in Events /\ hand' = 0 /\ lost' = lost /\ buffer' = buffer
        /\ Due = hand /\ stream' = Append(stream, Due) /\ Due' = 0
    BY <1>1, <1>7 DEF Publish, Added, Control, Due
  <2>2. Ranges(stream') \subseteq Events
    BY <1>1, <2>1, AppendRange
  <2>. QED BY <1>5, <2>1, <2>2 DEF Events
\* An attempt that failed: what is tried next is the same, or not in the stream.
<1>8. ASSUME Due \in Events, NotAdded(Due), Due' = Due \/ Due' \notin Ranges(stream')
      PROVE  CopiesCounted'
  <2>1. Len(stream') + (IF Due \in Ranges(stream') THEN 1 ELSE 0)
          <= Cardinality(Ranges(stream')) + lost'
    BY <1>1, <1>8, FailedCopies
  <2>2. stream' \in Seq(Events) /\ lost' \in Nat
    <3>1. \/ stream' = stream /\ lost' = lost
          \/ stream' = Append(stream, Due) /\ lost' = lost + 1
      BY <1>1, <1>8, NotAddedAdds
    <3>2. stream \in Seq(Events) /\ lost \in Nat
      BY <1>1
    <3>3. Append(stream, Due) \in Seq(Events)
      BY <1>8, <3>2, AppendRange
    <3>4. lost + 1 \in Nat
      BY <3>2
    <3>. QED BY <3>1, <3>2, <3>3, <3>4
  <2>3. Len(stream') \in Nat /\ Cardinality(Ranges(stream')) \in Nat
    BY <2>2, SeqRange, EventSets
  <2>. QED BY <1>8, <2>1, <2>2, <2>3 DEF CopiesCounted
<1>9. CASE DrainFails
  <2>1. /\ buffer # <<>> /\ hand \in Events /\ BufferEvent /\ Due = Head(buffer)
        /\ NotAdded(Due)
    BY <1>1, <1>9 DEF DrainFails, Control, Due
  <2>2. Due \in Events
    BY <1>1, <2>1, TailRange
  <2>. QED BY <1>1, <1>8, <2>1, <2>2, DueAfterDrain
<1>10. CASE PublishRetries
  <2>1. /\ buffer = <<>> /\ hand \in Events /\ UNCHANGED <<buffer, hand>> /\ Due = hand
        /\ NotAdded(Due) /\ Due' = Due
    BY <1>1, <1>10 DEF PublishRetries, Control, Due
  <2>. QED BY <1>8, <2>1
<1>11. CASE PublishGivesUp
  <2>1. /\ buffer = <<>> /\ hand \in Events /\ BufferEvent /\ Due = hand /\ NotAdded(Due)
    BY <1>1, <1>11 DEF PublishGivesUp, Control, Due
  <2>2. Kept = <<>> /\ buffer' = Append(<<>>, hand)
    BY <1>1, <2>1, BufferEventKeeps DEF Kept
  <2>3. buffer' # <<>> /\ Head(buffer') = hand
    BY <2>1, <2>2
  <2>4. Due' = Due
    BY <2>1, <2>3 DEF Due
  <2>. QED BY <1>8, <2>1, <2>4
<1>12. CASE Crash
  <2>1. buffer' = <<>> /\ hand' = 0 /\ UNCHANGED <<stream, lost>>
    BY <1>12 DEF Crash
  <2>2. Due' = 0 /\ Due' \notin Ranges(stream')
    BY <1>1, <2>1 DEF Due, Events
  <2>. QED BY <1>1, <1>2, <2>1, <2>2 DEF CopiesCounted
<1>. QED BY <1>3, <1>4, <1>6, <1>7, <1>9, <1>10, <1>11, <1>12 DEF Next, Step, Send, Close, GoDown,
         ComeUp, Connect, Lagged, Stop, vars

-----------------------------------------------------------------------------
(* The theorems *)

\* The initial state satisfies the invariant.
LEMMA InitInv == Init => IInv
<1>. SUFFICES ASSUME Init PROVE IInv
  OBVIOUS
<1>1. /\ Ranges(stream) = {} /\ Ranges(buffer) = {} /\ Len(stream) = 0 /\ Len(buffer) = 0
      /\ <<>> \in Seq(Events)
  BY EmptyRange DEF Init
<1>2. TypeOK /\ Control
  BY <1>1, RedisAssumption DEF Init, TypeOK, Control
<1>3. Ordered /\ NewestKept
  BY <1>1 DEF Init, Ordered, StreamInOrder, NewestKept
<1>4. Cardinality({}) = 0
  BY FS_EmptySet
<1>5. BufferDistinct /\ CopiesCounted
  <2>1. /\ Cardinality(Ranges(stream)) = 0 /\ Cardinality(Ranges(buffer)) = 0
        /\ Due \notin Ranges(stream) /\ lost = 0
    BY <1>1, <1>4 DEF Init
  <2>. QED BY <1>1, <2>1 DEF BufferDistinct, CopiesCounted
<1>. QED BY <1>2, <1>3, <1>5 DEF IInv

\* The invariant is inductive.
LEMMA Inductive == IInv /\ [Next]_vars => IInv'
BY TypeStep, OrderStep, DistinctStep, NewestStep, CopiesStep DEF IInv

\* The inductive invariant holds in every reachable state.
THEOREM Invariant == Spec => []IInv
BY InitInv, Inductive, PTL DEF Spec

\* Every variable of the publisher stays in its type.
THEOREM TypeCorrect == Spec => []TypeOK
BY Invariant, PTL DEF IInv

\* Whatever fails, the stream's readers see events in the order in which the
\* indexer broadcast them (publish_with_retry, try_drain_buffer).
THEOREM OrderSafe == Spec => []StreamInOrder
<1>1. IInv => StreamInOrder
  BY DEF IInv, Ordered
<1>. QED BY <1>1, Invariant, PTL

\* What is lost to a full buffer is the oldest, and only as many as do not fit
\* (buffer_event).
THEOREM NewestSafe == Spec => []NewestKept
BY Invariant, PTL DEF IInv

\* The stream has no more copies than there were answers lost
\* (publish, try_drain_buffer).
THEOREM CopiesSafe == Spec => []CopiesExplained
<1>1. IInv => CopiesExplained
  <2>. SUFFICES ASSUME IInv PROVE CopiesExplained
    OBVIOUS
  <2>1. /\ stream \in Seq(Events) /\ CopiesCounted /\ lost \in Nat
    BY RedisAssumption DEF IInv, TypeOK
  <2>2. Len(stream) \in Nat /\ Cardinality(Ranges(stream)) \in Nat
    BY <2>1, SeqRange, EventSets
  <2>. QED BY <2>1, <2>2 DEF CopiesCounted, CopiesExplained
<1>. QED BY <1>1, Invariant, PTL
=============================================================================
