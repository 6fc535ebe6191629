---------------------------- MODULE ServiceProofs ---------------------------
(***************************************************************************)
(* Proofs about what runs around the pipeline: the buffer of a sink and    *)
(* the delivery of SOC events, for any number of sinks, events and starts, *)
(* any size of the queues and any number of retries.                       *)
(***************************************************************************)
EXTENDS Lifespan, SinkBuffer, SocDelivery, SinkTransports, Operations, TrafficProxy,
        ListProofs, FiniteSetTheorems, TLAPS

-----------------------------------------------------------------------------
(***************************************************************************)
(* SinkBuffer.                                                             *)
(***************************************************************************)

Fates == {"none", "queued", "hand", "forwarded", "dropped", "overflowed", "lost", "drained"}
LoopStates == {"off", "getting", "sending", "sleeping"}

\* The events that left the queue are the ones up to this number.
Passed == counter - Len(queue)

BufferTypes ==
    /\ queue \in Seq(Nat) /\ counter \in 0..MaxEntries
    /\ Len(queue) <= counter /\ Len(queue) <= maxsize
    /\ sendLoop \in LoopStates /\ hand \in Nat /\ attempt \in Nat /\ starts \in Nat
    /\ fate \in [Entries -> Fates] /\ sends \in [Entries -> Nat]
    /\ received \in Seq(Nat)

\* The loop holds an event exactly while it sends or sleeps, one that left the
\* queue.
HandOK ==
    /\ hand = 0 <=> sendLoop \in {"off", "getting"}
    /\ hand <= Passed

\* What fate says is where the event is.
FatesAgree ==
    \A e \in Entries :
        /\ fate[e] = "none" <=> e > counter
        /\ fate[e] = "queued" <=> e > Passed /\ e <= counter
        /\ fate[e] = "hand" <=> e = hand

\* The attempts made so far, of the event in hand and of those not yet sent.
SendsCounted ==
    /\ \A e \in Entries : e > Passed => sends[e] = 0
    /\ sendLoop = "sending" => sends[hand] = attempt /\ attempt <= max_retries
    /\ sendLoop = "sleeping" => sends[hand] = attempt + 1 /\ attempt < max_retries

\* The sink has received nothing that is still to be sent.
ReceivedPassed ==
    \A i \in 1..Len(received) :
        received[i] <= Passed /\ (hand # 0 => received[i] <= hand)

BufferInv ==
    /\ BufferTypes /\ HandOK /\ FatesAgree /\ SendsCounted /\ ReceivedPassed
    /\ QueueOrderly

Lost == {e \in Entries : fate[e] = "lost"}

\* The lost events can be counted.
LEMMA LostFinite ==
    ASSUME MaxEntries \in Nat
    PROVE  /\ IsFiniteSet(Lost) /\ Cardinality(Lost) \in Nat
           /\ IsFiniteSet(Lost') /\ Cardinality(Lost') \in Nat
<1>1. IsFiniteSet(Entries)
  BY FS_Interval DEF Entries
<1>2. Lost \subseteq Entries /\ Lost' \subseteq Entries
  BY DEF Lost
<1>3. IsFiniteSet(Lost) /\ IsFiniteSet(Lost')
  BY <1>1, <1>2, FS_Subset
<1> QED BY <1>3, FS_CardinalityType

\* The buffer begins empty.
LEMMA BufferInitInv == BufferInit => BufferInv
<1> SUFFICES ASSUME BufferInit PROVE BufferInv
  OBVIOUS
<1> USE BufferAssumption
<1>1. Len(queue) = 0 /\ Len(received) = 0 /\ counter = 0 /\ hand = 0
  BY DEF BufferInit
<1>2. BufferTypes
  BY <1>1 DEF BufferInit, BufferTypes, Fates, LoopStates
<1>3. HandOK
  BY <1>1 DEF BufferInit, HandOK, Passed
<1>4. FatesAgree
  BY <1>1 DEF BufferInit, FatesAgree, Passed, Entries
<1>5. SendsCounted /\ ReceivedPassed
  BY <1>1 DEF BufferInit, SendsCounted, ReceivedPassed
<1>6. Lost = {}
  BY DEF BufferInit, Lost
<1>7. Cardinality(Lost) = 0
  BY <1>6, FS_EmptySet
<1>8. TasksBalanced
  BY <1>1, <1>7 DEF BufferInit, TasksBalanced, Lost
<1>9. QueueHoldsNewest /\ ReceivedInOrder /\ DroppedAfterAllAttempts
  BY <1>1 DEF BufferInit, QueueHoldsNewest, ReceivedInOrder, DroppedAfterAllAttempts
<1> QED BY <1>2, <1>3, <1>4, <1>5, <1>8, <1>9 DEF BufferInv, QueueOrderly

\* put: a full queue loses its oldest event.
LEMMA PutInv == ASSUME BufferInv, Put PROVE BufferInv'
<1> USE BufferAssumption
<1>t. BufferTypes /\ QueueHoldsNewest /\ TasksBalanced
  BY DEF BufferInv, QueueOrderly
<1>c. /\ counter \in Nat /\ counter' = counter + 1 /\ counter' \in 0..MaxEntries
      /\ counter' \in Entries
  BY <1>t DEF BufferTypes, Put, Entries
<1>u. UNCHANGED <<sendLoop, hand, attempt, starts, sends, received>>
  BY DEF Put
<1>a. ASSUME Len(queue) < maxsize
      PROVE  /\ queue' \in Seq(Nat) /\ Len(queue') = Len(queue) + 1 /\ Len(queue) \in Nat
             /\ \A i \in 1..Len(queue) : queue'[i] = queue[i]
             /\ queue'[Len(queue) + 1] = counter + 1
             /\ Passed' = Passed /\ Passed \in Nat
  <2>1. queue' = Append(queue, counter + 1) /\ queue \in Seq(Nat) /\ Len(queue) <= counter
    BY <1>t, <1>a DEF Put, BufferTypes
  <2>2. /\ queue' \in Seq(Nat) /\ Len(queue') = Len(queue) + 1 /\ Len(queue) \in Nat
        /\ \A i \in 1..Len(queue) : queue'[i] = queue[i]
        /\ queue'[Len(queue) + 1] = counter + 1
    BY <1>c, <2>1
  <2> QED BY <1>c, <2>1, <2>2 DEF Passed
<1>q. /\ queue' \in Seq(Nat) /\ Len(queue') \in Nat
      /\ Len(queue') <= counter' /\ Len(queue') <= maxsize
      /\ counter' - Len(queue') \in Nat /\ Passed <= Passed' /\ Passed' < counter'
      /\ \A i \in 1..Len(queue') : queue'[i] = counter' - (Len(queue') - i)
  <2>1. CASE Len(queue) < maxsize
    <3>1. \A i \in 1..Len(queue) : queue[i] = counter - (Len(queue) - i)
      BY <1>t DEF QueueHoldsNewest
    <3>2. ASSUME NEW i \in 1..Len(queue') PROVE queue'[i] = counter' - (Len(queue') - i)
      <4>1. i \in 1..Len(queue) \/ i = Len(queue) + 1
        BY <1>a, <2>1, <3>2
      <4> QED BY <1>a, <1>c, <2>1, <3>1, <4>1
    <3> QED BY <1>t, <1>a, <1>c, <2>1, <3>2 DEF BufferTypes, Passed
  <2>2. CASE ~(Len(queue) < maxsize)
    <3>1. Len(queue) = maxsize /\ queue # << >> /\ queue \in Seq(Nat) /\ Len(queue) \in Nat
      BY <1>t, <2>2 DEF BufferTypes
    <3>2. queue' = Append(Tail(queue), counter + 1)
      BY <2>2 DEF Put, Evict
    <3>3. /\ Tail(queue) \in Seq(Nat) /\ Len(Tail(queue)) = Len(queue) - 1
          /\ \A i \in 1..(Len(queue) - 1) : Tail(queue)[i] = queue[i + 1]
      BY <3>1
    <3>4. /\ Len(queue') = Len(queue) /\ queue' \in Seq(Nat)
          /\ \A i \in 1..(Len(queue) - 1) : queue'[i] = queue[i + 1]
          /\ queue'[Len(queue)] = counter + 1
      BY <1>c, <3>1, <3>2, <3>3
    <3>5. \A i \in 1..Len(queue) : queue[i] = counter - (Len(queue) - i)
      BY <1>t DEF QueueHoldsNewest
    <3>6. ASSUME NEW i \in 1..Len(queue') PROVE queue'[i] = counter' - (Len(queue') - i)
      <4>1. CASE i = Len(queue)
        BY <1>c, <3>1, <3>4, <4>1
      <4>2. CASE i # Len(queue)
        <5>1. i \in 1..(Len(queue) - 1) /\ i + 1 \in 1..Len(queue) /\ i \in Nat
          BY <3>1, <3>4, <3>6, <4>2
        <5> QED BY <1>c, <3>1, <3>4, <3>5, <5>1
      <4> QED BY <4>1, <4>2
    <3> QED BY <1>t, <1>c, <3>1, <3>4, <3>6 DEF BufferTypes, Passed
  <2> QED BY <2>1, <2>2
<1>f. \* the events that stay in the queue, the new one and the others
      /\ fate' \in [Entries -> Fates]
      /\ fate'[counter'] = "queued"
      /\ \A e \in Entries : e > Passed' /\ e < counter' => fate'[e] = fate[e]
      /\ \A e \in Entries : e <= Passed /\ e # counter' => fate'[e] = fate[e]
      /\ \A e \in Entries : e > Passed /\ e <= Passed' => fate'[e] = "overflowed"
      /\ \A e \in Entries : e > counter' => fate'[e] = fate[e]
      /\ unfinished' = unfinished + Len(queue') - Len(queue)
  <2>1. CASE Len(queue) < maxsize
    <3>1. Len(queue') = Len(queue) + 1 /\ Passed' = Passed
      BY <1>a, <2>1
    <3>2. fate' = [fate EXCEPT ![counter'] = "queued"] /\ unfinished' = unfinished + 1
      BY <1>c, <2>1 DEF Put
    <3>3. unfinished \in Nat
      BY <1>t, LostFinite DEF TasksBalanced, BufferTypes, Lost
    <3> QED BY <1>t, <1>c, <1>q, <3>1, <3>2, <3>3, SMTT(60) DEF BufferTypes, Fates, Passed, Entries
  <2>2. CASE ~(Len(queue) < maxsize)
    <3>1. Len(queue) = maxsize /\ queue # << >> /\ queue \in Seq(Nat) /\ Len(queue) \in Nat
      BY <1>t, <2>2 DEF BufferTypes
    <3>2. queue' = Append(Tail(queue), counter + 1)
      BY <2>2 DEF Put, Evict
    <3>3. Len(queue') = Len(queue)
      BY <1>c, <3>1, <3>2
    <3>4. queue[1] = Passed + 1 /\ Passed \in Nat /\ Passed' = Passed + 1
      BY <1>t, <1>c, <3>1, <3>3 DEF QueueHoldsNewest, Passed, BufferTypes
    <3>5. /\ fate' = [fate EXCEPT ![counter'] = "queued", ![Passed'] = "overflowed"]
          /\ unfinished' = unfinished - 1 + 1
      BY <1>c, <2>2, <3>4 DEF Put, Evict
    <3>6. unfinished \in Nat
      BY <1>t, LostFinite DEF TasksBalanced, BufferTypes, Lost
    <3>7. Passed' \in Nat /\ Passed' < counter' /\ Passed' \in Entries
      BY <1>c, <1>q, <3>4 DEF Entries
    <3>8. fate \in [Entries -> Fates]
      BY <1>t DEF BufferTypes
    <3>9. /\ fate' \in [Entries -> Fates] /\ fate'[counter'] = "queued"
          /\ fate'[Passed'] = "overflowed"
          /\ \A e \in Entries : e # counter' /\ e # Passed' => fate'[e] = fate[e]
      BY <1>c, <3>5, <3>7, <3>8 DEF Fates
    <3>10. \A e \in Entries : e \in Nat
      BY DEF Entries
    <3>11. \A e \in Entries : e > Passed /\ e <= Passed' => e = Passed'
      BY <3>4, <3>10
    <3>12. unfinished' = unfinished + Len(queue') - Len(queue)
      BY <3>1, <3>3, <3>5, <3>6
    <3> QED BY <1>c, <3>4, <3>7, <3>9, <3>10, <3>11, <3>12
  <2> QED BY <2>1, <2>2
<1>n. /\ \A e \in Entries : e \in Nat
      /\ Passed \in Nat /\ Passed' \in Nat /\ hand \in Nat /\ Passed <= counter
      /\ fate \in [Entries -> Fates]
  BY <1>t, <1>c, <1>q DEF BufferTypes, Passed, Entries
<1>1. BufferTypes'
  BY <1>t, <1>c, <1>u, <1>q, <1>f DEF BufferTypes
<1>2. HandOK'
  BY <1>u, <1>q, <1>n DEF BufferInv, HandOK
<1>3. ASSUME NEW e \in Entries
      PROVE  /\ fate'[e] = "none" <=> e > counter'
             /\ fate'[e] = "queued" <=> e > Passed' /\ e <= counter'
             /\ fate'[e] = "hand" <=> e = hand'
  <2>h. /\ fate[e] = "none" <=> e > counter
        /\ fate[e] = "queued" <=> e > Passed /\ e <= counter
        /\ fate[e] = "hand" <=> e = hand
        /\ hand <= Passed /\ hand' = hand
    BY <1>u, <1>3 DEF BufferInv, FatesAgree, HandOK
  <2>1. CASE e = counter'
    BY <1>c, <1>q, <1>f, <1>n, <2>h, <2>1
  <2>2. CASE e # counter' /\ e <= Passed
    BY <1>c, <1>q, <1>f, <1>n, <2>h, <2>2
  <2>3. CASE e > Passed /\ e <= Passed'
    BY <1>c, <1>q, <1>f, <1>n, <2>h, <2>3
  <2>4. CASE e > Passed' /\ e < counter'
    BY <1>c, <1>q, <1>f, <1>n, <2>h, <2>4
  <2>5. CASE e > counter'
    BY <1>c, <1>q, <1>f, <1>n, <2>h, <2>5
  <2> QED BY <1>c, <1>n, <2>1, <2>2, <2>3, <2>4, <2>5
<1>4. FatesAgree'
  BY <1>3 DEF FatesAgree
<1>5. SendsCounted'
  BY <1>u, <1>q, <1>n DEF BufferInv, SendsCounted
<1>6. ReceivedPassed' /\ ReceivedInOrder'
  <2>1. \A i \in 1..Len(received) : received[i] \in Nat
    BY <1>t DEF BufferTypes
  <2> QED BY <1>u, <1>q, <1>n, <2>1 DEF BufferInv, QueueOrderly, ReceivedPassed, ReceivedInOrder
<1>7. QueueHoldsNewest'
  BY <1>q DEF QueueHoldsNewest
<1>8. \A e \in Entries : /\ fate'[e] = "dropped" <=> fate[e] = "dropped"
                         /\ fate'[e] = "lost" <=> fate[e] = "lost"
  <2>1. SUFFICES ASSUME NEW e \in Entries
                 PROVE  /\ fate'[e] = "dropped" <=> fate[e] = "dropped"
                        /\ fate'[e] = "lost" <=> fate[e] = "lost"
    OBVIOUS
  <2>h. /\ fate[e] = "none" <=> e > counter
        /\ fate[e] = "queued" <=> e > Passed /\ e <= counter
    BY <2>1 DEF BufferInv, FatesAgree
  <2>2. CASE e = counter'
    BY <1>c, <1>f, <1>n, <2>h, <2>2
  <2>3. CASE e # counter' /\ e <= Passed
    BY <1>f, <2>3
  <2>4. CASE e > Passed /\ e <= Passed'
    BY <1>c, <1>q, <1>f, <1>n, <2>h, <2>4
  <2>5. CASE e > Passed' /\ e < counter'
    BY <1>f, <2>5
  <2>6. CASE e > counter'
    BY <1>f, <2>6
  <2> QED BY <1>c, <1>n, <2>2, <2>3, <2>4, <2>5, <2>6
<1>9. Lost' = Lost
  BY <1>8 DEF Lost
<1>10. TasksBalanced'
  <2>1. Cardinality(Lost') = Cardinality(Lost) /\ Cardinality(Lost) \in Nat
    BY <1>9, LostFinite
  <2>2. unfinished = Len(queue) + (IF hand = 0 THEN 0 ELSE 1) + Cardinality(Lost)
    BY <1>t DEF TasksBalanced, Lost
  <2>3. unfinished' = Len(queue') + (IF hand' = 0 THEN 0 ELSE 1) + Cardinality(Lost')
    BY <1>t, <1>u, <1>q, <1>f, <2>1, <2>2 DEF BufferTypes
  <2> QED BY <2>3 DEF TasksBalanced, Lost
<1>11. DroppedAfterAllAttempts'
  BY <1>8, <1>u DEF BufferInv, QueueOrderly, DroppedAfterAllAttempts
<1> QED BY <1>1, <1>2, <1>4, <1>5, <1>6, <1>7, <1>10, <1>11 DEF BufferInv, QueueOrderly

\* What Tail does to the queue.
LEMMA QueueTail ==
    ASSUME BufferInv, queue # << >>
    PROVE  /\ Tail(queue) \in Seq(Nat) /\ Len(Tail(queue)) = Len(queue) - 1
           /\ Len(queue) \in Nat /\ Len(queue) >= 1
           /\ \A i \in 1..(Len(queue) - 1) : Tail(queue)[i] = queue[i + 1]
           /\ Head(queue) = Passed + 1 /\ Passed \in Nat /\ Head(queue) \in Entries
           /\ Head(queue) <= counter
<1>1. queue \in Seq(Nat) /\ Len(queue) \in Nat /\ Len(queue) >= 1 /\ Len(queue) <= counter
  BY DEF BufferInv, BufferTypes
<1>2. /\ Tail(queue) \in Seq(Nat) /\ Len(Tail(queue)) = Len(queue) - 1
      /\ \A i \in 1..(Len(queue) - 1) : Tail(queue)[i] = queue[i + 1]
      /\ Head(queue) = queue[1]
  BY <1>1
<1>3. queue[1] = counter - (Len(queue) - 1) /\ counter \in Nat /\ counter <= MaxEntries
  BY <1>1, BufferAssumption DEF BufferInv, QueueOrderly, QueueHoldsNewest, BufferTypes
<1> QED BY <1>1, <1>2, <1>3, BufferAssumption DEF Passed, Entries

\* The loop takes the oldest event.
LEMMA GetInv == ASSUME BufferInv, Get PROVE BufferInv'
<1> USE BufferAssumption
<1>t. BufferTypes /\ QueueHoldsNewest /\ TasksBalanced
  BY DEF BufferInv, QueueOrderly
<1>g. /\ queue # << >> /\ sendLoop = "getting" /\ hand' = Head(queue) /\ queue' = Tail(queue)
      /\ attempt' = 0 /\ sendLoop' = "sending" /\ fate' = [fate EXCEPT ![Head(queue)] = "hand"]
      /\ UNCHANGED <<counter, unfinished, starts, sends, received>>
  BY DEF Get
<1>q. /\ queue' \in Seq(Nat) /\ Len(queue') = Len(queue) - 1
      /\ Len(queue) \in Nat /\ Len(queue) >= 1
      /\ \A i \in 1..(Len(queue) - 1) : queue'[i] = queue[i + 1]
      /\ hand' = Passed + 1 /\ Passed \in Nat /\ hand' \in Entries /\ hand' <= counter
  BY <1>g, QueueTail
<1>p. counter \in Nat /\ Passed' = Passed + 1 /\ hand = 0 /\ \A e \in Entries : e \in Nat
  BY <1>t, <1>g, <1>q DEF BufferTypes, Passed, BufferInv, HandOK, Entries
<1>f. /\ fate' \in [Entries -> Fates] /\ fate'[hand'] = "hand"
      /\ \A e \in Entries : e # hand' => fate'[e] = fate[e]
  BY <1>t, <1>g, <1>q DEF BufferTypes, Fates
<1>1. BufferTypes'
  BY <1>t, <1>g, <1>q, <1>p, <1>f DEF BufferTypes, LoopStates
<1>2. HandOK'
  BY <1>g, <1>q, <1>p DEF HandOK
<1>3. FatesAgree'
  <2>1. SUFFICES ASSUME NEW e \in Entries
                 PROVE  /\ fate'[e] = "none" <=> e > counter'
                        /\ fate'[e] = "queued" <=> e > Passed' /\ e <= counter'
                        /\ fate'[e] = "hand" <=> e = hand'
    BY DEF FatesAgree
  <2>2. /\ fate[e] = "none" <=> e > counter
        /\ fate[e] = "queued" <=> e > Passed /\ e <= counter
        /\ fate[e] = "hand" <=> e = hand
    BY DEF BufferInv, FatesAgree
  <2>3. e \in Nat /\ e # 0
    BY DEF Entries
  <2>4. CASE e = hand'
    BY <1>g, <1>q, <1>p, <1>f, <2>4
  <2>5. CASE e # hand'
    BY <1>g, <1>q, <1>p, <1>f, <2>2, <2>3, <2>5
  <2> QED BY <2>4, <2>5
<1>4. sends'[hand'] = 0
  BY <1>g, <1>q, <1>p DEF BufferInv, SendsCounted
<1>5. SendsCounted'
  BY <1>g, <1>q, <1>p, <1>4 DEF BufferInv, SendsCounted
<1>6. ReceivedPassed' /\ ReceivedInOrder'
  <2>1. \A i \in 1..Len(received) : received[i] \in Nat
    BY <1>t DEF BufferTypes
  <2> QED BY <1>g, <1>q, <1>p, <2>1
          DEF BufferInv, QueueOrderly, ReceivedPassed, ReceivedInOrder
<1>7. QueueHoldsNewest'
  <2>1. SUFFICES ASSUME NEW i \in 1..Len(queue') PROVE queue'[i] = counter' - (Len(queue') - i)
    BY DEF QueueHoldsNewest
  <2>2. i \in 1..(Len(queue) - 1) /\ i + 1 \in 1..Len(queue) /\ i \in Nat
    BY <1>q
  <2>3. queue[i + 1] = counter - (Len(queue) - (i + 1))
    BY <1>t, <2>2 DEF QueueHoldsNewest
  <2> QED BY <1>g, <1>q, <1>p, <2>2, <2>3
<1>8. fate[hand'] = "queued"
  BY <1>q, <1>p DEF BufferInv, FatesAgree
<1>9. Lost' = Lost /\ DroppedAfterAllAttempts'
  BY <1>f, <1>g, <1>8 DEF Lost, BufferInv, QueueOrderly, DroppedAfterAllAttempts
<1>10. TasksBalanced'
  <2>1. Cardinality(Lost') = Cardinality(Lost) /\ Cardinality(Lost) \in Nat
    BY <1>9, LostFinite
  <2>2. unfinished = Len(queue) + (IF hand = 0 THEN 0 ELSE 1) + Cardinality(Lost)
    BY <1>t DEF TasksBalanced, Lost
  <2>3. hand' # 0
    BY <1>q
  <2>4. unfinished' = Len(queue') + (IF hand' = 0 THEN 0 ELSE 1) + Cardinality(Lost')
    BY <1>g, <1>q, <1>p, <2>1, <2>2, <2>3
  <2> QED BY <2>4 DEF TasksBalanced, Lost
<1> QED BY <1>1, <1>2, <1>3, <1>5, <1>6, <1>7, <1>9, <1>10 DEF BufferInv, QueueOrderly

\* What the sink has received after an attempt, received or not.
LEMMA ReceivedOnce ==
    ASSUME BufferInv, sendLoop = "sending", NEW r \in {received, Received}
    PROVE  /\ r \in Seq(Nat)
           /\ \A i \in 1..Len(r) : r[i] <= hand
           /\ \A i, j \in 1..Len(r) : i < j => r[i] <= r[j]
<1>1. /\ received \in Seq(Nat) /\ hand \in Nat /\ hand # 0 /\ Len(received) \in Nat
      /\ \A i \in 1..Len(received) : received[i] \in Nat /\ received[i] <= hand
      /\ \A i, j \in 1..Len(received) : i < j => received[i] <= received[j]
  BY DEF BufferInv, BufferTypes, HandOK, ReceivedPassed, QueueOrderly, ReceivedInOrder
<1>2. CASE r = received
  BY <1>1, <1>2
<1>3. CASE r = Append(received, hand)
  <2>1. /\ r \in Seq(Nat) /\ Len(r) = Len(received) + 1 /\ r[Len(received) + 1] = hand
        /\ \A i \in 1..Len(received) : r[i] = received[i]
    BY <1>1, <1>3
  <2>2. \A i \in 1..Len(r) : i \in 1..Len(received) \/ i = Len(received) + 1
    BY <1>1, <2>1
  <2>3. ASSUME NEW i \in 1..Len(r), NEW j \in 1..Len(r), i < j PROVE r[i] <= r[j]
    <3>1. i \in 1..Len(received) /\ i \in Nat /\ j \in Nat
      BY <1>1, <2>1, <2>3
    <3> QED BY <1>1, <2>1, <2>2, <2>3, <3>1
  <2> QED BY <1>1, <2>1, <2>2, <2>3
<1> QED BY <1>2, <1>3 DEF Received

\* The loop is done with the event: what all three ways out share.
LEMMA HandEmptied ==
    ASSUME BufferInv, sendLoop = "sending", NEW f \in {"forwarded", "dropped"},
           f = "dropped" => LastAttempt,
           sends' = [sends EXCEPT ![hand] = @ + 1], received' \in {received, Received},
           Finish(f), UNCHANGED <<counter, starts>>
    PROVE  BufferInv'
<1> USE BufferAssumption
<1>t. BufferTypes /\ QueueHoldsNewest /\ TasksBalanced
  BY DEF BufferInv, QueueOrderly
<1>g. /\ fate' = [fate EXCEPT ![hand] = f] /\ unfinished' = unfinished - 1 /\ hand' = 0
      /\ sendLoop' = "getting" /\ UNCHANGED <<queue, attempt>>
  BY DEF Finish
<1>p. /\ counter \in Nat /\ Len(queue) \in Nat /\ Passed \in Nat /\ Passed' = Passed
      /\ hand \in Nat /\ hand # 0 /\ hand <= Passed /\ hand \in Entries
      /\ \A e \in Entries : e \in Nat
  BY <1>t, <1>g DEF BufferTypes, Passed, BufferInv, HandOK, Entries
<1>f. /\ fate' \in [Entries -> Fates] /\ fate'[hand] = f
      /\ \A e \in Entries : e # hand => fate'[e] = fate[e]
      /\ f \notin {"none", "queued", "hand", "lost"}
  BY <1>t, <1>g, <1>p DEF BufferTypes, Fates
<1>s. /\ sends' \in [Entries -> Nat] /\ sends'[hand] = sends[hand] + 1
      /\ \A e \in Entries : e # hand => sends'[e] = sends[e]
  BY <1>t, <1>p DEF BufferTypes
<1>r. /\ received' \in Seq(Nat)
      /\ \A i \in 1..Len(received') : received'[i] <= hand
      /\ \A i, j \in 1..Len(received') : i < j => received'[i] <= received'[j]
  BY ReceivedOnce
<1>1. BufferTypes'
  BY <1>t, <1>g, <1>f, <1>s, <1>r DEF BufferTypes, LoopStates
<1>2. HandOK'
  BY <1>g, <1>p DEF HandOK
<1>3. FatesAgree'
  <2>1. SUFFICES ASSUME NEW e \in Entries
                 PROVE  /\ fate'[e] = "none" <=> e > counter'
                        /\ fate'[e] = "queued" <=> e > Passed' /\ e <= counter'
                        /\ fate'[e] = "hand" <=> e = hand'
    BY DEF FatesAgree
  <2>2. /\ fate[e] = "none" <=> e > counter
        /\ fate[e] = "queued" <=> e > Passed /\ e <= counter
        /\ fate[e] = "hand" <=> e = hand
    BY DEF BufferInv, FatesAgree
  <2>3. hand' \notin Entries /\ Passed <= counter
    BY <1>g, <1>p, <1>t DEF Entries, Passed
  <2> QED BY <1>g, <1>p, <1>f, <2>2, <2>3
<1>4. SendsCounted'
  BY <1>g, <1>p, <1>s DEF BufferInv, SendsCounted
<1>5. ReceivedPassed' /\ ReceivedInOrder'
  <2>1. \A i \in 1..Len(received') : received'[i] \in Nat
    BY <1>r
  <2> QED BY <1>g, <1>p, <1>r, <2>1 DEF ReceivedPassed, ReceivedInOrder
<1>6. QueueHoldsNewest'
  BY <1>t, <1>g DEF QueueHoldsNewest
<1>7. DroppedAfterAllAttempts'
  <2>1. f = "dropped" => sends'[hand] = max_retries + 1
    BY <1>t, <1>s DEF BufferInv, SendsCounted, LastAttempt, BufferTypes
  <2> QED BY <1>f, <1>s, <2>1 DEF BufferInv, QueueOrderly, DroppedAfterAllAttempts
<1>8. Lost' = Lost
  <2>1. fate[hand] = "hand"
    BY <1>p DEF BufferInv, FatesAgree
  <2> QED BY <1>f, <2>1 DEF Lost
<1>9. TasksBalanced'
  <2>1. Cardinality(Lost') = Cardinality(Lost) /\ Cardinality(Lost) \in Nat
    BY <1>8, LostFinite
  <2>2. unfinished = Len(queue) + (IF hand = 0 THEN 0 ELSE 1) + Cardinality(Lost)
    BY <1>t DEF TasksBalanced, Lost
  <2>3. unfinished' = Len(queue') + (IF hand' = 0 THEN 0 ELSE 1) + Cardinality(Lost')
    BY <1>g, <1>p, <2>1, <2>2
  <2> QED BY <2>3 DEF TasksBalanced, Lost
<1> QED BY <1>1, <1>2, <1>3, <1>4, <1>5, <1>6, <1>7, <1>9 DEF BufferInv, QueueOrderly

\* A failed attempt that is not the last one.
LEMMA RetryInv ==
    ASSUME BufferInv, sendLoop = "sending", ~LastAttempt,
           sends' = [sends EXCEPT ![hand] = @ + 1], received' \in {received, Received},
           Retry, UNCHANGED <<counter, starts>>
    PROVE  BufferInv'
<1> USE BufferAssumption
<1>t. BufferTypes
  BY DEF BufferInv
<1>g. sendLoop' = "sleeping" /\ UNCHANGED <<queue, hand, attempt, unfinished, fate>>
  BY DEF Retry
<1>p. /\ counter \in Nat /\ Len(queue) \in Nat /\ Passed \in Nat /\ Passed' = Passed
      /\ hand \in Nat /\ hand # 0 /\ hand <= Passed /\ hand \in Entries
      /\ \A e \in Entries : e \in Nat
  BY <1>t, <1>g DEF BufferTypes, Passed, BufferInv, HandOK, Entries
<1>s. /\ sends' \in [Entries -> Nat] /\ sends'[hand] = sends[hand] + 1
      /\ \A e \in Entries : e # hand => sends'[e] = sends[e]
  BY <1>t, <1>p DEF BufferTypes
<1>r. /\ received' \in Seq(Nat)
      /\ \A i \in 1..Len(received') : received'[i] <= hand
      /\ \A i, j \in 1..Len(received') : i < j => received'[i] <= received'[j]
  BY ReceivedOnce
<1>1. BufferTypes'
  BY <1>t, <1>g, <1>s, <1>r DEF BufferTypes, LoopStates
<1>2. HandOK' /\ FatesAgree'
  BY <1>g, <1>p DEF BufferInv, HandOK, FatesAgree
<1>3. sends[hand] = attempt /\ attempt < max_retries
  BY <1>t DEF BufferInv, SendsCounted, LastAttempt, BufferTypes
<1>4. SendsCounted'
  BY <1>g, <1>p, <1>s, <1>3 DEF BufferInv, SendsCounted
<1>5. ReceivedPassed' /\ ReceivedInOrder'
  <2>1. \A i \in 1..Len(received') : received'[i] \in Nat
    BY <1>r
  <2> QED BY <1>g, <1>p, <1>r, <2>1 DEF ReceivedPassed, ReceivedInOrder
<1>6. fate[hand] = "hand"
  BY <1>p DEF BufferInv, FatesAgree
<1>7. QueueHoldsNewest' /\ TasksBalanced' /\ DroppedAfterAllAttempts'
  BY <1>g, <1>s, <1>6
  DEF BufferInv, QueueOrderly, QueueHoldsNewest, TasksBalanced, DroppedAfterAllAttempts
<1> QED BY <1>1, <1>2, <1>4, <1>5, <1>7 DEF BufferInv, QueueOrderly

\* The backoff delay is over, or the buffer is started.
LEMMA WakeStartInv == ASSUME BufferInv, Wake \/ Start PROVE BufferInv'
<1> USE BufferAssumption
<1>t. BufferTypes
  BY DEF BufferInv
<1>1. CASE Wake
  <2>1. /\ sendLoop = "sleeping" /\ attempt' = attempt + 1 /\ sendLoop' = "sending"
        /\ UNCHANGED <<queue, counter, hand, unfinished, starts, fate, sends, received>>
    BY <1>1 DEF Wake
  <2>2. BufferTypes'
    BY <1>t, <2>1 DEF BufferTypes, LoopStates
  <2>3. HandOK' /\ FatesAgree' /\ ReceivedPassed'
    BY <2>1 DEF BufferInv, HandOK, FatesAgree, ReceivedPassed, Passed
  <2>4. SendsCounted'
    BY <1>t, <2>1 DEF BufferInv, SendsCounted, Passed, BufferTypes
  <2>5. QueueOrderly'
    BY <2>1 DEF BufferInv, QueueOrderly, QueueHoldsNewest, ReceivedInOrder,
                DroppedAfterAllAttempts, TasksBalanced
  <2> QED BY <2>2, <2>3, <2>4, <2>5 DEF BufferInv
<1>2. CASE Start
  <2>1. /\ sendLoop = "off" /\ starts' = starts + 1 /\ sendLoop' = "getting"
        /\ UNCHANGED <<queue, counter, hand, attempt, unfinished, fate, sends, received>>
    BY <1>2 DEF Start
  <2>2. BufferTypes'
    BY <1>t, <2>1 DEF BufferTypes, LoopStates
  <2>3. HandOK' /\ FatesAgree' /\ ReceivedPassed' /\ SendsCounted'
    BY <2>1 DEF BufferInv, HandOK, FatesAgree, ReceivedPassed, SendsCounted, Passed
  <2>4. QueueOrderly'
    BY <2>1 DEF BufferInv, QueueOrderly, QueueHoldsNewest, ReceivedInOrder,
                DroppedAfterAllAttempts, TasksBalanced
  <2> QED BY <2>2, <2>3, <2>4 DEF BufferInv
<1> QED BY <1>1, <1>2

\* stop: the event in hand is lost, the queue is drained.
LEMMA StopInv == ASSUME BufferInv, Stop PROVE BufferInv'
<1> USE BufferAssumption
<1>t. BufferTypes /\ QueueHoldsNewest /\ TasksBalanced
  BY DEF BufferInv, QueueOrderly
<1>g. /\ sendLoop # "off" /\ sendLoop' = "off" /\ hand' = 0 /\ queue' = << >>
      /\ unfinished' = unfinished - Len(queue) /\ UNCHANGED <<counter, attempt, starts>>
      /\ fate' = [e \in Entries |-> CASE e = hand -> "lost"
                                     [] fate[e] = "queued" -> "drained"
                                     [] OTHER -> fate[e]]
  BY DEF Stop
<1>p. /\ counter \in Nat /\ Len(queue) \in Nat /\ Passed \in Nat /\ Passed' = counter
      /\ Passed <= counter /\ Len(queue') = 0
      /\ hand \in Nat /\ hand <= Passed /\ (hand # 0 => hand \in Entries)
      /\ \A e \in Entries : e \in Nat /\ e # 0
  BY <1>t, <1>g, SMTT(60) DEF BufferTypes, Passed, BufferInv, HandOK, Entries
<1>a. \A e \in Entries : /\ fate[e] = "none" <=> e > counter
                         /\ fate[e] = "queued" <=> e > Passed /\ e <= counter
                         /\ fate[e] = "hand" <=> e = hand
  BY DEF BufferInv, FatesAgree
<1>f. /\ fate' \in [Entries -> Fates]
      /\ \A e \in Entries : e = hand => fate'[e] = "lost"
      /\ \A e \in Entries : fate[e] = "queued" => fate'[e] = "drained"
      /\ \A e \in Entries : e # hand /\ fate[e] # "queued" => fate'[e] = fate[e]
  <2>1. \A e \in Entries : fate[e] \in Fates
    BY <1>t DEF BufferTypes
  <2>2. \A e \in Entries : e = hand => fate[e] # "queued"
    BY <1>a
  <2>3. \A e \in Entries : /\ e = hand => fate'[e] = "lost"
                           /\ fate[e] = "queued" => fate'[e] = "drained"
                           /\ e # hand /\ fate[e] # "queued" => fate'[e] = fate[e]
    BY <1>g, <2>2
  <2>4. \A e \in Entries : fate'[e] \in Fates
    BY <2>1, <2>3 DEF Fates
  <2>5. fate' = [e \in Entries |-> fate'[e]]
    BY <1>g
  <2>6. fate' \in [Entries -> Fates]
    BY <2>4, <2>5
  <2> QED BY <2>3, <2>6
<1>s. /\ sends' \in [Entries -> Nat]
      /\ \A e \in Entries : e # hand => sends'[e] = sends[e]
      /\ received' \in Seq(Nat)
      /\ \A i \in 1..Len(received') : received'[i] \in Nat /\ received'[i] <= Passed
      /\ \A i, j \in 1..Len(received') : i < j => received'[i] <= received'[j]
  <2>1. CASE UNCHANGED <<sends, received>>
    BY <1>t, <2>1
    DEF BufferTypes, BufferInv, QueueOrderly, ReceivedInOrder, ReceivedPassed
  <2>2. CASE /\ sendLoop = "sending" /\ sends' = [sends EXCEPT ![hand] = @ + 1]
             /\ received' \in {received, Received}
    <3>1. /\ received' \in Seq(Nat)
          /\ \A i \in 1..Len(received') : received'[i] <= hand
          /\ \A i, j \in 1..Len(received') : i < j => received'[i] <= received'[j]
      BY <2>2, ReceivedOnce
    <3>2. \A i \in 1..Len(received') : received'[i] \in Nat
      BY <3>1
    <3>3. sends' \in [Entries -> Nat] /\ \A e \in Entries : e # hand => sends'[e] = sends[e]
      <4>1. sends \in [Entries -> Nat]
        BY <1>t DEF BufferTypes
      <4>2. hand # 0
        BY <2>2 DEF BufferInv, HandOK
      <4> QED BY <1>p, <2>2, <4>1, <4>2
    <3> QED BY <1>p, <3>1, <3>2, <3>3
  <2> QED BY <2>1, <2>2 DEF Stop
<1>1. BufferTypes'
  <2>1. queue' \in Seq(Nat)
    BY <1>g
  <2> QED BY <1>t, <1>g, <1>p, <1>f, <1>s, <2>1 DEF BufferTypes, LoopStates
<1>2. HandOK'
  BY <1>g, <1>p DEF HandOK
<1>3. FatesAgree'
  <2>1. SUFFICES ASSUME NEW e \in Entries
                 PROVE  /\ fate'[e] = "none" <=> e > counter'
                        /\ fate'[e] = "queued" <=> e > Passed' /\ e <= counter'
                        /\ fate'[e] = "hand" <=> e = hand'
    BY DEF FatesAgree
  <2>2. CASE e = hand
    BY <1>g, <1>p, <1>f, <2>2
  <2>3. CASE fate[e] = "queued"
    BY <1>g, <1>p, <1>f, <1>a, <2>3
  <2>4. CASE e # hand /\ fate[e] # "queued"
    BY <1>g, <1>p, <1>f, <1>a, <2>4
  <2> QED BY <2>2, <2>3, <2>4
<1>4. SendsCounted'
  <2>1. \A e \in Entries : e > counter => sends'[e] = 0
    BY <1>p, <1>s DEF BufferInv, SendsCounted
  <2> QED BY <1>g, <1>p, <2>1 DEF SendsCounted
<1>5. ReceivedPassed' /\ ReceivedInOrder'
  BY <1>g, <1>p, <1>s DEF ReceivedPassed, ReceivedInOrder
<1>6. QueueHoldsNewest'
  BY <1>p DEF QueueHoldsNewest
<1>7. DroppedAfterAllAttempts'
  <2>1. \A e \in Entries : fate'[e] = "dropped" => e # hand /\ fate[e] = "dropped"
    BY <1>f
  <2> QED BY <1>s, <2>1 DEF BufferInv, QueueOrderly, DroppedAfterAllAttempts
<1>8. TasksBalanced'
  <2>1. unfinished = Len(queue) + (IF hand = 0 THEN 0 ELSE 1) + Cardinality(Lost)
    BY <1>t DEF TasksBalanced, Lost
  <2>2. IsFiniteSet(Lost) /\ Cardinality(Lost) \in Nat
    BY LostFinite
  <2>3. Cardinality(Lost') = Cardinality(Lost) + (IF hand = 0 THEN 0 ELSE 1)
    <3>1. CASE hand = 0
      <4>1. Lost' = Lost
        BY <1>p, <1>f, <3>1 DEF Lost
      <4> QED BY <2>2, <3>1, <4>1
    <3>2. CASE hand # 0
      <4>1. Lost' = Lost \cup {hand} /\ hand \notin Lost
        BY <1>p, <1>f, <1>a, <3>2 DEF Lost
      <4>2. Cardinality(Lost') = Cardinality(Lost) + 1
        BY <2>2, <4>1, FS_AddElement
      <4> QED BY <3>2, <4>2
    <3> QED BY <3>1, <3>2
  <2>4. unfinished' = Len(queue') + (IF hand' = 0 THEN 0 ELSE 1) + Cardinality(Lost')
    BY <1>g, <1>p, <2>1, <2>2, <2>3
  <2> QED BY <2>4 DEF TasksBalanced, Lost
<1> QED BY <1>1, <1>2, <1>3, <1>4, <1>5, <1>6, <1>7, <1>8 DEF BufferInv, QueueOrderly

\* Every step of the buffer keeps the invariant.
LEMMA BufferStepInv == BufferInv /\ [BufferNext]_bufferVars => BufferInv'
<1> SUFFICES ASSUME BufferInv, [BufferNext]_bufferVars PROVE BufferInv'
  OBVIOUS
<1>1. CASE Send
  <2>1. /\ sendLoop = "sending" /\ sends' = [sends EXCEPT ![hand] = @ + 1]
        /\ received' \in {received, Received} /\ UNCHANGED <<counter, starts>>
        /\ \/ Finish("forwarded")
           \/ LastAttempt /\ Finish("dropped")
           \/ ~LastAttempt /\ Retry
    BY <1>1 DEF Send
  <2>2. CASE Finish("forwarded") \/ (LastAttempt /\ Finish("dropped"))
    BY <2>1, <2>2, HandEmptied
  <2>3. CASE ~LastAttempt /\ Retry
    BY <2>1, <2>3, RetryInv
  <2> QED BY <2>1, <2>2, <2>3
<1>2. CASE UNCHANGED bufferVars
  <2>1. /\ BufferTypes' /\ HandOK' /\ FatesAgree' /\ SendsCounted' /\ ReceivedPassed'
    BY <1>2 DEF bufferVars, BufferInv, BufferTypes, HandOK, FatesAgree, SendsCounted,
                ReceivedPassed, Passed
  <2>2. QueueOrderly'
    BY <1>2 DEF bufferVars, BufferInv, QueueOrderly, QueueHoldsNewest, ReceivedInOrder,
                DroppedAfterAllAttempts, TasksBalanced
  <2> QED BY <2>1, <2>2 DEF BufferInv
<1> QED BY <1>1, <1>2, PutInv, WakeStartInv, GetInv, StopInv DEF BufferNext, BufferDone

\* Where every event is, how often it was sent and what the sink has received.
THEOREM BufferInvariant == BufferSpec => []BufferInv
BY BufferInitInv, BufferStepInv, PTL DEF BufferSpec

\* The queue of a sink over evictions, retries, stops and restarts: no gap, no
\* reordering, no early drop, no task unaccounted for.
THEOREM QueueStaysOrderly == BufferSpec => []QueueOrderly
<1>1. BufferInv => QueueOrderly
  BY DEF BufferInv
<1> QED BY <1>1, BufferInvariant, PTL

-----------------------------------------------------------------------------
(***************************************************************************)
(* SocDelivery.                                                            *)
(***************************************************************************)

SocTypes ==
    /\ phase \in {"starting", "running", "sinks stopped", "stopped"}
    /\ loop \in {"getting", "sending", "off"} /\ next \in Nat \ {0} /\ event \in Nat
    /\ bus \in Seq(Nat) /\ published \in Nat /\ openSinks \subseteq Sinks
    /\ offered \in [Sinks -> Seq(Nat)] /\ delivered \in [Sinks -> SUBSET Nat]

\* In the middle of a fan-out the enabled sinks before the current one have
\* been offered the event on top of what all of them had been offered before.
OfferedSoFar(common) ==
    \A i \in 1..Len(SinkList) :
        SinkList[i] \in Enabled
        => offered[SinkList[i]] = IF i < next THEN Append(common, event) ELSE common

\* An event on its way to the sinks has no content.
FanOutOK ==
    loop = "sending" => event \notin Dirty /\ \E common \in Seq(Nat) : OfferedSoFar(common)

SocInv == SocTypes /\ FanOutOK /\ SinksServedAlike

\* Every enabled sink has its place in the list.
LEMMA SinkPlaces ==
    /\ \A s \in Enabled : \E i \in 1..Len(SinkList) : s = SinkList[i]
    /\ Len(SinkList) \in Nat
    /\ \A i \in 1..Len(SinkList) : SinkList[i] \in Sinks
BY SocAssumption DEF Sinks

\* Nothing has been offered at the start.
LEMMA SocInitInv == SocInit => SocInv
<1> SUFFICES ASSUME SocInit PROVE SocInv
  OBVIOUS
<1>1. SocTypes
  BY DEF SocInit, SocTypes
<1>2. FanOutOK
  BY DEF SocInit, FanOutOK
<1>3. SinksServedAlike
  BY SocAssumption DEF SocInit, SinksServedAlike, ContentNeverForwarded, SinksSeeTheSame
<1> QED BY <1>1, <1>2, <1>3 DEF SocInv

\* The loop takes an event to the sinks, or drops it.
LEMMA ConsumeInv == ASSUME SocInv, Consume PROVE SocInv'
<1>1. /\ SocTypes /\ ContentNeverForwarded /\ SinksSeeTheSame
      /\ loop = "getting" /\ bus # << >> /\ bus' = Tail(bus)
      /\ UNCHANGED <<phase, published, openSinks, offered, delivered>>
  BY DEF SocInv, SinksServedAlike, Consume
<1>2. bus' \in Seq(Nat) /\ Head(bus) \in Nat
  <2>1. bus \in Seq(Nat)
    BY <1>1 DEF SocTypes
  <2> QED BY <1>1, <2>1
<1>3. ContentNeverForwarded'
  BY <1>1 DEF ContentNeverForwarded
<1>4. CASE Normalize(Head(bus)) /\ phase # "starting"
  <2>1. loop' = "sending" /\ event' = Head(bus) /\ next' = 1 /\ event' \notin Dirty
    BY <1>4 DEF Consume, Normalize
  <2>2. SocTypes'
    <3>1. next' \in Nat \ {0} /\ event' \in Nat /\ loop' \in {"getting", "sending", "off"}
      BY <1>2, <2>1
    <3> QED BY <1>1, <1>2, <3>1 DEF SocTypes
  <2>3. \E common \in Seq(Nat) : \A s \in Enabled : offered[s] = common
    <3>1. CASE Enabled = {}
      <4>1. << >> \in Seq(Nat)
        OBVIOUS
      <4> QED BY <3>1, <4>1
    <3>2. CASE Enabled # {}
      <4>1. PICK q \in Enabled : TRUE
        BY <3>2
      <4>2. offered[q] \in Seq(Nat)
        BY <1>1, SocAssumption DEF SocTypes
      <4>3. \A s \in Enabled : offered[s] = offered[q]
        BY <1>1 DEF SinksSeeTheSame
      <4> QED BY <4>2, <4>3
    <3> QED BY <3>1, <3>2
  <2>4. PICK common \in Seq(Nat) : \A s \in Enabled : offered[s] = common
    BY <2>3
  <2>5. \A i \in 1..Len(SinkList) : ~(i < next')
    BY <2>1, SinkPlaces
  <2>6. OfferedSoFar(common)'
    BY <1>1, <2>4, <2>5 DEF OfferedSoFar
  <2>7. FanOutOK'
    BY <2>1, <2>6 DEF FanOutOK
  <2>8. SinksSeeTheSame'
    BY <2>1 DEF SinksSeeTheSame
  <2> QED BY <1>3, <2>2, <2>7, <2>8 DEF SocInv, SinksServedAlike
<1>5. CASE ~(Normalize(Head(bus)) /\ phase # "starting")
  <2>1. UNCHANGED <<loop, event, next>>
    BY <1>5 DEF Consume
  <2> QED BY <1>1, <1>2, <1>3, <2>1
          DEF SocInv, SocTypes, FanOutOK, SinksServedAlike, SinksSeeTheSame
<1> QED BY <1>4, <1>5

\* One sink is offered the event, whether it takes it or fails.
LEMMA SendToSinkInv == ASSUME SocInv, SendToSink PROVE SocInv'
<1> DEFINE s == SinkList[next]
<1>1. /\ SocTypes /\ ContentNeverForwarded /\ loop = "sending" /\ event \notin Dirty
      /\ next \in 1..Len(SinkList) /\ s \in Sinks /\ next \in Nat
      /\ UNCHANGED <<phase, bus, published, openSinks, loop, event>>
  <2>1. /\ SocTypes /\ ContentNeverForwarded /\ loop = "sending" /\ event \notin Dirty
        /\ next <= Len(SinkList)
        /\ UNCHANGED <<phase, bus, published, openSinks, loop, event>>
    BY DEF SocInv, SinksServedAlike, FanOutOK, SendToSink
  <2>2. next \in Nat /\ next # 0
    BY <2>1 DEF SocTypes
  <2>3. next \in 1..Len(SinkList)
    BY <2>1, <2>2, SinkPlaces
  <2> QED BY <2>1, <2>2, <2>3, SinkPlaces
<1>2. next' = next + 1
  BY DEF SendToSink, AfterSend
<1>3. PICK common \in Seq(Nat) : OfferedSoFar(common)
  BY <1>1 DEF SocInv, FanOutOK
<1>4. offered' = IF s \in Enabled THEN [offered EXCEPT ![s] = Append(@, event)] ELSE offered
  BY DEF SendToSink
<1>5. \/ delivered' = delivered
      \/ delivered' = [delivered EXCEPT ![s] = @ \cup {event}]
  BY DEF SendToSink
<1>6. /\ offered \in [Sinks -> Seq(Nat)] /\ delivered \in [Sinks -> SUBSET Nat] /\ event \in Nat
      /\ offered[s] \in Seq(Nat)
  BY <1>1 DEF SocTypes
<1>o. Append(offered[s], event) \in Seq(Nat)
  BY <1>6
<1>7. offered' \in [Sinks -> Seq(Nat)]
  BY <1>1, <1>4, <1>6, <1>o
<1>8. delivered' \in [Sinks -> SUBSET Nat] /\ ContentNeverForwarded'
  BY <1>1, <1>5, <1>6, ZenonT(60) DEF ContentNeverForwarded
<1>9. SocTypes'
  <2>1. next' \in Nat \ {0}
    BY <1>1, <1>2
  <2> QED BY <1>1, <1>7, <1>8, <2>1 DEF SocTypes
<1>10. OfferedSoFar(common)'
  <2>1. SUFFICES ASSUME NEW i \in 1..Len(SinkList), SinkList[i] \in Enabled
                 PROVE  offered'[SinkList[i]] = IF i < next' THEN Append(common, event') ELSE common
    BY DEF OfferedSoFar
  <2>2. /\ offered[SinkList[i]] = IF i < next THEN Append(common, event) ELSE common
        /\ SinkList[i] \in Sinks /\ i \in Nat
    BY <1>3, <2>1, SinkPlaces DEF OfferedSoFar
  <2>3. CASE i = next
    BY <1>1, <1>2, <1>4, <1>6, <2>1, <2>2, <2>3
  <2>4. CASE i # next
    <3>1. SinkList[i] # s
      BY <1>1, <2>4, SocAssumption
    <3>2. offered'[SinkList[i]] = offered[SinkList[i]]
      BY <1>4, <1>6, <2>2, <3>1
    <3>3. i < next' <=> i < next
      BY <1>1, <1>2, <2>2, <2>4
    <3> QED BY <1>1, <2>2, <3>2, <3>3
  <2> QED BY <2>3, <2>4
<1>11. FanOutOK'
  BY <1>1, <1>10 DEF FanOutOK
<1>12. SinksSeeTheSame'
  BY <1>1 DEF SinksSeeTheSame
<1> QED BY <1>8, <1>9, <1>11, <1>12 DEF SocInv, SinksServedAlike

\* When the fan-out ends every enabled sink has been offered the event.
LEMMA FanOutEndsInv == ASSUME SocInv, FanOutEnds PROVE SocInv'
<1>1. /\ SocTypes /\ ContentNeverForwarded /\ loop = "sending" /\ loop' = "getting" /\ event' = 0
      /\ next > Len(SinkList) /\ next \in Nat
      /\ UNCHANGED <<phase, bus, published, openSinks, next, offered, delivered>>
  BY DEF SocInv, SinksServedAlike, FanOutEnds, SocTypes
<1>2. PICK common \in Seq(Nat) : OfferedSoFar(common)
  BY <1>1 DEF SocInv, FanOutOK
<1>3. \A i \in 1..Len(SinkList) : i < next
  BY <1>1, SinkPlaces
<1>4. \A s \in Enabled : offered[s] = Append(common, event)
  BY <1>2, <1>3, SinkPlaces DEF OfferedSoFar
<1>5. SinksSeeTheSame'
  BY <1>1, <1>4 DEF SinksSeeTheSame
<1> QED BY <1>1, <1>5
        DEF SocInv, SocTypes, FanOutOK, SinksServedAlike, ContentNeverForwarded

\* Every step of the event path keeps the invariant.
LEMMA SocStepInv == SocInv /\ [SocNext]_socVars => SocInv'
<1> SUFFICES ASSUME SocInv, [SocNext]_socVars PROVE SocInv'
  OBVIOUS
<1>1. CASE StartAll \/ PublishRaw \/ StopAll \/ StopNormalizer \/ UNCHANGED socVars
  <2>t. SocTypes
    BY DEF SocInv
  <2>1. /\ UNCHANGED <<next, offered, delivered>>
        /\ (loop' = loop /\ event' = event) \/ (loop' = "off" /\ event' = 0)
        /\ phase' \in {phase, "running", "sinks stopped", "stopped"}
    <3>1. CASE PublishRaw
      BY <3>1 DEF PublishRaw
    <3>2. CASE StartAll \/ StopAll \/ StopNormalizer
      BY <3>2 DEF StartAll, StopAll, StopNormalizer
    <3>3. CASE UNCHANGED socVars
      BY <3>3 DEF socVars
    <3> QED BY <1>1, <3>1, <3>2, <3>3
  <2>s. /\ openSinks' = openSinks \/ openSinks' = {} \/ openSinks' = {s \in Sinks : StartSink(s)}
        /\ bus' = bus \/ bus' = << >> \/ bus' = Append(bus, published + 1)
    <3>1. CASE PublishRaw
      BY <3>1 DEF PublishRaw
    <3>2. CASE StartAll \/ StopAll \/ StopNormalizer
      BY <3>2 DEF StartAll, StopAll, StopNormalizer
    <3>3. CASE UNCHANGED socVars
      BY <3>3 DEF socVars
    <3> QED BY <1>1, <3>1, <3>2, <3>3
  <2>p. published' = published \/ published' = published + 1
    BY <1>1 DEF PublishRaw, StartAll, StopAll, StopNormalizer, socVars
  <2>2. bus' \in Seq(Nat) /\ published' \in Nat
    <3>1. published \in Nat /\ bus \in Seq(Nat)
      BY <2>t DEF SocTypes
    <3>2. Append(bus, published + 1) \in Seq(Nat) /\ << >> \in Seq(Nat)
      BY <3>1
    <3>3. bus' \in Seq(Nat)
      <4>1. CASE bus' = Append(bus, published + 1)
        BY <3>2, <4>1
      <4>2. CASE bus' = << >> \/ bus' = bus
        BY <3>1, <3>2, <4>2
      <4> QED BY <2>s, <4>1, <4>2
    <3>4. published' \in Nat
      BY <2>p, <3>1
    <3> QED BY <3>3, <3>4
  <2>3. SocTypes'
    <3>1. openSinks' \subseteq Sinks /\ event' \in Nat /\ loop' \in {"getting", "sending", "off"}
      <4>1. openSinks \subseteq Sinks /\ event \in Nat /\ loop \in {"getting", "sending", "off"}
        BY <2>t DEF SocTypes
      <4>2. event' \in Nat /\ loop' \in {"getting", "sending", "off"}
        <5>1. event' = event \/ event' = 0
          BY <2>1
        <5>2. loop' = loop \/ loop' = "off"
          BY <2>1
        <5> QED BY <4>1, <5>1, <5>2
      <4>3. openSinks' \subseteq Sinks
        BY <2>s, <4>1
      <4> QED BY <4>2, <4>3
    <3>2. phase' \in {"starting", "running", "sinks stopped", "stopped"}
      BY <2>t, <2>1 DEF SocTypes
    <3> QED BY <2>t, <2>1, <2>2, <3>1, <3>2 DEF SocTypes
  <2>4. FanOutOK'
    BY <2>1 DEF SocInv, FanOutOK, OfferedSoFar
  <2>5. SinksServedAlike'
    BY <2>1 DEF SocInv, SinksServedAlike, ContentNeverForwarded, SinksSeeTheSame
  <2> QED BY <2>3, <2>4, <2>5 DEF SocInv
<1> QED BY <1>1, ConsumeInv, SendToSinkInv, FanOutEndsInv DEF SocNext, SocDone

\* What relates the sinks in the middle of a fan-out.
THEOREM SocInvariant == SocSpec => []SocInv
BY SocInitInv, SocStepInv, PTL DEF SocSpec

\* Every enabled sink is offered the same events in the same order, whichever
\* of them fail, and none is ever sent an event with content.
THEOREM SinksAreServedAlike == SocSpec => []SinksServedAlike
<1>1. SocInv => SinksServedAlike
  BY DEF SocInv
<1> QED BY <1>1, SocInvariant, PTL

-----------------------------------------------------------------------------
(***************************************************************************)
(* SinkTransports.                                                         *)
(***************************************************************************)

Sends == [pc : {"token", "post"}, event : SinkEvents, since : Nat]

TransportTypes ==
    /\ remote \in [SinkEvents -> Nat] /\ acked \subseteq SinkEvents /\ clock \in Nat
    /\ sending = NotSending \/ sending \in Sends
    /\ token \in [held : BOOLEAN, expiry : Nat]

\* A request under way has not timed out, and a post of the Sentinel sink
\* carries a token that lasts until it does.
RequestsTimely ==
    kind = "sentinel" /\ sending \in Sends =>
        /\ clock <= sending.since + Timeout
        /\ sending.pc = "post" => sending.since + Timeout < token.expiry

DeliveryInv == TransportTypes /\ RequestsTimely /\ AckedMeansStored

\* A sink at rest is not sending.
LEMMA AtRest == NotSending \notin Sends /\ NotSending.pc = "rest"
<1>1. NotSending.pc = "rest" /\ \A x \in Sends : x.pc # "rest"
  BY DEF NotSending, Sends
<1> QED BY <1>1

\* Nothing is under way at the start.
LEMMA TransportInitInv == TransportInit => DeliveryInv
<1> SUFFICES ASSUME TransportInit PROVE DeliveryInv
  OBVIOUS
<1>1. TransportTypes
  BY DEF TransportInit, TransportTypes, NoToken
<1>2. RequestsTimely
  BY AtRest DEF TransportInit, RequestsTimely
<1>3. AckedMeansStored
  BY DEF TransportInit, AckedMeansStored
<1> QED BY <1>1, <1>2, <1>3 DEF DeliveryInv

\* A step that sends, stores and reports nothing.
LEMMA QuietInv ==
    ASSUME DeliveryInv, UNCHANGED <<kind, sending, remote, acked, token, clock>>
    PROVE  DeliveryInv'
BY DEF DeliveryInv, TransportTypes, RequestsTimely, AckedMeansStored

\* A call ends, whatever the collector has stored: what is reported is stored.
LEMMA CallEnds ==
    ASSUME DeliveryInv, sending' = NotSending, UNCHANGED <<kind, token, clock>>,
           remote' \in [SinkEvents -> Nat], acked' \subseteq SinkEvents,
           \A e \in SinkEvents : remote'[e] >= remote[e],
           \A e \in acked' : e \in acked \/ remote'[e] > 0 \/ kind = "qradar"
    PROVE  DeliveryInv'
<1>1. TransportTypes'
  BY DEF DeliveryInv, TransportTypes
<1>2. RequestsTimely'
  BY AtRest DEF RequestsTimely
<1>3. \A e \in SinkEvents : remote[e] \in Nat /\ remote'[e] \in Nat
  BY DEF DeliveryInv, TransportTypes
<1>4. AckedMeansStored'
  BY <1>3 DEF DeliveryInv, AckedMeansStored
<1> QED BY <1>1, <1>2, <1>4 DEF DeliveryInv

\* Time passes.
LEMMA TickInv == ASSUME DeliveryInv, Tick PROVE DeliveryInv'
<1>1. /\ clock \in Nat /\ clock' = clock + 1
      /\ UNCHANGED <<kind, sending, remote, acked, token>>
      /\ sending.pc \in {"token", "post"} => clock - sending.since < Timeout
  BY DEF Tick, DeliveryInv, TransportTypes
<1>2. TransportTypes' /\ AckedMeansStored'
  BY <1>1 DEF DeliveryInv, TransportTypes, AckedMeansStored
<1>3. ASSUME sending \in Sends, kind = "sentinel"
      PROVE  /\ clock' <= sending.since + Timeout
             /\ sending.pc = "post" => sending.since + Timeout < token.expiry
  <2>1. sending.since \in Nat /\ sending.pc \in {"token", "post"}
    BY <1>3 DEF Sends
  <2>2. sending.pc = "post" => sending.since + Timeout < token.expiry
    BY <1>3 DEF DeliveryInv, RequestsTimely
  <2> QED BY <1>1, <2>1, <2>2, TransportAssumption
<1>4. RequestsTimely'
  BY <1>1, <1>3 DEF RequestsTimely
<1> QED BY <1>2, <1>4 DEF DeliveryInv

\* A call begins: with a token that is good for a while, or to get one.
LEMMA BeginSendInv == ASSUME DeliveryInv, NEW e \in SinkEvents, BeginSend(e) PROVE DeliveryInv'
<1> DEFINE p == IF kind = "sentinel" /\ ~TokenUsable THEN "token" ELSE "post"
<1>1. /\ sending' = [pc |-> p, event |-> e, since |-> clock]
      /\ clock \in Nat /\ token.expiry \in Nat
      /\ UNCHANGED <<kind, remote, acked, token, clock>>
  BY DEF BeginSend, DeliveryInv, TransportTypes
<1>2. sending' \in Sends /\ sending'.since = clock /\ sending'.pc = p
  BY <1>1 DEF Sends
<1>3. TransportTypes' /\ AckedMeansStored'
  BY <1>1, <1>2 DEF DeliveryInv, TransportTypes, AckedMeansStored
<1>4. kind = "sentinel" /\ p = "post" => clock + TokenBuffer < token.expiry
  BY DEF TokenUsable
<1>5. clock <= clock + Timeout /\ (kind = "sentinel" /\ p = "post" => clock + Timeout < token.expiry)
  BY <1>1, <1>4, TransportAssumption
<1>6. RequestsTimely'
  BY <1>1, <1>2, <1>5 DEF RequestsTimely
<1> QED BY <1>3, <1>6 DEF DeliveryInv

\* A token is acquired, or the call ends.
LEMMA AcquireTokenInv == ASSUME DeliveryInv, AcquireToken PROVE DeliveryInv'
<1>1. UNCHANGED <<kind, remote, acked, clock>> /\ sending.pc = "token"
  BY DEF AcquireToken
<1>2. CASE sending' = NotSending /\ UNCHANGED token
  <2>1. /\ remote' \in [SinkEvents -> Nat] /\ acked' \subseteq SinkEvents
        /\ \A e \in SinkEvents : remote'[e] >= remote[e]
    BY <1>1 DEF DeliveryInv, TransportTypes
  <2> QED BY <1>1, <1>2, <2>1, CallEnds
<1>3. CASE /\ token' = [held |-> TRUE, expiry |-> sending.since + TokenLife]
           /\ sending' = [sending EXCEPT !.pc = "post", !.since = clock]
  <2>1. /\ sending \in Sends /\ clock \in Nat /\ sending.since \in Nat
    BY <1>1, AtRest DEF DeliveryInv, TransportTypes, Sends
  <2>2. sending' \in Sends /\ sending'.since = clock /\ sending'.pc = "post"
    BY <1>3, <2>1 DEF Sends
  <2>3. token' \in [held : BOOLEAN, expiry : Nat] /\ token'.expiry = sending.since + TokenLife
    BY <1>3, <2>1, TransportAssumption
  <2>4. TransportTypes' /\ AckedMeansStored'
    BY <1>1, <2>2, <2>3 DEF DeliveryInv, TransportTypes, AckedMeansStored
  <2>5. kind = "sentinel" => clock <= sending.since + Timeout
    BY <2>1 DEF DeliveryInv, RequestsTimely
  <2>6. /\ clock <= clock + Timeout
        /\ kind = "sentinel" => clock + Timeout < sending.since + TokenLife
    BY <2>1, <2>5, TransportAssumption
  <2>7. RequestsTimely'
    BY <1>1, <2>2, <2>3, <2>6 DEF RequestsTimely
  <2> QED BY <2>4, <2>7 DEF DeliveryInv
<1> QED BY <1>2, <1>3 DEF AcquireToken

\* A post: what is reported is stored, also at Elastic.
LEMMA PostInv == ASSUME DeliveryInv, Post PROVE DeliveryInv'
<1> DEFINE e == sending.event
<1>1. /\ UNCHANGED <<kind, token, clock>> /\ sending' = NotSending /\ sending.pc = "post"
  BY DEF Post
<1>2. sending \in Sends /\ e \in SinkEvents /\ remote \in [SinkEvents -> Nat] /\ acked \subseteq SinkEvents
  BY <1>1, AtRest DEF DeliveryInv, TransportTypes, Sends
<1>3. \/ acked' = acked /\ remote' = remote
      \/ remote' = [remote EXCEPT ![e] = @ + 1] /\ acked' \in {acked, acked \union {e}}
  BY DEF Post, Accepted
<1>4. /\ remote' \in [SinkEvents -> Nat] /\ acked' \subseteq SinkEvents
      /\ \A x \in SinkEvents : remote'[x] >= remote[x]
      /\ \A x \in acked' : x \in acked \/ remote'[x] > 0
  <2>1. CASE acked' = acked /\ remote' = remote
    BY <1>2, <2>1
  <2>2. CASE remote' = [remote EXCEPT ![e] = @ + 1] /\ acked' \in {acked, acked \union {e}}
    BY <1>2, <2>2
  <2> QED BY <1>3, <2>1, <2>2
<1> QED BY <1>1, <1>4, CallEnds

\* The QRadar sink connects and writes.
LEMMA LineInv == ASSUME DeliveryInv, EnsureConnection \/ WriteLine PROVE DeliveryInv'
<1> DEFINE e == sending.event
<1>1. /\ UNCHANGED <<kind, token, clock>> /\ sending.pc = "post" /\ kind = "qradar"
  BY DEF EnsureConnection, WriteLine
<1>2. sending \in Sends /\ e \in SinkEvents /\ remote \in [SinkEvents -> Nat] /\ acked \subseteq SinkEvents
  BY <1>1, AtRest DEF DeliveryInv, TransportTypes, Sends
<1>3. CASE sending' = sending /\ remote' = remote /\ acked' = acked
  BY <1>1, <1>3, QuietInv
<1>4. CASE /\ sending' = NotSending
           /\ remote' = remote \/ remote' = [remote EXCEPT ![e] = @ + 1]
           /\ acked' = acked \/ acked' = acked \union {e}
  <2>1. remote' \in [SinkEvents -> Nat] /\ \A x \in SinkEvents : remote'[x] >= remote[x]
    BY <1>2, <1>4
  <2>2. acked' \subseteq SinkEvents
    BY <1>2, <1>4
  <2> QED BY <1>1, <1>4, <2>1, <2>2, CallEnds
<1>5. CASE EnsureConnection
  BY <1>3, <1>4, <1>5 DEF EnsureConnection
<1>6. CASE WriteLine
  BY <1>4, <1>6 DEF WriteLine
<1> QED BY <1>5, <1>6

\* Every step of a sink keeps the invariant.
LEMMA SinkStepInv ==
    DeliveryInv /\ [SinkNext]_<<transportVars, healthVars, built>> => DeliveryInv'
<1> SUFFICES ASSUME DeliveryInv, [SinkNext]_<<transportVars, healthVars, built>>
             PROVE  DeliveryInv'
  OBVIOUS
<1>1. CASE StartTransport \/ StopTransport \/ PeerCloses
  BY <1>1, QuietInv DEF StartTransport, StopTransport, PeerCloses
<1>2. CASE HealthNext \/ ConfigNext \/ UNCHANGED <<transportVars, healthVars, built>>
  BY <1>2, QuietInv
  DEF HealthNext, StartMonitor, StopMonitor, Probe, ConfigNext, BuildSinks, transportVars
<1>3. CASE PostSplunk \/ PostDatadog \/ PostElastic \/ PostSentinel
  BY <1>3, PostInv DEF PostSplunk, PostDatadog, PostElastic, PostSentinel
<1>4. CASE PostWebhook
  <2>1. CASE sending' = NotSending /\ UNCHANGED <<kind, remote, acked, token, clock>>
    <3>1. /\ remote' \in [SinkEvents -> Nat] /\ acked' \subseteq SinkEvents
          /\ \A e \in SinkEvents : remote'[e] >= remote[e]
      BY <2>1 DEF DeliveryInv, TransportTypes
    <3> QED BY <2>1, <3>1, CallEnds
  <2> QED BY <1>4, <2>1, PostInv DEF PostWebhook
<1>5. ASSUME NEW e \in SinkEvents, BeginSend(e) PROVE DeliveryInv'
  BY <1>5, BeginSendInv
<1>6. CASE TransportNext
  BY <1>1, <1>3, <1>4, <1>5, <1>6, TickInv, AcquireTokenInv, LineInv DEF TransportNext
<1> QED BY <1>2, <1>6 DEF SinkNext

\* What is under way, with which token, and what was reported.
THEOREM DeliveryInvariant == SinkSpec => []DeliveryInv
BY TransportInitInv, SinkStepInv, PTL DEF SinkSpec

\* A sink over HTTP reports as delivered only what the collector has stored,
\* through lost answers, stops and documents that exist already, and the
\* Sentinel sink never posts with a token that expires under way.
THEOREM DeliveryIsHonest == SinkSpec => []DeliveryHonest
<1>1. DeliveryInv => DeliveryHonest
  <2> SUFFICES ASSUME DeliveryInv PROVE DeliveryHonest
    OBVIOUS
  <2>1. ASSUME kind = "sentinel", sending.pc = "post" PROVE clock < token.expiry
    <3>1. sending \in Sends /\ sending.since \in Nat /\ clock \in Nat /\ token.expiry \in Nat
      BY <2>1, AtRest DEF DeliveryInv, TransportTypes, Sends
    <3>2. clock <= sending.since + Timeout /\ sending.since + Timeout < token.expiry
      BY <2>1, <3>1 DEF DeliveryInv, RequestsTimely
    <3> QED BY <3>1, <3>2, TransportAssumption
  <2> QED BY <2>1 DEF DeliveryInv, DeliveryHonest, TokenValidOnArrival
<1> QED BY <1>1, DeliveryInvariant, PTL

-----------------------------------------------------------------------------
(***************************************************************************)
(* Lifespan.                                                               *)
(***************************************************************************)

Services == {"proxy", "monitor", "sinks", "normalizer", "webhook", "reloader",
             "audit", "ca", "presidio", "cache"}

\* What the process has by the time n - 1 steps are behind it.
Reached(n) ==
    /\ n > 3 => "cache" \in open
    /\ n > 4 => boot.creds
    /\ n > 5 => boot.prod
    /\ n > 9 => "cache" \in attr /\ (boot.kms = "local" => "kms" \in attr)
    /\ n > 11 /\ boot.mode # "proxy-only" => {"pipeline", "presidio"} \subseteq attr
    /\ n > 12 => "policy" \in attr
    /\ n > 15 => "audit" \in attr /\ "audit" \in open
    /\ n > 17 => "approvals" \in attr
    /\ n > 23 => "proxy" \in attr

\* The services that the first n - 1 stops were for are closed, if app.state
\* knows them.
Closed(n) ==
    \A i \in 1..10 : i < n /\ StopOrder[i] \in attr \cup {"cache"} => StopOrder[i] \notin open

LifeInv ==
    /\ life \in {"boot", "serving", "stopping", "stopped", "failed"}
    /\ open \subseteq Services
    /\ open \subseteq attr \cup {"cache", "sinks"}
    /\ life = "boot" => at \in 1..26 /\ Reached(at)
    /\ life = "serving" => Reached(27)
    /\ life = "stopping" => at \in 1..10 /\ Closed(at)
    /\ CleanStopClosesAll

\* The places of the steps.
LEMMA StepPlaces ==
    /\ Len(Steps) = 26 /\ DOMAIN Steps = 1..26
    /\ Steps[1] = "create_app" /\ Steps[2] = "secrets" /\ Steps[3] = "cache"
    /\ Steps[4] = "provider_credentials" /\ Steps[5] = "production_secrets"
    /\ Steps[6] = "cache_health" /\ Steps[7] = "presidio" /\ Steps[8] = "languages"
    /\ Steps[9] = "kms" /\ Steps[10] = "secret_reloader" /\ Steps[11] = "locale"
    /\ Steps[12] = "policy" /\ Steps[13] = "ca" /\ Steps[14] = "mitm" /\ Steps[15] = "audit"
    /\ Steps[16] = "slo" /\ Steps[17] = "governance" /\ Steps[18] = "gateway"
    /\ Steps[19] = "mcp" /\ Steps[20] = "normalizer" /\ Steps[21] = "sinks"
    /\ Steps[22] = "monitor" /\ Steps[23] = "deployment" /\ Steps[24] = "listen"
    /\ Steps[25] = "trust" /\ Steps[26] = "compliance"
BY DEF Steps

\* The numbers of the places.
LEMMA Places ==
    ASSUME NEW i \in 1..26
    PROVE  \/ i = 1 \/ i = 2 \/ i = 3 \/ i = 4 \/ i = 5 \/ i = 6 \/ i = 7 \/ i = 8 \/ i = 9
           \/ i = 10 \/ i = 11 \/ i = 12 \/ i = 13 \/ i = 14 \/ i = 15 \/ i = 16 \/ i = 17
           \/ i = 18 \/ i = 19 \/ i = 20 \/ i = 21 \/ i = 22 \/ i = 23 \/ i = 24 \/ i = 25
           \/ i = 26
OBVIOUS

\* What a step opens, and what it puts on app.state.
LEMMA StepEffects ==
    ASSUME NEW i \in 1..26
    PROVE  /\ Opens[Steps[i]] =
                IF i = 3 THEN {"cache"} ELSE IF i = 10 THEN {"reloader"}
                ELSE IF i = 11 THEN {"presidio"} ELSE IF i = 13 THEN {"ca"}
                ELSE IF i = 15 THEN {"audit"} ELSE IF i = 16 THEN {"webhook"}
                ELSE IF i = 20 THEN {"normalizer"} ELSE IF i = 21 THEN {"sinks"}
                ELSE IF i = 22 THEN {"monitor"} ELSE IF i = 24 THEN {"proxy"} ELSE {}
           /\ Attrs[Steps[i]] =
                IF i = 3 \/ i = 21 \/ i = 24 THEN {}
                ELSE IF i = 9 THEN {"cache", "kms"} ELSE IF i = 11 THEN {"presidio", "pipeline"}
                ELSE IF i = 12 THEN {"policy"} ELSE IF i = 17 THEN {"approvals"}
                ELSE IF i = 22 THEN {"sinks", "monitor"} ELSE IF i = 23 THEN {"proxy"}
                ELSE Opens[Steps[i]]
<1>1. Steps[i] \in {Steps[j] : j \in DOMAIN Steps}
  BY StepPlaces
<1>2. Opens[Steps[i]] =
    CASE Steps[i] = "cache" -> {"cache"}       [] Steps[i] = "secret_reloader" -> {"reloader"}
      [] Steps[i] = "locale" -> {"presidio"}   [] Steps[i] = "ca" -> {"ca"}
      [] Steps[i] = "audit" -> {"audit"}       [] Steps[i] = "slo" -> {"webhook"}
      [] Steps[i] = "normalizer" -> {"normalizer"} [] Steps[i] = "sinks" -> {"sinks"}
      [] Steps[i] = "monitor" -> {"monitor"}   [] Steps[i] = "listen" -> {"proxy"}
      [] OTHER -> {}
  BY <1>1 DEF Opens
<1>3. Steps[i] \in DOMAIN Opens
  BY <1>1 DEF Opens
<1>4. Attrs[Steps[i]] =
    CASE Steps[i] = "cache" -> {}              [] Steps[i] = "locale" -> {"presidio", "pipeline"}
      [] Steps[i] = "policy" -> {"policy"}     [] Steps[i] = "kms" -> {"cache", "kms"}
      [] Steps[i] = "governance" -> {"approvals"}
      [] Steps[i] = "sinks" -> {}              [] Steps[i] = "monitor" -> {"sinks", "monitor"}
      [] Steps[i] = "deployment" -> {"proxy"}  [] Steps[i] = "listen" -> {}
      [] OTHER -> Opens[Steps[i]]
  BY <1>3 DEF Attrs
<1>5. /\ (Steps[i] = "cache" <=> i = 3)          /\ (Steps[i] = "secret_reloader" <=> i = 10)
      /\ (Steps[i] = "locale" <=> i = 11)        /\ (Steps[i] = "ca" <=> i = 13)
      /\ (Steps[i] = "audit" <=> i = 15)         /\ (Steps[i] = "slo" <=> i = 16)
      /\ (Steps[i] = "normalizer" <=> i = 20)    /\ (Steps[i] = "sinks" <=> i = 21)
      /\ (Steps[i] = "monitor" <=> i = 22)       /\ (Steps[i] = "listen" <=> i = 24)
      /\ (Steps[i] = "policy" <=> i = 12)        /\ (Steps[i] = "kms" <=> i = 9)
      /\ (Steps[i] = "governance" <=> i = 17)    /\ (Steps[i] = "deployment" <=> i = 23)
  BY StepPlaces, Places
<1>6. Opens[Steps[i]] =
                IF i = 3 THEN {"cache"} ELSE IF i = 10 THEN {"reloader"}
                ELSE IF i = 11 THEN {"presidio"} ELSE IF i = 13 THEN {"ca"}
                ELSE IF i = 15 THEN {"audit"} ELSE IF i = 16 THEN {"webhook"}
                ELSE IF i = 20 THEN {"normalizer"} ELSE IF i = 21 THEN {"sinks"}
                ELSE IF i = 22 THEN {"monitor"} ELSE IF i = 24 THEN {"proxy"} ELSE {}
  BY <1>2, <1>5
<1>7. Attrs[Steps[i]] =
                IF i = 3 \/ i = 21 \/ i = 24 THEN {}
                ELSE IF i = 9 THEN {"cache", "kms"} ELSE IF i = 11 THEN {"presidio", "pipeline"}
                ELSE IF i = 12 THEN {"policy"} ELSE IF i = 17 THEN {"approvals"}
                ELSE IF i = 22 THEN {"sinks", "monitor"} ELSE IF i = 23 THEN {"proxy"}
                ELSE Opens[Steps[i]]
  BY <1>4, <1>5
<1> QED BY <1>6, <1>7

\* Which steps a deployment may pass over or is refused at, and which may fail.
LEMMA StepGuards ==
    ASSUME NEW i \in 1..26
    PROVE  /\ Skipped(Steps[i]) => i \in {10, 11, 14, 24}
           /\ Skipped(Steps[i]) /\ i = 11 => boot.mode = "proxy-only"
           /\ ~Refused(Steps[i]) /\ i = 4 => boot.creds
           /\ ~Refused(Steps[i]) /\ i = 5 => boot.prod
           /\ Steps[i] \in Tolerated => i \in {19, 20, 21, 22, 25}
           /\ Steps[i] = "sinks" <=> i = 21
           /\ Steps[i] = "presidio" <=> i = 7
<1>1. /\ (Steps[i] = "secret_reloader" => i = 10) /\ (Steps[i] = "presidio" <=> i = 7)
      /\ (Steps[i] = "locale" => i = 11)        /\ (Steps[i] = "mitm" => i = 14)
      /\ (Steps[i] = "listen" => i = 24)        /\ (Steps[i] = "mcp" => i = 19)
      /\ (Steps[i] = "normalizer" => i = 20)    /\ (Steps[i] = "sinks" <=> i = 21)
      /\ (Steps[i] = "monitor" => i = 22)       /\ (Steps[i] = "trust" => i = 25)
  BY StepPlaces, Places
<1> QED BY <1>1, StepPlaces DEF Skipped, Refused, Tolerated

\* The process begins with nothing.
LEMMA LifeInitInv == LifeInit => LifeInv
BY DEF LifeInit, LifeInv, Reached, CleanStopClosesAll

\* The steps open and register services; reaching the next step needs only
\* what this one did.
LEMMA ReachedNext ==
    ASSUME NEW i \in 1..26, Reached(i), boot' = boot,
           open \subseteq open', attr \ NotImplemented \subseteq attr',
           i = 3 => "cache" \in open',
           i = 4 => boot.creds,
           i = 5 => boot.prod,
           i = 9 => "cache" \in attr' /\ (boot.kms = "local" => "kms" \in attr'),
           i = 11 /\ boot.mode # "proxy-only" => {"pipeline", "presidio"} \subseteq attr',
           i = 12 => "policy" \in attr',
           i = 15 => "audit" \in attr' /\ "audit" \in open',
           i = 17 => "approvals" \in attr',
           i = 23 => "proxy" \in attr'
    PROVE  /\ "cache" \in attr => "cache" \in attr'
           /\ i + 1 > 3 => "cache" \in open'
           /\ i + 1 > 4 => boot.creds
           /\ i + 1 > 5 => boot.prod
           /\ i + 1 > 9 => "cache" \in attr' /\ (boot.kms = "local" => "kms" \in attr')
           /\ i + 1 > 11 /\ boot.mode # "proxy-only" => {"pipeline", "presidio"} \subseteq attr'
           /\ i + 1 > 12 => "policy" \in attr'
           /\ i + 1 > 15 => "audit" \in attr' /\ "audit" \in open'
           /\ i + 1 > 17 => "approvals" \in attr'
           /\ i + 1 > 23 => "proxy" \in attr'
<1>1. \A n \in Nat : i + 1 > n <=> i > n \/ i = n
  OBVIOUS
<1>2. \A x \in attr : x # "kms" \/ boot.kms = "local" => x \in attr'
  BY DEF NotImplemented
<1>3. /\ i > 3 => "cache" \in open
      /\ i > 4 => boot.creds
      /\ i > 5 => boot.prod
      /\ i > 9 => "cache" \in attr /\ (boot.kms = "local" => "kms" \in attr)
      /\ i > 11 /\ boot.mode # "proxy-only" => {"pipeline", "presidio"} \subseteq attr
      /\ i > 12 => "policy" \in attr
      /\ i > 15 => "audit" \in attr /\ "audit" \in open
      /\ i > 17 => "approvals" \in attr
      /\ i > 23 => "proxy" \in attr
  BY DEF Reached
<1>4. i \in Nat
  OBVIOUS
<1> QED BY <1>1, <1>2, <1>3, <1>4

\* A bootstrap function returns.
LEMMA StepDoneInv == ASSUME LifeInv, StepDone PROVE LifeInv'
<1>1. /\ at \in 1..26 /\ Reached(at) /\ life = "boot" /\ at' = at + 1 /\ boot' = boot
      /\ life' = IF at = 26 THEN "serving" ELSE "boot"
      /\ open \subseteq Services /\ open \subseteq attr \cup {"cache", "sinks"}
  BY StepPlaces DEF LifeInv, StepDone, Advance
<1>n. NotImplemented \subseteq {"kms"} /\ (boot.kms = "local" => NotImplemented = {})
  BY DEF NotImplemented
<1>2. CASE Skipped(Here)
  <2>1. UNCHANGED <<open, attr>> /\ at \in {10, 11, 14, 24} /\ (at = 11 => boot.mode = "proxy-only")
    BY <1>1, <1>2, StepGuards DEF StepDone, Here
  <2>2. Reached(at)' /\ at < 26
    BY <1>1, <2>1 DEF Reached
  <2> QED BY <1>1, <2>1, <2>2 DEF LifeInv, CleanStopClosesAll
<1>3. CASE ~Skipped(Here)
  <2>1. /\ open' = open \union Opens[Steps[at]]
        /\ attr' = (attr \union Attrs[Steps[at]]) \ NotImplemented
        /\ ~Refused(Steps[at])
    BY <1>3 DEF StepDone, Here
  <2>o. Opens[Steps[at]] =
                IF at = 3 THEN {"cache"} ELSE IF at = 10 THEN {"reloader"}
                ELSE IF at = 11 THEN {"presidio"} ELSE IF at = 13 THEN {"ca"}
                ELSE IF at = 15 THEN {"audit"} ELSE IF at = 16 THEN {"webhook"}
                ELSE IF at = 20 THEN {"normalizer"} ELSE IF at = 21 THEN {"sinks"}
                ELSE IF at = 22 THEN {"monitor"} ELSE IF at = 24 THEN {"proxy"} ELSE {}
    BY <1>1, StepEffects
  <2>a. Attrs[Steps[at]] =
                IF at = 3 \/ at = 21 \/ at = 24 THEN {}
                ELSE IF at = 9 THEN {"cache", "kms"} ELSE IF at = 11 THEN {"presidio", "pipeline"}
                ELSE IF at = 12 THEN {"policy"} ELSE IF at = 17 THEN {"approvals"}
                ELSE IF at = 22 THEN {"sinks", "monitor"} ELSE IF at = 23 THEN {"proxy"}
                ELSE Opens[Steps[at]]
    BY <1>1, StepEffects
  <2>2. open' \subseteq Services
    BY <1>1, <2>1, <2>o DEF Services
  <2>3. open' \subseteq attr' \cup {"cache", "sinks"}
    <3>1. at = 24 => "proxy" \in attr
      BY <1>1 DEF Reached
    <3>2. "kms" \notin open
      BY <1>1 DEF Services
    <3>3. Opens[Steps[at]] \subseteq attr \cup Attrs[Steps[at]] \cup {"cache", "sinks"}
      BY <2>o, <2>a, <3>1
    <3>4. "kms" \notin Opens[Steps[at]]
      BY <2>o
    <3> QED BY <1>1, <1>n, <2>1, <3>2, <3>3, <3>4
  <2>4. /\ at = 3 => "cache" \in open'
        /\ at = 4 => boot.creds
        /\ at = 5 => boot.prod
        /\ at = 9 => "cache" \in attr' /\ (boot.kms = "local" => "kms" \in attr')
        /\ at = 11 => {"pipeline", "presidio"} \subseteq attr'
        /\ at = 12 => "policy" \in attr'
        /\ at = 15 => "audit" \in attr' /\ "audit" \in open'
        /\ at = 17 => "approvals" \in attr'
        /\ at = 23 => "proxy" \in attr'
    <3>1. at = 4 => boot.creds
      BY <1>1, <2>1, StepGuards
    <3>2. at = 5 => boot.prod
      BY <1>1, <2>1, StepGuards
    <3>3. at = 3 => "cache" \in open'
      BY <2>1, <2>o
    <3>4. at = 9 => "cache" \in attr' /\ (boot.kms = "local" => "kms" \in attr')
      BY <1>n, <2>1, <2>a
    <3>5. /\ at = 11 => {"pipeline", "presidio"} \subseteq attr'
          /\ at = 12 => "policy" \in attr'
          /\ at = 17 => "approvals" \in attr'
          /\ at = 23 => "proxy" \in attr'
      BY <1>n, <2>1, <2>a
    <3>6. at = 15 => "audit" \in attr' /\ "audit" \in open'
      BY <1>n, <2>1, <2>a, <2>o
    <3> QED BY <3>1, <3>2, <3>3, <3>4, <3>5, <3>6
  <2>5. open \subseteq open' /\ attr \ NotImplemented \subseteq attr'
    BY <2>1
  <2>6. Reached(at)'
    BY <1>1, <2>4, <2>5, ReachedNext DEF Reached
  <2>7. at = 26 => Reached(27)'
    BY <1>1, <2>6 DEF Reached
  <2>8. at # 26 => at' \in 1..26
    BY <1>1
  <2> QED BY <1>1, <2>2, <2>3, <2>6, <2>7, <2>8 DEF LifeInv, CleanStopClosesAll
<1> QED BY <1>2, <1>3

\* The start is given up.
LEMMA FailInv == ASSUME LifeInv, NEW closing, Fail(closing) PROVE LifeInv'
BY DEF LifeInv, Fail, CleanStopClosesAll

\* A bootstrap function raises.
LEMMA StepRaisesInv == ASSUME LifeInv, StepRaises PROVE LifeInv'
<1>1. CASE Here \in Tolerated
  <2>1. /\ life = "boot" /\ at \in 1..26 /\ Reached(at) /\ Here = Steps[at]
        /\ at' = (IF Here = "sinks" THEN at + 2 ELSE at + 1)
        /\ open' \in {open, open \union (Opens[Here] \intersect {"sinks"})}
        /\ UNCHANGED <<boot, life, attr>>
    BY <1>1 DEF LifeInv, StepRaises, Here
  <2>2. at \in {19, 20, 21, 22, 25} /\ (Here = "sinks" <=> at = 21)
    BY <1>1, <2>1, StepGuards
  <2>3. open \subseteq open' /\ open' \subseteq open \cup {"sinks"}
    BY <2>1
  <2>4. at' \in 1..26 /\ at' > 17 /\ (at' > 23 => at > 23 \/ at = 23)
    BY <2>1, <2>2
  <2>5. at > 17 /\ (at' > 23 => at > 23)
    BY <2>1, <2>2
  <2>6. Reached(at)'
    BY <2>1, <2>3, <2>4, <2>5 DEF Reached
  <2> QED BY <2>1, <2>3, <2>4, <2>6 DEF LifeInv, Services, CleanStopClosesAll
<1>2. CASE Here \notin Tolerated
  <2>1. \E english \in BOOLEAN : Fail(Here \in ClosesCache \/ (Here = "locale" /\ ~english))
    BY <1>2 DEF StepRaises
  <2> QED BY <2>1, FailInv
<1> QED BY <1>1, <1>2

\* Presidio answers, or has not yet.
LEMMA PresidioInv == ASSUME LifeInv, PresidioAnswers \/ PresidioSilent PROVE LifeInv'
<1>1. /\ life = "boot" /\ at = 7 /\ Reached(at) /\ UNCHANGED <<boot, open, attr>>
      /\ at' \in {7, 8} /\ life' = "boot"
  BY StepPlaces, StepGuards DEF LifeInv, PresidioAnswers, PresidioSilent, Advance, Here
<1>2. Reached(at)'
  BY <1>1 DEF Reached
<1> QED BY <1>1, <1>2 DEF LifeInv, CleanStopClosesAll

\* The order of the stops names every service.
LEMMA StopPlaces ==
    /\ Len(StopOrder) = 10
    /\ \A x \in Services : \E i \in 1..10 : StopOrder[i] = x
    /\ \A i \in 1..10 : StopOrder[i] \in Services
<1>1. /\ Len(StopOrder) = 10
      /\ StopOrder[1] = "proxy" /\ StopOrder[2] = "monitor" /\ StopOrder[3] = "sinks"
      /\ StopOrder[4] = "normalizer" /\ StopOrder[5] = "webhook" /\ StopOrder[6] = "reloader"
      /\ StopOrder[7] = "audit" /\ StopOrder[8] = "ca" /\ StopOrder[9] = "presidio"
      /\ StopOrder[10] = "cache"
  BY DEF StopOrder
<1>2. \A i \in 1..10 : \/ i = 1 \/ i = 2 \/ i = 3 \/ i = 4 \/ i = 5
                       \/ i = 6 \/ i = 7 \/ i = 8 \/ i = 9 \/ i = 10
  OBVIOUS
<1>3. \A i \in 1..10 : StopOrder[i] \in Services
  BY <1>1, <1>2 DEF Services
<1>4. /\ 1 \in 1..10 /\ 2 \in 1..10 /\ 3 \in 1..10 /\ 4 \in 1..10 /\ 5 \in 1..10
      /\ 6 \in 1..10 /\ 7 \in 1..10 /\ 8 \in 1..10 /\ 9 \in 1..10 /\ 10 \in 1..10
  OBVIOUS
<1>5. \A x \in Services : \E i \in 1..10 : StopOrder[i] = x
  BY <1>1, <1>4 DEF Services
<1> QED BY <1>1, <1>3, <1>5

\* The shutdown, service by service.
LEMMA ShutdownInv == ASSUME LifeInv, SignalStop \/ StopOne \/ StopRaises PROVE LifeInv'
<1>1. CASE SignalStop
  <2>1. life' = "stopping" /\ at' = 1 /\ UNCHANGED <<boot, open, attr>>
    BY <1>1 DEF SignalStop
  <2>2. Closed(1)'
    BY DEF Closed
  <2> QED BY <2>1, <2>2 DEF LifeInv, CleanStopClosesAll
<1>2. CASE StopRaises
  BY <1>2 DEF StopRaises, LifeInv, CleanStopClosesAll
<1>3. CASE StopOne
  <2>1. /\ life = "stopping" /\ at \in 1..10 /\ Closed(at) /\ at' = at + 1
        /\ open' = (IF StopOrder[at] \in attr \union {"cache"} THEN open \ {StopOrder[at]} ELSE open)
        /\ life' = (IF at = 10 THEN "stopped" ELSE "stopping")
        /\ UNCHANGED <<boot, attr, broke>>
        /\ open \subseteq Services /\ open \subseteq attr \cup {"cache", "sinks"}
    BY <1>3, StopPlaces DEF StopOne, LifeInv
  <2>2. open' \subseteq open
    BY <2>1
  <2>3. \A i \in 1..10 : i < at + 1 <=> i < at \/ i = at
    BY <2>1
  <2>4. Closed(at)'
    <3>1. SUFFICES ASSUME NEW i \in 1..10, i < at + 1, StopOrder[i] \in attr \cup {"cache"}
                   PROVE  StopOrder[i] \notin open'
      BY <2>1 DEF Closed
    <3>2. CASE i = at
      BY <2>1, <3>1, <3>2
    <3>3. CASE i < at
      BY <2>1, <2>2, <3>1, <3>3 DEF Closed
    <3> QED BY <2>3, <3>1, <3>2, <3>3
  <2>5. at = 10 => open' \subseteq (IF "sinks" \in attr THEN {} ELSE {"sinks"})
    <3>1. SUFFICES ASSUME at = 10, NEW x \in open' PROVE x = "sinks" /\ "sinks" \notin attr
      OBVIOUS
    <3>2. PICK i \in 1..10 : StopOrder[i] = x
      BY <2>1, <2>2, StopPlaces
    <3>3. x \notin attr \cup {"cache"}
      <4>1. i < at + 1
        BY <3>1
      <4> QED BY <2>1, <2>4, <3>1, <3>2, <4>1 DEF Closed
    <3> QED BY <2>1, <2>2, <3>1, <3>3
  <2>6. CleanStopClosesAll'
    BY <2>1, <2>5 DEF CleanStopClosesAll
  <2>7. open' \subseteq Services /\ open' \subseteq attr' \cup {"cache", "sinks"}
    BY <2>1, <2>2
  <2>8. life' = "stopping" => at' \in 1..10
    BY <2>1
  <2> QED BY <2>1, <2>4, <2>6, <2>7, <2>8 DEF LifeInv
<1> QED BY <1>1, <1>2, <1>3

\* Every step of the process keeps the invariant.
LEMMA LifeStepInv == LifeInv /\ [LifeNext]_lifeVars => LifeInv'
<1> SUFFICES ASSUME LifeInv, [LifeNext]_lifeVars PROVE LifeInv'
  OBVIOUS
<1>1. ASSUME UNCHANGED <<boot, life, at, tries, open, attr, broke>> PROVE LifeInv'
  BY <1>1 DEF LifeInv, Reached, Closed, CleanStopClosesAll
<1>2. ASSUME NEW cache \in BOOLEAN, NEW presidio \in BOOLEAN, HealthReady(cache, presidio)
      PROVE  LifeInv'
  BY <1>1, <1>2 DEF HealthReady
<1>3. CASE PresidioGivenUp \/ PresidioUnexpected
  BY <1>3, FailInv DEF PresidioGivenUp, PresidioUnexpected
<1>4. CASE UNCHANGED lifeVars
  BY <1>1, <1>4 DEF lifeVars
<1>5. CASE LifeNext
  BY <1>2, <1>3, <1>5, StepDoneInv, StepRaisesInv, PresidioInv, ShutdownInv DEF LifeNext
<1> QED BY <1>4, <1>5

\* What is registered at each step of the start, and closed at each of the stop.
THEOREM LifeInvariant == LifeSpec => []LifeInv
BY LifeInitInv, LifeStepInv, PTL DEF LifeSpec

\* A process serves only with what the pipeline fails closed on, and a
\* shutdown in which no stop raised leaves nothing open but sinks whose router
\* or monitor failed to start.
THEOREM ServesWholeAndStopsClean == LifeSpec => []ServiceWhole
<1>1. LifeInv => ServiceWhole
  BY DEF LifeInv, Reached, ServiceWhole, ServesWhole
<1> QED BY <1>1, LifeInvariant, PTL

-----------------------------------------------------------------------------
(***************************************************************************)
(* Operations.                                                             *)
(***************************************************************************)

Updates == [step : {"idle", "pulling", "raising", "done", "failed"}, tag : Images,
            file : ComposeFiles, alone : BOOLEAN, fits : BOOLEAN, served : Images \cup {NoImage}]

\* An update that runs alone has found the image it is to replace and, once
\* the pull ended, replaced it.
AloneOK(w) ==
    upd[w].alone /\ Running(w) =>
        /\ orphans = {}
        /\ \A v \in Updaters : v # w => ~Running(v)
        /\ upd[w].fits =>
              IF upd[w].step = "pulling"
              THEN composeImage[agentConf].kind \in {"plain", "registry"}
              ELSE composeImage[upd[w].file] = upd[w].tag

ApplianceInv ==
    /\ agentConf \in ComposeFiles
    /\ composeImage \in [ComposeFiles -> Images \cup {NoImage}]
    /\ upd \in [Updaters -> Updates]
    /\ \A w \in Updaters : AloneOK(w)
    /\ QuietUpdateApplies

\* The appliance begins with no update under way.
LEMMA ApplianceInitInv == ApplianceInit => ApplianceInv
<1> SUFFICES ASSUME ApplianceInit PROVE ApplianceInv
  OBVIOUS
<1> USE OperationsAssumption
<1>1. Fresh \in Updates /\ Fresh.step = "idle"
  BY DEF Fresh, Updates
<1>2. \A w \in Updaters : upd[w] = Fresh
  BY DEF ApplianceInit
<1>3. upd \in [Updaters -> Updates]
  BY <1>1 DEF ApplianceInit
<1>4. composeImage \in [ComposeFiles -> Images \cup {NoImage}]
  BY DEF ApplianceInit
<1>5. \A w \in Updaters : AloneOK(w)
  BY <1>1, <1>2 DEF AloneOK, Running
<1>6. QuietUpdateApplies
  BY <1>1, <1>2 DEF QuietUpdateApplies
<1> QED BY <1>3, <1>4, <1>5, <1>6 DEF ApplianceInit, ApplianceInv

\* No update runs alone any more.
LEMMA SharedInv ==
    ASSUME ApplianceInv, upd' = Shared, agentConf' \in ComposeFiles,
           composeImage' \in [ComposeFiles -> Images \cup {NoImage}]
    PROVE  ApplianceInv'
<1>1. \A w \in Updaters : /\ upd'[w] = [upd[w] EXCEPT !.alone = FALSE]
                          /\ upd[w] \in Updates
  BY DEF Shared, ApplianceInv
<1>2. \A w \in Updaters : upd'[w] \in Updates /\ ~upd'[w].alone
  BY <1>1, ZenonT(60) DEF Updates
<1>3. upd' \in [Updaters -> Updates]
  BY <1>2 DEF Shared
<1>4. \A w \in Updaters : AloneOK(w)'
  BY <1>2 DEF AloneOK
<1>5. QuietUpdateApplies'
  BY <1>2 DEF QuietUpdateApplies
<1> QED BY <1>3, <1>4, <1>5 DEF ApplianceInv

\* One update moves on, from a state in which it runs.
LEMMA UpdateMoves ==
    ASSUME ApplianceInv, NEW w \in Updaters, NEW n \in Updates, Running(w),
           upd' = [upd EXCEPT ![w] = n], agentConf' = agentConf,
           composeImage' \in [ComposeFiles -> Images \cup {NoImage}],
           n.alone = upd[w].alone, n.fits = upd[w].fits, n.tag = upd[w].tag,
           n.step \notin {"idle", "pulling"},
           n.step = "raising" => orphans' = orphans /\ (n.alone /\ n.fits => composeImage'[n.file] = n.tag),
           n.step = "done" /\ n.alone /\ n.fits => n.served = n.tag
    PROVE  ApplianceInv'
<1>1. /\ upd'[w] = n /\ \A v \in Updaters : v # w => upd'[v] = upd[v]
      /\ upd' \in [Updaters -> Updates]
  BY DEF ApplianceInv
<1>2. \A v \in Updaters : v # w => ~(upd[v].alone /\ Running(v))
  BY DEF ApplianceInv, AloneOK
<1>3. ASSUME NEW v \in Updaters PROVE AloneOK(v)'
  <2>1. CASE v # w
    BY <1>1, <1>2, <1>3, <2>1 DEF AloneOK, Running
  <2>2. CASE v = w
    <3>1. AloneOK(w)
      BY DEF ApplianceInv
    <3>2. ASSUME n.alone, n.step = "raising"
          PROVE  /\ orphans' = {} /\ (n.fits => composeImage'[n.file] = n.tag)
                 /\ \A u \in Updaters : u # w => ~Running(u)'
      BY <1>1, <3>1, <3>2 DEF AloneOK, Running
    <3>3. Running(w)' => n.step = "raising"
      BY <1>1 DEF Running
    <3> QED BY <1>1, <2>2, <3>2, <3>3 DEF AloneOK
  <2> QED BY <2>1, <2>2
<1>4. QuietUpdateApplies'
  BY <1>1 DEF ApplianceInv, QuietUpdateApplies
<1> QED BY <1>1, <1>3, <1>4 DEF ApplianceInv

\* update() begins.
LEMMA StartUpdateInv ==
    ASSUME ApplianceInv, NEW w \in Updaters, NEW i \in Images, StartUpdate(w, i)
    PROVE  ApplianceInv'
<1> USE OperationsAssumption
<1> DEFINE a == orphans = {} /\ \A v \in Updaters : ~Running(v)
           f == composeImage[agentConf].kind \in {"plain", "registry"}
           n == [Fresh EXCEPT !.step = "pulling", !.tag = i, !.alone = a, !.fits = f]
<1>1. /\ upd' = [Shared EXCEPT ![w] = n]
      /\ UNCHANGED <<agentConf, composeImage, orphans>>
  BY DEF StartUpdate
<1>a. a \in BOOLEAN /\ f \in BOOLEAN
  OBVIOUS
<1>2. n \in Updates
  BY <1>a DEF Fresh, Updates
<1>n. n.step = "pulling" /\ n.alone = a /\ n.fits = f
  BY DEF Fresh
<1> HIDE DEF a, f, n
<1>3. \A v \in Updaters : /\ upd[v] \in Updates /\ Shared[v] \in Updates
                          /\ ~Shared[v].alone /\ Shared[v].step = upd[v].step
  BY DEF ApplianceInv, Shared, Updates
<1>4. /\ upd'[w] = n /\ \A v \in Updaters : v # w => upd'[v] = Shared[v]
      /\ upd' \in [Updaters -> Updates]
  BY <1>1, <1>2, <1>3 DEF Shared
<1>5. ASSUME NEW v \in Updaters PROVE AloneOK(v)'
  <2>1. CASE v # w
    BY <1>3, <1>4, <2>1 DEF AloneOK
  <2>2. CASE v = w
    <3>1. a => orphans = {} /\ \A u \in Updaters : ~Running(u)
      BY DEF a
    <3>2. a => orphans' = {} /\ \A u \in Updaters : u # w => ~Running(u)'
      BY <1>1, <1>3, <1>4, <3>1 DEF Running
    <3>3. f => (composeImage[agentConf].kind \in {"plain", "registry"})'
      BY <1>1 DEF f
    <3> QED BY <1>n, <1>4, <2>2, <3>2, <3>3 DEF AloneOK
  <2> QED BY <2>1, <2>2
<1>6. QuietUpdateApplies'
  BY <1>3, <1>4, <1>n DEF QuietUpdateApplies
<1> QED BY <1>1, <1>4, <1>5, <1>6 DEF ApplianceInv

\* An update goes on or ends.
LEMMA UpdateStepInv ==
    ASSUME ApplianceInv, NEW w \in Updaters,
           PullDone(w) \/ PullFailed(w) \/ UpDone(w) \/ UpFailed(w) \/ UpTimesOut(w)
    PROVE  ApplianceInv'
<1> USE OperationsAssumption
<1>t. /\ upd[w] \in Updates /\ upd \in [Updaters -> Updates] /\ agentConf \in ComposeFiles
      /\ composeImage \in [ComposeFiles -> Images \cup {NoImage}] /\ AloneOK(w)
      /\ upd[w].tag \in Images /\ upd[w].file \in ComposeFiles
  BY DEF ApplianceInv, Updates
<1>1. CASE PullDone(w)
  <2> DEFINE n == [upd[w] EXCEPT !.step = "raising", !.file = agentConf]
  <2>1. /\ upd[w].step = "pulling" /\ upd' = [upd EXCEPT ![w] = n]
        /\ composeImage' = [composeImage EXCEPT ![agentConf] = Substituted(@, upd[w].tag)]
        /\ agentConf' = agentConf /\ orphans' = orphans
    BY <1>t, <1>1 DEF PullDone
  <2>2. n \in Updates /\ Running(w)
    BY <1>t, <2>1 DEF Updates, Running
  <2>3. /\ n.step = "raising" /\ n.alone = upd[w].alone /\ n.fits = upd[w].fits
        /\ n.tag = upd[w].tag /\ n.file = agentConf
    BY <1>t DEF Updates
  <2> HIDE DEF n
  <2>4. /\ composeImage' \in [ComposeFiles -> Images \cup {NoImage}]
        /\ composeImage'[agentConf] = Substituted(composeImage[agentConf], upd[w].tag)
    BY <1>t, <2>1 DEF Substituted
  <2>5. n.alone /\ n.fits => composeImage'[n.file] = n.tag
    BY <1>t, <2>1, <2>2, <2>3, <2>4 DEF AloneOK, Substituted
  <2> QED BY <2>1, <2>2, <2>3, <2>4, <2>5, UpdateMoves
<1>2. CASE PullFailed(w) \/ UpFailed(w) \/ UpTimesOut(w)
  <2> DEFINE n == [upd[w] EXCEPT !.step = "failed"]
  <2>1. /\ Running(w) /\ upd' = [upd EXCEPT ![w] = n]
        /\ agentConf' = agentConf /\ composeImage' = composeImage
    BY <1>t, <1>2 DEF PullFailed, UpFailed, UpTimesOut, Running
  <2>2. /\ n \in Updates /\ n.step = "failed" /\ n.alone = upd[w].alone
        /\ n.fits = upd[w].fits /\ n.tag = upd[w].tag
    BY <1>t DEF Updates
  <2> HIDE DEF n
  <2> QED BY <1>t, <2>1, <2>2, UpdateMoves
<1>3. CASE UpDone(w)
  <2> DEFINE n == [upd[w] EXCEPT !.step = "done", !.served = composeImage[upd[w].file]]
  <2>1. /\ upd[w].step = "raising" /\ upd' = [upd EXCEPT ![w] = n]
        /\ agentConf' = agentConf /\ composeImage' = composeImage
    BY <1>t, <1>3 DEF UpDone
  <2>2. n \in Updates /\ Running(w)
    BY <1>t, <2>1 DEF Updates, Running
  <2>3. /\ n.step = "done" /\ n.alone = upd[w].alone /\ n.fits = upd[w].fits
        /\ n.tag = upd[w].tag /\ n.served = composeImage[upd[w].file]
    BY <1>t DEF Updates
  <2> HIDE DEF n
  <2>4. n.alone /\ n.fits => n.served = n.tag
    BY <1>t, <2>1, <2>2, <2>3 DEF AloneOK
  <2> QED BY <1>t, <2>1, <2>2, <2>3, <2>4, UpdateMoves
<1> QED BY <1>1, <1>2, <1>3

\* A step that leaves the updates, the image and the orphans of lone ones.
LEMMA ApplianceQuiet ==
    ASSUME ApplianceInv, UNCHANGED <<agentConf, composeImage, upd>>, orphans' \subseteq orphans
    PROVE  ApplianceInv'
<1>1. \A w \in Updaters : AloneOK(w)'
  BY DEF ApplianceInv, AloneOK, Running
<1> QED BY <1>1 DEF ApplianceInv, QuietUpdateApplies

\* The agent is started again: no update runs any more.
LEMMA RestartAgentInv == ASSUME ApplianceInv, RestartAgent PROVE ApplianceInv'
<1> USE OperationsAssumption
<1>1. /\ agentConf' \in ComposeFiles /\ composeImage' = composeImage
      /\ upd' = [w \in Updaters |-> IF Running(w) THEN [upd[w] EXCEPT !.step = "failed"] ELSE upd[w]]
  BY DEF RestartAgent, LoadConfig
<1>2. ASSUME NEW w \in Updaters
      PROVE  /\ upd'[w] \in Updates /\ ~Running(w)'
             /\ upd'[w] = upd[w] \/ upd'[w].step = "failed"
  <2>1. upd[w] \in Updates /\ [upd[w] EXCEPT !.step = "failed"] \in Updates
        /\ [upd[w] EXCEPT !.step = "failed"].step = "failed"
    BY DEF ApplianceInv, Updates
  <2> QED BY <1>1, <2>1 DEF Running
<1>3. upd' \in [Updaters -> Updates]
  BY <1>1, <1>2
<1>4. \A w \in Updaters : AloneOK(w)'
  BY <1>2 DEF AloneOK
<1>5. QuietUpdateApplies'
  BY <1>2 DEF ApplianceInv, QuietUpdateApplies
<1> QED BY <1>1, <1>3, <1>4, <1>5 DEF ApplianceInv

\* Every step of the appliance agent keeps its invariant.
LEMMA ApplianceStepInv == ASSUME ApplianceInv, ApplianceNext PROVE ApplianceInv'
<1>1. ASSUME NEW f \in ComposeFiles, OrphanEnds(f) \/ UpdateConfig(f) PROVE ApplianceInv'
  <2>1. /\ upd' = Shared /\ agentConf' \in ComposeFiles
        /\ composeImage' \in [ComposeFiles -> Images \cup {NoImage}]
    BY <1>1, OperationsAssumption DEF OrphanEnds, UpdateConfig, LoadConfig, ApplianceInv
  <2> QED BY <2>1, SharedInv
<1>2. ASSUME NEW f \in ComposeFiles, OrphanFails(f) PROVE ApplianceInv'
  BY <1>2, ApplianceQuiet DEF OrphanFails
<1>3. CASE UpdateConfigTorn
  BY <1>3, ApplianceQuiet DEF UpdateConfigTorn
<1>4. ASSUME NEW w \in Updaters, NEW i \in Images, StartUpdate(w, i) PROVE ApplianceInv'
  BY <1>4, StartUpdateInv
<1> QED BY <1>1, <1>2, <1>3, <1>4, UpdateStepInv, RestartAgentInv DEF ApplianceNext


(***************************************************************************)
(* The watcher of the secrets.  While no event has waited for a tick, an   *)
(* event is handled at the instant of the look that queued it, so the last *)
(* trigger is never later than the last look, and an event that would load *)
(* something newer is past the debounce interval.                          *)
(***************************************************************************)
WatchTypes ==
    /\ version \in Nat /\ looked \in Nat /\ loadedVersion \in Nat
    /\ lookedAt \in Nat /\ secretTime \in Nat /\ secretEvents \in Nat
    /\ trigger \in Int

WatchInv ==
    /\ WatchTypes
    /\ looked <= version /\ loadedVersion <= version /\ lookedAt <= secretTime
    /\ dispatching /\ ~tardy =>
          /\ secretEvents > 0 => lookedAt = secretTime
          /\ trigger <= lookedAt
          /\ loadedVersion < looked => secretEvents > 0 /\ ~Debounced

\* The watcher begins with the keys of the file.
LEMMA WatchInitInv == WatchInit => WatchInv
<1> SUFFICES ASSUME WatchInit PROVE WatchInv
  OBVIOUS
<1>1. WatchTypes
  BY WatchAssumption DEF WatchInit, WatchTypes
<1>2. /\ looked <= version /\ loadedVersion <= version /\ lookedAt <= secretTime
      /\ ~(secretEvents > 0) /\ ~(loadedVersion < looked) /\ trigger <= lookedAt
  BY WatchAssumption DEF WatchInit
<1> QED BY <1>1, <1>2 DEF WatchInv

\* Every step of the watcher keeps its invariant.
LEMMA WatchStepInv == ASSUME WatchInv, WatchNext PROVE WatchInv'
<1> USE WatchAssumption DEF WatchInv, WatchTypes, Debounced
<1>1. ASSUME NEW ok \in BOOLEAN, Replace(ok) PROVE WatchInv'
  BY <1>1 DEF Replace
<1>2. CASE Look
  <2>1. CASE looked = version
    BY <1>2, <2>1 DEF Look
  <2>2. CASE looked # version
    <3>1. PICK n \in 1..2 : secretEvents' = secretEvents + n
      BY <1>2, <2>2 DEF Look
    <3>2. /\ secretEvents' \in Nat /\ secretEvents' > 0
          /\ lookedAt' = secretTime /\ looked' = version
          /\ secretTime - lookedAt >= Interval
          /\ version' = version /\ trigger' = trigger /\ loadedVersion' = loadedVersion
          /\ secretTime' = secretTime /\ dispatching' = dispatching /\ tardy' = tardy
      BY <1>2, <3>1 DEF Look
    <3> QED BY <3>2
  <2> QED BY <2>1, <2>2
<1>3. CASE SecretTick
  <2>1. ~tardy' => ~tardy /\ ~(dispatching /\ secretEvents > 0)
    BY <1>3, Zenon DEF SecretTick
  <2> QED BY <1>3, <2>1 DEF SecretTick
<1>4. CASE DropEvent
  BY <1>4 DEF DropEvent
<1>5. CASE ReloadSecrets
  <2>1. CASE LoadableSecrets(version)
    BY <1>5, <2>1 DEF ReloadSecrets
  <2>2. CASE ~LoadableSecrets(version)
    BY <1>5, <2>2 DEF ReloadSecrets
  <2> QED BY <2>1, <2>2
<1> QED BY <1>1, <1>2, <1>3, <1>4, <1>5 DEF WatchNext

\* A step of another agent leaves the watcher alone.
LEMMA WatchQuiet == ASSUME WatchInv, UNCHANGED watchVars PROVE WatchInv'
BY DEF WatchInv, WatchTypes, Debounced, watchVars

\* The invariant says that a prompt watcher has caught up.
LEMMA WatchCatchesUp == WatchInv => PromptWatcherCatchesUp
BY DEF WatchInv, WatchTypes, PromptWatcherCatchesUp

\* Every step of the endpoint agent keeps the loops of one that is on.
LEMMA EndpointStepInv == ASSUME RunningHasLoops, EndpointNext PROVE RunningHasLoops'
BY DEF EndpointNext, StartAgent, StopAgent, AgentStopEnds, LoopEnds, RunningHasLoops

\* What each of the three agents keeps.
OperationsInv == ApplianceInv /\ WatchInv /\ RunningHasLoops

\* The three agents, interleaved in any order, keep what each of them relies on.
THEOREM OperationsInvariant == OperationsSpec => []OperationsInv
<1>1. ApplianceInit /\ WatchInit /\ EndpointInit => OperationsInv
  BY ApplianceInitInv, WatchInitInv DEF OperationsInv, EndpointInit, RunningHasLoops
<1>q. ASSUME ApplianceInv, UNCHANGED applianceVars PROVE ApplianceInv'
  <2>1. UNCHANGED <<agentConf, composeImage, upd>> /\ orphans' = orphans
    BY <1>q DEF applianceVars
  <2> QED BY <1>q, <2>1, ApplianceQuiet
<1>e. ASSUME RunningHasLoops, UNCHANGED endpointVars PROVE RunningHasLoops'
  BY <1>e DEF endpointVars, RunningHasLoops
<1> DEFINE Step == \/ ApplianceNext /\ UNCHANGED <<watchVars, endpointVars>>
                   \/ WatchNext /\ UNCHANGED <<applianceVars, endpointVars>>
                   \/ EndpointNext /\ UNCHANGED <<applianceVars, watchVars>>
<1>2. ASSUME OperationsInv, [Step]_<<applianceVars, watchVars, endpointVars>> PROVE OperationsInv'
  <2>1. CASE ApplianceNext /\ watchVars' = watchVars /\ endpointVars' = endpointVars
    BY <1>2, <1>e, <2>1, ApplianceStepInv, WatchQuiet DEF OperationsInv
  <2>2. CASE WatchNext /\ applianceVars' = applianceVars /\ endpointVars' = endpointVars
    BY <1>2, <1>e, <1>q, <2>2, WatchStepInv DEF OperationsInv
  <2>3. CASE EndpointNext /\ applianceVars' = applianceVars /\ watchVars' = watchVars
    BY <1>2, <1>q, <2>3, EndpointStepInv, WatchQuiet DEF OperationsInv
  <2>4. CASE applianceVars' = applianceVars /\ watchVars' = watchVars /\ endpointVars' = endpointVars
    BY <1>2, <1>q, <1>e, <2>4, WatchQuiet DEF OperationsInv
  <2> QED BY <1>2, <2>1, <2>2, <2>3, <2>4
<1> QED BY <1>1, <1>2, PTL DEF OperationsSpec

\* A lone update that answers "completed" serves its image, a prompt watcher
\* has loaded the last change it saw, a running endpoint agent has its loops:
\* AgentsSettle holds for any number of updates, rotations and starts.
THEOREM AgentsDoSettle == OperationsSpec => []AgentsSettle
<1>1. OperationsInv => AgentsSettle
  BY WatchCatchesUp DEF OperationsInv, ApplianceInv, AgentsSettle
<1> QED BY <1>1, OperationsInvariant, PTL

-----------------------------------------------------------------------------
(***************************************************************************)
(* The proxy.  A connection that has passed neither the pipeline nor, with *)
(* the transparent proxy, the screen of pinning and detector is not where  *)
(* its body could be answered; the list of wildcard routes holds no entry  *)
(* that the table does not hold.                                           *)
(***************************************************************************)
AnswerBodies == {"none", "error", "tunnel", "blocked", "unsupported", "failed_closed",
                 "echo", "restored", "unrestored"}
Answers == [status : Nat, body : AnswerBodies]

ConnRecords ==
    [at : {"idle", "firewall", "certify", "dispatch", "done"},
     req : ProxyInputs \cup {NoRequest}, resp : Answers,
     screened : BOOLEAN, piped : BOOLEAN, cert : Nat]

\* What a connection on its way has behind it.
OnItsWay(r) ==
    /\ r.at # "done" => ~r.piped
    /\ r.at = "certify" => r.screened /\ IsAi(r.req)
    /\ r.at = "dispatch" /\ proxyConf.mode = "transparent" => r.screened /\ IsAi(r.req)

\* What OnlyPipelineAnswers says of one connection.
AnsweredWell(r) ==
    r.at = "done" =>
        /\ r.resp.body = "echo" => proxyConf.failOpen /\ ~r.piped
        /\ r.resp.body \in {"restored", "unrestored"} =>
              /\ r.piped
              /\ proxyConf.mode = "transparent" => r.screened /\ IsAi(r.req)

ProxyInv ==
    /\ proxyTime \in Nat
    /\ leaf \in [{"ai", "other"} -> Nat]
    /\ conn \in [Conns -> ConnRecords]
    /\ \A c \in Conns : OnItsWay(conn[c]) /\ AnsweredWell(conn[c])

\* A new connection has its type.
LEMMA IdlingFits == Idling \in ConnRecords /\ Idling.at = "idle" /\ ~Idling.piped
<1>1. NoAnswer \in Answers
  BY DEF NoAnswer, Answers, AnswerBodies
<1> QED BY <1>1 DEF Idling, ConnRecords

\* The proxy begins with idle connections.
LEMMA ProxyInitInv == ProxyInit => ProxyInv
<1> SUFFICES ASSUME ProxyInit PROVE ProxyInv
  OBVIOUS
<1>1. Idling \in ConnRecords /\ Idling.at = "idle" /\ ~Idling.piped
  BY IdlingFits
<1>2. OnItsWay(Idling) /\ AnsweredWell(Idling)
  BY <1>1 DEF OnItsWay, AnsweredWell
<1> QED BY <1>1, <1>2 DEF ProxyInit, ProxyInv

\* One connection moves on to a state that is in order.
LEMMA ConnMoves ==
    ASSUME ProxyInv, NEW c \in Conns, NEW n \in ConnRecords, conn' = [conn EXCEPT ![c] = n],
           OnItsWay(n), AnsweredWell(n), proxyConf' = proxyConf, proxyTime' = proxyTime,
           leaf' \in [{"ai", "other"} -> Nat]
    PROVE  ProxyInv'
<1>1. conn' \in [Conns -> ConnRecords]
  BY DEF ProxyInv
<1>2. \A d \in Conns : conn'[d] = IF d = c THEN n ELSE conn[d]
  BY DEF ProxyInv
<1>3. ASSUME NEW d \in Conns PROVE (OnItsWay(conn[d]) /\ AnsweredWell(conn[d]))'
  <2>1. CASE d = c
    BY <1>2, <2>1 DEF OnItsWay, AnsweredWell
  <2>2. CASE d # c
    BY <1>2, <2>2 DEF ProxyInv, OnItsWay, AnsweredWell
  <2> QED BY <2>1, <2>2
<1> QED BY <1>1, <1>3 DEF ProxyInv

\* An answer that is neither an echo nor a reply is always in order.
LEMMA RespondInv ==
    ASSUME ProxyInv, NEW c \in Conns, NEW k \in Nat, NEW b \in AnswerBodies, Respond(c, k, b),
           b \notin {"echo", "restored", "unrestored"}, proxyConf' = proxyConf,
           proxyTime' = proxyTime, leaf' = leaf
    PROVE  ProxyInv'
<1> DEFINE n == [conn[c] EXCEPT !.at = "done", !.resp = [status |-> k, body |-> b]]
<1>1. conn[c] \in ConnRecords /\ conn' = [conn EXCEPT ![c] = n]
  BY DEF ProxyInv, Respond
<1>a. [status |-> k, body |-> b] \in Answers
  BY DEF Answers
<1>2. n \in ConnRecords /\ n.at = "done" /\ n.resp.body = b
  BY <1>1, <1>a DEF ConnRecords
<1> HIDE DEF n
<1>3. OnItsWay(n) /\ AnsweredWell(n)
  BY <1>2 DEF OnItsWay, AnsweredWell
<1> QED BY <1>1, <1>2, <1>3, ConnMoves DEF ProxyInv

\* A connection is accepted, by either proxy.
LEMMA AcceptInv ==
    ASSUME ProxyInv, NEW c \in Conns, Accept(c) \/ ReverseHandle(c) PROVE ProxyInv'
<1>0. /\ At(c, "idle") /\ conn[c] \in ConnRecords /\ OnItsWay(conn[c])
      /\ proxyConf' = proxyConf /\ proxyTime' = proxyTime /\ leaf' = leaf
      /\ leaf \in [{"ai", "other"} -> Nat]
  BY DEF Accept, ReverseHandle, ProxyInv
<1>1. ASSUME NEW r \in ProxyInputs, NEW step \in {"firewall", "dispatch"},
             step = "dispatch" => proxyConf.mode # "transparent",
             conn' = [conn EXCEPT ![c].at = step, ![c].req = r]
      PROVE  ProxyInv'
  <2> DEFINE n == [conn[c] EXCEPT !.at = step, !.req = r]
  <2>1. conn' = [conn EXCEPT ![c] = n]
    BY <1>0, <1>1 DEF ProxyInv
  <2>2. n \in ConnRecords /\ n.at = step /\ n.piped = conn[c].piped
    BY <1>0 DEF ConnRecords
  <2>3. ~conn[c].piped
    BY <1>0 DEF OnItsWay, At
  <2> HIDE DEF n
  <2>4. OnItsWay(n) /\ AnsweredWell(n)
    BY <1>1, <2>2, <2>3 DEF OnItsWay, AnsweredWell
  <2> QED BY <1>0, <2>1, <2>2, <2>4, ConnMoves
<1>2. CASE Respond(c, 500, "error")
  BY <1>0, <1>2, RespondInv DEF AnswerBodies
<1>3. CASE Respond(c, 200, "tunnel")
  BY <1>0, <1>3, RespondInv DEF AnswerBodies
<1>4. CASE Accept(c)
  <2>1. CASE \E r \in ProxyInputs : conn' = [conn EXCEPT ![c].at = "firewall", ![c].req = r]
    BY <1>1, <2>1
  <2> QED BY <1>2, <1>4, <2>1 DEF Accept
<1>5. CASE ReverseHandle(c)
  <2>1. CASE \E r \in ProxyInputs : conn' = [conn EXCEPT ![c].at = "dispatch", ![c].req = r]
    BY <1>1, <1>5, <2>1 DEF ReverseHandle
  <2> QED BY <1>3, <1>5, <2>1 DEF ReverseHandle
<1> QED BY <1>4, <1>5

\* The firewall, then pinning and detection.
LEMMA FirewallInv == ASSUME ProxyInv, NEW c \in Conns, Firewall(c) PROVE ProxyInv'
<1>0. /\ conn[c].at = "firewall" /\ conn[c] \in ConnRecords /\ ~conn[c].piped
      /\ proxyConf' = proxyConf /\ proxyTime' = proxyTime /\ leaf' = leaf
      /\ leaf \in [{"ai", "other"} -> Nat]
  BY DEF Firewall, At, ProxyInv, OnItsWay
<1>1. CASE Respond(c, 500, "error")
  BY <1>0, <1>1, RespondInv DEF AnswerBodies
<1>2. CASE Respond(c, 403, "blocked")
  BY <1>0, <1>2, RespondInv DEF AnswerBodies
<1>3. CASE Screened(c)
  <2> DEFINE s == Screen(conn[c].req)
             a == IF s = "intercept" THEN "certify" ELSE "done"
             b == CASE s = "block" -> [status |-> 451, body |-> "blocked"]
                    [] s = "echo"  -> [status |-> 200, body |-> "echo"]
                    [] OTHER       -> NoAnswer
             n == [conn[c] EXCEPT !.screened = TRUE, !.at = a, !.resp = b]
  <2>1. conn' = [conn EXCEPT ![c] = n]
    BY <1>3, ZenonT(60) DEF Screened, ProxyInv
  <2>2. /\ s = "echo" => proxyConf.failOpen
        /\ s = "intercept" => IsAi(conn[c].req)
        /\ s \in {"echo", "intercept", "block"}
    BY DEF Screen
  <2> HIDE DEF s
  <2>3. /\ a \in {"certify", "done"} /\ (a = "certify" <=> s = "intercept")
        /\ b \in Answers
        /\ b.body = "echo" => s = "echo"
        /\ b.body \notin {"restored", "unrestored"}
    <3>1. CASE s = "echo"
      BY <3>1 DEF Answers, AnswerBodies
    <3>2. CASE s = "intercept"
      BY <3>2 DEF NoAnswer, Answers, AnswerBodies
    <3>3. CASE s = "block"
      BY <3>3 DEF Answers, AnswerBodies
    <3> QED BY <2>2, <3>1, <3>2, <3>3
  <2> HIDE DEF a, b
  <2>4. /\ n \in ConnRecords /\ n.at = a /\ n.resp = b /\ n.screened
        /\ n.piped = conn[c].piped /\ n.req = conn[c].req
    BY <1>0, <2>3 DEF ConnRecords
  <2> HIDE DEF n
  <2>5. OnItsWay(n) /\ AnsweredWell(n)
    BY <1>0, <2>2, <2>3, <2>4 DEF OnItsWay, AnsweredWell
  <2> QED BY <1>0, <2>1, <2>4, <2>5, ConnMoves
<1> QED BY <1>1, <1>2, <1>3 DEF Firewall

\* A certificate is made or taken from the cache.
LEMMA CertifyInv == ASSUME ProxyInv, NEW c \in Conns, Certify(c) PROVE ProxyInv'
<1>0. /\ conn[c].at = "certify" /\ conn[c] \in ConnRecords /\ OnItsWay(conn[c])
      /\ proxyConf' = proxyConf /\ proxyTime' = proxyTime
      /\ leaf \in [{"ai", "other"} -> Nat] /\ proxyTime \in Nat
  BY DEF Certify, At, ProxyInv
<1>1. CASE Respond(c, 500, "error") /\ UNCHANGED leaf
  BY <1>0, <1>1, RespondInv DEF AnswerBodies
<1>2. CASE /\ leaf' = [leaf EXCEPT ![conn[c].req.host] = LeafFor(conn[c].req.host)]
           /\ conn' = [conn EXCEPT ![c].at = "dispatch", ![c].cert = LeafFor(conn[c].req.host)]
  <2> DEFINE k == LeafFor(conn[c].req.host)
             n == [conn[c] EXCEPT !.at = "dispatch", !.cert = k]
  <2>1. ~conn[c].piped /\ conn[c].screened /\ IsAi(conn[c].req) /\ conn[c].req.host = "ai"
    BY <1>0 DEF OnItsWay, IsAi
  <2>2. k \in Nat
    BY <1>0, <2>1, ProxyAssumption DEF LeafFor
  <2>3. conn' = [conn EXCEPT ![c] = n] /\ leaf' = [leaf EXCEPT !["ai"] = k]
    BY <1>2, <2>1 DEF ProxyInv
  <2> HIDE DEF k
  <2>4. leaf' \in [{"ai", "other"} -> Nat]
    BY <1>0, <2>2, <2>3
  <2>5. /\ n \in ConnRecords /\ n.at = "dispatch" /\ n.screened = conn[c].screened
        /\ n.piped = conn[c].piped /\ n.req = conn[c].req
    BY <1>0, <2>2 DEF ConnRecords
  <2> HIDE DEF n
  <2>6. OnItsWay(n) /\ AnsweredWell(n)
    BY <2>1, <2>5 DEF OnItsWay, AnsweredWell
  <2> QED BY <1>0, <2>3, <2>4, <2>5, <2>6, ConnMoves
<1> QED BY <1>1, <1>2 DEF Certify

\* The dispatcher refuses the body or runs the pipeline on it.
LEMMA DispatchInv == ASSUME ProxyInv, NEW c \in Conns, Dispatch(c) PROVE ProxyInv'
<1>0. /\ conn[c].at = "dispatch" /\ conn[c] \in ConnRecords /\ OnItsWay(conn[c])
      /\ proxyConf' = proxyConf /\ proxyTime' = proxyTime /\ leaf' = leaf
      /\ leaf \in [{"ai", "other"} -> Nat]
  BY DEF Dispatch, At, ProxyInv
<1> DEFINE b == Refusal(BodyRead(conn[c].req))
<1>1. b \in {"unsupported", "failed_closed", "none"}
  BY DEF Refusal
<1>2. \/ Respond(c, 200, b)
      \/ \E out \in {"failed_closed", "restored", "unrestored"} :
            conn' = [conn EXCEPT ![c].at = "done", ![c].piped = TRUE,
                                 ![c].resp = [status |-> 200, body |-> out]]
      \/ Respond(c, 500, "error")
  BY DEF Dispatch
<1> HIDE DEF b
<1>3. CASE Respond(c, 200, b)
  BY <1>0, <1>1, <1>3, RespondInv DEF AnswerBodies
<1>4. ASSUME NEW out \in {"failed_closed", "restored", "unrestored"},
             conn' = [conn EXCEPT ![c].at = "done", ![c].piped = TRUE,
                                  ![c].resp = [status |-> 200, body |-> out]]
      PROVE  ProxyInv'
  <2> DEFINE n == [conn[c] EXCEPT !.at = "done", !.piped = TRUE,
                                  !.resp = [status |-> 200, body |-> out]]
  <2>1. conn' = [conn EXCEPT ![c] = n]
    BY <1>4 DEF ProxyInv
  <2>a. [status |-> 200, body |-> out] \in Answers
    BY <1>4 DEF Answers, AnswerBodies
  <2>2. /\ n \in ConnRecords /\ n.at = "done" /\ n.piped /\ n.resp.body = out
        /\ n.req = conn[c].req /\ n.screened = conn[c].screened
    BY <1>0, <2>a DEF ConnRecords
  <2> HIDE DEF n
  <2>3. OnItsWay(n) /\ AnsweredWell(n)
    BY <1>0, <1>4, <2>2 DEF OnItsWay, AnsweredWell
  <2> QED BY <1>0, <2>1, <2>2, <2>3, ConnMoves
<1>5. CASE Respond(c, 500, "error")
  BY <1>0, <1>5, RespondInv DEF AnswerBodies
<1> QED BY <1>2, <1>3, <1>4, <1>5

\* Every step of the proxy keeps its invariant.
LEMMA ProxyStepInv == ASSUME ProxyInv, ProxyNext PROVE ProxyInv'
<1>1. CASE ProxyStart \/ ProxyStop \/ ProxyTick
  <2>1. /\ proxyConf' = proxyConf /\ conn' = conn /\ leaf' = leaf /\ proxyTime' \in Nat
    BY <1>1 DEF ProxyStart, ProxyStop, ProxyTick, ProxyInv
  <2> QED BY <2>1 DEF ProxyInv, OnItsWay, AnsweredWell
<1>2. ASSUME NEW c \in Conns, Hangup(c) PROVE ProxyInv'
  <2>1. /\ conn' = [conn EXCEPT ![c] = Idling] /\ proxyConf' = proxyConf
        /\ proxyTime' = proxyTime /\ leaf' \in [{"ai", "other"} -> Nat]
    BY <1>2 DEF Hangup, ProxyInv
  <2>2. Idling \in ConnRecords /\ Idling.at = "idle" /\ ~Idling.piped
    BY IdlingFits
  <2>3. OnItsWay(Idling) /\ AnsweredWell(Idling)
    BY <2>2 DEF OnItsWay, AnsweredWell
  <2> QED BY <2>1, <2>2, <2>3, ConnMoves
<1> QED BY <1>1, <1>2, AcceptInv, FirewallInv, CertifyInv, DispatchInv DEF ProxyNext

\* A step elsewhere leaves the proxy alone.
LEMMA ProxyQuiet == ASSUME ProxyInv, UNCHANGED proxyVars PROVE ProxyInv'
<1>1. proxyConf' = proxyConf /\ conn' = conn /\ leaf' = leaf /\ proxyTime' = proxyTime
  BY DEF proxyVars
<1> QED BY <1>1 DEF ProxyInv, OnItsWay, AnsweredWell

\* The files of the CA directory and the certificates known from them.
CaInv ==
    /\ caFiles \in [Serials -> [pem : Nat, key : Nat]]
    /\ caKnown \in [Serials -> Versions \cup {0}]
    /\ caActive \in Serials \cup {0}
    /\ ActiveCaHasPair

\* The directory begins empty.
LEMMA CaInitInv == CaInit => CaInv
BY DEF CaInit, CaInv, ActiveCaHasPair, NoPair, NoFile

\* What an upload leaves in the two files of its serial.
LEMMA UploadedFits ==
    ASSUME NEW f \in [pem : Nat, key : Nat], NEW v \in Versions, NEW failed
    PROVE  /\ UploadedPair(f, v, failed) \in [pem : Nat, key : Nat]
           /\ failed = "open" => UploadedPair(f, v, failed) = f
           /\ failed = "none" => UploadedPair(f, v, failed) = [pem |-> v, key |-> v]
BY ProxyAssumption DEF UploadedPair, Garbage

\* Every step on the CA directory keeps its invariant.
LEMMA CaStepInv == ASSUME CaInv, CaNext PROVE CaInv'
<1> USE ProxyAssumption
<1>0. /\ caFiles \in [Serials -> [pem : Nat, key : Nat]]
      /\ caKnown \in [Serials -> Versions \cup {0}]
      /\ caActive \in Serials \cup {0}
      /\ caActive # 0 => caKnown[caActive] # 0
      /\ \A s \in Serials \ caTouched :
            caKnown[s] # 0 => caFiles[s] = [pem |-> caKnown[s], key |-> caKnown[s]]
  BY DEF CaInv, ActiveCaHasPair
<1>1. CASE FileEvent \/ CaTick
  BY <1>0, <1>1 DEF FileEvent, CaTick, CaInv, ActiveCaHasPair
<1>2. CASE Reload
  <2>1. caFiles' = caFiles
    BY <1>2 DEF Reload
  <2>2. CASE UNCHANGED <<caActive, caKnown, caTouched>>
    BY <1>0, <2>1, <2>2 DEF CaInv, ActiveCaHasPair
  <2>3. ASSUME NEW s \in Loadable, caActive' = s,
               caKnown' = [caKnown EXCEPT ![s] = caFiles[s].pem],
               caTouched' = caTouched \ {s}
        PROVE  CaInv'
    <3>1. /\ s \in Serials /\ caFiles[s].pem \in Versions
          /\ caFiles[s].key = caFiles[s].pem
      BY DEF Loadable, Discovered, GoodPair
    <3>2. /\ caKnown' \in [Serials -> Versions \cup {0}]
          /\ caKnown'[s] = caFiles[s].pem
          /\ \A t \in Serials \ {s} : caKnown'[t] = caKnown[t]
      BY <1>0, <2>3, <3>1
    <3>3. caFiles[s] = [pem |-> caKnown'[s], key |-> caKnown'[s]]
      BY <1>0, <3>1, <3>2
    <3>4. caKnown'[s] # 0
      BY <3>1, <3>2
    <3> QED BY <1>0, <2>1, <2>3, <3>1, <3>2, <3>3, <3>4 DEF CaInv, ActiveCaHasPair
  <2> QED BY <1>2, <2>2, <2>3 DEF Reload
<1>3. ASSUME NEW s \in Serials, NEW v \in Versions, Upload(s, v) PROVE CaInv'
  <2>1. PICK failed \in {"open", "pem", "mode", "key", "late", "none"} :
           /\ caFiles' = [caFiles EXCEPT ![s] = UploadedPair(@, v, failed)]
           /\ caActive' = Activated(s, failed)
           /\ caKnown' = IF failed = "none" THEN [caKnown EXCEPT ![s] = v] ELSE caKnown
           /\ caTouched' = CASE failed = "none" -> caTouched \ {s}
                             [] failed = "open" -> caTouched
                             [] OTHER           -> caTouched \cup {s}
    BY <1>3 DEF Upload
  <2> DEFINE p == UploadedPair(caFiles[s], v, failed)
  <2>2. /\ p \in [pem : Nat, key : Nat]
        /\ failed = "open" => p = caFiles[s]
        /\ failed = "none" => p = [pem |-> v, key |-> v]
    BY <1>0, UploadedFits
  <2>3. caFiles' = [caFiles EXCEPT ![s] = p]
    BY <2>1
  <2> HIDE DEF p
  <2>4. /\ caFiles' \in [Serials -> [pem : Nat, key : Nat]]
        /\ caFiles'[s] = p
        /\ \A t \in Serials \ {s} : caFiles'[t] = caFiles[t]
    BY <1>0, <2>2, <2>3
  <2>5. CASE failed = "none"
    <3>1. caActive' = s /\ caKnown' = [caKnown EXCEPT ![s] = v] /\ caTouched' = caTouched \ {s}
      BY <2>1, <2>5 DEF Activated
    <3>2. /\ caKnown' \in [Serials -> Versions \cup {0}]
          /\ caKnown'[s] = v /\ v # 0
          /\ \A t \in Serials \ {s} : caKnown'[t] = caKnown[t]
      BY <1>0, <3>1
    <3> QED BY <1>0, <2>2, <2>4, <2>5, <3>1, <3>2 DEF CaInv, ActiveCaHasPair
  <2>6. CASE failed = "open"
    <3>1. caActive' = caActive /\ caKnown' = caKnown /\ caTouched' = caTouched
      BY <2>1, <2>6 DEF Activated
    <3> QED BY <1>0, <2>2, <2>4, <2>6, <3>1 DEF CaInv, ActiveCaHasPair
  <2>7. CASE failed \notin {"none", "open"}
    <3>1. caActive' = caActive /\ caKnown' = caKnown /\ caTouched' = caTouched \cup {s}
      BY <2>1, <2>7 DEF Activated
    <3> QED BY <1>0, <2>4, <3>1 DEF CaInv, ActiveCaHasPair
  <2> QED BY <2>5, <2>6, <2>7
<1>4. ASSUME NEW s \in Serials, DropFile(s) PROVE CaInv'
  <2>1. caActive' = caActive /\ caKnown' = caKnown /\ caTouched' = caTouched \cup {s}
    BY <1>4 DEF DropFile
  <2>2. PICK part \in {"pem", "key"}, v \in Versions \cup {Garbage} :
           caFiles' = [caFiles EXCEPT ![s][part] = v]
    BY <1>4 DEF DropFile
  <2>3. v \in Nat
    BY DEF Garbage
  <2>4. /\ caFiles' \in [Serials -> [pem : Nat, key : Nat]]
        /\ \A t \in Serials \ {s} : caFiles'[t] = caFiles[t]
    BY <1>0, <2>2, <2>3
  <2> QED BY <1>0, <2>1, <2>4 DEF CaInv, ActiveCaHasPair
<1>5. ASSUME NEW s \in Serials, ReloadCa(s) PROVE CaInv'
  BY <1>0, <1>5 DEF ReloadCa, CaInv, ActiveCaHasPair
<1> QED BY <1>1, <1>2, <1>3, <1>4, <1>5 DEF CaNext

\* A step elsewhere leaves the CA directory alone.
LEMMA CaQuiet == ASSUME CaInv, UNCHANGED caVars PROVE CaInv'
BY DEF CaInv, ActiveCaHasPair, caVars

-----------------------------------------------------------------------------
RouteEntries == {Entry(h, p) : h \in RouteHosts, p \in {"default", "custom"}}

\* Every entry of the wildcard list is an entry of the table.
RouteInv ==
    /\ routeTable \in Seq(RouteEntries)
    /\ wildRoutes \in Seq(RouteEntries)
    /\ ToSet(wildRoutes) \subseteq ToSet(routeTable)

\* The default routes are a list.
LEMMA DefaultsAreList == DefaultRoutes \in Seq(RouteHosts)
<1> DEFINE D == {h \in RouteHosts : h.default}
           n == Cardinality(D)
<1>1. IsFiniteSet(D)
  BY ProxyAssumption, FS_Subset
<1>2. n \in Nat /\ ExistsBijection(1..n, D)
  BY <1>1, FS_CardinalityType
<1>3. \E f \in [1..n -> D] : IsInjective(f)
  BY <1>2 DEF ExistsBijection, Bijection, Injection, IsInjective
<1>4. SetToSeq(D) \in [1..n -> D]
  BY <1>3, Zenon DEF SetToSeq
<1>5. DefaultRoutes \in [1..n -> RouteHosts]
  BY <1>4 DEF DefaultRoutes
<1>6. n \in Nat
  BY <1>2
<1> HIDE DEF n
<1> QED BY <1>5, <1>6

\* The table begins with the default routes.
LEMMA RouteInitInv == RouteInit => RouteInv
<1> SUFFICES ASSUME RouteInit PROVE RouteInv
  OBVIOUS
<1>1. routeTable \in Seq(RouteEntries)
  <2>1. routeTable = [i \in DOMAIN DefaultRoutes |-> Entry(DefaultRoutes[i], "default")]
    BY DEF RouteInit
  <2>2. \A i \in 1..Len(DefaultRoutes) : Entry(DefaultRoutes[i], "default") \in RouteEntries
    BY DefaultsAreList DEF RouteEntries
  <2>3. DOMAIN DefaultRoutes = 1..Len(DefaultRoutes) /\ Len(DefaultRoutes) \in Nat
    BY DefaultsAreList
  <2>4. routeTable \in [1..Len(DefaultRoutes) -> RouteEntries]
    BY <2>1, <2>2, <2>3
  <2> QED BY <2>3, <2>4
<1>2. wildRoutes = Kept(routeTable, {e \in ToSet(routeTable) : e.host.wild})
  BY DEF RouteInit, Wildcards
<1> QED BY <1>1, <1>2, KeptElements DEF RouteInv

\* Every edit of the routes keeps the two lists in step.
LEMMA RouteStepInv == ASSUME RouteInv, RouteNext PROVE RouteInv'
<1> DEFINE Others(entries, h) == {e \in ToSet(entries) : e.host # h}
<1>1. \A h : /\ RoutesWithout(routeTable, h) \in Seq(RouteEntries)
             /\ RemovedWild(h) \in Seq(RouteEntries)
             /\ ToSet(RoutesWithout(routeTable, h)) = Others(routeTable, h)
             /\ ToSet(RemovedWild(h)) = Others(wildRoutes, h)
  BY KeptElements DEF RouteInv, RoutesWithout, RemovedWild
<1>2. \A h : Others(wildRoutes, h) \subseteq Others(routeTable, h)
  BY DEF RouteInv
<1> HIDE DEF Others
<1>3. ASSUME NEW h \in RouteHosts, RemoveRoute(h) PROVE RouteInv'
  BY <1>1, <1>2, <1>3 DEF RemoveRoute, RouteInv
<1>4. ASSUME NEW h \in RouteHosts, AddRoute(h, "custom") PROVE RouteInv'
  <2> DEFINE e == Entry(h, "custom")
  <2>1. e \in RouteEntries
    BY DEF RouteEntries
  <2> HIDE DEF e
  <2>2. /\ routeTable' = Append(RoutesWithout(routeTable, h), e)
        /\ wildRoutes' = IF h.wild THEN Append(RemovedWild(h), e) ELSE RemovedWild(h)
    BY <1>4 DEF AddRoute, e
  <2>3. /\ routeTable' \in Seq(RouteEntries) /\ wildRoutes' \in Seq(RouteEntries)
    BY <1>1, <2>1, <2>2
  <2>4. ToSet(routeTable') = Others(routeTable, h) \cup {e}
    BY <1>1, <2>1, <2>2, ListElements
  <2>5. ToSet(wildRoutes') \subseteq Others(wildRoutes, h) \cup {e}
    <3>1. CASE h.wild
      BY <1>1, <2>1, <2>2, <3>1, ListElements
    <3>2. CASE ~h.wild
      BY <1>1, <2>2, <3>2
    <3> QED BY <3>1, <3>2
  <2> QED BY <1>2, <2>3, <2>4, <2>5 DEF RouteInv
<1>5. CASE UNCHANGED <<routeTable, wildRoutes>>
  BY <1>5 DEF RouteInv
<1> QED BY <1>3, <1>4, <1>5 DEF RouteNext, ServePac, RemovePacRule, AddPacRule

\* A step elsewhere leaves the routes alone.
LEMMA RouteQuiet == ASSUME RouteInv, UNCHANGED routeVars PROVE RouteInv'
BY DEF RouteInv, routeVars

\* What lookup finds is in the table.
LEMMA LookupIsCurrent == RouteInv => RoutesAnswerCurrent
<1> SUFFICES ASSUME RouteInv, NEW h \in RouteHosts, Found(h) # << >>
             PROVE  Head(Found(h)) \in ToSet(routeTable)
  BY DEF RoutesAnswerCurrent, Lookup
<1>1. /\ Exact(h) \in Seq(RouteEntries) /\ ToSet(Exact(h)) \subseteq ToSet(routeTable)
      /\ OnPort(h) \in Seq(RouteEntries) /\ ToSet(OnPort(h)) \subseteq ToSet(routeTable)
  BY KeptElements DEF RouteInv, Exact, OnPort
<1>2. Above(h) \in Seq(RouteEntries) /\ ToSet(Above(h)) \subseteq ToSet(routeTable)
  BY KeptElements DEF RouteInv, Above
<1> DEFINE a == Exact(h)
           b == Above(h)
           c == OnPort(h)
<1>3. Found(h) = (a \o b) \o c
  BY DEF Found
<1> HIDE DEF a, b, c
<1>4. /\ a \in Seq(RouteEntries) /\ b \in Seq(RouteEntries) /\ c \in Seq(RouteEntries)
      /\ ToSet(a) \cup ToSet(b) \cup ToSet(c) \subseteq ToSet(routeTable)
  BY <1>1, <1>2 DEF a, b, c
<1>5. a \o b \in Seq(RouteEntries) /\ ToSet(a \o b) = ToSet(a) \cup ToSet(b)
  <2>1. PICK e : e \in RouteEntries
    <3>1. a # << >> \/ b # << >> \/ c # << >>
      BY <1>3, <1>4
    <3> QED BY <1>4, <3>1
  <2> QED BY <1>4, <2>1, ListElements
<1>6. /\ (a \o b) \o c \in Seq(RouteEntries)
      /\ ToSet((a \o b) \o c) = ToSet(a \o b) \cup ToSet(c)
      /\ Head(Found(h)) \in ToSet((a \o b) \o c)
  <2>1. PICK e : e \in RouteEntries
    <3>1. a # << >> \/ b # << >> \/ c # << >>
      BY <1>3, <1>4
    <3> QED BY <1>4, <3>1
  <2> DEFINE d == a \o b
             f == d \o c
  <2>2. f = Found(h)
    BY <1>3
  <2>s. d \in Seq(RouteEntries)
    BY <1>5
  <2>t. c \in Seq(RouteEntries)
    BY <1>4
  <2> HIDE DEF d
  <2>3. f \in Seq(RouteEntries)
    BY <2>s, <2>t
  <2>4. ToSet(f) = ToSet(d) \cup ToSet(c)
    BY <2>1, <2>s, <2>t, ListElements
  <2> HIDE DEF f
  <2>5. Head(f) \in ToSet(f)
    BY <2>1, <2>2, <2>3, ListElements
  <2> QED BY <2>2, <2>3, <2>4, <2>5 DEF d, f
<1> QED BY <1>4, <1>5, <1>6

-----------------------------------------------------------------------------
\* What the three parts of the proxy keep.
TrafficInv == ProxyInv /\ CaInv /\ RouteInv

\* The proxy, its CA directory and its routes, interleaved in any order, keep
\* what each of them relies on.
THEOREM TrafficInvariant == TrafficSpec => []TrafficInv
<1>1. ProxyInit /\ CaInit /\ RouteInit => TrafficInv
  BY ProxyInitInv, CaInitInv, RouteInitInv DEF TrafficInv
<1> DEFINE Step == \/ ProxyNext /\ UNCHANGED <<caVars, routeVars>>
                   \/ CaNext /\ UNCHANGED <<proxyVars, routeVars>>
                   \/ RouteNext /\ UNCHANGED <<proxyVars, caVars>>
<1>2. ASSUME TrafficInv, [Step]_<<proxyVars, caVars, routeVars>> PROVE TrafficInv'
  <2>1. CASE ProxyNext /\ caVars' = caVars /\ routeVars' = routeVars
    BY <1>2, <2>1, ProxyStepInv, CaQuiet, RouteQuiet DEF TrafficInv
  <2>2. CASE CaNext /\ proxyVars' = proxyVars /\ routeVars' = routeVars
    BY <1>2, <2>2, ProxyQuiet, CaStepInv, RouteQuiet DEF TrafficInv
  <2>3. CASE RouteNext /\ proxyVars' = proxyVars /\ caVars' = caVars
    BY <1>2, <2>3, ProxyQuiet, CaQuiet, RouteStepInv DEF TrafficInv
  <2>4. CASE proxyVars' = proxyVars /\ caVars' = caVars /\ routeVars' = routeVars
    BY <1>2, <2>4, ProxyQuiet, CaQuiet, RouteQuiet DEF TrafficInv
  <2> QED BY <1>2, <2>1, <2>2, <2>3, <2>4
<1> QED BY <1>1, <1>2, PTL DEF TrafficSpec

\* Without fail_open nothing but a refusal or the pipeline's reply reaches a
\* client, a known CA certificate has its own pair on disk unless an upload under
\* its serial failed or its files were changed since, and a lookup answers with a
\* current route: ProxySound holds for any number of connections, uploads,
\* copied files and edits.
THEOREM ProxyIsSound == TrafficSpec => []ProxySound
<1>1. TrafficInv => ProxySound
  BY LookupIsCurrent DEF TrafficInv, ProxyInv, CaInv, AnsweredWell, OnlyPipelineAnswers, ProxySound
<1> QED BY <1>1, TrafficInvariant, PTL
=============================================================================
