----------------------------- MODULE SinkBuffer -----------------------------
(***************************************************************************)
(* SinkBuffer: the bounded queue in front of a SIEM sink and the task that *)
(* empties it with retries.  Events are numbered in the order of their     *)
(* put.  fate, sends and received record what became of them; they are not *)
(* state of the buffer.                                                    *)
(***************************************************************************)
EXTENDS Naturals, Sequences, FiniteSets

CONSTANTS
    maxsize,
    max_retries,
    MaxEntries,      \* bound on the events put
    MaxStarts       \* bound on the starts

ASSUME BufferAssumption ==
    /\ maxsize \in Nat \ {0}
    /\ max_retries \in Nat
    /\ MaxEntries \in Nat
    /\ MaxStarts \in Nat

VARIABLES
    queue,
    counter,        \* the last sequence number given
    sendLoop,           \* where the retry loop is suspended
    hand,           \* the event it holds, 0 for none
    attempt,        \* the running attempt, from 0
    unfinished,     \* the queue's count of items without task_done
    starts,
    fate,           \* what became of each event
    sends,          \* send_event calls made for each event
    received        \* what the sink received, in order, repeats in a row once

bufferVars == <<queue, counter, sendLoop, hand, attempt, unfinished, starts, fate,
          sends, received>>

Entries == 1..MaxEntries

BufferInit ==
    /\ queue = << >>
    /\ counter = 0
    /\ sendLoop = "off"
    /\ hand = 0
    /\ attempt = 0
    /\ unfinished = 0
    /\ starts = 0
    /\ fate = [e \in Entries |-> "none"]
    /\ sends = [e \in Entries |-> 0]
    /\ received = << >>

-----------------------------------------------------------------------------
\* Mutated Evict: the newest event makes room.
Evict_Newest(q) == [gone |-> q[Len(q)], rest |-> SubSeq(q, 1, Len(q) - 1), tasks |-> 1]

\* Mutated Evict: the evicted event is not marked done.
Evict_NoTaskDone(q) == [gone |-> q[1], rest |-> Tail(q), tasks |-> 0]

\* get_nowait and task_done on a full queue.
Evict(q) == [gone |-> q[1], rest |-> Tail(q), tasks |-> 1]

\* put: never waits, a full queue loses its oldest event.
Put ==
    /\ counter < MaxEntries
    /\ counter' = counter + 1
    /\ IF Len(queue) < maxsize
       THEN /\ queue' = Append(queue, counter + 1)
            /\ unfinished' = unfinished + 1
            /\ fate' = [fate EXCEPT ![counter + 1] = "queued"]
       ELSE LET e == Evict(queue)
            IN  /\ queue' = Append(e.rest, counter + 1)
                /\ unfinished' = unfinished - e.tasks + 1
                /\ fate' = [fate EXCEPT ![counter + 1] = "queued",
                                        ![e.gone] = "overflowed"]
    /\ UNCHANGED <<sendLoop, hand, attempt, starts, sends, received>>

\* start_all starts a sink once; a stopped buffer may be started again.
Start ==
    /\ sendLoop = "off"
    /\ starts < MaxStarts
    /\ starts' = starts + 1
    /\ sendLoop' = "getting"
    /\ UNCHANGED <<queue, counter, hand, attempt, unfinished, fate, sends, received>>

Get ==
    /\ sendLoop = "getting"
    /\ queue # << >>
    /\ hand' = Head(queue)
    /\ queue' = Tail(queue)
    /\ attempt' = 0
    /\ sendLoop' = "sending"
    /\ fate' = [fate EXCEPT ![Head(queue)] = "hand"]
    /\ UNCHANGED <<counter, unfinished, starts, sends, received>>

\* Mutated Finish: the loop ends with an event it gives up on.
Finish_Breaks(f) ==
    /\ fate' = [fate EXCEPT ![hand] = f]
    /\ unfinished' = unfinished - 1
    /\ hand' = 0
    /\ sendLoop' = IF f = "dropped" THEN "off" ELSE "getting"
    /\ UNCHANGED <<queue, attempt>>

\* The loop is done with the event: task_done.
Finish(f) ==
    /\ fate' = [fate EXCEPT ![hand] = f]
    /\ unfinished' = unfinished - 1
    /\ hand' = 0
    /\ sendLoop' = "getting"
    /\ UNCHANGED <<queue, attempt>>

\* Mutated Retry: the event goes back to the end of the queue.
Retry_Requeues ==
    /\ queue' = Append(queue, hand)
    /\ fate' = [fate EXCEPT ![hand] = "queued"]
    /\ hand' = 0
    /\ sendLoop' = "getting"
    /\ UNCHANGED <<attempt, unfinished>>

\* The attempt failed and is not the last one.
Retry ==
    /\ sendLoop' = "sleeping"
    /\ UNCHANGED <<queue, hand, attempt, unfinished, fate>>

\* Mutated LastAttempt: the retries are counted from one.
LastAttempt_OffByOne == attempt + 1 >= max_retries

\* range(max_retries + 1) is exhausted.
LastAttempt == attempt >= max_retries

\* The sink got the event in hand, perhaps once more.
Received == IF received # << >> /\ received[Len(received)] = hand
            THEN received ELSE Append(received, hand)

\* One attempt.  A send that fails or answers False may have been received.
Send ==
    /\ sendLoop = "sending"
    /\ sends' = [sends EXCEPT ![hand] = @ + 1]
    /\ \/ /\ received' = Received
          /\ Finish("forwarded")
       \/ /\ received' \in {received, Received}
          /\ IF LastAttempt THEN Finish("dropped") ELSE Retry
    /\ UNCHANGED <<counter, starts>>

\* The backoff delay is over.
Wake ==
    /\ sendLoop = "sleeping"
    /\ attempt' = attempt + 1
    /\ sendLoop' = "sending"
    /\ UNCHANGED <<queue, counter, hand, unfinished, starts, fate, sends, received>>

\* stop: the loop is cancelled where it waits, an event in hand is lost
\* without task_done, then the queue is drained.
Stop ==
    /\ sendLoop # "off"
    /\ sendLoop' = "off"
    /\ hand' = 0
    /\ queue' = << >>
    /\ unfinished' = unfinished - Len(queue)
    /\ fate' = [e \in Entries |-> CASE e = hand -> "lost"
                                   [] fate[e] = "queued" -> "drained"
                                   [] OTHER -> fate[e]]
    /\ \/ UNCHANGED <<sends, received>>
       \/ /\ sendLoop = "sending"
          /\ sends' = [sends EXCEPT ![hand] = @ + 1]
          /\ received' \in {received, Received}
    /\ UNCHANGED <<counter, attempt, starts>>

BufferDone == counter = MaxEntries /\ starts = MaxStarts /\ UNCHANGED bufferVars

BufferNext == Put \/ Start \/ Get \/ Send \/ Wake \/ Stop \/ BufferDone

BufferSpec == BufferInit /\ [][BufferNext]_bufferVars

\* The event loop runs the retry task; send_event has a timeout and the
\* backoff delay is bounded.
BufferFairSpec == BufferSpec /\ WF_bufferVars(Get) /\ WF_bufferVars(Send) /\ WF_bufferVars(Wake)
-----------------------------------------------------------------------------
(***************************************************************************)
(* Properties.                                                             *)
(***************************************************************************)

\* Overflow costs the oldest events: what waits is always the newest run of
\* events, with no gap (put).
QueueHoldsNewest ==
    \A i \in 1..Len(queue) : queue[i] = counter - (Len(queue) - i)

\* The sink never sees an event after a later one, whatever is retried,
\* evicted or redelivered.
ReceivedInOrder ==
    \A i, j \in 1..Len(received) : i < j => received[i] <= received[j]

\* An event is given up on only after max_retries + 1 attempts; one that was
\* forwarded or lost had no more than that.
DroppedAfterAllAttempts ==
    \A e \in Entries : fate[e] = "dropped" => sends[e] = max_retries + 1

\* task_done is called once per event, except for the one that stop takes out
\* of the loop's hand (the count of asyncio.Queue).
TasksBalanced ==
    unfinished = Len(queue) + (IF hand = 0 THEN 0 ELSE 1)
                 + Cardinality({e \in Entries : fate[e] = "lost"})

\* The queue of a sink over evictions, retries, stops and restarts: no gap, no
\* reordering, no early drop, no task unaccounted for.
QueueOrderly ==
    /\ QueueHoldsNewest
    /\ ReceivedInOrder
    /\ DroppedAfterAllAttempts
    /\ TasksBalanced

\* While the loop runs, no event stays in the queue for ever, even if the sink
\* never answers.
QueuedEventsLeave ==
    \A e \in Entries : fate[e] = "queued" /\ sendLoop # "off" ~> fate[e] # "queued"
=============================================================================
