---------------------------- MODULE SocDelivery -----------------------------
(***************************************************************************)
(* The SOC event path as the lifespan wires it: detection engines publish  *)
(* raw events on the bounded bus of SOCNormalizer, its consume loop drops  *)
(* events with content fields and hands the others to SinkRouter.fan_out,  *)
(* which sends to each enabled sink in turn.  A sink configured with a     *)
(* buffer is wrapped in SinkBuffer, whose start starts its own retry loop  *)
(* only and whose send_event goes straight to the sink (put has no caller, *)
(* so the queue modelled in SinkBuffer stays empty).                       *)
(***************************************************************************)
EXTENDS Naturals, Sequences, FiniteSets

CONSTANTS
    SinkList,       \* the registered sinks, in order
    Enabled,        \* the sinks with enabled: true
    Wrapped,        \* the sinks with buffer_maxsize > 0
    Reconnecting,   \* the sinks that connect on demand (QRadar)
    Dirty,          \* the events with a content field
    MaxEvents,      \* bound on the events published
    BusMax          \* event_bus_maxsize

Sinks == {SinkList[i] : i \in 1..Len(SinkList)}
Events == 1..MaxEvents

\* The router keeps the sinks in a dict: no sink is in the list twice.
ASSUME SocAssumption ==
    /\ SinkList \in Seq(Sinks)
    /\ \A i, j \in 1..Len(SinkList) : SinkList[i] = SinkList[j] => i = j
    /\ MaxEvents \in Nat
    /\ Enabled \subseteq Sinks
    /\ Wrapped \subseteq Sinks
    /\ Reconnecting \subseteq Sinks
    /\ Dirty \subseteq Events
    /\ BusMax \in Nat \ {0}

VARIABLES
    phase,      \* of the lifespan
    bus,        \* the normalizer's event bus
    published,  \* the last event published
    openSinks,  \* the sinks with a client or connection
    loop,       \* where the consume loop is suspended
    event,      \* the event it handles, 0 for none
    next,       \* index in SinkList of the sink it sends to
    offered,    \* per sink, the events its send_event was called with
    delivered   \* per sink, the events it received

socVars == <<phase, bus, published, openSinks, loop, event, next, offered, delivered>>

SocInit ==
    /\ phase = "starting"
    /\ bus = << >>
    /\ published = 0
    /\ openSinks = {}
    /\ loop = "getting"
    /\ event = 0
    /\ next = 1
    /\ offered = [s \in Sinks |-> << >>]
    /\ delivered = [s \in Sinks |-> {}]

-----------------------------------------------------------------------------

\* start of a sink opens its client; SinkBuffer.start does not call it, and a
\* sink that cannot be reached is still started.
StartSink(s) == s \in Enabled \ Wrapped

\* start_all, and the callback is registered.
StartAll ==
    /\ phase = "starting"
    /\ phase' = "running"
    /\ openSinks' = {s \in Sinks : StartSink(s)}
    /\ UNCHANGED <<bus, published, loop, event, next, offered, delivered>>

\* publish_raw: put_nowait, an event that finds the bus full is dropped.
PublishRaw ==
    /\ published < MaxEvents
    /\ published' = published + 1
    /\ bus' = IF Len(bus) < BusMax THEN Append(bus, published + 1) ELSE bus
    /\ UNCHANGED <<phase, openSinks, loop, event, next, offered, delivered>>

\* Mutated Normalize: the content fields are stripped and the event kept.
Normalize_Keeps(e) == TRUE

\* _normalize: an event with a content field is dropped.
Normalize(e) == e \notin Dirty

\* The loop takes an event.  Before the callback is registered it is handed
\* to nobody.
Consume ==
    /\ loop = "getting"
    /\ bus # << >>
    /\ bus' = Tail(bus)
    /\ IF Normalize(Head(bus)) /\ phase # "starting"
       THEN loop' = "sending" /\ event' = Head(bus) /\ next' = 1
       ELSE UNCHANGED <<loop, event, next>>
    /\ UNCHANGED <<phase, published, openSinks, offered, delivered>>

\* Mutated AfterSend: a sink that fails ends the fan-out.
AfterSend_Breaks(ok) == IF ok THEN next + 1 ELSE Len(SinkList) + 1

\* fan_out catches what a sink raises and goes on with the next one.
AfterSend(ok) == next + 1

\* send_event of a sink (through SinkBuffer or not): False without a client.
SendToSink ==
    /\ loop = "sending"
    /\ next <= Len(SinkList)
    /\ LET s == SinkList[next]
       IN  IF s \in Enabled
           THEN /\ offered' = [offered EXCEPT ![s] = Append(@, event)]
                /\ \/ /\ s \in openSinks \cup Reconnecting
                      /\ delivered' = [delivered EXCEPT ![s] = @ \cup {event}]
                      /\ next' = AfterSend(TRUE)
                   \/ /\ UNCHANGED delivered
                      /\ next' = AfterSend(FALSE)
           ELSE /\ next' = next + 1
                /\ UNCHANGED <<offered, delivered>>
    /\ UNCHANGED <<phase, bus, published, openSinks, loop, event>>

FanOutEnds ==
    /\ loop = "sending"
    /\ next > Len(SinkList)
    /\ loop' = "getting"
    /\ event' = 0
    /\ UNCHANGED <<phase, bus, published, openSinks, next, offered, delivered>>

\* Shutdown closes the sinks first; the normalizer may still be sending.
StopAll ==
    /\ phase = "running"
    /\ phase' = "sinks stopped"
    /\ openSinks' = {}
    /\ UNCHANGED <<bus, published, loop, event, next, offered, delivered>>

\* The consume loop is cancelled where it waits and the bus is drained.
StopNormalizer ==
    /\ phase = "sinks stopped"
    /\ phase' = "stopped"
    /\ loop' = "off"
    /\ event' = 0
    /\ bus' = << >>
    /\ UNCHANGED <<published, openSinks, next, offered, delivered>>

SocDone == phase = "stopped" /\ published = MaxEvents /\ UNCHANGED socVars

SocNext ==
    \/ StartAll \/ PublishRaw \/ Consume \/ SendToSink \/ FanOutEnds
    \/ StopAll \/ StopNormalizer \/ SocDone

SocSpec == SocInit /\ [][SocNext]_socVars

\* The event loop runs the consume loop, and every send has a timeout.
SocFairSpec == SocSpec /\ WF_socVars(Consume) /\ WF_socVars(SendToSink) /\ WF_socVars(FanOutEnds)
-----------------------------------------------------------------------------
(***************************************************************************)
(* Properties.                                                             *)
(***************************************************************************)

\* No event that carries content leaves the process, whatever the order of
\* startup, publishing and shutdown (_normalize).
ContentNeverForwarded ==
    \A s \in Sinks : delivered[s] \cap Dirty = {}

\* A sink that fails does not cost the others an event: between two events
\* every enabled sink was offered the same events, in the same order, until
\* the normalizer was stopped (fan_out).
SinksSeeTheSame ==
    loop = "getting" => \A s, q \in Enabled : offered[s] = offered[q]

\* Every enabled sink gets the same events, and none with content.
SinksServedAlike ==
    /\ ContentNeverForwarded
    /\ SinksSeeTheSame

-----------------------------------------------------------------------------
(***************************************************************************)
(* Said of the code and not kept by it; each comment names the exception.  *)
(***************************************************************************)

\* What start promises: while the application runs, enabled sinks can send.
\* Except a buffered one: SinkBuffer.start does not start the sink it wraps.
EnabledSinksCanSend ==
    phase = "running" => Enabled \subseteq openSinks \cup Reconnecting

\* What the buffer and its retries are for: an event of a running application
\* that was offered to an enabled, buffered sink and not received is not
\* forgotten: it is sent again.  Except that nothing puts it in the buffer: the
\* router calls send_event, which goes straight to the sink.
Offers(s, e) == Cardinality({i \in 1..Len(offered[s]) : offered[s][i] = e})

OutageIsRetried ==
    \A s \in Enabled \cap Wrapped, e \in Events :
        Offers(s, e) = 1 /\ e \notin delivered[s] /\ phase = "running"
        ~> e \in delivered[s] \/ Offers(s, e) > 1 \/ phase # "running"
=============================================================================
