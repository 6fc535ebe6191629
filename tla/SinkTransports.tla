--------------------------- MODULE SinkTransports ---------------------------
(***************************************************************************)
(* How the sinks deliver an event, below the buffer: the HTTP sinks        *)
(* (Splunk, Datadog, webhook), the Elastic bulk sink with its document     *)
(* identifiers, the Sentinel sink with its cached OAuth token, and the     *)
(* QRadar sink on a TCP connection; the health monitor's probes; and the   *)
(* configuration the sinks are built from.                                 *)
(***************************************************************************)
EXTENDS Naturals, Sequences, FiniteSets

CONSTANTS
    Kinds,          \* subset of the sink types: "splunk", "datadog", "webhook",
                    \* "elastic", "sentinel", "qradar"
    SinkEvents,
    DocId,          \* event -> tenant_session_type, the Elastic identifier
    MaxSends,       \* calls of send_event
    MaxTime,
    TokenLife, TokenBuffer,
    Timeout,        \* the longest a request is under way
    Definitions     \* sets of [name, enabled, fields]: sinks of a file

\* A token outlives the request for it and the one that uses it.
ASSUME TransportAssumption ==
    /\ Timeout \in Nat /\ TokenBuffer \in Nat /\ TokenLife \in Nat
    /\ Timeout <= TokenBuffer
    /\ 2 * Timeout < TokenLife

VARIABLES
    kind,
    client,         \* whether start has run since the last stop
    sending,        \* the call under way
    remote,         \* event -> how often the collector stored it
    acked,          \* events a call returned True for
    token,          \* Sentinel: [held, expiry]
    line,           \* QRadar: "none", "up", or "dead" (closed by the peer)
    clock,
    posts

transportVars == <<kind, client, sending, remote, acked, token, line, clock, posts>>

VARIABLES
    probed,         \* SinkHealthMonitor._status_cache: "none" or reachable
    monitoring

healthVars == <<probed, monitoring>>

VARIABLE built      \* outcome of load and build_sinks

NoToken == [held |-> FALSE, expiry |-> 0]
NotSending == [pc |-> "rest"]

TransportInit ==
    /\ kind \in Kinds
    /\ client = FALSE /\ sending = NotSending
    /\ remote = [e \in SinkEvents |-> 0] /\ acked = {}
    /\ token = NoToken /\ line = "none" /\ clock = 0 /\ posts = 0
    /\ probed = "none" /\ monitoring = FALSE
    /\ built = "none"

-----------------------------------------------------------------------------
\* start of the QRadar sink connects, or leaves that to the first event.
StartTransport ==
    /\ ~client /\ client' = TRUE
    /\ line' \in IF kind = "qradar" THEN {"none", "up"} ELSE {"none"}
    /\ UNCHANGED <<kind, sending, remote, acked, token, clock, posts, healthVars, built>>

StopTransport ==
    /\ client /\ client' = FALSE /\ line' = "none"
    /\ UNCHANGED <<kind, sending, remote, acked, token, clock, posts, healthVars, built>>

\* Time passes, which only Sentinel looks at; a request under way ends by its
\* timeout.
Tick ==
    /\ kind = "sentinel" /\ clock < MaxTime /\ clock' = clock + 1
    /\ sending.pc \in {"token", "post"} => clock - sending.since < Timeout
    /\ UNCHANGED <<kind, client, sending, remote, acked, token, line, posts, healthVars, built>>

\* The connection is closed by the peer: nothing tells the sink.
PeerCloses ==
    /\ line = "up" /\ line' = "dead"
    /\ UNCHANGED <<kind, client, sending, remote, acked, token, clock, posts, healthVars, built>>

\* Mutated TokenUsable: up to the very expiry.
TokenUsable_NoBuffer == token.held /\ clock < token.expiry

TokenUsable == token.held /\ clock + TokenBuffer < token.expiry

\* send_event: the HTTP sinks need a client, QRadar connects on its own.
BeginSend(e) ==
    /\ sending.pc = "rest" /\ posts < MaxSends /\ posts' = posts + 1
    /\ client \/ kind = "qradar"
    /\ sending' = [pc |-> IF kind = "sentinel" /\ ~TokenUsable THEN "token" ELSE "post",
                   event |-> e, since |-> clock]
    /\ UNCHANGED <<kind, client, remote, acked, token, line, clock, healthVars, built>>

\* _acquire_token: the expiry counts from before the request.
AcquireToken ==
    /\ sending.pc = "token"
    /\ \/ /\ token' = [held |-> TRUE, expiry |-> sending.since + TokenLife]
          /\ sending' = [sending EXCEPT !.pc = "post", !.since = clock]
       \/ sending' = NotSending /\ UNCHANGED token
    /\ UNCHANGED <<kind, client, remote, acked, line, clock, posts, healthVars, built>>

\* What the collector does with a post: it stores it and answers, stores it and
\* the answer is lost, or refuses it.  Elastic creates a document once.
Exists(e) == \E x \in SinkEvents : DocId[x] = DocId[e] /\ remote[x] > 0
Stores(e) == ~(kind = "elastic" /\ Exists(e))

\* Mutated Accepted: a bulk answer counts by its status alone.
Accepted_StatusOnly(e) == TRUE

\* A bulk answer that reports errors is not a success.
Accepted(e) == Stores(e)

Post ==
    /\ sending.pc = "post"
    /\ \E outcome \in {"answered", "lost", "refused"} :
         /\ remote' = IF outcome # "refused" /\ client /\ Stores(sending.event)
                      THEN [remote EXCEPT ![sending.event] = @ + 1] ELSE remote
         /\ acked' = IF outcome = "answered" /\ client /\ Accepted(sending.event)
                     THEN acked \union {sending.event} ELSE acked
    /\ sending' = NotSending
    /\ UNCHANGED <<kind, client, token, line, clock, posts, healthVars, built>>

PostSplunk == kind = "splunk" /\ Post
PostDatadog == kind = "datadog" /\ Post
PostElastic == kind = "elastic" /\ Post
PostSentinel == kind = "sentinel" /\ Post

\* A template that does not render ends the call before the request.
PostWebhook ==
    /\ kind = "webhook"
    /\ \/ Post
       \/ /\ sending.pc = "post" /\ sending' = NotSending
          /\ UNCHANGED <<kind, client, remote, acked, token, line, clock, posts, healthVars, built>>

\* _ensure_connection: an open connection is taken as good.
EnsureConnection ==
    /\ sending.pc = "post" /\ kind = "qradar" /\ line = "none"
    /\ \/ line' = "up" /\ UNCHANGED sending
       \/ UNCHANGED line /\ sending' = NotSending
    /\ UNCHANGED <<kind, client, remote, acked, token, clock, posts, healthVars, built>>

\* _send_tcp: the first line after the peer closed is still accepted, or the
\* error is noticed and the connection forgotten.
WriteLine ==
    /\ sending.pc = "post" /\ kind = "qradar" /\ line # "none"
    /\ \/ /\ remote' = IF line = "up" THEN [remote EXCEPT ![sending.event] = @ + 1] ELSE remote
          /\ acked' = acked \union {sending.event} /\ UNCHANGED line
       \/ line' = "none" /\ UNCHANGED <<remote, acked>>
    /\ sending' = NotSending
    /\ UNCHANGED <<kind, client, token, clock, posts, healthVars, built>>

TransportNext ==
    \/ StartTransport \/ StopTransport \/ Tick \/ PeerCloses
    \/ \E e \in SinkEvents : BeginSend(e)
    \/ AcquireToken \/ PostSplunk \/ PostDatadog \/ PostElastic \/ PostSentinel \/ PostWebhook
    \/ EnsureConnection \/ WriteLine

-----------------------------------------------------------------------------
(* Health monitor. *)

StartMonitor ==
    /\ ~monitoring /\ monitoring' = TRUE
    /\ UNCHANGED <<transportVars, probed, built>>

\* stop leaves the last statuses in the cache.
StopMonitor ==
    /\ monitoring /\ monitoring' = FALSE
    /\ UNCHANGED <<transportVars, probed, built>>

\* health_check of each sink, where up says whether the request it makes
\* succeeds: a usable cached token is all Sentinel asks for, and QRadar opens a
\* connection of its own.
SplunkReachable(up) == client /\ up
ElasticReachable(up) == client /\ up
DatadogReachable(up) == client /\ up
WebhookReachable(up) == client /\ up
SentinelReachable(up) == client /\ (TokenUsable \/ up)
QRadarReachable(up) == up

Reachable(up) ==
    CASE kind = "splunk" -> SplunkReachable(up) [] kind = "elastic" -> ElasticReachable(up)
      [] kind = "datadog" -> DatadogReachable(up) [] kind = "webhook" -> WebhookReachable(up)
      [] kind = "sentinel" -> SentinelReachable(up) [] OTHER -> QRadarReachable(up)

\* One round of _probe_loop; an exception counts as unreachable.
Probe ==
    /\ monitoring
    /\ \E up \in BOOLEAN : probed' = IF Reachable(up) THEN "up" ELSE "down"
    /\ UNCHANGED <<transportVars, monitoring, built>>

\* get_aggregate_status over the sinks and their default status.
Aggregate == IF probed = "up" THEN "healthy" ELSE "degraded"

HealthNext == StartMonitor \/ StopMonitor \/ Probe

-----------------------------------------------------------------------------
(* Configuration. *)

\* _resolve_secret: a field is plain, a reference that resolves, or one whose
\* variable is unset or file is missing, unreadable or outside the directory.
Resolves(d) == "unresolved" \notin d.fields
\* _validate_sink and the builders look for the same required fields.
Complete(d) == "missing" \notin d.fields

\* load checks enabled sinks, and the first that fails ends it.
Loads(defs) == \A d \in defs : d.enabled => Resolves(d) /\ Complete(d)

\* build_sinks makes every sink, disabled ones too.
BuildSinks(defs) ==
    /\ built = "none" /\ ~client /\ posts = 0
    /\ built' = IF ~Loads(defs) THEN "config error"
                ELSE IF \A d \in defs : Complete(d) THEN "built" ELSE "key error"
    /\ UNCHANGED <<transportVars, healthVars>>

ConfigNext == \E defs \in Definitions : BuildSinks(defs)

SinkNext == TransportNext \/ HealthNext \/ ConfigNext

SinkSpec == TransportInit /\ [][SinkNext]_<<transportVars, healthVars, built>>

-----------------------------------------------------------------------------
\* An event a sink over HTTP reported as delivered is stored at the collector,
\* through lost answers, retries, stops, and documents of the same identifier.
AckedMeansStored == kind # "qradar" => \A e \in acked : remote[e] > 0

\* A cached token is still valid when the request it was put into arrives.
TokenValidOnArrival ==
    kind = "sentinel" /\ sending.pc = "post" => clock < token.expiry

\* A sink reports as sent what the remote side has, and asks with a token that
\* is good when it arrives.
DeliveryHonest ==
    /\ AckedMeansStored
    /\ TokenValidOnArrival

(* Said of the code and not kept by it. *)

\* A line the QRadar sink reported as sent is stored.  It fails: a line written
\* to a connection the peer has closed counts as sent.
LineMeansStored == kind = "qradar" => \A e \in acked : remote[e] > 0

\* An event the collector has is reported as delivered in the end: a retry whose
\* first answer was lost never is at Elastic, and neither is a second event of
\* the same session and type.  It fails.
StoredIsReported == kind = "elastic" /\ posts = MaxSends /\ sending.pc = "rest" /\ Cardinality(acked) = 0
                        => \A e \in SinkEvents : remote[e] = 0

\* A sink reported as healthy has a client.  It fails once the sink stopped, and
\* after the monitor did.
HealthyIsCurrent == Aggregate = "healthy" => client \/ kind = "qradar"

\* A disabled sink does not keep the others from starting.  It fails: its
\* fields are read although they were not validated.
DisabledNeverBreaks == built # "key error"
=============================================================================
