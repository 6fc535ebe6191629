----------------------------- MODULE MCService ------------------------------
(* TLC instance of what runs around the pipeline: the process from start to    *)
(* stop, the SOC delivery it starts (router, buffer, transports), the agents   *)
(* of an installation and the proxy.  They share no variable, so a behaviour   *)
(* lets one part run and the others rest in an initial state.                  *)
EXTENDS Lifespan, SocDelivery, SinkBuffer, SinkTransports, Operations, TrafficProxy

CONSTANTS k1, k2, k3    \* three sinks
VARIABLE part

sinkVars == <<transportVars, healthVars, built>>
agentVars == <<applianceVars, watchVars, endpointVars>>
trafficVars == <<proxyVars, caVars, routeVars>>
serviceVars == <<lifeVars, socVars, bufferVars, sinkVars, agentVars, trafficVars, part>>

\* A process that its first step refused.
NotStarted ==
    /\ boot = CHOOSE b \in Boots : TRUE
    /\ life = "failed" /\ at = 1 /\ tries = 0
    /\ open = {} /\ attr = {} /\ broke = FALSE /\ ready = "unknown"

ServiceInit ==
    /\ part \in {"life", "soc", "buffer", "transports", "sinkfile", "appliance", "watch",
                 "endpoint", "proxy", "ca", "routes"}
    /\ IF part = "life" THEN LifeInit ELSE NotStarted
    /\ SocInit /\ BufferInit /\ TransportInit
    /\ ApplianceInit /\ WatchInit /\ EndpointInit
    /\ ProxyInit /\ CaInit /\ RouteInit
    /\ part # "transports" => kind = CHOOSE k \in Kinds : TRUE
    /\ part # "appliance" => composeImage = [f \in ComposeFiles |-> FirstImage]
    /\ part # "proxy" => proxyConf = [mode |-> "reverse", failOpen |-> FALSE, firewall |-> TRUE]

\* The router and the buffer end in a state of their own; the others may rest.
Rests ==
    /\ part \notin {"soc", "buffer"}
    /\ UNCHANGED <<lifeVars, socVars, bufferVars, sinkVars, agentVars, trafficVars>>

ServiceNext ==
    /\ UNCHANGED part
    /\ \/ part = "life" /\ LifeNext /\ UNCHANGED <<socVars, bufferVars, sinkVars, agentVars, trafficVars>>
       \/ /\ UNCHANGED <<lifeVars, agentVars, trafficVars>>
          /\ \/ part = "soc" /\ SocNext /\ UNCHANGED <<bufferVars, sinkVars>>
             \/ part = "buffer" /\ BufferNext /\ UNCHANGED <<socVars, sinkVars>>
             \/ part = "transports" /\ (TransportNext \/ HealthNext) /\ UNCHANGED <<socVars, bufferVars>>
             \/ part = "sinkfile" /\ ConfigNext /\ UNCHANGED <<socVars, bufferVars>>
       \/ /\ UNCHANGED <<lifeVars, socVars, bufferVars, sinkVars, trafficVars>>
          /\ \/ part = "appliance" /\ ApplianceNext /\ UNCHANGED <<watchVars, endpointVars>>
             \/ part = "watch" /\ WatchNext /\ UNCHANGED <<applianceVars, endpointVars>>
             \/ part = "endpoint" /\ EndpointNext /\ UNCHANGED <<applianceVars, watchVars>>
       \/ /\ UNCHANGED <<lifeVars, socVars, bufferVars, sinkVars, agentVars>>
          /\ \/ part = "proxy" /\ ProxyNext /\ UNCHANGED <<caVars, routeVars>>
             \/ part = "ca" /\ CaNext /\ UNCHANGED <<proxyVars, routeVars>>
             \/ part = "routes" /\ RouteNext /\ UNCHANGED <<proxyVars, caVars>>
       \/ Rests

\* The fairness of the part that runs.
ServiceFair ==
    /\ WF_lifeVars(part = "life" /\ LifeStep)
    /\ WF_bufferVars(part = "buffer" /\ Get)
    /\ WF_bufferVars(part = "buffer" /\ Send)
    /\ WF_bufferVars(part = "buffer" /\ Wake)

ServiceSpec == ServiceInit /\ [][ServiceNext]_serviceVars /\ ServiceFair
-----------------------------------------------------------------------------
MCBoots == [mode : {"full", "proxy-only", "transparent", "unknown"}, ca : {"none", "valid"},
            autostart : BOOLEAN, volume : BOOLEAN,
            kms : {"local", "vault"}, creds : BOOLEAN, prod : BOOLEAN]

ThreeSinks == << k1, k2, k3 >>

\* Two of three events share a document id; sinks that are whole, disabled and
\* without their secret.
MCDocId == [e \in SinkEvents |-> IF e = "e3" THEN "d2" ELSE "d1"]
Sink(n, e, f) == [name |-> n, enabled |-> e, fields |-> f]
MCDefinitions == SUBSET {Sink("a", TRUE, {"plain"}), Sink("b", FALSE, {"missing"}), Sink("c", TRUE, {"unresolved"})}

\* Image references with and without the registry prefix.
Image(k, n) == [kind |-> k, tag |-> n]
MCImages == {Image("registry", 1), Image("plain", 2), Image("bare", 3)}
MCFirst == Image("registry", 1)

\* Traffic: to a provider or not, pinned, with a body the pipeline reads or not.
Req(h, p, pin, b, l) == [host |-> h, path |-> p, pinned |-> pin, body |-> b, long |-> l]
MCTraffic == {Req("ai", "ai", FALSE, "json", FALSE), Req("ai", "ai", FALSE, "json", TRUE),
              Req("ai", "ai", TRUE, "json", FALSE), Req("ai", "odd", FALSE, "json", FALSE),
              Req("ai", "ai", FALSE, "text", FALSE), Req("other", "ai", FALSE, "json", FALSE)}
Host(n, c, w, u, p, d) == [name |-> n, caps |-> c, wild |-> w, under |-> u, port |-> p, default |-> d]
MCHosts == {Host("api", FALSE, FALSE, "org", 0, TRUE), Host("api", TRUE, FALSE, "org", 0, FALSE),
            Host("org", FALSE, TRUE, "", 0, TRUE), Host("local", FALSE, FALSE, "", 1, TRUE)}
=============================================================================
