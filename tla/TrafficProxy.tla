------------------------------ MODULE TrafficProxy ------------------------------
(***************************************************************************)
(* The network edge of the gateway, in three parts that share no state:    *)
(*                                                                         *)
(*  - the transparent proxy: connections that pass the firewall, the       *)
(*    pinning check and the traffic detector before their body reaches     *)
(*    the masking pipeline, with the cached certificates of the            *)
(*    intercepted domains (proxy/transparent_proxy.py, tls_interceptor.py, *)
(*    detection.py, pipeline_dispatcher.py);                               *)
(*  - the CA directory: uploads that fail half way, files copied in by an  *)
(*    operator, the debounced watcher, and the TLS contexts built from     *)
(*    the files (proxy/ca_manager.py, tls.py, mitm_handler.py);            *)
(*  - the route table, the PAC file and the gateway's own traffic          *)
(*    detector (gateway/router.py, proxy/pac.py, gateway/detector.py).     *)
(***************************************************************************)
EXTENDS Naturals, Sequences, FiniteSets, SequencesExt, Lists

CONSTANTS Conns,          \* connections the proxy serves
          ProxyInputs,    \* what a client may send: see ProxyRequest
          CertTTL,        \* cert_ttl_seconds
          MaxProxyTime,   \* bound of the proxy's clock
          Serials,        \* serial numbers of CA certificates, a set of Nat
          Versions,       \* certificates one serial may have, with their keys
          MaxCaSteps,     \* bound of the operations on the CA directory
          Debounce,       \* debounce interval of the file watcher
          RouteHosts,     \* host names: [name, caps, wild, under, port]
          PacPatterns,    \* domain patterns of custom PAC rules
          MaxEdits        \* bound of the edits of routes and PAC rules

ASSUME ProxyAssumption == /\ CertTTL \in Nat \ {0}
                          /\ Debounce \in Nat
                          /\ Serials \subseteq Nat \ {0}
                          /\ Versions \subseteq Nat \ {0, 99}
                          /\ IsFiniteSet(RouteHosts)

VARIABLES proxyConf,      \* which proxy, fail_open, whether a firewall is wired
          listening,      \* _server is not None
          conn,           \* per connection: where it is and what it got
          leaf,           \* _context_cache: domain -> expiry of its certificate
          proxyTime,
          caFiles,        \* per serial: what the .pem and the .key hold
          caKnown,        \* _certs: serial -> the certificate known by it, 0 when none
          caTouched,      \* serials whose files changed since, and not by a success
          caActive,       \* _active_serial, 0 when None
          caWatch,        \* _last_trigger and the watcher's clock
          tls,            \* TLSInterceptor of tls.py: paths, certificate, context
          caSteps,
          routeTable,     \* _entries
          wildRoutes,     \* _wildcard_patterns
          pac,            \* custom rules, the cached file and its hash
          edits

proxyVars == <<proxyConf, listening, conn, leaf, proxyTime>>
caVars    == <<caFiles, caKnown, caTouched, caActive, caWatch, tls, caSteps>>
routeVars == <<routeTable, wildRoutes, pac, edits>>

----------------------------------------------------------------------------
(* The transparent proxy.                                                   *)

ProxyRequest == [host   : {"ai", "other", "none"},  \* is the host an AI provider
                 path   : {"ai", "odd"},            \* does the path look like an API call
                 pinned : BOOLEAN,                  \* markers, or no host in the first 512 bytes
                 body   : {"json", "broken", "text", "empty"},
                 long   : BOOLEAN]                  \* larger than the one read of 65536 bytes

NoRequest == [host |-> "none", path |-> "odd", pinned |-> FALSE,
              body |-> "empty", long |-> FALSE]
NoAnswer == [status |-> 0, body |-> "none"]

\* A single read cuts a long body, which is then no JSON any more.
BodyRead(r) == IF r.long /\ r.body = "json" THEN "broken" ELSE r.body

IsAi(r) == r.host = "ai" /\ r.path = "ai"

Idling == [at |-> "idle", req |-> NoRequest, resp |-> NoAnswer,
           screened |-> FALSE, piped |-> FALSE, cert |-> 0]

ProxyInit ==
    /\ proxyConf \in [mode : {"transparent", "reverse"}, failOpen : BOOLEAN, firewall : BOOLEAN]
    /\ listening = FALSE
    /\ conn = [c \in Conns |-> Idling]
    /\ leaf = [h \in {"ai", "other"} |-> 0]
    /\ proxyTime = 0

ProxyStart == /\ ~listening
              /\ listening' = TRUE
              /\ UNCHANGED <<proxyConf, conn, leaf, proxyTime>>

ProxyStop == /\ listening
             /\ listening' = FALSE
             /\ UNCHANGED <<proxyConf, conn, leaf, proxyTime>>

At(c, step) == conn[c].at = step
Respond(c, status, body) ==
    conn' = [conn EXCEPT ![c].at = "done", ![c].resp = [status |-> status, body |-> body]]
Go(c, step) == conn' = [conn EXCEPT ![c].at = step]

\* One read and one parse. Nothing read in time, or nothing at all, is an
\* exception and answered with a bare 500.
Accept(c) ==
    /\ proxyConf.mode = "transparent" /\ listening /\ At(c, "idle")
    /\ \/ \E r \in ProxyInputs : conn' = [conn EXCEPT ![c].at = "firewall", ![c].req = r]
       \/ Respond(c, 500, "error")
    /\ UNCHANGED <<proxyConf, listening, leaf, proxyTime>>

\* The reverse proxy hands every body to the dispatcher, without a firewall
\* or a detector, and answers CONNECT with a tunnel to the named target.
ReverseHandle(c) ==
    /\ proxyConf.mode = "reverse" /\ At(c, "idle")
    /\ \/ \E r \in ProxyInputs : conn' = [conn EXCEPT ![c].at = "dispatch", ![c].req = r]
       \/ Respond(c, 200, "tunnel")
    /\ UNCHANGED <<proxyConf, listening, leaf, proxyTime>>

\* certificate pinning and classification: no await between the two
Screen_PinnedPasses(r) ==
    IF r.pinned THEN "echo"
    ELSE IF IsAi(r) THEN "intercept"
    ELSE IF proxyConf.failOpen THEN "echo" ELSE "block"

Screen(r) ==
    IF ~r.pinned /\ IsAi(r) THEN "intercept"
    ELSE IF proxyConf.failOpen THEN "echo" ELSE "block"

Screened(c) ==
    LET next == Screen(conn[c].req)
    IN  conn' = [conn EXCEPT
            ![c].screened = TRUE,
            ![c].at = IF next = "intercept" THEN "certify" ELSE "done",
            ![c].resp = CASE next = "block" -> [status |-> 451, body |-> "blocked"]
                          [] next = "echo"  -> [status |-> 200, body |-> "echo"]
                          [] OTHER          -> NoAnswer]

\* handle_request up to the interception: the firewall first, then Screen
Firewall(c) ==
    /\ At(c, "firewall")
    /\ \/ /\ proxyConf.firewall
          /\ Respond(c, 500, "error")
       \/ /\ proxyConf.firewall
          /\ Respond(c, 403, "blocked")
       \/ Screened(c)
    /\ UNCHANGED <<proxyConf, listening, leaf, proxyTime>>

\* generate_cert: a cached context is returned whatever its age.
LeafFor(host) == IF leaf[host] # 0 THEN leaf[host] ELSE proxyTime + CertTTL

Certify(c) ==
    /\ At(c, "certify")
    /\ \/ LET host == conn[c].req.host
          IN  /\ leaf' = [leaf EXCEPT ![host] = LeafFor(host)]
              /\ conn' = [conn EXCEPT ![c].at = "dispatch", ![c].cert = LeafFor(host)]
       \/ Respond(c, 500, "error") /\ UNCHANGED leaf
    /\ UNCHANGED <<proxyConf, listening, proxyTime>>

\* What dispatch makes of a body: refused before the pipeline, or run.
Refusal(body) == CASE body \in {"text", "empty"} -> "unsupported"
                   [] body = "broken"            -> "failed_closed"
                   [] OTHER                      -> "none"

\* pipeline.run: errors, a restored reply, a reply that no stage restored,
\* neither; or an exception, which handle_request turns into a 500.
Dispatch(c) ==
    /\ At(c, "dispatch")
    /\ LET body == BodyRead(conn[c].req)
       IN  \/ /\ Refusal(body) # "none"
              /\ Respond(c, 200, Refusal(body))
           \/ /\ Refusal(body) = "none"
              /\ \E out \in {"failed_closed", "restored", "unrestored"} :
                    conn' = [conn EXCEPT ![c].at = "done", ![c].piped = TRUE,
                                         ![c].resp = [status |-> 200, body |-> out]]
           \/ /\ Refusal(body) = "none"
              /\ Respond(c, 500, "error")
    /\ UNCHANGED <<proxyConf, listening, leaf, proxyTime>>

\* writer.close(): the connection is gone, the next one starts anew.
Hangup(c) == /\ At(c, "done")
             /\ conn' = [conn EXCEPT ![c] = Idling]
             /\ UNCHANGED <<proxyConf, listening, leaf, proxyTime>>

ProxyTick == /\ proxyTime < MaxProxyTime
             /\ proxyTime' = proxyTime + 1
             /\ UNCHANGED <<proxyConf, listening, conn, leaf>>

ProxyNext == \/ ProxyStart \/ ProxyStop \/ ProxyTick
             \/ \E c \in Conns : Accept(c) \/ ReverseHandle(c) \/ Firewall(c) \/ Certify(c) \/ Dispatch(c) \/ Hangup(c)

----------------------------------------------------------------------------
(* The CA directory and the contexts made from it.                          *)

NoFile == 0                      \* the file does not exist
Garbage == 99                    \* neither a certificate nor a key
NoPair == [pem |-> NoFile, key |-> NoFile]

\* A pair that loads: both parse, and the key is the certificate's. The keys
\* of this model are RSA; a pair of any other type passes as matching.
GoodPair(f) == f.pem \in Versions /\ f.key = f.pem

CaInit ==
    /\ caFiles = [s \in Serials |-> NoPair]
    /\ caKnown = [s \in Serials |-> 0]
    /\ caTouched = {}
    /\ caActive = 0
    /\ caWatch = [now |-> Debounce, last |-> 0]
    /\ tls = [path |-> 0, cert |-> <<0, 0>>, context |-> <<0, 0>>]
    /\ caSteps = 0

CaStep == caSteps < MaxCaSteps /\ caSteps' = caSteps + 1

\* upload_ca_cert writes over the .pem, then over the .key, each with its mode
\* after it, and raises at the first OSError: opening the .pem changes nothing,
\* a write that fails leaves a truncated file, a mode that fails a whole one.
UploadedPair(f, v, failed) ==
    CASE failed = "open" -> f
      [] failed = "pem"  -> [f EXCEPT !.pem = Garbage]
      [] failed = "mode" -> [f EXCEPT !.pem = v]
      [] failed = "key"  -> [pem |-> v, key |-> Garbage]
      [] OTHER           -> [pem |-> v, key |-> v]

Activated_First(s, failed) == IF failed \in {"open", "pem"} THEN caActive ELSE s

Activated(s, failed) == IF failed = "none" THEN s ELSE caActive

Upload(s, v) ==
    /\ CaStep
    /\ \E failed \in {"open", "pem", "mode", "key", "late", "none"} :
          /\ caFiles' = [caFiles EXCEPT ![s] = UploadedPair(@, v, failed)]
          /\ caActive' = Activated(s, failed)
          /\ caKnown' = IF failed = "none" THEN [caKnown EXCEPT ![s] = v] ELSE caKnown
          /\ caTouched' = CASE failed = "none" -> caTouched \ {s}
                            [] failed = "open" -> caTouched
                            [] OTHER           -> caTouched \cup {s}
    /\ UNCHANGED <<caWatch, tls>>

\* An operator copies a pair into the directory, one file at a time. external
DropFile(s) ==
    /\ CaStep
    /\ \E part \in {"pem", "key"}, v \in Versions \cup {Garbage} :
          caFiles' = [caFiles EXCEPT ![s][part] = v]
    /\ caTouched' = caTouched \cup {s}
    /\ UNCHANGED <<caKnown, caActive, caWatch, tls>>

\* The watcher's thread has no running event loop, so an event past the
\* debounce interval is noted and the reload it asks for is never scheduled.
FileEvent ==
    /\ \E s \in Serials : caFiles[s] # NoPair
    /\ caWatch.now - caWatch.last >= Debounce
    /\ caWatch' = [caWatch EXCEPT !.last = caWatch.now]
    /\ UNCHANGED <<caFiles, caKnown, caTouched, caActive, tls, caSteps>>

CaTick == /\ caWatch.now < Debounce + 2
          /\ caWatch' = [caWatch EXCEPT !.now = @ + 1]
          /\ UNCHANGED <<caFiles, caKnown, caTouched, caActive, tls, caSteps>>

\* _discover_ca_files: the pairs that exist, the highest file name first;
\* reload takes the first that loads.
Discovered == {s \in Serials : caFiles[s].pem # NoFile /\ caFiles[s].key # NoFile}
Loadable == {s \in Discovered : GoodPair(caFiles[s])}

Reload ==
    /\ CaStep
    /\ \/ /\ Loadable = {}
          /\ UNCHANGED <<caActive, caKnown, caTouched>>
       \/ \E s \in Loadable :
             /\ \A t \in Loadable : t <= s
             /\ caActive' = s
             /\ caKnown' = [caKnown EXCEPT ![s] = caFiles[s].pem]
             /\ caTouched' = caTouched \ {s}
    /\ UNCHANGED <<caFiles, caWatch, tls>>

\* reload_ca: the paths first, then the certificate, the key and the contexts,
\* which want a matching pair. Each step may raise and leaves what the ones
\* before it have done.
ReloadCa(s) ==
    /\ CaStep
    /\ LET f == caFiles[s]
           shown == <<s, f.pem>>
       IN  tls' = CASE f.pem \in {NoFile, Garbage} \/ f.key = NoFile -> [tls EXCEPT !.path = s]
                    [] GoodPair(f) -> [path |-> s, cert |-> shown, context |-> shown]
                    [] OTHER       -> [tls EXCEPT !.path = s, !.cert = shown]
    /\ UNCHANGED <<caFiles, caKnown, caTouched, caActive, caWatch>>

CaNext == \/ FileEvent \/ CaTick \/ Reload
          \/ \E s \in Serials : DropFile(s) \/ ReloadCa(s) \/ \E v \in Versions : Upload(s, v)

----------------------------------------------------------------------------
(* The route table and the PAC file.                                        *)

\* The default routes: one exact host, a wildcard above it, a local port.
DefaultRoutes == SetToSeq({h \in RouteHosts : h.default})
Entry(h, provider) == [host |-> h, provider |-> provider]
Wildcards(entries) == Kept(entries, {e \in ToSet(entries) : e.host.wild})

RouteInit ==
    /\ routeTable = [i \in DOMAIN DefaultRoutes |-> Entry(DefaultRoutes[i], "default")]
    /\ wildRoutes = Wildcards(routeTable)
    /\ pac = [rules |-> <<>>, cached |-> {}, hash |-> <<>>]
    /\ edits = 0

Editing == edits < MaxEdits /\ edits' = edits + 1

\* remove_route compares the strings, in both lists
RoutesWithout(entries, h) == Kept(entries, {e \in ToSet(entries) : e.host # h})

RemovedWild_Kept(h) == wildRoutes

RemovedWild(h) == RoutesWithout(wildRoutes, h)

AddRoute(h, provider) ==
    /\ Editing
    /\ routeTable' = Append(RoutesWithout(routeTable, h), Entry(h, provider))
    /\ wildRoutes' = IF h.wild THEN Append(RemovedWild(h), Entry(h, provider)) ELSE RemovedWild(h)
    /\ UNCHANGED pac

RemoveRoute(h) ==
    /\ Editing
    /\ routeTable' = RoutesWithout(routeTable, h)
    /\ wildRoutes' = RemovedWild(h)
    /\ UNCHANGED pac

\* lookup: an exact host whatever its case, then a wildcard above it or equal
\* to its domain, then an entry with the port that the caller appended.
Exact(h) == Kept(routeTable, {e \in ToSet(routeTable) : ~e.host.wild /\ e.host.name = h.name})
Above(h) == Kept(wildRoutes, {e \in ToSet(wildRoutes) : e.host.name \in {h.name, h.under}})
OnPort(h) == Kept(routeTable, {e \in ToSet(routeTable) : h.port # 0 /\ e.host.port = h.port})
Found(h) == Exact(h) \o Above(h) \o OnPort(h)

Lookup(h) == IF Found(h) = <<>> THEN {} ELSE {Head(Found(h))}

\* The PAC file is its rules in order; the hash is of the same data.
RuleAt(pattern) == {i \in DOMAIN pac.rules : pac.rules[i].pattern = pattern}

PacRules(pattern, proxy) ==
    IF RuleAt(pattern) # {}
    THEN [i \in DOMAIN pac.rules |-> IF i \in RuleAt(pattern)
                                     THEN [pattern |-> pattern, proxy |-> proxy]
                                     ELSE pac.rules[i]]
    ELSE Append(pac.rules, [pattern |-> pattern, proxy |-> proxy])

AddPacRule(pattern, proxy) ==
    /\ Editing
    /\ pac' = [pac EXCEPT !.rules = PacRules(pattern, proxy), !.cached = {}]
    /\ UNCHANGED <<routeTable, wildRoutes>>

RemovePacRule(pattern) ==
    /\ Editing
    /\ pac' = [pac EXCEPT !.rules = Kept(@, {r \in ToSet(@) : r.pattern # pattern}), !.cached = {}]
    /\ UNCHANGED <<routeTable, wildRoutes>>

\* generate: the cached file while the hash of the rules is the one it was
\* made under, a new one otherwise.
PacFile == IF pac.cached # {} /\ pac.hash = pac.rules THEN pac.cached ELSE {pac.rules}

ServePac ==
    /\ pac' = [pac EXCEPT !.cached = PacFile, !.hash = pac.rules]
    /\ UNCHANGED <<routeTable, wildRoutes, edits>>

RouteNext ==
    \/ ServePac
    \/ \E h \in RouteHosts : RemoveRoute(h) \/ AddRoute(h, "custom")
    \/ \E p \in PacPatterns : RemovePacRule(p) \/ \E x \in {"gateway", "direct"} : AddPacRule(p, x)

\* The three side by side.
TrafficSpec ==
    /\ ProxyInit /\ CaInit /\ RouteInit
    /\ [][\/ ProxyNext /\ UNCHANGED <<caVars, routeVars>>
          \/ CaNext /\ UNCHANGED <<proxyVars, routeVars>>
          \/ RouteNext /\ UNCHANGED <<proxyVars, caVars>>
         ]_<<proxyVars, caVars, routeVars>>

----------------------------------------------------------------------------
(* Properties.                                                              *)

\* Unless fail_open is configured, what a client of the transparent proxy gets
\* back was made by the pipeline or is a refusal: no body is passed on as it
\* came, whatever the firewall, the pinning check and the detector found and
\* whenever the certificate was cached.
OnlyPipelineAnswers ==
    \A c \in Conns : conn[c].at = "done" =>
        /\ conn[c].resp.body = "echo" => proxyConf.failOpen /\ ~conn[c].piped
        /\ conn[c].resp.body \in {"restored", "unrestored"} =>
              /\ conn[c].piped
              /\ proxyConf.mode = "transparent" => conn[c].screened /\ IsAi(conn[c].req)

\* The active CA certificate is one that was uploaded or loaded as a whole, and
\* the certificate known under a serial is on disk with its own key unless an
\* upload under that serial failed, or the files were changed by hand, since.
ActiveCaHasPair ==
    /\ caActive # 0 => caKnown[caActive] # 0
    /\ \A s \in Serials \ caTouched :
          caKnown[s] # 0 => caFiles[s] = [pem |-> caKnown[s], key |-> caKnown[s]]

\* A lookup never answers with a route that was removed or overridden: the
\* list of wildcard patterns keeps step with the list of entries.
RoutesAnswerCurrent == \A h \in RouteHosts : Lookup(h) \subseteq ToSet(routeTable)

\* What the proxy promises of traffic, of its certificate authority and of its
\* routes, while each is changed under it.
ProxySound ==
    /\ OnlyPipelineAnswers
    /\ ActiveCaHasPair
    /\ RoutesAnswerCurrent

(* Formulas that the code does not satisfy.                                 *)

\* A request for a known AI provider is never passed on untouched: with
\* fail_open a client that looks pinned, or an unknown path, is.
AiNeverUntouched == \A c \in Conns : conn[c].req.host = "ai" => conn[c].resp.body # "echo"

\* An intercepted connection is shown a certificate that has not expired:
\* the cache of contexts keeps a leaf for ever.
PresentedCertValid == \A c \in Conns : At(c, "dispatch") /\ conn[c].cert # 0 => conn[c].cert >= proxyTime

\* A client gets its values back: a reply that no stage restored is returned
\* with its tokens.
RepliesRestored == \A c \in Conns : conn[c].resp.body # "unrestored"

\* The last uploaded certificate stays active until another is uploaded: a
\* reload goes back to the one with the highest file name.
UploadStays == [][caActive # 0 /\ caActive' # caActive => caKnown[caActive'] = 0]_caVars

\* The active certificate can be loaded again: an upload under its serial that
\* fails half way leaves a truncated file or the key of another certificate.
ActiveCaLoads == caActive # 0 => GoodPair(caFiles[caActive])

\* A pair that was dropped into the directory and seen is loaded.
DroppedPairsLoaded == caWatch.last # 0 /\ Loadable # {} => caActive # 0

\* The certificate reported is the one served: a reload that fails at the key
\* leaves the new certificate beside the old context.
TlsReportsServed == tls.cert = tls.context

\* add_route overrides: removal compares the strings, lookup ignores case.
OverrideWins ==
    \A i \in DOMAIN routeTable :
        ~routeTable[i].host.wild
        /\ (\A j \in DOMAIN routeTable : j > i => routeTable[j].host.name # routeTable[i].host.name)
        => Lookup(routeTable[i].host) = {routeTable[i]}

============================================================================
