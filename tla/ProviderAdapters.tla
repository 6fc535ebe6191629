-------------------------- MODULE ProviderAdapters --------------------------
(***************************************************************************)
(* From a model alias to a provider's reply (src/anonreq/routing/          *)
(* alias_registry.py, src/anonreq/providers): the alias and the adapter    *)
(* are resolved, the credential is looked up, the messages are put into    *)
(* the provider's form, and the lines of its stream become the canonical   *)
(* events chat.py reads until the first finish or error.                   *)
(*                                                                         *)
(* A line of a stream carries a piece of text (0 for none), a piece of a   *)
(* tool call, an end mark or an error, for one choice of the reply.        *)
(***************************************************************************)
EXTENDS Integers, Sequences, FiniteSets, SequencesExt, Lists

CONSTANTS AliasNames,   \* names clients use
          AliasTable,   \* [subset of AliasNames -> provider], the alias file
          Adapters,     \* providers of config/providers.yaml
          Importable,   \* those whose adapter class can be imported
          Streamers,    \* those with the streaming capability
          Environments, \* [prefixed, plain : [Adapters -> value], shared : value]
          StoreValues,  \* what a rotation may store for a provider ("own": its key)
          MaxLines,     \* bound on the lines of a stream
          MaxRotates    \* bound on the rotations
VARIABLES environ,      \* the process environment
          keystore,     \* [Adapters -> value], the runtime secret store
          rotates,
          route,        \* what the handler decided: "none", "open" or a refusal
          adapter,      \* the provider routed to
          header,       \* the credential in the request's headers
          system,       \* system messages the client sent and the body holds
          lines,        \* lines the provider sent
          stEvents,     \* events the adapter yielded
          ending        \* "open", "closed", "aborted" or "raised"
providerVars == <<environ, keystore, rotates, route, adapter, header, system, lines, stEvents, ending>>

ASSUME AdapterAssumption == Importable \subseteq Adapters /\ Streamers \subseteq Adapters
                            /\ DOMAIN AliasTable \subseteq AliasNames

\* Values of the environment and of the store that are no key.
NoKey == {"unset", "blank", "template"}

\* A value that is a key is written as the name of whose it is: a provider's
\* variables and its entry of the store hold its own, PROVIDER_API_KEY is "shared".
ASSUME CredentialAssumption ==
  /\ \A e \in Environments :
        /\ e.shared \in {"shared"} \union NoKey
        /\ \A p \in Adapters : {e.prefixed[p], e.plain[p]} \subseteq {p} \union NoKey
  /\ StoreValues \subseteq {"own"} \union NoKey

ProviderInit ==
  /\ environ \in Environments
  /\ keystore \in [Adapters -> {"unset"}]
  /\ rotates = 0
  /\ route = "none" /\ adapter = "none" /\ header = "none" /\ system = [asked |-> 0, sent |-> {}]
  /\ lines = <<>> /\ stEvents = <<>> /\ ending = "open"

\* _nonblank: neither missing, blank nor the placeholder of a template.
Usable(v) == v \notin NoKey

\* resolve_api_key: the secret store, then the two variables of the provider,
\* then for OpenAI the shared one.
KeySources_Shared(p) == <<keystore[p], environ.prefixed[p], environ.plain[p], environ.shared>>
KeySources(p) == <<keystore[p], environ.prefixed[p], environ.plain[p],
                   IF p = "openai" THEN environ.shared ELSE "unset">>
ResolveApiKey(p) ==
  LET usable == {i \in 1..4 : Usable(KeySources(p)[i])}
  IN IF usable = {} THEN "none"
     ELSE KeySources(p)[CHOOSE i \in usable : \A j \in usable : i <= j]
NeedsKey(p) == p # "ollama"

\* AliasRegistry: refused at start when an alias names no configured provider.
AliasesValid == \A a \in DOMAIN AliasTable : AliasTable[a] \in Adapters

\* What the handler answers for an alias, up to translate_request.
RouteRefusal(name) ==
  CASE name \notin DOMAIN AliasTable -> "unknown_alias"
    [] name \in DOMAIN AliasTable /\ AliasTable[name] \notin Importable -> "unknown_provider"
    [] name \in DOMAIN AliasTable /\ AliasTable[name] \in Importable \ Streamers -> "no_streaming"
    [] OTHER -> IF NeedsKey(AliasTable[name]) /\ ResolveApiKey(AliasTable[name]) = "none"
                THEN "no_credential" ELSE "open"

\* translate_request of the system messages 1..n: OpenAI and Ollama are sent
\* all of them, Anthropic and Gemini keep one and send the last.
OpenAiSystem(n) == 1..n
OllamaSystem(n) == 1..n
AnthropicSystem(n) == {n}
GeminiSystem(n) == {n}
SystemSent(p, n) == CASE p = "openai" -> OpenAiSystem(n)
                      [] p = "anthropic" -> AnthropicSystem(n)
                      [] p = "gemini" -> GeminiSystem(n)
                      [] OTHER -> OllamaSystem(n)

Route(name, n) ==
  /\ AliasesValid
  /\ route = "none"
  /\ route' = RouteRefusal(name)
  /\ IF route' = "open"
     THEN /\ adapter' = AliasTable[name]
          /\ header' = ResolveApiKey(AliasTable[name])
          /\ system' = [asked |-> n, sent |-> SystemSent(AliasTable[name], n)]
     ELSE UNCHANGED <<adapter, header, system>>
  /\ UNCHANGED <<environ, keystore, rotates, lines, stEvents, ending>>

\* The secret volume is reloaded with another value for one provider.
RotateKey(p, v) ==
  /\ rotates < MaxRotates
  /\ rotates' = rotates + 1
  /\ keystore' = [keystore EXCEPT ![p] = IF v = "own" THEN p ELSE v]
  /\ UNCHANGED <<environ, route, adapter, header, system, lines, stEvents, ending>>

\* The lines a provider sends.  OpenAI and Ollama put text and end mark into
\* one line or into two, Gemini likewise; Anthropic sends one thing per line.
Line(t, tool, fin, err, c) == [text |-> t, tool |-> tool, fin |-> fin, err |-> err, choice |-> c]
LinesOf(p) ==
  LET n == Len(lines) + 1
      apart == {Line(n, FALSE, FALSE, FALSE, 0), Line(0, FALSE, TRUE, FALSE, 0)}
      both == {Line(n, FALSE, TRUE, FALSE, 0)}
      tool == {Line(0, TRUE, FALSE, FALSE, 0)}
  IN CASE p = "openai" -> apart \union both \union tool
                          \union {Line(n, FALSE, FALSE, FALSE, 1), Line(0, FALSE, TRUE, FALSE, 1)}
       [] p = "anthropic" -> apart \union tool \union {Line(0, FALSE, FALSE, TRUE, 0)}
       [] p = "gemini" -> apart \union both \union tool
       [] OTHER -> apart \union both

TextEvent(l) == IF l.text = 0 THEN <<>> ELSE <<[type |-> "text", piece |-> l.text]>>
FinishEvent(l) == IF l.fin THEN <<[type |-> "finish", piece |-> 0]>> ELSE <<>>
ToolEvent(l, named) == IF l.tool THEN <<[type |-> IF named THEN "tool" ELSE "tool_nameless", piece |-> 0]>>
                       ELSE <<>>
ErrorEvent(l) == IF l.err THEN <<[type |-> "error", piece |-> 0]>> ELSE <<>>

\* _parse_chunk, _parse_anthropic_event, _parse_gemini_event and
\* _parse_ollama_chunk: the events of one line.
OpenAiEvents(l) == TextEvent(l) \o ToolEvent(l, TRUE) \o FinishEvent(l)
AnthropicEvents(l) == TextEvent(l) \o ToolEvent(l, FALSE) \o FinishEvent(l) \o ErrorEvent(l)
GeminiEvents(l) == IF l.fin THEN FinishEvent(l) ELSE TextEvent(l)
OllamaEvents_DoneFirst(l) == IF l.fin THEN FinishEvent(l) ELSE TextEvent(l)
OllamaEvents(l) == TextEvent(l) \o FinishEvent(l)

Over == \E e \in Range(stEvents) : e.type \in {"finish", "error"}

\* stream_events: a line arrives and its events are yielded.  Lines that are
\* no JSON are skipped and not modelled.
Yield(p, l, events) ==
  /\ route = "open" /\ adapter = p /\ ending = "open" /\ ~Over
  /\ Len(lines) < MaxLines
  /\ lines' = Append(lines, l)
  /\ stEvents' = stEvents \o events
  /\ UNCHANGED <<environ, keystore, rotates, route, adapter, header, system, ending>>
OpenAiLine(l) == Yield("openai", l, OpenAiEvents(l))
AnthropicLine(l) == Yield("anthropic", l, AnthropicEvents(l))
GeminiLine(l) == Yield("gemini", l, GeminiEvents(l))
OllamaLine(l) == Yield("ollama", l, OllamaEvents(l))

\* The provider ends the stream; or it times out or refuses, which becomes a
\* PipelineAbortError; or the connection breaks in some other way.
StreamEnds(how) ==
  /\ route = "open" /\ ending = "open" /\ ~Over
  /\ ending' = how
  /\ UNCHANGED <<environ, keystore, rotates, route, adapter, header, system, lines, stEvents>>

ProviderNext ==
  \/ \E name \in AliasNames, n \in 1..2 : Route(name, n)
  \/ \E p \in Adapters, v \in StoreValues : RotateKey(p, v)
  \/ \E l \in LinesOf(adapter) : OpenAiLine(l) \/ AnthropicLine(l) \/ GeminiLine(l) \/ OllamaLine(l)
  \/ \E how \in {"closed", "aborted", "raised"} : StreamEnds(how)

ProviderSpec == ProviderInit /\ [][ProviderNext]_providerVars

\* translate_response of the same reply asked for without streaming: all its
\* text, for every adapter.
Pieces == Nat \ {0}
WholeText == Kept([k \in DOMAIN lines |-> lines[k].text], Pieces)
TextOf(e) == IF e.type = "text" THEN e.piece ELSE 0
StreamedText == Kept([k \in DOMAIN stEvents |-> TextOf(stEvents[k])], Pieces)

\* The text an adapter has streamed is the text it would have answered without
\* streaming for the lines read so far, however the provider cuts the reply
\* into lines.  Gemini is left out: see GeminiStreamAgrees.
StreamAgreesWithCall == adapter # "gemini" => StreamedText = WholeText

\* The credential sent to a provider is a usable one of its own, or the shared
\* one for OpenAI, and a request without one is refused, whatever the secret
\* store held before, at and after the routing.
CredentialIsOwn ==
  route = "open" => \/ header = adapter
                    \/ header = "shared" /\ adapter = "openai"
                    \/ header = "none" /\ ~NeedsKey(adapter)

\* An adapter changes neither the reply nor whose credential is used.
AdaptersFaithful ==
    /\ StreamAgreesWithCall
    /\ CredentialIsOwn

\* Does not hold: the text of the line that carries the end mark is dropped.
GeminiStreamAgrees == StreamedText = WholeText
\* Does not hold: the end of one choice ends the stream for all of them.
EveryChoiceEnds ==
  Over => \A i \in DOMAIN lines : lines[i].text # 0 =>
            \E j \in DOMAIN lines : (lines[j].fin \/ lines[j].err) /\ lines[j].choice = lines[i].choice
\* Does not hold: Anthropic's tool events carry no name, Gemini's are dropped.
ToolCallsReachClient ==
  \A i \in DOMAIN lines : lines[i].tool => \E e \in Range(stEvents) : e.type = "tool"
\* Does not hold: Anthropic and Gemini get the last system message alone.
EverySystemMessageSent == system.sent = 1..system.asked
\* Does not hold: only timeouts and refused connections become a
\* PipelineAbortError, which adapter.py promises for any HTTP error.
StreamErrorsAreAborts == ending # "raised"
=============================================================================
