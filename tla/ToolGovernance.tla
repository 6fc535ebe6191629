--------------------------- MODULE ToolGovernance ---------------------------
(***************************************************************************)
(* Governance of tool calls and their results: the policy parser and its   *)
(* reloads, the pipeline stage that judges the calls of a request, the MCP *)
(* and agent inspectors of a single message or call, the inspector of tool *)
(* results, and the result sanitizer, whose tokenizer session and mapping  *)
(* belong to the object and not to the call.                               *)
(*                                                                         *)
(* A rule is [kind, match, perm, risk]: how its name matches ("exact",     *)
(* "prefix", "glob"), the tools it matches, and what it says; a document   *)
(* is a sequence of [provider, rules, risks].  A body is [method, msgs],   *)
(* a message [fmt, calls, broken], a call [tool, cred].                    *)
(***************************************************************************)
EXTENDS Naturals, Sequences, FiniteSets

CONSTANTS
    Documents,      \* policy documents that may be loaded
    Bodies,         \* request bodies
    Provider,       \* the provider the requests are routed to
    NamedCalls,     \* calls judged with a provider: [provider, domain, call]
    Workers,        \* concurrent calls of one ToolResultSanitizer
    Results,        \* tool results: sequences of strings, each a secret or "plain"
    ToolMessages,   \* MCP messages
    AgentCalls,     \* calls shown to ToolCallInspector
    Findings,       \* what detection and the patterns find in a tool result
    MaxLoads,
    MaxSessions     \* bound on the results sanitized

\* A document is a list of entries for different providers; a message that
\* shows no tool format has no calls; a result is a list of strings.
ASSUME ToolAssumption ==
    /\ \A doc \in Documents :
          /\ DOMAIN doc \subseteq Nat
          /\ \A i, j \in DOMAIN doc : doc[i].provider = doc[j].provider => i = j
          /\ \A i \in DOMAIN doc : DOMAIN doc[i].rules \subseteq Nat
    /\ \A body \in Bodies : \A i \in DOMAIN body.msgs :
          body.msgs[i].fmt = "none" => body.msgs[i].calls = {}
    /\ \A r \in Results : r \in Seq({r[i] : i \in DOMAIN r})

VARIABLES
    policies,       \* ToolPolicyParser._parsed_policies: provider -> entry
    inForce,        \* the document the policies were read from, or "partial"
    loads,
    last,           \* the last thing judged: a request's body, a call with its provider,
                    \* an MCP message, an agent's call or a tool result, and the answer
    worker,         \* sanitize_result calls: pc, input, output so far
    seed,           \* number of tokenizer sessions; stands for the session's random seed
    session,        \* the tokenizer's session: counter -> value
    mappings,       \* ToolResultSanitizer.token_mappings: <<token, value>> pairs
    latest,         \* the call that began the session (history)
    sharing         \* the calls under way when it began, and that call (history)

judgeVars == <<policies, inForce, loads, last>>
sanitizeVars == <<worker, seed, session, mappings, latest, sharing>>
toolVars == <<policies, inForce, loads, last, worker, seed, session, mappings, latest, sharing>>

Permissions == {"allow", "allow_with_audit", "require_human_approval", "block"}
NoPolicy == [perm |-> "none", risk |-> "none"]
Nothing == [kind |-> "none", seen |-> "none", answer |-> "none"]

ToolInit ==
    /\ policies = << >> /\ inForce = << >> /\ loads = 0
    /\ last = Nothing
    /\ worker = [w \in Workers |-> [pc |-> "idle", in |-> << >>, out |-> << >>]]
    /\ seed = 0 /\ session = << >> /\ mappings = {}
    /\ latest = {} /\ sharing = {}

-----------------------------------------------------------------------------
(* Policy documents. *)

\* _parse_tool_entry raises on a permission or risk it does not know.
ValidEntry(e) ==
    /\ \A i \in DOMAIN e.rules : e.rules[i].perm \in Permissions /\ e.rules[i].risk # "bad"
    /\ \A t \in DOMAIN e.risks : e.risks[t] # "bad"

\* The entries parse() stores before the first invalid one.
Accepted(doc) ==
    {i \in DOMAIN doc : \A j \in 1 .. i : ValidEntry(doc[j])}

\* Mutated Parsed: entries of earlier documents stay.
Parsed_Merged(doc) ==
    [p \in DOMAIN policies \union {doc[i].provider : i \in Accepted(doc)} |->
        IF p \in DOMAIN policies THEN policies[p]
        ELSE doc[CHOOSE i \in Accepted(doc) : doc[i].provider = p]]

\* parse: the providers of a document are the keys of a mapping, so no two
\* entries share one.
Parsed(doc) ==
    [p \in {doc[i].provider : i \in Accepted(doc)} |->
        doc[CHOOSE i \in Accepted(doc) : doc[i].provider = p]]

\* parse clears the policies first: a document that raises half way leaves
\* the entries before the invalid one.
LoadPolicy(doc) ==
    /\ loads < MaxLoads /\ loads' = loads + 1
    /\ policies' = Parsed(doc)
    /\ inForce' = IF Accepted(doc) = DOMAIN doc THEN doc ELSE "partial"
    /\ last' = Nothing
    /\ UNCHANGED sanitizeVars

\* _detect_domain; host_mcp is the one name that the evaluator knows too.
HostProviders == {"host_mcp", "host_shell"}
Domain(provider) == IF provider \in HostProviders THEN "host" ELSE "model"

\* Mutated ToolRule: rules are tried in the order of the document.
ToolRule_FirstMatch(rules, tool) ==
    LET hits == {i \in DOMAIN rules : tool \in rules[i].match}
    IN  IF hits = {} THEN NoPolicy
        ELSE rules[CHOOSE i \in hits : \A j \in hits : i <= j]

\* get_tool_policy: exact names before prefixes before globs, each in the
\* order of the document.
ToolRule(rules, tool) ==
    LET hits(kind) == {i \in DOMAIN rules : rules[i].kind = kind /\ tool \in rules[i].match}
        first(S) == CHOOSE i \in S : \A j \in S : i <= j
    IN  IF hits("exact") # {} THEN rules[first(hits("exact"))]
        ELSE IF hits("prefix") # {} THEN rules[first(hits("prefix"))]
        ELSE IF hits("glob") # {} THEN rules[first(hits("glob"))]
        ELSE NoPolicy

\* get_policy: entries are stored under the domain of their provider.
GetPolicy(provider, domain, tool) ==
    IF provider \in DOMAIN policies /\ Domain(provider) = domain
    THEN ToolRule(policies[provider].rules, tool) ELSE NoPolicy

\* _get_tool_risk_level, for a tool without a rule of its own domain.
RiskLevel(provider, tool) ==
    LET rule == GetPolicy(provider, Domain(provider), tool) IN
    IF rule.risk # "none" THEN rule.risk
    ELSE IF provider \in DOMAIN policies /\ tool \in DOMAIN policies[provider].risks
    THEN policies[provider].risks[tool]
    ELSE "none"

\* _check_domain_isolation and _check_credential_isolation; a delegation is
\* bound to the session when its audit metadata names one.
Isolated(provider, domain, call) ==
    /\ ~(domain = "model" /\ provider = "host_mcp")
    /\ ~(domain = "host" /\ provider \in {"openai", "anthropic", "gemini"})
    /\ call.cred \in {"none", "session"}

\* PDPToolEvaluator.evaluate with its default permissions.
Evaluate(provider, domain, call) ==
    LET rule == GetPolicy(provider, domain, call.tool) IN
    IF ~Isolated(provider, domain, call) THEN "block"
    ELSE IF rule # NoPolicy THEN rule.perm
    ELSE IF RiskLevel(provider, call.tool) = "critical" THEN "require_human_approval"
    ELSE "allow"

\* detect_format: a tools/ method, else the first message with tool calls.
DetectFormat(body) ==
    LET with == {i \in DOMAIN body.msgs : body.msgs[i].fmt # "none"} IN
    IF body.method = "tools/call" THEN "mcp"
    ELSE IF with # {} THEN body.msgs[CHOOSE i \in with : \A j \in with : i <= j].fmt
    ELSE "none"

\* extract_calls of a message in the format of the body; the extractor sets
\* no provider and leaves the domain at "model".
ExtractCalls(m, fmt) == IF m.fmt = fmt THEN m.calls ELSE {}

\* The provider evaluate judges by: a call names none, and the context's is
\* set when a request is routed, by ProviderStage or the streaming handler,
\* after this stage.
SeenProvider == "unknown"

ExtractedCalls(body) ==
    UNION {ExtractCalls(body.msgs[i], DetectFormat(body)) : i \in DOMAIN body.msgs}

Judged(body) == {Evaluate(SeenProvider, "model", c) : c \in ExtractedCalls(body)}

\* ToolGovernanceStage.execute: calls that cannot be extracted and blocked
\* calls end the request; a call to be approved marks it.
StageAnswer(body) ==
    IF DetectFormat(body) = "none" THEN "pass"
    ELSE IF \/ \E i \in DOMAIN body.msgs :
                  body.msgs[i].broken /\ body.msgs[i].fmt = DetectFormat(body)
            \/ "block" \in Judged(body)
    THEN "failed"
    ELSE IF "require_human_approval" \in Judged(body) THEN "approval"
    ELSE "pass"

Stage(body) ==
    /\ last' = [kind |-> "stage", seen |-> body, answer |-> StageAnswer(body)]
    /\ UNCHANGED <<policies, inForce, loads, sanitizeVars>>

\* evaluate for a caller that names the provider in the call.
EvaluateCall(j) ==
    /\ last' = [kind |-> "evaluated", seen |-> j, answer |-> Evaluate(j.provider, j.domain, j.call)]
    /\ UNCHANGED <<policies, inForce, loads, sanitizeVars>>

-----------------------------------------------------------------------------
(* Inspectors of one message, call or result.  Only their answers matter. *)

\* is_mcp_message looks for the marker in the text; parse wants JSON and the
\* version in every message of a batch.
McpParses(m) == m.marker /\ m.json /\ m.versions

\* MCPInspector.inspect_request: a batch is parsed as a whole, and one that
\* does not parse is not inspected.
InspectMcp(m) ==
    /\ last' = [kind |-> "mcp", seen |-> m, answer |->
         IF McpParses(m) THEN m.tools ELSE {}]
    /\ UNCHANGED <<policies, inForce, loads, sanitizeVars>>

\* ToolCallInspector.inspect_call, as its checks follow one another.
AgentVerdict(c) ==
    IF c.policy \in {"none", "block", "require_approval"} \/ c.schema = "violated" \/ c.threat
    THEN "block" ELSE "allow"

InspectAgentCall(c) ==
    /\ last' = [kind |-> "call", seen |-> c, answer |-> AgentVerdict(c)]
    /\ UNCHANGED <<policies, inForce, loads, sanitizeVars>>

AtMost(n, bound) == IF n > bound THEN bound ELSE n

Highest(S) == CHOOSE n \in S : \A k \in S : k <= n

\* _detect_reconstruction_attempts, in hundredths.  The mappings are only
\* read when detection found something.
Confidence(f) ==
    Highest({0}
        \union (IF f.tokens > 0 THEN {50 + AtMost(10 * f.tokens, 40)} ELSE {})
        \union (IF f.pii /\ f.original THEN {80} ELSE {})
        \union (IF f.prompt THEN {75} ELSE {})
        \union (IF f.brackets >= 3 THEN {40 + AtMost(5 * f.brackets, 30)} ELSE {}))

\* ToolResultInspector.inspect and _determine_action.
InspectResult(f) ==
    /\ last' = [kind |-> "result", seen |-> f, answer |->
         IF Confidence(f) >= 90 THEN "suppress" ELSE IF f.pii THEN "alert" ELSE "allow"]
    /\ UNCHANGED <<policies, inForce, loads, sanitizeVars>>

-----------------------------------------------------------------------------
(* ToolResultSanitizer: every string of a result awaits detection. *)

\* Mutated BeginSanitize: the mapping of the call before is kept.
BeginSanitize_KeepsMapping(w, r) ==
    /\ worker[w].pc = "idle" /\ seed < MaxSessions
    /\ worker' = [worker EXCEPT ![w] = [pc |-> "walk", in |-> r, out |-> << >>]]
    /\ seed' = seed + 1 /\ session' = << >>
    /\ latest' = {w} /\ sharing' = {w} \union {v \in Workers : worker[v].pc = "walk"}
    /\ UNCHANGED <<judgeVars, mappings>>

\* sanitize_result clears the mapping and starts a tokenizer session, for every
\* call under way; the session counts its tokens from a new random seed.
BeginSanitize(w, r) ==
    /\ worker[w].pc = "idle" /\ seed < MaxSessions
    /\ worker' = [worker EXCEPT ![w] = [pc |-> "walk", in |-> r, out |-> << >>]]
    /\ seed' = seed + 1 /\ session' = << >> /\ mappings' = {}
    /\ latest' = {w} /\ sharing' = {w} \union {v \in Workers : worker[v].pc = "walk"}
    /\ UNCHANGED judgeVars

\* _token_for: the token a session gives a value, a new one or the one it has.
Held(v) == {i \in DOMAIN session : session[i] = v}
TokenFor(v) == <<seed, IF Held(v) # {} THEN CHOOSE i \in Held(v) : TRUE ELSE Len(session) + 1>>

\* Mutated SanitizedString: a value the session knows is left as it is.
SanitizedString_KnownKept(v) ==
    IF v = "plain" \/ Held(v) # {} THEN <<"text", v>> ELSE <<"token", TokenFor(v)>>

\* _sanitize_string once detection has answered.
SanitizedString(v) == IF v = "plain" THEN <<"text", v>> ELSE <<"token", TokenFor(v)>>

\* tokenize maps the tokens it makes, and the sanitizer adds them to its own
\* mapping.
SanitizeString(w) ==
    LET v == worker[w].in[Len(worker[w].out) + 1] IN
    /\ worker[w].pc = "walk" /\ Len(worker[w].out) < Len(worker[w].in)
    /\ worker' = [worker EXCEPT ![w].out = Append(@, SanitizedString(v))]
    /\ IF v # "plain" /\ Held(v) = {}
       THEN session' = Append(session, v) /\ mappings' = mappings \union {<<TokenFor(v), v>>}
       ELSE UNCHANGED <<session, mappings>>
    /\ UNCHANGED <<judgeVars, seed, latest, sharing>>

\* The call returns, or detection raises and nothing is returned; the mapping
\* stays as it is.
EndSanitize(w) ==
    /\ worker[w].pc = "walk"
    /\ \/ /\ Len(worker[w].out) = Len(worker[w].in)
          /\ worker' = [worker EXCEPT ![w].pc = "idle"]
       \/ /\ Len(worker[w].out) < Len(worker[w].in)
          /\ worker' = [worker EXCEPT ![w].pc = "idle", ![w].out = << >>]
    /\ UNCHANGED <<judgeVars, seed, session, mappings, latest, sharing>>

\* Judging and sanitizing share no state.
JudgeNext ==
    \/ \E doc \in Documents : LoadPolicy(doc)
    \/ \E body \in Bodies : Stage(body)
    \/ \E j \in NamedCalls : EvaluateCall(j)
    \/ \E m \in ToolMessages : InspectMcp(m)
    \/ \E c \in AgentCalls : InspectAgentCall(c)
    \/ \E f \in Findings : InspectResult(f)

SanitizeNext ==
    \E w \in Workers :
        \/ \E r \in Results : BeginSanitize(w, r)
        \/ SanitizeString(w) \/ EndSanitize(w)

ToolNext ==
    \/ JudgeNext
    \/ SanitizeNext

ToolSpec == ToolInit /\ [][ToolNext]_toolVars

-----------------------------------------------------------------------------
\* The document in force says perm of the provider's tool by its own name; of
\* several rules of one name the first counts.
Named(provider, tool, perm) ==
    \E i \in DOMAIN inForce :
        LET rules == inForce[i].rules
            own(k) == rules[k].kind = "exact" /\ tool \in rules[k].match
        IN
        /\ inForce[i].provider = provider
        /\ \E k \in DOMAIN rules :
              own(k) /\ rules[k].perm = perm /\ \A j \in DOMAIN rules : j < k => ~own(j)

Listed(provider) == \E i \in DOMAIN inForce : inForce[i].provider = provider

\* What the document in force says of a tool by its own name decides, wherever
\* it stands among the document's wildcards; a provider the document does not
\* list has no rules left from an earlier one.  So a request that passes the
\* stage holds no call, in the format the stage reads, that is to be stopped;
\* and a call that names its provider gets what the provider's entry says of
\* it, in the provider's own domain.
BlockedToolsStop ==
    inForce # "partial" =>
        /\ last.kind = "stage" =>
             /\ last.answer = "pass" =>
                  \A c \in ExtractedCalls(last.seen) :
                     /\ ~Named(SeenProvider, c.tool, "block")
                     /\ ~Named(SeenProvider, c.tool, "require_human_approval")
             /\ ~Listed(SeenProvider) /\ last.answer = "failed" =>
                  \/ \E i \in DOMAIN last.seen.msgs : last.seen.msgs[i].broken
                  \/ \E c \in ExtractedCalls(last.seen) : c.cred \notin {"none", "session"}
        /\ last.kind = "evaluated" =>
             LET j == last.seen  free == Isolated(j.provider, j.domain, j.call) IN
             /\ \A perm \in Permissions :
                  Named(j.provider, j.call.tool, perm) /\ Domain(j.provider) = j.domain
                  => last.answer = IF free THEN perm ELSE "block"
             /\ ~Listed(j.provider) => last.answer = IF free THEN "allow" ELSE "block"

\* The mapping of the sanitizer restores every secret of the result whose call
\* began last, calls that began before it and are still under way
\* notwithstanding.
LatestRestorable ==
    \A w \in latest : \A i \in DOMAIN worker[w].out :
        worker[w].in[i] # "plain" =>
            \E m \in mappings : worker[w].out[i] = <<"token", m[1]>> /\ m[2] = worker[w].in[i]

\* One token never stands for two secrets, in whatever calls and sessions it
\* was given out.
TokensUnambiguous ==
    \A u, w \in Workers : \A i \in DOMAIN worker[u].out, j \in DOMAIN worker[w].out :
        worker[u].out[i] = worker[w].out[j] => worker[u].in[i] = worker[w].in[j]

\* The mapping holds secrets of calls that shared the session only: none of a
\* result that was finished before the last call began.
MappingForgets ==
    \A m \in mappings : \E w \in sharing : \E i \in DOMAIN worker[w].in : worker[w].in[i] = m[2]

\* What tool governance promises on the way in and on the way back: what the
\* policy document says of a tool decides, and overlapping sanitizer calls
\* neither confuse tokens nor keep or lose what the last call must restore.
ToolsGoverned ==
    /\ BlockedToolsStop
    /\ LatestRestorable
    /\ TokensUnambiguous
    /\ MappingForgets

(* Said of the code and not kept by it. *)

\* "Extracts tool calls from OpenAI/Anthropic/MCP formats": the calls of a
\* second format, and those of an MCP body, are not judged.
EveryFormatJudged ==
    last.kind = "stage" /\ last.answer = "pass" =>
        \A i \in DOMAIN last.seen.msgs : \A c \in last.seen.msgs[i].calls :
            Evaluate(SeenProvider, "model", c) # "block"

\* "Processing context with tenant/provider information": a tool blocked for
\* the provider a request is routed to stops it.  The context names no
\* provider yet, and only an entry called "unknown" is found.
RoutedPolicyApplies ==
    inForce # "partial" /\ last.kind = "stage" /\ last.answer = "pass" =>
        \A c \in ExtractedCalls(last.seen) : ~Named(Provider, c.tool, "block")

\* A document refused by parse() leaves the policies as they were.
RefusedDocumentChangesNothing ==
    [][inForce' = "partial" => policies' = policies]_toolVars

\* The mapping restores every token of every sanitized result: a call that
\* begins while another is under way takes the other's mapping away.
TokensRestorable ==
    \A w \in Workers : \A i \in DOMAIN worker[w].out :
        worker[w].out[i][1] = "token" => <<worker[w].out[i][2], worker[w].in[i]>> \in mappings
=============================================================================
