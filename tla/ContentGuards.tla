---------------------------- MODULE ContentGuards ---------------------------
(***************************************************************************)
(* What inspects text on its way in and out, in independent parts:         *)
(*   - the rule firewall: its rule file and loader, the engine, and the    *)
(*     gates of the inbound and outbound middleware;                       *)
(*   - the sliding window of the streaming firewall;                       *)
(*   - the inline firewall with its jailbreak pattern database;            *)
(*   - DLP inspection, sensitivity classification and their combination.   *)
(* A text is the set of items it contains; scores are in percent.          *)
(***************************************************************************)
EXTENDS Integers, Sequences, FiniteSets

CONSTANTS
    RuleFiles,      \* [fails, rules, cats, mapping]: contents of the rule file
    GateTexts,      \* texts of requests and replies at the gates
    Guesses         \* what the ML model may answer: sets of [cat, conf]

\* priority is any integer.
ASSUME RuleAssumption ==
    \A f \in RuleFiles :
        /\ Len(f.rules) \in Nat /\ DOMAIN f.rules = 1..Len(f.rules)
        /\ \A i \in DOMAIN f.rules : f.rules[i].prio \in Int

VARIABLES
    ruleFile,       \* the file on disk
    loaded,         \* FirewallRuleLoader: [rules, cats, mapping]
    engine,         \* the engine the gates were built with: a copy of loaded
    exchange        \* one request and its reply at the middleware

gateVars == <<ruleFile, loaded, engine, exchange>>

CONSTANTS
    Alphabet, Pattern,      \* symbols of a streamed reply; what a rule looks for
    WindowSize, MaxWindowChunk, MaxStreamed

\* WindowSize is window_size; the code leaves the chunks unbounded.
ASSUME WindowAssumption ==
    /\ WindowSize \in Nat /\ MaxWindowChunk \in Nat \ {0}
    /\ Pattern \in Seq(Alphabet) /\ Len(Pattern) > 0

VARIABLES
    buffer,         \* SlidingWindowDetector._buffer
    streamed,       \* everything ingested since the last flush
    hit             \* whether some ingest reported the pattern

windowVars == <<buffer, streamed, hit>>

CONSTANTS
    DefaultPatterns,    \* DEFAULT_JAILBREAK_PATTERNS: set of [item, conf]
    PatternFiles,       \* [fails, patterns]: contents of jailbreak_db.json
    InlineTexts,        \* [items, structural, override, semantic, classifier]
    Thresholds          \* [jailbreak, injection, override]

VARIABLES
    patternFile,
    jailbreak,      \* JailbreakDB: [patterns, compiled, loaded]
    failOpen,       \* FirewallConfig.fail_open
    inline          \* last evaluation: [text, decision, audited]

inlineVars == <<patternFile, jailbreak, failOpen, inline>>

CONSTANTS
    Tenants,
    Items,          \* [name, methods, size, dense]: words of a request
    CorePatterns,   \* set of [name, action]
    TenantFiles,    \* sets of [name, action, compiles]: custom patterns
    MinLength,      \* exfiltration method -> min_length
    EntropyLength,
    Entities, EntityLevel,  \* entity -> 0 (PUBLIC) .. 4 (HIGHLY_RESTRICTED)
    ClientLevels    \* levels a client may assert, or NoLevel

VARIABLES
    tenantPatterns, \* tenant -> set of [name, action]
    entityMap,      \* entity -> level, with the tenants' overrides
    judged          \* the request at the DLP stage

dlpVars == <<tenantPatterns, entityMap, judged>>

-----------------------------------------------------------------------------
(* The rule engine and its gates. *)

NoRules == [rules |-> << >>, cats |-> << >>, mapping |-> [high |-> "BLOCK", medium |-> "FLAG", low |-> "MONITOR"]]
AtRest == [pc |-> "rest"]

GateInit ==
    /\ ruleFile \in RuleFiles
    /\ loaded = NoRules /\ engine = NoRules /\ exchange = AtRest

WriteRuleFile(f) ==
    /\ ruleFile' = f /\ f # ruleFile
    /\ UNCHANGED <<loaded, engine, exchange>>

\* load: a rule that does not validate stops it before anything is assigned, a
\* category after the categories were emptied; a missing file changes nothing.
LoadRules ==
    /\ loaded' = CASE ruleFile.fails = "no" ->
                        [rules |-> ruleFile.rules, cats |-> ruleFile.cats, mapping |-> ruleFile.mapping]
                   [] ruleFile.fails = "category" -> [loaded EXCEPT !.cats = << >>]
                   [] OTHER -> loaded
    /\ UNCHANGED <<ruleFile, engine, exchange>>

\* The engine copies what the loader has; reloading never reaches it.
BuildEngine ==
    /\ engine' = loaded /\ exchange = AtRest
    /\ UNCHANGED <<ruleFile, loaded, exchange>>

Severity(r) == CASE r.sev = "high" -> 3 [] r.sev = "medium" -> 2 [] OTHER -> 1

\* A rule takes part when it and its category are enabled, its pattern occurs,
\* and the confidence of the match reaches the category's threshold.
Fires(e, r, text) ==
    /\ r.enabled /\ r.item \in text
    /\ r.cat \in DOMAIN e.cats => e.cats[r.cat].enabled
    /\ r.conf >= IF r.cat \in DOMAIN e.cats THEN e.cats[r.cat].threshold ELSE 85

\* Mutated Stronger: the first rule of a category stays.
Stronger_First(e, i, j) == e.rules[i].prio > e.rules[j].prio

\* _deduplicate_by_category, over rules sorted by falling priority.
Stronger(e, i, j) ==
    \/ Severity(e.rules[i]) > Severity(e.rules[j])
    \/ Severity(e.rules[i]) = Severity(e.rules[j]) /\ e.rules[i].prio > e.rules[j].prio

EvaluateRules(e, text) ==
    LET fired == {i \in DOMAIN e.rules : Fires(e, e.rules[i], text)} IN
    {[cat |-> e.rules[i].cat, conf |-> e.rules[i].conf, sev |-> e.rules[i].sev, action |-> e.rules[i].action] :
       i \in {k \in fired : \A j \in fired \ {k} : e.rules[j].cat = e.rules[k].cat =>
                 Stronger(e, k, j) \/ (~Stronger(e, j, k) /\ k < j)}}

\* FirewallMLModel: whatever it finds is of medium severity and is flagged.
Guessed(guess) == {[cat |-> g.cat, conf |-> g.conf, sev |-> "medium", action |-> "FLAG"] :
                     g \in {x \in guess : x.conf >= 50}}

\* evaluate_with_ml and _merge_results: a surer guess takes the place of the
\* rule of its category; without a rule result the model is not asked.
EvaluateWithMl(e, text, guess) ==
    LET ruled == EvaluateRules(e, text)
        model == Guessed(guess)
    IN  IF ruled = {} THEN {}
        ELSE {r \in ruled : \A m \in model : m.cat = r.cat => m.conf <= r.conf}
             \union {m \in model : \A r \in ruled : r.cat = m.cat => m.conf > r.conf}

ShouldBlock(results) == \E r \in results : r.action = "BLOCK"

\* _apply_severity_mapping: the action of a reply is that of its severity.
Mapped(e, results) == {[r EXCEPT !.action = e.mapping[r.sev]] : r \in results}

\* check_post_restore asks the rules alone.
PostRestore(e, text) == Mapped(e, EvaluateRules(e, text))

Inbound(text) ==
    /\ exchange = AtRest
    /\ exchange' = [pc |-> IF ShouldBlock(EvaluateRules(engine, text)) THEN "refused" ELSE "called",
                    request |-> text, reply |-> {}]
    /\ UNCHANGED <<ruleFile, loaded, engine>>

\* The handler ran; the middleware looks at the request it kept once more.
CallNext(reply) ==
    /\ exchange.pc = "called"
    /\ exchange' = [exchange EXCEPT !.reply = reply,
                      !.pc = IF ShouldBlock(EvaluateRules(engine, exchange.request)) THEN "refused" ELSE "replied"]
    /\ UNCHANGED <<ruleFile, loaded, engine>>

Outbound(guess) ==
    /\ exchange.pc = "replied"
    /\ LET before == Mapped(engine, EvaluateWithMl(engine, exchange.reply, guess))
           after == PostRestore(engine, exchange.reply)
       IN  exchange' = [exchange EXCEPT !.pc =
                          IF ShouldBlock(before) \/ ShouldBlock(after) THEN "withheld" ELSE "delivered"]
    /\ UNCHANGED <<ruleFile, loaded, engine>>

EndExchange ==
    /\ exchange.pc \in {"refused", "withheld", "delivered"} /\ exchange' = AtRest
    /\ UNCHANGED <<ruleFile, loaded, engine>>

GateNext ==
    \/ \E f \in RuleFiles : WriteRuleFile(f)
    \/ LoadRules \/ BuildEngine
    \/ \E t \in GateTexts : Inbound(t) \/ CallNext(t)
    \/ \E g \in Guesses : Outbound(g)
    \/ EndExchange

-----------------------------------------------------------------------------
(* The sliding window. *)

Occurs(text) == \E i \in 0..(Len(text) - Len(Pattern)) :
                    Len(text) >= Len(Pattern) /\ SubSeq(text, i + 1, i + Len(Pattern)) = Pattern

WindowInit == buffer = << >> /\ streamed = << >> /\ hit = FALSE

\* Mutated Trimmed: one symbol too many is cut.
Trimmed_Short(text) == IF Len(text) > WindowSize THEN SubSeq(text, Len(text) - WindowSize + 2, Len(text)) ELSE text

Trimmed(text) == IF Len(text) > WindowSize THEN SubSeq(text, Len(text) - WindowSize + 1, Len(text)) ELSE text

WindowIngest(chunk) ==
    /\ Len(streamed) + Len(chunk) <= MaxStreamed
    /\ buffer' = Trimmed(buffer \o chunk)
    /\ streamed' = streamed \o chunk
    /\ hit' = (hit \/ Occurs(Trimmed(buffer \o chunk)))

FlushWindow ==
    /\ streamed # << >>
    /\ buffer' = << >> /\ streamed' = << >> /\ hit' = FALSE

WindowNext ==
    \/ \E n \in 1..MaxWindowChunk : \E chunk \in [1..n -> Alphabet] : WindowIngest(chunk)
    \/ FlushWindow

-----------------------------------------------------------------------------
(* The inline firewall. *)

InlineInit ==
    /\ patternFile \in PatternFiles
    /\ jailbreak = [patterns |-> {}, compiled |-> {}, loaded |-> FALSE]
    /\ failOpen \in BOOLEAN
    /\ inline = [decision |-> "none", items |-> {}]

WritePatternFile(f) ==
    /\ patternFile' = f /\ f # patternFile
    /\ UNCHANGED <<jailbreak, failOpen, inline>>

\* load: an entry that does not validate raises before the assignment, a
\* regular expression that does not compile after it.
Loaded(db) ==
    CASE patternFile.fails = "no" ->
            [patterns |-> patternFile.patterns, compiled |-> patternFile.patterns, loaded |-> TRUE]
      [] patternFile.fails = "compile" -> [db EXCEPT !.patterns = patternFile.patterns]
      [] patternFile.fails = "absent" ->
            [patterns |-> DefaultPatterns, compiled |-> DefaultPatterns, loaded |-> TRUE]
      [] OTHER -> db

\* Mutated Unloaded: a reload keeps the mark of the last load.
Unloaded_Kept(db) == db

Unloaded(db) == [db EXCEPT !.loaded = FALSE]

ReloadPatterns ==
    /\ jailbreak' = Loaded(Unloaded(jailbreak))
    /\ UNCHANGED <<patternFile, failOpen, inline>>

\* match arms the default patterns when nothing is loaded.
Armed(db) == IF db.loaded THEN db
             ELSE [patterns |-> DefaultPatterns, compiled |-> DefaultPatterns, loaded |-> TRUE]

Matches(db, items) == {p.conf : p \in {q \in db.compiled : q.item \in items}}

NeedsSemanticScan(t, confs) == t.structural >= 30 \/ t.override >= 30 \/ \E c \in confs : c >= 30

\* InjectionScorer.score and ONNXClassifier.score; a classifier may be absent
\* (0) or fail (101).
Detected(t, confs) ==
    \/ t.structural >= Thresholds.jailbreak
    \/ \E c \in confs : c >= Thresholds.jailbreak
    \/ t.override >= Thresholds.override
    \/ NeedsSemanticScan(t, confs) /\ t.semantic >= Thresholds.injection
    \/ t.classifier \in Thresholds.injection..100

\* evaluate: an exception of a detector or of the audit of a block ends in the
\* handler that fails open or closed.
Decision(t, confs, audited) ==
    IF Detected(t, confs) /\ audited THEN "BLOCK"
    ELSE IF Detected(t, confs) \/ t.classifier = 101 THEN IF failOpen THEN "ALLOW" ELSE "ERROR"
    ELSE "ALLOW"

EvaluateInline(t, audited) ==
    /\ jailbreak' = IF t.structural >= Thresholds.jailbreak THEN jailbreak ELSE Armed(jailbreak)
    /\ inline' = [decision |-> Decision(t, Matches(Armed(jailbreak), t.items), audited), items |-> t.items]
    /\ UNCHANGED <<patternFile, failOpen>>

InlineNext ==
    \/ \E f \in PatternFiles : WritePatternFile(f)
    \/ ReloadPatterns
    \/ \E t \in InlineTexts, audited \in BOOLEAN : EvaluateInline(t, audited)

-----------------------------------------------------------------------------
(* DLP and classification. *)

NoLevel == 9

ASSUME LevelAssumption ==
    EntityLevel \in [Entities -> 0..4] /\ ClientLevels \subseteq 0..4 \union {NoLevel}

Actions == <<"allow", "anonymize", "redact", "quarantine", "block">>
ActionRank(a) == CHOOSE i \in DOMAIN Actions : Actions[i] = a

DlpInit ==
    /\ tenantPatterns = [t \in Tenants |-> {}]
    /\ entityMap = EntityLevel
    /\ judged = [pc |-> "rest"]

\* load_tenant_patterns: entries that do not compile are dropped, an action is
\* taken as it stands.
LoadTenantPatterns(t, file) ==
    /\ tenantPatterns' = [tenantPatterns EXCEPT ![t] =
                            {[name |-> p.name, action |-> p.action] : p \in {q \in file : q.compiles}}]
    /\ UNCHANGED <<entityMap, judged>>

UpdateEntityMap(e, level) ==
    /\ entityMap' = [entityMap EXCEPT ![e] = level]
    /\ UNCHANGED <<tenantPatterns, judged>>

\* ExfiltrationDetector.detect: the methods whose pattern is long enough, and
\* high entropy for a word no pattern covered.
Exfiltration(w) ==
    LET byPattern == {m \in w.methods : w.size >= MinLength[m]} IN
    IF byPattern # {} THEN byPattern
    ELSE IF w.size >= EntropyLength /\ w.dense THEN {"high_entropy"} ELSE {}

\* inspect: the actions of what was found.
Inspected(tenant, text) ==
    {p.action : p \in {q \in CorePatterns \union tenantPatterns[tenant] : \E w \in text : w.name = q.name}}
    \union (IF \E w \in text : Exfiltration(w) # {} THEN {"block"} ELSE {})

\* An action no DLPAction has raises out of inspect.
Raises(found) == \E a \in found : a \notin {Actions[i] : i \in DOMAIN Actions}

MaxAction(found) == IF found = {} THEN "allow"
                    ELSE CHOOSE a \in found : \A b \in found : ActionRank(b) <= ActionRank(a)

IsBlocked(action) == action \in {"block", "quarantine"}

\* classify: the highest level of the entities, INTERNAL without any.
StrongestOf(entities) == LET levels == {entityMap[e] : e \in entities} IN
    IF levels = {} THEN 1 ELSE CHOOSE l \in levels : \A m \in levels : m <= l

\* Mutated WithClient: the client's assertion replaces what was detected.
WithClient_Replaces(detected, client) == IF client # NoLevel THEN client ELSE detected

\* classify_with_client_override only raises.
WithClient(detected, client) == IF client # NoLevel /\ client > detected THEN client ELSE detected

\* determine_handling and its mapping to a DLP action.
ClassAction(level) == CASE level >= 4 -> "block" [] level \in 2..3 -> "anonymize" [] OTHER -> "allow"

Tightened(base, constraint) == IF ActionRank(constraint) > ActionRank(base) THEN constraint ELSE base

Submit(tenant, text, entities, client) ==
    /\ judged.pc = "rest"
    /\ judged' = [pc |-> "classify", tenant |-> tenant, text |-> text, entities |-> entities,
                  client |-> client, detected |-> 0, level |-> 0, found |-> {}, action |-> "allow"]
    /\ UNCHANGED <<tenantPatterns, entityMap>>

Classify ==
    /\ judged.pc = "classify"
    /\ judged' = [judged EXCEPT !.pc = "inspect", !.detected = StrongestOf(judged.entities),
                                !.level = WithClient(StrongestOf(judged.entities), judged.client)]
    /\ UNCHANGED <<tenantPatterns, entityMap>>

InspectRequest ==
    /\ judged.pc = "inspect"
    /\ LET found == Inspected(judged.tenant, judged.text) IN
       judged' = IF Raises(found) THEN [judged EXCEPT !.pc = "error", !.found = found]
                 ELSE [judged EXCEPT !.found = found, !.action = MaxAction(found),
                         !.pc = IF IsBlocked(MaxAction(found)) THEN "stopped" ELSE "decide"]
    /\ UNCHANGED <<tenantPatterns, entityMap>>

\* PDP2Service.evaluate and what PipelineService.run makes of it.
Decide ==
    /\ judged.pc = "decide"
    /\ LET action == Tightened(judged.action, ClassAction(judged.level)) IN
       judged' = [judged EXCEPT !.action = action, !.pc = IF IsBlocked(action) THEN "stopped" ELSE "forwarded"]
    /\ UNCHANGED <<tenantPatterns, entityMap>>

GateAnswer ==
    /\ judged.pc \in {"error", "stopped", "forwarded"}
    /\ judged' = [pc |-> "rest"]
    /\ UNCHANGED <<tenantPatterns, entityMap>>

DlpNext ==
    \/ \E t \in Tenants, f \in TenantFiles : LoadTenantPatterns(t, f)
    \/ \E e \in Entities, l \in 0..4 : UpdateEntityMap(e, l)
    \/ \E t \in Tenants, text \in SUBSET Items, es \in SUBSET Entities, c \in ClientLevels : Submit(t, text, es, c)
    \/ Classify \/ InspectRequest \/ Decide \/ GateAnswer

-----------------------------------------------------------------------------
\* The four parts share no state.
guardVars == <<gateVars, windowVars, inlineVars, dlpVars>>

GuardInit == GateInit /\ WindowInit /\ InlineInit /\ DlpInit

GuardNext ==
    \/ GateNext /\ UNCHANGED <<windowVars, inlineVars, dlpVars>>
    \/ WindowNext /\ UNCHANGED <<gateVars, inlineVars, dlpVars>>
    \/ InlineNext /\ UNCHANGED <<gateVars, windowVars, dlpVars>>
    \/ DlpNext /\ UNCHANGED <<gateVars, windowVars, inlineVars>>

GuardSpec == GuardInit /\ [][GuardNext]_guardVars

-----------------------------------------------------------------------------
\* A reply on which a rule of high severity fires is never delivered while high
\* severity is mapped to BLOCK: neither a surer guess of the model, nor a rule
\* of the same category with a higher priority takes its place.
HighSeverityStopsReply ==
    exchange.pc = "delivered" /\ engine.mapping["high"] = "BLOCK" =>
        \A i \in DOMAIN engine.rules :
            Fires(engine, engine.rules[i], exchange.reply) => engine.rules[i].sev # "high"

\* An occurrence of the pattern in a stream is reported however the stream was
\* cut, for chunks that leave the window room for the rest of the pattern.
WindowSees ==
    MaxWindowChunk + Len(Pattern) - 1 <= WindowSize /\ Occurs(streamed) => hit

\* The patterns the database lists are the ones it matches with.
ListedPatternsMatch == jailbreak.loaded => jailbreak.patterns = jailbreak.compiled

\* A forwarded request had nothing in it that asks to be stopped: no pattern
\* that blocks or quarantines, no encoded word, and no level, found or asserted
\* by the client, that is highly restricted.
SensitiveStopped ==
    judged.pc = "forwarded" =>
        /\ judged.found \intersect {"block", "quarantine"} = {}
        /\ \A w \in judged.text : Exfiltration(w) = {}
        /\ judged.detected < 4 /\ judged.client # 4

\* No guard loses a finding between detection and action: the gates, the
\* streaming window, the inline patterns and the classification with DLP.
GuardsHold ==
    /\ HighSeverityStopsReply
    /\ WindowSees
    /\ ListedPatternsMatch
    /\ SensitiveStopped

\* A blocking rule that fires on a request blocks it.  It fails: a rule of the
\* same category with a higher severity that only monitors takes its place.
BlockingRuleBlocks ==
    exchange.pc = "delivered" =>
        \A i \in DOMAIN engine.rules :
            Fires(engine, engine.rules[i], exchange.request) => engine.rules[i].action # "BLOCK"

\* A file that does not load changes nothing.  It fails for a bad category.
FailedLoadChangesNothing ==
    [][loaded' # loaded => ruleFile.fails = "no"]_gateVars

\* A failed reload keeps the patterns in use.  It fails: the defaults return.
FailedReloadKeepsPatterns ==
    [][jailbreak'.compiled # jailbreak.compiled /\ jailbreak.compiled # {} => patternFile.fails \in {"no", "absent"}]_inlineVars

\* A detected text is not allowed.  It fails open when auditing the block fails.
DetectedNotAllowed ==
    inline.decision = "ALLOW" =>
        \A p \in jailbreak.compiled : p.item \in inline.items => p.conf < Thresholds.jailbreak
=============================================================================
