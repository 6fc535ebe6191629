----------------------------- MODULE MCContent ------------------------------
(* TLC instance of the modules that handle text on its way through the        *)
(* gateway: masking, the tail buffer, the content guards, the voice path and  *)
(* the provider adapters.  They share no variable, so a behaviour lets one    *)
(* part run and the others rest in an initial state.                          *)
EXTENDS SpanMasking, TailBuffer, ContentGuards, VoiceStream, ProviderAdapters

VARIABLE part

contentVars == <<maskVars, tailVars, gateVars, windowVars, inlineVars, dlpVars,
                 voiceVars, sttVars, channelVars, providerVars, part>>

ContentInit ==
    /\ MaskInit /\ TailInit /\ GateInit /\ WindowInit /\ InlineInit /\ DlpInit
    /\ VoiceInit /\ SttInit /\ ChannelInit /\ ProviderInit
    /\ part \in {"masking", "tail", "gates", "window", "inline", "dlp",
                 "voice", "stt", "channel", "providers"}
    /\ part # "tail" => text = CHOOSE t \in StreamTexts : TRUE
    /\ part # "gates" => ruleFile = CHOOSE f \in RuleFiles : TRUE
    /\ part # "inline" => patternFile = (CHOOSE f \in PatternFiles : TRUE) /\ ~failOpen
    /\ part # "providers" => environ = CHOOSE e \in Environments : TRUE

\* The guards, the voice path and the adapters may stop with their input.
InputEnds == part \notin {"masking", "tail"} /\ UNCHANGED <<maskVars, tailVars, gateVars,
    windowVars, inlineVars, dlpVars, voiceVars, sttVars, channelVars, providerVars>>

textRest == <<gateVars, windowVars, inlineVars, dlpVars, voiceVars, sttVars, channelVars, providerVars>>
guardRest == <<maskVars, tailVars, voiceVars, sttVars, channelVars, providerVars>>
voiceRest == <<maskVars, tailVars, gateVars, windowVars, inlineVars, dlpVars, providerVars>>

ContentNext ==
    /\ UNCHANGED part
    /\ \/ part = "masking" /\ MaskNext /\ UNCHANGED <<tailVars, textRest>>
       \/ part = "tail" /\ TailNext /\ UNCHANGED <<maskVars, textRest>>
       \/ part = "gates" /\ GateNext /\ UNCHANGED <<windowVars, inlineVars, dlpVars, guardRest>>
       \/ part = "window" /\ WindowNext /\ UNCHANGED <<gateVars, inlineVars, dlpVars, guardRest>>
       \/ part = "inline" /\ InlineNext /\ UNCHANGED <<gateVars, windowVars, dlpVars, guardRest>>
       \/ part = "dlp" /\ DlpNext /\ UNCHANGED <<gateVars, windowVars, inlineVars, guardRest>>
       \/ part = "voice" /\ VoiceNext /\ UNCHANGED <<sttVars, channelVars, voiceRest>>
       \/ part = "stt" /\ SttNext /\ UNCHANGED <<voiceVars, channelVars, voiceRest>>
       \/ part = "channel" /\ ChannelNext /\ UNCHANGED <<voiceVars, sttVars, voiceRest>>
       \/ part = "providers" /\ ProviderNext
             /\ UNCHANGED <<maskVars, tailVars, gateVars, windowVars, inlineVars, dlpVars,
                            voiceVars, sttVars, channelVars>>
       \/ InputEnds

ContentSpec == ContentInit /\ [][ContentNext]_contentVars
-----------------------------------------------------------------------------
\* Masking: a secret type, a type with a checksum, the type it is downgraded
\* to, a name; two nodes; a checksum that two-character values pass.
a == [char |-> "a"]
b == [char |-> "b"]
TwoNodes == << << a, b, a >>, << a >> >>
Ranking == [KEY |-> 4, TAX_ID |-> 3, TAX_ID_UNVERIFIED |-> 2, NAME |-> 1]
Downgrades == [t \in {"TAX_ID"} |-> "TAX_ID_UNVERIFIED"]
TwoChars(value) == Len(value) = 2
SafeValues == {<< b >>}

\* The tail buffer: tokens of five and six characters and one that is longer
\* than the window by a character.
Token == << "[", "A", "_", "1", "]" >>
Words == << ".", "a" >>
SampleTexts == {
    Words \o Token \o Words \o Token \o Words,
    << ".", "[", "a", "a", "a", "_", "1", "1", "1", "2", "1", "2", "1", "." >>,
    << "[", "[", "A", "_", "_", "1", "2", "]", ".", "[", "A", "B", "_", "2", "]", "." >>}

\* The guards: rule files that load or fail half way, texts by what they match.
Rule(i, c, act, s, p, conf) ==
    [item |-> i, cat |-> c, action |-> act, sev |-> s, prio |-> p, conf |-> conf, enabled |-> TRUE]
MCRuleFiles ==
    {[fails |-> "no", cats |-> << >>, mapping |-> NoRules.mapping,
      rules |-> <<Rule("x", "injection", "BLOCK", "low", 1, 90),
                  Rule("y", "injection", "MONITOR", "high", 0, 90),
                  Rule("z", "jailbreak", "BLOCK", "medium", 0, 90)>>],
     [fails |-> "no", mapping |-> NoRules.mapping,
      cats |-> [c \in {"injection"} |-> [enabled |-> TRUE, threshold |-> 95]],
      rules |-> <<Rule("x", "injection", "MONITOR", "high", 1, 96),
                  Rule("y", "injection", "BLOCK", "high", 0, 90)>>],
     [fails |-> "category", cats |-> << >>, mapping |-> NoRules.mapping, rules |-> << >>],
     [fails |-> "rules", cats |-> << >>, mapping |-> NoRules.mapping, rules |-> << >>]}
MCGateTexts == SUBSET {"x", "y", "z"}
MCGuesses == {{}, {[cat |-> "injection", conf |-> 99]}, {[cat |-> "jailbreak", conf |-> 60]}}
MCPattern == <<"a", "b", "a">>
MCDefaultPatterns == {[item |-> "x", conf |-> 95]}
MCPatternFiles ==
    {[fails |-> "no", patterns |-> {[item |-> "y", conf |-> 90], [item |-> "z", conf |-> 40]}],
     [fails |-> "compile", patterns |-> {[item |-> "z", conf |-> 90]}],
     [fails |-> "validate", patterns |-> {}], [fails |-> "absent", patterns |-> {}]}
MCInlineTexts ==
    [items : SUBSET {"x", "y", "z"}, structural : {0, 91}, override : {0, 73, 90},
     semantic : {0, 90}, classifier : {0, 90, 101}]
MCThresholds == [jailbreak |-> 85, injection |-> 85, override |-> 90]
MCItems == {[name |-> "card", methods |-> {}, size |-> 16, dense |-> FALSE],
            [name |-> "blob", methods |-> {"base64"}, size |-> 40, dense |-> TRUE],
            [name |-> "word", methods |-> {"base64"}, size |-> 8, dense |-> TRUE]}
MCCorePatterns == {[name |-> "card", action |-> "quarantine"], [name |-> "word", action |-> "redact"]}
MCTenantFiles == {{}, {[name |-> "card", action |-> "block", compiles |-> TRUE]},
                  {[name |-> "word", action |-> "log", compiles |-> TRUE],
                   [name |-> "card", action |-> "block", compiles |-> FALSE]}}
MCMinLength == [m \in {"base64"} |-> 20]
MCEntityLevel == [e \in Entities |-> IF e = "key" THEN 4 ELSE 1]

\* The voice path: what is spoken in a chunk; secrets of two characters and of
\* four, which may lie in one chunk or be spread over four.
MCTranscripts == {<<>>, <<"n">>, <<"s">>, <<"n", "s">>, <<"s", "s">>}
MCSecretForms == {<<"s", "s">>, <<"s", "n", "n", "s">>}

\* The adapters: the alias table, and environments with own, shared and blank
\* keys.
MCTable == [gpt |-> "openai", claude |-> "anthropic", gem |-> "gemini", llama |-> "ollama", odd |-> "azure"]
MCAdapters == {"openai", "anthropic", "gemini", "ollama", "azure"}
Env(x, y, s) == [prefixed |-> [p \in MCAdapters |-> IF x = "own" THEN p ELSE x],
                 plain |-> [p \in MCAdapters |-> IF y = "own" THEN p ELSE y], shared |-> s]
MCEnvs == {Env("own", "unset", "shared"), Env("template", "own", "unset"), Env("blank", "unset", "shared")}
=============================================================================
