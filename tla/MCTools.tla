------------------------------ MODULE MCTools -------------------------------
(* TLC instance of the modules behind tool calls: the policies and sanitizers  *)
(* of ToolGovernance and the approvals a policy may ask for.  They share no    *)
(* variable, so a behaviour lets one part run and the others rest.             *)
EXTENDS ToolGovernance, ApprovalManager, TLC

VARIABLE part

ToolsInit == ToolInit /\ Init /\ part \in {"judge", "sanitize", "approvals"}

\* The gateway may rest when no tool call comes.
CallsEnd == part # "approvals" /\ UNCHANGED <<judgeVars, sanitizeVars, vars>>

ToolsNext ==
    /\ UNCHANGED part
    /\ \/ part = "judge" /\ JudgeNext /\ UNCHANGED <<sanitizeVars, vars>>
       \/ part = "sanitize" /\ SanitizeNext /\ UNCHANGED <<judgeVars, vars>>
       \/ part = "approvals" /\ Next /\ UNCHANGED <<judgeVars, sanitizeVars>>
       \/ CallsEnd

ToolsSpec == ToolsInit /\ [][ToolsNext]_<<judgeVars, sanitizeVars, vars, part>>

Symmetry == Permutations(Tokens) \cup Permutations(Calls)
-----------------------------------------------------------------------------
\* Policy documents in which an exact rule, a prefix and a pattern meet, and
\* one that is refused half way.
MCRule(kind, match, perm, risk) == [kind |-> kind, match |-> match, perm |-> perm, risk |-> risk]
MCEntry(p, rules) == [provider |-> p, rules |-> rules, risks |-> [t3 |-> "critical"]]
MCDocuments == { << >>,
    <<MCEntry("unknown", <<MCRule("glob", {"t1", "t2"}, "allow", "low"),
                           MCRule("exact", {"t1"}, "block", "none"),
                           MCRule("exact", {"t1"}, "allow", "none")>>)>>,
    <<MCEntry("openai", <<MCRule("exact", {"t1"}, "block", "none")>>)>>,
    <<MCEntry("gemini", << >>),
      MCEntry("unknown", <<MCRule("prefix", {"t1", "t2"}, "require_human_approval", "none"),
                           MCRule("exact", {"t2"}, "allow_with_audit", "high")>>)>>,
    <<MCEntry("host_shell", <<MCRule("exact", {"t1"}, "block", "none")>>),
      MCEntry("unknown", <<MCRule("exact", {"t1"}, "bad", "none")>>)>> }
MCCall(t, cred) == [tool |-> t, cred |-> cred]
MCMsg(fmt, calls, broken) == [fmt |-> fmt, calls |-> calls, broken |-> broken]
MCMsgs == {MCMsg("none", {}, FALSE), MCMsg("openai", {MCCall("t1", "none")}, FALSE),
           MCMsg("openai", {MCCall("t2", "session"), MCCall("t3", "none")}, FALSE),
           MCMsg("anthropic", {MCCall("t1", "none")}, FALSE),
           MCMsg("openai", {}, TRUE), MCMsg("anthropic", {MCCall("t2", "foreign")}, FALSE)}
MCBodies == {[method |-> "none", msgs |-> s] : s \in MCMsgs \X MCMsgs}
    \union {[method |-> "tools/call", msgs |-> << >>]}
MCNamedCalls == {[provider |-> p, domain |-> d, call |-> MCCall(t, cred)] :
    p \in {"openai", "gemini", "host_shell", "host_mcp"}, d \in {"model", "host"}, t \in {"t1", "t3"},
    cred \in {"none", "foreign"}}
MCResults == {<<"a", "plain">>, <<"a", "b", "a">>, <<"b", "a">>}
MCToolMessages == [json : BOOLEAN, marker : BOOLEAN, versions : BOOLEAN, tools : {{}, {"t1"}}]
MCAgentCalls == [policy : {"none", "allow", "require_approval"}, schema : {"none", "violated"}, threat : BOOLEAN]
MCFindings == [pii : BOOLEAN, tokens : {0, 1, 4}, original : BOOLEAN, prompt : BOOLEAN, brackets : {0, 3, 9}]
=============================================================================
