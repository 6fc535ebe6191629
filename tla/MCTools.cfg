SPECIFICATION ToolsSpec
CONSTANTS
    Documents <- MCDocuments
    Bodies <- MCBodies
    Provider = "openai"
    Workers = {w1, w2}
    Results <- MCResults
    ToolMessages <- MCToolMessages
    AgentCalls <- MCAgentCalls
    Findings <- MCFindings
    MaxLoads = 2
    MaxSessions = 3
    NamedCalls <- MCNamedCalls
    Tokens = {t1, t2}
    Calls = {c1, c2, c3}
    MaxOpen = 2
SYMMETRY Symmetry
INVARIANTS ToolsGoverned DecisionsOverlap
PROPERTY DecisionsKept
