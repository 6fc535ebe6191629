SPECIFICATION ContentSpec
CONSTANTS
    NodeTexts <- TwoNodes
    Specificity <- Ranking
    Irreversible = {"KEY"}
    Checked = {"TAX_ID"}
    Valid <- TwoChars
    OnFormat <- Downgrades
    Excluded <- SafeValues
    MaxScore = 1
    MaxRegex = 2
    MaxOther = 1
    StreamTexts <- SampleTexts
    Window = 6
    MaxBuffer = 10
    MaxChunk = 5
    NameLen = 49
    PartialLen = 19
    MaxBypass = 1
    RuleFiles <- MCRuleFiles
    GateTexts <- MCGateTexts
    Guesses <- MCGuesses
    Alphabet = {"a", "b"}
    Pattern <- MCPattern
    WindowSize = 4
    MaxWindowChunk = 2
    MaxStreamed = 9
    DefaultPatterns <- MCDefaultPatterns
    PatternFiles <- MCPatternFiles
    InlineTexts <- MCInlineTexts
    Thresholds <- MCThresholds
    Tenants = {"t1", "t2"}
    Items <- MCItems
    CorePatterns <- MCCorePatterns
    TenantFiles <- MCTenantFiles
    MinLength <- MCMinLength
    EntropyLength = 30
    Entities = {"key", "name"}
    EntityLevel <- MCEntityLevel
    ClientLevels = {0, 4, 9}
    Transcripts <- MCTranscripts
    SecretForms <- MCSecretForms
    Dur = 2
    VoiceWindow = 5
    VoiceOverlap = 3
    Margin = 1
    MaxVoiceChunks = 6
    Listeners = {l1, l2}
    AudioStamps = {1, 2}
    MaxSegments = 2
    MaxTexts = 3
    MaxConnections = 2
    Fragments = 3
    MaxMessages = 2
    MaxConnects = 4
    AliasNames = {"gpt", "claude", "gem", "llama", "odd", "nosuch"}
    AliasTable <- MCTable
    Adapters <- MCAdapters
    Importable = {"openai", "anthropic", "gemini", "ollama"}
    Streamers = {"openai", "anthropic", "gemini", "ollama"}
    Environments <- MCEnvs
    StoreValues = {"unset", "template", "own"}
    MaxLines = 4
    MaxRotates = 1
INVARIANTS StreamIntact MaskingSound GuardsHold VoiceSound AdaptersFaithful
