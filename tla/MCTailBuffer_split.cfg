SPECIFICATION TailSpec
CONSTANTS
    StreamTexts <- SampleTexts
    Window = 6
    MaxBuffer = 10
    MaxChunk = 5
    NameLen = 49
    PartialLen = 19
    MaxBypass = 0
INVARIANTS
    NoTokenSplit
