SPECIFICATION MaskSpec
CONSTANTS
    NodeTexts <- OneNode
    Specificity <- SecretAndName
    Irreversible = {"KEY"}
    Checked = {}
    Valid <- TwoChars
    OnFormat <- NoDowngrades
    Excluded = {}
    MaxScore = 1
    MaxRegex = 2
    MaxOther = 0
INVARIANT ReportedSpansMasked
