SPECIFICATION Spec
CONSTANTS
    MaxTextLength = 14
    Titles <- MCTitles
    Summaries <- MCSummaries
    Parts <- MCParts
    None = None
INVARIANTS
    ForwardedIntact
    FitsWithHeaderAndScore
    IndInv
    SummaryCutAsLittleAsPossible
CHECK_DEADLOCK FALSE
