CONSTANTS
    Texts <- MCTexts
    Paths <- MCPaths
    SegmentLists <- MCSegmentLists
    MaxLen = 8
    X509Files <- MCX509Files
    Tokens <- MCTokens
    Bundled <- MCBundled
SPECIFICATION Spec
INVARIANTS
    AcceptsTheGrammar
    IDsAreWellFormed
    ParsedIsUsable
    ValidatedByOwnTrustDomain
    NoTokenConfusion
