SPECIFICATION Spec
CONSTANTS
    NoValue = NoValue
    WrongType = WrongType
    Canonical <- MCCanonical
    NumberOf <- MCNumberOf
    NamesIn <- MCNamesIn
    Leftover <- MCLeftover
    LeakingTexts = {}
    MAX_EVIDENCE_ITEMS = 2
    MAX_CLAIMS = 1
    MAX_CITATIONS = 1
    MAX_LIMITATION_CODES = 1
    Retrievals <- MCRetrievals
    Candidates <- MCCandidates
    StopReasons <- MCStopReasons
\* A run ends with what it shows.
CHECK_DEADLOCK FALSE
INVARIANTS
    SentOnceOnPurpose
    ShownTextIsJudged
    DeniedMeansUnsent
PROPERTIES
    FailuresAreTold
    RunIsShown
