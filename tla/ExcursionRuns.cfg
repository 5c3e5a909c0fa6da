SPECIFICATION MCSpec
CONSTANTS
    NoValue = NoValue
    Minute = 2
    MaxWindow = 3
    Tolerance = 1
    LastMinute = 4
    MaxPrice = 3
    Tickets = {"t1", "t2"}
    Symbols = {"x", "y"}
    CellDefects = {"INVALID_OPEN"}
    Journals <- MCJournals
    Bases <- MCBases
    Markets <- MCMarkets
\* A run ends with its result.
CHECK_DEADLOCK FALSE
INVARIANTS
    OneVerdictPerRow
    ComputedIffComputable
    RefusalTellsWhy
    ExcursionsAreExtremes
    FlagsAreTrue
