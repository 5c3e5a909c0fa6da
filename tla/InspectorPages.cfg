SPECIFICATION MCSpec
CONSTANTS
    NoValue = NoValue
    TooLong = TooLong
    WrongType = WrongType
    TicketOf <- MCTicketOf
    Fold <- MCFold
    NumericKey <- MCNumericKey
    TextRank <- MCTextRank
    Numeral <- MCNumeral
    NumberOf <- MCNumberOf
    NamesIn <- MCNamesIn
    Leftover <- MCLeftover
    LeakingTexts <- MCLeakingTexts
    Canonical <- MCCanonical
    DEFAULT_TOP_K = 2
    MAX_TOP_K = 3
    MAX_EVIDENCE_ITEMS = 3
    MAX_CLAIMS = 2
    MAX_CITATIONS = 2
    MAX_LIMITATION_CODES = 2
    MaxScore = 2
    Journals <- MCJournals
    Kpis <- MCKpis
    Verdicts <- MCVerdicts
    TimeBases <- MCTimeBases
    Forms <- AllForms
    Answers <- MCAnswers
INVARIANTS
    RetrievalsBecomePackets
    OnlyBadTicketsRefuseCorpus
    ClaimsRestateJournal
    TokensAreBacked
    LimitationsAreAdmitted
