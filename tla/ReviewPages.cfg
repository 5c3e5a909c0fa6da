SPECIFICATION MCSpec
CONSTANTS
    NoValue = NoValue
    Junk = Junk
    Infinite = Infinite
    NotANumber = NotANumber
    Unreadable = Unreadable
    TextColumns <- MCTextColumns
    TextOf <- MCTextOf
    TextContains <- MCTextContains
    DayContains <- MCDayContains
    NumberOf <- MCNumberOf
    GuessedFormat <- MCGuessedFormat
    DayRead <- MCDayRead
    MonthOf <- MCMonthOf
    Fold <- MCFold
    MaxDisplayed = 4
    Files <- MCFiles
    FilterSets <- LinkFilterSets
    MinRRs <- LinkMinRRs
    Tabs = {t1, t2}
    QueryJournals <- MCQueryJournals
    QuerySymbols <- MCQuerySymbols
    TableJournals <- MCTableJournals
    Evidences <- MCEvidences
    Filters = {"XAU"}
    Kept <- MCKept
    TextRank <- MCTextRank
    canonical_ticket <- MCTicket
    TicketNumber <- MCTicketNumber
    TRADE_PAGE_SIZE = 2
INVARIANTS
    RowsAreAsStated
    AcceptedHasKpis
    KpisAreTrue
    AllRowsOrNone
    QueriesAgree
    SameInputSameAnswer
    PagesMakeOneTable
PROPERTIES
    LinksKeepScope
SYMMETRY TabSymmetry
