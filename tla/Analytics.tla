----------------------------- MODULE Analytics ------------------------------
(***************************************************************************)
(* performance/analytics.py, apply_analysis: the rows of the journal that  *)
(* the filters of a page select, and the filters that were really applied. *)
(*                                                                         *)
(* A filter is NoValue when it is absent; a start or end date also when it *)
(* is no ISO date.                                                         *)
(***************************************************************************)
EXTENDS JournalIngestion, Kpis

CONSTANTS
    TextContains(_, _),  \* is the first text part of the second, case aside?
    DayContains(_, _),   \* is the text part of the day's YYYY-MM-DD?
    NumberOf(_),         \* the number a text names, NoValue if it names none
    TextOf(_),           \* a cell as text; an empty cell has one, too
    GuessedFormat(_),    \* the format pandas guesses from a date, NoValue if none
    DayRead(_, _)        \* the day a cell reads as in a format, NoValue if none

SmartTextColumns == {"Symbol", "Type", "Side", "Tag", "Tags", "Notes",
                     "Comment", "Comments", "Strategy", "Reason"}

SmartNumericColumns ==
    {"Profit", "Commission", "Swap", "Balance", "Pips", "Size", "Volume"}

NoFilters == [start_date |-> NoValue, end_date |-> NoValue,
              symbol |-> NoValue, q |-> NoValue]

(* Where no column is known to be text, every column of texts is searched.   *)
SearchedColumns(journal) ==
    LET smart == journal.columns \cap SmartTextColumns
    IN IF smart # {} THEN smart ELSE journal.columns \cap TextColumns

(* Any other date column is text.  pandas parses the rows it is given in the *)
(* format of the first that is not empty, or one by one if it guesses none.  *)
LaterDateColumns(columns) ==
    (Range(DateColumns) \cap columns) \ {FirstDateColumn(columns)}

FormatAmong(journal, rows, c) ==
    LET filled == {r \in rows : journal.rows[r][c] # NoValue}
    IN IF filled = {} THEN NoValue ELSE GuessedFormat(journal.rows[Min(filled)][c])

DayAmong(journal, rows, r, c) ==
    IF c \in LaterDateColumns(journal.columns)
    THEN DayRead(journal.rows[r][c], FormatAmong(journal, rows, c))
    ELSE Parsed(journal.rows[r][c])

(* Is the row found among the rows that the filters before the search left?  *)
IsFound(journal, rows, r, q) ==
    LET row == journal.rows[r] IN
    \/ \E c \in SearchedColumns(journal) : TextContains(q, TextOf(row[c]))
    \/ /\ NumberOf(q) # NoValue
       /\ \E c \in SmartNumericColumns \cap journal.columns : row[c] = NumberOf(q)
    \/ \E c \in Range(DateColumns) \cap journal.columns :
          LET day == DayAmong(journal, rows, r, c)
          IN day # NoValue /\ DayContains(q, day)

(* A row without a date is outside every range.                              *)
InRange(day, start, end) ==
    /\ day # NoValue
    /\ start # NoValue => day >= start
    /\ end # NoValue => day =< end

Dated(journal) == FirstDateColumn(journal.columns) # NoValue

(* The filters the page states: active_filters has those for which the       *)
(* journal has a column.                                                     *)
Applied(journal, filters) ==
    [filters EXCEPT
       !.start_date = IF Dated(journal) THEN @ ELSE NoValue,
       !.end_date = IF Dated(journal) THEN @ ELSE NoValue,
       !.symbol = IF "Symbol" \in journal.columns THEN @ ELSE NoValue]

InDates(journal, row, filters) ==
    /\ Dated(journal)
    /\ filters.start_date # NoValue \/ filters.end_date # NoValue
    => InRange(Parsed(row[FirstDateColumn(journal.columns)]),
               filters.start_date, filters.end_date)

OfSymbol(journal, row, filters) ==
    "Symbol" \in journal.columns /\ filters.symbol # NoValue =>
        TextContains(filters.symbol, TextOf(row["Symbol"]))

(* Faulty variant: the search starts from all rows again.                    *)
ScopeSearchAll(journal, filters) ==
    {r \in DOMAIN journal.rows :
        LET row == journal.rows[r]
        IN IF filters.q # NoValue THEN IsFound(journal, DOMAIN journal.rows, r, filters.q)
           ELSE InDates(journal, row, filters) /\ OfSymbol(journal, row, filters)}

(* The analysed rows, by their numbers: each filter works on what the one    *)
(* before it left.                                                           *)
Scope(journal, filters) ==
    LET dated == {r \in DOMAIN journal.rows : InDates(journal, journal.rows[r], filters)}
        traded == {r \in dated : OfSymbol(journal, journal.rows[r], filters)}
    IN {r \in traded : filters.q # NoValue => IsFound(journal, traded, r, filters.q)}

(* The profits of the rows, in the order of the journal.                     *)
Profits(journal, rows) ==
    LET order == InFileOrder({r \in rows : journal.rows[r].Profit # NoValue})
    IN [i \in DOMAIN order |-> journal.rows[order[i]].Profit]

=============================================================================
