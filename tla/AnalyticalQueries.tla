------------------------- MODULE AnalyticalQueries --------------------------
(***************************************************************************)
(* performance/analytical_queries.py, execute_analytical_query: eight      *)
(* fixed questions about the rows of a journal.  A question is answered    *)
(* from all rows or not at all.                                            *)
(*                                                                         *)
(* A date is [day, offset] with offset NoValue for a naive time, Junk if   *)
(* it cannot be read; a profit is an integer, Infinite, NotANumber or      *)
(* Junk; a symbol is a text, or Junk if it is no text; NoValue is missing. *)
(***************************************************************************)
EXTENDS Analytics

CONSTANTS
    MonthOf(_),      \* the month of a day
    Fold(_),         \* a symbol without its case and surrounding spaces
    NotANumber,
    MaxDisplayed     \* the largest sum that fits into a Decimal with two decimals

DateQueries == {"TRADE_COUNT_BY_DAY", "BUSIEST_TRADING_DAY", "PROFIT_BY_DAY", "MONTHLY_PROFIT"}

ProfitQueries == {"PROFIT_BY_DAY", "PROFIT_BY_SYMBOL", "MONTHLY_PROFIT"}

SymbolQueries == {"TRADE_COUNT_BY_SYMBOL", "MOST_TRADED_SYMBOL", "PROFIT_BY_SYMBOL"}

Queries == {"TRADE_COUNT"} \cup DateQueries \cup SymbolQueries

(* Faulty variant: the profits are not part of what the hash covers.         *)
ColumnsUsedNoProfit(query, columns) ==
    (IF query \in DateQueries THEN {FirstDateColumn(columns)} \ {NoValue} ELSE {})
    \cup (IF query \in SymbolQueries THEN {"Symbol"} \cap columns ELSE {})

ColumnsUsed(query, columns) ==
    (IF query \in DateQueries THEN {FirstDateColumn(columns)} \ {NoValue} ELSE {})
    \cup (IF query \in SymbolQueries THEN {"Symbol"} \cap columns ELSE {})
    \cup (IF query \in ProfitQueries THEN {"Profit"} \cap columns ELSE {})

MissingRequired(query, columns) ==
    \/ query \in DateQueries /\ FirstDateColumn(columns) = NoValue
    \/ query \in SymbolQueries /\ "Symbol" \notin columns
    \/ query \in ProfitQueries /\ "Profit" \notin columns

(* What input_sha256 is a hash of: the values of the used columns, row by    *)
(* row, whatever the order of the rows.                                      *)
InputDigest(rows, used) ==
    <<used, Len(rows),
      ToBag([i \in DOMAIN rows |-> [c \in used |-> rows[i][c]]])>>

Rows(rows, column, values) == {i \in DOMAIN rows : rows[i][column] \in values}

Issue(code, rows) == IF rows = {} THEN {} ELSE {<<code, Cardinality(rows)>>}

DateIssues(rows, column) ==
    Issue("DATE_UNPARSEABLE", Rows(rows, column, {NoValue, Junk}))

SymbolIssues(rows) ==
    Issue("SYMBOL_MISSING", Rows(rows, "Symbol", {NoValue, Junk}))

ProfitIssues(rows) ==
    Issue("PROFIT_MISSING", Rows(rows, "Profit", {NoValue}))
    \cup Issue("PROFIT_NOT_NUMERIC", Rows(rows, "Profit", {Junk}))
    \cup Issue("PROFIT_NON_FINITE", Rows(rows, "Profit", {Infinite, NotANumber}))

Offsets(rows, column) == {rows[i][column].offset : i \in DOMAIN rows}

(* The first reason found against answering, in the order of the code.       *)
Verdict(query, rows, columns) ==
    LET column == FirstDateColumn(columns)
    IN CASE query \notin Queries -> <<"UNSUPPORTED_QUERY", {}>>
         [] query \in Queries /\ rows = << >> -> <<"NO_DATA", {}>>
         [] OTHER ->
            IF MissingRequired(query, columns) THEN <<"REQUIRED_COLUMN_MISSING", {}>>
            ELSE IF query \in DateQueries /\ DateIssues(rows, column) # {}
            THEN <<"INVALID_INPUT", DateIssues(rows, column)>>
            ELSE IF query \in DateQueries /\ Cardinality(Offsets(rows, column)) > 1
            THEN <<"AMBIGUOUS_TIME_BASIS", {}>>
            ELSE IF query \in SymbolQueries /\ SymbolIssues(rows) # {}
            THEN <<"INVALID_INPUT", SymbolIssues(rows)>>
            ELSE IF query \in ProfitQueries /\ ProfitIssues(rows) # {}
            THEN <<"INVALID_INPUT", ProfitIssues(rows)>>
            ELSE <<"OK", {}>>

(* The group a row belongs to.                                               *)
KeyOf(query, row, columns) ==
    CASE query = "MONTHLY_PROFIT" -> MonthOf(row[FirstDateColumn(columns)].day)
      [] query \in SymbolQueries -> row.Symbol
      [] OTHER -> row[FirstDateColumn(columns)].day

(* What a row adds to its group: its profit, or one trade.                   *)
Amount(query, row) == IF query \in ProfitQueries THEN row.Profit ELSE 1

(* Faulty variant: a group is begun with its first row left out.             *)
GroupedMissingFirst(query, rows, columns) ==
    LET key(i) == KeyOf(query, rows[i], columns)
        amount == [i \in DOMAIN rows |-> Amount(query, rows[i])]
    IN [k \in {key(i) : i \in DOMAIN rows} |->
          SumOver(amount, {i \in DOMAIN rows : key(i) = k /\ \E j \in 1..(i - 1) : key(j) = k})]

(* _count_by_key and _sum_by_key                                             *)
Grouped(query, rows, columns) ==
    LET key(i) == KeyOf(query, rows[i], columns)
        amount == [i \in DOMAIN rows |-> Amount(query, rows[i])]
    IN [k \in {key(i) : i \in DOMAIN rows} |->
          SumOver(amount, {i \in DOMAIN rows : key(i) = k})]

(* Faulty variant: only one of the groups with the most trades is named.     *)
TiedMaxFirst(groups) ==
    LET winner == CHOOSE k \in DOMAIN groups : \A l \in DOMAIN groups : groups[k] >= groups[l]
    IN [k \in {winner} |-> groups[k]]

TiedMax(groups) ==
    [k \in {k \in DOMAIN groups : \A l \in DOMAIN groups : groups[k] >= groups[l]} |-> groups[k]]

Answer(query, rows, columns) ==
    IF query \in {"BUSIEST_TRADING_DAY", "MOST_TRADED_SYMBOL"}
    THEN TiedMax(Grouped(query, rows, columns)) ELSE Grouped(query, rows, columns)

KindOf(query) ==
    CASE query = "TRADE_COUNT" -> "SCALAR"
      [] query \in {"BUSIEST_TRADING_DAY", "MOST_TRADED_SYMBOL"} -> "TIED_MAX"
      [] OTHER -> "ROWS"

DuplicateRows(rows) ==
    {i \in DOMAIN rows : \E j \in DOMAIN rows \ {i} : rows[j] = rows[i]}

Warnings(query, rows) ==
    (IF DuplicateRows(rows) # {} THEN {"DUPLICATE_ROWS_DETECTED"} ELSE {})
    \cup (IF query \in DateQueries THEN {"DATES_AS_RECORDED_NO_TIMEZONE_CONVERSION"} ELSE {})
    \cup (IF query \in ProfitQueries THEN {"PROFIT_EXCLUDES_COMMISSION_AND_SWAP"} ELSE {})
    \cup (IF query \in SymbolQueries
             /\ \E i, j \in DOMAIN rows :
                   /\ rows[i].Symbol # rows[j].Symbol
                   /\ Fold(rows[i].Symbol) = Fold(rows[j].Symbol)
          THEN {"SYMBOL_VARIANTS_DETECTED"} ELSE {})

NoPayload == [kind |-> NoValue, groups |-> << >>, scalar |-> NoValue, tie |-> FALSE,
              offset |-> NoValue, warnings |-> {}, duplicates |-> 0]

Payload(query, rows, columns) ==
    LET groups == IF query = "TRADE_COUNT" THEN << >> ELSE Answer(query, rows, columns)
    IN [kind |-> KindOf(query), groups |-> groups,
        scalar |-> IF query = "TRADE_COUNT" THEN Len(rows) ELSE NoValue,
        tie |-> KindOf(query) = "TIED_MAX" /\ Cardinality(DOMAIN groups) > 1,
        offset |-> IF query \in DateQueries
                   THEN rows[1][FirstDateColumn(columns)].offset ELSE NoValue,
        warnings |-> Warnings(query, rows),
        duplicates |-> Cardinality(DuplicateRows(rows))]

(* _profit_display raises on a sum with too many digits, after all checks.   *)
Raises(query, rows, columns) ==
    /\ query \in ProfitQueries
    /\ Verdict(query, rows, columns)[1] = "OK"
    /\ LET sums == Grouped(query, rows, columns)
       IN \E k \in DOMAIN sums : sums[k] > MaxDisplayed \/ sums[k] < -MaxDisplayed

(* Nothing of a payload is returned with a status other than OK.             *)
Execute(query, rows, columns) ==
    LET verdict == Verdict(query, rows, columns)
    IN [status |-> verdict[1], issues |-> verdict[2],
        payload |-> IF verdict[1] = "OK" THEN Payload(query, rows, columns) ELSE NoPayload,
        digest |-> IF query \in Queries THEN InputDigest(rows, ColumnsUsed(query, columns))
                   ELSE NoValue]

=============================================================================
