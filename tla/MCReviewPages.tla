---------------------------- MODULE MCReviewPages ----------------------------
(***************************************************************************)
(* Finite instances for TLC of the pages that analyse the journal of a      *)
(* session: ReviewScope, AnalyticalInspector and TradeReview.  Each works   *)
(* on a journal of its own, so a behaviour is about one of them.            *)
(***************************************************************************)
EXTENDS ReviewScopeProps, AnalyticalInspectorProps, TradeReviewProps, TLC

MCTextColumns == {"Symbol", "Notes", "Account"}

(* The texts of the instance: symbols, a note, an account, an empty cell.    *)
MCTextOf(value) ==
    IF value = NoValue THEN "none" ELSE IF value = Junk THEN "17" ELSE value

MCTextContains(part, text) ==
    <<part, text>> \in {<<"eu", "EURUSD">>, <<"eu", "eurusd">>, <<"EURUSD", "EURUSD">>,
                        <<"EURUSD", "eurusd">>, <<"eu", "euro note">>, <<"n", "none">>,
                        <<"n", "euro note">>, <<"2", "ACC2">>}

(* Days are numbered; "2" is part of the text of days 2 and 4.               *)
MCDayContains(part, day) == <<part, day>> \in {<<"2", 2>>, <<"2", 4>>}

(* Dates up to 9 are written day first.  The date 10 n + m reads as day n    *)
(* where the month is first and as day m where it is written day first, and  *)
(* from its text pandas guesses the former.  From 5 it guesses nothing.      *)
MCGuessedFormat(date) ==
    IF date \notin Int \/ date = 5 THEN NoValue
    ELSE IF date < 10 THEN "day first" ELSE "month first"

MCDayRead(date, format) ==
    IF date \notin Int THEN NoValue
    ELSE IF date > 9 THEN IF format = "day first" THEN date % 10 ELSE date \div 10
    ELSE IF format = "month first" THEN NoValue ELSE date

MCNumberOf(part) == IF part = "2" THEN 2 ELSE NoValue

H(name) == [name |-> name, padded |-> FALSE]

Padded(name) == [name |-> name, padded |-> TRUE]

Csv(header, rows) ==
    [ext |-> ".csv", readable |-> TRUE, header |-> header, rows |-> rows]

FullHeader == <<H("Unnamed: 0"), H("Date"), H("Symbol"), Padded("Profit"),
                H("Notes"), H("RR"), H("Commissions")>>

(* Rows with missing, unreadable and infinite values, and one that holds     *)
(* nothing but the index of the export.                                      *)
FullRows == <<
    <<1, 1, "EURUSD", 2, NoValue, 2, -1>>,
    <<2, 2, "XAUUSD", -3, "euro note", NoValue, -1>>,
    <<3, Junk, NoValue, 2, "euro note", 1, Junk>>,
    <<4, 4, "EURUSD", Junk, NoValue, 2, 2>>,
    <<5, NoValue, NoValue, NoValue, NoValue, NoValue, NoValue>> >>

(* Two date columns: only the first is parsed when the file is read.         *)
TwoDates == Csv(<<H("Open Time"), H("Date"), H("Profit"), H("Account")>>,
                << <<4, 1, -2, "ACC2">>, <<3, 2, 1, "ACC1">>, <<Junk, Junk, 0, NoValue>> >>)

(* What is found in the second of them depends on which rows are left; that  *)
(* it is given twice disturbs nothing.                                       *)
MixedDates == Csv(<<H("Open Time"), H("Open"), H("Profit"), H("Symbol"), Padded("Open")>>,
                  << <<1, NoValue, 1, "EURUSD", 2>>, <<1, 34, -1, "XAUUSD", 2>>,
                     <<2, 4, 1, "EURUSD", 1>>, <<2, 23, -2, NoValue, 1>>, <<3, 2, 1, "EURUSD", 1>> >>)

Plain == Csv(<<H("Profit"), H("Symbol")>>, << <<1, "EURUSD">>, <<2, NoValue>> >>)

Unusable ==
    {[Plain EXCEPT !.ext = ".xls"], [Plain EXCEPT !.readable = FALSE],
     Csv(<<H("Unnamed: 0")>>, << <<1>> >>), Csv(<<H("Symbol")>>, << <<"EURUSD">> >>),
     Csv(<<H("Profit")>>, << <<Junk>>, <<NoValue>> >>),
     Csv(<<H("Profit"), Padded("Profit")>>, << <<1, 2>> >>),
     Csv(<<H("Profit"), H("Date"), Padded("Date")>>, << <<1, 2, 2>> >>)}

InfiniteOnly == Csv(<<H("Profit"), H("Symbol")>>, << <<Infinite, "EURUSD">> >>)

LinkFiles == {Csv(FullHeader, FullRows), TwoDates, MixedDates, Plain, InfiniteOnly} \cup Unusable

LinkFilterSets ==
    [start_date : {NoValue, 2}, end_date : {NoValue, 3},
     symbol : {NoValue, "eu", "n"}, q : {NoValue, "eu", "2"}]

LinkMinRRs == {NoValue, Junk, 2}

(* Every journal of at most three trades, and some of four or five.          *)
ProfitFiles ==
    {Csv(<<H("Profit")>>, [i \in 1..n |-> <<p[i]>>]) :
        n \in 1..3, p \in [1..3 -> {-2, 0, 3, NoValue}]}
    \cup {Csv(<<H("Profit")>>, << <<-2>>, <<a>>, <<-1>>, <<b>>, <<-2>> >>) :
             a \in {1, 3}, b \in {1, 3}}

MCFiles == LinkFiles \cup ProfitFiles

-----------------------------------------------------------------------------
MCFold(symbol) == IF symbol = "EURUSD" THEN "eurusd" ELSE symbol

(* Days 1 and 2 are of one month, day 3 of the next.                         *)
MCMonthOf(day) == (day + 1) \div 2

Day(d) == [day |-> d, offset |-> NoValue]

Queried(date, symbol, profit) == [Date |-> date, Symbol |-> symbol, Profit |-> profit]

Journal(rows) == [columns |-> {"Date", "Symbol", "Profit"}, rows |-> rows]

Without(column, rows) ==
    [columns |-> {"Date", "Symbol", "Profit"} \ {column},
     rows |-> [i \in DOMAIN rows |->
                 [c \in {"Date", "Symbol", "Profit"} \ {column} |-> rows[i][c]]]]

Asked == <<Queried(Day(1), "EURUSD", 2), Queried(Day(2), "eurusd", -3), Queried(Day(3), "XAU", 2)>>

(* A journal, its rows in another order, the same with other profits, with a *)
(* repeated row, and one that some queries cannot be answered from.          *)
PairJournals ==
    {Journal(Asked), Journal(Reverse(Asked)), Journal(SubSeq(Asked, 1, 2)),
     Journal([Asked EXCEPT ![1].Profit = 5]), Journal(Append(Asked, Asked[3])),
     Journal([Asked EXCEPT ![3].Symbol = NoValue])}

PairSymbols == {NoValue, "eu"}

(* Journals of two or three rows over all kinds of dates, symbols, profits.   *)
SomeRows == <<Asked[1], Queried(Day(3), "EURUSD", -2), Queried([day |-> 1, offset |-> 60], "XAU", 1),
              Queried(Junk, "XAU", 1), Queried(Day(2), NoValue, 1), Queried(Day(2), Junk, 1),
              Queried(Day(2), "XAU", NoValue), Queried(Day(1), "XAU", Junk),
              Queried(Day(1), "XAU", Infinite), Queried(Day(1), "eurusd", NotANumber)>>

WideJournals ==
    {Journal(<<SomeRows[i], SomeRows[j]>>) : i \in 1..10, j \in 1..2}
    \cup {Journal(<<SomeRows[i], SomeRows[j], SomeRows[1]>>) : i \in 1..10, j \in {2, 7}}
    \cup {Without(c, <<Asked[1], Asked[2]>>) : c \in {"Date", "Symbol", "Profit"}}

WideSymbols == {NoValue, "eu", "absent"}

MCQueryJournals == PairJournals \cup WideJournals

MCQuerySymbols == PairSymbols \cup WideSymbols

-----------------------------------------------------------------------------
MCTextRank(text) ==
    CASE text \in {"XAU", "sell"} -> 2 [] text = "EUR" -> 1 [] OTHER -> 0

(* One filter keeps the trades of one symbol.                                *)
MCKept(filter, over) ==
    {i \in DOMAIN over.rows : filter # NoValue => Cell(over.rows[i], "symbol") = filter}

(* A ticket may be written in several ways, and need not be a number.        *)
MCTicket(ticket) == IF ticket = "2.0" THEN "2" ELSE ticket

MCTicketNumber(ticket) ==
    CASE ticket = "1" -> 1 [] ticket \in {"2", "2.0"} -> 2 [] OTHER -> NoValue

Trade(ticket, symbol, profit, type, pips, exit, close) ==
    [ticket |-> ticket, symbol |-> symbol, profit |-> profit, type |-> type,
     pips |-> pips, entry |-> 10, exit |-> exit, close_time |-> close]

(* Ties, missing values in every column, a ticket given twice, and close     *)
(* times that read otherwise without the trade in EUR.                       *)
Trades == <<Trade("ABC", "XAU", 5, "buy", NoValue, 14, NoValue),
            Trade("1", "EUR", 5, "sell", -4, 14, 3),
            Trade("2.0", "XAU", NoValue, "long", 2, 14, 31),
            Trade(NoValue, NoValue, 7, "balance", NoValue, NoValue, Junk),
            Trade("2", "XAU", -1, "sell", NoValue, 14, 24)>>

Columns == {"ticket", "symbol", "profit", "type", "pips", "close_time"}

(* A journal without tickets, where only the order of the file breaks ties.  *)
Unticketed ==
    [columns |-> {"symbol", "profit"},
     rows |-> <<[symbol |-> "XAU", profit |-> 1], [symbol |-> "EUR", profit |-> 1],
                [symbol |-> "XAU", profit |-> NoValue]>>]

MCTableJournals == {[columns |-> Columns, rows |-> Trades], Unticketed}

Item(mfe, mae) == [interval_high |-> 20, interval_low |-> NoValue, mfe |-> mfe, mae |-> mae]

MCEvidences ==
    {("1" :> Item(4, -1)) @@ ("2" :> Item(4, -3)), ("ABC" :> Item(9, NoValue))}

-----------------------------------------------------------------------------
(* The instances of one run.                                                 *)
VARIABLE instance

MCInit ==
    /\ instance \in {"links", "kpis", "answers", "pairs", "table"}
    /\ Init /\ QueryInit /\ TableInit

(* Every filter over a few files, and the KPIs of many small journals.  Only *)
(* an export reads Min R/R.                                                  *)
LinksMove ==
    /\ instance = "links"
    /\ \/ \E raw \in LinkFiles : Upload(raw)
       \/ \E kind \in Kinds, filters \in LinkFilterSets, min_rr \in LinkMinRRs :
             (kind # "export_excel" => min_rr = NoValue) /\ Open(kind, filters, min_rr)
       \/ \E kind \in Kinds : Follow(kind)
    /\ UNCHANGED <<queryVars, tableVars>>

KpisMove ==
    /\ instance = "kpis"
    /\ \/ \E raw \in ProfitFiles : Upload(raw)
       \/ Open("kpi_report", NoFilters, NoValue)
    /\ UNCHANGED <<queryVars, tableVars>>

(* One tab over many journals, and two tabs over a few.  Another journal     *)
(* only matters to what is asked afterwards.                                 *)
Fresh(tab) == shown[tab] = AnswerPage("READY")

AnswersMove ==
    /\ instance = "answers"
    /\ \/ /\ \A tab \in Tabs : Fresh(tab)
          /\ LoadQueryJournal
          /\ queryJournal' \in WideJournals \cup {NoValue, Unreadable}
       \/ \E tab \in Tabs :
             /\ \A other \in Tabs \ {tab} : Fresh(other)
             /\ \/ AskTwice(tab) \/ VisitTab(tab) \/ AskNothing(tab)
                \/ \E query \in Queries \cup {"MEDIAN_PROFIT"}, symbol \in WideSymbols :
                      Ask(tab, query, symbol) \/ AskInVain(tab, query, symbol)
    /\ UNCHANGED <<vars, tableVars>>

PairsMove ==
    /\ instance = "pairs"
    /\ \/ /\ \E tab \in Tabs : Fresh(tab)
          /\ LoadQueryJournal
          /\ queryJournal' \in PairJournals
       \/ \E tab \in Tabs, query \in Queries, symbol \in PairSymbols :
             Ask(tab, query, symbol) \/ AskInVain(tab, query, symbol)
    /\ UNCHANGED <<vars, tableVars>>

TableMove ==
    /\ instance = "table"
    /\ TableNext
    /\ UNCHANGED <<vars, queryVars>>

MCNext ==
    /\ LinksMove \/ KpisMove \/ AnswersMove \/ PairsMove \/ TableMove
    /\ UNCHANGED instance

MCSpec == MCInit /\ [][MCNext]_<<vars, queryVars, tableVars, instance>>

TabSymmetry == Permutations(Tabs)

=============================================================================
