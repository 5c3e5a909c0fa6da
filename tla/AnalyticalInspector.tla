------------------------ MODULE AnalyticalInspector -------------------------
(***************************************************************************)
(* performance/analytical_query_inspector.py: a user asks the fixed        *)
(* questions about the session's journal, or about its rows of a symbol,   *)
(* in several tabs, while the journal may be replaced.                     *)
(***************************************************************************)
EXTENDS AnalyticalQueries

CONSTANTS
    Tabs,
    QueryJournals,   \* the journals the session may hold
    QuerySymbols,    \* what may be asked for as a symbol; NoValue is nothing
    Unreadable       \* cleaned data that is no JSON table

(* The rows of a journal are a sequence; its cells are as AnalyticalQueries  *)
(* says.                                                                     *)
ASSUME QueriesAssumption ==
    \A journal \in QueryJournals :
        /\ journal.rows \in Seq({journal.rows[r] : r \in DOMAIN journal.rows})
        /\ "Profit" \in journal.columns =>
              \A r \in DOMAIN journal.rows :
                 journal.rows[r].Profit \in Int \cup {Infinite, NotANumber, Junk, NoValue}

VARIABLES
    queryJournal,    \* what the session holds: a journal, Unreadable or NoValue
    shown            \* the page each tab shows

queryVars == <<queryJournal, shown>>

AnswerPage(state) == [state |-> state, over |-> NoValue, query |-> NoValue, symbol |-> NoValue,
                selected |-> 0, result |-> NoValue]

(* The rows of the journal that apply_analysis keeps, as they are stored.    *)
Selected(journal, symbol) ==
    LET order == InFileOrder(Scope(journal, [NoFilters EXCEPT !.symbol = symbol]))
    IN [i \in DOMAIN order |-> journal.rows[order[i]]]

Answered(journal, query, symbol) ==
    LET rows == Selected(journal, symbol)
    IN [state |-> "RESULT_AVAILABLE", over |-> journal, query |-> query,
        symbol |-> Applied(journal, [NoFilters EXCEPT !.symbol = symbol]).symbol,
        selected |-> Len(rows),
        result |-> Execute(query, rows, journal.columns)]

QueryInit ==
    /\ queryJournal = NoValue
    /\ shown = [t \in Tabs |-> AnswerPage("READY")]

LoadQueryJournal ==
    /\ queryJournal' \in QueryJournals \cup {NoValue, Unreadable}
    /\ UNCHANGED shown

Show(tab, state) ==
    /\ shown' = [shown EXCEPT ![tab] = AnswerPage(state)]
    /\ UNCHANGED queryJournal

(* A parameter that is given twice refuses the request before all else.      *)
AskTwice(tab) == Show(tab, "REQUEST_INVALID")

VisitTab(tab) ==
    /\ queryJournal \notin {NoValue, Unreadable}
    /\ Show(tab, "READY")

AskNothing(tab) ==
    \/ queryJournal = NoValue /\ Show(tab, "NO_ACTIVE_JOURNAL")
    \/ queryJournal = Unreadable /\ Show(tab, "JOURNAL_INVALID")

(* A query that raises leaves a page without anything of a result.           *)
Fails(query, symbol) == Raises(query, Selected(queryJournal, symbol), queryJournal.columns)

Ask(tab, query, symbol) ==
    /\ queryJournal \notin {NoValue, Unreadable}
    /\ ~Fails(query, symbol)
    /\ shown' = [shown EXCEPT ![tab] = Answered(queryJournal, query, symbol)]
    /\ UNCHANGED queryJournal

AskInVain(tab, query, symbol) ==
    /\ queryJournal \notin {NoValue, Unreadable}
    /\ Fails(query, symbol)
    /\ Show(tab, "WORKFLOW_ERROR")

QueryNext ==
    \/ LoadQueryJournal
    \/ \E tab \in Tabs :
         \/ AskTwice(tab) \/ VisitTab(tab) \/ AskNothing(tab)
         \/ \E query \in Queries \cup {"MEDIAN_PROFIT"}, symbol \in QuerySymbols :
               Ask(tab, query, symbol) \/ AskInVain(tab, query, symbol)

QuerySpec == QueryInit /\ [][QueryNext]_queryVars

=============================================================================
