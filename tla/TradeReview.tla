---------------------------- MODULE TradeReview -----------------------------
(***************************************************************************)
(* performance/trade_review.py and the table of views.py, dashboard: the   *)
(* trades a filter keeps, with their realised movement and the bar         *)
(* evidence of their tickets, sorted by a column the user clicked and      *)
(* shown page by page, while another tab may replace journal or evidence.  *)
(*                                                                         *)
(* A journal has the sort keys its columns provide and rows over them; a   *)
(* value is a number or NoValue, a text is compared by its TextRank.  A    *)
(* ticket and a close time are as the file has them.  Prices and pips are  *)
(* counted in tenths.                                                      *)
(***************************************************************************)
EXTENDS Analytics

CONSTANTS
    TableJournals,
    Evidences,       \* bound evidence: a function from canonical tickets to their item
    Filters,
    Kept(_, _),      \* the rows that apply_analysis keeps of the journal
    TextRank(_),     \* the place of a text in alphabetical order, case aside
    canonical_ticket(_),  \* the ticket that evidence is kept for, NoValue if none
    TicketNumber(_),      \* a ticket as a number, NoValue if it is none
    TRADE_PAGE_SIZE

(* The open time was parsed by apply_analysis.                               *)
NumberKeys == {"open_time", "volume", "profit", "pips"}

TextKeys == {"symbol", "type"}

EvidenceKeys == {"interval_high", "interval_low", "mfe", "mae"}

Cell(row, column) == IF column \in DOMAIN row THEN row[column] ELSE NoValue

(* A journal has finitely many rows; what the table sorts by reads as a      *)
(* number or as missing.                                                     *)
ASSUME TableAssumption ==
    /\ TRADE_PAGE_SIZE \in Nat \ {0}
    /\ NoValue \notin TableJournals
    /\ \A j \in TableJournals :
         /\ j.rows \in Seq({j.rows[r] : r \in DOMAIN j.rows})
         /\ \A r \in DOMAIN j.rows : \A c \in DOMAIN j.rows[r] :
              /\ c \in NumberKeys \cup {"entry", "exit"} => j.rows[r][c] \in Int \cup {NoValue}
              /\ c \in TextKeys /\ j.rows[r][c] # NoValue => TextRank(j.rows[r][c]) \in Int
         /\ \A r \in DOMAIN j.rows :
              TicketNumber(Cell(j.rows[r], "ticket")) \in Int \cup {NoValue}
         /\ "close_time" \in j.columns =>
              \A r, i \in DOMAIN j.rows :
                 \A format \in {NoValue, GuessedFormat(j.rows[i].close_time)} :
                    DayRead(j.rows[r].close_time, format) \in Int \cup {NoValue}
    /\ \A bound \in Evidences : \A ticket \in DOMAIN bound : \A k \in EvidenceKeys :
         bound[ticket][k] \in Int \cup {NoValue}

VARIABLES
    tableJournal,    \* the session's journal, NoValue if there is none
    evidence,        \* the evidence bound to it, NoValue if there is none
    tablePage        \* the table the browser shows

tableVars == <<tableJournal, evidence, tablePage>>

(* SORT_WHITELIST                                                            *)
SortKeys ==
    NumberKeys \cup TextKeys \cup EvidenceKeys \cup {"ticket", "close_time", "movement"}

PIPS_MOVEMENT_TOLERANCE == 1

NoEvidence == [k \in EvidenceKeys |-> NoValue]

classify_side(type) ==
    CASE type \in {"buy", "long"} -> "buy"
      [] type \in {"sell", "short"} -> "sell"
      [] OTHER -> NoValue

calculated_movement(side, entry, exit) ==
    IF side = NoValue \/ entry = NoValue \/ exit = NoValue THEN NoValue
    ELSE IF side = "buy" THEN exit - entry ELSE entry - exit

(* The broker's pips where there are any; the price move where not.          *)
resolve_realised_movement(row) ==
    LET calculated == calculated_movement(classify_side(Cell(row, "type")),
                                          Cell(row, "entry"), Cell(row, "exit"))
        pips == Cell(row, "pips")
        apart == /\ pips # NoValue /\ calculated # NoValue
                 /\ \/ pips - calculated > PIPS_MOVEMENT_TOLERANCE
                    \/ calculated - pips > PIPS_MOVEMENT_TOLERANCE
    IN [value |-> IF pips # NoValue THEN pips ELSE calculated, disagreement |-> apart]

(* The evidence of the row's own ticket.                                     *)
EvidenceOf(row, bound) ==
    LET ticket == canonical_ticket(Cell(row, "ticket"))
    IN IF bound # NoValue /\ ticket # NoValue /\ ticket \in DOMAIN bound
       THEN bound[ticket] ELSE NoEvidence

(* Is there a column to sort by?                                             *)
Sortable(key, columns, bound) ==
    \/ key \in columns
    \/ key = "movement"
    \/ key \in EvidenceKeys /\ bound # NoValue

TicketOf(row) == TicketNumber(Cell(row, "ticket"))

(* What a row of the table is sorted by.  Close times are parsed among the   *)
(* rows of the table, as Analytics says of any date column but the first.    *)
SortValue(over, rows, r, key, bound) ==
    LET row == over.rows[r] IN
    CASE key \in NumberKeys -> Cell(row, key)
      [] key \in TextKeys -> IF Cell(row, key) = NoValue THEN NoValue ELSE TextRank(row[key])
      [] key \in EvidenceKeys -> EvidenceOf(row, bound)[key]
      [] key = "ticket" -> TicketOf(row)
      [] key = "close_time" -> DayRead(row.close_time, FormatAmong(over, rows, "close_time"))
      [] key = "movement" -> resolve_realised_movement(row).value

(* Faulty variant: a missing value is the largest number.                    *)
PrecedesMissingLargest(a, b, dir) ==
    IF dir = "asc" THEN a # NoValue /\ (b = NoValue \/ a < b)
    ELSE b # NoValue /\ (a = NoValue \/ a > b)

(* Numbers first in the direction of the sort, missing values after them     *)
(* whatever the direction.                                                   *)
Precedes(a, b, dir) ==
    /\ a # NoValue
    /\ b = NoValue \/ (IF dir = "asc" THEN a < b ELSE a > b)

(* Equal values by ascending ticket, equal tickets in the order of the file. *)
RowBefore(over, bound, rows, key, dir, i, j) ==
    LET value(r) == SortValue(over, rows, r, key, bound)
        ticket(r) == TicketOf(over.rows[r])
    IN \/ Precedes(value(i), value(j), dir)
       \/ /\ value(i) = value(j)
          /\ \/ Precedes(ticket(i), ticket(j), "asc")
             \/ ticket(i) = ticket(j) /\ i < j

SortedRows(over, bound, rows, key, dir) ==
    IF key # NoValue /\ Sortable(key, over.columns, bound)
    THEN InOrder(rows, {p \in rows \X rows : RowBefore(over, bound, rows, key, dir, p[1], p[2])})
    ELSE InFileOrder(rows)

NumPages(rows) == Max({1, (Len(rows) + TRADE_PAGE_SIZE - 1) \div TRADE_PAGE_SIZE})

(* Paginator.get_page: a number that is no page is the last page.            *)
PageNumber(rows, number) ==
    IF number = NoValue THEN 1
    ELSE IF number \in 1..NumPages(rows) THEN number ELSE NumPages(rows)

OnPage(rows, number) ==
    SubSeq(rows, (number - 1) * TRADE_PAGE_SIZE + 1,
           Min({Len(rows), number * TRADE_PAGE_SIZE}))

EmptyTable == [over |-> NoValue, bound |-> NoValue, filter |-> NoValue, sort |-> NoValue,
               dir |-> "asc", number |-> 1, pages |-> 1, shown |-> << >>, seen |-> << >>]

(* A walk is a table opened at its first page and then turned page by page;  *)
(* "seen" records the rows it has shown, NoValue if the table is no walk.    *)
Seen(table) ==
    IF table.number = 1 THEN table.shown
    ELSE IF /\ \A f \in {"over", "bound", "filter", "sort", "dir"} : table[f] = tablePage[f]
            /\ table.number = tablePage.number + 1 /\ tablePage.seen # NoValue
    THEN tablePage.seen \o table.shown ELSE NoValue

KeptRows(over, filter) == DOMAIN over.rows \cap Kept(filter, over)

Table(filter, key, dir, number) ==
    IF tableJournal = NoValue THEN EmptyTable
    ELSE LET kept == KeptRows(tableJournal, filter)
             rows == SortedRows(tableJournal, evidence, kept, key, dir)
             at == PageNumber(rows, number)
             table == [over |-> tableJournal, bound |-> evidence, filter |-> filter,
                       sort |-> key, dir |-> dir, number |-> at,
                       pages |-> NumPages(rows), shown |-> OnPage(rows, at),
                       seen |-> << >>]
         IN [table EXCEPT !.seen = Seen(table)]

TableInit ==
    /\ tableJournal = NoValue
    /\ evidence = NoValue
    /\ tablePage = EmptyTable

(* A journal is loaded in another tab; evidence never outlives its journal.  *)
LoadTableJournal ==
    /\ tableJournal' \in TableJournals \cup {NoValue}
    /\ evidence' = NoValue
    /\ UNCHANGED tablePage

(* Market data is uploaded in another tab, or its evidence is cleared.       *)
Bind ==
    /\ tableJournal # NoValue
    /\ evidence' \in Evidences \cup {NoValue}
    /\ UNCHANGED <<tableJournal, tablePage>>

(* The filter form is sent, which drops sort and page.                       *)
OpenTable(filter) ==
    /\ tablePage' = Table(filter, NoValue, "asc", NoValue)
    /\ UNCHANGED <<tableJournal, evidence>>

(* The columns with a sort link on the page that is shown: pips have none.   *)
Headers ==
    IF tablePage.over = NoValue THEN {}
    ELSE {key \in SortKeys \ {"pips"} :
            Sortable(key, tablePage.over.columns, tablePage.bound)}

next_sort_direction(clicked) ==
    IF tablePage.sort = clicked /\ tablePage.dir = "asc" THEN "desc" ELSE "asc"

SortBy(key) ==
    /\ key \in Headers
    /\ tablePage' = Table(tablePage.filter, key, next_sort_direction(key), NoValue)
    /\ UNCHANGED <<tableJournal, evidence>>

(* Any key and direction may be typed into the address.                      *)
TypeSort(key, dir) ==
    /\ tablePage.over # NoValue
    /\ tablePage' = Table(tablePage.filter, key, dir, NoValue)
    /\ UNCHANGED <<tableJournal, evidence>>

(* The previous and next links, and a page number typed into the address.    *)
Turn(number) ==
    /\ tablePage.over # NoValue
    /\ tablePage' = Table(tablePage.filter, tablePage.sort, tablePage.dir, number)
    /\ UNCHANGED <<tableJournal, evidence>>

TableNext ==
    \/ LoadTableJournal \/ Bind
    \/ \E filter \in Filters \cup {NoValue} : OpenTable(filter)
    \/ \E key \in SortKeys : SortBy(key)
    \/ \E key \in SortKeys, dir \in {"asc", "desc"} : TypeSort(key, dir)
    \/ \E number \in {0, tablePage.number - 1, tablePage.number + 1} : Turn(number)

TableSpec == TableInit /\ [][TableNext]_tableVars

=============================================================================
