-------------------------- MODULE TradeReviewProps --------------------------
(***************************************************************************)
(* What a reader of the trade review table may rely on.                    *)
(***************************************************************************)
EXTENDS TradeReview

(* Whoever opens a table and turns its pages to the last one, with neither   *)
(* journal nor evidence replaced on the way, has seen every trade that the   *)
(* filter keeps exactly once: every page sorts again, and ties fall alike.   *)
WalkShowsEveryTradeOnce ==
    tablePage.over # NoValue /\ tablePage.seen # NoValue /\ tablePage.number = tablePage.pages =>
        /\ Len(tablePage.seen) = Cardinality(Range(tablePage.seen))
        /\ Range(tablePage.seen) = KeptRows(tablePage.over, tablePage.filter)

(* The column that is marked as sorted is the order of the rows, over all    *)
(* pages that were turned: in its direction, missing values after all others *)
(* in both directions, and equal ones by the number of their tickets.        *)
SortedAsMarked ==
    tablePage.over # NoValue /\ tablePage.seen # NoValue
    /\ tablePage.sort # NoValue /\ Sortable(tablePage.sort, tablePage.over.columns, tablePage.bound)
    =>
    LET over == tablePage.over
        kept == KeptRows(over, tablePage.filter)
    IN \A i, j \in DOMAIN tablePage.seen :
        i < j =>
            LET a == SortValue(over, kept, tablePage.seen[i], tablePage.sort, tablePage.bound)
                b == SortValue(over, kept, tablePage.seen[j], tablePage.sort, tablePage.bound)
                s == TicketOf(over.rows[tablePage.seen[i]])
                t == TicketOf(over.rows[tablePage.seen[j]])
            IN /\ a = NoValue => b = NoValue
               /\ a # NoValue /\ b # NoValue => IF tablePage.dir = "asc" THEN a =< b ELSE a >= b
               /\ a = b /\ s # NoValue /\ t # NoValue => s =< t

(* Every page sorts the whole table again, and the pages still make up one   *)
(* table, complete and in the order it is marked with.                       *)
PagesMakeOneTable == WalkShowsEveryTradeOnce /\ SortedAsMarked

=============================================================================
