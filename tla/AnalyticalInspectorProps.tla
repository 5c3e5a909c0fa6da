---------------------- MODULE AnalyticalInspectorProps ----------------------
(***************************************************************************)
(* What the answers to analytical queries promise, alone and together.     *)
(***************************************************************************)
EXTENDS AnalyticalInspector

HasResult(tab) == shown[tab].state = "RESULT_AVAILABLE"

IsAnswer(tab, query) ==
    HasResult(tab) /\ shown[tab].query = query /\ shown[tab].result.status = "OK"

Groups(tab) == shown[tab].result.payload.groups

SumOf(groups) == SumOver(groups, DOMAIN groups)

(* All rows or none: the groups of a count take in every selected row, those *)
(* of a profit add up to the profit of all selected rows, and a query that   *)
(* fails returns nothing, not a partial aggregate.                           *)
AllRowsOrNone ==
    \A tab \in Tabs :
        HasResult(tab) =>
            LET page == shown[tab]
                rows == Scope(page.over, [NoFilters EXCEPT !.symbol = page.symbol])
            IN /\ page.result.status # "OK" => page.result.payload = NoPayload
               /\ page.selected = Cardinality(rows)
               /\ (\E q \in {"TRADE_COUNT_BY_DAY", "TRADE_COUNT_BY_SYMBOL"} : IsAnswer(tab, q)) =>
                    SumOf(Groups(tab)) = page.selected
               /\ (\E q \in ProfitQueries : IsAnswer(tab, q)) =>
                    SumOf(Groups(tab)) =
                        SumOver([r \in rows |-> page.over.rows[r].Profit], rows)

(* Two tabs that ask about the same rows of the same journal agree: the      *)
(* busiest days are the groups of the daily counts that no other exceeds, a  *)
(* month is the sum of its days, and an answered profit query means that the *)
(* count over the same groups is answered too.                               *)
QueriesAgree ==
    \A a, b \in Tabs :
        /\ HasResult(a) /\ HasResult(b)
        /\ shown[a].over = shown[b].over /\ shown[a].symbol = shown[b].symbol
        =>
        /\ \A pair \in {<<"TRADE_COUNT_BY_DAY", "BUSIEST_TRADING_DAY">>,
                        <<"TRADE_COUNT_BY_SYMBOL", "MOST_TRADED_SYMBOL">>} :
             IsAnswer(a, pair[1]) /\ shown[b].query = pair[2] =>
                /\ IsAnswer(b, pair[2])
                /\ \A k \in DOMAIN Groups(a) :
                      k \in DOMAIN Groups(b) <=>
                      (\A l \in DOMAIN Groups(a) : Groups(a)[k] >= Groups(a)[l])
                /\ shown[b].result.payload.tie = (Cardinality(DOMAIN Groups(b)) > 1)
        /\ IsAnswer(a, "PROFIT_BY_DAY") /\ shown[b].query = "MONTHLY_PROFIT" =>
                /\ IsAnswer(b, "MONTHLY_PROFIT")
                /\ \A month \in DOMAIN Groups(b) :
                      Groups(b)[month] =
                          SumOver(Groups(a), {day \in DOMAIN Groups(a) : MonthOf(day) = month})
        /\ \A pair \in {<<"PROFIT_BY_DAY", "TRADE_COUNT_BY_DAY">>,
                        <<"PROFIT_BY_SYMBOL", "TRADE_COUNT_BY_SYMBOL">>} :
             IsAnswer(a, pair[1]) /\ shown[b].query = pair[2] =>
                /\ IsAnswer(b, pair[2])
                /\ DOMAIN Groups(a) = DOMAIN Groups(b)

(* The input hash identifies the input: two results of the same query with   *)
(* the same hash have the same status and the same answer, whichever journal *)
(* and filter they came from and in whichever order its rows stood.          *)
SameInputSameAnswer ==
    \A a, b \in Tabs :
        /\ HasResult(a) /\ HasResult(b)
        /\ shown[a].query = shown[b].query /\ shown[a].query \in Queries
        /\ shown[a].result.digest = shown[b].result.digest
        =>
        /\ shown[a].result.status = shown[b].result.status
        /\ shown[a].result.issues = shown[b].result.issues
        /\ Groups(a) = Groups(b)
        /\ shown[a].result.payload.scalar = shown[b].result.payload.scalar
        /\ shown[a].result.payload.tie = shown[b].result.payload.tie
        /\ shown[a].result.payload.offset = shown[b].result.payload.offset

=============================================================================
