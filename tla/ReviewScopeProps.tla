-------------------------- MODULE ReviewScopeProps --------------------------
(***************************************************************************)
(* What the pages of a review may rely on.                                 *)
(***************************************************************************)
EXTENDS ReviewScope

(* Following a link shows the same rows and the same KPIs, unless another    *)
(* tab replaced the journal: a page carries exactly the filters it applied,  *)
(* and applying them again, on another page, selects the same rows (README:  *)
(* "Dashboard and KPI Report share the same analysed-row scope").            *)
LinksKeepScope ==
    [][\A kind \in Kinds :
         page.over = journal /\ Follow(kind) =>
             /\ page'.scope = page.scope
             /\ page'.kpis = page.kpis
             /\ page'.active = page.active]_vars

Alone(filter) == [NoFilters EXCEPT ![filter] = page.active[filter]]

(* The rows that each date and symbol filter of the page selects on its own. *)
Narrowed ==
    {r \in DOMAIN page.over.rows :
        \A filter \in DOMAIN page.active \ {"q"} : r \in Scope(page.over, Alone(filter))}

(* The row lineage of a page: its analysed rows are those that each date and *)
(* symbol filter it states selects on its own, all taken together, so the    *)
(* sequential masks of apply_analysis never bring a row back.  Of these, its *)
(* search finds the rows it would find in the whole journal; it only finds   *)
(* others when the rows that are gone changed the format in which a second   *)
(* date column is read.  An export writes all rows of the page, unless it    *)
(* states a Min R/R, and then only rows with a number to compare.            *)
RowsAreAsStated ==
    page.over # NoValue =>
        /\ page.scope \subseteq Narrowed
        /\ page.active.q = NoValue => page.scope = Narrowed
        /\ \A r \in Narrowed :
             (r \in page.scope) # (r \in Scope(page.over, Alone("q"))) =>
                \E c \in LaterDateColumns(page.over.columns) :
                   FormatAmong(page.over, Narrowed, c)
                      # FormatAmong(page.over, DOMAIN page.over.rows, c)
        /\ page.exported \subseteq page.scope
        /\ page.min_rr = NoValue => page.exported = page.scope
        /\ page.min_rr # NoValue =>
             \A r \in page.exported : page.over.rows[r][RRColumn(page.over.columns)] \in Int

(* An accepted journal has KPIs: a page without filters shows none only when *)
(* the numbers in the Profit column of its file were all infinite.  The      *)
(* journal is checked before it goes through JSON, which has no infinities.  *)
AcceptedHasKpis ==
    page.over # NoValue /\ page.active = NoFilters /\ page.kpis = NoKpis =>
        \A raw \in Files :
            Accepted(Ingested(raw)) /\ Stored(Ingested(raw)) = page.over =>
                LET rows == Ingested(raw).rows
                    profits == {rows[r].Profit : r \in DOMAIN rows}
                IN Infinite \in profits /\ profits \subseteq {NoValue, Infinite}

(* The KPIs of a page agree with one another and with the rows it states:    *)
(* every row with a profit is a win, a loss or break-even, and the gross     *)
(* figures add up to the total.                                              *)
KpisAddUp ==
    page.kpis # NoKpis =>
        /\ page.kpis.trades = page.kpis.winning + page.kpis.losing + page.kpis.breakeven
        /\ page.kpis.total = page.kpis.gross_profit - page.kpis.gross_loss
        /\ page.kpis.trades =< Cardinality(page.scope)
        /\ page.kpis.worst * page.kpis.trades =< page.kpis.total
        /\ page.kpis.total =< page.kpis.best * page.kpis.trades
        /\ page.kpis.drawdown =< page.kpis.gross_loss
        /\ (page.kpis.factor = <<"infinite">>) = (page.kpis.losing = 0 /\ page.kpis.winning > 0)

(* The drawdown is the largest fall of the account between two moments, the  *)
(* moment before the first trade included.                                   *)
DrawdownIsLargestFall ==
    page.kpis # NoKpis =>
        LET profits == Profits(page.over, page.scope) IN
           /\ \A i, j \in 0..Len(profits) :
                 i =< j => Equity(profits, i) - Equity(profits, j) =< page.kpis.drawdown
           /\ \E i, j \in 0..Len(profits) :
                 i =< j /\ Equity(profits, i) - Equity(profits, j) = page.kpis.drawdown

(* The KPIs are those of the rows: they add up, and the drawdown is real.    *)
KpisAreTrue == KpisAddUp /\ DrawdownIsLargestFall

=============================================================================
