---------------------------- MODULE MCMarketData ----------------------------
(***************************************************************************)
(* A finite instance of MarketData for TLC: a minute has two time units.   *)
(***************************************************************************)
EXTENDS MarketDataProps

Good == [symbol |-> "x", form |-> "utc", at |-> 0,
         open |-> 2, high |-> 3, low |-> 1, close |-> 2]

(* Rows without a fault, of two symbols and four minutes.                    *)
GoodRows == {[Good EXCEPT !.symbol = s, !.at = t, !.close = c] :
                s \in Symbols, t \in {0, 2, 4, 6}, c \in 1..2}

(* Rows with a fault, or two.                                                *)
BadRows ==
    {[Good EXCEPT !.symbol = s] : s \in NameDefects}
    \cup {[Good EXCEPT !.form = "offset"], [Good EXCEPT !.form = "other", !.close = NoValue],
          [Good EXCEPT !.at = 3, !.open = NoValue], [Good EXCEPT !.open = NoValue],
          [Good EXCEPT !.low = 0], [Good EXCEPT !.high = -1, !.open = NoValue],
          [Good EXCEPT !.open = 5], [Good EXCEPT !.low = 4]}

Upload(rows) == [size |-> "fits", csv_name |-> TRUE, utf8 |-> TRUE,
                 blank |-> FALSE, header |-> Columns, broken |-> NoValue, rows |-> rows]

Tables == {<<a, b>> : a \in GoodRows, b \in GoodRows}

(* One over the limit, or with the syntax broken at, before or after it.     *)
Limits ==
    {Upload([i \in 1..n |-> [Good EXCEPT !.at = 2 * (i - 1)]]) : n \in 0..(MaxRows + 3)}
    \cup {[Upload([i \in 1..(k - 1) |-> [Good EXCEPT !.at = 2 * (i - 1)]]) EXCEPT !.broken = k] :
             k \in 1..(MaxRows + 4)}

Unread ==
    {[Upload(<<Good, Good>>) EXCEPT !.size = "empty"], [Upload(<<Good>>) EXCEPT !.size = "too large"],
     [Upload(<<Good>>) EXCEPT !.csv_name = FALSE], [Upload(<<Good>>) EXCEPT !.utf8 = FALSE],
     [Upload(<< >>) EXCEPT !.blank = TRUE, !.header = {}], [Upload(<< >>) EXCEPT !.broken = 0],
     [Upload(<<Good, Good>>) EXCEPT !.header = Columns \ {"Open"}]}

MCFiles ==
    Unread \cup Limits
    \cup {Upload(t) : t \in Tables}
    \cup {Upload(Append(t, r)) : t \in Tables, r \in GoodRows \cup BadRows}

=============================================================================
