-------------------------- MODULE MarketDataProps ---------------------------
(***************************************************************************)
(* Properties of MarketData.                                               *)
(***************************************************************************)
EXTENDS MarketData

(* What the excursion computation takes for granted of an accepted file (it  *)
(* groups the bars by symbol and minute and never looks back at the text):   *)
(* one bar for a symbol and minute, prices inside their own range, and two   *)
(* bars a minute apart for every symbol, whatever the order of the rows.     *)
AcceptedBarsAreUsable ==
    status = "ACCEPTED" =>
      /\ \A b, c \in validated :
           b.symbol = c.symbol /\ b.minute = c.minute => b = c
      /\ \A b \in validated :
           /\ b.low <= b.open /\ b.open <= b.high
           /\ b.low <= b.close /\ b.close <= b.high
      /\ \A b \in validated : \E c, d \in validated :
           /\ c.symbol = b.symbol /\ d.symbol = b.symbol
           /\ d.minute = c.minute + 1

(* An accepted file is taken whole: every row within the limit became a bar  *)
(* of its own, so no row overwrote another and the counts of the provenance  *)
(* (source rows and valid rows) are true.                                    *)
EveryRowIsOneBar ==
    status = "ACCEPTED" =>
      /\ Len(file.rows) \in MIN_MARKET_DATA_ROWS..MaxRows
      /\ Cardinality(validated) = Len(file.rows)
      /\ \A i \in DOMAIN file.rows :
           \E b \in validated : /\ b.symbol = file.rows[i].symbol
                                /\ b.minute * Minute = file.rows[i].at
                                /\ b.close = file.rows[i].close

(* A refusal that compares rows is right about the text of the file, not     *)
(* just about what was collected so far: a duplicate has an earlier row with *)
(* its symbol and time, and a file of unconfirmed resolution has a symbol    *)
(* none of whose rows is a minute after another.                             *)
RefusalIsTrue ==
    /\ reason = "DUPLICATE_BAR" =>
         \E i \in 1..(next - 1) : /\ file.rows[i].symbol = file.rows[next].symbol
                                  /\ file.rows[i].at = file.rows[next].at
    /\ reason = "M1_RESOLUTION_UNCONFIRMED" =>
         \E i \in DOMAIN file.rows : \A j, k \in DOMAIN file.rows :
           /\ file.rows[j].symbol = file.rows[i].symbol
           /\ file.rows[k].symbol = file.rows[i].symbol
           => file.rows[k].at # file.rows[j].at + Minute

(* An accepted file is, row by row, what the excursion computation assumes.  *)
AcceptedFileIsItsBars == AcceptedBarsAreUsable /\ EveryRowIsOneBar

=============================================================================
