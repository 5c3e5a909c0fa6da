-------------------------------- MODULE Kpis --------------------------------
(***************************************************************************)
(* performance/utils.py, compute_kpis, over a sequence of numeric profits. *)
(* The averages, the win rate, the volatility and the Sharpe ratio are     *)
(* quotients of these figures; they and the two-digit format are left out. *)
(***************************************************************************)
EXTENDS Integers, Sequences, SequencesExt, FiniteSetsExt

(* The sum of the values of a function at some of its points.                *)
SumOver(f, S) == MapThenSumSet(LAMBDA x : f[x], S)

Total(profits) == SumOver(profits, DOMAIN profits)

(* The trades won, and those lost, by their places.                          *)
Wins(profits) == {i \in DOMAIN profits : profits[i] > 0}

Losses(profits) == {i \in DOMAIN profits : profits[i] < 0}

(* The cumulative profit after i trades.                                     *)
Equity(profits, i) == SumOver(profits, 1..i)

(* Faulty variant: the first trade is taken for the first peak.              *)
RunningPeakFromFirst(profits, i) ==
    IF i = 0 THEN Equity(profits, 0)
    ELSE Max({Equity(profits, j) : j \in 1..i})

(* The account starts at zero, which counts as a peak.                       *)
RunningPeak(profits, i) == Max({Equity(profits, j) : j \in 0..i})

MaxDrawdown(profits) ==
    -Min({Equity(profits, i) - RunningPeak(profits, i) : i \in 0..Len(profits)})

ProfitFactor(gross_profit, gross_loss) ==
    IF gross_loss > 0 THEN <<"ratio", gross_profit, gross_loss>>
    ELSE IF gross_profit = 0 THEN <<"N/A">> ELSE <<"infinite">>

NoKpis == [trades |-> 0]

ComputeKpis(profits) ==
    IF profits = << >> THEN NoKpis
    ELSE LET gross_profit == SumOver(profits, Wins(profits))
             gross_loss == -SumOver(profits, Losses(profits))
         IN [trades |-> Len(profits),
             winning |-> Cardinality(Wins(profits)),
             losing |-> Cardinality(Losses(profits)),
             breakeven |-> Cardinality({i \in DOMAIN profits : profits[i] = 0}),
             total |-> Total(profits),
             gross_profit |-> gross_profit,
             gross_loss |-> gross_loss,
             factor |-> ProfitFactor(gross_profit, gross_loss),
             best |-> Max(Range(profits)),
             worst |-> Min(Range(profits)),
             drawdown |-> MaxDrawdown(profits)]

=============================================================================
