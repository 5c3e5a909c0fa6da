---------------------------- MODULE MCExcursion -----------------------------
(***************************************************************************)
(* Finite instances of Excursion for TLC.  A minute has two time units.    *)
(***************************************************************************)
EXTENDS ExcursionProps, TLC

UTC == [kind |-> "UTC", offset |-> 0, zone |-> [before |-> 0, after |-> 0, at |-> 0]]

Fixed == [UTC EXCEPT !.kind = "FIXED_OFFSET", !.offset = 2]

(* At instant 4, the clock goes from 4 to 6, and from 6 to 4.                *)
SummerBegins == [UTC EXCEPT !.kind = "IANA", !.zone = [before |-> 0, after |-> 2, at |-> 4]]

SummerEnds == [UTC EXCEPT !.kind = "IANA", !.zone = [before |-> 2, after |-> 0, at |-> 4]]

Plain == [ticket |-> "t1", defect |-> NoValue, open |-> 0, close |-> 0,
          duration |-> NoValue, symbol |-> "x", side |-> "buy", entry |-> 1, exit |-> 1]

FlatBar == [high |-> 1, low |-> 1]

(* Coverage: every window of times, with and without a duration, in every    *)
(* file of bars of five minutes, under every kind of basis.                  *)
CoverageJournals ==
    {<<[Plain EXCEPT !.open = o, !.close = c, !.duration = d]>> :
        o \in 1..8, c \in 1..9, d \in {NoValue, 4}}

CoverageBases == {UTC, Fixed, SummerBegins, SummerEnds}

FlatBars == {[m \in S |-> FlatBar] : S \in {S \in SUBSET (0..4) : \E m \in S : m + 1 \in S}}

CoverageMarkets == {[s \in {"x"} |-> bars] : bars \in FlatBars} \cup {<< >>}

(* Extremes: every price of a trade over the first, the last two or all      *)
(* three bars.                                                               *)
ExtremesJournals ==
    {<<[Plain EXCEPT !.open = 2 * w[1], !.close = 2 * w[2] + 1,
                     !.side = s, !.entry = n, !.exit = x]>> :
        w \in {<<0, 0>>, <<1, 2>>, <<0, 2>>}, s \in {"buy", "sell"},
        n \in 1..MaxPrice, x \in 1..MaxPrice}

ExtremesMarkets == {[s \in {"x"} |-> bars] : bars \in [0..2 -> Bar]}

(* Rows: two rows with any tickets, defects and symbols.                     *)
RowsTrades ==
    {[Plain EXCEPT !.ticket = k, !.defect = d, !.symbol = s, !.close = c] :
        k \in {"t1", "t2", "NULL_TICKET"}, d \in {NoValue, "INVALID_OPEN"},
        s \in {"x", "y"}, c \in {1, 9}}

RowsJournals == {<<a, b>> : a \in RowsTrades, b \in RowsTrades}

RowsBases == {UTC, NoValue}

RowsMarkets == {[s \in {"x"} |-> [m \in 0..1 |-> FlatBar]]}

(* The inputs of the three instances, and all inputs.                        *)
Coverage ==
    /\ journal \in CoverageJournals
    /\ basis \in CoverageBases
    /\ market \in CoverageMarkets

Extremes == journal \in ExtremesJournals /\ basis = UTC /\ market \in ExtremesMarkets

Rows == journal \in RowsJournals /\ basis \in RowsBases /\ market \in RowsMarkets

MCJournals == CoverageJournals \cup ExtremesJournals \cup RowsJournals

MCBases == CoverageBases \cup RowsBases

MCMarkets == CoverageMarkets \cup ExtremesMarkets \cup RowsMarkets

MCInit == (Coverage \/ Extremes \/ Rows) /\ Init

MCSpec == MCInit /\ [][Next]_vars

=============================================================================
