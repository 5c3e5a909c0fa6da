----------------------------- MODULE Excursion ------------------------------
(***************************************************************************)
(* performance/excursion.py: the excursion evidence of a journal.  Tickets *)
(* must identify the rows; then every trade is timed under the declared    *)
(* basis, matched with the one-minute bars of its symbol and, if they      *)
(* cover it, given its favourable and adverse excursion.                   *)
(*                                                                         *)
(* Prices are integers: the code's tolerance of 1e-9 is below any tick.    *)
(***************************************************************************)
EXTENDS TimeBasis, FiniteSetsExt, Sequences

CONSTANTS
    Minute,          \* time units in a minute
    MaxWindow,       \* MAX_TRADE_WINDOW_MINUTES
    Tolerance,       \* DURATION_TOLERANCE_SECONDS
    LastMinute,      \* bound on the minutes of bars
    MaxPrice,        \* bound on prices
    Tickets, Symbols,
    CellDefects,     \* reasons why a cell of a row is refused
    Journals, Bases, Markets    \* the inputs considered

(* Why a row has no ticket; without the column, every row has the first.     *)
TicketDefects == {"MISSING_TICKET", "NULL_TICKET", "BLANK_TICKET", "INVALID_TICKET"}

CoverageReasons ==
    {"WINDOW_EXCEEDS_LIMIT", "OUTSIDE_FILE_RANGE", "BOUNDARY_BAR_MISSING", "INTERIOR_GAP"}

(* A row: tickets and symbols in canonical form, defect the reason of the    *)
(* first cell that is refused.                                               *)
Trade == [ticket : Tickets \cup TicketDefects, defect : CellDefects \cup {NoValue},
          open : Int, close : Int, duration : Nat \cup {NoValue},
          symbol : Symbols, side : {"buy", "sell"},
          entry : 1..MaxPrice, exit : 1..MaxPrice]

(* market_data.py, _validate_ohlc.                                           *)
Bar == {b \in [high : 1..MaxPrice, low : 1..MaxPrice] : b.low <= b.high}

(* market_data.py: a minute has one bar (DUPLICATE_BAR), and some two bars   *)
(* of a symbol are a minute apart (_validate_m1_resolution).                 *)
BarsOfSymbol == UNION {[S -> Bar] : S \in {S \in SUBSET (0..LastMinute) :
                                         \E m \in S : m + 1 \in S}}

IsMarket(m) == DOMAIN m \subseteq Symbols /\ m \in [DOMAIN m -> BarsOfSymbol]

ASSUME ExcursionAssumption ==
    /\ Minute \in Nat \ {0}
    /\ {MaxWindow, Tolerance, LastMinute, MaxPrice} \subseteq Nat
    /\ NoValue \notin Int /\ NoValue \notin CellDefects
    /\ NoValue \notin TimeBases
    /\ Tickets \cap TicketDefects = {}
    /\ NoValue \notin TicketDefects \cup CoverageReasons \cup {"DUPLICATE_TICKET"}
    /\ Journals \subseteq Seq(Trade)
    /\ Bases \subseteq TimeBases \cup {NoValue}
    /\ \A m \in Markets : IsMarket(m)

VARIABLES
    journal,      \* the rows of the journal
    basis,        \* the declared time basis, NoValue if none
    market,       \* the accepted bars, by symbol and minute
    run_status,   \* "STARTED" and "JOINED" until the run has a result
    reason_code,  \* why the run has no evidence
    next,         \* the row to compute
    evidence      \* by ticket, of the rows before next

vars == <<journal, basis, market, run_status, reason_code, next, evidence>>

-----------------------------------------------------------------------------
(* Faulty variant: repeated tickets are not noticed.                         *)
BadRowsNoDuplicates(rows) == {i \in DOMAIN rows : rows[i].ticket \in TicketDefects}

(* _join_tickets returns at the first row that has no ticket or a seen one.  *)
BadRows(rows) ==
    {i \in DOMAIN rows : \/ rows[i].ticket \in TicketDefects
                         \/ \E k \in 1..(i - 1) : rows[k].ticket = rows[i].ticket}

(* The reason the run is given for them, NoValue if every row can be joined. *)
JoinReason(rows) ==
    IF BadRows(rows) = {} THEN NoValue
    ELSE LET ticket == rows[Min(BadRows(rows))].ticket IN
         IF ticket \in TicketDefects THEN ticket ELSE "DUPLICATE_TICKET"

floor_minute_utc(u) == u \div Minute

Failed(status, reason) == [status |-> status, reason |-> reason]

(* _normalise_leg, for a time that is not valid.                             *)
FailedLeg(time) == Failed("TIMEZONE_AMBIGUOUS", time.status)

Realised(t) == IF t.side = "buy" THEN t.exit - t.entry ELSE t.entry - t.exit

(* Faulty variant: the side is ignored.                                      *)
FavourableOfBuy(t, high, low) == Larger(0, high - t.entry)

Favourable(t, high, low) ==
    Larger(0, IF t.side = "buy" THEN high - t.entry ELSE t.entry - low)

Adverse(t, high, low) ==
    Smaller(0, IF t.side = "buy" THEN low - t.entry ELSE t.entry - high)

outside_range(price, bar) == price < bar.low \/ price > bar.high

(* Faulty variant: the last bar is no boundary.                              *)
FromFirstBar(field, extreme, bars, first, last) == extreme = bars[first][field]

FromBoundaryBar(field, extreme, bars, first, last) ==
    extreme \in {bars[first][field], bars[last][field]}

-----------------------------------------------------------------------------
(* The minutes from first to last that have a bar.                           *)
Window(bars, first, last) == {m \in DOMAIN bars : first <= m /\ m <= last}

(* The bars of a covered trade become its evidence.                          *)
Evidence(t, bars, window) ==
    LET high == Max({bars[m].high : m \in window})
        low == Min({bars[m].low : m \in window})
        first == Min(window)
        last == Max(window)
        mfe == Favourable(t, high, low)
        mae == Adverse(t, high, low) IN
    IF high < low \/ mfe < 0 \/ mae > 0
    THEN Failed("INVARIANT_VIOLATION", "INVARIANT_FAILED")
    ELSE [status |-> "COMPUTED", reason |-> NoValue, mfe |-> mfe, mae |-> mae,
          high_from_boundary_bar |-> FromBoundaryBar("high", high, bars, first, last),
          low_from_boundary_bar |-> FromBoundaryBar("low", low, bars, first, last),
          entry_outside_first_bar_range |-> outside_range(t.entry, bars[first]),
          exit_outside_last_bar_range |-> outside_range(t.exit, bars[last]),
          realised_outside_interval |-> Realised(t) < mae \/ Realised(t) > mfe]

(* Faulty variant: a gap between the first and the last bar is not counted.  *)
CoverageOfBoundaries(bars, first, last) ==
    IF last - first > MaxWindow THEN "WINDOW_EXCEEDS_LIMIT"
    ELSE IF first < Min(DOMAIN bars) \/ last > Max(DOMAIN bars) THEN "OUTSIDE_FILE_RANGE"
    ELSE IF ~ {first, last} \subseteq DOMAIN bars THEN "BOUNDARY_BAR_MISSING"
    ELSE NoValue

(* Why the bars do not cover the minutes first..last; NoValue if they do.    *)
CoverageReason(bars, first, last) ==
    LET expected == last - first + 1 IN
    IF last - first > MaxWindow THEN "WINDOW_EXCEEDS_LIMIT"
    ELSE IF first < Min(DOMAIN bars) \/ last > Max(DOMAIN bars) THEN "OUTSIDE_FILE_RANGE"
    ELSE IF ~ {first, last} \subseteq DOMAIN bars THEN "BOUNDARY_BAR_MISSING"
    ELSE IF Cardinality(Window(bars, first, last)) < expected
         THEN "INTERIOR_GAP"
    ELSE NoValue

(* A trade whose two legs are instants.                                      *)
ComputeTimed(t, open_utc, close_utc, bars_by_symbol) ==
    LET first == floor_minute_utc(open_utc)
        last == floor_minute_utc(close_utc)
        deviation == close_utc - open_utc - t.duration IN
    IF close_utc < open_utc THEN Failed("INVALID_TRADE_DATA", "CLOSE_BEFORE_OPEN")
    ELSE IF t.duration # NoValue /\ Larger(deviation, -deviation) > Tolerance
         THEN Failed("TIME_BASIS_INCONSISTENT", "DURATION_MISMATCH")
    ELSE IF t.symbol \notin DOMAIN bars_by_symbol
         THEN Failed("NO_MARKET_DATA", "NO_MARKET_DATA")
    ELSE LET bars == bars_by_symbol[t.symbol]
             reason == CoverageReason(bars, first, last) IN
         IF reason # NoValue THEN Failed("INCOMPLETE_COVERAGE", reason)
         ELSE Evidence(t, bars, Window(bars, first, last))

compute_trade(t, declared, bars_by_symbol) ==
    LET open == normalise_journal_datetime(t.open, declared)
        close == normalise_journal_datetime(t.close, declared) IN
    IF t.defect # NoValue THEN Failed("INVALID_TRADE_DATA", t.defect)
    ELSE IF open.status # "VALID" THEN FailedLeg(open)
    ELSE IF close.status # "VALID" THEN FailedLeg(close)
    ELSE ComputeTimed(t, open.utc, close.utc, bars_by_symbol)

-----------------------------------------------------------------------------
Init ==
    /\ journal \in Journals
    /\ basis \in Bases
    /\ market \in Markets
    /\ run_status = "STARTED"
    /\ reason_code = NoValue
    /\ next = 1
    /\ evidence = << >>

Inputs == <<journal, basis, market>>

JoinTickets ==
    /\ run_status = "STARTED"
    /\ reason_code' = IF JoinReason(journal) = NoValue /\ basis = NoValue
                      THEN "TIME_BASIS_NOT_DECLARED" ELSE JoinReason(journal)
    /\ run_status' = IF JoinReason(journal) # NoValue THEN "JOIN_KEY_UNAVAILABLE"
                     ELSE IF basis = NoValue THEN "TIME_BASIS_NOT_DECLARED"
                     ELSE "JOINED"
    /\ UNCHANGED <<Inputs, next, evidence>>

(* The rows are taken in order; an entry of the dictionary may be replaced.  *)
ComputeRow ==
    /\ run_status = "JOINED"
    /\ next <= Len(journal)
    /\ LET t == journal[next] IN
       evidence' = [k \in DOMAIN evidence \cup {t.ticket} |->
                       IF k = t.ticket THEN compute_trade(t, basis, market)
                       ELSE evidence[k]]
    /\ next' = next + 1
    /\ UNCHANGED <<Inputs, run_status, reason_code>>

Finish ==
    /\ run_status = "JOINED"
    /\ next > Len(journal)
    /\ run_status' = "OK"
    /\ UNCHANGED <<Inputs, reason_code, next, evidence>>

Next == JoinTickets \/ ComputeRow \/ Finish

Spec == Init /\ [][Next]_vars

=============================================================================
