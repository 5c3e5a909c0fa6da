--------------------------- MODULE ExcursionProps ---------------------------
(***************************************************************************)
(* What the excursion evidence promises, stated from the rows, the zone    *)
(* and the bars, without the code's folds, counts and flags.               *)
(***************************************************************************)
EXTENDS Excursion

Results == {"JOIN_KEY_UNAVAILABLE", "TIME_BASIS_NOT_DECLARED", "OK"}

(* The types of the run.                                                     *)
TypeOK ==
    /\ journal \in Seq(Trade)
    /\ basis \in TimeBases \cup {NoValue}
    /\ IsMarket(market)
    /\ run_status \in Results \cup {"STARTED", "JOINED"}
    /\ reason_code \in {NoValue, "DUPLICATE_TICKET", "TIME_BASIS_NOT_DECLARED"}
                       \cup TicketDefects
    /\ next \in 1..(Len(journal) + 1)
    /\ DOMAIN evidence \subseteq Tickets

(* Every trade of a finished run has a verdict of its own: none is           *)
(* overwritten by another row with the same ticket, none is missing, and a   *)
(* run that did not finish shows none (_join_tickets and                     *)
(* compute_excursion_evidence).                                              *)
OneVerdictPerRow ==
    /\ run_status = "OK" => Cardinality(DOMAIN evidence) = Len(journal)
    /\ run_status \in Results \ {"OK"} => evidence = << >>

-----------------------------------------------------------------------------
(* How far ahead of UTC a clock of the basis may be, and what it shows.      *)
Offsets(b) ==
    CASE b.kind = "UTC" -> {0}
      [] b.kind = "FIXED_OFFSET" -> {b.offset}
      [] b.kind = "IANA" -> {b.zone.before, b.zone.after}

Shows(b, u) ==
    CASE b.kind = "UTC" -> u
      [] b.kind = "FIXED_OFFSET" -> u + b.offset
      [] b.kind = "IANA" -> Wall(b.zone, u)

(* The instants at which a clock of the basis shows w.                       *)
Instants(b, w) == {u \in {w - d : d \in Offsets(b)} : Shows(b, u) = w}

(* The minutes a trade from o to c touches.                                  *)
Minutes(o, c) == {m \in (o \div Minute)..(c \div Minute) : o <= c}

(* A trade that can be given evidence: its times are those of one instant    *)
(* each, in order, agreeing with the duration in the journal, and every      *)
(* minute it touches has a bar.                                              *)
Computable(t) ==
    /\ t.defect = NoValue
    /\ \E o \in Instants(basis, t.open), c \in Instants(basis, t.close) :
          /\ Instants(basis, t.open) = {o} /\ Instants(basis, t.close) = {c}
          /\ o <= c
          /\ t.duration # NoValue => c - o - t.duration \in (-Tolerance)..Tolerance
          /\ t.symbol \in DOMAIN market
          /\ Minutes(o, c) \subseteq DOMAIN market[t.symbol]
          /\ (c \div Minute) - (o \div Minute) <= MaxWindow

Reported(t) == evidence[t.ticket]

(* The rows that have been computed.                                         *)
Done == 1..(next - 1)

(* Evidence is computed for exactly the trades that can be given it: never   *)
(* for a time that is ambiguous or did not exist, never over a missing bar,  *)
(* and never refused to a covered trade (iana_utc_mappings, compute_trade).  *)
ComputedIffComputable ==
    \A i \in Done : Reported(journal[i]).status = "COMPUTED" <=> Computable(journal[i])

(* The bars a computed trade is judged by.                                   *)
WindowOf(t) ==
    LET o == CHOOSE o \in Instants(basis, t.open) : TRUE
        c == CHOOSE c \in Instants(basis, t.close) : TRUE IN
    [m \in Minutes(o, c) |-> market[t.symbol][m]]

-----------------------------------------------------------------------------
(* What a reason of a refusal says of the bars of a symbol: the file ends    *)
(* too early or begins too late; or it does neither, but lacks the first or  *)
(* the last minute; or it has both, but lacks a minute between.              *)
ReasonHolds(reason, bars, window) ==
    LET minutes == DOMAIN bars
        boundaries == {Min(window), Max(window)} IN
    CASE reason = "WINDOW_EXCEEDS_LIMIT" -> Cardinality(window) > MaxWindow + 1
      [] reason = "OUTSIDE_FILE_RANGE" ->
            \E e \in boundaries : (\A m \in minutes : m > e) \/ (\A m \in minutes : m < e)
      [] reason = "BOUNDARY_BAR_MISSING" ->
            /\ ~ boundaries \subseteq minutes
            /\ \A e \in boundaries : (\E m \in minutes : m <= e) /\ (\E m \in minutes : m >= e)
      [] reason = "INTERIOR_GAP" ->
            /\ boundaries \subseteq minutes
            /\ \E m \in window \ boundaries : m \notin minutes

(* A report r of a trade is true of it: an ambiguous time is a time shown    *)
(* twice, a nonexistent one was never shown, and a coverage reason tells     *)
(* which bars the file lacks.                                                *)
TellsWhy(t, r) ==
    LET legs == {Instants(basis, t.open), Instants(basis, t.close)} IN
    CASE r.status = "COMPUTED" -> TRUE
      [] r.status = "INVALID_TRADE_DATA" ->
            r.reason = IF t.defect # NoValue THEN t.defect ELSE "CLOSE_BEFORE_OPEN"
      [] r.status = "TIMEZONE_AMBIGUOUS" ->
            \/ r.reason = "AMBIGUOUS" /\ \E leg \in legs : Cardinality(leg) = 2
            \/ r.reason = "NONEXISTENT" /\ {} \in legs
      [] r.status = "TIME_BASIS_INCONSISTENT" -> t.duration # NoValue
      [] r.status = "NO_MARKET_DATA" -> t.symbol \notin DOMAIN market
      [] r.status = "INCOMPLETE_COVERAGE" ->
            \E o \in Instants(basis, t.open), c \in Instants(basis, t.close) :
                ReasonHolds(r.reason, market[t.symbol], Minutes(o, c))
      [] OTHER -> FALSE

(* Every trade that got no evidence got the reason that is true of it, so    *)
(* that the reader can act on it, and no trade violates the invariant of the *)
(* excursions (_normalise_leg, the coverage checks of compute_trade).        *)
RefusalTellsWhy ==
    \A i \in Done : TellsWhy(journal[i], Reported(journal[i]))

-----------------------------------------------------------------------------
(* The gain a trade would have made at a price.                              *)
GainAt(t, price) == IF t.side = "buy" THEN price - t.entry ELSE t.entry - price

Gains(t, bars) ==
    UNION {{GainAt(t, bars[m].high), GainAt(t, bars[m].low)} : m \in DOMAIN bars}

(* The excursions of a trade are the best and the worst gain of its bars, or *)
(* 0 if it was never ahead or never behind (compute_trade).                  *)
ExcursionsAreExtremes ==
    \A i \in Done :
        LET t == journal[i]
            r == Reported(t)
            gains == Gains(t, WindowOf(t)) IN
        r.status = "COMPUTED" =>
            /\ r.mfe \in gains \cup {0} /\ r.mae \in gains \cup {0}
            /\ \A g \in gains \cup {0} : r.mae <= g /\ g <= r.mfe

(* An extreme that no boundary bar is flagged for lies in a minute that is   *)
(* entirely inside the trade, so the price was there while the trade was     *)
(* open (high_from_boundary_bar, low_from_boundary_bar).                     *)
UnflaggedExtremesAreInside ==
    \A i \in Done :
        LET t == journal[i]
            r == Reported(t)
            bars == WindowOf(t)
            boundaries == {Min(DOMAIN bars), Max(DOMAIN bars)} IN
        r.status = "COMPUTED" =>
            /\ ~ r.high_from_boundary_bar =>
                  \A m \in boundaries : \E n \in DOMAIN bars : bars[n].high > bars[m].high
            /\ ~ r.low_from_boundary_bar =>
                  \A m \in boundaries : \E n \in DOMAIN bars : bars[n].low < bars[m].low

(* A trade that left at a price of its last bar realised no more than its    *)
(* favourable and no less than its adverse excursion: the flags of an exit   *)
(* outside the bar and of a result outside the excursions never contradict   *)
(* each other (compute_trade).                                               *)
ExitInsideIsWithinExcursions ==
    \A i \in Done :
        LET r == Reported(journal[i]) IN
        r.status = "COMPUTED" /\ ~ r.exit_outside_last_bar_range
            => ~ r.realised_outside_interval

(* What a reader may conclude from the flags of the evidence.                *)
FlagsAreTrue == UnflaggedExtremesAreInside /\ ExitInsideIsWithinExcursions

=============================================================================
