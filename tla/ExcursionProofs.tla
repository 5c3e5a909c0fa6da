--------------------------- MODULE ExcursionProofs --------------------------
(***************************************************************************)
(* Proofs about Excursion, for any journal, file of bars, zone, window     *)
(* limit and tolerance.                                                    *)
(***************************************************************************)
EXTENDS ExcursionProps, FiniteSetTheorems, TLAPS

(* The evidence is what compute_trade makes of the rows before next.       *)
VerdictsAreComputed ==
    /\ DOMAIN evidence = {journal[i].ticket : i \in Done}
    /\ \A i \in Done :
          evidence[journal[i].ticket] = compute_trade(journal[i], basis, market)

(* Rows are only computed after all of them were found to have a ticket of *)
(* their own and a basis was found declared.                               *)
RunFollowsChecks ==
    /\ run_status \in {"JOINED", "OK"} => BadRows(journal) = {} /\ basis # NoValue
    /\ run_status \notin {"JOINED", "OK"} => next = 1 /\ evidence = << >>
    /\ run_status = "OK" => next = Len(journal) + 1

IInv == TypeOK /\ VerdictsAreComputed /\ RunFollowsChecks

-----------------------------------------------------------------------------
LEMMA InitIInv == Init => IInv
<1> SUFFICES ASSUME Init PROVE IInv
  OBVIOUS
<1>1. journal \in Seq(Trade) /\ basis \in TimeBases \cup {NoValue} /\ IsMarket(market)
  BY ExcursionAssumption DEF Init
<1>2. Done = {}
  BY DEF Init, Done
<1>3. TypeOK
  BY <1>1 DEF Init, TypeOK, Results
<1>4. VerdictsAreComputed
  BY <1>2 DEF Init, VerdictsAreComputed
<1>5. RunFollowsChecks
  BY DEF Init, RunFollowsChecks
<1> QED
  BY <1>3, <1>4, <1>5 DEF IInv

(* The join succeeds only if no row is bad.                                *)
LEMMA JoinedMeansNoBadRow ==
    ASSUME NEW rows
    PROVE  /\ JoinReason(rows) = NoValue => BadRows(rows) = {}
           /\ JoinReason(rows) \in {NoValue, "DUPLICATE_TICKET"} \cup TicketDefects
  BY ExcursionAssumption DEF JoinReason

LEMMA JoinTicketsIInv ==
    ASSUME IInv, JoinTickets PROVE IInv'
<1>1. UNCHANGED <<journal, basis, market, next, evidence>> /\ run_status = "STARTED"
  BY DEF JoinTickets, Inputs
<1>2. TypeOK'
  <2>1. /\ run_status' \in Results \cup {"STARTED", "JOINED"}
        /\ reason_code' \in {NoValue, "DUPLICATE_TICKET", "TIME_BASIS_NOT_DECLARED"}
                            \cup TicketDefects
    BY JoinedMeansNoBadRow DEF JoinTickets, Results
  <2> QED
    BY <1>1, <2>1 DEF IInv, TypeOK
<1>3. VerdictsAreComputed'
  BY <1>1 DEF IInv, VerdictsAreComputed, Done
<1>4. RunFollowsChecks'
  <2>1. next = 1 /\ evidence = << >>
    BY <1>1 DEF IInv, RunFollowsChecks
  <2>2. run_status' # "OK"
    BY DEF JoinTickets
  <2>3. run_status' = "JOINED" => JoinReason(journal) = NoValue /\ basis # NoValue
    BY DEF JoinTickets
  <2> QED
    BY <1>1, <2>1, <2>2, <2>3, JoinedMeansNoBadRow DEF RunFollowsChecks
<1> QED
  BY <1>2, <1>3, <1>4 DEF IInv

(* Among joined rows, a row has a ticket, and no earlier row has the same. *)
LEMMA JoinedRows ==
    ASSUME journal \in Seq(Trade), BadRows(journal) = {}, NEW i \in DOMAIN journal
    PROVE  /\ journal[i] \in Trade
           /\ journal[i].ticket \in Tickets
           /\ \A k \in 1..(i - 1) : journal[k].ticket # journal[i].ticket
<1>1. journal[i] \in Trade
  OBVIOUS
<1>2. i \notin BadRows(journal)
  OBVIOUS
<1> QED
  BY <1>1, <1>2 DEF BadRows, Trade

LEMMA ComputeRowIInv ==
    ASSUME IInv, ComputeRow PROVE IInv'
<1> DEFINE t == journal[next]
<1>1. /\ UNCHANGED <<journal, basis, market, run_status, reason_code>>
      /\ run_status = "JOINED" /\ next <= Len(journal) /\ next' = next + 1
      /\ evidence' = [k \in DOMAIN evidence \cup {t.ticket} |->
                        IF k = t.ticket THEN compute_trade(t, basis, market) ELSE evidence[k]]
  BY DEF ComputeRow, Inputs
<1>2. /\ journal \in Seq(Trade) /\ BadRows(journal) = {}
      /\ Len(journal) \in Nat /\ next \in 1..Len(journal)
      /\ DOMAIN journal = 1..Len(journal)
  BY <1>1 DEF IInv, TypeOK, RunFollowsChecks
<1>3. t \in Trade /\ t.ticket \in Tickets
      /\ \A k \in Done : journal[k].ticket # t.ticket
  BY <1>2, JoinedRows DEF Done
<1>4. Done' = Done \cup {next}
  BY <1>1, <1>2 DEF Done
<1>5. TypeOK'
  <2>1. DOMAIN evidence' \subseteq Tickets
    BY <1>1, <1>3 DEF IInv, TypeOK
  <2>2. next' \in 1..(Len(journal') + 1)
    BY <1>1, <1>2
  <2> QED
    BY <1>1, <2>1, <2>2 DEF IInv, TypeOK
<1>6. VerdictsAreComputed'
  <2>1. DOMAIN evidence' = {journal'[i].ticket : i \in Done'}
    BY <1>1, <1>4 DEF IInv, VerdictsAreComputed
  <2>2. ASSUME NEW i \in Done'
        PROVE  evidence'[journal'[i].ticket] = compute_trade(journal'[i], basis', market')
    <3>1. CASE i = next
      BY <1>1, <3>1
    <3>2. CASE i \in Done
      <4>1. journal[i].ticket \in DOMAIN evidence /\ journal[i].ticket # t.ticket
        BY <1>3, <3>2 DEF IInv, VerdictsAreComputed
      <4>2. evidence[journal[i].ticket] = compute_trade(journal[i], basis, market)
        BY <3>2 DEF IInv, VerdictsAreComputed
      <4> QED
        BY <1>1, <4>1, <4>2
    <3> QED
      BY <1>4, <3>1, <3>2
  <2> QED
    BY <2>1, <2>2 DEF VerdictsAreComputed
<1>7. RunFollowsChecks'
  BY <1>1 DEF IInv, RunFollowsChecks
<1> QED
  BY <1>5, <1>6, <1>7 DEF IInv

LEMMA NextIInv == IInv /\ [Next]_vars => IInv'
<1> SUFFICES ASSUME IInv, [Next]_vars PROVE IInv'
  OBVIOUS
<1>1. CASE JoinTickets
  BY <1>1, JoinTicketsIInv
<1>2. CASE ComputeRow
  BY <1>2, ComputeRowIInv
<1>3. CASE Finish
  <2>1. /\ UNCHANGED <<journal, basis, market, reason_code, next, evidence>>
        /\ run_status = "JOINED" /\ next > Len(journal) /\ run_status' = "OK"
    BY <1>3 DEF Finish, Inputs
  <2>2. Len(journal) \in Nat /\ next \in 1..(Len(journal) + 1)
    BY DEF IInv, TypeOK
  <2>3. next = Len(journal) + 1
    BY <2>1, <2>2
  <2>4. TypeOK' /\ VerdictsAreComputed'
    BY <2>1 DEF IInv, TypeOK, Results, VerdictsAreComputed, Done
  <2>5. RunFollowsChecks'
    BY <2>1, <2>3 DEF IInv, RunFollowsChecks
  <2> QED
    BY <2>4, <2>5 DEF IInv
<1>4. CASE UNCHANGED vars
  BY <1>4 DEF vars, IInv, TypeOK, VerdictsAreComputed, RunFollowsChecks, Done
<1> QED
  BY <1>1, <1>2, <1>3, <1>4 DEF Next

LEMMA Inductive == Spec => []IInv
  BY InitIInv, NextIInv, PTL DEF Spec

(* The variables of a run keep their types.                                *)
THEOREM TypeCorrect == Spec => []TypeOK
<1>1. IInv => TypeOK
  BY DEF IInv
<1> QED
  BY Inductive, <1>1, PTL

(* The verdicts of a finished run are as many as its rows: the tickets are *)
(* a bijection from the rows to the evidence.                              *)
THEOREM VerdictPerRow == Spec => []OneVerdictPerRow
<1>1. ASSUME IInv, run_status = "OK" PROVE Cardinality(DOMAIN evidence) = Len(journal)
  <2>1. /\ journal \in Seq(Trade) /\ BadRows(journal) = {}
        /\ Len(journal) \in Nat /\ Done = 1..Len(journal) /\ DOMAIN journal = Done
    BY <1>1 DEF IInv, TypeOK, RunFollowsChecks, Done
  <2> DEFINE f == [i \in Done |-> journal[i].ticket]
  <2>2. f \in Bijection(Done, DOMAIN evidence)
    <3>1. DOMAIN evidence = {f[i] : i \in Done}
      BY <1>1 DEF IInv, VerdictsAreComputed
    <3>2. \A i, k \in Done : k < i => f[k] # f[i]
      BY <2>1, JoinedRows
    <3>3. \A i, k \in Done : f[k] = f[i] => k = i
      BY <2>1, <3>2
    <3> HIDE DEF f
    <3>4. f \in [Done -> DOMAIN evidence]
      BY <3>1 DEF f
    <3> QED
      BY <3>1, <3>3, <3>4 DEF Bijection, Injection, Surjection, IsInjective
  <2>3. IsFiniteSet(Done) /\ Cardinality(Done) = Len(journal)
    BY <2>1, FS_Interval
  <2> QED
    BY <2>2, <2>3, FS_Bijection DEF ExistsBijection
<1>2. IInv => OneVerdictPerRow
  BY <1>1 DEF OneVerdictPerRow, IInv, RunFollowsChecks, Results
<1> QED
  BY Inductive, <1>2, PTL

-----------------------------------------------------------------------------
(* Least and greatest elements exist.                                      *)
LEMMA MinIsLeast ==
    ASSUME NEW S \in SUBSET Nat, S # {}
    PROVE  Min(S) \in S /\ \A x \in S : Min(S) <= x
<1>1. PICK m \in S : \A y \in S : ~ (<<y, m>> \in OpToRel(<, Nat))
  BY NatLessThanWellFounded, WFMin
<1>2. ASSUME NEW y \in S, y < m PROVE FALSE
  BY <1>1, <1>2 DEF OpToRel
<1>3. \A y \in S : m <= y
  BY <1>2
<1> QED
  BY <1>3 DEF Min

LEMMA MaxIsGreatest ==
    ASSUME NEW S \in SUBSET Nat, S # {}, NEW n \in Nat, \A x \in S : x <= n
    PROVE  Max(S) \in S /\ \A x \in S : x <= Max(S)
<1> DEFINE T == {n - x : x \in S}
<1>1. T \in SUBSET Nat /\ T # {}
  OBVIOUS
<1>2. Min(T) \in T /\ \A y \in T : Min(T) <= y
  BY <1>1, MinIsLeast
<1>3. PICK m \in S : Min(T) = n - m
  BY <1>2
<1>4. \A x \in S : n - m <= n - x
  BY <1>2, <1>3
<1>5. \A x \in S : x <= m
  BY <1>4
<1> QED
  BY <1>5 DEF Max

-----------------------------------------------------------------------------
(* The folds find every instant that shows a wall time, across a gap as well *)
(* as an overlap.                                                          *)
LEMMA FoldsFindInstants ==
    ASSUME NEW zone \in Zones, NEW w \in Int
    PROVE  iana_utc_mappings(zone, w)
             = {u \in {w - d : d \in {zone.before, zone.after}} : Wall(zone, u) = w}
<1>1. zone.before \in Int /\ zone.after \in Int /\ zone.at \in Int
  BY DEF Zones
<1>2. ASSUME NEW u \in {w - zone.before, w - zone.after}, Wall(zone, u) = w
      PROVE  u \in {w - FoldOffset(zone, w, 0), w - FoldOffset(zone, w, 1)}
  BY <1>1, <1>2 DEF Wall, FoldOffset, Larger, Smaller
<1>3. \A fold \in {0, 1} : FoldOffset(zone, w, fold) \in {zone.before, zone.after}
  BY DEF FoldOffset
<1> QED
  BY <1>2, <1>3 DEF iana_utc_mappings

(* A time is valid exactly if it is shown at one instant.                  *)
LEMMA ValidIffOneInstant ==
    ASSUME NEW b \in TimeBases, NEW w \in Int
    PROVE  LET n == normalise_journal_datetime(w, b) IN
           /\ n.status \in {"VALID", "AMBIGUOUS", "NONEXISTENT"}
           /\ n.status = "VALID" => n.utc \in Int /\ Instants(b, w) = {n.utc}
           /\ \A u : Instants(b, w) = {u} => n.status = "VALID"
<1>1. b.kind \in {"UTC", "FIXED_OFFSET", "IANA"} /\ b.offset \in Int /\ b.zone \in Zones
  BY DEF TimeBases
<1>2. CASE b.kind = "UTC"
  BY <1>1, <1>2 DEF normalise_journal_datetime, Valid, Instants, Offsets, Shows
<1>3. CASE b.kind = "FIXED_OFFSET"
  BY <1>1, <1>3 DEF normalise_journal_datetime, Valid, Instants, Offsets, Shows
<1>4. CASE b.kind = "IANA"
  <2>1. Instants(b, w) = iana_utc_mappings(b.zone, w)
    BY <1>1, <1>4, FoldsFindInstants DEF Instants, Offsets, Shows
  <2>2. Instants(b, w) \subseteq Int
    BY <1>1, <1>4 DEF Instants, Offsets, Zones
  <2>3. normalise_journal_datetime(w, b) = NormaliseIana(b.zone, w)
    BY <1>4 DEF normalise_journal_datetime
  <2> QED
    BY <2>1, <2>2, <2>3 DEF NormaliseIana, Valid, Undetermined
<1> QED
  BY <1>1, <1>2, <1>3, <1>4

-----------------------------------------------------------------------------
(* The bars of a symbol: a bounded set of minutes, not empty, with bars.   *)
LEMMA BarsTyped ==
    ASSUME NEW bars \in BarsOfSymbol
    PROVE  /\ DOMAIN bars \subseteq 0..LastMinute /\ DOMAIN bars # {}
           /\ \A m \in DOMAIN bars : /\ bars[m].low \in 1..MaxPrice
                                     /\ bars[m].high \in 1..MaxPrice
                                     /\ bars[m].low <= bars[m].high
  BY DEF BarsOfSymbol, Bar

(* Counting the bars of a window tells whether one is missing, because a   *)
(* minute has only one.                                                    *)
LEMMA CountTellsCoverage ==
    ASSUME NEW bars \in BarsOfSymbol, NEW first \in Int, NEW last \in Int, first <= last
    PROVE  /\ CoverageReason(bars, first, last) \in CoverageReasons \cup {NoValue}
           /\ CoverageReason(bars, first, last) = NoValue
                <=> last - first <= MaxWindow /\ first..last \subseteq DOMAIN bars
<1> DEFINE minutes == DOMAIN bars
<1>1. minutes \in SUBSET Nat /\ minutes # {} /\ \A m \in minutes : m <= LastMinute
  BY BarsTyped, ExcursionAssumption
<1>2. /\ Min(minutes) \in minutes /\ \A m \in minutes : Min(minutes) <= m
      /\ Max(minutes) \in minutes /\ \A m \in minutes : m <= Max(minutes)
  BY <1>1, MinIsLeast, MaxIsGreatest, ExcursionAssumption
<1>3. IsFiniteSet(first..last) /\ Cardinality(first..last) = last - first + 1
  BY FS_Interval
<1>4. Window(bars, first, last) \in SUBSET (first..last)
  BY <1>1 DEF Window
<1>5. Window(bars, first, last) = first..last <=> first..last \subseteq minutes
  BY <1>1 DEF Window
<1>6. /\ Cardinality(Window(bars, first, last)) \in Nat
      /\ Cardinality(Window(bars, first, last)) <= last - first + 1
      /\ Cardinality(Window(bars, first, last)) = last - first + 1
           <=> Window(bars, first, last) = first..last
  BY <1>3, <1>4, FS_Subset, FS_CardinalityType
<1>7. first..last \subseteq minutes
        <=> ~ (Cardinality(Window(bars, first, last)) < last - first + 1)
  BY <1>5, <1>6
<1>8. first..last \subseteq minutes =>
        /\ {first, last} \subseteq minutes
        /\ ~ (first < Min(minutes)) /\ ~ (last > Max(minutes))
  <2>1. first \in first..last /\ last \in first..last
    OBVIOUS
  <2>2. minutes \subseteq Int
    BY <1>1
  <2> QED
    BY <1>2, <2>1, <2>2
<1>9. MaxWindow \in Nat /\ NoValue \notin CoverageReasons
  BY ExcursionAssumption
<1> HIDE DEF minutes
<1>10. /\ CoverageReason(bars, first, last) \in CoverageReasons \cup {NoValue}
       /\ CoverageReason(bars, first, last) = NoValue
            <=> /\ ~ (last - first > MaxWindow)
                /\ ~ (first < Min(minutes) \/ last > Max(minutes))
                /\ {first, last} \subseteq minutes
                /\ ~ (Cardinality(Window(bars, first, last)) < last - first + 1)
  BY <1>9 DEF CoverageReason, CoverageReasons, minutes
<1> QED
  BY <1>7, <1>8, <1>9, <1>10 DEF minutes

-----------------------------------------------------------------------------
(* Evidence computed over a covered window: its extremes are those of the  *)
(* bars, and its excursions do not contradict each other.                  *)
LEMMA EvidenceIsSound ==
    ASSUME NEW t \in Trade, NEW bars \in BarsOfSymbol,
           NEW first \in Int, NEW last \in Int, first <= last,
           first..last \subseteq DOMAIN bars
    PROVE  LET e == Evidence(t, bars, Window(bars, first, last)) IN
           /\ e.status = "COMPUTED"
           /\ ~ e.exit_outside_last_bar_range => ~ e.realised_outside_interval
<1> DEFINE window == Window(bars, first, last)
           highs == {bars[m].high : m \in window}
           lows == {bars[m].low : m \in window}
           high == Max(highs)
           low == Min(lows)
           end == Max(window)
<1>1. window = first..last /\ window # {} /\ window \subseteq Nat
      /\ \A m \in window : m <= LastMinute
  BY BarsTyped DEF Window
<1>2. \A m \in window : /\ bars[m].low \in 1..MaxPrice /\ bars[m].high \in 1..MaxPrice
                        /\ bars[m].low <= bars[m].high
  BY BarsTyped DEF Window
<1>3. MaxPrice \in Nat /\ LastMinute \in Nat
  BY ExcursionAssumption
<1>4. end \in window
  BY <1>1, <1>3, MaxIsGreatest
<1>5. high \in highs /\ \A h \in highs : h <= high
  <2>1. highs \in SUBSET Nat /\ highs # {} /\ \A h \in highs : h <= MaxPrice
    BY <1>1, <1>2, <1>3
  <2> HIDE DEF highs
  <2> QED
    BY <2>1, <1>3, MaxIsGreatest
<1>6. low \in lows /\ \A l \in lows : low <= l
  <2>1. lows \in SUBSET Nat /\ lows # {}
    BY <1>1, <1>2, <1>3
  <2> HIDE DEF lows
  <2> QED
    BY <2>1, MinIsLeast
<1>7. /\ high \in Int /\ low \in Int
      /\ low <= bars[end].low /\ bars[end].high <= high
      /\ bars[end].low \in Int /\ bars[end].high \in Int
      /\ bars[end].low <= bars[end].high
  BY <1>2, <1>3, <1>4, <1>5, <1>6
<1> HIDE DEF high, low, end, window
<1>8. t.entry \in Int /\ t.exit \in Int /\ t.side \in {"buy", "sell"}
  BY <1>3 DEF Trade
<1> DEFINE mfe == Favourable(t, high, low)
           mae == Adverse(t, high, low)
<1>9. /\ mfe \in Int /\ mae \in Int /\ mae <= 0 /\ 0 <= mfe
      /\ t.side = "buy" => mfe >= high - t.entry /\ mae <= low - t.entry
      /\ t.side = "sell" => mfe >= t.entry - low /\ mae <= t.entry - high
  BY <1>7, <1>8 DEF Favourable, Adverse, Larger, Smaller
<1>10. ~ outside_range(t.exit, bars[end])
         => ~ (Realised(t) < mae \/ Realised(t) > mfe)
  <2> HIDE DEF mfe, mae
  <2> SUFFICES ASSUME ~ outside_range(t.exit, bars[end])
               PROVE  mae <= Realised(t) /\ Realised(t) <= mfe /\ Realised(t) \in Int
    BY <1>9
  <2>1. low <= t.exit /\ t.exit <= high
    BY <1>7, <1>8 DEF outside_range
  <2> QED
    BY <1>7, <1>8, <1>9, <2>1 DEF Realised
<1>11. ~ (high < low \/ mfe < 0 \/ mae > 0)
  BY <1>7, <1>9
<1>12. /\ Evidence(t, bars, window).status = "COMPUTED"
       /\ Evidence(t, bars, window).exit_outside_last_bar_range
            = outside_range(t.exit, bars[end])
       /\ Evidence(t, bars, window).realised_outside_interval
            = (Realised(t) < mae \/ Realised(t) > mfe)
  BY <1>11 DEF Evidence, high, low, end
<1> QED
  BY <1>10, <1>12 DEF window

-----------------------------------------------------------------------------
(* floor_minute_utc keeps the order of instants.                           *)
LEMMA FloorsAreOrdered ==
    ASSUME NEW o \in Int, NEW c \in Int, o <= c
    PROVE  /\ floor_minute_utc(o) \in Int /\ floor_minute_utc(c) \in Int
           /\ floor_minute_utc(o) <= floor_minute_utc(c)
  BY ExcursionAssumption DEF floor_minute_utc

(* What a trade with two instants needs to be given evidence.              *)
Covered(t, o, c, bars_by_symbol) ==
    /\ o <= c
    /\ t.duration # NoValue => c - o - t.duration \in (-Tolerance)..Tolerance
    /\ t.symbol \in DOMAIN bars_by_symbol
    /\ Minutes(o, c) \subseteq DOMAIN bars_by_symbol[t.symbol]
    /\ (c \div Minute) - (o \div Minute) <= MaxWindow

LEMMA TimedTrade ==
    ASSUME NEW t \in Trade, NEW o \in Int, NEW c \in Int, NEW bs, IsMarket(bs)
    PROVE  LET e == ComputeTimed(t, o, c, bs) IN
           /\ e.status = "COMPUTED" <=> Covered(t, o, c, bs)
           /\ e.status = "COMPUTED" /\ ~ e.exit_outside_last_bar_range
                => ~ e.realised_outside_interval
<1> DEFINE e == ComputeTimed(t, o, c, bs)
           first == floor_minute_utc(o)
           last == floor_minute_utc(c)
           bars == bs[t.symbol]
           deviation == c - o - t.duration
<1>1. CASE c < o
  BY <1>1 DEF ComputeTimed, Failed, Covered
<1>2. CASE ~ (c < o) /\ t.duration # NoValue /\ Larger(deviation, -deviation) > Tolerance
  <2>1. t.duration \in Nat /\ Tolerance \in Nat
    BY <1>2, ExcursionAssumption DEF Trade
  <2>2. ~ Covered(t, o, c, bs)
    BY <1>2, <2>1 DEF Covered, Larger
  <2>3. e = Failed("TIME_BASIS_INCONSISTENT", "DURATION_MISMATCH")
    BY <1>2 DEF ComputeTimed
  <2> QED
    BY <2>2, <2>3 DEF Failed
<1>3. CASE /\ o <= c
           /\ ~ (t.duration # NoValue /\ Larger(deviation, -deviation) > Tolerance)
  <2>1. t.duration # NoValue => deviation \in (-Tolerance)..Tolerance
    <3>1. t.duration # NoValue => t.duration \in Nat
      BY DEF Trade
    <3> QED
      BY <1>3, <3>1, ExcursionAssumption DEF Larger
  <2>2. CASE t.symbol \notin DOMAIN bs
    BY <1>3, <2>2 DEF ComputeTimed, Failed, Covered
  <2>3. CASE t.symbol \in DOMAIN bs
    <3>1. bars \in BarsOfSymbol
      BY <2>3 DEF IsMarket
    <3>2. first \in Int /\ last \in Int /\ first <= last
      BY <1>3, FloorsAreOrdered
    <3>3. Minutes(o, c) = first..last
      BY <1>3 DEF Minutes, floor_minute_utc
    <3>4. Covered(t, o, c, bs)
            <=> last - first <= MaxWindow /\ first..last \subseteq DOMAIN bars
      BY <1>3, <2>1, <2>3, <3>3 DEF Covered, floor_minute_utc
    <3>5. e = IF CoverageReason(bars, first, last) # NoValue
              THEN Failed("INCOMPLETE_COVERAGE", CoverageReason(bars, first, last))
              ELSE Evidence(t, bars, Window(bars, first, last))
      BY <1>3, <2>3 DEF ComputeTimed
    <3>6. CoverageReason(bars, first, last) = NoValue <=> Covered(t, o, c, bs)
      BY <3>1, <3>2, <3>4, CountTellsCoverage
    <3> HIDE DEF e, first, last, bars
    <3>7. CASE Covered(t, o, c, bs)
      BY <3>1, <3>2, <3>4, <3>5, <3>6, <3>7, EvidenceIsSound DEF e
    <3>8. CASE ~ Covered(t, o, c, bs)
      BY <3>5, <3>6, <3>8 DEF Failed, e
    <3> QED
      BY <3>7, <3>8
  <2> QED
    BY <2>2, <2>3
<1> QED
  BY <1>1, <1>2, <1>3

LEMMA TradeVerdict ==
    ASSUME NEW t \in Trade, basis \in TimeBases, IsMarket(market)
    PROVE  LET e == compute_trade(t, basis, market) IN
           /\ e.status = "COMPUTED" <=> Computable(t)
           /\ e.status = "COMPUTED" /\ ~ e.exit_outside_last_bar_range
                => ~ e.realised_outside_interval
<1> DEFINE e == compute_trade(t, basis, market)
           open == normalise_journal_datetime(t.open, basis)
           close == normalise_journal_datetime(t.close, basis)
<1>1. t.open \in Int /\ t.close \in Int
  BY DEF Trade
<1>2. /\ open.status \in {"VALID", "AMBIGUOUS", "NONEXISTENT"}
      /\ open.status = "VALID" => open.utc \in Int /\ Instants(basis, t.open) = {open.utc}
      /\ \A u : Instants(basis, t.open) = {u} => open.status = "VALID"
  BY <1>1, ValidIffOneInstant
<1>3. /\ close.status \in {"VALID", "AMBIGUOUS", "NONEXISTENT"}
      /\ close.status = "VALID" => close.utc \in Int /\ Instants(basis, t.close) = {close.utc}
      /\ \A u : Instants(basis, t.close) = {u} => close.status = "VALID"
  BY <1>1, ValidIffOneInstant
<1>4. CASE t.defect # NoValue
  BY <1>4 DEF compute_trade, Failed, Computable
<1>5. CASE t.defect = NoValue /\ ~ (open.status = "VALID" /\ close.status = "VALID")
  <2>1. e.status # "COMPUTED"
    BY <1>5 DEF compute_trade, FailedLeg, Failed
  <2>2. ~ Computable(t)
    BY <1>2, <1>3, <1>5 DEF Computable
  <2> QED
    BY <2>1, <2>2
<1>6. CASE t.defect = NoValue /\ open.status = "VALID" /\ close.status = "VALID"
  <2>1. e = ComputeTimed(t, open.utc, close.utc, market)
    BY <1>6 DEF compute_trade
  <2>2. Computable(t) <=> Covered(t, open.utc, close.utc, market)
    <3> HIDE DEF open, close
    <3> QED
      BY <1>2, <1>3, <1>6 DEF Computable, Covered
  <2>3. open.utc \in Int /\ close.utc \in Int
    BY <1>2, <1>3, <1>6
  <2> HIDE DEF open, close, e
  <2> QED
    BY <2>1, <2>2, <2>3, TimedTrade DEF e
<1> QED
  BY <1>4, <1>5, <1>6

(* The rows done have the verdicts of the lemmas above.                    *)
LEMMA DoneRows ==
    ASSUME IInv, NEW i \in Done
    PROVE  /\ journal[i] \in Trade /\ basis \in TimeBases /\ IsMarket(market)
           /\ Reported(journal[i]) = compute_trade(journal[i], basis, market)
<1>1. /\ journal \in Seq(Trade) /\ next \in 1..(Len(journal) + 1) /\ IsMarket(market)
      /\ basis \in TimeBases \cup {NoValue}
  BY DEF IInv, TypeOK
<1>2. i \in 1..Len(journal) /\ next # 1
  BY <1>1 DEF Done
<1>3. basis # NoValue
  BY <1>2 DEF IInv, RunFollowsChecks
<1> QED
  BY <1>1, <1>2, <1>3 DEF IInv, VerdictsAreComputed, Reported

(* Evidence is computed for exactly the trades whose times are one instant *)
(* each and whose every minute has a bar: for every zone with one change of  *)
(* its offset, every file of bars, window limit and tolerance.             *)
THEOREM ComputedExactly == Spec => []ComputedIffComputable
<1>1. IInv => ComputedIffComputable
  BY DoneRows, TradeVerdict DEF ComputedIffComputable
<1> QED
  BY Inductive, <1>1, PTL

(* An exit inside its bar is never flagged as outside the excursions.      *)
THEOREM ExitInsideConsistent == Spec => []ExitInsideIsWithinExcursions
<1>1. IInv => ExitInsideIsWithinExcursions
  BY DoneRows, TradeVerdict DEF ExitInsideIsWithinExcursions
<1> QED
  BY Inductive, <1>1, PTL

-----------------------------------------------------------------------------
LEMMA IntervalEnds ==
    ASSUME NEW first \in Int, NEW last \in Int, first <= last
    PROVE  Min(first..last) = first /\ Max(first..last) = last
<1> DEFINE window == first..last
<1>1. /\ first \in window /\ \A m \in window : first <= m
      /\ last \in window /\ \A m \in window : m <= last
      /\ window \subseteq Int
  OBVIOUS
<1> HIDE DEF window
<1>2. /\ Min(window) \in window /\ \A m \in window : Min(window) <= m
      /\ Max(window) \in window /\ \A m \in window : m <= Max(window)
  BY <1>1 DEF Min, Max
<1>3. Min(window) = first /\ Max(window) = last
  <2>1. Min(window) \in Int /\ Max(window) \in Int
    BY <1>1, <1>2
  <2>2. Min(window) <= first /\ first <= Min(window) /\ Max(window) <= last /\ last <= Max(window)
    BY <1>1, <1>2
  <2> QED
    BY <2>1, <2>2
<1> QED
  BY <1>3 DEF window

(* The extremes of a covered window, and the bars they come from.          *)
LEMMA WindowExtremes ==
    ASSUME NEW bars \in BarsOfSymbol, NEW window, window # {}, window \subseteq DOMAIN bars
    PROVE  LET high == Max({bars[m].high : m \in window})
               low == Min({bars[m].low : m \in window}) IN
           /\ window \in SUBSET Nat /\ Min(window) \in window /\ Max(window) \in window
           /\ high \in 1..MaxPrice /\ low \in 1..MaxPrice
           /\ \E m \in window : bars[m].high = high
           /\ \E m \in window : bars[m].low = low
           /\ \A m \in window : /\ bars[m].low \in 1..MaxPrice /\ bars[m].high \in 1..MaxPrice
                                 /\ low <= bars[m].low /\ bars[m].low <= bars[m].high
                                 /\ bars[m].high <= high
<1> DEFINE highs == {bars[m].high : m \in window}
           lows == {bars[m].low : m \in window}
<1>1. MaxPrice \in Nat /\ LastMinute \in Nat
  BY ExcursionAssumption
<1>2. \A m \in window : /\ bars[m].low \in 1..MaxPrice /\ bars[m].high \in 1..MaxPrice
                        /\ bars[m].low <= bars[m].high
  BY BarsTyped
<1>3. /\ window \in SUBSET Nat /\ \A m \in window : m <= LastMinute
  BY <1>1, BarsTyped
<1>4. Min(window) \in window /\ Max(window) \in window
  BY <1>1, <1>3, MinIsLeast, MaxIsGreatest
<1>5. Max(highs) \in highs /\ \A h \in highs : h <= Max(highs)
  <2>1. highs \in SUBSET Nat /\ highs # {} /\ \A h \in highs : h <= MaxPrice
    BY <1>1, <1>2
  <2> HIDE DEF highs
  <2> QED
    BY <1>1, <2>1, MaxIsGreatest
<1>6. Min(lows) \in lows /\ \A l \in lows : Min(lows) <= l
  <2>1. lows \in SUBSET Nat /\ lows # {}
    BY <1>1, <1>2
  <2> HIDE DEF lows
  <2> QED
    BY <2>1, MinIsLeast
<1> DEFINE high == Max(highs)
           low == Min(lows)
<1>7. /\ \E m \in window : bars[m].high = high
      /\ \E m \in window : bars[m].low = low
      /\ \A m \in window : low <= bars[m].low /\ bars[m].high <= high
  <2> HIDE DEF high, low
  <2>1. high \in highs /\ low \in lows
        /\ (\A h \in highs : h <= high) /\ (\A l \in lows : low <= l)
    BY <1>5, <1>6 DEF high, low
  <2> QED
    BY <2>1
<1> HIDE DEF high, low
<1>8. high \in 1..MaxPrice /\ low \in 1..MaxPrice
  BY <1>2, <1>7
<1> QED
  BY <1>2, <1>3, <1>4, <1>7, <1>8 DEF high, low

(* The excursions and the flags of the evidence, in terms of its bars.     *)
LEMMA EvidenceTells ==
    ASSUME NEW t \in Trade, NEW bars \in BarsOfSymbol,
           NEW window, window # {}, window \subseteq DOMAIN bars
    PROVE  LET e == Evidence(t, bars, window)
               w == [m \in window |-> bars[m]]
               gains == Gains(t, w)
               boundaries == {Min(window), Max(window)} IN
           e.status = "COMPUTED" =>
             /\ e.mfe \in gains \cup {0} /\ e.mae \in gains \cup {0}
             /\ \A g \in gains \cup {0} : e.mae <= g /\ g <= e.mfe
             /\ ~ e.high_from_boundary_bar =>
                   \A m \in boundaries : \E n \in window : w[n].high > w[m].high
             /\ ~ e.low_from_boundary_bar =>
                   \A m \in boundaries : \E n \in window : w[n].low < w[m].low
<1> DEFINE e == Evidence(t, bars, window)
           w == [m \in window |-> bars[m]]
           gains == Gains(t, w)
           high == Max({bars[m].high : m \in window})
           low == Min({bars[m].low : m \in window})
           first == Min(window)
           last == Max(window)
           mfe == Favourable(t, high, low)
           mae == Adverse(t, high, low)
<1> SUFFICES ASSUME e.status = "COMPUTED"
             PROVE  /\ e.mfe \in gains \cup {0} /\ e.mae \in gains \cup {0}
                    /\ \A g \in gains \cup {0} : e.mae <= g /\ g <= e.mfe
                    /\ ~ e.high_from_boundary_bar =>
                          \A m \in {first, last} : \E n \in window : w[n].high > w[m].high
                    /\ ~ e.low_from_boundary_bar =>
                          \A m \in {first, last} : \E n \in window : w[n].low < w[m].low
  OBVIOUS
<1>1. /\ first \in window /\ last \in window
      /\ high \in 1..MaxPrice /\ low \in 1..MaxPrice
      /\ \E m \in window : bars[m].high = high
      /\ \E m \in window : bars[m].low = low
      /\ \A m \in window : /\ bars[m].low \in 1..MaxPrice /\ bars[m].high \in 1..MaxPrice
                            /\ low <= bars[m].low /\ bars[m].low <= bars[m].high
                            /\ bars[m].high <= high
  BY WindowExtremes
<1>2. /\ e.mfe = mfe /\ e.mae = mae
      /\ e.high_from_boundary_bar = (high \in {bars[first].high, bars[last].high})
      /\ e.low_from_boundary_bar = (low \in {bars[first].low, bars[last].low})
  BY DEF Evidence, Failed, FromBoundaryBar
<1> HIDE DEF e, high, low, first, last
<1>3. t.entry \in Int /\ t.side \in {"buy", "sell"} /\ MaxPrice \in Nat
  BY ExcursionAssumption DEF Trade
<1>4. gains = UNION {{GainAt(t, bars[m].high), GainAt(t, bars[m].low)} : m \in window}
  BY DEF Gains
<1>5. GainAt(t, high) \in gains /\ GainAt(t, low) \in gains
  <2>1. \A m \in window : GainAt(t, bars[m].high) \in gains /\ GainAt(t, bars[m].low) \in gains
    BY <1>4
  <2> HIDE DEF gains
  <2> QED
    BY <1>1, <2>1
<1>6. \A g \in gains : \E p \in low..high : g = GainAt(t, p)
  <2> SUFFICES ASSUME NEW m \in window
               PROVE  /\ bars[m].high \in low..high
                      /\ bars[m].low \in low..high
    BY <1>4
  <2> QED
    BY <1>1
<1>7. mfe \in gains \cup {0} /\ mae \in gains \cup {0}
  <2> HIDE DEF gains
  <2> QED
    BY <1>1, <1>3, <1>5 DEF Favourable, Adverse, Larger, Smaller, GainAt
<1>8. \A g \in gains \cup {0} : mae <= g /\ g <= mfe
  <2> HIDE DEF gains
  <2>1. mae <= 0 /\ 0 <= mfe /\ \A p \in low..high : mae <= GainAt(t, p) /\ GainAt(t, p) <= mfe
    BY <1>1, <1>3 DEF Favourable, Adverse, Larger, Smaller, GainAt
  <2> QED
    BY <1>6, <2>1
<1>9. ~ e.high_from_boundary_bar =>
         \A m \in {first, last} : \E n \in window : bars[n].high > bars[m].high
  <2> SUFFICES ASSUME ~ e.high_from_boundary_bar, NEW m \in {first, last}
               PROVE  \E n \in window : bars[n].high > bars[m].high
    OBVIOUS
  <2>1. high # bars[m].high
    BY <1>2
  <2>2. m \in window
    BY <1>1
  <2>3. bars[m].high \in Int /\ bars[m].high <= high /\ high \in Int
    BY <1>1, <1>3, <2>2
  <2> QED
    BY <1>1, <2>1, <2>3
<1>10. ~ e.low_from_boundary_bar =>
         \A m \in {first, last} : \E n \in window : bars[n].low < bars[m].low
  <2> SUFFICES ASSUME ~ e.low_from_boundary_bar, NEW m \in {first, last}
               PROVE  \E n \in window : bars[n].low < bars[m].low
    OBVIOUS
  <2>1. low # bars[m].low
    BY <1>2
  <2>2. m \in window
    BY <1>1
  <2>3. bars[m].low \in Int /\ low <= bars[m].low /\ low \in Int
    BY <1>1, <1>3, <2>2
  <2> QED
    BY <1>1, <2>1, <2>3
<1> HIDE DEF gains, mfe, mae
<1> QED
  BY <1>1, <1>2, <1>7, <1>8, <1>9, <1>10

(* A computed trade has the evidence of the minutes it touches.            *)
LEMMA ComputedIsEvidence ==
    ASSUME NEW t \in Trade, basis \in TimeBases, IsMarket(market),
           compute_trade(t, basis, market).status = "COMPUTED"
    PROVE  \E window :
             /\ market[t.symbol] \in BarsOfSymbol
             /\ window # {} /\ window \subseteq DOMAIN market[t.symbol]
             /\ WindowOf(t) = [m \in window |-> market[t.symbol][m]]
             /\ compute_trade(t, basis, market) = Evidence(t, market[t.symbol], window)
<1> DEFINE open == normalise_journal_datetime(t.open, basis)
           close == normalise_journal_datetime(t.close, basis)
           bars == market[t.symbol]
           o == open.utc
           c == close.utc
           first == floor_minute_utc(o)
           last == floor_minute_utc(c)
<1>1. t.open \in Int /\ t.close \in Int
  BY DEF Trade
<1>2. t.defect = NoValue /\ open.status = "VALID" /\ close.status = "VALID"
  BY DEF compute_trade, Failed, FailedLeg
<1>3. /\ o \in Int /\ Instants(basis, t.open) = {o}
      /\ c \in Int /\ Instants(basis, t.close) = {c}
  BY <1>1, <1>2, ValidIffOneInstant
<1>4. compute_trade(t, basis, market) = ComputeTimed(t, o, c, market)
  BY <1>2 DEF compute_trade
<1> HIDE DEF open, close, o, c
<1>5. Covered(t, o, c, market)
  BY <1>3, <1>4, TimedTrade
<1>6. ComputeTimed(t, o, c, market) = Evidence(t, bars, Window(bars, first, last))
  <2>1. o <= c /\ t.symbol \in DOMAIN market
    BY <1>5 DEF Covered
  <2> QED
    BY <1>3, <1>4, <2>1 DEF ComputeTimed, Failed
<1>7. bars \in BarsOfSymbol /\ first \in Int /\ last \in Int /\ first <= last
      /\ Minutes(o, c) = first..last /\ first..last \subseteq DOMAIN bars
  <2>1. bars \in BarsOfSymbol
    BY <1>5 DEF Covered, IsMarket
  <2>2. first \in Int /\ last \in Int /\ first <= last
    BY <1>3, <1>5, FloorsAreOrdered DEF Covered
  <2>3. Minutes(o, c) = first..last
    BY <1>5 DEF Minutes, floor_minute_utc, Covered
  <2> QED
    BY <1>5, <2>1, <2>2, <2>3 DEF Covered
<1> HIDE DEF bars, first, last
<1>8. Window(bars, first, last) = first..last
  BY <1>7, BarsTyped DEF Window
<1>9. WindowOf(t) = [m \in first..last |-> bars[m]]
  BY <1>3, <1>7 DEF WindowOf, bars
<1>10. first..last # {}
  <2>1. first \in Int /\ last \in Int /\ first <= last
    BY <1>7
  <2>2. first \in first..last
    BY <2>1
  <2> QED
    BY <2>2
<1> QED
  BY <1>4, <1>6, <1>7, <1>8, <1>9, <1>10 DEF bars

(* The excursions are the extreme gains over the minutes of the trade.     *)
THEOREM ExcursionsExtreme == Spec => []ExcursionsAreExtremes
<1>1. ASSUME IInv, NEW i \in Done, Reported(journal[i]).status = "COMPUTED"
      PROVE  LET r == Reported(journal[i])
                 gains == Gains(journal[i], WindowOf(journal[i])) IN
             /\ r.mfe \in gains \cup {0} /\ r.mae \in gains \cup {0}
             /\ \A g \in gains \cup {0} : r.mae <= g /\ g <= r.mfe
  BY <1>1, DoneRows, ComputedIsEvidence, EvidenceTells
<1>2. IInv => ExcursionsAreExtremes
  BY <1>1 DEF ExcursionsAreExtremes
<1> QED
  BY Inductive, <1>2, PTL

(* An extreme that is not flagged was reached inside the trade.            *)
THEOREM UnflaggedInside == Spec => []UnflaggedExtremesAreInside
<1>1. ASSUME IInv, NEW i \in Done, Reported(journal[i]).status = "COMPUTED"
      PROVE  LET r == Reported(journal[i])
                 bars == WindowOf(journal[i])
                 boundaries == {Min(DOMAIN bars), Max(DOMAIN bars)} IN
             /\ ~ r.high_from_boundary_bar =>
                   \A m \in boundaries : \E n \in DOMAIN bars : bars[n].high > bars[m].high
             /\ ~ r.low_from_boundary_bar =>
                   \A m \in boundaries : \E n \in DOMAIN bars : bars[n].low < bars[m].low
  BY <1>1, DoneRows, ComputedIsEvidence, EvidenceTells
<1>2. IInv => UnflaggedExtremesAreInside
  BY <1>1 DEF UnflaggedExtremesAreInside
<1> QED
  BY Inductive, <1>2, PTL

-----------------------------------------------------------------------------
LEMMA PairCounts ==
    ASSUME NEW a, NEW b, a # b
    PROVE  Cardinality({a, b}) = 2
<1>1. IsFiniteSet({a}) /\ Cardinality({a}) = 1
  BY FS_Singleton
<1>2. Cardinality({a} \cup {b}) = 2
  BY <1>1, FS_AddElement
<1>3. {a} \cup {b} = {a, b}
  OBVIOUS
<1> QED
  BY <1>2, <1>3

(* A time that is not valid was shown twice or never.                      *)
LEMMA InvalidTellsWhy ==
    ASSUME NEW b \in TimeBases, NEW w \in Int
    PROVE  LET n == normalise_journal_datetime(w, b) IN
           /\ n.status = "AMBIGUOUS" => Cardinality(Instants(b, w)) = 2
           /\ n.status = "NONEXISTENT" => Instants(b, w) = {}
<1>1. b.kind \in {"UTC", "FIXED_OFFSET", "IANA"} /\ b.offset \in Int /\ b.zone \in Zones
  BY DEF TimeBases
<1>2. CASE b.kind # "IANA"
  BY <1>1, <1>2 DEF normalise_journal_datetime, Valid
<1>3. CASE b.kind = "IANA"
  <2>1. Instants(b, w) = iana_utc_mappings(b.zone, w)
    BY <1>1, <1>3, FoldsFindInstants DEF Instants, Offsets, Shows
  <2>2. Instants(b, w) \subseteq {w - b.zone.before, w - b.zone.after}
    BY <1>1, <1>3 DEF Instants, Offsets
  <2>3. normalise_journal_datetime(w, b) = NormaliseIana(b.zone, w)
    BY <1>3 DEF normalise_journal_datetime
  <2>4. normalise_journal_datetime(w, b).status = "NONEXISTENT" => Instants(b, w) = {}
    BY <2>1, <2>3 DEF NormaliseIana, Valid, Undetermined
  <2>5. ASSUME normalise_journal_datetime(w, b).status = "AMBIGUOUS"
        PROVE  \E u, v : u # v /\ Instants(b, w) = {u, v}
    <3>1. Instants(b, w) # {} /\ \A u : Instants(b, w) # {u}
      BY <2>1, <2>3, <2>5 DEF NormaliseIana, Valid, Undetermined
    <3> DEFINE u == w - b.zone.before
               v == w - b.zone.after
    <3>2. Instants(b, w) \subseteq {u, v} /\ Instants(b, w) # {u} /\ Instants(b, w) # {v}
      BY <2>2, <3>1
    <3> HIDE DEF u, v
    <3>3. u \in Instants(b, w) /\ v \in Instants(b, w)
      BY <3>1, <3>2
    <3>4. u # v /\ Instants(b, w) = {u, v}
      BY <3>2, <3>3
    <3> QED
      BY <3>4
  <2> QED
    BY <2>4, <2>5, PairCounts
<1> QED
  BY <1>2, <1>3

(* The reason for which a window is not covered is true of the bars.       *)
LEMMA CoverageTellsWhy ==
    ASSUME NEW bars \in BarsOfSymbol, NEW first \in Int, NEW last \in Int, first <= last,
           CoverageReason(bars, first, last) # NoValue
    PROVE  ReasonHolds(CoverageReason(bars, first, last), bars, first..last)
<1> DEFINE minutes == DOMAIN bars
           window == first..last
           reason == CoverageReason(bars, first, last)
<1>1. minutes \in SUBSET Nat /\ minutes # {} /\ \A m \in minutes : m <= LastMinute
  BY BarsTyped, ExcursionAssumption
<1>1a. \A m \in minutes : m \in Int
  BY <1>1
<1>2. /\ Min(minutes) \in minutes /\ \A m \in minutes : Min(minutes) <= m
      /\ Max(minutes) \in minutes /\ \A m \in minutes : m <= Max(minutes)
  BY <1>1, MinIsLeast, MaxIsGreatest, ExcursionAssumption
<1>3. IsFiniteSet(window) /\ Cardinality(window) = last - first + 1
  BY FS_Interval
<1>4. Min(window) = first /\ Max(window) = last
  BY IntervalEnds
<1>5. first \in window /\ last \in window /\ MaxWindow \in Nat
  BY ExcursionAssumption
<1>6. Window(bars, first, last) = window \cap minutes
  BY <1>1 DEF Window
<1> HIDE DEF minutes
<1>7. CASE last - first > MaxWindow
  <2>1. reason = "WINDOW_EXCEEDS_LIMIT"
    BY <1>7 DEF CoverageReason
  <2>2. Cardinality(window) > MaxWindow + 1
    BY <1>3, <1>5, <1>7
  <2> HIDE DEF reason, window
  <2> QED
    BY <2>1, <2>2 DEF ReasonHolds, reason, window
<1>8. CASE ~ (last - first > MaxWindow) /\ (first < Min(minutes) \/ last > Max(minutes))
  <2>1. reason = "OUTSIDE_FILE_RANGE"
    BY <1>8 DEF CoverageReason, minutes
  <2>2. (\A m \in minutes : m > first) \/ (\A m \in minutes : m < last)
    <3>1. Min(minutes) \in Int /\ Max(minutes) \in Int /\ \A m \in minutes : m \in Int
      BY <1>1a, <1>2
    <3>2. first < Min(minutes) => \A m \in minutes : m > first
      BY <1>2, <3>1
    <3>3. last > Max(minutes) => \A m \in minutes : m < last
      BY <1>2, <3>1
    <3> QED
      BY <1>8, <3>2, <3>3
  <2> HIDE DEF reason, window
  <2>3. \E e \in {Min(window), Max(window)} : (\A m \in minutes : m > e) \/ (\A m \in minutes : m < e)
    BY <1>4, <2>2
  <2> QED
    BY <2>1, <2>3 DEF ReasonHolds, reason, window, minutes
<1>9. CASE /\ ~ (last - first > MaxWindow)
           /\ ~ (first < Min(minutes) \/ last > Max(minutes))
           /\ ~ {first, last} \subseteq minutes
  <2>1. reason = "BOUNDARY_BAR_MISSING"
    BY <1>9 DEF CoverageReason, minutes
  <2>2. Min(minutes) \in Int /\ Max(minutes) \in Int /\ Min(minutes) <= first /\ last <= Max(minutes)
        /\ Min(minutes) <= last /\ first <= Max(minutes)
    <3>1. Min(minutes) \in Int /\ Max(minutes) \in Int
      BY <1>1a, <1>2
    <3> QED
      BY <1>9, <3>1
  <2> HIDE DEF reason, window
  <2>3. \A e \in {Min(window), Max(window)} : (\E m \in minutes : m <= e) /\ (\E m \in minutes : m >= e)
    BY <1>2, <1>4, <2>2
  <2> QED
    BY <1>4, <1>9, <2>1, <2>3 DEF ReasonHolds, reason, window, minutes
<1>10. CASE /\ ~ (last - first > MaxWindow)
            /\ ~ (first < Min(minutes) \/ last > Max(minutes))
            /\ {first, last} \subseteq minutes
  <2>1. Cardinality(Window(bars, first, last)) < last - first + 1
        /\ reason = "INTERIOR_GAP"
    BY <1>10 DEF CoverageReason, minutes
  <2>2. ~ window \subseteq minutes
    <3>1. window \subseteq minutes => Window(bars, first, last) = window
      BY <1>6
    <3>2. Cardinality(Window(bars, first, last)) # Cardinality(window)
      <4> DEFINE n == Cardinality(Window(bars, first, last))
      <4>1. n < last - first + 1
        BY <2>1
      <4> HIDE DEF n
      <4>2. n # last - first + 1
        BY <4>1
      <4> QED
        BY <1>3, <4>2 DEF n
    <3> QED
      BY <3>1, <3>2
  <2> HIDE DEF reason, window
  <2>3. \E m \in window \ {Min(window), Max(window)} : m \notin minutes
    BY <1>4, <1>10, <2>2
  <2> QED
    BY <1>4, <1>10, <2>1, <2>3 DEF ReasonHolds, reason, window, minutes
<1> QED
  BY <1>7, <1>8, <1>9, <1>10

LEMMA TimedTellsWhy ==
    ASSUME NEW t \in Trade, NEW o \in Int, NEW c \in Int, basis \in TimeBases,
           IsMarket(market), t.defect = NoValue,
           Instants(basis, t.open) = {o}, Instants(basis, t.close) = {c}
    PROVE  TellsWhy(t, ComputeTimed(t, o, c, market))
<1> DEFINE e == ComputeTimed(t, o, c, market)
           first == floor_minute_utc(o)
           last == floor_minute_utc(c)
           bars == market[t.symbol]
           deviation == c - o - t.duration
<1>1. CASE c < o
  <2>1. e = Failed("INVALID_TRADE_DATA", "CLOSE_BEFORE_OPEN")
    BY <1>1 DEF ComputeTimed
  <2> QED
    BY <2>1 DEF Failed, TellsWhy
<1>2. CASE ~ (c < o) /\ t.duration # NoValue /\ Larger(deviation, -deviation) > Tolerance
  <2>1. e = Failed("TIME_BASIS_INCONSISTENT", "DURATION_MISMATCH")
    BY <1>2 DEF ComputeTimed
  <2> QED
    BY <1>2, <2>1 DEF Failed, TellsWhy
<1>3. CASE /\ ~ (c < o)
           /\ ~ (t.duration # NoValue /\ Larger(deviation, -deviation) > Tolerance)
           /\ t.symbol \notin DOMAIN market
  <2>1. e = Failed("NO_MARKET_DATA", "NO_MARKET_DATA")
    BY <1>3 DEF ComputeTimed
  <2> QED
    BY <1>3, <2>1 DEF Failed, TellsWhy
<1>4. CASE /\ o <= c
           /\ ~ (t.duration # NoValue /\ Larger(deviation, -deviation) > Tolerance)
           /\ t.symbol \in DOMAIN market
  <2>1. /\ bars \in BarsOfSymbol /\ first \in Int /\ last \in Int /\ first <= last
        /\ Minutes(o, c) = first..last
    <3>1. bars \in BarsOfSymbol
      BY <1>4 DEF IsMarket
    <3>2. first \in Int /\ last \in Int /\ first <= last
      BY <1>4, FloorsAreOrdered
    <3>3. Minutes(o, c) = first..last
      BY <1>4 DEF Minutes, floor_minute_utc
    <3> QED
      BY <3>1, <3>2, <3>3
  <2>2. e = IF CoverageReason(bars, first, last) # NoValue
            THEN Failed("INCOMPLETE_COVERAGE", CoverageReason(bars, first, last))
            ELSE Evidence(t, bars, Window(bars, first, last))
    BY <1>4 DEF ComputeTimed
  <2> HIDE DEF e, first, last
  <2>3. CASE CoverageReason(bars, first, last) # NoValue
    <3>1. ReasonHolds(CoverageReason(bars, first, last), bars, Minutes(o, c))
      <4> HIDE DEF bars
      <4> QED
        BY <2>1, <2>3, CoverageTellsWhy
    <3>2. e.status = "INCOMPLETE_COVERAGE" /\ e.reason = CoverageReason(bars, first, last)
      BY <2>2, <2>3 DEF Failed
    <3>3. TellsWhy(t, e)
      BY <3>1, <3>2 DEF TellsWhy
    <3> QED
      BY <3>3 DEF e
  <2>4. CASE CoverageReason(bars, first, last) = NoValue
    <3>1. first..last \subseteq DOMAIN bars
      <4> HIDE DEF bars
      <4> QED
        BY <2>1, <2>4, CountTellsCoverage
    <3>2. e.status = "COMPUTED"
      <4> HIDE DEF bars
      <4> QED
        BY <2>1, <2>2, <2>4, <3>1, EvidenceIsSound
    <3>3. TellsWhy(t, e)
      BY <3>2 DEF TellsWhy
    <3> QED
      BY <3>3 DEF e
  <2> QED
    BY <2>3, <2>4
<1> QED
  BY <1>1, <1>2, <1>3, <1>4

LEMMA TradeTellsWhy ==
    ASSUME NEW t \in Trade, basis \in TimeBases, IsMarket(market)
    PROVE  TellsWhy(t, compute_trade(t, basis, market))
<1> DEFINE open == normalise_journal_datetime(t.open, basis)
           close == normalise_journal_datetime(t.close, basis)
<1>1. t.open \in Int /\ t.close \in Int
  BY DEF Trade
<1>2. /\ open.status \in {"VALID", "AMBIGUOUS", "NONEXISTENT"}
      /\ open.status = "VALID" => open.utc \in Int /\ Instants(basis, t.open) = {open.utc}
      /\ open.status = "AMBIGUOUS" => Cardinality(Instants(basis, t.open)) = 2
      /\ open.status = "NONEXISTENT" => Instants(basis, t.open) = {}
  BY <1>1, ValidIffOneInstant, InvalidTellsWhy
<1>3. /\ close.status \in {"VALID", "AMBIGUOUS", "NONEXISTENT"}
      /\ close.status = "VALID" => close.utc \in Int /\ Instants(basis, t.close) = {close.utc}
      /\ close.status = "AMBIGUOUS" => Cardinality(Instants(basis, t.close)) = 2
      /\ close.status = "NONEXISTENT" => Instants(basis, t.close) = {}
  BY <1>1, ValidIffOneInstant, InvalidTellsWhy
<1>4. compute_trade(t, basis, market) =
        IF t.defect # NoValue THEN Failed("INVALID_TRADE_DATA", t.defect)
        ELSE IF open.status # "VALID" THEN Failed("TIMEZONE_AMBIGUOUS", open.status)
        ELSE IF close.status # "VALID" THEN Failed("TIMEZONE_AMBIGUOUS", close.status)
        ELSE ComputeTimed(t, open.utc, close.utc, market)
  BY DEF compute_trade, FailedLeg
<1> HIDE DEF open, close
<1>5. CASE t.defect # NoValue
  BY <1>4, <1>5 DEF Failed, TellsWhy
<1>6. CASE t.defect = NoValue /\ open.status # "VALID"
  BY <1>2, <1>4, <1>6 DEF Failed, TellsWhy
<1>7. CASE t.defect = NoValue /\ open.status = "VALID" /\ close.status # "VALID"
  BY <1>3, <1>4, <1>7 DEF Failed, TellsWhy
<1>8. CASE t.defect = NoValue /\ open.status = "VALID" /\ close.status = "VALID"
  BY <1>2, <1>3, <1>4, <1>8, TimedTellsWhy
<1> QED
  BY <1>5, <1>6, <1>7, <1>8

(* A trade without evidence has a reason that is true of it, for every zone  *)
(* with one change of its offset, file of bars, window limit and tolerance.  *)
THEOREM RefusalsTellWhy == Spec => []RefusalTellsWhy
<1>1. IInv => RefusalTellsWhy
  BY DoneRows, TradeTellsWhy DEF RefusalTellsWhy
<1> QED
  BY Inductive, <1>1, PTL

(* The flags of an evidence may be read as they are meant.                 *)
THEOREM FlagsTrue == Spec => []FlagsAreTrue
<1>1. UnflaggedExtremesAreInside /\ ExitInsideIsWithinExcursions => FlagsAreTrue
  BY DEF FlagsAreTrue
<1> QED
  BY <1>1, UnflaggedInside, ExitInsideConsistent, PTL

=============================================================================
