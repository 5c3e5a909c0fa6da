-------------------------- MODULE MarketDataProofs --------------------------
(***************************************************************************)
(* Proofs about MarketData, for any files, symbols, row limit and unit of  *)
(* time.                                                                   *)
(***************************************************************************)
EXTENDS MarketDataProps, FiniteSetTheorems, TLAPS

Rows == file.rows

Done == 1..(next - 1)

(* What the checks of a row leave of it.                                   *)
Sound(row) ==
    /\ row \in Row
    /\ row.symbol \in Symbols
    /\ row.at % Minute = 0
    /\ {row.open, row.high, row.low, row.close} \subseteq Positive
    /\ ~Impossible(row)

(* The collected bars are those of the rows before next, which are sound and *)
(* differ in their symbol or time.                                         *)
BarsAreRows ==
    /\ validated = {BarOf(Rows[i]) : i \in Done}
    /\ \A i \in Done : i \in DOMAIN Rows /\ Sound(Rows[i])
    /\ \A i, k \in Done : i # k =>
          Rows[i].symbol # Rows[k].symbol \/ Rows[i].at # Rows[k].at

(* The stages of a parse.                                                  *)
StagesFollow ==
    /\ next <= Len(Rows) + 1
    /\ status = "UPLOADED" => next = 1
    /\ status \in {"READ", "ACCEPTED"} => FileReason(file) = NoValue
    /\ status = "ACCEPTED" => next = Len(Rows) + 1 /\ Confirmed(validated)
    /\ status # "REFUSED" => reason = NoValue

IInv == TypeOK /\ BarsAreRows /\ StagesFollow /\ RefusalIsTrue

-----------------------------------------------------------------------------
(* Aligned times are determined by their minutes.                          *)
LEMMA Aligned ==
    ASSUME NEW a \in Nat, a % Minute = 0
    PROVE  a \div Minute \in Nat /\ a = (a \div Minute) * Minute
  BY MarketDataAssumption

LEMMA NextMinute ==
    ASSUME NEW a \in Nat, NEW b \in Nat, a % Minute = 0, b % Minute = 0
    PROVE  b = a + Minute <=> b \div Minute = (a \div Minute) + 1
<1>1. Minute \in Nat \ {0}
  BY MarketDataAssumption
<1>2. /\ a \div Minute \in Nat /\ a = (a \div Minute) * Minute
      /\ b \div Minute \in Nat /\ b = (b \div Minute) * Minute
  BY Aligned
<1>3. \A x, y \in Nat : x * Minute = y * Minute => x = y
  BY <1>1
<1>4. ((a \div Minute) + 1) * Minute = a + Minute
  BY <1>1, <1>2
<1> QED
  BY <1>2, <1>3, <1>4

LEMMA MinIsLeast ==
    ASSUME NEW S \in SUBSET Nat, S # {}
    PROVE  Min(S) \in S /\ \A x \in S : Min(S) <= x
<1>1. PICK m \in S : \A y \in S : ~ (<<y, m>> \in OpToRel(<, Nat))
  BY NatLessThanWellFounded, WFMin
<1>2. ASSUME NEW y \in S, y < m PROVE FALSE
  BY <1>1, <1>2 DEF OpToRel
<1>3. \A y \in S : m <= y
  BY <1>2
<1> QED
  BY <1>3 DEF Min

-----------------------------------------------------------------------------
(* A first reason is one of the reasons, and there is none if none applies.  *)
LEMMA FirstApplies ==
    ASSUME NEW n \in Nat, NEW reasons, DOMAIN reasons = 1..n
    PROVE  /\ \/ FirstOf(reasons) = NoValue
              \/ \E i \in 1..n : /\ FirstOf(reasons) = reasons[i] /\ reasons[i] # NoValue
                                 /\ \A k \in 1..(i - 1) : reasons[k] = NoValue
           /\ FirstOf(reasons) = NoValue => \A i \in DOMAIN reasons : reasons[i] = NoValue
<1> DEFINE Applies == {i \in DOMAIN reasons : reasons[i] # NoValue}
<1>1. FirstOf(reasons) = IF Applies = {} THEN NoValue ELSE reasons[Min(Applies)]
  BY DEF FirstOf
<1>2. Applies \in SUBSET Nat
  OBVIOUS
<1>3. Applies # {} => Min(Applies) \in Applies /\ \A i \in Applies : Min(Applies) <= i
  BY <1>2, MinIsLeast
<1>4. ASSUME Applies # {}
      PROVE  \A k \in 1..(Min(Applies) - 1) : reasons[k] = NoValue
  <2> SUFFICES ASSUME NEW k \in 1..(Min(Applies) - 1) PROVE k \notin Applies /\ k \in 1..n
    OBVIOUS
  <2> DEFINE m == Min(Applies)
  <2>1. m \in Applies /\ m \in 1..n /\ \A i \in Applies : m <= i
    BY <1>3, <1>4
  <2>2. k \in 1..(m - 1)
    OBVIOUS
  <2> HIDE DEF m
  <2>3. k \in Nat /\ k < m /\ k \in 1..n
    BY <2>1, <2>2
  <2>4. k \in Applies => m <= k
    BY <2>1
  <2> HIDE DEF Applies
  <2>5. k \notin Applies
    BY <2>1, <2>3, <2>4
  <2> QED
    BY <2>3, <2>5
<1> QED
  BY <1>1, <1>3, <1>4

LEMMA NoValueIsNoReason ==
    /\ NoValue \notin Int
    /\ \A r \in Reasons : r # NoValue
  BY MarketDataAssumption

(* What the reasons against a file say of it.                              *)
LEMMA ReadReasonTyped ==
    ASSUME NEW f \in File
    PROVE  /\ ReadReason(f) \in FileReasons \cup {NoValue}
           /\ ReadReason(f) = NoValue => Len(f.rows) <= MaxRows
<1> DEFINE reasons == <<When(f.broken = 0, "CSV_PARSE_ERROR"),
              When(f.blank, "TOO_FEW_ROWS"),
              When(f.broken # NoValue /\ f.broken <= MaxRows + 2, "CSV_PARSE_ERROR"),
              When(Len(f.rows) > MaxRows, "ROW_LIMIT_EXCEEDED")>>
<1>1. DOMAIN reasons = 1..4 /\ ReadReason(f) = FirstOf(reasons)
  BY DEF ReadReason
<1>2. \A i \in 1..4 : reasons[i] \in FileReasons \cup {NoValue}
  BY DEF When, FileReasons
<1>3. reasons[4] = NoValue => Len(f.rows) <= MaxRows
  <2>1. f.rows \in Seq(Row) /\ MaxRows \in Nat
    BY MarketDataAssumption DEF File
  <2> QED
    BY <2>1, NoValueIsNoReason DEF When, Reasons, FileReasons
<1> HIDE DEF reasons
<1>4. ReadReason(f) = NoValue => reasons[4] = NoValue
  <2>1. 4 \in DOMAIN reasons
    BY <1>1
  <2> QED
    BY <1>1, <2>1, FirstApplies
<1>5. ReadReason(f) \in FileReasons \cup {NoValue}
  <2>1. FirstOf(reasons) = NoValue \/ \E i \in 1..4 : FirstOf(reasons) = reasons[i]
    BY <1>1, FirstApplies
  <2> QED
    BY <1>1, <1>2, <2>1
<1> QED
  BY <1>3, <1>4, <1>5

LEMMA FileReasonTyped ==
    ASSUME NEW f \in File
    PROVE  /\ FileReason(f) \in FileReasons \cup {NoValue}
           /\ FileReason(f) = NoValue => Len(f.rows) \in MIN_MARKET_DATA_ROWS..MaxRows
<1> DEFINE reasons == <<When(f.size = "empty", "EMPTY_FILE"),
              When(f.size = "too large", "FILE_TOO_LARGE"),
              When(~f.csv_name, "NOT_CSV"),
              When(~f.utf8, "DECODE_ERROR"),
              ReadReason(f),
              When(Len(f.rows) < MIN_MARKET_DATA_ROWS, "TOO_FEW_ROWS"),
              When(f.header # Columns, "MISSING_REQUIRED_COLUMNS")>>
<1>1. DOMAIN reasons = 1..7 /\ FileReason(f) = FirstOf(reasons)
  BY DEF FileReason
<1>2. \A i \in 1..7 : reasons[i] \in FileReasons \cup {NoValue}
  <2>1. reasons[5] \in FileReasons \cup {NoValue}
    BY ReadReasonTyped
  <2>2. /\ reasons[1] \in FileReasons \cup {NoValue}
        /\ reasons[2] \in FileReasons \cup {NoValue}
        /\ reasons[3] \in FileReasons \cup {NoValue}
        /\ reasons[4] \in FileReasons \cup {NoValue}
        /\ reasons[6] \in FileReasons \cup {NoValue}
        /\ reasons[7] \in FileReasons \cup {NoValue}
    BY DEF When, FileReasons
  <2>3. 1..7 = {1, 2, 3, 4, 5, 6, 7}
    OBVIOUS
  <2> HIDE DEF reasons
  <2> QED
    BY <2>1, <2>2, <2>3
<1>3. reasons[5] = NoValue => Len(f.rows) <= MaxRows
  BY ReadReasonTyped
<1>4. reasons[6] = NoValue => ~(Len(f.rows) < MIN_MARKET_DATA_ROWS)
  BY NoValueIsNoReason DEF When, Reasons, FileReasons
<1>5. Len(f.rows) \in Nat /\ MaxRows \in Nat
  <2>1. f.rows \in Seq(Row)
    BY DEF File
  <2> QED
    BY <2>1, MarketDataAssumption
<1> HIDE DEF reasons
<1>6. FirstOf(reasons) = NoValue => reasons[5] = NoValue /\ reasons[6] = NoValue
  <2>1. 5 \in DOMAIN reasons /\ 6 \in DOMAIN reasons
    BY <1>1
  <2> QED
    BY <1>1, <2>1, FirstApplies
<1>7. FirstOf(reasons) \in FileReasons \cup {NoValue}
  BY <1>1, <1>2, FirstApplies
<1> QED
  BY <1>1, <1>3, <1>4, <1>5, <1>6, <1>7 DEF MIN_MARKET_DATA_ROWS

(* What the reasons against a row say of it.                               *)
LEMMA TimeReasonTyped ==
    ASSUME NEW row \in Row
    PROVE  /\ TimeReason(row) \in {NoValue, "NON_UTC_TIMESTAMP", "INVALID_TIMESTAMP",
                                   "TIMESTAMP_NOT_MINUTE_ALIGNED"}
           /\ TimeReason(row) = NoValue => row.at % Minute = 0
<1> DEFINE reasons == <<When(row.form = "offset", "NON_UTC_TIMESTAMP"),
              When(row.form = "other", "INVALID_TIMESTAMP"),
              When(row.at % Minute # 0, "TIMESTAMP_NOT_MINUTE_ALIGNED")>>
<1>1. DOMAIN reasons = 1..3 /\ TimeReason(row) = FirstOf(reasons)
  BY DEF TimeReason
<1>2. \A i \in 1..3 : reasons[i] \in {NoValue, "NON_UTC_TIMESTAMP", "INVALID_TIMESTAMP",
                                      "TIMESTAMP_NOT_MINUTE_ALIGNED"}
  BY DEF When
<1>3. reasons[3] = NoValue => row.at % Minute = 0
  BY NoValueIsNoReason DEF When, Reasons, RowReasons
<1> HIDE DEF reasons
<1>4. TimeReason(row) = NoValue => reasons[3] = NoValue
  <2>1. 3 \in DOMAIN reasons
    BY <1>1
  <2> QED
    BY <1>1, <2>1, FirstApplies
<1> QED
  BY <1>1, <1>2, <1>3, <1>4, FirstApplies

LEMMA PriceReasonTyped ==
    ASSUME NEW price \in Price
    PROVE  /\ PriceReason(price) \in {NoValue, "INVALID_OHLC", "NON_POSITIVE_OHLC"}
           /\ PriceReason(price) = NoValue => price \in Positive
<1>1. "INVALID_OHLC" # NoValue /\ "NON_POSITIVE_OHLC" # NoValue
  BY NoValueIsNoReason DEF Reasons, RowReasons
<1> QED
  BY <1>1 DEF Price, PriceReason, Positive, When

LEMMA OhlcReasonTyped ==
    ASSUME NEW row \in Row
    PROVE  /\ OhlcReason(row) \in {NoValue, "INVALID_OHLC", "NON_POSITIVE_OHLC",
                                   "IMPOSSIBLE_OHLC"}
           /\ OhlcReason(row) = NoValue =>
                 /\ {row.open, row.high, row.low, row.close} \subseteq Positive
                 /\ ~Impossible(row)
<1> DEFINE faults == [i \in 1..4 |-> PriceReason(row[PriceFields[i]])]
<1>1. row.open \in Price /\ row.high \in Price /\ row.low \in Price /\ row.close \in Price
  BY DEF Row
<1>2. /\ faults[1] = PriceReason(row.open) /\ faults[2] = PriceReason(row.high)
      /\ faults[3] = PriceReason(row.low) /\ faults[4] = PriceReason(row.close)
  BY DEF PriceFields
<1>3. /\ DOMAIN faults = 1..4
      /\ \A i \in 1..4 : faults[i] \in {NoValue, "INVALID_OHLC", "NON_POSITIVE_OHLC"}
  BY <1>1, <1>2, PriceReasonTyped
<1>4. OhlcReason(row) = IF FirstOf(faults) # NoValue THEN FirstOf(faults)
                        ELSE When(Impossible(row), "IMPOSSIBLE_OHLC")
  BY DEF OhlcReason
<1> HIDE DEF faults
<1>5. FirstOf(faults) \in {NoValue, "INVALID_OHLC", "NON_POSITIVE_OHLC"}
  BY <1>3, FirstApplies
<1>6. FirstOf(faults) = NoValue =>
        {row.open, row.high, row.low, row.close} \subseteq Positive
  <2>1. 1 \in DOMAIN faults /\ 2 \in DOMAIN faults /\ 3 \in DOMAIN faults /\ 4 \in DOMAIN faults
    BY <1>3
  <2>2. FirstOf(faults) = NoValue =>
          faults[1] = NoValue /\ faults[2] = NoValue /\ faults[3] = NoValue /\ faults[4] = NoValue
    BY <1>3, <2>1, FirstApplies
  <2> QED
    BY <1>1, <1>2, <2>2, PriceReasonTyped
<1>7. "IMPOSSIBLE_OHLC" # NoValue
  BY NoValueIsNoReason DEF Reasons, RowReasons
<1> QED
  BY <1>4, <1>5, <1>6, <1>7 DEF When

LEMMA RowReasonTyped ==
    ASSUME NEW row \in Row, NEW bars
    PROVE  /\ RowReason(row, bars) \in RowReasons \cup {NoValue}
           /\ RowReason(row, bars) = NoValue => Sound(row) /\ ~Duplicates(row, bars)
           /\ RowReason(row, bars) = "DUPLICATE_BAR" =>
                 Duplicates(row, bars) /\ row.at % Minute = 0
<1> DEFINE reasons == <<When(row.symbol \in NameDefects, row.symbol), TimeReason(row),
              OhlcReason(row), When(Duplicates(row, bars), "DUPLICATE_BAR")>>
<1>1. DOMAIN reasons = 1..4 /\ RowReason(row, bars) = FirstOf(reasons)
  BY DEF RowReason
<1>2. /\ reasons[1] \in NameDefects \cup {NoValue}
      /\ reasons[2] \in {NoValue, "NON_UTC_TIMESTAMP", "INVALID_TIMESTAMP",
                         "TIMESTAMP_NOT_MINUTE_ALIGNED"}
      /\ reasons[3] \in {NoValue, "INVALID_OHLC", "NON_POSITIVE_OHLC", "IMPOSSIBLE_OHLC"}
      /\ reasons[4] \in {NoValue, "DUPLICATE_BAR"}
      /\ reasons[4] = "DUPLICATE_BAR" => Duplicates(row, bars)
      /\ reasons[4] = NoValue => ~Duplicates(row, bars)
  <2>1. "DUPLICATE_BAR" # NoValue
    BY NoValueIsNoReason DEF Reasons, RowReasons
  <2> QED
    BY <2>1, TimeReasonTyped, OhlcReasonTyped DEF When
<1>3. /\ reasons[1] = NoValue => row.symbol \in Symbols
      /\ reasons[2] = NoValue => row.at % Minute = 0
      /\ reasons[3] = NoValue => /\ {row.open, row.high, row.low, row.close} \subseteq Positive
                                 /\ ~Impossible(row)
  <2>1. row.symbol \in Symbols \cup NameDefects /\ \A r \in NameDefects : r # NoValue
    BY NoValueIsNoReason DEF Row, Reasons, RowReasons
  <2> QED
    BY <2>1, TimeReasonTyped, OhlcReasonTyped DEF When
<1> HIDE DEF reasons
<1>4. /\ \/ FirstOf(reasons) = NoValue
         \/ \E i \in 1..4 : /\ FirstOf(reasons) = reasons[i] /\ reasons[i] # NoValue
                            /\ \A k \in 1..(i - 1) : reasons[k] = NoValue
      /\ FirstOf(reasons) = NoValue => \A i \in 1..4 : reasons[i] = NoValue
  <2>1. DOMAIN reasons = 1..4 /\ 4 \in Nat
    BY <1>1
  <2> QED
    BY <2>1, FirstApplies
<1>5. FirstOf(reasons) \in {NoValue, reasons[1], reasons[2], reasons[3], reasons[4]}
  <2>1. \A i \in 1..4 : reasons[i] \in {reasons[1], reasons[2], reasons[3], reasons[4]}
    <3>1. 1..4 = {1, 2, 3, 4}
      OBVIOUS
    <3> QED
      BY <3>1
  <2>2. FirstOf(reasons) = NoValue \/ \E i \in 1..4 : FirstOf(reasons) = reasons[i]
    BY <1>4
  <2> QED
    BY <2>1, <2>2
<1>6. RowReason(row, bars) \in RowReasons \cup {NoValue}
  BY <1>1, <1>2, <1>5 DEF RowReasons
<1>7. RowReason(row, bars) = NoValue => Sound(row) /\ ~Duplicates(row, bars)
  BY <1>1, <1>2, <1>3, <1>4 DEF Sound
<1>8. ASSUME RowReason(row, bars) = "DUPLICATE_BAR"
      PROVE  Duplicates(row, bars) /\ row.at % Minute = 0
  <2>1. "DUPLICATE_BAR" \notin NameDefects /\ "DUPLICATE_BAR" # NoValue
    BY NoValueIsNoReason DEF NameDefects, Reasons, RowReasons
  <2>2. PICK i \in 1..4 : /\ reasons[i] = "DUPLICATE_BAR"
                          /\ \A k \in 1..(i - 1) : reasons[k] = NoValue
    BY <1>1, <1>4, <1>8, <2>1
  <2>3. i = 4
    BY <1>2, <2>1, <2>2
  <2>4. 2 \in 1..(i - 1)
    BY <2>3
  <2> QED
    BY <1>2, <1>3, <2>2, <2>3, <2>4
<1> QED
  BY <1>6, <1>7, <1>8

-----------------------------------------------------------------------------
LEMMA BarTyped ==
    ASSUME NEW row, Sound(row)
    PROVE  /\ BarOf(row) \in ValidBar
           /\ BarOf(row).low <= BarOf(row).open /\ BarOf(row).open <= BarOf(row).high
           /\ BarOf(row).low <= BarOf(row).close /\ BarOf(row).close <= BarOf(row).high
<1>1. row.at \in Nat
  BY DEF Sound, Row
<1>2. row.at \div Minute \in Nat
  BY <1>1, Aligned DEF Sound
<1> QED
  BY <1>2 DEF Sound, BarOf, ValidBar, Impossible, Positive

(* Among the rows before next, a bar of the same symbol and minute is a row  *)
(* of the same symbol and time.                                            *)
LEMMA DuplicateIsRow ==
    ASSUME IInv, NEW row, Sound(row) \/ (row \in Row /\ row.at % Minute = 0),
           Duplicates(row, validated)
    PROVE  \E i \in Done : Rows[i].symbol = row.symbol /\ Rows[i].at = row.at
<1>1. row.at \in Nat /\ row.at % Minute = 0
  BY DEF Sound, Row
<1>2. PICK i \in Done : /\ BarOf(Rows[i]).symbol = row.symbol
                        /\ BarOf(Rows[i]).minute = row.at \div Minute
  BY DEF Duplicates, IInv, BarsAreRows
<1>3. Rows[i].at \in Nat /\ Rows[i].at % Minute = 0
  BY <1>2 DEF IInv, BarsAreRows, Sound, Row
<1>4. Rows[i].at = row.at
  BY <1>1, <1>2, <1>3, Aligned DEF BarOf
<1> QED
  BY <1>2, <1>4 DEF BarOf

-----------------------------------------------------------------------------
LEMMA InitIInv == Init => IInv
<1> SUFFICES ASSUME Init PROVE IInv
  OBVIOUS
<1>1. /\ file \in File /\ file.rows \in Seq(Row)
      /\ status = "UPLOADED" /\ reason = NoValue /\ next = 1 /\ validated = {}
  BY MarketDataAssumption DEF Init, File
<1>2. Done = {}
  BY <1>1 DEF Done
<1>3. TypeOK /\ BarsAreRows
  BY <1>1, <1>2 DEF TypeOK, BarsAreRows, Positive
<1>4. StagesFollow
  BY <1>1 DEF StagesFollow, Rows
<1>5. RefusalIsTrue
  <2>1. reason # "DUPLICATE_BAR" /\ reason # "M1_RESOLUTION_UNCONFIRMED"
    BY <1>1, NoValueIsNoReason DEF Reasons, RowReasons
  <2> QED
    BY <2>1 DEF RefusalIsTrue
<1> QED
  BY <1>3, <1>4, <1>5 DEF IInv

LEMMA RowsTyped ==
    ASSUME IInv
    PROVE  /\ file \in File /\ Rows \in Seq(Row) /\ Len(Rows) \in Nat
           /\ DOMAIN Rows = 1..Len(Rows) /\ next \in Nat \ {0}
           /\ \A i \in DOMAIN Rows : Rows[i] \in Row
<1>1. file \in File /\ Rows \in Seq(Row) /\ next \in Nat \ {0}
  BY DEF IInv, TypeOK, File, Rows, Positive
<1> QED
  BY <1>1

(* A refusal with a reason that is true keeps the invariant.               *)
LEMMA RefuseIInv ==
    ASSUME IInv, NEW r \in Reasons, Refuse(r),
           r = "DUPLICATE_BAR" =>
             \E i \in Done : Rows[i].symbol = Rows[next].symbol /\ Rows[i].at = Rows[next].at,
           r = "M1_RESOLUTION_UNCONFIRMED" => RefusalIsTrue'
    PROVE  IInv'
<1>1. /\ status' = "REFUSED" /\ reason' = r /\ UNCHANGED <<file, next, validated>>
  BY DEF Refuse
<1>2. TypeOK' /\ BarsAreRows'
  BY <1>1 DEF IInv, TypeOK, BarsAreRows, Done, Rows
<1>3. StagesFollow'
  BY <1>1 DEF IInv, StagesFollow, Rows
<1>4. RefusalIsTrue'
  BY <1>1 DEF RefusalIsTrue, Done, Rows
<1> QED
  BY <1>2, <1>3, <1>4 DEF IInv

LEMMA ReadFileIInv == ASSUME IInv, ReadFile PROVE IInv'
<1>1. /\ status = "UPLOADED" /\ status' = "READ" /\ FileReason(file) = NoValue
      /\ UNCHANGED <<file, reason, next, validated>>
  BY DEF ReadFile
<1>2. TypeOK' /\ BarsAreRows' /\ RefusalIsTrue'
  BY <1>1 DEF IInv, TypeOK, BarsAreRows, RefusalIsTrue, Done, Rows
<1>3. StagesFollow'
  BY <1>1 DEF IInv, StagesFollow, Rows
<1> QED
  BY <1>2, <1>3 DEF IInv

LEMMA RefuseFileIInv == ASSUME IInv, RefuseFile PROVE IInv'
<1>1. FileReason(file) \in FileReasons /\ Refuse(FileReason(file))
  BY RowsTyped, FileReasonTyped DEF RefuseFile
<1>2. FileReasons \subseteq Reasons /\ "DUPLICATE_BAR" \notin FileReasons
      /\ "M1_RESOLUTION_UNCONFIRMED" \notin FileReasons
  BY DEF Reasons, FileReasons
<1>3. FileReason(file) \in Reasons /\ FileReason(file) # "DUPLICATE_BAR"
      /\ FileReason(file) # "M1_RESOLUTION_UNCONFIRMED"
  BY <1>1, <1>2
<1> QED
  BY <1>1, <1>3, RefuseIInv

LEMMA RefuseRowIInv == ASSUME IInv, RefuseRow PROVE IInv'
<1> DEFINE row == Rows[next]
           r == RowReason(row, validated)
<1>1. /\ next \in DOMAIN Rows /\ r # NoValue /\ Refuse(r)
  BY RowsTyped DEF RefuseRow, AtRow, Rows
<1>2. row \in Row
  BY <1>1, RowsTyped
<1>3. r \in RowReasons /\ (r = "DUPLICATE_BAR" => Duplicates(row, validated))
  BY <1>1, <1>2, RowReasonTyped
<1>4. r \in Reasons /\ r # "M1_RESOLUTION_UNCONFIRMED"
  BY <1>3 DEF Reasons, RowReasons, NameDefects
<1>5. r = "DUPLICATE_BAR" => row.at % Minute = 0
  BY <1>1, <1>2, RowReasonTyped
<1>6. r = "DUPLICATE_BAR" =>
        \E i \in Done : Rows[i].symbol = row.symbol /\ Rows[i].at = row.at
  BY <1>2, <1>3, <1>5, DuplicateIsRow
<1> HIDE DEF r
<1> QED
  BY <1>1, <1>4, <1>6, RefuseIInv

LEMMA ValidateRowIInv == ASSUME IInv, ValidateRow PROVE IInv'
<1> DEFINE row == Rows[next]
<1>1. /\ next \in DOMAIN Rows /\ RowReason(row, validated) = NoValue
      /\ status = "READ" /\ next <= Len(Rows)
      /\ validated' = validated \cup {BarOf(row)} /\ next' = next + 1
      /\ UNCHANGED <<file, status, reason>>
  BY RowsTyped DEF ValidateRow, AtRow, Rows
<1>2. Sound(row) /\ ~Duplicates(row, validated)
  BY <1>1, RowsTyped, RowReasonTyped
<1>3. Done' = Done \cup {next} /\ next \notin Done
  BY <1>1, RowsTyped DEF Done
<1>4. TypeOK'
  <2>1. BarOf(row) \in ValidBar
    BY <1>2, BarTyped
  <2>2. next' \in Positive
    BY <1>1, RowsTyped DEF Positive
  <2> QED
    BY <1>1, <2>1, <2>2 DEF IInv, TypeOK
<1>5. BarsAreRows'
  <2>1. validated' = {BarOf(Rows[i]) : i \in Done}'
    BY <1>1, <1>3 DEF IInv, BarsAreRows, Rows
  <2>2. \A i \in Done' : i \in DOMAIN Rows /\ Sound(Rows[i])
    BY <1>1, <1>2, <1>3 DEF IInv, BarsAreRows
  <2>3. \A i \in Done : Rows[i].symbol # row.symbol \/ Rows[i].at # row.at
    <3> SUFFICES ASSUME NEW i \in Done, Rows[i].symbol = row.symbol, Rows[i].at = row.at
                 PROVE  Duplicates(row, validated)
      BY <1>2
    <3>1. BarOf(Rows[i]) \in validated
      BY DEF IInv, BarsAreRows
    <3> QED
      BY <3>1 DEF Duplicates, BarOf
  <2>4. \A i, k \in Done' : i # k =>
          Rows[i].symbol # Rows[k].symbol \/ Rows[i].at # Rows[k].at
    BY <1>3, <2>3 DEF IInv, BarsAreRows
  <2>5. Rows' = Rows
    BY <1>1 DEF Rows
  <2> QED
    BY <2>1, <2>2, <2>4, <2>5 DEF BarsAreRows, Sound
<1>6. StagesFollow'
  BY <1>1, RowsTyped DEF IInv, StagesFollow, Rows
<1>7. RefusalIsTrue'
  <2>1. reason' = NoValue
    BY <1>1 DEF IInv, StagesFollow
  <2>2. "DUPLICATE_BAR" # NoValue /\ "M1_RESOLUTION_UNCONFIRMED" # NoValue
    BY NoValueIsNoReason DEF Reasons, RowReasons
  <2> QED
    BY <2>1, <2>2 DEF RefusalIsTrue
<1> QED
  BY <1>4, <1>5, <1>6, <1>7 DEF IInv

(* All rows are done when the resolution is judged.                        *)
LEMMA AllDone ==
    ASSUME IInv, next > Len(Rows)
    PROVE  Done = DOMAIN Rows /\ next = Len(Rows) + 1
  BY RowsTyped DEF IInv, StagesFollow, Done

LEMMA AcceptIInv == ASSUME IInv, Accept PROVE IInv'
<1>1. /\ status = "READ" /\ next > Len(Rows) /\ Confirmed(validated)
      /\ status' = "ACCEPTED" /\ UNCHANGED <<file, reason, next, validated>>
  BY DEF Accept, AllValidated, Rows
<1>2. TypeOK' /\ BarsAreRows' /\ RefusalIsTrue'
  BY <1>1 DEF IInv, TypeOK, BarsAreRows, RefusalIsTrue, Done, Rows
<1>3. StagesFollow'
  BY <1>1, AllDone DEF IInv, StagesFollow, Rows
<1> QED
  BY <1>2, <1>3 DEF IInv

LEMMA RefuseResolutionIInv == ASSUME IInv, RefuseResolution PROVE IInv'
<1>1. /\ next > Len(Rows) /\ ~Confirmed(validated)
      /\ Refuse("M1_RESOLUTION_UNCONFIRMED")
  BY DEF RefuseResolution, AllValidated, Rows
<1>2. /\ reason' = "M1_RESOLUTION_UNCONFIRMED" /\ Rows' = Rows
  BY <1>1 DEF Refuse, Rows
<1>3. PICK s \in SymbolsOf(validated) :
        \A m \in MinutesOf(validated, s) : m + 1 \notin MinutesOf(validated, s)
  BY <1>1 DEF Confirmed
<1>4. Done = DOMAIN Rows
  BY <1>1, AllDone
<1>5. PICK i \in DOMAIN Rows : Rows[i].symbol = s
  BY <1>3, <1>4 DEF SymbolsOf, IInv, BarsAreRows, BarOf
<1>6. ASSUME NEW j \in DOMAIN Rows, NEW k \in DOMAIN Rows,
             Rows[j].symbol = s, Rows[k].symbol = s
      PROVE  Rows[k].at # Rows[j].at + Minute
  <2>1. /\ Rows[j].at \in Nat /\ Rows[j].at % Minute = 0
        /\ Rows[k].at \in Nat /\ Rows[k].at % Minute = 0
    BY <1>4, <1>6 DEF IInv, BarsAreRows, Sound, Row
  <2>2. BarOf(Rows[j]) \in validated /\ BarOf(Rows[k]) \in validated
    BY <1>4 DEF IInv, BarsAreRows
  <2>3. /\ Rows[j].at \div Minute \in MinutesOf(validated, s)
        /\ Rows[k].at \div Minute \in MinutesOf(validated, s)
    BY <1>6, <2>2 DEF MinutesOf, BarOf
  <2>4. Rows[k].at \div Minute # (Rows[j].at \div Minute) + 1
    BY <1>3, <2>3
  <2> QED
    BY <2>1, <2>4, NextMinute
<1>7. RefusalIsTrue'
  <2>1. "M1_RESOLUTION_UNCONFIRMED" # "DUPLICATE_BAR"
    OBVIOUS
  <2>2. \E n \in DOMAIN Rows : \A j, k \in DOMAIN Rows :
           /\ Rows[j].symbol = Rows[n].symbol
           /\ Rows[k].symbol = Rows[n].symbol
           => Rows[k].at # Rows[j].at + Minute
    BY <1>5, <1>6
  <2> QED
    BY <1>2, <2>1, <2>2 DEF RefusalIsTrue, Rows
<1>8. "M1_RESOLUTION_UNCONFIRMED" \in Reasons
  BY DEF Reasons
<1> QED
  BY <1>1, <1>7, <1>8, RefuseIInv

LEMMA NextIInv == IInv /\ [Next]_vars => IInv'
<1> SUFFICES ASSUME IInv, [Next]_vars PROVE IInv'
  OBVIOUS
<1>1. CASE UNCHANGED vars
  BY <1>1
  DEF vars, IInv, TypeOK, BarsAreRows, StagesFollow, RefusalIsTrue, Done, Rows, Sound
<1> QED
  BY <1>1, ReadFileIInv, RefuseFileIInv, ValidateRowIInv, RefuseRowIInv, AcceptIInv,
     RefuseResolutionIInv DEF Next

LEMMA Inductive == Spec => []IInv
  BY InitIInv, NextIInv, PTL DEF Spec

-----------------------------------------------------------------------------
(* A parse keeps its types; only sound bars are collected.                 *)
THEOREM TypeCorrect == Spec => []TypeOK
<1>1. IInv => TypeOK
  BY DEF IInv
<1> QED
  BY Inductive, <1>1, PTL

(* A file is only refused for a duplicate or for its resolution if its text  *)
(* has that fault.                                                         *)
THEOREM RefusalsAreTrue == Spec => []RefusalIsTrue
<1>1. IInv => RefusalIsTrue
  BY DEF IInv
<1> QED
  BY Inductive, <1>1, PTL

(* The bars of an accepted file are what the excursion computation needs.  *)
THEOREM AcceptedAreUsable == Spec => []AcceptedBarsAreUsable
<1>1. ASSUME IInv, status = "ACCEPTED" PROVE AcceptedBarsAreUsable
  <2>1. ASSUME NEW b \in validated, NEW c \in validated,
               b.symbol = c.symbol, b.minute = c.minute
        PROVE  b = c
    <3>1. PICK i \in Done, k \in Done : b = BarOf(Rows[i]) /\ c = BarOf(Rows[k])
      BY <1>1 DEF IInv, BarsAreRows
    <3>2. /\ Rows[i].at \in Nat /\ Rows[i].at % Minute = 0
          /\ Rows[k].at \in Nat /\ Rows[k].at % Minute = 0
      BY <1>1 DEF IInv, BarsAreRows, Sound, Row
    <3>3. Rows[i].at = Rows[k].at /\ Rows[i].symbol = Rows[k].symbol
      BY <2>1, <3>1, <3>2, Aligned DEF BarOf
    <3> QED
      BY <1>1, <3>1, <3>3 DEF IInv, BarsAreRows
  <2>2. ASSUME NEW b \in validated
        PROVE  /\ b.low <= b.open /\ b.open <= b.high
               /\ b.low <= b.close /\ b.close <= b.high
    <3>1. PICK i \in Done : b = BarOf(Rows[i]) /\ Sound(Rows[i])
      BY <1>1 DEF IInv, BarsAreRows
    <3> QED
      BY <3>1, BarTyped
  <2>3. ASSUME NEW b \in validated
        PROVE  \E c, d \in validated :
                 /\ c.symbol = b.symbol /\ d.symbol = b.symbol
                 /\ d.minute = c.minute + 1
    <3>1. b.symbol \in SymbolsOf(validated)
      BY DEF SymbolsOf
    <3>2. PICK m \in MinutesOf(validated, b.symbol) : m + 1 \in MinutesOf(validated, b.symbol)
      BY <1>1, <3>1 DEF IInv, StagesFollow, Confirmed
    <3> QED
      BY <3>2 DEF MinutesOf
  <2> QED
    BY <2>1, <2>2, <2>3 DEF AcceptedBarsAreUsable
<1>2. IInv => AcceptedBarsAreUsable
  BY <1>1 DEF AcceptedBarsAreUsable
<1> QED
  BY Inductive, <1>2, PTL

(* Every row of an accepted file is a bar of its own.                      *)
THEOREM RowsAreBars == Spec => []EveryRowIsOneBar
<1>1. ASSUME IInv, status = "ACCEPTED" PROVE EveryRowIsOneBar
  <2>1. /\ Done = DOMAIN Rows /\ Done = 1..Len(Rows)
        /\ Len(Rows) \in MIN_MARKET_DATA_ROWS..MaxRows
    BY <1>1, RowsTyped, FileReasonTyped DEF IInv, StagesFollow, Done, Rows
  <2>2. \A i \in Done : /\ BarOf(Rows[i]) \in validated
                         /\ Rows[i].at \in Nat /\ Rows[i].at % Minute = 0
    BY <1>1 DEF IInv, BarsAreRows, Sound, Row
  <2> DEFINE f == [i \in Done |-> BarOf(Rows[i])]
  <2>3. \A i, k \in Done : f[i] = f[k] => i = k
    <3> SUFFICES ASSUME NEW i \in Done, NEW k \in Done, BarOf(Rows[i]) = BarOf(Rows[k])
                 PROVE  i = k
      OBVIOUS
    <3>1. /\ Rows[i].symbol = Rows[k].symbol
          /\ Rows[i].at \div Minute = Rows[k].at \div Minute
      BY DEF BarOf
    <3>2. Rows[i].at = Rows[k].at
      BY <2>2, <3>1, Aligned
    <3> QED
      BY <1>1, <3>1, <3>2 DEF IInv, BarsAreRows
  <2>4. validated = {f[i] : i \in Done}
    BY <1>1 DEF IInv, BarsAreRows
  <2> HIDE DEF f
  <2>5. f \in Bijection(Done, validated)
    <3>1. f \in [Done -> validated]
      BY <2>4 DEF f
    <3> QED
      BY <2>3, <2>4, <3>1 DEF Bijection, Injection, Surjection, IsInjective
  <2>6. IsFiniteSet(Done) /\ Cardinality(Done) = Len(Rows)
    <3>1. Len(Rows) \in Nat
      BY <1>1, RowsTyped
    <3> DEFINE n == Len(Rows)
    <3>2. n \in Nat /\ n \in Int /\ 1 \in Int
      BY <3>1
    <3> HIDE DEF n
    <3>3. IsFiniteSet(1..n) /\ Cardinality(1..n) = IF 1 > n THEN 0 ELSE n - 1 + 1
      BY <3>2, FS_Interval
    <3>4. (IF 1 > n THEN 0 ELSE n - 1 + 1) = n
      BY <3>2
    <3> USE DEF n
    <3> QED
      BY <2>1, <3>3, <3>4
  <2>7. Cardinality(validated) = Len(Rows)
    BY <2>5, <2>6, FS_Bijection DEF ExistsBijection
  <2>8. \A i \in DOMAIN Rows : \E b \in validated :
          /\ b.symbol = Rows[i].symbol /\ b.minute * Minute = Rows[i].at
          /\ b.close = Rows[i].close
    BY <2>1, <2>2, Aligned DEF BarOf
  <2> QED
    BY <2>1, <2>7, <2>8 DEF EveryRowIsOneBar, Rows
<1>2. IInv => EveryRowIsOneBar
  BY <1>1 DEF EveryRowIsOneBar
<1> QED
  BY Inductive, <1>2, PTL

(* An accepted file is, row by row, what the excursion computation assumes.  *)
THEOREM FilesAreBars == Spec => []AcceptedFileIsItsBars
<1>1. AcceptedBarsAreUsable /\ EveryRowIsOneBar => AcceptedFileIsItsBars
  BY DEF AcceptedFileIsItsBars
<1> QED
  BY <1>1, AcceptedAreUsable, RowsAreBars, PTL

=============================================================================
