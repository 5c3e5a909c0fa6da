----------------------------- MODULE MarketData -----------------------------
(***************************************************************************)
(* performance/market_data.py, parse_market_data_bytes: a file of          *)
(* one-minute bars is read, its rows are validated one after the other,    *)
(* and the first fault refuses the whole file.                             *)
(*                                                                         *)
(* A cell is what the parsers make of it: prices are integers, and NoValue *)
(* where the text is missing or is no finite number; a time has the form   *)
(* of its text and the moment it names.                                    *)
(***************************************************************************)
EXTENDS Integers, Sequences, FiniteSetsExt

CONSTANTS
    Symbols,         \* trimmed names that are not blank and not too long
    Minute,          \* time units in a minute
    MaxRows,         \* MAX_MARKET_DATA_ROWS
    Files,           \* the files considered
    NoValue

MIN_MARKET_DATA_ROWS == 2

(* What makes a name unusable.                                               *)
NameDefects == {"EMPTY_SYMBOL", "SYMBOL_TOO_LONG"}

Columns == {"TimestampUTC", "Symbol", "Open", "High", "Low", "Close"}

Price == Int \cup {NoValue}

(* utc: Z or +00:00     offset: another UTC offset     other: anything else  *)
TimeForms == {"utc", "offset", "other"}

Row == [symbol : Symbols \cup NameDefects, form : TimeForms, at : Nat,
        open : Price, high : Price, low : Price, close : Price]

(* blank: without any line, and so without a header                          *)
(* broken: the data row at which the CSV syntax is violated; 0 is the header *)
File == [size : {"empty", "fits", "too large"}, csv_name : BOOLEAN, utf8 : BOOLEAN,
         blank : BOOLEAN, header : SUBSET Columns, broken : Nat \cup {NoValue},
         rows : Seq(Row)]

FileReasons == {"EMPTY_FILE", "FILE_TOO_LARGE", "NOT_CSV", "DECODE_ERROR",
                "TOO_FEW_ROWS", "CSV_PARSE_ERROR", "ROW_LIMIT_EXCEEDED",
                "MISSING_REQUIRED_COLUMNS"}

RowReasons == NameDefects \cup
    {"INVALID_TIMESTAMP", "NON_UTC_TIMESTAMP", "TIMESTAMP_NOT_MINUTE_ALIGNED",
     "INVALID_OHLC", "NON_POSITIVE_OHLC", "IMPOSSIBLE_OHLC", "DUPLICATE_BAR"}

Reasons == FileReasons \cup RowReasons \cup {"M1_RESOLUTION_UNCONFIRMED"}

Positive == Nat \ {0}

ValidBar == [symbol : Symbols, minute : Nat, open : Positive, high : Positive,
             low : Positive, close : Positive]

ASSUME MarketDataAssumption ==
    /\ Minute \in Nat \ {0}
    /\ MaxRows \in Nat
    /\ Files \subseteq File
    /\ NoValue \notin Int /\ NoValue \notin Reasons
    /\ Symbols \cap NameDefects = {}

VARIABLES
    file,        \* the upload
    status,      \* "UPLOADED", "READ", "ACCEPTED" or "REFUSED"
    reason,      \* of the refusal
    next,        \* the data row to validate
    validated    \* the bars of the rows before next

vars == <<file, status, reason, next, validated>>

TypeOK ==
    /\ file \in File
    /\ status \in {"UPLOADED", "READ", "ACCEPTED", "REFUSED"}
    /\ reason \in Reasons \cup {NoValue}
    /\ next \in Positive
    /\ validated \in SUBSET ValidBar

-----------------------------------------------------------------------------
(* One refusal after the other: the first reason that applies.               *)
FirstOf(reasons) ==
    LET Applies == {i \in DOMAIN reasons : reasons[i] # NoValue} IN
    IF Applies = {} THEN NoValue ELSE reasons[Min(Applies)]

When(condition, r) == IF condition THEN r ELSE NoValue

(* _read_csv_rows stops two rows past the limit, at which it only needs to   *)
(* know that the limit is exceeded: a later syntax error is not met.         *)
ReadReason(f) ==
    FirstOf(<<When(f.broken = 0, "CSV_PARSE_ERROR"),
              When(f.blank, "TOO_FEW_ROWS"),
              When(f.broken # NoValue /\ f.broken <= MaxRows + 2, "CSV_PARSE_ERROR"),
              When(Len(f.rows) > MaxRows, "ROW_LIMIT_EXCEEDED")>>)

(* What is refused before any row is looked at.                              *)
FileReason(f) ==
    FirstOf(<<When(f.size = "empty", "EMPTY_FILE"),
              When(f.size = "too large", "FILE_TOO_LARGE"),
              When(~f.csv_name, "NOT_CSV"),
              When(~f.utf8, "DECODE_ERROR"),
              ReadReason(f),
              When(Len(f.rows) < MIN_MARKET_DATA_ROWS, "TOO_FEW_ROWS"),
              When(f.header # Columns, "MISSING_REQUIRED_COLUMNS")>>)

(* _parse_timestamp_utc.                                                     *)
TimeReason(row) ==
    FirstOf(<<When(row.form = "offset", "NON_UTC_TIMESTAMP"),
              When(row.form = "other", "INVALID_TIMESTAMP"),
              When(row.at % Minute # 0, "TIMESTAMP_NOT_MINUTE_ALIGNED")>>)

(* _parse_price.                                                             *)
PriceReason(price) ==
    IF price = NoValue THEN "INVALID_OHLC"
    ELSE When(price <= 0, "NON_POSITIVE_OHLC")

(* _validate_ohlc.                                                           *)
Impossible(row) ==
    ~ (/\ row.high >= row.open /\ row.high >= row.close
       /\ row.low <= row.open /\ row.low <= row.close /\ row.low <= row.high)

PriceFields == <<"open", "high", "low", "close">>

(* The prices in column order, then their relation.                          *)
OhlcReason(row) ==
    LET faults == [i \in 1..4 |-> PriceReason(row[PriceFields[i]])] IN
    IF FirstOf(faults) # NoValue THEN FirstOf(faults)
    ELSE When(Impossible(row), "IMPOSSIBLE_OHLC")

(* Faulty variant: the same bar again is tolerated.                          *)
DuplicatesDiffering(row, bars) ==
    \E b \in bars : /\ b.symbol = row.symbol /\ b.minute = row.at \div Minute
                    /\ b.close # row.close

(* Faulty variant: the symbol is no part of the key.                         *)
DuplicatesMinute(row, bars) == \E b \in bars : b.minute = row.at \div Minute

Duplicates(row, bars) ==
    \E b \in bars : b.symbol = row.symbol /\ b.minute = row.at \div Minute

(* Why a row refuses the file, given the bars of the rows before it.         *)
RowReason(row, bars) ==
    FirstOf(<<When(row.symbol \in NameDefects, row.symbol), TimeReason(row),
              OhlcReason(row), When(Duplicates(row, bars), "DUPLICATE_BAR")>>)

BarOf(row) ==
    [symbol |-> row.symbol, minute |-> row.at \div Minute, open |-> row.open,
     high |-> row.high, low |-> row.low, close |-> row.close]

MinutesOf(bars, s) == {b.minute : b \in {c \in bars : c.symbol = s}}

SymbolsOf(bars) == {b.symbol : b \in bars}

(* _validate_m1_resolution: as no minute is there twice, the least distance  *)
(* is one minute iff some two bars are adjacent.                             *)
Confirmed(bars) ==
    \A s \in SymbolsOf(bars) :
      \E m \in MinutesOf(bars, s) : m + 1 \in MinutesOf(bars, s)

-----------------------------------------------------------------------------
Init ==
    /\ file \in Files
    /\ status = "UPLOADED"
    /\ reason = NoValue
    /\ next = 1
    /\ validated = {}

Refuse(r) ==
    /\ status' = "REFUSED"
    /\ reason' = r
    /\ UNCHANGED <<file, next, validated>>

ReadFile ==
    /\ status = "UPLOADED"
    /\ FileReason(file) = NoValue
    /\ status' = "READ"
    /\ UNCHANGED <<file, reason, next, validated>>

RefuseFile ==
    /\ status = "UPLOADED"
    /\ FileReason(file) # NoValue
    /\ Refuse(FileReason(file))

AtRow == status = "READ" /\ next <= Len(file.rows)

ValidateRow ==
    /\ AtRow
    /\ RowReason(file.rows[next], validated) = NoValue
    /\ validated' = validated \cup {BarOf(file.rows[next])}
    /\ next' = next + 1
    /\ UNCHANGED <<file, status, reason>>

RefuseRow ==
    /\ AtRow
    /\ RowReason(file.rows[next], validated) # NoValue
    /\ Refuse(RowReason(file.rows[next], validated))

AllValidated == status = "READ" /\ next > Len(file.rows)

Accept ==
    /\ AllValidated
    /\ Confirmed(validated)
    /\ status' = "ACCEPTED"
    /\ UNCHANGED <<file, reason, next, validated>>

RefuseResolution ==
    /\ AllValidated
    /\ ~Confirmed(validated)
    /\ Refuse("M1_RESOLUTION_UNCONFIRMED")

Next ==
    \/ ReadFile \/ RefuseFile \/ ValidateRow \/ RefuseRow
    \/ Accept \/ RefuseResolution

Spec == Init /\ [][Next]_vars

=============================================================================
