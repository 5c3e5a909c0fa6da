-------------------------- MODULE JournalIngestion --------------------------
(***************************************************************************)
(* performance/ingestion.py, clean_ftmo_csv: an uploaded trading file is   *)
(* read, normalised and validated, or refused with a reason; and the way   *)
(* of an accepted journal through the session, which stores it as JSON.    *)
(*                                                                         *)
(* A cell of a column of numbers or dates is an integer, Infinite, Junk (a *)
(* text that is neither) or NoValue (empty); a cell of any other column is *)
(* a text or NoValue.  The lines the CSV reader skips are not in "rows".   *)
(***************************************************************************)
EXTENDS Integers, Sequences, SequencesExt, FiniteSetsExt

CONSTANTS
    TextColumns,     \* the columns that are neither numbers, dates nor indexes
    Junk, Infinite, NoValue

DateColumns == <<"Open Time", "Open", "Date">>

NumericColumns ==
    {"Size", "Profit", "Commission", "Commissions", "Swap", "Balance", "Pips", "Volume"}

(* Columns without a name, which pandas calls "Unnamed: n".                  *)
IndexColumns == {"Unnamed: 0", "Unnamed: 1"}

ASSUME CellAssumption ==
    /\ {Junk, Infinite, NoValue} \cap Int = {}
    /\ Junk # Infinite /\ Junk # NoValue /\ Infinite # NoValue
    /\ TextColumns \cap (NumericColumns \cup Range(DateColumns) \cup IndexColumns) = {}

Reasons == {"UnsupportedFileType", "UnreadableFile", "EmptyDataset",
            "MissingProfitColumn", "NoParsableProfit", "unexpected"}

Refused(reason) == [refused |-> reason]

(* A header is a column name and whether spaces surround it in the file: two *)
(* headers may become one name when the spaces are removed.  pandas renames  *)
(* a repeated header when it reads the file, so no two headers are equal.    *)
Names(raw) == {raw.header[i].name : i \in DOMAIN raw.header}

Renamed(raw, name) ==
    IF name = "Commissions" /\ "Commission" \notin Names(raw) THEN "Commission" ELSE name

(* The column whose values become the column "name" of the journal: where    *)
(* headers become one name, the first keeps it when the journal is read.     *)
SourceOf(raw, name) ==
    LET named == {i \in DOMAIN raw.header : Renamed(raw, raw.header[i].name) = name}
    IN CHOOSE i \in named : \A k \in named : i <= k

JournalColumns(raw) == {Renamed(raw, name) : name \in Names(raw) \ IndexColumns}

(* The elements of a finite set, ordered by a set of pairs.                  *)
InOrder(S, before) ==
    [n \in 1..Cardinality(S) |->
        CHOOSE e \in S : Cardinality({d \in S : <<d, e>> \in before}) = n - 1]

(* Rows by their numbers, as they stand in the file.                         *)
InFileOrder(rows) == InOrder(rows, {p \in rows \X rows : p[1] < p[2]})

(* The first of the names that is a column.                                  *)
FirstPresent(names, columns) ==
    LET present == {i \in DOMAIN names : names[i] \in columns}
    IN IF present = {} THEN NoValue
       ELSE names[CHOOSE i \in present : \A j \in present : i <= j]

FirstDateColumn(columns) == FirstPresent(DateColumns, columns)

Parsed(value) == IF value = Junk THEN NoValue ELSE value

(* Only the first date column is parsed; every numeric column is.            *)
Coerced(columns, name, value) ==
    IF name \in NumericColumns \/ name = FirstDateColumn(columns)
    THEN Parsed(value) ELSE value

(* Rows without any value are dropped while the index columns still count.   *)
UsableRows(raw) ==
    InFileOrder({r \in DOMAIN raw.rows :
                   \E i \in DOMAIN raw.rows[r] : raw.rows[r][i] # NoValue})

Normalised(raw) ==
    LET columns == JournalColumns(raw)
        rows == UsableRows(raw)
    IN [columns |-> columns,
        rows |-> [r \in DOMAIN rows |->
                    [c \in columns |-> Coerced(columns, c, raw.rows[rows[r]][SourceOf(raw, c)])]]]

(* A column that is parsed must have one name: pandas raises on two.         *)
AmbiguousColumn(raw) ==
    \E i, j \in DOMAIN raw.header :
        /\ i # j
        /\ raw.header[i].name = raw.header[j].name
        /\ \/ raw.header[i].name \in NumericColumns
           \/ raw.header[i].name = FirstDateColumn(JournalColumns(raw))

HasProfit(journal) == \E r \in DOMAIN journal.rows : journal.rows[r].Profit # NoValue

(* Faulty variant: a Profit column is enough, with or without numbers.       *)
ValidateColumnsOnly(journal) ==
    IF journal.columns = {} \/ journal.rows = << >> THEN Refused("EmptyDataset")
    ELSE IF "Profit" \notin journal.columns THEN Refused("MissingProfitColumn")
    ELSE journal

Validated(journal) ==
    IF journal.columns = {} \/ journal.rows = << >> THEN Refused("EmptyDataset")
    ELSE IF "Profit" \notin journal.columns THEN Refused("MissingProfitColumn")
    ELSE IF ~HasProfit(journal) THEN Refused("NoParsableProfit")
    ELSE journal

Ingested(raw) ==
    IF raw.ext \notin {".csv", ".xlsx"} THEN Refused("UnsupportedFileType")
    ELSE IF ~raw.readable THEN Refused("UnreadableFile")
    ELSE IF raw.header = << >> THEN Refused("EmptyDataset")
    ELSE IF AmbiguousColumn(raw) THEN Refused("unexpected")
    ELSE Validated(Normalised(raw))

Accepted(outcome) == "refused" \notin DOMAIN outcome

(* JSON has no infinite number: to_json writes null.                         *)
Stored(journal) ==
    [journal EXCEPT !.rows =
        [r \in DOMAIN @ |-> [c \in journal.columns |->
            IF c \notin TextColumns /\ @[r][c] = Infinite THEN NoValue ELSE @[r][c]]]]

=============================================================================
