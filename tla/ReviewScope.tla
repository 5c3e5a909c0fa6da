---------------------------- MODULE ReviewScope -----------------------------
(***************************************************************************)
(* performance/views.py: dashboard, kpi_report and export_excel show what  *)
(* the session's journal says under the filters of the request.  Links     *)
(* between the pages carry the filters that were applied; meanwhile        *)
(* another tab of the same session may upload another file.                *)
(***************************************************************************)
EXTENDS Analytics

CONSTANTS
    Files,           \* the files that may be uploaded
    FilterSets,      \* what may be typed into the filters of a page
    MinRRs           \* what may be typed into Min R/R; NoValue is nothing

VARIABLES
    journal,         \* what the session's cleaned data reads as; NoValue: none
    page             \* what the browser shows

vars == <<journal, page>>

Kinds == {"dashboard", "kpi_report", "export_excel"}

RRColumns == <<"RR", "rr", "R:R", "risk_reward", "Risk Reward">>

RRColumn(columns) == FirstPresent(RRColumns, columns)

(* A file is read as a sequence of rows, with a cell for every header; the   *)
(* cells of a column that is not one of text are as JournalIngestion says.   *)
ASSUME FilesAssumption ==
    /\ \A i \in DOMAIN RRColumns : RRColumns[i] \notin TextColumns
    /\ \A raw \in Files :
         /\ raw.header \in Seq({raw.header[i] : i \in DOMAIN raw.header})
         /\ \A i, k \in DOMAIN raw.header : i # k => raw.header[i] # raw.header[k]
         /\ raw.rows \in Seq({raw.rows[r] : r \in DOMAIN raw.rows})
         /\ \A r \in DOMAIN raw.rows : \A i \in DOMAIN raw.header :
              raw.header[i].name \notin TextColumns =>
                 raw.rows[r][i] \in Int \cup {Junk, Infinite, NoValue}
    /\ \A filters \in FilterSets :
         filters = [filter \in DOMAIN NoFilters |-> filters[filter]]

(* Min R/R is ignored without a column for it, and when it is no number.     *)
AppliedMinRR(columns, min_rr) ==
    IF RRColumn(columns) = NoValue \/ min_rr = Junk THEN NoValue ELSE min_rr

Exported(columns, rows, scope, min_rr) ==
    IF min_rr = NoValue THEN scope
    ELSE {r \in scope :
            /\ Parsed(rows[r][RRColumn(columns)]) # NoValue
            /\ rows[r][RRColumn(columns)] >= min_rr}

(* A page without a journal has no analysis.                                 *)
EmptyPage(kind) ==
    [kind |-> kind, over |-> NoValue, asked |-> NoFilters, active |-> NoFilters,
     scope |-> {}, kpis |-> NoKpis, min_rr |-> NoValue, exported |-> {}]

(* "over" and "asked" only record what the page was computed from.           *)
Rendered(kind, filters, min_rr) ==
    IF journal = NoValue THEN EmptyPage(kind)
    ELSE LET active == Applied(journal, filters)
             scope == Scope(journal, filters)
             applied == IF kind = "export_excel"
                        THEN AppliedMinRR(journal.columns, min_rr) ELSE NoValue
         IN [kind |-> kind, over |-> journal, asked |-> filters, active |-> active,
             scope |-> scope,
             kpis |-> ComputeKpis(Profits(journal, scope)),
             min_rr |-> applied,
             exported |-> Exported(journal.columns, journal.rows, scope, applied)]

Init ==
    /\ journal = NoValue
    /\ page = EmptyPage("dashboard")

(* upload_file, here or in another tab: a refused file takes the journal away. *)
Upload(raw) ==
    LET outcome == Ingested(raw)
    IN /\ journal' = IF Accepted(outcome) THEN Stored(outcome) ELSE NoValue
       /\ UNCHANGED page

(* A page opened from the menu, or its own filters sent again.               *)
Open(kind, filters, min_rr) ==
    /\ page' = Rendered(kind, filters, min_rr)
    /\ UNCHANGED journal

(* The pages a page links to with its analysis_query.                        *)
Linked(kind) ==
    CASE kind = "dashboard" -> {"kpi_report"}
      [] kind = "kpi_report" -> {"dashboard"}
      [] kind = "export_excel" -> {"dashboard", "kpi_report"}

(* Faulty variant: a link carries the fields of the filter form, without q.  *)
FollowWithoutSearch(kind) ==
    /\ kind \in Linked(page.kind)
    /\ page' = Rendered(kind, [page.active EXCEPT !.q = NoValue], NoValue)
    /\ UNCHANGED journal

Follow(kind) ==
    /\ kind \in Linked(page.kind)
    /\ page' = Rendered(kind, page.active, NoValue)
    /\ UNCHANGED journal

Next ==
    \/ \E raw \in Files : Upload(raw)
    \/ \E kind \in Kinds, filters \in FilterSets, min_rr \in MinRRs : Open(kind, filters, min_rr)
    \/ \E kind \in Kinds : Follow(kind)

Spec == Init /\ [][Next]_vars

=============================================================================
