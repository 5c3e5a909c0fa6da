--------------------------- MODULE EvidencePacket ---------------------------
(***************************************************************************)
(* The evidence packet a language model is given: what                     *)
(* ai_grounding/packet.py projects from a retrieval, and the shape          *)
(* ai_grounding/schema.py demands of every packet before it is rendered or  *)
(* used to judge an answer.                                                *)
(*                                                                         *)
(* An alias E1..En is the position of the item in the packet.  A line      *)
(* "Label: value" of a document is the pair of the field key that stands   *)
(* for the label and the value; a value is a text, known by the syntaxes   *)
(* it is canonical in.                                                     *)
(***************************************************************************)
EXTENDS Naturals, Sequences, FiniteSets

CONSTANTS
    Canonical,       \* Canonical[t]: the texts in the canonical syntax of type t
    MAX_EVIDENCE_ITEMS,
    LeakingTexts,    \* identifiers that contain "request_sha256"
    NoValue

ASSUME MaxItemsAssumption == MAX_EVIDENCE_ITEMS \in Nat \ {0}

-----------------------------------------------------------------------------
(* The field and status tables.                                            *)

EXCURSION_FIELD_KEYS ==
    {"approx_window_high", "approx_window_low", "approx_mfe", "approx_mae"}

AUTHORISED_FIELDS ==
    [TRADE_EVIDENCE |-> {"ticket", "symbol", "side", "open_time", "close_time", "entry",
                         "exit", "profit", "commission", "swap", "bar_evidence_status"}
                        \cup EXCURSION_FIELD_KEYS,
     KPI_EVIDENCE |-> {"total_trades", "winning_trades", "losing_trades", "breakeven_trades",
                       "win_rate_pct", "total_profit", "average_profit", "gross_profit",
                       "gross_loss", "average_win", "average_loss", "profit_factor",
                       "expectancy", "best_trade", "worst_trade", "max_drawdown", "sharpe",
                       "volatility"},
     DATASET_CONTEXT |-> {"journal_row_count", "declared_time_basis"}]

DocumentTypes == DOMAIN AUTHORISED_FIELDS

ValueType(key) ==
    CASE key \in {"ticket", "symbol"} -> "IDENTIFIER"
      [] key \in {"side", "bar_evidence_status"} -> "ENUM"
      [] key \in {"open_time", "close_time"} -> "TIMESTAMP"
      [] key \in {"profit_factor", "declared_time_basis"} -> "TEXT"
      [] key \in {"total_trades", "winning_trades", "losing_trades", "breakeven_trades",
                  "journal_row_count"} -> "INTEGER"
      [] OTHER -> "DECIMAL"

Unit(key) ==
    CASE key = "win_rate_pct" -> "%"
      [] key \in {"approx_mfe", "approx_mae"} -> "price pts"
      [] OTHER -> ""

CLAIMABLE_TYPES == {"DECIMAL", "INTEGER"}

TRADE_EVIDENCE_STATUSES ==
    {"COMPUTED", "NO_MARKET_DATA", "NO_M1_EVIDENCE", "INVALID_TRADE_DATA",
     "TIMEZONE_AMBIGUOUS", "TIME_BASIS_INCONSISTENT", "INCOMPLETE_COVERAGE",
     "INVARIANT_VIOLATION"}

DOCUMENT_ALLOWED_STATUSES ==
    [TRADE_EVIDENCE |-> TRADE_EVIDENCE_STATUSES,
     KPI_EVIDENCE |-> {"AUTHORITATIVE"},
     DATASET_CONTEXT |-> {"NO_M1_EVIDENCE", "BOUND"}]

ACCEPTED_EVIDENCE_STATUSES ==
    UNION {DOCUMENT_ALLOWED_STATUSES[d] : d \in DocumentTypes}

(* make_model_facing_field: may the value be that of the field?            *)
WellFormed(key, value) ==
    CASE key = "side" -> value \in {"buy", "sell"}
      [] key = "bar_evidence_status" -> value \in ACCEPTED_EVIDENCE_STATUSES
      [] key = "profit_factor" -> value \in {"N/A", "infinity"} \cup Canonical["DECIMAL"]
      [] OTHER -> value \in Canonical[ValueType(key)]

-----------------------------------------------------------------------------
(* packet.py: the projection of one retrieved document.                    *)

Restricted(f, S) == [k \in DOMAIN f \cap S |-> f[k]]

(* Lines under these labels never reach the model.                         *)
EXCLUDED_CONTENT_LABELS == {"notes", "source_filename", "market_data_source"}

_content_map(content) == Restricted(content, DOMAIN content \ EXCLUDED_CONTENT_LABELS)

(* The symbols the document states: in its content and in its provenance.  *)
StatedSymbols(result) ==
    LET mapping == _content_map(result.content)
    IN  ({result.symbol} \cup {mapping[k] : k \in DOMAIN mapping \cap {"symbol"}}) \ {NoValue}

Casefold(side) == IF side = "Buy" THEN "buy" ELSE IF side = "Sell" THEN "sell" ELSE side

(* The lines a trade item takes over, the excursions only when computed.   *)
TradeLines(result) ==
    LET mapping == _content_map(result.content)
        copied == AUTHORISED_FIELDS["TRADE_EVIDENCE"] \ {"symbol", "bar_evidence_status"}
        taken == IF result.evidence_status = "COMPUTED" THEN copied
                                                        ELSE copied \ EXCURSION_FIELD_KEYS
    IN  [k \in DOMAIN mapping \cap taken |->
            IF k = "side" THEN Casefold(mapping[k]) ELSE mapping[k]]

_project_trade(result) ==
    LET lines == TradeLines(result)
        symbols == StatedSymbols(result)
    IN  [k \in DOMAIN lines \cup {"bar_evidence_status"}
               \cup (IF symbols = {} THEN {} ELSE {"symbol"}) |->
            CASE k = "bar_evidence_status" -> result.evidence_status
              [] k = "symbol" -> CHOOSE s \in symbols : TRUE
              [] OTHER -> lines[k]]

TradeError(result) ==
    LET lines == TradeLines(result)
        symbols == StatedSymbols(result)
    IN  CASE "ticket" \in DOMAIN lines /\ ~WellFormed("ticket", lines["ticket"]) ->
                "EVIDENCE_FIELD_INVALID"
          [] \E s \in symbols : ~WellFormed("symbol", s) -> "EVIDENCE_FIELD_INVALID"
          [] Cardinality(symbols) > 1 -> "REQUEST_MISMATCH"
          [] \E k \in DOMAIN lines : ~WellFormed(k, lines[k]) -> "EVIDENCE_FIELD_INVALID"
          [] result.evidence_status = "COMPUTED" /\ ~(EXCURSION_FIELD_KEYS \subseteq DOMAIN lines) ->
                "EVIDENCE_FIELD_INVALID"
          [] OTHER -> "NONE"

_project_kpi(result) == _content_map(result.content)

KpiError(result) ==
    LET mapping == _content_map(result.content)
    IN  IF \E k \in DOMAIN mapping : \/ k \notin AUTHORISED_FIELDS["KPI_EVIDENCE"]
                                     \/ ~WellFormed(k, mapping[k])
        THEN "EVIDENCE_FIELD_INVALID" ELSE "NONE"

_project_dataset(result) ==
    Restricted(_content_map(result.content), AUTHORISED_FIELDS["DATASET_CONTEXT"])

DatasetError(result) ==
    LET fields == _project_dataset(result)
    IN  IF \E k \in DOMAIN fields : ~WellFormed(k, fields[k])
        THEN "EVIDENCE_FIELD_INVALID" ELSE "NONE"

ProjectionError(result) ==
    CASE \/ result.document_type \notin DocumentTypes
         \/ result.evidence_status \notin ACCEPTED_EVIDENCE_STATUSES -> "EVIDENCE_FIELD_INVALID"
      [] result.document_type = "TRADE_EVIDENCE" -> TradeError(result)
      [] result.document_type = "KPI_EVIDENCE" -> KpiError(result)
      [] OTHER -> DatasetError(result)

Claimable(fields) == {k \in DOMAIN fields : ValueType(k) \in CLAIMABLE_TYPES}

_project_result(result) ==
    LET fields == CASE result.document_type = "TRADE_EVIDENCE" -> _project_trade(result)
                    [] result.document_type = "KPI_EVIDENCE" -> _project_kpi(result)
                    [] OTHER -> _project_dataset(result)
    IN  [document_type |-> result.document_type,
         evidence_status |-> result.evidence_status,
         fields |-> fields,
         claimable_field_keys |-> Claimable(fields)]

-----------------------------------------------------------------------------
(* The limitations a packet must carry, as packet.py derives them ...      *)

ItemSymbols(items) == {i.fields["symbol"] : i \in {j \in items : "symbol" \in DOMAIN j.fields}}

(* Faulty variant: symbols are compared over all items, computed or not.   *)
LimitationsOfAllSymbols(items, candidate_count, returned_count) ==
    LET approximate == {i \in items : DOMAIN i.fields \cap {"approx_mfe", "approx_mae"} # {}}
        told(code, condition) == IF condition THEN {code} ELSE {}
    IN  told("APPROXIMATE_M1_EVIDENCE", approximate # {})
        \cup told("EVIDENCE_UNAVAILABLE",
                  \E i \in items : i.evidence_status = "NO_MARKET_DATA")
        \cup told("CROSS_SYMBOL_NOT_COMPARABLE", Cardinality(ItemSymbols(items)) > 1)
        \cup told("PARTIAL_EVIDENCE", candidate_count > returned_count)

(* Faulty variant: evidence is only called partial beyond the packet limit. *)
LimitationsBeyondLimit(items, candidate_count, returned_count) ==
    LET approximate == {i \in items : DOMAIN i.fields \cap {"approx_mfe", "approx_mae"} # {}}
        told(code, condition) == IF condition THEN {code} ELSE {}
    IN  told("APPROXIMATE_M1_EVIDENCE", approximate # {})
        \cup told("EVIDENCE_UNAVAILABLE",
                  \E i \in items : i.evidence_status = "NO_MARKET_DATA")
        \cup told("CROSS_SYMBOL_NOT_COMPARABLE", Cardinality(ItemSymbols(approximate)) > 1)
        \cup told("PARTIAL_EVIDENCE", candidate_count > MAX_EVIDENCE_ITEMS)

_required_limitation_codes(items, candidate_count, returned_count) ==
    LET approximate == {i \in items : /\ i.document_type = "TRADE_EVIDENCE"
                                      /\ DOMAIN i.fields \cap {"approx_mfe", "approx_mae"} # {}}
        told(code, condition) == IF condition THEN {code} ELSE {}
    IN  told("APPROXIMATE_M1_EVIDENCE", approximate # {})
        \cup told("EVIDENCE_UNAVAILABLE",
                  \E i \in items : i.evidence_status = "NO_MARKET_DATA")
        \cup told("CROSS_SYMBOL_NOT_COMPARABLE", Cardinality(ItemSymbols(approximate)) > 1)
        \cup told("PARTIAL_EVIDENCE", candidate_count > returned_count)

(* ... and as schema.py derives them again from the finished items.        *)
_evidence_derived_limitation_conditions(items) ==
    LET trades == {i \in items : i.document_type = "TRADE_EVIDENCE"}
        approximate == {i \in trades : /\ i.evidence_status = "COMPUTED"
                                       /\ DOMAIN i.fields \cap {"approx_mfe", "approx_mae"} # {}}
    IN  [APPROXIMATE_M1_EVIDENCE |-> approximate # {},
         EVIDENCE_UNAVAILABLE |-> \E i \in trades : i.evidence_status = "NO_MARKET_DATA",
         CROSS_SYMBOL_NOT_COMPARABLE |-> Cardinality(ItemSymbols(approximate)) > 1]

_validate_evidence_derived_limitations(items, codes) ==
    LET conditions == _evidence_derived_limitation_conditions(items)
    IN  CASE \E c \in DOMAIN conditions : conditions[c] /\ c \notin codes ->
                "LIMITATION_REQUIRED_MISSING"
          [] \E c \in DOMAIN conditions : ~conditions[c] /\ c \in codes ->
                "STATUS_CONTRADICTION"
          [] OTHER -> "NONE"

-----------------------------------------------------------------------------
(* schema.py: the shape of a request.                                      *)

_validate_evidence_item(item) ==
    LET fields == item.fields
        computed == item.evidence_status = "COMPUTED"
    IN  CASE \/ item.document_type \notin DocumentTypes
             \/ item.evidence_status \notin DOCUMENT_ALLOWED_STATUSES[item.document_type]
             \/ DOMAIN fields = {}
             \/ \E k \in DOMAIN fields : \/ k \notin AUTHORISED_FIELDS[item.document_type]
                                         \/ ~WellFormed(k, fields[k])
             \/ \E k \in item.claimable_field_keys :
                   \/ k \notin DOMAIN fields
                   \/ ValueType(k) \notin CLAIMABLE_TYPES
                   \/ item.evidence_status = "NO_MARKET_DATA" /\ k \in EXCURSION_FIELD_KEYS
             \/ /\ item.document_type = "TRADE_EVIDENCE"
                /\ IF computed THEN ~(EXCURSION_FIELD_KEYS \subseteq DOMAIN fields)
                               ELSE EXCURSION_FIELD_KEYS \cap DOMAIN fields # {} ->
                "EVIDENCE_FIELD_INVALID"
          [] /\ item.document_type = "TRADE_EVIDENCE"
             /\ "bar_evidence_status" \in DOMAIN fields
             /\ fields["bar_evidence_status"] # item.evidence_status ->
                "STATUS_CONTRADICTION"
          [] OTHER -> "NONE"

(* What a question is after NFKC, without control characters and outer      *)
(* blanks: empty, longer than the limit, "unstable" when doing that again    *)
(* changes it, "leaking" when it contains "request_sha256", else "asked".   *)
QuestionKinds == {"blank", "too long", "unstable", "leaking", "asked"}

normalise_question(question) ==
    CASE question = "blank" -> "SCHEMA_MISSING_FIELD"
      [] question = "too long" -> "SCHEMA_LIMIT_EXCEEDED"
      [] OTHER -> "NONE"

(* The question of a packet was normalised, and must be so already.         *)
_validate_question(question) ==
    IF question = "unstable" THEN "EVIDENCE_FIELD_INVALID" ELSE normalise_question(question)

Items(request) == {request.evidence[i] : i \in DOMAIN request.evidence}

FieldTexts(request, keys) ==
    UNION {{i.fields[k] : k \in DOMAIN i.fields \cap keys} : i \in Items(request)}

(* The code of the first item, in packet order, that is refused.           *)
FirstError(codes) ==
    LET refused == {i \in DOMAIN codes : codes[i] # "NONE"}
    IN  IF refused = {} THEN "NONE"
        ELSE codes[CHOOSE i \in refused : \A j \in refused : i <= j]

validate_request_shape(request) ==
    LET evidence == request.evidence
        itemError == FirstError([i \in DOMAIN evidence |-> _validate_evidence_item(evidence[i])])
    IN  IF _validate_question(request.question) # "NONE" THEN _validate_question(request.question)
        ELSE IF evidence = << >> THEN "REQUEST_EMPTY_EVIDENCE"
        ELSE IF Len(evidence) > MAX_EVIDENCE_ITEMS THEN "SCHEMA_LIMIT_EXCEEDED"
        ELSE IF itemError # "NONE" THEN itemError
        ELSE _validate_evidence_derived_limitations(Items(request),
                                                    request.required_limitation_codes)

-----------------------------------------------------------------------------
(* build_evidence_packet: the request, or the code it was refused with.    *)

Request(retrieval, question) ==
    LET evidence == [i \in DOMAIN retrieval.results |-> _project_result(retrieval.results[i])]
    IN  [question |-> question,
         evidence |-> evidence,
         required_limitation_codes |->
            _required_limitation_codes({evidence[i] : i \in DOMAIN evidence},
                                       retrieval.candidate_count, Len(retrieval.results))]

(* Of the texts of a request only the question and identifiers are free     *)
(* enough to name the digest.                                              *)
NamesDigest(request) ==
    \/ request.question = "leaking"
    \/ FieldTexts(request, {"ticket", "symbol"}) \cap LeakingTexts # {}

PacketError(retrieval, question) ==
    LET results == retrieval.results
        request == Request(retrieval, question)
        projected == FirstError([i \in DOMAIN results |-> ProjectionError(results[i])])
    IN  IF retrieval.state # "OK" THEN "REQUEST_STATE_NOT_OK"
        ELSE IF results = << >> THEN "REQUEST_EMPTY_EVIDENCE"
        ELSE IF Len(results) > MAX_EVIDENCE_ITEMS THEN "SCHEMA_LIMIT_EXCEEDED"
        ELSE IF \E i \in DOMAIN results : results[i].rank # i THEN "REQUEST_MISMATCH"
        ELSE IF normalise_question(question) # "NONE" THEN normalise_question(question)
        ELSE IF projected # "NONE" THEN projected
        ELSE IF \E i, j \in DOMAIN results :
                   results[i].journal_fingerprint # results[j].journal_fingerprint
             THEN "REQUEST_MISMATCH"
        ELSE IF validate_request_shape(request) # "NONE" THEN validate_request_shape(request)
        ELSE IF NamesDigest(request) THEN "LEAKAGE_DETECTED"
        ELSE "NONE"

(* What the server keeps of a packet and never sends; the digest of a      *)
(* request stands for the request.                                         *)
Context(retrieval, question) ==
    [request_sha256 |-> Request(retrieval, question),
     alias_to_document_id |->
        [i \in DOMAIN retrieval.results |-> retrieval.results[i].document_id],
     journal_fingerprint |-> retrieval.results[1].journal_fingerprint,
     retrieval_method |->
        IF \A i \in DOMAIN retrieval.results :
              retrieval.results[i].retrieval_method = retrieval.results[1].retrieval_method
        THEN retrieval.results[1].retrieval_method ELSE "MIXED"]

=============================================================================
