--------------------------- MODULE EvidenceCorpus ---------------------------
(***************************************************************************)
(* The evidence documents of a journal and their retrieval (package rag).  *)
(*                                                                         *)
(* A row of the journal is its ticket in canonical form (NoValue if it has *)
(* none), its symbol and its other cells as the lines a document shows.    *)
(* Words and texts are values; the score of a document is a number that is *)
(* positive exactly when query and document share a word, how large it is  *)
(* then is left open.                                                      *)
(***************************************************************************)
EXTENDS Naturals, Sequences, FiniteSets

CONSTANTS
    TicketOf,        \* canonical_ticket of what a user may type, NoValue if invalid
    Fold,            \* a symbol after NFKC and casefold
    NumericKey,      \* the number of a record key that is a whole number
    TextRank,        \* the place of a record key in the order of texts
    Numeral,         \* the text of a number
    DEFAULT_TOP_K, MAX_TOP_K,
    TooLong,         \* a query longer than MAX_QUERY_LENGTH
    NoValue

(* Cells that identify a journal; profit, commission and swap do not.      *)
FingerprintedLines == {"side", "open_time", "close_time", "entry", "exit"}

ExcursionLines == {"approx_window_high", "approx_window_low", "approx_mfe", "approx_mae"}

Rows(journal) == {journal[i] : i \in DOMAIN journal}

TicketsOf(journal) == {row.ticket : row \in Rows(journal)}

(* compute_journal_fingerprint: NoValue unless the tickets identify the    *)
(* rows, else the fingerprinted cells of the rows, whatever their order.   *)
compute_journal_fingerprint(journal) ==
    IF NoValue \in TicketsOf(journal) \/ Cardinality(TicketsOf(journal)) # Len(journal)
    THEN NoValue
    ELSE {[ticket |-> row.ticket, symbol |-> row.symbol,
           lines |-> [k \in DOMAIN row.lines \cap FingerprintedLines |-> row.lines[k]]] :
             row \in Rows(journal)}

-----------------------------------------------------------------------------
(* corpus.py: the documents.  The bound excursion state is NoValue or has   *)
(* an item for every ticket of the journal it was computed for.            *)

Document(type, key, fingerprint, content, status, symbol) ==
    [document_id |-> <<type, key>>, document_type |-> type, source_record_key |-> key,
     journal_fingerprint |-> fingerprint, content |-> content,
     evidence_status |-> status, symbol |-> symbol]

(* Faulty variant: evidence of any journal is taken as bound.              *)
BoundStateOfAny(state, journal) == state

(* load_bound_excursion_state: evidence of another journal is not bound.   *)
BoundState(state, journal) ==
    IF state # NoValue /\ state.journal_fingerprint = compute_journal_fingerprint(journal)
    THEN state ELSE NoValue

_assert_bound_ticket_parity(journal, state) ==
    state # NoValue => DOMAIN state.evidence = TicketsOf(journal)

_assert_computed_evidence(state) ==
    state # NoValue =>
        \A t \in DOMAIN state.evidence :
           state.evidence[t].status = "COMPUTED" =>
              ExcursionLines \subseteq DOMAIN state.evidence[t].lines

_trade_content(row, item) ==
    [k \in DOMAIN row.lines \cup {"ticket"} \cup ExcursionLines
           \cup (IF row.symbol = NoValue THEN {} ELSE {"symbol"}) |->
        CASE k = "ticket" -> row.ticket
          [] k = "symbol" -> row.symbol
          [] k \in ExcursionLines ->
                IF item.status = "COMPUTED" THEN item.lines[k] ELSE "not available"
          [] OTHER -> row.lines[k]]

(* _trade_status: without bound evidence every trade has no bar evidence.  *)
ItemOf(row, state) ==
    IF state = NoValue THEN [status |-> "NO_M1_EVIDENCE", lines |-> << >>]
                       ELSE state.evidence[row.ticket]

_trade_documents(journal, state) ==
    {Document("TRADE_EVIDENCE", row.ticket, compute_journal_fingerprint(journal),
              _trade_content(row, ItemOf(row, state)), ItemOf(row, state).status,
              row.symbol) : row \in Rows(journal)}

_kpi_documents(journal, kpis) ==
    {Document("KPI_EVIDENCE", k, compute_journal_fingerprint(journal),
              [label \in {k} |-> kpis[label]], "AUTHORITATIVE", NoValue) :
        k \in DOMAIN kpis}

_dataset_document(journal, state) ==
    LET lines == [journal_row_count |-> Numeral[Len(journal)], source_filename |-> "upload"]
        basis == [declared_time_basis |-> state.time_basis]
    IN  Document("DATASET_CONTEXT", "journal", compute_journal_fingerprint(journal),
                 IF state = NoValue THEN lines
                 ELSE [k \in DOMAIN lines \cup DOMAIN basis |->
                          IF k \in DOMAIN lines THEN lines[k] ELSE basis[k]],
                 IF state = NoValue THEN "NO_M1_EVIDENCE" ELSE "BOUND", NoValue)

build_evidence_corpus(journal, kpis, state) ==
    _trade_documents(journal, state) \cup _kpi_documents(journal, kpis)
        \cup {_dataset_document(journal, state)}

(* resolve_retrieval_scope, the assertions before the documents are built  *)
(* and validate_evidence_corpus over them.                                 *)
CorpusValid(journal, kpis, state) ==
    /\ journal # << >>
    /\ compute_journal_fingerprint(journal) # NoValue
    /\ _assert_bound_ticket_parity(journal, state)
    /\ _assert_computed_evidence(state)
    /\ LET documents == build_evidence_corpus(journal, kpis, state)
       IN  /\ \A d, e \in documents : d.document_id = e.document_id => d = e
           /\ \A d \in documents :
                 /\ d.journal_fingerprint = compute_journal_fingerprint(journal)
                 /\ d.document_id = <<d.document_type, d.source_record_key>>
           /\ Cardinality({d \in documents : d.document_type = "DATASET_CONTEXT"}) = 1

-----------------------------------------------------------------------------
(* retrieval.py.  A form has the query as a set of words, and NoValue for a *)
(* ticket, symbol, document type or top_k that is not given.               *)

_normalise_top_k(top_k) ==
    CASE top_k = NoValue -> DEFAULT_TOP_K
      [] top_k \in 1..MAX_TOP_K -> top_k
      [] OTHER -> MAX_TOP_K

(* The reason of a RetrievalError, "NONE" if the form can be searched for. *)
FormError(form) ==
    CASE form.top_k = 0 -> "INVALID_TOP_K"
      [] form.query = TooLong -> "INVALID_QUERY"
      [] form.document_type \notin
            {NoValue, "TRADE_EVIDENCE", "KPI_EVIDENCE", "DATASET_CONTEXT"} ->
            "INVALID_DOCUMENT_TYPE"
      [] form.ticket # NoValue /\ TicketOf[form.ticket] = NoValue -> "INVALID_TICKET"
      [] OTHER -> "NONE"

_symbol_matches(document, requested) ==
    /\ document.document_type = "TRADE_EVIDENCE"
    /\ document.symbol # NoValue
    /\ Fold[document.symbol] = Fold[requested]

(* The documents the filters of the form leave.                            *)
Filtered(documents, form) ==
    {d \in documents :
        /\ form.document_type # NoValue => d.document_type = form.document_type
        /\ form.symbol # NoValue => _symbol_matches(d, form.symbol)
        /\ form.ticket # NoValue => /\ d.document_type = "TRADE_EVIDENCE"
                                    /\ d.source_record_key = TicketOf[form.ticket]}

Words(document) ==
    {document.content[k] : k \in DOMAIN document.content} \cup DOMAIN document.content

(* _tfidf_scores: cosine similarity, positive when a word is shared.       *)
Scores(candidates, form, MaxScore) ==
    {score \in [candidates -> 0..MaxScore] :
        \A d \in candidates :
           score[d] > 0 <=> form.ticket = NoValue /\ form.query \cap Words(d) # {}}

DOCUMENT_TYPE_PRIORITY ==
    [TRADE_EVIDENCE |-> 0, KPI_EVIDENCE |-> 1, DATASET_CONTEXT |-> 2]

(* Whole numbers before texts, numbers by size, texts in their order; two    *)
(* keys of one number are told apart by the document id, which ends in them. *)
SourceBefore(a, b) ==
    IF a \in DOMAIN NumericKey
    THEN b \in DOMAIN NumericKey =>
            \/ NumericKey[a] < NumericKey[b]
            \/ NumericKey[a] = NumericKey[b] /\ TextRank[a] < TextRank[b]
    ELSE b \notin DOMAIN NumericKey /\ TextRank[a] < TextRank[b]

_rank_sort_before(d, e, score) ==
    LET priority(x) == DOCUMENT_TYPE_PRIORITY[x.document_type]
    IN  \/ score[d] > score[e]
        \/ score[d] = score[e] /\ priority(d) < priority(e)
        \/ /\ score[d] = score[e] /\ priority(d) = priority(e)
           /\ SourceBefore(d.source_record_key, e.source_record_key)

(* The set in rank order: every document follows those sorted before it.   *)
Ranked(set, score) ==
    [i \in 1..Cardinality(set) |->
        CHOOSE d \in set :
           Cardinality({e \in set : _rank_sort_before(e, d, score)}) = i - 1]

_make_result(rank, document, method) ==
    [rank |-> rank, document_id |-> document.document_id,
     document_type |-> document.document_type, content |-> document.content,
     evidence_status |-> document.evidence_status, symbol |-> document.symbol,
     journal_fingerprint |-> document.journal_fingerprint,
     retrieval_method |-> method]

_finalise(ranked, method, top_k, candidate_count) ==
    [state |-> "OK", candidate_count |-> candidate_count,
     results |-> [i \in 1..(IF Len(ranked) < top_k THEN Len(ranked) ELSE top_k) |->
                     _make_result(i, ranked[i], method)]]

_empty_response(state, candidate_count) ==
    [state |-> state, candidate_count |-> candidate_count, results |-> << >>]

retrieve_evidence(documents, form, score) ==
    LET candidates == Filtered(documents, form)
        positive == {d \in candidates : score[d] > 0}
        top_k == _normalise_top_k(form.top_k)
        count == Cardinality(candidates)
    IN  CASE form.ticket # NoValue /\ candidates = {} ->
                _empty_response("NO_RELEVANT_EVIDENCE", 0)
          [] form.ticket # NoValue /\ candidates # {} ->
                _finalise(Ranked(candidates, score), "EXACT_TICKET", top_k, count)
          [] form.ticket = NoValue /\ form.query = {} -> _empty_response("EMPTY_QUERY", count)
          [] form.ticket = NoValue /\ form.query # {} /\ positive = {} ->
                _empty_response("NO_RELEVANT_EVIDENCE", count)
          [] OTHER -> _finalise(Ranked(positive, score), "TFIDF_COSINE", top_k, count)

=============================================================================
