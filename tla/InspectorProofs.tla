-------------------------- MODULE InspectorProofs ---------------------------
(***************************************************************************)
(* Proofs about GroundingInspector, for any journals, KPIs, verdicts, forms, *)
(* scores and candidate answers.                                           *)
(***************************************************************************)
EXTENDS GroundingInspectorProps, FiniteSetTheorems, WellFoundedInduction, TLAPS

Fingerprint(j) == compute_journal_fingerprint(j)

(* Evidence as StoreEvidence leaves it: of some journal that had a         *)
(* fingerprint.                                                            *)
Stored(state) ==
    state # NoValue =>
        \E j \in Journals :
           /\ Fingerprint(j) # NoValue
           /\ state.journal_fingerprint = Fingerprint(j)
           /\ state.evidence \in [TicketsOf(j) -> Verdicts]

(* Evidence that fits a journal: a verdict for every ticket.               *)
Fits(state, j) == state # NoValue => state.evidence \in [TicketsOf(j) -> Verdicts]

-----------------------------------------------------------------------------
LEMMA ImageIsFinite ==
    ASSUME NEW f, NEW S, f = [x \in S |-> f[x]], IsFiniteSet(S)
    PROVE  /\ IsFiniteSet({f[x] : x \in S})
           /\ Cardinality({f[x] : x \in S}) <= Cardinality(S)
<1> DEFINE T == {f[x] : x \in S}
<1>1. f \in Surjection(S, T)
  BY DEF Surjection
<1> HIDE DEF T
<1>2. IsFiniteSet(T) /\ Cardinality(T) <= Cardinality(S)
  BY <1>1, FS_Surjection
<1> QED
  BY <1>2 DEF T

(* A journal is a finite sequence; its tickets tell its rows apart when it *)
(* has a fingerprint, and the fingerprint has the tickets.                 *)
LEMMA JournalIsFinite ==
    ASSUME NEW j \in Journals
    PROVE  /\ Len(j) \in Nat /\ DOMAIN j = 1..Len(j)
           /\ IsFiniteSet(Rows(j)) /\ IsFiniteSet(TicketsOf(j))
<1>1. j \in Seq({j[i] : i \in DOMAIN j})
  BY CorpusAssumption
<1>2. Len(j) \in Nat /\ DOMAIN j = 1..Len(j)
  BY <1>1
<1>3. IsFiniteSet(DOMAIN j)
  BY <1>2, FS_Interval
<1>4. j = [i \in DOMAIN j |-> j[i]]
  BY <1>1
<1>5. IsFiniteSet(Rows(j))
  BY <1>3, <1>4, ImageIsFinite DEF Rows
<1> DEFINE ticket == [row \in Rows(j) |-> row.ticket]
<1>6. IsFiniteSet({ticket[row] : row \in Rows(j)})
  BY <1>5, ImageIsFinite
<1>7. {ticket[row] : row \in Rows(j)} = TicketsOf(j)
  BY DEF TicketsOf
<1> QED
  BY <1>2, <1>5, <1>6, <1>7

LEMMA TicketsIdentify ==
    ASSUME NEW j \in Journals, Fingerprint(j) # NoValue
    PROVE  /\ \A row \in Rows(j) : row.ticket \in TicketsOf(j) /\ row.ticket # NoValue
           /\ \A a, b \in Rows(j) : a.ticket = b.ticket => a = b
<1>1. NoValue \notin TicketsOf(j) /\ Cardinality(TicketsOf(j)) = Len(j)
  BY DEF Fingerprint, compute_journal_fingerprint
<1> DEFINE ticket == [i \in 1..Len(j) |-> j[i].ticket]
<1>2. Len(j) \in Nat /\ DOMAIN j = 1..Len(j)
  BY JournalIsFinite
<1>3. TicketsOf(j) = {j[i].ticket : i \in 1..Len(j)}
  BY <1>2 DEF TicketsOf, Rows
<1>4. ticket \in Surjection(1..Len(j), TicketsOf(j))
  BY <1>3 DEF Surjection
<1>5. IsFiniteSet(1..Len(j)) /\ Cardinality(1..Len(j)) = Len(j)
  <2>1. Len(j) \in Int /\ 1 \in Int
    BY <1>2
  <2>2. /\ IsFiniteSet(1..Len(j))
        /\ Cardinality(1..Len(j)) = IF 1 > Len(j) THEN 0 ELSE Len(j) - 1 + 1
    BY <2>1, FS_Interval
  <2> QED
    BY <1>2, <2>2
<1>6. ticket \in Injection(1..Len(j), TicketsOf(j))
  BY <1>1, <1>4, <1>5, FS_Surjection
<1>7. \A i, k \in 1..Len(j) : j[i].ticket = j[k].ticket => i = k
  BY <1>6 DEF Injection, IsInjective
<1> HIDE DEF ticket
<1>8. \A row \in Rows(j) : \E i \in 1..Len(j) : row = j[i]
  BY <1>2 DEF Rows
<1>9. \A row \in Rows(j) : row.ticket \in TicketsOf(j)
  BY DEF TicketsOf
<1> QED
  BY <1>1, <1>7, <1>8, <1>9

LEMMA FingerprintHasTickets ==
    ASSUME NEW j, Fingerprint(j) # NoValue
    PROVE  TicketsOf(j) = {entry.ticket : entry \in Fingerprint(j)}
<1> DEFINE entry(row) ==
       [ticket |-> row.ticket, symbol |-> row.symbol,
        lines |-> [k \in DOMAIN row.lines \cap FingerprintedLines |-> row.lines[k]]]
<1>1. Fingerprint(j) = {entry(row) : row \in Rows(j)}
  BY DEF Fingerprint, compute_journal_fingerprint
<1>2. \A row : entry(row).ticket = row.ticket
  OBVIOUS
<1> HIDE DEF entry
<1> QED
  BY <1>1, <1>2 DEF TicketsOf

LEMMA BoundFits ==
    ASSUME NEW state, Stored(state), NEW j \in Journals
    PROVE  Fits(BoundState(state, j), j)
<1> SUFFICES ASSUME BoundState(state, j) # NoValue
             PROVE  BoundState(state, j).evidence \in [TicketsOf(j) -> Verdicts]
  BY DEF Fits
<1>1. /\ BoundState(state, j) = state /\ state # NoValue
      /\ state.journal_fingerprint = Fingerprint(j)
  BY DEF BoundState, Fingerprint
<1>2. PICK k \in Journals : /\ Fingerprint(k) # NoValue
                            /\ state.journal_fingerprint = Fingerprint(k)
                            /\ state.evidence \in [TicketsOf(k) -> Verdicts]
  BY <1>1 DEF Stored
<1>3. TicketsOf(k) = TicketsOf(j)
  BY <1>1, <1>2, FingerprintHasTickets
<1> QED
  BY <1>1, <1>2, <1>3

-----------------------------------------------------------------------------
(* The corpus of a journal that has a fingerprint, with evidence that fits.  *)
Corpus(j, state) == build_evidence_corpus(j, Kpis[j], state)

TradeDocument(j, state, row) ==
    Document("TRADE_EVIDENCE", row.ticket, Fingerprint(j),
             _trade_content(row, ItemOf(row, state)), ItemOf(row, state).status, row.symbol)

KpiDocument(j, k) ==
    Document("KPI_EVIDENCE", k, Fingerprint(j), [label \in {k} |-> Kpis[j][label]],
             "AUTHORITATIVE", NoValue)

LEMMA CorpusIs ==
    ASSUME NEW j, NEW state
    PROVE  Corpus(j, state) =
              {TradeDocument(j, state, row) : row \in Rows(j)}
              \cup {KpiDocument(j, k) : k \in DOMAIN Kpis[j]}
              \cup {_dataset_document(j, state)}
  BY DEF Corpus, build_evidence_corpus, _trade_documents, _kpi_documents, TradeDocument,
         KpiDocument, Fingerprint

LEMMA TradeDocumentIs ==
    ASSUME NEW j, NEW state, NEW row
    PROVE  LET d == TradeDocument(j, state, row) IN
           /\ d.document_id = <<"TRADE_EVIDENCE", row.ticket>>
           /\ d.document_type = "TRADE_EVIDENCE" /\ d.source_record_key = row.ticket
           /\ d.journal_fingerprint = Fingerprint(j) /\ d.symbol = row.symbol
           /\ d.content = _trade_content(row, ItemOf(row, state))
           /\ d.evidence_status = ItemOf(row, state).status
  BY DEF TradeDocument, Document

LEMMA KpiDocumentIs ==
    ASSUME NEW j, NEW k
    PROVE  LET d == KpiDocument(j, k) IN
           /\ d.document_id = <<"KPI_EVIDENCE", k>>
           /\ d.document_type = "KPI_EVIDENCE" /\ d.source_record_key = k
           /\ d.journal_fingerprint = Fingerprint(j) /\ d.symbol = NoValue
           /\ d.content = [label \in {k} |-> Kpis[j][label]]
           /\ d.evidence_status = "AUTHORITATIVE"
  BY DEF KpiDocument, Document

LEMMA DatasetDocumentIs ==
    ASSUME NEW j, NEW state
    PROVE  LET d == _dataset_document(j, state) IN
           /\ d.document_id = <<"DATASET_CONTEXT", "journal">>
           /\ d.document_type = "DATASET_CONTEXT" /\ d.source_record_key = "journal"
           /\ d.journal_fingerprint = Fingerprint(j) /\ d.symbol = NoValue
           /\ d.evidence_status \in {"NO_M1_EVIDENCE", "BOUND"}
           /\ "journal_row_count" \in DOMAIN d.content
           /\ d.content["journal_row_count"] = Numeral[Len(j)]
           /\ DOMAIN d.content \subseteq
                 {"journal_row_count", "source_filename", "declared_time_basis"}
  BY DEF _dataset_document, Document, Fingerprint

LEMMA CorpusIsFinite ==
    ASSUME NEW j \in Journals, NEW state
    PROVE  IsFiniteSet(Corpus(j, state))
<1> DEFINE trade == [row \in Rows(j) |-> TradeDocument(j, state, row)]
           kpi == [k \in DOMAIN Kpis[j] |-> KpiDocument(j, k)]
<1>1. IsFiniteSet({trade[row] : row \in Rows(j)})
  BY JournalIsFinite, ImageIsFinite
<1>2. IsFiniteSet({kpi[k] : k \in DOMAIN Kpis[j]})
  BY CorpusAssumption, ImageIsFinite
<1>3. /\ {trade[row] : row \in Rows(j)} = {TradeDocument(j, state, row) : row \in Rows(j)}
      /\ {kpi[k] : k \in DOMAIN Kpis[j]} = {KpiDocument(j, k) : k \in DOMAIN Kpis[j]}
  OBVIOUS
<1> HIDE DEF trade, kpi
<1>4. IsFiniteSet({trade[row] : row \in Rows(j)} \cup {kpi[k] : k \in DOMAIN Kpis[j]})
  BY <1>1, <1>2, FS_Union
<1> QED
  BY <1>3, <1>4, CorpusIs, FS_AddElement

LEMMA CorpusTyped ==
    ASSUME NEW j \in Journals, NEW state, Fingerprint(j) # NoValue, NEW d \in Corpus(j, state)
    PROVE  /\ d.document_type \in {"TRADE_EVIDENCE", "KPI_EVIDENCE", "DATASET_CONTEXT"}
           /\ d.document_id = <<d.document_type, d.source_record_key>>
           /\ d.journal_fingerprint = Fingerprint(j)
           /\ d.source_record_key \in RecordKeys
           /\ d.document_type = "TRADE_EVIDENCE" =>
                 \E row \in Rows(j) : d = TradeDocument(j, state, row)
           /\ d.document_type = "KPI_EVIDENCE" =>
                 \E k \in DOMAIN Kpis[j] : d = KpiDocument(j, k)
           /\ d.document_type = "DATASET_CONTEXT" => d = _dataset_document(j, state)
<1>1. CASE \E row \in Rows(j) : d = TradeDocument(j, state, row)
  <2>1. PICK row \in Rows(j) : d = TradeDocument(j, state, row)
    BY <1>1
  <2>2. row.ticket \in RecordKeys
    BY TicketsIdentify DEF RecordKeys
  <2> QED
    BY <2>1, <2>2, TradeDocumentIs
<1>2. CASE \E k \in DOMAIN Kpis[j] : d = KpiDocument(j, k)
  <2>1. PICK k \in DOMAIN Kpis[j] : d = KpiDocument(j, k)
    BY <1>2
  <2>2. k \in RecordKeys
    BY DEF RecordKeys
  <2>3. /\ d.document_id = <<"KPI_EVIDENCE", k>>
        /\ d.document_type = "KPI_EVIDENCE" /\ d.source_record_key = k
        /\ d.journal_fingerprint = Fingerprint(j)
    BY <2>1 DEF KpiDocument, Document
  <2> QED
    BY <2>1, <2>2, <2>3
<1>3. CASE d = _dataset_document(j, state)
  <2>1. "journal" \in RecordKeys
    BY DEF RecordKeys
  <2> QED
    BY <1>3, <2>1, DatasetDocumentIs
<1> QED
  BY <1>1, <1>2, <1>3, CorpusIs

LEMMA IdsIdentify ==
    ASSUME NEW j \in Journals, NEW state, Fingerprint(j) # NoValue,
           NEW d \in Corpus(j, state), NEW e \in Corpus(j, state),
           d.document_type = e.document_type, d.source_record_key = e.source_record_key
    PROVE  d = e
<1>1. CASE d.document_type = "TRADE_EVIDENCE"
  <2>1. PICK a \in Rows(j) : d = TradeDocument(j, state, a)
    BY <1>1, CorpusTyped
  <2>2. PICK b \in Rows(j) : e = TradeDocument(j, state, b)
    BY <1>1, CorpusTyped
  <2>3. a.ticket = b.ticket
    BY <2>1, <2>2, TradeDocumentIs
  <2> QED
    BY <2>1, <2>2, <2>3, TicketsIdentify
<1>2. CASE d.document_type = "KPI_EVIDENCE"
  <2>1. PICK k \in DOMAIN Kpis[j] : d = KpiDocument(j, k)
    BY <1>2, CorpusTyped
  <2>2. PICK l \in DOMAIN Kpis[j] : e = KpiDocument(j, l)
    BY <1>2, CorpusTyped
  <2>3. d.source_record_key = k /\ e.source_record_key = l
    BY <2>1, <2>2, KpiDocumentIs
  <2> QED
    BY <2>1, <2>2, <2>3
<1>3. CASE d.document_type = "DATASET_CONTEXT"
  BY <1>3, CorpusTyped
<1> QED
  BY <1>1, <1>2, <1>3, CorpusTyped

(* The corpus of a journal passes its checks exactly when the journal has a  *)
(* fingerprint.                                                            *)
LEMMA CorpusIsValid ==
    ASSUME NEW j \in Journals, j # << >>, NEW state, Fits(state, j)
    PROVE  CorpusValid(j, Kpis[j], state) <=> Fingerprint(j) # NoValue
<1> SUFFICES ASSUME Fingerprint(j) # NoValue PROVE CorpusValid(j, Kpis[j], state)
  BY DEF CorpusValid, Fingerprint
<1>1. _assert_bound_ticket_parity(j, state)
  BY DEF _assert_bound_ticket_parity, Fits
<1>2. _assert_computed_evidence(state)
  BY CorpusAssumption DEF _assert_computed_evidence, Fits
<1> DEFINE documents == Corpus(j, state)
<1>3. ASSUME NEW d \in documents, NEW e \in documents, d.document_id = e.document_id
      PROVE  d = e
  <2>1. d.document_type = e.document_type /\ d.source_record_key = e.source_record_key
    BY <1>3, CorpusTyped
  <2> QED
    BY <2>1, IdsIdentify
<1>4. ASSUME NEW d \in documents
      PROVE  /\ d.journal_fingerprint = compute_journal_fingerprint(j)
             /\ d.document_id = <<d.document_type, d.source_record_key>>
  BY CorpusTyped DEF Fingerprint
<1>5. Cardinality({d \in documents : d.document_type = "DATASET_CONTEXT"}) = 1
  <2>1. {d \in documents : d.document_type = "DATASET_CONTEXT"} = {_dataset_document(j, state)}
    BY CorpusTyped, CorpusIs, DatasetDocumentIs
  <2> QED
    BY <2>1, FS_Singleton
<1>6. documents = build_evidence_corpus(j, Kpis[j], state)
  BY DEF Corpus
<1> HIDE DEF documents
<1> QED
  BY <1>1, <1>2, <1>3, <1>4, <1>5, <1>6 DEF CorpusValid, Fingerprint

-----------------------------------------------------------------------------
(* A strict total order on a finite set numbers it: every place has exactly  *)
(* one element with as many before it.                                     *)
LEMMA OrderNumbers ==
    ASSUME NEW S, IsFiniteSet(S), NEW R,
           \A d \in S : <<d, d>> \notin R,
           \A d, e, f \in S : <<d, e>> \in R /\ <<e, f>> \in R => <<d, f>> \in R,
           \A d, e \in S : d # e => <<d, e>> \in R \/ <<e, d>> \in R
    PROVE  /\ Cardinality(S) \in Nat
           /\ \A i \in 1..Cardinality(S) :
                 \E d \in S : Cardinality({e \in S : <<e, d>> \in R}) = i - 1
           /\ \A d \in S :
                 /\ Cardinality({e \in S : <<e, d>> \in R}) \in Nat
                 /\ Cardinality({e \in S : <<e, d>> \in R}) + 1 \in 1..Cardinality(S)
           /\ \A d, e \in S :
                 Cardinality({c \in S : <<c, d>> \in R}) = Cardinality({c \in S : <<c, e>> \in R})
                    => d = e
<1> DEFINE Before(d) == {e \in S : <<e, d>> \in R}
           place == [d \in S |-> Cardinality(Before(d)) + 1]
           n == Cardinality(S)
<1>1. n \in Nat
  BY FS_CardinalityType
<1>2. /\ \A d \in S : Before(d) \subseteq S /\ d \notin Before(d)
      /\ \A d, e \in S : <<d, e>> \in R =>
            d \in Before(e) /\ Before(d) \subseteq Before(e)
  OBVIOUS
<1>3. \A d \in S : Before(d) = {e \in S : <<e, d>> \in R}
  OBVIOUS
<1> HIDE DEF Before
<1>4. ASSUME NEW d \in S
      PROVE  /\ IsFiniteSet(Before(d)) /\ Cardinality(Before(d)) \in Nat
             /\ Cardinality(Before(d)) < n
  <2>1. Before(d) \in SUBSET S /\ Before(d) # S
    BY <1>2
  <2>2. /\ IsFiniteSet(Before(d)) /\ Cardinality(Before(d)) <= n
        /\ n = Cardinality(Before(d)) => S = Before(d)
    BY <2>1, FS_Subset
  <2>3. Cardinality(Before(d)) \in Nat
    BY <2>2, FS_CardinalityType
  <2> QED
    BY <1>1, <2>1, <2>2, <2>3
<1>5. ASSUME NEW d \in S, NEW e \in S, <<d, e>> \in R
      PROVE  Cardinality(Before(d)) < Cardinality(Before(e))
  <2>1. Before(d) \in SUBSET Before(e) /\ Before(d) # Before(e)
    BY <1>2, <1>5
  <2>2. IsFiniteSet(Before(e))
    BY <1>4
  <2>3. /\ Cardinality(Before(d)) <= Cardinality(Before(e))
        /\ Cardinality(Before(e)) = Cardinality(Before(d)) => Before(e) = Before(d)
    BY <2>1, <2>2, FS_Subset
  <2>4. Cardinality(Before(d)) \in Nat /\ Cardinality(Before(e)) \in Nat
    BY <1>4
  <2> QED
    BY <2>1, <2>3, <2>4
<1>6. ASSUME NEW d \in S, NEW e \in S, Cardinality(Before(d)) = Cardinality(Before(e))
      PROVE  d = e
  <2>1. Cardinality(Before(d)) \in Nat /\ Cardinality(Before(e)) \in Nat
    BY <1>4
  <2>2. ~ (Cardinality(Before(d)) < Cardinality(Before(e)))
    BY <1>6, <2>1
  <2>3. ~ (Cardinality(Before(e)) < Cardinality(Before(d)))
    BY <1>6, <2>1
  <2>4. <<d, e>> \notin R /\ <<e, d>> \notin R
    BY <1>5, <2>2, <2>3
  <2> QED
    BY <2>4
<1>7. place \in [S -> 1..n]
  <2>1. \A d \in S : Cardinality(Before(d)) + 1 \in 1..n
    BY <1>1, <1>4
  <2> QED
    BY <2>1
<1>8. place \in Injection(S, 1..n)
  <2>1. ASSUME NEW d \in S, NEW e \in S, place[d] = place[e] PROVE d = e
    <3>1. Cardinality(Before(d)) \in Nat /\ Cardinality(Before(e)) \in Nat
      BY <1>4
    <3>2. Cardinality(Before(d)) + 1 = Cardinality(Before(e)) + 1
      BY <2>1
    <3>3. Cardinality(Before(d)) = Cardinality(Before(e))
      BY <3>1, <3>2
    <3> QED
      BY <1>6, <3>3
  <2> HIDE DEF place
  <2> QED
    BY <1>7, <2>1 DEF Injection, IsInjective
<1>9. IsFiniteSet(1..n) /\ Cardinality(1..n) = n
  <2>1. 1 \in Int /\ n \in Int
    BY <1>1
  <2>2. IsFiniteSet(1..n) /\ Cardinality(1..n) = IF 1 > n THEN 0 ELSE n - 1 + 1
    BY <2>1, FS_Interval
  <2> QED
    BY <1>1, <2>2
<1>10. place \in Surjection(S, 1..n)
  <2> HIDE DEF place
  <2> QED
    BY <1>8, <1>9, FS_Injection
<1>11. ASSUME NEW i \in 1..n PROVE \E d \in S : Cardinality(Before(d)) = i - 1
  <2>1. PICK d \in S : place[d] = i
    BY <1>10 DEF Surjection
  <2>2. Cardinality(Before(d)) + 1 = i /\ Cardinality(Before(d)) \in Nat
    BY <1>4, <2>1
  <2>3. Cardinality(Before(d)) = i - 1
    BY <2>2
  <2> QED
    BY <2>3
<1>12. \A d \in S : Cardinality(Before(d)) \in Nat /\ Cardinality(Before(d)) + 1 \in 1..n
  BY <1>1, <1>4
<1> QED
  BY <1>1, <1>6, <1>11, <1>12 DEF Before

-----------------------------------------------------------------------------
(* Record keys are in a strict total order, and so are the documents found.  *)
LEMMA SourceOrder ==
    ASSUME NEW a \in RecordKeys, NEW b \in RecordKeys
    PROVE  /\ ~SourceBefore(a, a)
           /\ a # b => SourceBefore(a, b) \/ SourceBefore(b, a)
           /\ \A c \in RecordKeys : SourceBefore(a, b) /\ SourceBefore(b, c) => SourceBefore(a, c)
<1>1. /\ \A x \in DOMAIN NumericKey : NumericKey[x] \in Int
      /\ \A x \in RecordKeys : TextRank[x] \in Int
      /\ \A x, y \in RecordKeys : TextRank[x] = TextRank[y] => x = y
  BY CorpusAssumption
<1> QED
  BY <1>1 DEF SourceBefore

LEMMA RankOrder ==
    ASSUME NEW j \in Journals, NEW state, Fingerprint(j) # NoValue,
           NEW set \in SUBSET Corpus(j, state), NEW score, \A d \in set : score[d] \in Int
    PROVE  /\ \A d \in set : ~_rank_sort_before(d, d, score)
           /\ \A d, e \in set :
                 d # e => _rank_sort_before(d, e, score) \/ _rank_sort_before(e, d, score)
           /\ \A d, e, f \in set :
                 _rank_sort_before(d, e, score) /\ _rank_sort_before(e, f, score)
                    => _rank_sort_before(d, f, score)
<1> DEFINE priority(d) == DOCUMENT_TYPE_PRIORITY[d.document_type]
           source(d) == d.source_record_key
           before(d, e) == SourceBefore(source(d), source(e))
<1>1. \A d \in set : priority(d) \in Int /\ source(d) \in RecordKeys
  BY CorpusTyped DEF DOCUMENT_TYPE_PRIORITY
<1>2. \A d, e \in set : priority(d) = priority(e) /\ source(d) = source(e) => d = e
  <2>1. \A d, e \in set : priority(d) = priority(e) => d.document_type = e.document_type
    BY CorpusTyped DEF DOCUMENT_TYPE_PRIORITY
  <2> QED
    BY <2>1, IdsIdentify
<1>3. \A d, e : _rank_sort_before(d, e, score) <=>
                   \/ score[d] > score[e]
                   \/ score[d] = score[e] /\ priority(d) < priority(e)
                   \/ score[d] = score[e] /\ priority(d) = priority(e) /\ before(d, e)
  BY DEF _rank_sort_before
<1>4. /\ \A d \in set : ~before(d, d)
      /\ \A d, e \in set : source(d) # source(e) => before(d, e) \/ before(e, d)
      /\ \A d, e, f \in set : before(d, e) /\ before(e, f) => before(d, f)
  BY <1>1, SourceOrder
<1> HIDE DEF priority, source, before
<1>5. \A d \in set : ~_rank_sort_before(d, d, score)
  BY <1>1, <1>3, <1>4
<1>6. ASSUME NEW d \in set, NEW e \in set, d # e
      PROVE  _rank_sort_before(d, e, score) \/ _rank_sort_before(e, d, score)
  <2>1. \/ score[d] > score[e] \/ score[d] < score[e]
        \/ score[d] = score[e] /\ priority(d) # priority(e)
        \/ score[d] = score[e] /\ priority(d) = priority(e) /\ source(d) # source(e)
    BY <1>2, <1>6
  <2> QED
    BY <1>1, <1>3, <1>4, <2>1
<1>7. ASSUME NEW d \in set, NEW e \in set, NEW f \in set,
             _rank_sort_before(d, e, score), _rank_sort_before(e, f, score)
      PROVE  _rank_sort_before(d, f, score)
  BY <1>1, <1>3, <1>4, <1>7
<1> QED
  BY <1>5, <1>6, <1>7

(* Ranked lists the set without repetition or gap.                         *)
LEMMA RankedNumbers ==
    ASSUME NEW j \in Journals, NEW state, Fingerprint(j) # NoValue,
           NEW set \in SUBSET Corpus(j, state), NEW score, \A d \in set : score[d] \in Int
    PROVE  /\ Cardinality(set) \in Nat
           /\ Ranked(set, score) \in Seq(set) /\ Len(Ranked(set, score)) = Cardinality(set)
           /\ \A d \in set : \E i \in 1..Cardinality(set) : Ranked(set, score)[i] = d
<1> DEFINE R == {p \in set \X set : _rank_sort_before(p[1], p[2], score)}
           place(d) == Cardinality({e \in set : <<e, d>> \in R})
           n == Cardinality(set)
<1>1. \A d, e \in set : <<d, e>> \in R <=> _rank_sort_before(d, e, score)
  OBVIOUS
<1>2. IsFiniteSet(set)
  BY CorpusIsFinite, FS_Subset
<1>3. /\ \A d \in set : <<d, d>> \notin R
      /\ \A d, e \in set : d # e => <<d, e>> \in R \/ <<e, d>> \in R
      /\ \A d, e, f \in set : <<d, e>> \in R /\ <<e, f>> \in R => <<d, f>> \in R
  <2> HIDE DEF R
  <2> QED
    BY <1>1, RankOrder
<1>4. Ranked(set, score) = [i \in 1..n |-> CHOOSE d \in set : place(d) = i - 1]
  <2>1. \A d \in set : {e \in set : <<e, d>> \in R} = {e \in set : _rank_sort_before(e, d, score)}
    BY <1>1
  <2> HIDE DEF R
  <2> DEFINE old(i) == CHOOSE d \in set :
                          Cardinality({e \in set : _rank_sort_before(e, d, score)}) = i - 1
             new(i) == CHOOSE d \in set : place(d) = i - 1
  <2>2. \A i : old(i) = new(i)
    BY <2>1
  <2>3. Ranked(set, score) = [i \in 1..n |-> old(i)]
    BY DEF Ranked
  <2> HIDE DEF old
  <2>4. Ranked(set, score) = [i \in 1..n |-> new(i)]
    BY <2>2, <2>3
  <2> QED
    BY <2>4
<1> HIDE DEF R
<1>5. /\ n \in Nat
      /\ \A i \in 1..n : \E d \in set : place(d) = i - 1
      /\ \A d \in set : place(d) \in Nat /\ place(d) + 1 \in 1..n
      /\ \A d, e \in set : place(d) = place(e) => d = e
  BY <1>2, <1>3, OrderNumbers
<1> HIDE DEF place, n
<1>6. \A i \in 1..n : Ranked(set, score)[i] \in set /\ place(Ranked(set, score)[i]) = i - 1
  BY <1>4, <1>5
<1>7. Ranked(set, score) \in Seq(set) /\ Len(Ranked(set, score)) = n
  BY <1>4, <1>5, <1>6
<1>8. ASSUME NEW d \in set PROVE \E i \in 1..n : Ranked(set, score)[i] = d
  <2>1. \A i \in 1..n : i = place(d) + 1 => i - 1 = place(d)
    BY <1>5
  <2> QED
    BY <1>5, <1>6, <2>1
<1> QED
  BY <1>5, <1>7, <1>8 DEF n

-----------------------------------------------------------------------------
(* What a retrieval returns: some of the documents that the filters leave, *)
(* and a count of candidates that tells when relevant ones are missing.    *)
Candidates(j, state, form) == Filtered(Corpus(j, state), form)

Relevant(d, form) == form.ticket = NoValue => form.query \cap Words(d) # {}

Found(j, state, form, response) ==
    \E method : \E found \in Seq(Candidates(j, state, form)) :
       /\ Len(found) \in 1..MAX_EVIDENCE_ITEMS
       /\ response.results = [i \in 1..Len(found) |-> _make_result(i, found[i], method)]
       /\ response.candidate_count \in Nat
       /\ (\E d \in Candidates(j, state, form) :
              Relevant(d, form) /\ \A i \in 1..Len(found) : found[i] # d)
             => response.candidate_count > Len(found)

LEMMA FinaliseFinds ==
    ASSUME NEW j \in Journals, NEW state, Fingerprint(j) # NoValue, NEW form,
           NEW set \in SUBSET Candidates(j, state, form), set # {},
           \A d \in Candidates(j, state, form) : Relevant(d, form) => d \in set,
           NEW score, \A d \in set : score[d] \in Int, NEW method,
           NEW top_k \in 1..MAX_TOP_K, NEW count \in Nat, Cardinality(set) <= count
    PROVE  Found(j, state, form, _finalise(Ranked(set, score), method, top_k, count))
<1> DEFINE ranked == Ranked(set, score)
           n == Cardinality(set)
           m == IF n < top_k THEN n ELSE top_k
           found == [i \in 1..m |-> ranked[i]]
           response == _finalise(ranked, method, top_k, count)
<1>1. set \in SUBSET Corpus(j, state)
  BY DEF Candidates, Filtered
<1>2. /\ n \in Nat /\ ranked \in Seq(set) /\ Len(ranked) = n
      /\ \A d \in set : \E i \in 1..n : ranked[i] = d
  BY <1>1, RankedNumbers
<1>3. /\ response.results = [i \in 1..(IF Len(ranked) < top_k THEN Len(ranked) ELSE top_k) |->
                                _make_result(i, ranked[i], method)]
      /\ response.candidate_count = count
  BY DEF _finalise
<1> HIDE DEF ranked, n, response
<1>4. MAX_TOP_K \in Nat /\ MAX_EVIDENCE_ITEMS \in Nat /\ MAX_TOP_K <= MAX_EVIDENCE_ITEMS
  BY InspectorAssumption, MaxItemsAssumption
<1>5. n >= 1
  BY <1>2
<1>6. m \in 1..MAX_EVIDENCE_ITEMS /\ m <= n /\ m <= top_k
  BY <1>2, <1>4, <1>5
<1>7. found \in Seq(set) /\ Len(found) = m
  BY <1>2, <1>6
<1>8. response.results = [i \in 1..m |-> _make_result(i, found[i], method)]
  <2>1. response.results = [i \in 1..m |-> _make_result(i, ranked[i], method)]
    BY <1>2, <1>3
  <2> QED
    BY <2>1
<1>9. ASSUME NEW d \in Candidates(j, state, form), Relevant(d, form),
             \A i \in 1..Len(found) : found[i] # d
      PROVE  count > m
  <2>1. PICK i \in 1..n : ranked[i] = d
    BY <1>2, <1>9
  <2>2. i \notin 1..m
    BY <1>7, <1>9, <2>1
  <2>3. n > m
    BY <1>2, <1>6, <2>2
  <2>4. n <= count
    BY DEF n
  <2> QED
    BY <1>2, <1>6, <2>3, <2>4
<1> HIDE DEF m, found
<1>10. found \in Seq(Candidates(j, state, form))
  BY <1>7
<1>11. Found(j, state, form, response)
  <2>1. Len(found) \in 1..MAX_EVIDENCE_ITEMS
    BY <1>6, <1>7
  <2>2. response.results = [i \in 1..Len(found) |-> _make_result(i, found[i], method)]
    BY <1>7, <1>8
  <2>3. (\E d \in Candidates(j, state, form) :
            Relevant(d, form) /\ \A i \in 1..Len(found) : found[i] # d)
           => response.candidate_count > Len(found)
    BY <1>3, <1>7, <1>9
  <2> QED
    BY <1>3, <1>10, <2>1, <2>2, <2>3 DEF Found
<1> QED
  BY <1>11 DEF response, ranked

LEMMA RetrievalFinds ==
    ASSUME NEW j \in Journals, NEW state, Fingerprint(j) # NoValue, NEW form,
           NEW score \in Scores(Candidates(j, state, form), form, MaxScore),
           retrieve_evidence(Corpus(j, state), form, score).state = "OK"
    PROVE  Found(j, state, form, retrieve_evidence(Corpus(j, state), form, score))
<1> DEFINE candidates == Candidates(j, state, form)
           positive == {d \in candidates : score[d] > 0}
           top_k == _normalise_top_k(form.top_k)
           count == Cardinality(candidates)
           response == retrieve_evidence(Corpus(j, state), form, score)
<1>1. /\ score \in [candidates -> 0..MaxScore] /\ MaxScore \in Nat
      /\ \A d \in candidates : score[d] > 0 <=> form.ticket = NoValue /\ form.query \cap Words(d) # {}
  BY InspectorAssumption DEF Scores
<1>2. top_k \in 1..MAX_TOP_K
  BY InspectorAssumption, MaxItemsAssumption DEF _normalise_top_k
<1>3. IsFiniteSet(candidates) /\ count \in Nat
  <2>1. candidates \in SUBSET Corpus(j, state)
    BY DEF Candidates, Filtered
  <2>2. IsFiniteSet(candidates)
    BY <2>1, CorpusIsFinite, FS_Subset
  <2> QED
    BY <2>2, FS_CardinalityType
<1>4. \/ /\ form.ticket # NoValue /\ candidates # {}
         /\ response = _finalise(Ranked(candidates, score), "EXACT_TICKET", top_k, count)
      \/ /\ form.ticket = NoValue /\ positive # {}
         /\ response = _finalise(Ranked(positive, score), "TFIDF_COSINE", top_k, count)
  <2>1. \A n : \A code \in {"NO_RELEVANT_EVIDENCE", "EMPTY_QUERY"} :
           _empty_response(code, n).state # "OK"
    BY DEF _empty_response
  <2> QED
    BY <2>1 DEF retrieve_evidence, Candidates
<1>5. CASE /\ form.ticket # NoValue /\ candidates # {}
           /\ response = _finalise(Ranked(candidates, score), "EXACT_TICKET", top_k, count)
  <2>1. \A d \in candidates : score[d] \in Int
    BY <1>1
  <2> HIDE DEF candidates, top_k, response
  <2>2. count <= count
    BY <1>3
  <2> HIDE DEF count
  <2>3. Found(j, state, form, _finalise(Ranked(candidates, score), "EXACT_TICKET", top_k, count))
    BY <1>2, <1>3, <1>5, <2>1, <2>2, FinaliseFinds DEF candidates, count
  <2> QED
    BY <1>5, <2>3 DEF response
<1>6. CASE /\ form.ticket = NoValue /\ positive # {}
           /\ response = _finalise(Ranked(positive, score), "TFIDF_COSINE", top_k, count)
  <2>1. \A d \in positive : score[d] \in Int
    BY <1>1
  <2>2. \A d \in candidates : Relevant(d, form) => d \in positive
    BY <1>1, <1>6 DEF Relevant
  <2>3. positive \in SUBSET candidates
    OBVIOUS
  <2> HIDE DEF positive, top_k, response
  <2>4. Cardinality(positive) <= count
    BY <1>3, <2>3, FS_Subset
  <2>5. Found(j, state, form, _finalise(Ranked(positive, score), "TFIDF_COSINE", top_k, count))
    BY <1>2, <1>3, <1>6, <2>1, <2>2, <2>3, <2>4, FinaliseFinds
  <2> QED
    BY <1>6, <2>5 DEF response
<1> QED
  BY <1>4, <1>5, <1>6

-----------------------------------------------------------------------------
(* The packet: what a retrieved document becomes.                          *)
LEMMA TradeProjection ==
    ASSUME NEW j, NEW state, NEW row, NEW rank, NEW method
    PROVE  LET result == _make_result(rank, TradeDocument(j, state, row), method) IN
           /\ result.document_type = "TRADE_EVIDENCE"
           /\ result.evidence_status = ItemOf(row, state).status
           /\ StatedSymbols(result) \subseteq {row.symbol} \ {NoValue}
           /\ row.symbol # NoValue => StatedSymbols(result) = {row.symbol}
<1> DEFINE document == TradeDocument(j, state, row)
           result == _make_result(rank, document, method)
           content == _trade_content(row, ItemOf(row, state))
<1>1. /\ document.document_type = "TRADE_EVIDENCE" /\ document.content = content
      /\ document.evidence_status = ItemOf(row, state).status /\ document.symbol = row.symbol
  BY DEF TradeDocument, Document
<1> HIDE DEF document
<1>2. /\ result.document_type = "TRADE_EVIDENCE" /\ result.content = content
      /\ result.evidence_status = ItemOf(row, state).status /\ result.symbol = row.symbol
  BY <1>1 DEF _make_result
<1> HIDE DEF result
<1>3. "symbol" \in DOMAIN content => content["symbol"] = row.symbol
  BY DEF _trade_content, ExcursionLines
<1> HIDE DEF content
<1>4. \A k \in DOMAIN _content_map(content) : k \in DOMAIN content /\ _content_map(content)[k] = content[k]
  BY DEF _content_map, Restricted
<1>5. StatedSymbols(result) \subseteq {row.symbol} \ {NoValue}
  BY <1>2, <1>3, <1>4 DEF StatedSymbols
<1>6. row.symbol # NoValue => StatedSymbols(result) = {row.symbol}
  BY <1>2, <1>5 DEF StatedSymbols
<1> QED
  BY <1>2, <1>5, <1>6 DEF result, document

(* The value of a field is a line of the document, a symbol or the status. *)
LEMMA TradeFields ==
    ASSUME NEW j, NEW state, NEW row, NEW rank, NEW method, NEW k,
           k \in DOMAIN _project_trade(_make_result(rank, TradeDocument(j, state, row), method))
    PROVE  LET fields == _project_trade(_make_result(rank, TradeDocument(j, state, row), method))
               item == ItemOf(row, state)
           IN  /\ k = "ticket" => fields[k] = row.ticket
               /\ k = "symbol" => fields[k] = row.symbol /\ row.symbol # NoValue
               /\ k = "bar_evidence_status" => fields[k] = item.status
               /\ k \in ExcursionLines => item.status = "COMPUTED" /\ fields[k] = item.lines[k]
               /\ k \notin ExcursionLines \cup {"ticket", "symbol", "bar_evidence_status", "side"}
                     => fields[k] = row.lines[k]
<1> DEFINE result == _make_result(rank, TradeDocument(j, state, row), method)
           content == _trade_content(row, ItemOf(row, state))
           lines == TradeLines(result)
           symbols == StatedSymbols(result)
           fields == _project_trade(result)
<1>1. /\ result.content = content /\ result.evidence_status = ItemOf(row, state).status
      /\ symbols \subseteq {row.symbol} \ {NoValue}
  BY TradeProjection DEF TradeDocument, Document, _make_result
<1> HIDE DEF result
<1>2. \A l \in DOMAIN lines :
         /\ l \in DOMAIN content
         /\ l # "side" => lines[l] = content[l]
         /\ l \notin {"symbol", "bar_evidence_status"}
         /\ l \in ExcursionLines => ItemOf(row, state).status = "COMPUTED"
  <2> HIDE DEF content
  <2> QED
    BY <1>1 DEF TradeLines, _content_map, Restricted, EXCURSION_FIELD_KEYS, ExcursionLines
<1>3. \A l \in DOMAIN content :
         /\ l = "ticket" => content[l] = row.ticket
         /\ l \in ExcursionLines /\ ItemOf(row, state).status = "COMPUTED" =>
               content[l] = ItemOf(row, state).lines[l]
         /\ l \notin ExcursionLines \cup {"ticket", "symbol"} => content[l] = row.lines[l]
  BY DEF _trade_content, ExcursionLines
<1> HIDE DEF content, lines, symbols
<1>4. /\ k \in DOMAIN lines \cup {"bar_evidence_status"} \cup (IF symbols = {} THEN {} ELSE {"symbol"})
      /\ k = "bar_evidence_status" => fields[k] = ItemOf(row, state).status
      /\ k = "symbol" => fields[k] = CHOOSE s \in symbols : TRUE
      /\ k \notin {"bar_evidence_status", "symbol"} => fields[k] = lines[k]
  BY <1>1 DEF _project_trade, result, lines, symbols
<1>5. k = "symbol" => fields[k] = row.symbol /\ row.symbol # NoValue
  <2>1. k = "symbol" => symbols # {}
    BY <1>2, <1>4
  <2> HIDE DEF fields
  <2> QED
    BY <1>1, <1>4, <2>1
<1> HIDE DEF fields
<1>6. "ticket" \notin ExcursionLines /\ "side" \notin ExcursionLines
      /\ "bar_evidence_status" \notin ExcursionLines /\ "symbol" \notin ExcursionLines
  BY DEF ExcursionLines
<1> QED
  BY <1>2, <1>3, <1>4, <1>5, <1>6 DEF fields, result

(* A time of a projected trade is a cell of the row.                       *)
LEMMA TradeLinesAreOfRow ==
    ASSUME NEW j, NEW state, NEW row, NEW rank, NEW method, NEW k \in {"open_time", "close_time"},
           k \in DOMAIN _project_trade(_make_result(rank, TradeDocument(j, state, row), method))
    PROVE  k \in DOMAIN row.lines
<1> DEFINE result == _make_result(rank, TradeDocument(j, state, row), method)
           content == _trade_content(row, ItemOf(row, state))
<1>1. result.content = content
  BY DEF TradeDocument, Document, _make_result
<1>2. k \in DOMAIN content => k \in DOMAIN row.lines
  BY DEF _trade_content, ExcursionLines
<1> HIDE DEF result, content
<1>3. k \in DOMAIN TradeLines(result)
  BY DEF _project_trade, result
<1>4. k \in DOMAIN _content_map(content)
  BY <1>1, <1>3 DEF TradeLines
<1> QED
  BY <1>2, <1>4 DEF _content_map, Restricted

LEMMA LeastExists ==
    ASSUME NEW S \in SUBSET Nat, S # {}
    PROVE  \E m \in S : \A x \in S : m <= x
<1>1. PICK m \in S : \A y \in S : ~ (<<y, m>> \in OpToRel(<, Nat))
  BY NatLessThanWellFounded, WFMin
<1>2. ASSUME NEW y \in S, y < m PROVE FALSE
  BY <1>1, <1>2 DEF OpToRel
<1>3. \A y \in S : m <= y
  BY <1>2
<1> QED
  BY <1>3

LEMMA FirstErrorIs ==
    ASSUME NEW n \in Nat, NEW codes, DOMAIN codes = 1..n
    PROVE  /\ FirstError(codes) = "NONE" <=> \A i \in 1..n : codes[i] = "NONE"
           /\ FirstError(codes) # "NONE" => \E i \in 1..n : FirstError(codes) = codes[i]
<1> DEFINE refused == {i \in DOMAIN codes : codes[i] # "NONE"}
           first == CHOOSE i \in refused : \A j \in refused : i <= j
<1>1. FirstError(codes) = IF refused = {} THEN "NONE" ELSE codes[first]
  BY DEF FirstError
<1>2. ASSUME refused # {} PROVE first \in refused
  <2>1. refused \in SUBSET Nat
    OBVIOUS
  <2>2. \E m \in refused : \A i \in refused : m <= i
    BY <1>2, <2>1, LeastExists
  <2> QED
    BY <2>2
<1> HIDE DEF first
<1> QED
  BY <1>1, <1>2

(* When every cell is well formed, so is every line a trade item takes over. *)
LEMMA TradeLinesFit ==
    ASSUME NEW j, NEW state, NEW row, WellFormedRow(row), WellFormedVerdict(ItemOf(row, state)),
           NEW rank, NEW method
    PROVE  LET result == _make_result(rank, TradeDocument(j, state, row), method)
               lines == TradeLines(result)
               computed == ItemOf(row, state).status = "COMPUTED"
           IN  /\ \A k \in DOMAIN lines : /\ k \in AUTHORISED_FIELDS["TRADE_EVIDENCE"]
                                         /\ WellFormed(k, lines[k])
               /\ IF computed THEN EXCURSION_FIELD_KEYS \subseteq DOMAIN lines
                              ELSE EXCURSION_FIELD_KEYS \cap DOMAIN lines = {}
<1> DEFINE result == _make_result(rank, TradeDocument(j, state, row), method)
           item == ItemOf(row, state)
           content == _trade_content(row, item)
           mapping == _content_map(content)
           copied == AUTHORISED_FIELDS["TRADE_EVIDENCE"] \ {"symbol", "bar_evidence_status"}
           taken == IF item.status = "COMPUTED" THEN copied ELSE copied \ EXCURSION_FIELD_KEYS
           lines == TradeLines(result)
<1>1. result.content = content /\ result.evidence_status = item.status
  BY DEF TradeDocument, Document, _make_result
<1> HIDE DEF result
<1>2. lines = [k \in DOMAIN mapping \cap taken |->
                 IF k = "side" THEN Casefold(mapping[k]) ELSE mapping[k]]
  BY <1>1 DEF TradeLines
<1>3. /\ \A k \in DOMAIN content :
            /\ k = "ticket" => content[k] = row.ticket
            /\ k \in ExcursionLines /\ item.status = "COMPUTED" => content[k] = item.lines[k]
            /\ k \notin ExcursionLines \cup {"ticket", "symbol"} =>
                  k \in DOMAIN row.lines /\ content[k] = row.lines[k]
      /\ ExcursionLines \subseteq DOMAIN content
  BY DEF _trade_content, ExcursionLines
<1> HIDE DEF content
<1>4. /\ DOMAIN mapping = DOMAIN content \ EXCLUDED_CONTENT_LABELS
      /\ \A k \in DOMAIN mapping : mapping[k] = content[k]
  BY DEF _content_map, Restricted
<1> HIDE DEF mapping, item
<1>5. ASSUME NEW k \in DOMAIN mapping \cap taken
      PROVE  /\ k \in AUTHORISED_FIELDS["TRADE_EVIDENCE"]
             /\ WellFormed(k, IF k = "side" THEN Casefold(mapping[k]) ELSE mapping[k])
  <2>1. CASE k \in ExcursionLines
    <3>1. item.status = "COMPUTED" /\ k \in AUTHORISED_FIELDS["TRADE_EVIDENCE"] /\ k # "side"
      BY <2>1 DEF ExcursionLines, EXCURSION_FIELD_KEYS
    <3>2. mapping[k] = item.lines[k]
      BY <1>3, <1>4, <2>1, <3>1
    <3>3. WellFormed(k, item.lines[k])
      BY <2>1, <3>1 DEF WellFormedVerdict, item
    <3> QED
      BY <3>1, <3>2, <3>3
  <2>2. CASE k = "ticket"
    <3>1. mapping[k] = row.ticket /\ WellFormed("ticket", row.ticket)
      BY <1>3, <1>4, <2>2 DEF WellFormedRow
    <3> QED
      BY <2>2, <3>1
  <2>3. CASE k \notin ExcursionLines /\ k # "ticket"
    <3>1. k # "symbol" /\ k \in AUTHORISED_FIELDS["TRADE_EVIDENCE"]
      OBVIOUS
    <3>2. k \in DOMAIN row.lines /\ mapping[k] = row.lines[k]
      BY <1>3, <1>4, <2>3, <3>1
    <3>3. WellFormed(k, IF k = "side" THEN Casefold(row.lines[k]) ELSE row.lines[k])
      BY <3>1, <3>2 DEF WellFormedRow
    <3> QED
      BY <3>1, <3>2, <3>3
  <2> QED
    BY <2>1, <2>2, <2>3
<1>6. IF item.status = "COMPUTED" THEN EXCURSION_FIELD_KEYS \subseteq DOMAIN mapping \cap taken
                                 ELSE EXCURSION_FIELD_KEYS \cap taken = {}
  BY <1>3, <1>4 DEF EXCURSION_FIELD_KEYS, ExcursionLines, AUTHORISED_FIELDS, EXCLUDED_CONTENT_LABELS
<1> HIDE DEF taken
<1>7. /\ DOMAIN lines = DOMAIN mapping \cap taken
      /\ \A k \in DOMAIN lines : lines[k] = IF k = "side" THEN Casefold(mapping[k]) ELSE mapping[k]
  BY <1>2
<1> HIDE DEF lines
<1> QED
  BY <1>5, <1>6, <1>7 DEF lines, result, item

(* What is asked of an item, beyond the status told twice.                 *)
LEMMA ItemFits ==
    ASSUME NEW item, item.document_type \in DocumentTypes,
           item.evidence_status \in DOCUMENT_ALLOWED_STATUSES[item.document_type],
           DOMAIN item.fields # {}, item.claimable_field_keys = Claimable(item.fields),
           \A k \in DOMAIN item.fields : /\ k \in AUTHORISED_FIELDS[item.document_type]
                                         /\ WellFormed(k, item.fields[k]),
           item.document_type = "TRADE_EVIDENCE" =>
              /\ IF item.evidence_status = "COMPUTED"
                 THEN EXCURSION_FIELD_KEYS \subseteq DOMAIN item.fields
                 ELSE EXCURSION_FIELD_KEYS \cap DOMAIN item.fields = {}
              /\ item.fields["bar_evidence_status"] = item.evidence_status
    PROVE  _validate_evidence_item(item) = "NONE"
<1>1. item.evidence_status = "NO_MARKET_DATA" => item.document_type = "TRADE_EVIDENCE"
  BY DEF DOCUMENT_ALLOWED_STATUSES, DocumentTypes, AUTHORISED_FIELDS
<1>2. \A k \in item.claimable_field_keys :
         /\ k \in DOMAIN item.fields /\ ValueType(k) \in CLAIMABLE_TYPES
         /\ ~ (item.evidence_status = "NO_MARKET_DATA" /\ k \in EXCURSION_FIELD_KEYS)
  BY <1>1 DEF Claimable
<1> QED
  BY <1>2 DEF _validate_evidence_item

(* A trade whose cells are well formed becomes an item that is accepted.    *)
LEMMA TradeFits ==
    ASSUME NEW j, NEW state, NEW row, WellFormedRow(row), WellFormedVerdict(ItemOf(row, state)),
           ItemOf(row, state).status \in TRADE_EVIDENCE_STATUSES, NEW rank, NEW method
    PROVE  LET result == _make_result(rank, TradeDocument(j, state, row), method)
           IN  /\ ProjectionError(result) = "NONE"
               /\ _validate_evidence_item(_project_result(result)) = "NONE"
<1> DEFINE result == _make_result(rank, TradeDocument(j, state, row), method)
           status == ItemOf(row, state).status
           lines == TradeLines(result)
           symbols == StatedSymbols(result)
           item == _project_result(result)
           fields == _project_trade(result)
<1>1. /\ \A k \in DOMAIN lines : k \in AUTHORISED_FIELDS["TRADE_EVIDENCE"] /\ WellFormed(k, lines[k])
      /\ IF status = "COMPUTED" THEN EXCURSION_FIELD_KEYS \subseteq DOMAIN lines
                                ELSE EXCURSION_FIELD_KEYS \cap DOMAIN lines = {}
  BY TradeLinesFit
<1>2. /\ result.document_type = "TRADE_EVIDENCE" /\ result.evidence_status = status
      /\ symbols \subseteq {row.symbol} \ {NoValue}
  BY TradeProjection
<1> HIDE DEF result, status
<1>3. \A s \in symbols : WellFormed("symbol", s)
  BY <1>2 DEF WellFormedRow
<1>4. ~ (Cardinality(symbols) > 1)
  <2>1. IsFiniteSet({row.symbol}) /\ Cardinality({row.symbol}) = 1
    BY FS_Singleton
  <2>2. symbols \in SUBSET {row.symbol}
    BY <1>2
  <2> HIDE DEF symbols
  <2>3. IsFiniteSet(symbols) /\ Cardinality(symbols) <= 1
    BY <2>1, <2>2, FS_Subset
  <2> QED
    BY <2>3, FS_CardinalityType
<1>5. status \in ACCEPTED_EVIDENCE_STATUSES
  BY DEF ACCEPTED_EVIDENCE_STATUSES, DOCUMENT_ALLOWED_STATUSES, DocumentTypes, AUTHORISED_FIELDS, status
<1>6. ProjectionError(result) = "NONE"
  <2>1. TradeError(result) = "NONE"
    BY <1>1, <1>2, <1>3, <1>4 DEF TradeError
  <2>2. "TRADE_EVIDENCE" \in DocumentTypes
    BY DEF DocumentTypes, AUTHORISED_FIELDS
  <2> QED
    BY <1>2, <1>5, <2>1, <2>2 DEF ProjectionError
<1>7. /\ item.document_type = "TRADE_EVIDENCE" /\ item.evidence_status = status
      /\ item.fields = fields /\ item.claimable_field_keys = Claimable(fields)
  BY <1>2 DEF _project_result
<1> HIDE DEF lines, symbols, item
<1>8. /\ DOMAIN fields = DOMAIN lines \cup {"bar_evidence_status"}
                            \cup (IF symbols = {} THEN {} ELSE {"symbol"})
      /\ fields["bar_evidence_status"] = status
      /\ "symbol" \in DOMAIN fields /\ symbols # {} => fields["symbol"] \in symbols
      /\ \A k \in DOMAIN fields \ {"bar_evidence_status", "symbol"} : fields[k] = lines[k]
  BY <1>2 DEF _project_trade, lines, symbols
<1>9. \A k \in DOMAIN lines : k \notin {"symbol", "bar_evidence_status"}
  BY DEF lines, TradeLines
<1> HIDE DEF fields
<1>10. ASSUME NEW k \in DOMAIN fields
       PROVE  k \in AUTHORISED_FIELDS["TRADE_EVIDENCE"] /\ WellFormed(k, fields[k])
  <2>1. CASE k = "bar_evidence_status"
    BY <1>5, <1>8, <2>1 DEF WellFormed, AUTHORISED_FIELDS
  <2>2. CASE k = "symbol"
    BY <1>3, <1>8, <1>9, <2>2 DEF AUTHORISED_FIELDS
  <2>3. CASE k \notin {"bar_evidence_status", "symbol"}
    <3>1. k \in DOMAIN lines /\ fields[k] = lines[k]
      BY <1>8, <2>3
    <3> QED
      BY <1>1, <3>1
  <2> QED
    BY <2>1, <2>2, <2>3
<1>11. IF status = "COMPUTED" THEN EXCURSION_FIELD_KEYS \subseteq DOMAIN fields
                              ELSE EXCURSION_FIELD_KEYS \cap DOMAIN fields = {}
  BY <1>1, <1>8 DEF EXCURSION_FIELD_KEYS
<1>12. /\ item.document_type \in DocumentTypes
       /\ item.evidence_status \in DOCUMENT_ALLOWED_STATUSES[item.document_type]
  BY <1>7 DEF DocumentTypes, AUTHORISED_FIELDS, DOCUMENT_ALLOWED_STATUSES, status
<1>13. _validate_evidence_item(item) = "NONE"
  BY <1>7, <1>8, <1>10, <1>11, <1>12, ItemFits
<1> QED
  BY <1>6, <1>13 DEF item, result

LEMMA KpiFits ==
    ASSUME NEW j, NEW k \in AUTHORISED_FIELDS["KPI_EVIDENCE"], WellFormed(k, Kpis[j][k]),
           NEW rank, NEW method
    PROVE  LET result == _make_result(rank, KpiDocument(j, k), method)
           IN  /\ ProjectionError(result) = "NONE"
               /\ _validate_evidence_item(_project_result(result)) = "NONE"
<1> DEFINE result == _make_result(rank, KpiDocument(j, k), method)
           content == [label \in {k} |-> Kpis[j][label]]
           item == _project_result(result)
           fields == _project_kpi(result)
<1>1. /\ result.document_type = "KPI_EVIDENCE" /\ result.evidence_status = "AUTHORITATIVE"
      /\ result.content = content
  BY DEF KpiDocument, Document, _make_result
<1> HIDE DEF result
<1>2. k \notin EXCLUDED_CONTENT_LABELS
  BY DEF AUTHORISED_FIELDS, EXCLUDED_CONTENT_LABELS
<1>3. /\ DOMAIN _content_map(content) = {k}
      /\ \A l \in {k} : _content_map(content)[l] = Kpis[j][k]
  BY <1>2 DEF _content_map, Restricted
<1>4. ProjectionError(result) = "NONE"
  <2> HIDE DEF content
  <2>1. KpiError(result) = "NONE"
    BY <1>1, <1>3 DEF KpiError
  <2>2. "KPI_EVIDENCE" \in DocumentTypes /\ "AUTHORITATIVE" \in ACCEPTED_EVIDENCE_STATUSES
    BY DEF DocumentTypes, AUTHORISED_FIELDS, ACCEPTED_EVIDENCE_STATUSES, DOCUMENT_ALLOWED_STATUSES
  <2> QED
    BY <1>1, <2>1, <2>2 DEF ProjectionError
<1>5. /\ item.document_type = "KPI_EVIDENCE" /\ item.evidence_status = "AUTHORITATIVE"
      /\ item.fields = fields /\ item.claimable_field_keys = Claimable(fields)
      /\ fields = _content_map(content)
  BY <1>1 DEF _project_result, _project_kpi
<1> HIDE DEF item, fields, content
<1>6. /\ item.document_type \in DocumentTypes
      /\ item.evidence_status \in DOCUMENT_ALLOWED_STATUSES[item.document_type]
  BY <1>5 DEF DocumentTypes, AUTHORISED_FIELDS, DOCUMENT_ALLOWED_STATUSES
<1>7. _validate_evidence_item(item) = "NONE"
  BY <1>3, <1>5, <1>6, ItemFits
<1> QED
  BY <1>4, <1>7 DEF item, result

LEMMA DatasetFits ==
    ASSUME NEW j, NEW state, WellFormed("journal_row_count", Numeral[Len(j)]),
           state # NoValue => WellFormed("declared_time_basis", state.time_basis),
           NEW rank, NEW method
    PROVE  LET result == _make_result(rank, _dataset_document(j, state), method)
           IN  /\ ProjectionError(result) = "NONE"
               /\ _validate_evidence_item(_project_result(result)) = "NONE"
<1> DEFINE result == _make_result(rank, _dataset_document(j, state), method)
           content == _dataset_document(j, state).content
           item == _project_result(result)
           fields == _project_dataset(result)
<1>1. /\ result.document_type = "DATASET_CONTEXT"
      /\ result.evidence_status \in {"NO_M1_EVIDENCE", "BOUND"}
      /\ result.content = content
      /\ DOMAIN content \subseteq {"journal_row_count", "source_filename", "declared_time_basis"}
      /\ "journal_row_count" \in DOMAIN content
      /\ content["journal_row_count"] = Numeral[Len(j)]
  BY DatasetDocumentIs DEF _make_result
<1>2. "declared_time_basis" \in DOMAIN content =>
         state # NoValue /\ content["declared_time_basis"] = state.time_basis
  BY DEF _dataset_document, Document
<1> HIDE DEF result, content
<1>3. /\ DOMAIN fields = (DOMAIN content \ EXCLUDED_CONTENT_LABELS)
                            \cap AUTHORISED_FIELDS["DATASET_CONTEXT"]
      /\ \A k \in DOMAIN fields : fields[k] = content[k]
  BY <1>1 DEF _project_dataset, _content_map, Restricted
<1>4. ASSUME NEW k \in DOMAIN fields
      PROVE  k \in AUTHORISED_FIELDS["DATASET_CONTEXT"] /\ WellFormed(k, fields[k])
  <2>1. k \in {"journal_row_count", "declared_time_basis"}
    BY <1>3 DEF AUTHORISED_FIELDS
  <2> HIDE DEF fields
  <2>2. CASE k = "journal_row_count"
    BY <1>1, <1>3, <2>2 DEF AUTHORISED_FIELDS
  <2>3. CASE k = "declared_time_basis"
    BY <1>2, <1>3, <2>3 DEF AUTHORISED_FIELDS
  <2> QED
    BY <2>1, <2>2, <2>3
<1>5. "journal_row_count" \in DOMAIN fields
  BY <1>1, <1>3 DEF EXCLUDED_CONTENT_LABELS, AUTHORISED_FIELDS
<1>6. ProjectionError(result) = "NONE"
  <2> HIDE DEF fields
  <2>1. DatasetError(result) = "NONE"
    BY <1>4 DEF DatasetError, fields
  <2>2. "DATASET_CONTEXT" \in DocumentTypes
        /\ {"NO_M1_EVIDENCE", "BOUND"} \subseteq ACCEPTED_EVIDENCE_STATUSES
    BY DEF DocumentTypes, AUTHORISED_FIELDS, ACCEPTED_EVIDENCE_STATUSES, DOCUMENT_ALLOWED_STATUSES
  <2> QED
    BY <1>1, <2>1, <2>2 DEF ProjectionError
<1>7. /\ item.document_type = "DATASET_CONTEXT" /\ item.evidence_status = result.evidence_status
      /\ item.fields = fields /\ item.claimable_field_keys = Claimable(fields)
  BY <1>1 DEF _project_result
<1> HIDE DEF item, fields
<1>8. /\ item.document_type \in DocumentTypes
      /\ item.evidence_status \in DOCUMENT_ALLOWED_STATUSES[item.document_type]
  BY <1>1, <1>7 DEF DocumentTypes, AUTHORISED_FIELDS, DOCUMENT_ALLOWED_STATUSES
<1>9. _validate_evidence_item(item) = "NONE"
  BY <1>4, <1>5, <1>7, <1>8, ItemFits
<1> QED
  BY <1>6, <1>9 DEF item, result

(* Nothing of a journal with well-formed cells is refused.                 *)
LEMMA DocumentFits ==
    ASSUME NEW j \in Journals, NEW state, Fingerprint(j) # NoValue, Fits(state, j),
           WellFormedCells(j, state), NEW d \in Corpus(j, state), NEW rank, NEW method
    PROVE  LET result == _make_result(rank, d, method)
           IN  /\ ProjectionError(result) = "NONE"
               /\ _validate_evidence_item(_project_result(result)) = "NONE"
<1>1. CASE d.document_type = "TRADE_EVIDENCE"
  <2>1. PICK row \in Rows(j) : d = TradeDocument(j, state, row)
    BY <1>1, CorpusTyped
  <2>2. row.ticket \in TicketsOf(j)
    BY DEF TicketsOf
  <2>3. state # NoValue => /\ ItemOf(row, state) = state.evidence[row.ticket]
                           /\ row.ticket \in DOMAIN state.evidence
                           /\ ItemOf(row, state) \in Verdicts
    BY <2>2 DEF ItemOf, Fits
  <2>4. state = NoValue => ItemOf(row, state).status = "NO_M1_EVIDENCE"
    BY DEF ItemOf
  <2>5. ItemOf(row, state).status \in TRADE_EVIDENCE_STATUSES
    BY <2>3, <2>4, CorpusAssumption DEF TRADE_EVIDENCE_STATUSES
  <2>6. WellFormedVerdict(ItemOf(row, state))
    BY <2>3, <2>4 DEF WellFormedCells, WellFormedVerdict
  <2>7. WellFormedRow(row)
    BY DEF WellFormedCells
  <2> QED
    BY <2>1, <2>5, <2>6, <2>7, TradeFits
<1>2. CASE d.document_type = "KPI_EVIDENCE"
  <2>1. PICK k \in DOMAIN Kpis[j] : d = KpiDocument(j, k)
    BY <1>2, CorpusTyped
  <2>2. k \in AUTHORISED_FIELDS["KPI_EVIDENCE"] /\ WellFormed(k, Kpis[j][k])
    BY DEF WellFormedCells
  <2> QED
    BY <2>1, <2>2, KpiFits
<1>3. CASE d.document_type = "DATASET_CONTEXT"
  <2>1. d = _dataset_document(j, state)
    BY <1>3, CorpusTyped
  <2> QED
    BY <2>1, DatasetFits DEF WellFormedCells
<1> QED
  BY <1>1, <1>2, <1>3, CorpusTyped

(* A retrieved document is projected, or refused for a malformed cell; its *)
(* projection is not refused for a contradiction.                          *)
LEMMA DocumentProjects ==
    ASSUME NEW j \in Journals, NEW state, Fingerprint(j) # NoValue,
           NEW d \in Corpus(j, state), NEW rank, NEW method
    PROVE  LET result == _make_result(rank, d, method)
               item == _project_result(result)
           IN  /\ ProjectionError(result) \in {"NONE", "EVIDENCE_FIELD_INVALID"}
               /\ _validate_evidence_item(item) \in {"NONE", "EVIDENCE_FIELD_INVALID"}
               /\ item.document_type = d.document_type
               /\ item.evidence_status = d.evidence_status
<1> DEFINE result == _make_result(rank, d, method)
           item == _project_result(result)
<1>1. result.document_type = d.document_type /\ result.evidence_status = d.evidence_status
  BY DEF _make_result
<1>2. /\ item.document_type = d.document_type /\ item.evidence_status = d.evidence_status
      /\ d.document_type = "TRADE_EVIDENCE" => item.fields = _project_trade(result)
  <2> HIDE DEF result
  <2> QED
    BY <1>1 DEF _project_result
<1>3. CASE d.document_type = "TRADE_EVIDENCE"
  <2>1. PICK row \in Rows(j) : d = TradeDocument(j, state, row)
    BY <1>3, CorpusTyped
  <2>2. StatedSymbols(result) \subseteq {row.symbol}
    BY <2>1, TradeProjection
  <2>3. ~ (Cardinality(StatedSymbols(result)) > 1)
    <3>1. IsFiniteSet({row.symbol}) /\ Cardinality({row.symbol}) = 1
      BY FS_Singleton
    <3>2. StatedSymbols(result) \in SUBSET {row.symbol}
      BY <2>2
    <3> HIDE DEF result
    <3>3. IsFiniteSet(StatedSymbols(result)) /\ Cardinality(StatedSymbols(result)) <= 1
      BY <3>1, <3>2, FS_Subset
    <3> QED
      BY <3>3, FS_CardinalityType
  <2>4. "bar_evidence_status" \in DOMAIN item.fields
           => item.fields["bar_evidence_status"] = item.evidence_status
    <3> HIDE DEF item
    <3> QED
      BY <1>1, <1>2, <1>3, <2>1 DEF _project_trade
  <2> HIDE DEF result, item
  <2>5. TradeError(result) \in {"NONE", "EVIDENCE_FIELD_INVALID"}
    BY <2>3 DEF TradeError
  <2>6. ProjectionError(result) \in {"NONE", "EVIDENCE_FIELD_INVALID"}
    BY <1>1, <1>3, <2>5 DEF ProjectionError
  <2>7. _validate_evidence_item(item) \in {"NONE", "EVIDENCE_FIELD_INVALID"}
    BY <2>4 DEF _validate_evidence_item
  <2> QED
    BY <1>2, <2>6, <2>7 DEF result, item
<1>4. CASE d.document_type # "TRADE_EVIDENCE"
  <2> HIDE DEF result, item
  <2>1. ProjectionError(result) \in {"NONE", "EVIDENCE_FIELD_INVALID"}
    BY <1>1, <1>4 DEF ProjectionError, KpiError, DatasetError
  <2>2. _validate_evidence_item(item) \in {"NONE", "EVIDENCE_FIELD_INVALID"}
    BY <1>2, <1>4 DEF _validate_evidence_item
  <2> QED
    BY <1>2, <2>1, <2>2 DEF result, item
<1> QED
  BY <1>3, <1>4

(* The limitations packet.py requires of items of the right shape are those  *)
(* schema.py derives from them.                                            *)
LEMMA LimitationsAgree ==
    ASSUME NEW items, NEW candidate_count, NEW returned_count,
           \A i \in items : _validate_evidence_item(i) = "NONE"
    PROVE  _validate_evidence_derived_limitations(items,
              _required_limitation_codes(items, candidate_count, returned_count)) = "NONE"
<1> DEFINE marked(i) == DOMAIN i.fields \cap {"approx_mfe", "approx_mae"} # {}
           trade(i) == i.document_type = "TRADE_EVIDENCE"
           approximate == {i \in items : trade(i) /\ marked(i)}
           unavailable == \E i \in items : i.evidence_status = "NO_MARKET_DATA"
           several == Cardinality(ItemSymbols(approximate)) > 1
           codes == _required_limitation_codes(items, candidate_count, returned_count)
           conditions == _evidence_derived_limitation_conditions(items)
<1>1. ASSUME NEW i \in items
      PROVE  /\ trade(i) /\ marked(i) => i.evidence_status = "COMPUTED"
             /\ i.evidence_status = "NO_MARKET_DATA" => trade(i)
  <2>1. /\ i.document_type \in DocumentTypes
        /\ i.evidence_status \in DOCUMENT_ALLOWED_STATUSES[i.document_type]
        /\ i.document_type = "TRADE_EVIDENCE" /\ i.evidence_status # "COMPUTED" =>
              EXCURSION_FIELD_KEYS \cap DOMAIN i.fields = {}
    <3> HIDE DEF trade, marked
    <3> QED
      BY DEF _validate_evidence_item
  <2> QED
    BY <2>1 DEF DocumentTypes, AUTHORISED_FIELDS, DOCUMENT_ALLOWED_STATUSES, EXCURSION_FIELD_KEYS
<1>2. {i \in {k \in items : trade(k)} : i.evidence_status = "COMPUTED" /\ marked(i)} = approximate
  BY <1>1
<1>3. (\E i \in {k \in items : trade(k)} : i.evidence_status = "NO_MARKET_DATA") <=> unavailable
  BY <1>1
<1>4. /\ DOMAIN conditions = {"APPROXIMATE_M1_EVIDENCE", "EVIDENCE_UNAVAILABLE",
                             "CROSS_SYMBOL_NOT_COMPARABLE"}
      /\ conditions["APPROXIMATE_M1_EVIDENCE"] <=> approximate # {}
      /\ conditions["EVIDENCE_UNAVAILABLE"] <=> unavailable
      /\ conditions["CROSS_SYMBOL_NOT_COMPARABLE"] <=> several
  <2>1. conditions =
           [APPROXIMATE_M1_EVIDENCE |-> approximate # {},
            EVIDENCE_UNAVAILABLE |->
               \E i \in {k \in items : trade(k)} : i.evidence_status = "NO_MARKET_DATA",
            CROSS_SYMBOL_NOT_COMPARABLE |-> several]
    BY <1>2 DEF _evidence_derived_limitation_conditions
  <2> HIDE DEF approximate, several, conditions
  <2> QED
    BY <1>3, <2>1
<1>5. /\ "APPROXIMATE_M1_EVIDENCE" \in codes <=> approximate # {}
      /\ "EVIDENCE_UNAVAILABLE" \in codes <=> unavailable
      /\ "CROSS_SYMBOL_NOT_COMPARABLE" \in codes <=> several
  BY DEF _required_limitation_codes
<1> HIDE DEF approximate, unavailable, several, codes, conditions
<1>6. \A c \in DOMAIN conditions : conditions[c] <=> c \in codes
  BY <1>4, <1>5
<1> QED
  BY <1>6 DEF _validate_evidence_derived_limitations, conditions, codes

-----------------------------------------------------------------------------
(* A retrieval that found something becomes a packet.                      *)
ResultsAre(results, j, state, form) ==
    \E m \in 1..MAX_EVIDENCE_ITEMS :
       /\ Len(results) = m /\ DOMAIN results = 1..m
       /\ results # << >>
       /\ \A i \in 1..m : \E method : \E d \in Candidates(j, state, form) :
             results[i] = _make_result(i, d, method)

LEMMA FoundResults ==
    ASSUME NEW j, NEW state, NEW form, NEW response, Found(j, state, form, response)
    PROVE  ResultsAre(response.results, j, state, form)
<1>1. PICK method :
         \E found \in Seq(Candidates(j, state, form)) :
            /\ Len(found) \in 1..MAX_EVIDENCE_ITEMS
            /\ response.results = [i \in 1..Len(found) |-> _make_result(i, found[i], method)]
  BY DEF Found
<1>2. PICK found \in Seq(Candidates(j, state, form)) :
         /\ Len(found) \in 1..MAX_EVIDENCE_ITEMS
         /\ response.results = [i \in 1..Len(found) |-> _make_result(i, found[i], method)]
  BY <1>1
<1> DEFINE m == Len(found)
<1>3. m \in 1..MAX_EVIDENCE_ITEMS /\ MAX_EVIDENCE_ITEMS \in Nat
  BY <1>2, MaxItemsAssumption
<1>4. \A i \in 1..m : found[i] \in Candidates(j, state, form)
  OBVIOUS
<1> HIDE DEF m
<1>5. /\ Len(response.results) = m /\ DOMAIN response.results = 1..m
      /\ \A i \in 1..m : response.results[i] = _make_result(i, found[i], method)
  BY <1>2, <1>3 DEF m
<1>6. response.results # << >>
  BY <1>3, <1>5
<1> QED
  BY <1>3, <1>4, <1>5, <1>6 DEF ResultsAre

LEMMA RequestIs ==
    ASSUME NEW response, NEW question, NEW m \in Nat, DOMAIN response.results = 1..m
    PROVE  LET request == Request(response, question) IN
           /\ request.question = question
           /\ request.evidence = [i \in 1..m |-> _project_result(response.results[i])]
           /\ Len(request.evidence) = m
           /\ \A i \in 1..m : request.evidence[i] = _project_result(response.results[i])
           /\ Items(request) = {_project_result(response.results[i]) : i \in 1..m}
           /\ request.required_limitation_codes =
                 _required_limitation_codes(Items(request), response.candidate_count,
                                            Len(response.results))
<1> DEFINE evidence == [i \in DOMAIN response.results |-> _project_result(response.results[i])]
           items == {evidence[i] : i \in DOMAIN evidence}
           request == Request(response, question)
<1>1. /\ request.question = question /\ request.evidence = evidence
      /\ request.required_limitation_codes =
            _required_limitation_codes(items, response.candidate_count, Len(response.results))
  BY DEF Request
<1>2. items = Items(request)
  <2> HIDE DEF request
  <2> QED
    BY <1>1 DEF Items
<1>3. items = {_project_result(response.results[i]) : i \in 1..m}
  OBVIOUS
<1>4. /\ evidence = [i \in 1..m |-> _project_result(response.results[i])]
      /\ Len(evidence) = m /\ \A i \in 1..m : evidence[i] = _project_result(response.results[i])
  OBVIOUS
<1> HIDE DEF evidence, items
<1> QED
  BY <1>1, <1>2, <1>3, <1>4

(* What a shape without error says of an item.                             *)
LEMMA ShapeIs ==
    ASSUME NEW item, _validate_evidence_item(item) = "NONE"
    PROVE  /\ DOMAIN item.fields \subseteq AUTHORISED_FIELDS[item.document_type]
           /\ item.document_type = "TRADE_EVIDENCE" =>
                 IF item.evidence_status = "COMPUTED"
                 THEN EXCURSION_FIELD_KEYS \subseteq DOMAIN item.fields
                 ELSE EXCURSION_FIELD_KEYS \cap DOMAIN item.fields = {}
BY DEF _validate_evidence_item

(* A ticket or symbol of an item is that of a row of the journal.          *)
LEMMA NamesAreOfRows ==
    ASSUME NEW j \in Journals, NEW state, Fingerprint(j) # NoValue, NEW d \in Corpus(j, state),
           NEW rank, NEW method, NEW kind \in {"ticket", "symbol"},
           kind \in DOMAIN _project_result(_make_result(rank, d, method)).fields,
           _validate_evidence_item(_project_result(_make_result(rank, d, method))) = "NONE"
    PROVE  \E row \in Rows(j) :
              _project_result(_make_result(rank, d, method)).fields[kind] = row[kind]
<1> DEFINE result == _make_result(rank, d, method)
           item == _project_result(result)
<1>1. item.document_type = d.document_type /\ result.document_type = d.document_type
  BY DEF _make_result, _project_result
<1> HIDE DEF result, item
<1>2. d.document_type = "TRADE_EVIDENCE"
  <2>1. kind \in AUTHORISED_FIELDS[d.document_type]
    BY <1>1, ShapeIs DEF item, result
  <2>2. d.document_type \in {"TRADE_EVIDENCE", "KPI_EVIDENCE", "DATASET_CONTEXT"}
    BY CorpusTyped
  <2> QED
    BY <2>1, <2>2 DEF AUTHORISED_FIELDS
<1>3. PICK row \in Rows(j) : d = TradeDocument(j, state, row)
  BY <1>2, CorpusTyped
<1>4. item.fields = _project_trade(result)
  BY <1>1, <1>2 DEF _project_result, item
<1>5. kind \in DOMAIN _project_trade(_make_result(rank, TradeDocument(j, state, row), method))
  BY <1>3, <1>4 DEF result, item
<1>6. /\ kind = "ticket" => item.fields[kind] = row.ticket
      /\ kind = "symbol" => item.fields[kind] = row.symbol
  BY <1>3, <1>4, <1>5, TradeFields DEF result
<1> QED
  BY <1>6 DEF item, result

(* The codes a retrieval over the journal may be refused with.              *)
MayRefuse(j, state, question, code) ==
    CASE question = "blank" -> code = "SCHEMA_MISSING_FIELD"
      [] question = "too long" -> code = "SCHEMA_LIMIT_EXCEEDED"
      [] OTHER ->
         \/ code = "NONE"
         \/ /\ code = "EVIDENCE_FIELD_INVALID"
            /\ question = "unstable" \/ ~WellFormedCells(j, state)
         \/ /\ code = "LEAKAGE_DETECTED"
            /\ \/ question = "leaking"
               \/ \E row \in Rows(j) : {row.ticket, row.symbol} \cap LeakingTexts # {}

LEMMA FoundBecomesPacket ==
    ASSUME NEW j \in Journals, NEW state, Fingerprint(j) # NoValue, Fits(state, j),
           NEW form, NEW response,
           response.state = "OK", Found(j, state, form, response), NEW question
    PROVE  MayRefuse(j, state, question, PacketError(response, question))
<1> DEFINE results == response.results
           request == Request(response, question)
           projections == [i \in DOMAIN results |-> ProjectionError(results[i])]
           shapes == [i \in DOMAIN request.evidence |-> _validate_evidence_item(request.evidence[i])]
           invalid == {"NONE", "EVIDENCE_FIELD_INVALID"}
           fit == WellFormedCells(j, state)
           leaks == \/ question = "leaking"
                    \/ \E row \in Rows(j) : {row.ticket, row.symbol} \cap LeakingTexts # {}
<1>0. ResultsAre(results, j, state, form)
  BY FoundResults
<1>1. PICK m \in 1..MAX_EVIDENCE_ITEMS :
         /\ Len(results) = m /\ DOMAIN results = 1..m /\ results # << >>
         /\ \A i \in 1..m : \E method : \E d \in Candidates(j, state, form) :
               results[i] = _make_result(i, d, method)
  BY <1>0 DEF ResultsAre
<1>2. m \in Nat /\ m >= 1 /\ m <= MAX_EVIDENCE_ITEMS
  BY <1>1, MaxItemsAssumption
<1>3. ASSUME NEW i \in 1..m
      PROVE  /\ results[i].rank = i /\ results[i].journal_fingerprint = Fingerprint(j)
             /\ ProjectionError(results[i]) \in {"NONE", "EVIDENCE_FIELD_INVALID"}
             /\ _validate_evidence_item(_project_result(results[i]))
                   \in {"NONE", "EVIDENCE_FIELD_INVALID"}
             /\ fit => /\ ProjectionError(results[i]) = "NONE"
                       /\ _validate_evidence_item(_project_result(results[i])) = "NONE"
             /\ _validate_evidence_item(_project_result(results[i])) = "NONE" =>
                   \A kind \in DOMAIN _project_result(results[i]).fields \cap {"ticket", "symbol"} :
                      \E row \in Rows(j) : _project_result(results[i]).fields[kind] = row[kind]
  <2>0. PICK method : \E d \in Candidates(j, state, form) : results[i] = _make_result(i, d, method)
    BY <1>1
  <2>1. PICK d \in Candidates(j, state, form) : results[i] = _make_result(i, d, method)
    BY <2>0
  <2>2. d \in Corpus(j, state)
    BY DEF Candidates, Filtered
  <2>3. d.journal_fingerprint = Fingerprint(j)
    BY <2>2, CorpusTyped
  <2>4. results[i].rank = i /\ results[i].journal_fingerprint = d.journal_fingerprint
    BY <2>1 DEF _make_result
  <2> HIDE DEF results
  <2>5. /\ ProjectionError(results[i]) \in {"NONE", "EVIDENCE_FIELD_INVALID"}
        /\ _validate_evidence_item(_project_result(results[i]))
              \in {"NONE", "EVIDENCE_FIELD_INVALID"}
    BY <2>1, <2>2, DocumentProjects
  <2>6. fit => /\ ProjectionError(results[i]) = "NONE"
               /\ _validate_evidence_item(_project_result(results[i])) = "NONE"
    BY <2>1, <2>2, DocumentFits
  <2>7. _validate_evidence_item(_project_result(results[i])) = "NONE" =>
           \A kind \in DOMAIN _project_result(results[i]).fields \cap {"ticket", "symbol"} :
              \E row \in Rows(j) : _project_result(results[i]).fields[kind] = row[kind]
    BY <2>1, <2>2, NamesAreOfRows
  <2> QED
    BY <2>3, <2>4, <2>5, <2>6, <2>7
<1>4. /\ request.question = question
      /\ request.evidence = [i \in 1..m |-> _project_result(results[i])]
      /\ Len(request.evidence) = m
      /\ Items(request) = {_project_result(results[i]) : i \in 1..m}
      /\ request.required_limitation_codes =
            _required_limitation_codes(Items(request), response.candidate_count, Len(results))
  BY <1>1, <1>2, RequestIs
<1> HIDE DEF request, results, fit
<1>5. FirstError(projections) \in invalid /\ (fit => FirstError(projections) = "NONE")
  <2>1. /\ DOMAIN projections = 1..m
        /\ \A i \in 1..m : /\ projections[i] \in {"NONE", "EVIDENCE_FIELD_INVALID"}
                           /\ fit => projections[i] = "NONE"
    BY <1>1, <1>3
  <2> HIDE DEF projections
  <2> QED
    BY <1>2, <2>1, FirstErrorIs
<1>6. /\ FirstError(shapes) \in invalid /\ (fit => FirstError(shapes) = "NONE")
      /\ FirstError(shapes) = "NONE" =>
            \A item \in Items(request) : _validate_evidence_item(item) = "NONE"
  <2>1. /\ DOMAIN shapes = 1..m
        /\ \A i \in 1..m : /\ shapes[i] = _validate_evidence_item(_project_result(results[i]))
                           /\ shapes[i] \in {"NONE", "EVIDENCE_FIELD_INVALID"}
                           /\ fit => shapes[i] = "NONE"
    BY <1>3, <1>4
  <2> HIDE DEF shapes
  <2>2. /\ FirstError(shapes) = "NONE" <=> \A i \in 1..m : shapes[i] = "NONE"
        /\ FirstError(shapes) # "NONE" => \E i \in 1..m : FirstError(shapes) = shapes[i]
    BY <1>2, <2>1, FirstErrorIs
  <2> QED
    BY <1>4, <2>1, <2>2
<1>7. /\ question = "blank" => normalise_question(question) = "SCHEMA_MISSING_FIELD"
      /\ question = "too long" => normalise_question(question) = "SCHEMA_LIMIT_EXCEEDED"
      /\ question \notin {"blank", "too long"} => normalise_question(question) = "NONE"
      /\ question \notin {"blank", "too long", "unstable"} => _validate_question(question) = "NONE"
      /\ question = "unstable" => _validate_question(question) = "EVIDENCE_FIELD_INVALID"
  BY DEF normalise_question, _validate_question
<1>8. question \notin {"blank", "too long"} =>
         /\ validate_request_shape(request) \in invalid
         /\ fit /\ question # "unstable" => validate_request_shape(request) = "NONE"
         /\ validate_request_shape(request) = "NONE" => FirstError(shapes) = "NONE"
  <2>1. FirstError(shapes) = "NONE" =>
           _validate_evidence_derived_limitations(Items(request),
              request.required_limitation_codes) = "NONE"
    BY <1>4, <1>6, LimitationsAgree
  <2>2. request.evidence # << >> /\ ~ (Len(request.evidence) > MAX_EVIDENCE_ITEMS)
    BY <1>2, <1>4, MaxItemsAssumption
  <2>3. validate_request_shape(request) =
           IF _validate_question(question) # "NONE" THEN _validate_question(question)
           ELSE FirstError(shapes)
    <3>1. CASE _validate_question(question) # "NONE"
      BY <1>4, <3>1 DEF validate_request_shape
    <3>2. CASE _validate_question(question) = "NONE" /\ FirstError(shapes) # "NONE"
      BY <1>4, <2>2, <3>2 DEF validate_request_shape
    <3>3. CASE _validate_question(question) = "NONE" /\ FirstError(shapes) = "NONE"
      BY <1>4, <2>1, <2>2, <3>3 DEF validate_request_shape
    <3> QED
      BY <3>1, <3>2, <3>3
  <2> QED
    BY <1>6, <1>7, <2>3
<1>11. FirstError(shapes) = "NONE" /\ NamesDigest(request) => leaks
  <2> SUFFICES ASSUME FirstError(shapes) = "NONE", NamesDigest(request), question # "leaking"
               PROVE  \E row \in Rows(j) : {row.ticket, row.symbol} \cap LeakingTexts # {}
    OBVIOUS
  <2>1. PICK item \in Items(request), kind \in {"ticket", "symbol"} :
           kind \in DOMAIN item.fields /\ item.fields[kind] \in LeakingTexts
    BY <1>4 DEF NamesDigest, FieldTexts
  <2>2. PICK i \in 1..m : item = _project_result(results[i])
    BY <1>4
  <2>3. _validate_evidence_item(item) = "NONE"
    BY <1>6
  <2>4. PICK row \in Rows(j) : item.fields[kind] = row[kind]
    BY <1>3, <2>1, <2>2, <2>3
  <2>5. row[kind] \in {row.ticket, row.symbol}
    BY <2>1
  <2> QED
    BY <2>1, <2>4, <2>5
<1> HIDE DEF projections, shapes
<1>9. /\ results # << >> /\ ~ (Len(results) > MAX_EVIDENCE_ITEMS)
      /\ ~ \E i \in DOMAIN results : results[i].rank # i
      /\ ~ \E i, k \in DOMAIN results :
              results[i].journal_fingerprint # results[k].journal_fingerprint
  BY <1>1, <1>2, <1>3, MaxItemsAssumption
<1> DEFINE code == PacketError(response, question)
           normal == normalise_question(question)
           projected == FirstError(projections)
           shape == validate_request_shape(request)
<1>10. /\ normal # "NONE" => code = normal
       /\ normal = "NONE" /\ projected # "NONE" => code = projected
       /\ normal = "NONE" /\ projected = "NONE" /\ shape # "NONE" => code = shape
       /\ normal = "NONE" /\ projected = "NONE" /\ shape = "NONE" =>
             code = IF NamesDigest(request) THEN "LEAKAGE_DETECTED" ELSE "NONE"
  <2>1. code = IF normal # "NONE" THEN normal
               ELSE IF projected # "NONE" THEN projected
               ELSE IF shape # "NONE" THEN shape
               ELSE IF NamesDigest(request) THEN "LEAKAGE_DETECTED"
               ELSE "NONE"
    BY <1>9 DEF PacketError, results, request, projections
  <2> HIDE DEF code, normal, projected, shape
  <2> QED
    BY <2>1
<1> HIDE DEF code, shape, leaks
<1>12. CASE question \in {"blank", "too long"}
  BY <1>7, <1>10, <1>12 DEF MayRefuse, code
<1>13. CASE question \notin {"blank", "too long"}
  <2>1. \/ code = "NONE"
        \/ code = "EVIDENCE_FIELD_INVALID" /\ (question = "unstable" \/ ~fit)
        \/ code = "LEAKAGE_DETECTED" /\ leaks
    BY <1>5, <1>7, <1>8, <1>10, <1>11, <1>13 DEF shape
  <2> QED
    BY <1>13, <2>1 DEF MayRefuse, code, fit, leaks
<1> QED
  BY <1>12, <1>13

-----------------------------------------------------------------------------
(* The inductive invariant: the evidence of the session was computed for   *)
(* some journal, and a page is about a journal, evidence that fits it, and *)
(* a retrieval from their corpus.                                          *)
PageIsOfRetrieval ==
    Shown =>
       /\ page.journal \in Journals /\ page.journal # << >>
       /\ Fits(page.state, page.journal)
       /\ page.shown = "CORPUS_INVALID" <=> Fingerprint(page.journal) = NoValue
       /\ page.packet # NoValue =>
             /\ Fingerprint(page.journal) # NoValue
             /\ \E response, answer :
                   /\ page.packet = PacketPage(response, page.form, answer)
                   /\ response.state = "OK"
                   /\ Found(page.journal, page.state, page.form, response)

InspectorInv ==
    /\ journal \in Journals \cup {<< >>}
    /\ Stored(excursion_state)
    /\ PageIsOfRetrieval

(* What Inspect shows.                                                     *)
LEMMA InspectShows ==
    ASSUME InspectorInv, NEW form, NEW answer, Inspect(form, answer)
    PROVE  PageIsOfRetrieval'
<1> DEFINE bound == BoundState(excursion_state, journal)
           documents == Corpus(journal, bound)
           valid == CorpusValid(journal, Kpis[journal], bound)
<1>1. journal \in Journals /\ journal # << >>
  BY DEF InspectorInv, Inspect
<1>2. Fits(bound, journal)
  BY <1>1, BoundFits DEF InspectorInv
<1>3. valid <=> Fingerprint(journal) # NoValue
  BY <1>1, <1>2, CorpusIsValid
<1>4. \/ ~valid /\ page' = ErrorPage(form, "CORPUS_INVALID")
      \/ valid /\ FormError(form) # "NONE" /\ page' = ErrorPage(form, FormError(form))
      \/ /\ valid
         /\ \E score \in Scores(Candidates(journal, bound, form), form, MaxScore) :
               page' = ResponsePage(retrieve_evidence(documents, form, score), form, answer)
  BY DEF Inspect, Corpus, Candidates
<1> HIDE DEF bound, documents, valid
<1>5. ASSUME NEW reason, page' = ErrorPage(form, reason),
             reason = "CORPUS_INVALID" <=> Fingerprint(journal) = NoValue
      PROVE  PageIsOfRetrieval'
  <2>1. /\ page'.shown = reason /\ page'.journal = journal /\ page'.state = bound
        /\ page'.packet = NoValue
    BY <1>5 DEF ErrorPage, bound
  <2> QED
    BY <1>1, <1>2, <1>5, <2>1 DEF PageIsOfRetrieval
<1>6. CASE valid /\ FormError(form) # "NONE" /\ page' = ErrorPage(form, FormError(form))
  <2>1. FormError(form) # "CORPUS_INVALID"
    BY DEF FormError
  <2> QED
    BY <1>3, <1>5, <1>6, <2>1
<1>7. CASE /\ valid
           /\ \E score \in Scores(Candidates(journal, bound, form), form, MaxScore) :
                 page' = ResponsePage(retrieve_evidence(documents, form, score), form, answer)
  <2>1. PICK score \in Scores(Candidates(journal, bound, form), form, MaxScore) :
           page' = ResponsePage(retrieve_evidence(documents, form, score), form, answer)
    BY <1>7
  <2> DEFINE response == retrieve_evidence(documents, form, score)
  <2>2. Fingerprint(journal) # NoValue
    BY <1>3, <1>7
  <2>3. response.state = "OK" => Found(journal, bound, form, response)
    BY <1>1, <2>2, RetrievalFinds DEF documents
  <2>4. response.state \in {"OK", "NO_RELEVANT_EVIDENCE", "EMPTY_QUERY"}
    BY DEF retrieve_evidence, _finalise, _empty_response
  <2> HIDE DEF response
  <2>5. /\ page'.shown = response.state /\ page'.journal = journal /\ page'.state = bound
        /\ page'.form = form
        /\ page'.packet # NoValue =>
              response.state = "OK" /\ page'.packet = PacketPage(response, form, answer)
    BY <2>1 DEF ResponsePage, bound, response
  <2>6. page'.packet # NoValue =>
           \E r, a : /\ page'.packet = PacketPage(r, page'.form, a) /\ r.state = "OK"
                     /\ Found(page'.journal, page'.state, page'.form, r)
    BY <2>3, <2>5
  <2> QED
    BY <1>1, <1>2, <2>2, <2>4, <2>5, <2>6 DEF PageIsOfRetrieval
<1> QED
  BY <1>3, <1>4, <1>5, <1>6, <1>7

(* The invariant is inductive.                                             *)
LEMMA InspectorInvHolds == Spec => []InspectorInv
<1>1. Init => InspectorInv
  BY DEF Init, InspectorInv, Stored, PageIsOfRetrieval, Shown
<1>2. InspectorInv /\ [Next]_vars => InspectorInv'
  <2> SUFFICES ASSUME InspectorInv, [Next]_vars PROVE InspectorInv'
    OBVIOUS
  <2>1. page' = NoPage => PageIsOfRetrieval'
    BY DEF PageIsOfRetrieval, Shown
  <2>2. CASE LoadJournal
    BY <2>1, <2>2 DEF LoadJournal, InspectorInv
  <2>3. CASE StoreEvidence
    <3>1. journal \in Journals /\ Fingerprint(journal) # NoValue
      BY <2>3 DEF StoreEvidence, InspectorInv, Fingerprint
    <3>2. PICK evidence \in [TicketsOf(journal) -> Verdicts], basis \in TimeBases :
             excursion_state' = [journal_fingerprint |-> Fingerprint(journal),
                                 time_basis |-> basis, evidence |-> evidence]
      BY <2>3 DEF StoreEvidence, Fingerprint
    <3>3. /\ excursion_state'.journal_fingerprint = Fingerprint(journal)
          /\ excursion_state'.evidence \in [TicketsOf(journal) -> Verdicts]
      BY <3>2
    <3>4. Stored(excursion_state)'
      BY <3>1, <3>3 DEF Stored
    <3> QED
      BY <2>1, <2>3, <3>4 DEF StoreEvidence, InspectorInv
  <2>4. CASE NoJournal
    <3>1. page'.shown = "NO_ACTIVE_JOURNAL" /\ UNCHANGED <<journal, excursion_state>>
      BY <2>4 DEF NoJournal
    <3> QED
      BY <3>1 DEF InspectorInv, PageIsOfRetrieval, Shown
  <2>5. CASE LeavePage
    BY <2>1, <2>5 DEF LeavePage, InspectorInv
  <2>6. ASSUME NEW form, NEW answer, Inspect(form, answer) PROVE InspectorInv'
    <3>1. PageIsOfRetrieval'
      BY <2>6, InspectShows
    <3>2. journal' = journal /\ excursion_state' \in {excursion_state, NoValue}
      BY <2>6 DEF Inspect, BoundState
    <3>3. Stored(excursion_state)'
      BY <3>2 DEF InspectorInv, Stored
    <3> QED
      BY <3>1, <3>2, <3>3 DEF InspectorInv
  <2>7. CASE UNCHANGED vars
    BY <2>7 DEF vars, InspectorInv, Stored, PageIsOfRetrieval, Shown
  <2> QED
    BY <2>2, <2>3, <2>4, <2>5, <2>6, <2>7 DEF Next
<1> QED
  BY <1>1, <1>2, PTL DEF Spec

(* Evidence of another journal, or none, never keeps the inspector from    *)
(* showing a journal: only one without a fingerprint is refused.           *)
THEOREM CorpusIsRefusedForTickets == Spec => []OnlyBadTicketsRefuseCorpus
<1>1. InspectorInv => OnlyBadTicketsRefuseCorpus
  BY DEF InspectorInv, PageIsOfRetrieval, OnlyBadTicketsRefuseCorpus, Fingerprint
<1> QED
  BY <1>1, InspectorInvHolds, PTL

(* A page with a packet, and the retrieval it was made of.                 *)
LEMMA PageHasPacket ==
    ASSUME InspectorInv, HasPacket
    PROVE  /\ page.journal \in Journals /\ Fingerprint(page.journal) # NoValue
           /\ Fits(page.state, page.journal)
           /\ \E response, answer :
                 /\ page.packet = PacketPage(response, page.form, answer)
                 /\ response.state = "OK"
                 /\ Found(page.journal, page.state, page.form, response)
BY DEF InspectorInv, PageIsOfRetrieval, HasPacket

(* A retrieval that found something is accepted as a packet, whatever the  *)
(* ranks, limits, statuses and limitations: only the question, a malformed  *)
(* cell or an identifier that names the digest refuses it.                 *)
THEOREM RetrievalsAreAccepted == Spec => []RetrievalsBecomePackets
<1>1. InspectorInv => RetrievalsBecomePackets
  <2> SUFFICES ASSUME InspectorInv, HasPacket PROVE RetrievalsBecomePackets
    BY DEF RetrievalsBecomePackets
  <2>1. PICK response, answer :
           /\ page.packet = PacketPage(response, page.form, answer)
           /\ response.state = "OK" /\ Found(page.journal, page.state, page.form, response)
    BY PageHasPacket
  <2>2. page.packet.packet_error = PacketError(response, page.form.question)
    BY <2>1 DEF PacketPage
  <2>3. MayRefuse(page.journal, page.state, page.form.question, page.packet.packet_error)
    BY <2>1, <2>2, PageHasPacket, FoundBecomesPacket
  <2> QED
    BY <2>3 DEF RetrievalsBecomePackets, MayRefuse
<1> QED
  BY <1>1, InspectorInvHolds, PTL

-----------------------------------------------------------------------------
(* A passed answer: the packet it was judged by, and its items.            *)
LEMMA PassedPacket ==
    ASSUME InspectorInv, Passed
    PROVE  LET response == page.packet.response
               request == page.packet.request
           IN  /\ page.journal \in Journals /\ Fingerprint(page.journal) # NoValue
               /\ Fits(page.state, page.journal)
               /\ Found(page.journal, page.state, page.form, response)
               /\ request = Request(response, page.form.question)
               /\ validate_request_shape(request) = "NONE"
               /\ _validate_payload(request, Payload) = {}
<1>1. HasPacket /\ page.packet.request # NoValue /\ page.packet.answer # NoValue
      /\ page.packet.codes = {}
  BY DEF Passed
<1>2. PICK response, answer :
         /\ page.packet = PacketPage(response, page.form, answer)
         /\ response.state = "OK" /\ Found(page.journal, page.state, page.form, response)
  BY <1>1, PageHasPacket
<1> DEFINE question == page.form.question
           request == Request(response, question)
           codes == validate_grounded_response(request, Context(response, question), answer)
<1>3. /\ page.packet.response = response /\ page.packet.answer = answer
      /\ page.packet.request = IF PacketError(response, question) = "NONE" THEN request ELSE NoValue
      /\ page.packet.codes = IF PacketError(response, question) = "NONE" /\ answer # NoValue
                             THEN codes ELSE {}
  BY <1>2 DEF PacketPage
<1> HIDE DEF request, codes
<1>4. page.packet.request = request /\ codes = {}
  BY <1>1, <1>3
<1>5. validate_request_shape(request) = "NONE" /\ _validate_payload(request, answer.payload) = {}
  BY <1>4 DEF validate_grounded_response, codes
<1> QED
  BY <1>1, <1>2, <1>3, <1>4, <1>5, PageHasPacket DEF request, Payload

LEMMA PassedItems ==
    ASSUME InspectorInv, Passed
    PROVE  LET request == page.packet.request IN
           \E m \in Nat :
              /\ DOMAIN Packet = 1..m /\ DOMAIN request.evidence = 1..m
              /\ Items(request) = {request.evidence[i] : i \in 1..m}
              /\ request.required_limitation_codes =
                    _required_limitation_codes(Items(request),
                       page.packet.response.candidate_count, Len(Packet))
              /\ \A i \in 1..m :
                    /\ request.evidence[i] = _project_result(Packet[i])
                    /\ _validate_evidence_item(request.evidence[i]) = "NONE"
                    /\ \E method : \E d \in Corpus(page.journal, page.state) :
                          Packet[i] = _make_result(i, d, method)
<1> DEFINE response == page.packet.response
           request == page.packet.request
           question == page.form.question
           shapes == [i \in DOMAIN request.evidence |-> _validate_evidence_item(request.evidence[i])]
<1>1. /\ Found(page.journal, page.state, page.form, response)
      /\ request = Request(response, question)
      /\ validate_request_shape(request) = "NONE"
  BY PassedPacket
<1> HIDE DEF response, request
<1>2. ResultsAre(response.results, page.journal, page.state, page.form)
  BY <1>1, FoundResults
<1>3. PICK m \in 1..MAX_EVIDENCE_ITEMS :
         /\ Len(response.results) = m /\ DOMAIN response.results = 1..m
         /\ response.results # << >>
         /\ \A i \in 1..m : \E method : \E d \in Candidates(page.journal, page.state, page.form) :
               response.results[i] = _make_result(i, d, method)
  BY <1>2 DEF ResultsAre
<1> USE DEF response, request
<1>4. /\ DOMAIN Packet = 1..m
      /\ \A i \in 1..m : \E method : \E d \in Candidates(page.journal, page.state, page.form) :
            Packet[i] = _make_result(i, d, method)
  BY <1>3 DEF Packet
<1>5. m \in Nat
  BY MaxItemsAssumption
<1>6. /\ request.evidence = [i \in 1..m |-> _project_result(Packet[i])]
      /\ request.required_limitation_codes =
            _required_limitation_codes(Items(request), response.candidate_count, Len(Packet))
  BY <1>1, <1>4, <1>5, RequestIs DEF Packet
<1> HIDE DEF response, request
<1>7. /\ DOMAIN request.evidence = 1..m
      /\ \A i \in 1..m : request.evidence[i] = _project_result(Packet[i])
  BY <1>6
<1>8. Items(request) = {request.evidence[i] : i \in 1..m}
  BY <1>7 DEF Items
<1>9. FirstError(shapes) = "NONE"
  BY <1>1 DEF validate_request_shape
<1>10. /\ DOMAIN shapes = 1..m
      /\ \A i \in 1..m : shapes[i] = _validate_evidence_item(request.evidence[i])
  BY <1>7
<1> HIDE DEF shapes
<1>11. \A i \in 1..m : _validate_evidence_item(request.evidence[i]) = "NONE"
  BY <1>5, <1>9, <1>10, FirstErrorIs
<1>12. \A d \in Candidates(page.journal, page.state, page.form) : d \in Corpus(page.journal, page.state)
  BY DEF Candidates, Filtered
<1>13. ASSUME NEW i \in 1..m
       PROVE  \E method : \E d \in Corpus(page.journal, page.state) :
                 Packet[i] = _make_result(i, d, method)
  <2>1. PICK method : \E d \in Candidates(page.journal, page.state, page.form) :
                         Packet[i] = _make_result(i, d, method)
    BY <1>4
  <2> QED
    BY <1>12, <2>1
<1> QED
  BY <1>4, <1>5, <1>6, <1>7, <1>8, <1>11, <1>13 DEF request, response

(* The checks of a payload that passed.                                    *)
LEMMA PassedChecks ==
    ASSUME NEW request, NEW payload, _validate_payload(request, payload) = {}
    PROVE  /\ Has(payload, "answer") /\ Has(payload, "claims") /\ Has(payload, "citations")
           /\ Has(payload, "limitation_codes")
           /\ CitationAliases(payload) = {t.alias : t \in Tokens(payload["answer"], "citation")}
           /\ \A claim \in Claims(payload) :
                 _validate_one_claim(request, claim, CitationAliases(payload)) = {}
           /\ _validate_limitations(request, payload) = {}
           /\ _validate_answer_numbers(request, payload) = {}
           /\ _validate_explicit_identifiers(request, payload["answer"]) = {}
<1>1. \A code, condition : Code(code, condition) = {} => ~condition
  BY DEF Code
<1>2. /\ Code("SCHEMA_MISSING_FIELD", ~(RESPONSE_REQUIRED_FIELDS \subseteq DOMAIN payload)) = {}
      /\ Code("SCHEMA_TYPE_ERROR",
              \E k \in RESPONSE_REQUIRED_FIELDS \cap DOMAIN payload : payload[k] = WrongType) = {}
      /\ _validate_citations(request, payload) = {}
      /\ _validate_claims(request, payload) = {}
      /\ _validate_limitations(request, payload) = {}
      /\ Has(payload, "answer") =>
            /\ _validate_answer_numbers(request, payload) = {}
            /\ _validate_explicit_identifiers(request, payload["answer"]) = {}
  BY DEF _validate_payload
<1>3. RESPONSE_REQUIRED_FIELDS \subseteq DOMAIN payload
      /\ \A k \in RESPONSE_REQUIRED_FIELDS : payload[k] # WrongType
  BY <1>2 DEF Code
<1>4. \A k \in {"answer", "claims", "citations", "limitation_codes"} : Has(payload, k)
  BY <1>3 DEF RESPONSE_REQUIRED_FIELDS, Has
<1>5. /\ WellTypedList(payload, "citations")
      /\ {t.alias : t \in Tokens(payload["answer"], "citation")} = Elements(payload["citations"])
  BY <1>2, <1>4 DEF _validate_citations, Code
<1>6. \A claim \in Claims(payload) :
         _validate_one_claim(request, claim, CitationAliases(payload)) = {}
  BY <1>2 DEF _validate_claims
<1> QED
  BY <1>2, <1>4, <1>5, <1>6 DEF CitationAliases

-----------------------------------------------------------------------------
(* What the projection keeps of a document is what the journal says.       *)
LEMMA RowIsFound ==
    ASSUME page.journal \in Journals, Fingerprint(page.journal) # NoValue,
           NEW row \in Rows(page.journal)
    PROVE  RowOf(row.ticket) = row
<1>1. \A a \in Rows(page.journal) : a.ticket = row.ticket => a = row
  BY TicketsIdentify
<1> QED
  BY <1>1 DEF RowOf

LEMMA ClaimableIs ==
    ASSUME NEW result, NEW field, field \in _project_result(result).claimable_field_keys
    PROVE  LET fields == _project_result(result).fields IN
           /\ field \in DOMAIN fields /\ ValueType(field) \in CLAIMABLE_TYPES
           /\ result.document_type = "TRADE_EVIDENCE" => fields = _project_trade(result)
           /\ result.document_type = "KPI_EVIDENCE" => fields = _project_kpi(result)
           /\ result.document_type = "DATASET_CONTEXT" => fields = _project_dataset(result)
<1> DEFINE fields == _project_result(result).fields
<1>1. _project_result(result).claimable_field_keys = Claimable(fields)
  BY DEF _project_result
<1>2. /\ result.document_type = "TRADE_EVIDENCE" => fields = _project_trade(result)
      /\ result.document_type = "KPI_EVIDENCE" => fields = _project_kpi(result)
      /\ result.document_type = "DATASET_CONTEXT" => fields = _project_dataset(result)
  BY DEF _project_result
<1> HIDE DEF fields
<1>3. field \in DOMAIN fields /\ ValueType(field) \in CLAIMABLE_TYPES
  BY <1>1 DEF Claimable
<1> QED
  BY <1>2, <1>3 DEF fields

LEMMA ClaimableTextIsOfJournal ==
    ASSUME page.journal \in Journals, Fingerprint(page.journal) # NoValue,
           NEW d \in Corpus(page.journal, page.state), NEW rank, NEW method,
           _validate_evidence_item(_project_result(_make_result(rank, d, method))) = "NONE",
           NEW field,
           field \in _project_result(_make_result(rank, d, method)).claimable_field_keys
    PROVE  _project_result(_make_result(rank, d, method)).fields[field]
              = JournalText(d.document_id, field)
<1> DEFINE result == _make_result(rank, d, method)
           item == _project_result(result)
           fields == item.fields
<1>1. /\ result.document_type = d.document_type /\ result.content = d.content
      /\ d.document_id = <<d.document_type, d.source_record_key>>
      /\ d.document_type \in {"TRADE_EVIDENCE", "KPI_EVIDENCE", "DATASET_CONTEXT"}
  BY CorpusTyped DEF _make_result
<1>2. /\ field \in DOMAIN fields /\ ValueType(field) \in CLAIMABLE_TYPES
      /\ result.document_type = "TRADE_EVIDENCE" => fields = _project_trade(result)
      /\ result.document_type = "KPI_EVIDENCE" => fields = _project_kpi(result)
      /\ result.document_type = "DATASET_CONTEXT" => fields = _project_dataset(result)
  BY ClaimableIs
<1>3. \A k \in DOMAIN _content_map(d.content) : _content_map(d.content)[k] = d.content[k]
  BY DEF _content_map, Restricted
<1>7. d.document_type # "TRADE_EVIDENCE" => field \notin ExcursionLines
  <2>1. DOMAIN fields \subseteq AUTHORISED_FIELDS[item.document_type]
    BY ShapeIs
  <2>2. item.document_type = d.document_type
    BY <1>1 DEF _project_result
  <2> HIDE DEF fields, item
  <2>3. field \in AUTHORISED_FIELDS[d.document_type]
    BY <1>2, <2>1, <2>2
  <2> QED
    BY <1>1, <2>3 DEF AUTHORISED_FIELDS, ExcursionLines
<1>4. CASE d.document_type = "TRADE_EVIDENCE"
  <2>1. PICK row \in Rows(page.journal) : d = TradeDocument(page.journal, page.state, row)
    BY <1>4, CorpusTyped
  <2>2. d.source_record_key = row.ticket
    BY <2>1 DEF TradeDocument, Document
  <2>3. fields = _project_trade(_make_result(rank, TradeDocument(page.journal, page.state, row), method))
    BY <1>1, <1>2, <1>4, <2>1
  <2> HIDE DEF fields
  <2>4. field \notin {"ticket", "symbol", "bar_evidence_status", "side"}
    BY <1>2 DEF ValueType, CLAIMABLE_TYPES
  <2>5. /\ field \in ExcursionLines =>
              /\ ItemOf(row, page.state).status = "COMPUTED"
              /\ fields[field] = ItemOf(row, page.state).lines[field]
        /\ field \notin ExcursionLines => fields[field] = row.lines[field]
    BY <1>2, <2>3, <2>4, TradeFields
  <2>6. JournalText(d.document_id, field) =
           IF field \in ExcursionLines
           THEN IF page.state # NoValue /\ page.state.evidence[row.ticket].status = "COMPUTED"
                THEN page.state.evidence[row.ticket].lines[field] ELSE NoValue
           ELSE RowOf(row.ticket).lines[field]
    BY <1>1, <1>4, <2>2 DEF JournalText
  <2>7. RowOf(row.ticket) = row
    BY RowIsFound
  <2>8. ItemOf(row, page.state).status = "COMPUTED" =>
           page.state # NoValue /\ ItemOf(row, page.state) = page.state.evidence[row.ticket]
    BY DEF ItemOf
  <2> QED
    BY <2>5, <2>6, <2>7, <2>8 DEF fields
<1>5. CASE d.document_type = "KPI_EVIDENCE"
  <2>1. PICK k \in DOMAIN Kpis[page.journal] : d = KpiDocument(page.journal, k)
    BY <1>5, CorpusTyped
  <2>2. d.content = [label \in {k} |-> Kpis[page.journal][label]]
    BY <2>1 DEF KpiDocument, Document
  <2>3. fields = _content_map(d.content)
    BY <1>1, <1>2, <1>5 DEF _project_kpi
  <2> HIDE DEF fields
  <2>4. DOMAIN _content_map(d.content) \subseteq DOMAIN d.content
    BY DEF _content_map, Restricted
  <2>5. fields[field] = Kpis[page.journal][field]
    BY <1>2, <1>3, <2>2, <2>3, <2>4
  <2>6. JournalText(d.document_id, field) = Kpis[page.journal][field]
    BY <1>1, <1>5, <1>7 DEF JournalText
  <2> QED
    BY <2>5, <2>6 DEF fields
<1>6. CASE d.document_type = "DATASET_CONTEXT"
  <2>1. d = _dataset_document(page.journal, page.state)
    BY <1>6, CorpusTyped
  <2>2. d.content["journal_row_count"] = Numeral[Len(page.journal)]
    BY <2>1, DatasetDocumentIs
  <2>3. fields = Restricted(_content_map(d.content), AUTHORISED_FIELDS["DATASET_CONTEXT"])
    BY <1>1, <1>2, <1>6 DEF _project_dataset
  <2> HIDE DEF fields
  <2>4. field \in AUTHORISED_FIELDS["DATASET_CONTEXT"] /\ field \in DOMAIN _content_map(d.content)
        /\ fields[field] = _content_map(d.content)[field]
    BY <1>2, <2>3 DEF Restricted
  <2>5. field = "journal_row_count"
    BY <1>2, <2>4 DEF AUTHORISED_FIELDS, ValueType, CLAIMABLE_TYPES
  <2>6. JournalText(d.document_id, field) = Numeral[Len(page.journal)]
    BY <1>1, <1>6, <1>7 DEF JournalText
  <2> QED
    BY <1>3, <2>2, <2>4, <2>5, <2>6 DEF fields
<1> QED
  BY <1>1, <1>4, <1>5, <1>6

(* A claim of a passed answer restates the journal, of a cited document.   *)
LEMMA PassedClaim ==
    ASSUME InspectorInv, Passed, NEW claim \in Claims(Payload)
    PROVE  /\ claim.evidence \in {t.alias : t \in Tokens(Payload["answer"], "citation")}
           /\ JournalText(CitedId(claim), claim.field) = claim.value
<1> DEFINE request == page.packet.request
           cited == CitationAliases(Payload)
           items == [i \in DOMAIN request.evidence |-> request.evidence[i]]
<1>1. _validate_payload(request, Payload) = {}
  BY PassedPacket
<1>2. /\ cited = {t.alias : t \in Tokens(Payload["answer"], "citation")}
      /\ _validate_one_claim(request, claim, cited) = {}
  BY <1>1, PassedChecks
<1> HIDE DEF cited
<1>3. PICK m \in Nat :
         /\ DOMAIN Packet = 1..m /\ DOMAIN request.evidence = 1..m
         /\ \A i \in 1..m :
               /\ request.evidence[i] = _project_result(Packet[i])
               /\ _validate_evidence_item(request.evidence[i]) = "NONE"
               /\ \E method : \E d \in Corpus(page.journal, page.state) :
                     Packet[i] = _make_result(i, d, method)
  BY PassedItems
<1> DEFINE alias == claim.evidence
<1> HIDE DEF request
<1>4. /\ alias \in cited /\ alias \in DOMAIN request.evidence
      /\ claim.field \in request.evidence[alias].claimable_field_keys
      /\ request.evidence[alias].fields[claim.field] = claim.value
  BY <1>2 DEF _validate_one_claim, Code
<1>5. PICK method : \E d \in Corpus(page.journal, page.state) :
                       Packet[alias] = _make_result(alias, d, method)
  BY <1>3, <1>4
<1>6. PICK d \in Corpus(page.journal, page.state) : Packet[alias] = _make_result(alias, d, method)
  BY <1>5
<1>7. request.evidence[alias] = _project_result(_make_result(alias, d, method))
      /\ _validate_evidence_item(request.evidence[alias]) = "NONE"
  BY <1>3, <1>4, <1>6
<1>8. page.journal \in Journals /\ Fingerprint(page.journal) # NoValue
  BY PassedPacket
<1>9. claim.value = JournalText(d.document_id, claim.field)
  BY <1>4, <1>7, <1>8, ClaimableTextIsOfJournal
<1>10. CitedId(claim) = d.document_id
  BY <1>6 DEF CitedId, _make_result
<1> QED
  BY <1>2, <1>4, <1>9, <1>10

(* Every claim of a passed answer restates the journal, its KPIs or its    *)
(* computed excursions, of a document that the answer cites.               *)
THEOREM ClaimsAreRestated == Spec => []ClaimsRestateJournal
<1>1. InspectorInv => ClaimsRestateJournal
  BY PassedClaim DEF ClaimsRestateJournal
<1> QED
  BY <1>1, InspectorInvHolds, PTL

-----------------------------------------------------------------------------
(* An item of a packet is the projection of a document of the corpus.      *)
LEMMA PacketItem ==
    ASSUME InspectorInv, Passed, NEW item \in Items(page.packet.request)
    PROVE  \E rank, method : \E d \in Corpus(page.journal, page.state) :
              /\ item = _project_result(_make_result(rank, d, method))
              /\ _validate_evidence_item(item) = "NONE"
<1> DEFINE request == page.packet.request
<1>1. PICK m \in Nat :
         /\ Items(request) = {request.evidence[i] : i \in 1..m}
         /\ \A i \in 1..m :
               /\ request.evidence[i] = _project_result(Packet[i])
               /\ _validate_evidence_item(request.evidence[i]) = "NONE"
               /\ \E method : \E d \in Corpus(page.journal, page.state) :
                     Packet[i] = _make_result(i, d, method)
  BY PassedItems
<1> HIDE DEF request
<1>2. PICK i \in 1..m : item = request.evidence[i]
  BY <1>1 DEF request
<1>3. PICK method : \E d \in Corpus(page.journal, page.state) :
                       Packet[i] = _make_result(i, d, method)
  BY <1>1
<1> QED
  BY <1>1, <1>2, <1>3

(* Tickets and symbols of a packet are those of rows of the journal.       *)
LEMMA PacketNamesRows ==
    ASSUME InspectorInv, Passed, NEW kind \in {"ticket", "symbol"},
           NEW text \in FieldTexts(page.packet.request, {kind})
    PROVE  \E row \in Rows(page.journal) : text = row[kind]
<1>1. PICK item \in Items(page.packet.request) : kind \in DOMAIN item.fields /\ text = item.fields[kind]
  BY DEF FieldTexts
<1>2. PICK rank, method : \E d \in Corpus(page.journal, page.state) :
         /\ item = _project_result(_make_result(rank, d, method))
         /\ _validate_evidence_item(item) = "NONE"
  BY PacketItem
<1>3. PICK d \in Corpus(page.journal, page.state) :
         /\ item = _project_result(_make_result(rank, d, method))
         /\ _validate_evidence_item(item) = "NONE"
  BY <1>2
<1>4. page.journal \in Journals /\ Fingerprint(page.journal) # NoValue
  BY PassedPacket
<1> QED
  BY <1>1, <1>3, <1>4, NamesAreOfRows

(* Times of a packet are those of rows of the journal, and canonical.      *)
LEMMA PacketTimesAreOfRows ==
    ASSUME InspectorInv, Passed,
           NEW text \in FieldTexts(page.packet.request, {"open_time", "close_time"})
    PROVE  text \in TimesOfJournal \cap Canonical["TIMESTAMP"]
<1>1. PICK item \in Items(page.packet.request), k \in {"open_time", "close_time"} :
         k \in DOMAIN item.fields /\ text = item.fields[k]
  BY DEF FieldTexts
<1>2. PICK rank, method : \E d \in Corpus(page.journal, page.state) :
         /\ item = _project_result(_make_result(rank, d, method))
         /\ _validate_evidence_item(item) = "NONE"
  BY PacketItem
<1>3. PICK d \in Corpus(page.journal, page.state) :
         /\ item = _project_result(_make_result(rank, d, method))
         /\ _validate_evidence_item(item) = "NONE"
  BY <1>2
<1>4. page.journal \in Journals /\ Fingerprint(page.journal) # NoValue
  BY PassedPacket
<1> DEFINE result == _make_result(rank, d, method)
<1>5. item.document_type = d.document_type /\ result.document_type = d.document_type
  BY <1>3 DEF _make_result, _project_result
<1> HIDE DEF result
<1>6. k \in AUTHORISED_FIELDS[item.document_type] /\ WellFormed(k, text)
  BY <1>1, <1>3 DEF _validate_evidence_item
<1>7. text \in Canonical["TIMESTAMP"]
  BY <1>1, <1>6 DEF WellFormed, ValueType
<1>8. d.document_type = "TRADE_EVIDENCE"
  <2>1. d.document_type \in {"TRADE_EVIDENCE", "KPI_EVIDENCE", "DATASET_CONTEXT"}
    BY <1>4, CorpusTyped
  <2> QED
    BY <1>1, <1>5, <1>6, <2>1 DEF AUTHORISED_FIELDS
<1>9. PICK row \in Rows(page.journal) : d = TradeDocument(page.journal, page.state, row)
  BY <1>4, <1>8, CorpusTyped
<1>10. item.fields = _project_trade(result)
  BY <1>3, <1>5, <1>8 DEF _project_result, result
<1>11. text \in {row.lines[l] : l \in DOMAIN row.lines \cap {"open_time", "close_time"}}
  <2>1. k \in DOMAIN _project_trade(_make_result(rank, TradeDocument(page.journal, page.state, row), method))
    BY <1>1, <1>9, <1>10 DEF result
  <2>2. item.fields[k] = row.lines[k]
    BY <1>1, <1>9, <1>10, <2>1, TradeFields DEF result, ExcursionLines
  <2>3. k \in DOMAIN row.lines
    BY <1>1, <2>1, TradeLinesAreOfRow
  <2> QED
    BY <1>1, <2>2, <2>3
<1> QED
  BY <1>7, <1>11 DEF TimesOfJournal

(* Nothing in a passed answer is made up: its numbers are claimed values,  *)
(* with their units, or identifiers, and its names are of the journal.     *)
THEOREM TokensComeFromJournal == Spec => []TokensAreBacked
<1>1. InspectorInv => TokensAreBacked
  <2> SUFFICES ASSUME InspectorInv, Passed PROVE TokensAreBacked
    BY DEF TokensAreBacked, NumbersAreClaimed, IdentifiersAreOfJournal
  <2> DEFINE request == page.packet.request
             answer == Payload["answer"]
  <2>1. _validate_payload(request, Payload) = {}
    BY PassedPacket
  <2>2. /\ _validate_answer_numbers(request, Payload) = {}
        /\ _validate_explicit_identifiers(request, answer) = {}
    BY <2>1, PassedChecks
  <2>3. \A kind \in {"ticket", "symbol"} : \A text \in FieldTexts(request, {kind}) :
           \E row \in Rows(page.journal) : text = row[kind]
    BY PacketNamesRows
  <2>6. \A text \in FieldTexts(request, {"open_time", "close_time"}) :
           text \in TimesOfJournal \cap Canonical["TIMESTAMP"]
    BY PacketTimesAreOfRows
  <2> HIDE DEF request
  <2>4. IdentifiersAreOfJournal
    <3> SUFFICES ASSUME NEW kind \in {"ticket", "symbol"}, NEW t \in Tokens(answer, kind)
                 PROVE  t.text \in {row[kind] : row \in Rows(page.journal)}
      BY DEF IdentifiersAreOfJournal
    <3>1. t.text \in FieldTexts(request, {kind})
      BY <2>2 DEF _validate_explicit_identifiers, Code
    <3> QED
      BY <2>3, <3>1
  <2>5. NumbersAreClaimed
    <3> DEFINE times == FieldTexts(request, {"open_time", "close_time"})
               unmasked == AnswerNumbers(answer)
                           \cup UNION {Leftover[t.text][times] : t \in Tokens(answer, "time")}
    <3>3. SUFFICES ASSUME NEW t \in unmasked PROVE Backed(t)
      <4>1. times \in SUBSET (TimesOfJournal \cap Canonical["TIMESTAMP"])
        BY <2>6
      <4>2. \A t \in AnswerNumbers(answer) : Backed(t)
        BY <3>3
      <4>3. \A t \in Tokens(answer, "time") : \A number \in Leftover[t.text][times] : Backed(number)
        BY <3>3
      <4> HIDE DEF times
      <4> QED
        BY <4>1, <4>2, <4>3 DEF NumbersAreClaimed
    <3> HIDE DEF times
    <3>1. CASE NamesIn[t.text] \cap FieldTexts(request, {"ticket", "symbol"}) # {}
      <4>1. PICK kind \in {"ticket", "symbol"} : NamesIn[t.text] \cap FieldTexts(request, {kind}) # {}
        BY <3>1 DEF FieldTexts
      <4>2. PICK name \in NamesIn[t.text] : name \in FieldTexts(request, {kind})
        BY <4>1
      <4>3. PICK row \in Rows(page.journal) : name = row[kind]
        BY <2>3, <4>2
      <4>4. name \in {row.ticket, row.symbol}
        BY <4>3
      <4> QED
        BY <4>2, <4>4 DEF Backed
    <3>2. CASE NamesIn[t.text] \cap FieldTexts(request, {"ticket", "symbol"}) = {}
      <4>1. t \in _mask_non_numeric_tokens(request, answer)
        BY <3>2 DEF _mask_non_numeric_tokens, times
      <4>2. _number_is_bound(t, ValidatedNumbers(request, Payload))
        BY <2>2, <4>1 DEF _validate_answer_numbers, Code
      <4>3. PICK v \in ValidatedNumbers(request, Payload) :
               v.number = NumberOf[t.text] /\ (t.percent => v.unit = "%")
        BY <4>2 DEF _number_is_bound
      <4>4. PICK claim \in Claims(Payload) :
               v = [number |-> NumberOf[claim.value], unit |-> Unit(claim.field)]
        BY DEF ValidatedNumbers
      <4>5. JournalText(CitedId(claim), claim.field) = claim.value
        BY PassedClaim
      <4>6. Unit(claim.field) = "%" => claim.field = "win_rate_pct"
        BY DEF Unit
      <4> QED
        BY <4>3, <4>4, <4>5, <4>6 DEF Backed
    <3> QED
      BY <3>1, <3>2
  <2> QED
    BY <2>4, <2>5 DEF TokensAreBacked
<1> QED
  BY <1>1, InspectorInvHolds, PTL

-----------------------------------------------------------------------------
(* The items of trades in a packet.                                        *)
Marked(item) == DOMAIN item.fields \cap {"approx_mfe", "approx_mae"} # {}

Approximate(items) == {i \in items : i.document_type = "TRADE_EVIDENCE" /\ Marked(i)}

LEMMA TradeItem ==
    ASSUME page.journal \in Journals, Fingerprint(page.journal) # NoValue,
           NEW row \in Rows(page.journal), NEW rank, NEW method,
           LET d == TradeDocument(page.journal, page.state, row) IN
           _validate_evidence_item(_project_result(_make_result(rank, d, method))) = "NONE"
    PROVE  LET d == TradeDocument(page.journal, page.state, row)
               item == _project_result(_make_result(rank, d, method))
           IN  /\ item.document_type = "TRADE_EVIDENCE"
               /\ Marked(item) <=> ItemOf(row, page.state).status = "COMPUTED"
               /\ "symbol" \in DOMAIN item.fields <=> row.symbol # NoValue
               /\ "symbol" \in DOMAIN item.fields => item.fields["symbol"] = row.symbol
<1> DEFINE d == TradeDocument(page.journal, page.state, row)
           result == _make_result(rank, d, method)
           item == _project_result(result)
<1>1. /\ result.document_type = "TRADE_EVIDENCE"
      /\ result.evidence_status = ItemOf(row, page.state).status
      /\ StatedSymbols(result) \subseteq {row.symbol} \ {NoValue}
      /\ row.symbol # NoValue => StatedSymbols(result) = {row.symbol}
  BY TradeProjection
<1>2. /\ "symbol" \in DOMAIN _project_trade(result) => _project_trade(result)["symbol"] = row.symbol
                                                       /\ row.symbol # NoValue
  BY TradeFields
<1> HIDE DEF result
<1>3. /\ item.document_type = "TRADE_EVIDENCE" /\ item.fields = _project_trade(result)
      /\ item.evidence_status = ItemOf(row, page.state).status
  BY <1>1 DEF _project_result
<1>4. row.symbol # NoValue => "symbol" \in DOMAIN _project_trade(result)
  BY <1>1 DEF _project_trade
<1> HIDE DEF item
<1>5. Marked(item) <=> ItemOf(row, page.state).status = "COMPUTED"
  <2>1. IF item.evidence_status = "COMPUTED"
        THEN EXCURSION_FIELD_KEYS \subseteq DOMAIN item.fields
        ELSE EXCURSION_FIELD_KEYS \cap DOMAIN item.fields = {}
    BY <1>3, ShapeIs DEF item, result
  <2> QED
    BY <1>3, <2>1 DEF Marked, EXCURSION_FIELD_KEYS
<1> QED
  BY <1>2, <1>3, <1>4, <1>5 DEF item, result

LEMMA ComputedIs ==
    ASSUME page.journal \in Journals, Fingerprint(page.journal) # NoValue,
           Fits(page.state, page.journal), NEW row \in Rows(page.journal),
           <<"TRADE_EVIDENCE", row.ticket>> \in Retrieved
    PROVE  row.ticket \in ComputedTickets <=> ItemOf(row, page.state).status = "COMPUTED"
<1>1. row.ticket \in TicketsOf(page.journal)
  BY TicketsIdentify
<1>2. CASE page.state = NoValue
  BY <1>2 DEF ComputedTickets, ItemOf
<1>3. CASE page.state # NoValue
  <2>1. DOMAIN page.state.evidence = TicketsOf(page.journal)
    BY <1>3 DEF Fits
  <2> QED
    BY <1>1, <1>3, <2>1 DEF ComputedTickets, ItemOf
<1> QED
  BY <1>2, <1>3

(* The trades a passed packet has approximate items of are those with a    *)
(* computed excursion, with their symbols.                                 *)
LEMMA ApproximateAreComputed ==
    ASSUME InspectorInv, Passed
    PROVE  LET approximate == Approximate(Items(page.packet.request)) IN
           /\ approximate # {} <=> ComputedTickets # {}
           /\ ItemSymbols(approximate) = {RowOf(t).symbol : t \in ComputedTickets} \ {NoValue}
<1> DEFINE request == page.packet.request
           approximate == Approximate(Items(request))
           SymbolOf(t) == RowOf(t).symbol
<1>1. PICK m \in Nat :
         /\ DOMAIN Packet = 1..m
         /\ Items(request) = {request.evidence[i] : i \in 1..m}
         /\ \A i \in 1..m :
               /\ request.evidence[i] = _project_result(Packet[i])
               /\ _validate_evidence_item(request.evidence[i]) = "NONE"
               /\ \E method : \E d \in Corpus(page.journal, page.state) :
                     Packet[i] = _make_result(i, d, method)
  BY PassedItems
<1> HIDE DEF request
<1>2. /\ page.journal \in Journals /\ Fingerprint(page.journal) # NoValue
      /\ Fits(page.state, page.journal)
  BY PassedPacket
<1>3. ASSUME NEW i \in 1..m
      PROVE  /\ request.evidence[i].document_type = Packet[i].document_type
             /\ Packet[i].document_id[1] = Packet[i].document_type
             /\ Packet[i].document_type = "TRADE_EVIDENCE" =>
                   \E row \in Rows(page.journal) :
                      /\ Packet[i].document_id = <<"TRADE_EVIDENCE", row.ticket>>
                      /\ Marked(request.evidence[i]) <=> row.ticket \in ComputedTickets
                      /\ "symbol" \in DOMAIN request.evidence[i].fields <=> row.symbol # NoValue
                      /\ "symbol" \in DOMAIN request.evidence[i].fields =>
                            request.evidence[i].fields["symbol"] = row.symbol
                      /\ RowOf(row.ticket) = row
  <2>1. PICK method : \E d \in Corpus(page.journal, page.state) : Packet[i] = _make_result(i, d, method)
    BY <1>1
  <2>2. PICK d \in Corpus(page.journal, page.state) : Packet[i] = _make_result(i, d, method)
    BY <2>1
  <2>3. /\ Packet[i].document_id = d.document_id /\ Packet[i].document_type = d.document_type
        /\ d.document_id = <<d.document_type, d.source_record_key>>
    BY <1>2, <2>2, CorpusTyped DEF _make_result
  <2>4. /\ request.evidence[i] = _project_result(_make_result(i, d, method))
        /\ _validate_evidence_item(_project_result(_make_result(i, d, method))) = "NONE"
    BY <1>1, <2>2
  <2>5. request.evidence[i].document_type = Packet[i].document_type
    BY <1>2, <2>3, <2>4, DocumentProjects
  <2>6. ASSUME d.document_type = "TRADE_EVIDENCE"
        PROVE  \E row \in Rows(page.journal) :
                  /\ Packet[i].document_id = <<"TRADE_EVIDENCE", row.ticket>>
                  /\ Marked(request.evidence[i]) <=> row.ticket \in ComputedTickets
                  /\ "symbol" \in DOMAIN request.evidence[i].fields <=> row.symbol # NoValue
                  /\ "symbol" \in DOMAIN request.evidence[i].fields =>
                        request.evidence[i].fields["symbol"] = row.symbol
                  /\ RowOf(row.ticket) = row
    <3>1. PICK row \in Rows(page.journal) : d = TradeDocument(page.journal, page.state, row)
      BY <1>2, <2>6, CorpusTyped
    <3>2. Packet[i].document_id = <<"TRADE_EVIDENCE", row.ticket>>
      BY <2>3, <3>1 DEF TradeDocument, Document
    <3>3. row.ticket \in ComputedTickets <=> ItemOf(row, page.state).status = "COMPUTED"
      <4>1. <<"TRADE_EVIDENCE", row.ticket>> \in Retrieved
        BY <1>1, <3>2 DEF Retrieved
      <4> QED
        BY <1>2, <4>1, ComputedIs
    <3>4. /\ Marked(request.evidence[i]) <=> ItemOf(row, page.state).status = "COMPUTED"
          /\ "symbol" \in DOMAIN request.evidence[i].fields <=> row.symbol # NoValue
          /\ "symbol" \in DOMAIN request.evidence[i].fields =>
                request.evidence[i].fields["symbol"] = row.symbol
      BY <1>2, <2>4, <3>1, TradeItem
    <3>5. RowOf(row.ticket) = row
      BY <1>2, RowIsFound
    <3> QED
      BY <3>2, <3>3, <3>4, <3>5
  <2> QED
    BY <2>3, <2>5, <2>6
<1>4. ASSUME NEW item \in approximate
      PROVE  \E t \in ComputedTickets :
                "symbol" \in DOMAIN item.fields =>
                   item.fields["symbol"] = SymbolOf(t) /\ SymbolOf(t) # NoValue
  <2>1. PICK i \in 1..m : item = request.evidence[i]
    BY <1>1 DEF Approximate
  <2>2. request.evidence[i].document_type = "TRADE_EVIDENCE" /\ Marked(request.evidence[i])
    BY <2>1 DEF Approximate
  <2> QED
    BY <1>3, <2>1, <2>2
<1>5. ASSUME NEW t \in ComputedTickets
      PROVE  \E item \in approximate :
                SymbolOf(t) # NoValue =>
                   "symbol" \in DOMAIN item.fields /\ item.fields["symbol"] = SymbolOf(t)
  <2>1. <<"TRADE_EVIDENCE", t>> \in Retrieved
    BY DEF ComputedTickets
  <2>2. PICK i \in 1..m : Packet[i].document_id = <<"TRADE_EVIDENCE", t>>
    BY <1>1, <2>1 DEF Retrieved
  <2>3. Packet[i].document_type = "TRADE_EVIDENCE"
    BY <1>3, <2>2
  <2>4. PICK row \in Rows(page.journal) :
           /\ Packet[i].document_id = <<"TRADE_EVIDENCE", row.ticket>>
           /\ Marked(request.evidence[i]) <=> row.ticket \in ComputedTickets
           /\ "symbol" \in DOMAIN request.evidence[i].fields <=> row.symbol # NoValue
           /\ "symbol" \in DOMAIN request.evidence[i].fields =>
                 request.evidence[i].fields["symbol"] = row.symbol
           /\ RowOf(row.ticket) = row
    BY <1>3, <2>3
  <2>5. row.ticket = t
    BY <2>2, <2>4
  <2>6. request.evidence[i] \in approximate
    BY <1>1, <1>3, <2>3, <2>4, <2>5 DEF Approximate
  <2> QED
    BY <2>4, <2>5, <2>6
<1> HIDE DEF approximate, SymbolOf
<1>6. approximate # {} <=> ComputedTickets # {}
  BY <1>4, <1>5
<1>7. ItemSymbols(approximate) = {SymbolOf(t) : t \in ComputedTickets} \ {NoValue}
  <2>1. ItemSymbols(approximate) \subseteq {SymbolOf(t) : t \in ComputedTickets} \ {NoValue}
    BY <1>4 DEF ItemSymbols
  <2>2. {SymbolOf(t) : t \in ComputedTickets} \ {NoValue} \subseteq ItemSymbols(approximate)
    BY <1>5 DEF ItemSymbols
  <2> QED
    BY <2>1, <2>2
<1> QED
  BY <1>6, <1>7 DEF approximate, SymbolOf, request

(* A document left out of the packet makes the evidence partial.           *)
LEMMA OmittedIsCounted ==
    ASSUME InspectorInv, Passed, Omitted # {}
    PROVE  page.packet.response.candidate_count > Len(Packet)
<1> DEFINE response == page.packet.response
           candidates == Candidates(page.journal, page.state, page.form)
<1>1. Found(page.journal, page.state, page.form, response)
  BY PassedPacket
<1> HIDE DEF response
<1>2. PICK method :
         \E found \in Seq(candidates) :
            /\ Len(found) \in 1..MAX_EVIDENCE_ITEMS
            /\ response.results = [i \in 1..Len(found) |-> _make_result(i, found[i], method)]
            /\ (\E d \in candidates :
                   Relevant(d, page.form) /\ \A i \in 1..Len(found) : found[i] # d)
                  => response.candidate_count > Len(found)
  BY <1>1 DEF Found
<1>3. PICK found \in Seq(candidates) :
         /\ Len(found) \in 1..MAX_EVIDENCE_ITEMS
         /\ response.results = [i \in 1..Len(found) |-> _make_result(i, found[i], method)]
         /\ (\E d \in candidates :
                Relevant(d, page.form) /\ \A i \in 1..Len(found) : found[i] # d)
               => response.candidate_count > Len(found)
  BY <1>2
<1>4. PICK d \in candidates : Relevant(d, page.form) /\ d.document_id \notin Retrieved
  BY DEF Omitted, Candidates, Corpus, Relevant
<1> DEFINE m == Len(found)
<1>5. m \in Nat
  OBVIOUS
<1> HIDE DEF m
<1>6. /\ DOMAIN response.results = 1..m /\ Len(response.results) = m
      /\ \A i \in 1..m : response.results[i] = _make_result(i, found[i], method)
  BY <1>3, <1>5 DEF m
<1>7. ASSUME NEW i \in 1..m PROVE found[i] # d
  <2>1. response.results[i] = _make_result(i, found[i], method)
    BY <1>6
  <2>2. _make_result(i, found[i], method).document_id = found[i].document_id
    BY DEF _make_result
  <2>3. response.results[i].document_id \in Retrieved
    BY <1>6 DEF Retrieved, Packet, response
  <2> QED
    BY <1>4, <2>1, <2>2, <2>3
<1> QED
  BY <1>3, <1>4, <1>6, <1>7 DEF m, Packet, response

(* A passed answer admits that relevant documents were cut off, that       *)
(* excursions are approximate, and that those of several symbols do not    *)
(* compare, and admits the latter two of nothing else.                     *)
THEOREM LimitationsAreStated == Spec => []LimitationsAreAdmitted
<1>1. InspectorInv => LimitationsAreAdmitted
  <2> SUFFICES ASSUME InspectorInv, Passed PROVE LimitationsAreAdmitted
    BY DEF LimitationsAreAdmitted
  <2> DEFINE request == page.packet.request
             stated == Elements(Payload["limitation_codes"])
             symbols == {RowOf(t).symbol : t \in ComputedTickets} \ {NoValue}
             items == Items(request)
             count == page.packet.response.candidate_count
  <2>1. _validate_payload(request, Payload) = {}
    BY PassedPacket
  <2>2. Has(Payload, "limitation_codes") /\ _validate_limitations(request, Payload) = {}
    BY <2>1, PassedChecks
  <2> HIDE DEF request
  <2>3. stated = request.required_limitation_codes
    BY <2>2 DEF _validate_limitations, Code
  <2>4. request.required_limitation_codes = _required_limitation_codes(items, count, Len(Packet))
    BY PassedItems DEF request
  <2>5. /\ "APPROXIMATE_M1_EVIDENCE" \in stated <=> Approximate(items) # {}
        /\ "CROSS_SYMBOL_NOT_COMPARABLE" \in stated <=> Cardinality(ItemSymbols(Approximate(items))) > 1
        /\ "PARTIAL_EVIDENCE" \in stated <=> count > Len(Packet)
    <3> HIDE DEF items, count, stated
    <3> QED
      BY <2>3, <2>4 DEF _required_limitation_codes, Approximate, Marked
  <2>6. Approximate(items) # {} <=> ComputedTickets # {}
    BY ApproximateAreComputed DEF request
  <2>7. ItemSymbols(Approximate(items)) = symbols
    BY ApproximateAreComputed DEF request
  <2>8. Omitted # {} => count > Len(Packet)
    BY OmittedIsCounted
  <2> HIDE DEF items, count, stated, symbols
  <2>9. /\ Omitted # {} => "PARTIAL_EVIDENCE" \in stated
        /\ ComputedTickets # {} <=> "APPROXIMATE_M1_EVIDENCE" \in stated
        /\ Cardinality(symbols) > 1 <=> "CROSS_SYMBOL_NOT_COMPARABLE" \in stated
    BY <2>5, <2>6, <2>7, <2>8
  <2> QED
    BY <2>9 DEF LimitationsAreAdmitted, stated, symbols
<1> QED
  BY <1>1, InspectorInvHolds, PTL

=============================================================================
