---------------------- MODULE GroundingInspectorProps -----------------------
(***************************************************************************)
(* What the inspector promises, stated from the rows of the journal, its   *)
(* KPIs and its excursion verdicts, not from the packet.                   *)
(***************************************************************************)
EXTENDS GroundingInspector

Shown == page # NoPage /\ page.shown # "NO_ACTIVE_JOURNAL"

HasPacket == Shown /\ page.packet # NoValue

(* The answer on the page was judged and passed every check.               *)
Passed ==
    /\ HasPacket
    /\ page.packet.request # NoValue
    /\ page.packet.answer # NoValue
    /\ page.packet.codes = {}

Payload == page.packet.answer.payload

Packet == page.packet.response.results

-----------------------------------------------------------------------------
(* Every text of the journal, its KPIs and its evidence that a packet may   *)
(* carry has the syntax of its field.                                      *)
WellFormedRow(row) ==
    /\ WellFormed("ticket", row.ticket)
    /\ row.symbol # NoValue => WellFormed("symbol", row.symbol)
    /\ \A k \in DOMAIN row.lines \cap AUTHORISED_FIELDS["TRADE_EVIDENCE"] :
          WellFormed(k, IF k = "side" THEN Casefold(row.lines[k]) ELSE row.lines[k])

WellFormedVerdict(verdict) ==
    verdict.status = "COMPUTED" => \A k \in ExcursionLines : WellFormed(k, verdict.lines[k])

WellFormedCells(j, state) ==
    /\ \A row \in Rows(j) : WellFormedRow(row)
    /\ \A k \in DOMAIN Kpis[j] :
          k \in AUTHORISED_FIELDS["KPI_EVIDENCE"] /\ WellFormed(k, Kpis[j][k])
    /\ WellFormed("journal_row_count", Numeral[Len(j)])
    /\ state # NoValue =>
          /\ WellFormed("declared_time_basis", state.time_basis)
          /\ \A t \in DOMAIN state.evidence : WellFormedVerdict(state.evidence[t])

(* A retrieval that found something is accepted as a packet: ranks, limits, *)
(* fingerprints, statuses and limitations of the corpus, the retrieval, the *)
(* projection and the shape check agree (build_evidence_packet).  What       *)
(* refuses it is the question, a malformed cell, or an identifier that       *)
(* names the digest, and the code tells which.                             *)
RetrievalsBecomePackets ==
    HasPacket =>
        LET question == page.form.question
            code == page.packet.packet_error
        IN  CASE question = "blank" -> code = "SCHEMA_MISSING_FIELD"
              [] question = "too long" -> code = "SCHEMA_LIMIT_EXCEEDED"
              [] OTHER ->
                 \/ code = "NONE"
                 \/ /\ code = "EVIDENCE_FIELD_INVALID"
                    /\ \/ question = "unstable"
                       \/ ~WellFormedCells(page.journal, page.state)
                 \/ /\ code = "LEAKAGE_DETECTED"
                    /\ \/ question = "leaking"
                       \/ \E row \in Rows(page.journal) :
                             {row.ticket, row.symbol} \cap LeakingTexts # {}

(* Evidence of another journal, or none, never keeps the inspector from     *)
(* showing a journal that has a fingerprint (_bind_dashboard_excursion_state *)
(* and the assertions of build_evidence_corpus).                           *)
OnlyBadTicketsRefuseCorpus ==
    Shown => (page.shown = "CORPUS_INVALID"
                 <=> compute_journal_fingerprint(page.journal) = NoValue)

-----------------------------------------------------------------------------
(* The text the journal itself has for a field of a document.              *)
RowOf(ticket) == CHOOSE row \in Rows(page.journal) : row.ticket = ticket

JournalText(id, field) ==
    CASE id[1] = "KPI_EVIDENCE" -> Kpis[page.journal][field]
      [] id[1] = "DATASET_CONTEXT" -> Numeral[Len(page.journal)]
      [] field \in ExcursionLines ->
            IF page.state # NoValue /\ page.state.evidence[id[2]].status = "COMPUTED"
            THEN page.state.evidence[id[2]].lines[field] ELSE NoValue
      [] OTHER -> RowOf(id[2]).lines[field]

CitedId(claim) == Packet[claim.evidence].document_id

(* Every claim of a passed answer restates what the journal, its KPIs or its *)
(* excursions say, of a document the answer cites; an excursion that was not *)
(* computed is never restated (_validate_one_claim over the projection).   *)
ClaimsRestateJournal ==
    Passed =>
        \A claim \in Claims(Payload) :
           /\ claim.evidence \in {t.alias : t \in Tokens(Payload["answer"], "citation")}
           /\ JournalText(CitedId(claim), claim.field) = claim.value

(* The number is one of the claimed values, a per cent only of a percentage, *)
(* or is written as a ticket or symbol of the journal.                     *)
Backed(number) ==
    \/ \E row \in Rows(page.journal) : NamesIn[number.text] \cap {row.ticket, row.symbol} # {}
    \/ \E claim \in Claims(Payload) :
          /\ NumberOf[JournalText(CitedId(claim), claim.field)] = NumberOf[number.text]
          /\ number.percent => claim.field = "win_rate_pct"

TimesOfJournal ==
    UNION {{row.lines[k] : k \in DOMAIN row.lines \cap {"open_time", "close_time"}} :
             row \in Rows(page.journal)}

(* Every number in a passed answer is backed, except those inside times; of *)
(* what is written like a time, every number that is not part of a time of  *)
(* the journal is (_validate_answer_numbers, _mask_non_numeric_tokens).    *)
NumbersAreClaimed ==
    Passed =>
        /\ \A number \in AnswerNumbers(Payload["answer"]) : Backed(number)
        /\ \A t \in Tokens(Payload["answer"], "time") :
              \E times \in SUBSET (TimesOfJournal \cap Canonical["TIMESTAMP"]) :
                 \A number \in Leftover[t.text][times] : Backed(number)

(* A passed answer names tickets and symbols of the journal only            *)
(* (_validate_explicit_identifiers).                                       *)
IdentifiersAreOfJournal ==
    Passed =>
        \A row_kind \in {"ticket", "symbol"} : \A t \in Tokens(Payload["answer"], row_kind) :
           t.text \in {row[row_kind] : row \in Rows(page.journal)}

-----------------------------------------------------------------------------
Retrieved == {Packet[i].document_id : i \in DOMAIN Packet}

ComputedTickets ==
    IF page.state = NoValue THEN {}
    ELSE {t \in DOMAIN page.state.evidence :
             /\ page.state.evidence[t].status = "COMPUTED"
             /\ <<"TRADE_EVIDENCE", t>> \in Retrieved}

(* Documents of the journal that share a word with the query and pass the   *)
(* filters, but are not in the packet.                                     *)
Omitted ==
    {d \in Filtered(build_evidence_corpus(page.journal, Kpis[page.journal], page.state),
                    page.form) :
        /\ page.form.ticket = NoValue => page.form.query \cap Words(d) # {}
        /\ d.document_id \notin Retrieved}

(* A passed answer admits what it leaves out: that relevant documents were  *)
(* cut off, that excursions are approximate, that those of several symbols  *)
(* do not compare (_required_limitation_codes, _validate_limitations).     *)
LimitationsAreAdmitted ==
    Passed =>
        LET stated == Elements(Payload["limitation_codes"])
            symbols == {RowOf(t).symbol : t \in ComputedTickets} \ {NoValue}
        IN  /\ Omitted # {} => "PARTIAL_EVIDENCE" \in stated
            /\ ComputedTickets # {} <=> "APPROXIMATE_M1_EVIDENCE" \in stated
            /\ Cardinality(symbols) > 1 <=> "CROSS_SYMBOL_NOT_COMPARABLE" \in stated

(* Nothing in a passed answer is made up: neither a number nor a name.      *)
TokensAreBacked == NumbersAreClaimed /\ IdentifiersAreOfJournal

=============================================================================
