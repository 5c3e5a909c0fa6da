------------------------- MODULE GroundingInspector -------------------------
(***************************************************************************)
(* The grounding inspector (views.py): over the journal and the excursion  *)
(* evidence of the session it retrieves documents, builds the evidence     *)
(* packet, and judges a candidate answer that the reviewer pastes.         *)
(*                                                                         *)
(* Between two requests another tab may replace the journal or store new   *)
(* evidence.  A request works on the session it loaded; "page" is what it   *)
(* showed, together with the journal and evidence it was about.  A page has *)
(* no influence on later requests, so the reviewer leaves it first.        *)
(***************************************************************************)
EXTENDS Integers, ResponseValidation

CONSTANTS
    TicketOf, Fold, NumericKey, TextRank, Numeral, DEFAULT_TOP_K, MAX_TOP_K, TooLong,
    Journals,        \* the journals a user may load, << >> for none
    Kpis,            \* compute_kpis of a journal: texts by field key
    Verdicts,        \* what an excursion run may find for a trade
    TimeBases,       \* the texts of the time bases that may be declared
    Forms,           \* what the retrieval form may be sent with, and what the
                     \* question in it is once normalised
    Answers,         \* the candidates that may be pasted
    MaxScore         \* bound on retrieval scores

INSTANCE EvidenceCorpus

ASSUME InspectorAssumption ==
    /\ DEFAULT_TOP_K \in 1..MAX_TOP_K
    /\ MAX_TOP_K \in 1..MAX_EVIDENCE_ITEMS
    /\ MaxScore \in Nat \ {0}
    /\ \A form \in Forms : /\ form.question \in QuestionKinds
                           /\ form.question = "blank" => form.query = {}

(* The keys of records of which there are documents.                       *)
RecordKeys ==
    {"journal"} \cup UNION {(TicketsOf(j) \ {NoValue}) \cup DOMAIN Kpis[j] : j \in Journals}

(* Journals are sequences of rows with finitely many KPIs, computed         *)
(* excursions have all their lines, and texts are in a total order.        *)
ASSUME CorpusAssumption ==
    /\ \A j \in Journals : j \in Seq({j[i] : i \in DOMAIN j}) /\ IsFiniteSet(DOMAIN Kpis[j])
    /\ \A v \in Verdicts : /\ v.status \in TRADE_EVIDENCE_STATUSES
                           /\ v.status = "COMPUTED" => ExcursionLines \subseteq DOMAIN v.lines
    /\ \A a \in DOMAIN NumericKey : NumericKey[a] \in Int
    /\ \A a \in RecordKeys : TextRank[a] \in Int
    /\ \A a, b \in RecordKeys : TextRank[a] = TextRank[b] => a = b

VARIABLES journal, excursion_state, page

vars == <<journal, excursion_state, page>>

NoPage == [shown |-> "nothing"]

-----------------------------------------------------------------------------
Init ==
    /\ journal = << >>
    /\ excursion_state = NoValue
    /\ page = NoPage

(* upload_file and load_file: the evidence of the journal before stays.    *)
LoadJournal ==
    /\ page = NoPage
    /\ journal' \in Journals
    /\ UNCHANGED <<excursion_state, page>>

(* upload_market_data: every trade of the journal gets a verdict.          *)
StoreEvidence ==
    /\ page = NoPage
    /\ journal # << >>
    /\ compute_journal_fingerprint(journal) # NoValue
    /\ \E evidence \in [TicketsOf(journal) -> Verdicts], basis \in TimeBases :
          excursion_state' = [journal_fingerprint |-> compute_journal_fingerprint(journal),
                              time_basis |-> basis, evidence |-> evidence]
    /\ UNCHANGED <<journal, page>>

(* _attach_grounding_packet and, for a POST, the validation of the answer. *)
PacketPage(response, form, answer) ==
    LET question == form.question
        code == PacketError(response, question)
        request == Request(response, question)
    IN  [response |-> response, packet_error |-> code,
         request |-> IF code = "NONE" THEN request ELSE NoValue,
         answer |-> answer,
         codes |-> IF code = "NONE" /\ answer # NoValue
                   THEN validate_grounded_response(request, Context(response, question), answer)
                   ELSE {}]

(* What the inspector shows for a retrieval.                               *)
ResponsePage(response, form, answer) ==
    [shown |-> response.state, form |-> form, journal |-> journal,
     state |-> BoundState(excursion_state, journal),
     packet |-> IF response.state = "OK" /\ response.results # << >>
                THEN PacketPage(response, form, answer) ELSE NoValue]

ErrorPage(form, reason) ==
    [shown |-> reason, form |-> form, journal |-> journal,
     state |-> BoundState(excursion_state, journal), packet |-> NoValue]

(* grounding_inspector; answer is NoValue for a GET.  Once the scope is     *)
(* resolved, evidence of another journal is dropped from the session.      *)
Inspect(form, answer) ==
    LET bound == BoundState(excursion_state, journal)
        kpis == Kpis[journal]
        documents == build_evidence_corpus(journal, kpis, bound)
    IN  /\ page = NoPage
        /\ journal # << >>
        /\ excursion_state' = IF compute_journal_fingerprint(journal) = NoValue
                              THEN excursion_state ELSE bound
        /\ UNCHANGED journal
        /\ IF ~CorpusValid(journal, kpis, bound)
           THEN page' = ErrorPage(form, "CORPUS_INVALID")
           ELSE IF FormError(form) # "NONE" THEN page' = ErrorPage(form, FormError(form))
           ELSE \E score \in Scores(Filtered(documents, form), form, MaxScore) :
                   page' = ResponsePage(retrieve_evidence(documents, form, score), form, answer)

NoJournal ==
    /\ page = NoPage
    /\ journal = << >>
    /\ page' = [shown |-> "NO_ACTIVE_JOURNAL"]
    /\ UNCHANGED <<journal, excursion_state>>

LeavePage ==
    /\ page # NoPage
    /\ page' = NoPage
    /\ UNCHANGED <<journal, excursion_state>>

Next ==
    \/ LoadJournal \/ StoreEvidence \/ NoJournal \/ LeavePage
    \/ \E form \in Forms, answer \in Answers \cup {NoValue} : Inspect(form, answer)

Spec == Init /\ [][Next]_vars

=============================================================================
