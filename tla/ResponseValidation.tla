------------------------- MODULE ResponseValidation -------------------------
(***************************************************************************)
(* The deterministic checks a candidate answer of a model must pass         *)
(* (ai_grounding/validation.py): every check adds the codes it rejects the *)
(* candidate with, and a candidate passes when none was added.             *)
(*                                                                         *)
(* A candidate is a text that is JSON or not.  The JSON object is a         *)
(* function of the keys it has; WrongType is a value of the wrong JSON     *)
(* type.  An answer is the set of things the checks recognise in it:       *)
(* inline citations, numbers, pieces written like a time, named tickets and *)
(* symbols, phrases, and "word" for anything else, "long" when it exceeds   *)
(* the limit.                                                              *)
(***************************************************************************)
EXTENDS EvidencePacket

CONSTANTS
    NumberOf,       \* the number a numeric text denotes: NumberOf[text]
    NamesIn,        \* NamesIn[text]: the identifiers a number occurs in the answer as
    Leftover,       \* Leftover[text][times]: the numbers in a piece written like a
                    \* time once the timestamps in times are blanked out of it
    MAX_CLAIMS, MAX_CITATIONS, MAX_LIMITATION_CODES,
    WrongType

LimitationCodes == {"APPROXIMATE_M1_EVIDENCE", "CROSS_SYMBOL_NOT_COMPARABLE",
                    "EVIDENCE_UNAVAILABLE", "PARTIAL_EVIDENCE"}

RESPONSE_REQUIRED_FIELDS ==
    {"schema_version", "answer", "claims", "citations", "limitation_codes"}

CLAIM_REQUIRED_FIELDS == {"evidence", "field", "value"}

(* Stands for any internal document id used in the place of an alias.      *)
InternalId == 0

Code(code, condition) == IF condition THEN {code} ELSE {}

Has(payload, key) == key \in DOMAIN payload /\ payload[key] # WrongType

Elements(seq) == {seq[i] : i \in DOMAIN seq}

Tokens(answer, kind) == {t \in answer : t.kind = kind}

-----------------------------------------------------------------------------
(* Citations: the aliases cited, and what is wrong with them.              *)

WellTypedList(payload, key) ==
    Has(payload, key) /\ WrongType \notin Elements(payload[key])

_validate_citations(request, payload) ==
    IF ~Has(payload, "citations") THEN {}
    ELSE IF ~WellTypedList(payload, "citations") THEN {"SCHEMA_TYPE_ERROR"}
    ELSE LET citations == payload["citations"]
             cited == Elements(citations)
             answered == Has(payload, "answer")
             inline == {t.alias : t \in Tokens(payload["answer"], "citation")}
         IN  Code("CITATION_INTERNAL_ID", InternalId \in cited)
             \cup Code("CITATION_UNKNOWN_ALIAS",
                       \E a \in cited \ {InternalId} : a \notin DOMAIN request.evidence)
             \cup Code("CITATION_DUPLICATE", Cardinality(cited) # Len(citations))
             \cup Code("CITATION_MISSING",
                       answered /\ payload["answer"] # {} /\ citations = << >>)
             \cup Code("CITATION_INLINE_MISMATCH", answered /\ inline # cited)

CitationAliases(payload) ==
    IF WellTypedList(payload, "citations") THEN Elements(payload["citations"]) ELSE {}

-----------------------------------------------------------------------------
(* Claims: each must restate a claimable field of a cited item.            *)

WellFormedClaim(claim) ==
    /\ claim # WrongType
    /\ CLAIM_REQUIRED_FIELDS \subseteq DOMAIN claim
    /\ \A k \in CLAIM_REQUIRED_FIELDS : claim[k] # WrongType

(* Faulty variant: a claim may cite one item and restate any other.        *)
ClaimOfAnyItem(request, claim, cited) ==
    IF ~WellFormedClaim(claim) THEN {"SCHEMA_TYPE_ERROR"}
    ELSE Code("CLAIM_ALIAS_NOT_CITED", claim.evidence \notin cited)
         \cup Code("CLAIM_VALUE_MISMATCH",
                   ~\E item \in Items(request) :
                       /\ claim.field \in item.claimable_field_keys
                       /\ item.fields[claim.field] = claim.value)

_validate_one_claim(request, claim, cited) ==
    IF claim = WrongType THEN {"SCHEMA_TYPE_ERROR"}
    ELSE Code("SCHEMA_UNKNOWN_FIELD", ~(DOMAIN claim \subseteq CLAIM_REQUIRED_FIELDS))
         \cup
         (IF ~(CLAIM_REQUIRED_FIELDS \subseteq DOMAIN claim) THEN {"SCHEMA_MISSING_FIELD"}
          ELSE IF ~WellFormedClaim(claim) THEN {"SCHEMA_TYPE_ERROR"}
          ELSE Code("CLAIM_ALIAS_NOT_CITED", claim.evidence \notin cited)
               \cup
               (IF claim.evidence \notin DOMAIN request.evidence
                THEN {IF claim.evidence = InternalId THEN "CITATION_INTERNAL_ID"
                                                     ELSE "CITATION_UNKNOWN_ALIAS"}
                ELSE LET item == request.evidence[claim.evidence]
                     IN  CASE claim.field \notin DOMAIN item.fields ->
                                 {"CLAIM_FIELD_UNAVAILABLE"}
                           [] /\ claim.field \in DOMAIN item.fields
                              /\ claim.field \notin item.claimable_field_keys ->
                                 {"CLAIM_FIELD_NOT_CLAIMABLE"}
                           [] OTHER ->
                                 Code("CLAIM_VALUE_MISMATCH",
                                      item.fields[claim.field] # claim.value)))

Claims(payload) == IF Has(payload, "claims") THEN Elements(payload["claims"]) ELSE {}

_validate_claims(request, payload) ==
    UNION {_validate_one_claim(request, c, CitationAliases(payload)) : c \in Claims(payload)}

(* The numbers, with their units, that the sound claims make available.    *)
ValidatedNumbers(request, payload) ==
    LET sound == {c \in Claims(payload) :
                     /\ WellFormedClaim(c)
                     /\ _validate_one_claim(request, c, CitationAliases(payload))
                            \subseteq {"SCHEMA_UNKNOWN_FIELD"}}
    IN  {[number |-> NumberOf[c.value], unit |-> Unit(c.field)] : c \in sound}

-----------------------------------------------------------------------------
(* Limitations, language, numbers and identifiers.                         *)

_validate_limitations(request, payload) ==
    IF ~Has(payload, "limitation_codes") THEN {}
    ELSE IF ~WellTypedList(payload, "limitation_codes") THEN {"SCHEMA_TYPE_ERROR"}
    ELSE LET stated == Elements(payload["limitation_codes"])
             parsed == stated \cap LimitationCodes
             required == request.required_limitation_codes
         IN  Code("SCHEMA_TYPE_ERROR", Cardinality(stated) # Len(payload["limitation_codes"]))
             \cup Code("LIMITATION_UNKNOWN_CODE", stated # parsed)
             \cup Code("LIMITATION_REQUIRED_MISSING", ~(required \subseteq parsed))
             \cup Code("STATUS_CONTRADICTION", ~(parsed \subseteq required))

(* The prohibited phrases carry the code of their list.                    *)
_collect_prohibited_language(answer) == {t.code : t \in Tokens(answer, "phrase")}

(* Numbers in the answer: those written as numbers, and numeric identifiers. *)
AnswerNumbers(answer) ==
    Tokens(answer, "number")
    \cup {[kind |-> "number", text |-> t.text, percent |-> FALSE] :
             t \in {u \in Tokens(answer, "ticket") \cup Tokens(answer, "symbol") :
                       u.text \in DOMAIN NumberOf}}

(* The numbers left once the timestamps of the packet are blanked out, and  *)
(* then its identifiers.  An identifier may follow anything but a letter, a *)
(* digit, ".", "_" or "-": of "+7" the identifier "7" leaves no number.     *)
_mask_non_numeric_tokens(request, answer) ==
    LET times == FieldTexts(request, {"open_time", "close_time"})
        identifiers == FieldTexts(request, {"ticket", "symbol"})
        unmasked == AnswerNumbers(answer)
                    \cup UNION {Leftover[t.text][times] : t \in Tokens(answer, "time")}
    IN  {t \in unmasked : NamesIn[t.text] \cap identifiers = {}}

(* Faulty variant: a per cent sign is not compared with the unit.          *)
NumberIsBoundAnyUnit(token, validated) ==
    \E v \in validated : v.number = NumberOf[token.text]

_number_is_bound(token, validated) ==
    \E v \in validated : v.number = NumberOf[token.text] /\ (token.percent => v.unit = "%")

_validate_answer_numbers(request, payload) ==
    Code("NUMBER_UNGROUNDED",
         \E t \in _mask_non_numeric_tokens(request, payload["answer"]) :
            ~_number_is_bound(t, ValidatedNumbers(request, payload)))

_validate_explicit_identifiers(request, answer) ==
    Code("IDENTIFIER_UNGROUNDED",
         \E kind \in {"ticket", "symbol"} : \E t \in Tokens(answer, kind) :
            t.text \notin FieldTexts(request, {kind}))

-----------------------------------------------------------------------------
(* The whole payload, and the candidate it was decoded from.               *)

TooMany(payload, key, limit) == Has(payload, key) /\ Len(payload[key]) > limit

_validate_payload(request, payload) ==
    Code("SCHEMA_UNKNOWN_FIELD", ~(DOMAIN payload \subseteq RESPONSE_REQUIRED_FIELDS))
    \cup Code("SCHEMA_MISSING_FIELD", ~(RESPONSE_REQUIRED_FIELDS \subseteq DOMAIN payload))
    \cup Code("SCHEMA_TYPE_ERROR",
              \E k \in RESPONSE_REQUIRED_FIELDS \cap DOMAIN payload : payload[k] = WrongType)
    \cup Code("SCHEMA_VERSION_MISMATCH",
              Has(payload, "schema_version") /\ payload["schema_version"] # "current")
    \cup Code("SCHEMA_LIMIT_EXCEEDED",
              \/ Has(payload, "answer") /\ Tokens(payload["answer"], "long") # {}
              \/ TooMany(payload, "claims", MAX_CLAIMS)
              \/ TooMany(payload, "citations", MAX_CITATIONS)
              \/ TooMany(payload, "limitation_codes", MAX_LIMITATION_CODES))
    \cup _validate_citations(request, payload)
    \cup _validate_claims(request, payload)
    \cup _validate_limitations(request, payload)
    \cup (IF ~Has(payload, "answer") THEN {}
          ELSE Code("ANSWER_EMPTY", payload["answer"] = {})
               \cup _collect_prohibited_language(payload["answer"])
               \cup _validate_answer_numbers(request, payload)
               \cup _validate_explicit_identifiers(request, payload["answer"]))

(* Server identifiers and document ids: a text is searched raw, and the     *)
(* strings of the decoded object once more.                                *)
Leaks(candidate) ==
    \/ candidate.leak = "raw"
    \/ candidate.json = "object" /\ candidate.leak = "decoded"

(* The codes of a candidate; the digest of the packet is the packet itself. *)
(* A packet whose shape is refused rejects every candidate.                *)
validate_grounded_response(request, context, candidate) ==
    Code("LEAKAGE_DETECTED", Leaks(candidate))
    \cup (IF validate_request_shape(request) # "NONE" THEN {validate_request_shape(request)}
          ELSE Code("REQUEST_MISMATCH", context.request_sha256 # request)
               \cup CASE candidate.json = "malformed" -> {"SCHEMA_INVALID_JSON"}
                      [] candidate.json = "not an object" -> {"SCHEMA_TYPE_ERROR"}
                      [] OTHER -> _validate_payload(request, candidate.payload))

=============================================================================
