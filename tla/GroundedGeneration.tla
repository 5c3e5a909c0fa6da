------------------------- MODULE GroundedGeneration -------------------------
(***************************************************************************)
(* One run of the grounded generation (ai_orchestration, ai_provider): a   *)
(* confirmed POST of the provider inspector or the canary command builds   *)
(* the provider and the packet, sends the rendered prompt over the network *)
(* and judges what comes back.                                             *)
(*                                                                         *)
(* The provider is external: it may accept a request and answer late,      *)
(* refuse it, or never see it; the client gives up after a time.  Both      *)
(* callers retrieve the canary fixture; the run is modelled for any         *)
(* retrieval.                                                              *)
(***************************************************************************)
EXTENDS ResponseValidation

CONSTANTS
    Retrievals,      \* retrievals a run may be made for
    Candidates,      \* texts the provider may answer with
    StopReasons      \* stop_reason of a message of the provider

ASSUME GenerationAssumption ==
    /\ NoValue \notin BOOLEAN
    /\ NoValue \notin {"NOT_ATTEMPTED_PACKET_ERROR", "PROVIDER_FAILED", "VALIDATION_REJECTED",
                       "PASSED_DETERMINISTIC_CHECKS", "PROVIDER_NOT_CONFIGURED"}

VARIABLES
    env,             \* the settings and the command line of the process
    run,             \* the run: its caller, retrieval, next step and result
    network,         \* what is between client and provider
    accepted         \* how many requests the provider worked on

vars == <<env, run, network, accepted>>

-----------------------------------------------------------------------------
(* load_canary_retrieval: one KPI, "Total Trades: 6".                      *)
load_canary_retrieval ==
    [state |-> "OK", candidate_count |-> 1,
     results |-> << [rank |-> 1, document_id |-> <<"KPI_EVIDENCE", "total_trades">>,
                     document_type |-> "KPI_EVIDENCE", content |-> [total_trades |-> "6"],
                     evidence_status |-> "AUTHORITATIVE", symbol |-> NoValue,
                     journal_fingerprint |-> "canary",
                     retrieval_method |-> "TFIDF_COSINE"] >>]

(* Faulty variant: the default of a client that repeats failed requests.    *)
RetryOnce == 1

(* No request is repeated.                                                 *)
MAX_RETRIES == 0

(* Exceptions of the SDK with the classes they are instances of.           *)
SdkExceptions ==
    [authentication |-> {"AuthenticationError", "APIStatusError", "APIError"},
     permission |-> {"PermissionDeniedError", "APIStatusError", "APIError"},
     rate_limit |-> {"RateLimitError", "APIStatusError", "APIError"},
     timeout |-> {"APITimeoutError", "APIConnectionError", "APIError"},
     connection |-> {"APIConnectionError", "APIError"},
     status |-> {"APIStatusError", "APIError"},
     other |-> {"TypeError"}]

(* Faulty variant: a timeout is caught as the connection error it also is. *)
MapConnectionFirst(exc) ==
    CASE SdkExceptions[exc] \cap {"AuthenticationError", "PermissionDeniedError"} # {} ->
            "PROVIDER_AUTH_FAILED"
      [] "RateLimitError" \in SdkExceptions[exc] -> "PROVIDER_RATE_LIMITED"
      [] OTHER -> "PROVIDER_ERROR"

_map_sdk_exception(exc) ==
    CASE SdkExceptions[exc] \cap {"AuthenticationError", "PermissionDeniedError"} # {} ->
            "PROVIDER_AUTH_FAILED"
      [] "RateLimitError" \in SdkExceptions[exc] -> "PROVIDER_RATE_LIMITED"
      [] "APITimeoutError" \in SdkExceptions[exc] -> "PROVIDER_TIMEOUT"
      [] OTHER -> "PROVIDER_ERROR"

(* A message: the types of its content blocks and the text of the first.   *)
Messages == [blocks : {<< >>, <<"text">>, <<"thinking", "text">>},
             text : Candidates, stop_reason : StopReasons]

(* The text of a message with exactly one block, a text block.             *)
_extract_raw_text(message) ==
    IF message.blocks = <<"text">> THEN message.text ELSE NoValue

_stop_category(stop_reason) ==
    CASE stop_reason = "end_turn" -> "COMPLETE"
      [] stop_reason = "max_tokens" -> "MAX_TOKENS"
      [] OTHER -> "OTHER"

-----------------------------------------------------------------------------
(* Results of generate_grounded_response.                                  *)

Result(outcome) ==
    [outcome |-> outcome, packet_error_code |-> NoValue, provider_failure |-> NoValue,
     stop_category |-> NoValue, validation |-> NoValue, raw_candidate |-> NoValue]

_packet_error_result(code) ==
    [Result("NOT_ATTEMPTED_PACKET_ERROR") EXCEPT !.packet_error_code = code]

_provider_failed_result(category) ==
    [Result("PROVIDER_FAILED") EXCEPT !.provider_failure = category]

JudgedResult(codes, message) ==
    [Result(IF codes = {} THEN "PASSED_DETERMINISTIC_CHECKS" ELSE "VALIDATION_REJECTED") EXCEPT
        !.stop_category = _stop_category(message.stop_reason),
        !.validation = codes,
        !.raw_candidate = message.text]

-----------------------------------------------------------------------------
(* What the caller shows of a result.                                      *)

Judged(result) == result.outcome \in {"PASSED_DETERMINISTIC_CHECKS", "VALIDATION_REJECTED"}

(* Faulty variant: the text is shown without its verdict.                  *)
DisplayUnjudged(result) ==
    [state |-> "REQUEST_COMPLETED", outcome |-> result.outcome,
     failure |-> result.provider_failure,
     raw |-> result.raw_candidate, validation |-> NoValue, attempted |-> NoValue]

(* build_result_display of the inspector.                                  *)
build_result_display(result) ==
    [state |-> "REQUEST_COMPLETED", outcome |-> result.outcome,
     failure |-> result.provider_failure,
     raw |-> IF Judged(result) THEN result.raw_candidate ELSE NoValue,
     validation |-> IF Judged(result) THEN result.validation ELSE NoValue,
     attempted |-> NoValue]

(* Faulty variant: a call counts as attempted once it was answered.        *)
ProofOfAnswered(result, call_count) ==
    [state |-> "PROOF_PRINTED", outcome |-> result.outcome,
     failure |-> result.provider_failure,
     raw |-> result.raw_candidate, validation |-> result.validation,
     attempted |-> Judged(result)]

(* The proof and the raw text the canary prints; attempted is what its     *)
(* RecordingProvider counted.                                              *)
format_canary_proof(result, call_count) ==
    [state |-> "PROOF_PRINTED", outcome |-> result.outcome,
     failure |-> result.provider_failure,
     raw |-> result.raw_candidate, validation |-> result.validation,
     attempted |-> call_count > 0]

(* A page or a message without a result.                                   *)
Refusal(state) ==
    [state |-> state, outcome |-> NoValue, failure |-> NoValue, raw |-> NoValue,
     validation |-> NoValue, attempted |-> NoValue]

-----------------------------------------------------------------------------
Callers == {"inspector", "canary"}

(* sdk : "installed", "missing", or "refuses" to construct a client.        *)
Environments == [enabled : BOOLEAN, api_key : {"blank", "set"}, test_runner : BOOLEAN,
                 confirmed : BOOLEAN, sdk : {"installed", "missing", "refuses"}]

Init ==
    /\ env \in Environments
    /\ run \in [caller : Callers, retrieval : Retrievals, pc : {"start"}, retries : {0},
                call_count : {0}, shown : {NoValue}]
    /\ network = NoValue
    /\ accepted = 0

(* resolve_provider_config.                                                *)
Configured == env.enabled /\ env.api_key # "blank"

Show(display) ==
    run' = [run EXCEPT !.pc = "shown", !.shown = display]

Present(result) ==
    Show(IF run.caller = "inspector" THEN build_result_display(result)
         ELSE format_canary_proof(result, run.call_count))

(* Command.handle and _handle_post before they build the provider; the      *)
(* inspector looks at the enable flag only, a blank key is found later.     *)
Start ==
    /\ run.pc = "start"
    /\ CASE run.caller = "canary" /\ ~env.confirmed -> Show(Refusal("NOT_CONFIRMED"))
         [] run.caller = "canary" /\ env.confirmed /\ env.test_runner ->
               Show(Refusal("TEST_RUNNER"))
         [] run.caller = "inspector" /\ ~env.enabled -> Show(Refusal("PROVIDER_NOT_ENABLED"))
         [] run.caller = "inspector" /\ env.enabled /\ ~env.confirmed ->
               Show(Refusal("CONSENT_REQUIRED"))
         [] OTHER -> run' = [run EXCEPT !.pc = "build"]
    /\ UNCHANGED <<env, network, accepted>>

(* A failure to build the provider, as its caller reports it.              *)
NoProvider(category) ==
    Show(IF run.caller = "inspector"
         THEN build_result_display(_provider_failed_result(category))
         ELSE Refusal("NOT_CONFIGURED"))

(* get_provider and build_anthropic_provider.  Without the SDK the import   *)
(* raises: the inspector catches it, the command ends with a traceback.    *)
BuildProvider ==
    /\ run.pc = "build"
    /\ IF env.test_runner \/ ~Configured THEN NoProvider("PROVIDER_NOT_CONFIGURED")
       ELSE CASE env.sdk = "missing" -> Show(Refusal("WORKFLOW_EXCEPTION"))
              [] env.sdk = "refuses" ->
                    \E exc \in DOMAIN SdkExceptions : NoProvider(_map_sdk_exception(exc))
              [] env.sdk = "installed" -> run' = [run EXCEPT !.pc = "generate"]
    /\ UNCHANGED <<env, network, accepted>>

PacketCode == PacketError(run.retrieval, "asked")

RefusePacket ==
    /\ run.pc = "generate"
    /\ PacketCode # "NONE"
    /\ Present(_packet_error_result(PacketCode))
    /\ UNCHANGED <<env, network, accepted>>

(* AnthropicProvider.generate, through the canary's RecordingProvider.      *)
Send ==
    /\ run.pc = "generate"
    /\ PacketCode = "NONE"
    /\ run' = [run EXCEPT !.pc = "wait", !.call_count = @ + 1]
    /\ network' = [request |-> Request(run.retrieval, "asked")]
    /\ UNCHANGED <<env, accepted>>

(* The provider works on a request that reached it, or refuses it.         *)
Accept ==
    /\ network # NoValue
    /\ "request" \in DOMAIN network
    /\ accepted' = accepted + 1
    /\ \E message \in Messages : network' = [message |-> message]
    /\ UNCHANGED <<env, run>>

RefuseRequest ==
    /\ network # NoValue
    /\ "request" \in DOMAIN network
    /\ \E exc \in {"authentication", "permission", "rate_limit", "status", "other"} :
          network' = [error |-> exc]
    /\ UNCHANGED <<env, run, accepted>>

(* Either direction may be cut.                                            *)
Lose ==
    /\ network # NoValue
    /\ network' = NoValue
    /\ UNCHANGED <<env, run, accepted>>

(* The SDK repeats a failed request MAX_RETRIES times before it raises; left *)
(* is what then remains on the way.                                        *)
Raise(exc, left) ==
    IF run.retries < MAX_RETRIES
    THEN /\ run' = [run EXCEPT !.retries = @ + 1]
         /\ network' = [request |-> Request(run.retrieval, "asked")]
    ELSE /\ Present(_provider_failed_result(_map_sdk_exception(exc)))
         /\ network' = left

RequestFails ==
    /\ run.pc = "wait"
    /\ network # NoValue
    /\ "error" \in DOMAIN network
    /\ Raise(network.error, NoValue)
    /\ UNCHANGED <<env, accepted>>

(* Faulty variant: the client only counts while something is on its way.    *)
TimeOutWhileBusy ==
    /\ run.pc = "wait"
    /\ network # NoValue
    /\ Raise("timeout", network)
    /\ UNCHANGED <<env, accepted>>

(* The client has waited TIMEOUT_SECONDS; what is still on its way, or being *)
(* worked on, is never read.                                               *)
TimeOut ==
    /\ run.pc = "wait"
    /\ Raise("timeout", network)
    /\ UNCHANGED <<env, accepted>>

(* The connection breaks.                                                  *)
Disconnect ==
    /\ run.pc = "wait"
    /\ Raise("connection", network)
    /\ UNCHANGED <<env, accepted>>

Receive ==
    /\ run.pc = "wait"
    /\ network # NoValue
    /\ "message" \in DOMAIN network
    /\ LET message == network.message
           request == Request(run.retrieval, "asked")
           context == Context(run.retrieval, "asked")
       IN  IF _extract_raw_text(message) = NoValue
           THEN Present(_provider_failed_result("PROVIDER_RESPONSE_INVALID"))
           ELSE Present(JudgedResult(
                    validate_grounded_response(request, context, message.text), message))
    /\ network' = NoValue
    /\ UNCHANGED <<env, accepted>>

Next ==
    \/ Start \/ BuildProvider \/ RefusePacket \/ Send \/ RequestFails \/ TimeOut
    \/ Disconnect \/ Receive
    \/ Accept \/ RefuseRequest \/ Lose

(* The process goes on, and its client gives up when nothing arrives; the   *)
(* provider and the network promise nothing.                               *)
Fairness == WF_vars(Start \/ BuildProvider \/ RefusePacket \/ Send \/ TimeOut)

Spec == Init /\ [][Next]_vars /\ Fairness

=============================================================================
