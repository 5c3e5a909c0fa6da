---------------------- MODULE GroundedGenerationProps -----------------------
(***************************************************************************)
(* What one run may send and what it may say afterwards.                   *)
(***************************************************************************)
EXTENDS GroundedGeneration

Shown == run.pc = "shown"

(* A prompt is worked on at most once, although the answer may come after    *)
(* the client gave up or be lost on its way (max_retries of the client and  *)
(* RecordingProvider).                                                     *)
AtMostOneGeneration ==
    accepted <= 1

(* Nothing leaves the process unless a person confirmed, the provider is    *)
(* enabled with a key, no test is running and the packet was accepted       *)
(* (Command.handle, _handle_post, get_provider, generate_grounded_response). *)
SentOnPurpose ==
    accepted > 0 => /\ env.confirmed /\ env.enabled /\ env.api_key = "set"
                    /\ ~env.test_runner
                    /\ PacketError(run.retrieval, "asked") = "NONE"

(* A text of the provider is never shown without the verdict of the          *)
(* deterministic checks on that very text, and it only counts as passed when *)
(* no check rejected it (generate_grounded_response, build_result_display). *)
ShownTextIsJudged ==
    Shown /\ run.shown.raw # NoValue =>
        LET codes == validate_grounded_response(Request(run.retrieval, "asked"),
                         Context(run.retrieval, "asked"), run.shown.raw)
        IN  /\ run.shown.validation = codes
            /\ run.shown.outcome = "PASSED_DETERMINISTIC_CHECKS" <=> codes = {}

(* When the report says that no call was attempted, or the page that the    *)
(* provider is not enabled or configured, the provider worked on nothing.  *)
DeniedMeansUnsent ==
    Shown /\ (\/ run.shown.attempted = FALSE
              \/ run.shown.outcome \in {NoValue, "NOT_ATTEMPTED_PACKET_ERROR"}
              \/ run.shown.failure = "PROVIDER_NOT_CONFIGURED") =>
        accepted = 0 /\ network = NoValue

Reports(category) == run'.shown.outcome = "PROVIDER_FAILED" /\ run'.shown.failure = category

(* The reported category tells a timeout, a refusal for too many requests   *)
(* and one for lack of rights from one another, although the classes of the *)
(* SDK overlap (_map_sdk_exception).                                       *)
FailuresAreTold ==
    [][run'.pc = "shown" =>
       /\ TimeOut => Reports("PROVIDER_TIMEOUT")
       /\ RequestFails =>
             /\ Reports("PROVIDER_RATE_LIMITED") <=> network.error = "rate_limit"
             /\ Reports("PROVIDER_AUTH_FAILED") <=>
                   network.error \in {"authentication", "permission"}
             /\ ~Reports("PROVIDER_TIMEOUT")]_vars

(* Every started run ends in a page or a report, although the provider may   *)
(* stay silent for ever (TIMEOUT_SECONDS).                                 *)
RunIsShown ==
    <>(run.pc = "shown")

(* Confirmed once, sent once: what the provider works on was meant to be    *)
(* sent, and is worked on no second time.                                  *)
SentOnceOnPurpose == AtMostOneGeneration /\ SentOnPurpose

=============================================================================
