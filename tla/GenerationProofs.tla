-------------------------- MODULE GenerationProofs --------------------------
(***************************************************************************)
(* Proofs about GroundedGeneration, for any retrievals, answers, stop      *)
(* reasons and bounds of the packet: what the network may do with one run. *)
(***************************************************************************)
EXTENDS GroundedGenerationProps, TLAPS

Stages == {"start", "build", "generate", "wait", "shown"}

RunTyped ==
    \E S : run \in [caller : Callers, retrieval : Retrievals, pc : Stages, retries : {0},
                    call_count : {0, 1}, shown : S]

(* What must be so for a request to leave the process.                     *)
Permitted ==
    /\ env.confirmed /\ env.enabled /\ env.api_key = "set" /\ ~env.test_runner
    /\ PacketCode = "NONE"

(* Nothing is on its way before the request, and then only what is permitted *)
(* is: a request that was not accepted yet, or the outcome of the only one.  *)
Errors == {"authentication", "permission", "rate_limit", "status", "other"}

Traffic ==
    /\ accepted \in {0, 1}
    /\ network # NoValue =>
         \/ "request" \in DOMAIN network /\ DOMAIN network = {"request"} /\ accepted = 0
         \/ DOMAIN network = {"message"} /\ network.message \in Messages
         \/ DOMAIN network = {"error"} /\ network.error \in Errors
    /\ run.pc \in {"start", "build", "generate"} =>
         accepted = 0 /\ network = NoValue /\ run.call_count = 0
    /\ run.pc = "build" => /\ env.confirmed
                           /\ run.caller = "inspector" => env.enabled
    /\ run.pc = "generate" => Configured /\ env.confirmed /\ ~env.test_runner
    /\ run.pc = "wait" => run.call_count = 1 /\ Permitted
    /\ accepted = 1 \/ network # NoValue => Permitted

(* A shown report either comes from a run that sent nothing, or does not   *)
(* deny the request and shows no text without its verdict.                 *)
ReportIsTrue ==
    Shown =>
      \/ accepted = 0 /\ network = NoValue /\ run.shown.raw = NoValue
      \/ /\ run.shown.attempted # FALSE
         /\ run.shown.outcome \notin {NoValue, "NOT_ATTEMPTED_PACKET_ERROR"}
         /\ run.shown.failure # "PROVIDER_NOT_CONFIGURED"
         /\ ShownTextIsJudged

IInv == env \in Environments /\ RunTyped /\ Traffic /\ ReportIsTrue

-----------------------------------------------------------------------------
LEMMA ShowSets ==
    ASSUME RunTyped, NEW d, Show(d)
    PROVE  /\ RunTyped'
           /\ run'.pc = "shown" /\ run'.shown = d /\ run'.caller = run.caller
           /\ run'.retrieval = run.retrieval /\ run'.call_count = run.call_count
<1>1. PICK S : run \in [caller : Callers, retrieval : Retrievals, pc : Stages, retries : {0},
                        call_count : {0, 1}, shown : S]
  BY DEF RunTyped
<1>2. run' \in [caller : Callers, retrieval : Retrievals, pc : Stages, retries : {0},
                call_count : {0, 1}, shown : S \cup {d}]
  BY <1>1 DEF Show, Stages
<1>3. RunTyped'
  BY <1>2 DEF RunTyped
<1> QED
  BY <1>1, <1>3 DEF Show

LEMMA Retries == RunTyped => run.retries = 0 /\ run.pc \in Stages /\ run.caller \in Callers
                             /\ run.call_count \in {0, 1}
  BY DEF RunTyped

(* A run that sent nothing ends with a report that shows no text.          *)
LEMMA EndsUnsent ==
    ASSUME IInv, NEW d, Show(d), d.raw = NoValue,
           accepted = 0, network = NoValue, UNCHANGED <<env, network, accepted>>
    PROVE  IInv'
<1>1. /\ RunTyped' /\ run'.pc = "shown" /\ run'.shown = d
  BY ShowSets DEF IInv
<1>2. Traffic'
  BY <1>1 DEF Traffic
<1>3. ReportIsTrue'
  BY <1>1 DEF ReportIsTrue
<1> QED
  BY <1>1, <1>2, <1>3 DEF IInv

(* What Present shows of a result.                                         *)
LEMMA PresentShows ==
    ASSUME RunTyped, NEW result, Present(result)
    PROVE  /\ RunTyped'
           /\ run'.pc = "shown" /\ run'.caller = run.caller /\ run'.retrieval = run.retrieval
           /\ run'.shown.outcome = result.outcome
           /\ run'.shown.failure = result.provider_failure
           /\ run'.shown.raw \in {result.raw_candidate, NoValue}
           /\ run'.shown.raw # NoValue => run'.shown.validation = result.validation
           /\ run.call_count = 1 => run'.shown.attempted # FALSE
<1> DEFINE d == IF run.caller = "inspector" THEN build_result_display(result)
                ELSE format_canary_proof(result, run.call_count)
<1>1. Show(d)
  BY DEF Present
<1>2. /\ d.outcome = result.outcome /\ d.failure = result.provider_failure
      /\ d.raw \in {result.raw_candidate, NoValue}
      /\ d.raw # NoValue => d.validation = result.validation
  BY DEF build_result_display, format_canary_proof
<1>3. run.call_count = 1 => d.attempted # FALSE
  <2>1. CASE run.caller = "inspector"
    <3>1. d.attempted = NoValue
      BY <2>1 DEF build_result_display
    <3> QED
      BY <3>1, GenerationAssumption
  <2>2. CASE run.caller # "inspector"
    <3>1. d.attempted = (run.call_count > 0)
      BY <2>2 DEF format_canary_proof
    <3>2. run.call_count = 1 => run.call_count > 0
      OBVIOUS
    <3> QED
      BY <3>1, <3>2
  <2> QED
    BY <2>1, <2>2
<1> HIDE DEF d
<1> QED
  BY <1>1, <1>2, <1>3, ShowSets

LEMMA MapTyped ==
    ASSUME NEW exc \in DOMAIN SdkExceptions
    PROVE  _map_sdk_exception(exc) \in {"PROVIDER_AUTH_FAILED", "PROVIDER_RATE_LIMITED",
                                        "PROVIDER_TIMEOUT", "PROVIDER_ERROR"}
  BY DEF _map_sdk_exception

(* A failed request ends the run: nothing is repeated.                     *)
LEMMA RaiseEnds ==
    ASSUME IInv, NEW exc \in DOMAIN SdkExceptions, NEW left \in {network, NoValue},
           Raise(exc, left), run.pc = "wait", UNCHANGED <<env, accepted>>
    PROVE  /\ IInv'
           /\ run'.shown.outcome = "PROVIDER_FAILED"
           /\ run'.shown.failure = _map_sdk_exception(exc)
<1> DEFINE result == _provider_failed_result(_map_sdk_exception(exc))
<1>1. Present(result) /\ network' = left
  BY Retries DEF IInv, Raise, MAX_RETRIES
<1>2. /\ result.outcome = "PROVIDER_FAILED" /\ result.raw_candidate = NoValue
      /\ result.provider_failure = _map_sdk_exception(exc)
  BY DEF _provider_failed_result, Result
<1> HIDE DEF result
<1>3. /\ RunTyped' /\ run'.pc = "shown" /\ run'.retrieval = run.retrieval
      /\ run'.shown.outcome = "PROVIDER_FAILED"
      /\ run'.shown.failure = _map_sdk_exception(exc)
      /\ run'.shown.raw = NoValue
      /\ run.call_count = 1 => run'.shown.attempted # FALSE
  BY <1>1, <1>2, PresentShows DEF IInv
<1>4. Traffic'
  <2>1. Permitted' <=> Permitted
    BY <1>3 DEF Permitted, PacketCode
  <2> QED
    BY <1>1, <1>3, <2>1 DEF IInv, Traffic
<1>5. ReportIsTrue'
  <2>1. run'.shown.failure # "PROVIDER_NOT_CONFIGURED"
    BY <1>3, MapTyped
  <2> QED
    BY <1>3, <2>1, GenerationAssumption DEF IInv, Traffic, ReportIsTrue, ShownTextIsJudged
<1> QED
  BY <1>3, <1>4, <1>5 DEF IInv

-----------------------------------------------------------------------------
LEMMA InitIInv == Init => IInv
<1> SUFFICES ASSUME Init PROVE IInv
  OBVIOUS
<1>1. /\ run \in [caller : Callers, retrieval : Retrievals, pc : {"start"}, retries : {0},
                  call_count : {0}, shown : {NoValue}]
      /\ env \in Environments /\ network = NoValue /\ accepted = 0
  BY DEF Init
<1>2. run \in [caller : Callers, retrieval : Retrievals, pc : Stages, retries : {0},
               call_count : {0, 1}, shown : {NoValue}]
  BY <1>1 DEF Stages
<1>3. RunTyped
  BY <1>2 DEF RunTyped
<1>4. run.pc = "start"
  BY <1>1
<1> QED
  BY <1>1, <1>3, <1>4 DEF IInv, Traffic, ReportIsTrue, Shown

(* A step of a run to another stage before its report.                     *)
LEMMA StageTyped ==
    ASSUME RunTyped, NEW pc \in Stages, run' = [run EXCEPT !.pc = pc]
    PROVE  RunTyped' /\ run'.pc = pc /\ run'.caller = run.caller
           /\ run'.retrieval = run.retrieval /\ run'.call_count = run.call_count
<1>1. PICK S : run \in [caller : Callers, retrieval : Retrievals, pc : Stages, retries : {0},
                        call_count : {0, 1}, shown : S]
  BY DEF RunTyped
<1>2. run' \in [caller : Callers, retrieval : Retrievals, pc : Stages, retries : {0},
                call_count : {0, 1}, shown : S]
  BY <1>1
<1>3. RunTyped'
  BY <1>2 DEF RunTyped
<1> QED
  BY <1>1, <1>3

LEMMA StartIInv == ASSUME IInv, Start PROVE IInv'
<1>1. /\ run.pc = "start" /\ UNCHANGED <<env, network, accepted>>
      /\ accepted = 0 /\ network = NoValue /\ run.call_count = 0
      /\ run.caller \in {"inspector", "canary"}
  BY Retries DEF Start, IInv, Traffic, Callers
<1>2. CASE \E state : Show(Refusal(state))
  BY <1>1, <1>2, EndsUnsent DEF Refusal
<1>3. CASE /\ run' = [run EXCEPT !.pc = "build"]
           /\ env.confirmed /\ (run.caller = "inspector" => env.enabled)
  <2>1. RunTyped' /\ run'.pc = "build" /\ run'.caller = run.caller
        /\ run'.call_count = run.call_count
    BY <1>3, StageTyped DEF IInv, Stages
  <2>2. Traffic'
    BY <1>1, <1>3, <2>1 DEF Traffic, Configured
  <2> QED
    BY <1>1, <2>1, <2>2 DEF IInv, ReportIsTrue, Shown
<1>4. \/ \E state : Show(Refusal(state))
      \/ /\ run' = [run EXCEPT !.pc = "build"]
         /\ env.confirmed /\ (run.caller = "inspector" => env.enabled)
  BY <1>1 DEF Start
<1> QED
  BY <1>2, <1>3, <1>4

LEMMA BuildProviderIInv == ASSUME IInv, BuildProvider PROVE IInv'
<1>1. /\ run.pc = "build" /\ UNCHANGED <<env, network, accepted>>
      /\ accepted = 0 /\ network = NoValue /\ run.call_count = 0 /\ env.confirmed
  BY DEF BuildProvider, IInv, Traffic
<1>2. ASSUME NEW category, NoProvider(category) PROVE IInv'
  <2> DEFINE d == IF run.caller = "inspector"
                  THEN build_result_display(_provider_failed_result(category))
                  ELSE Refusal("NOT_CONFIGURED")
  <2>1. Show(d) /\ d.raw = NoValue
    BY <1>2 DEF NoProvider, build_result_display, Refusal, _provider_failed_result, Result
  <2> HIDE DEF d
  <2> QED
    BY <1>1, <2>1, EndsUnsent
<1>3. CASE Show(Refusal("WORKFLOW_EXCEPTION"))
  BY <1>1, <1>3, EndsUnsent DEF Refusal
<1>4. CASE run' = [run EXCEPT !.pc = "generate"] /\ ~env.test_runner /\ Configured
  <2>1. RunTyped' /\ run'.pc = "generate" /\ run'.call_count = run.call_count
    BY <1>4, StageTyped DEF IInv, Stages
  <2>2. Traffic'
    BY <1>1, <1>4, <2>1 DEF Traffic, Configured
  <2> QED
    BY <1>1, <2>1, <2>2 DEF IInv, ReportIsTrue, Shown
<1>5. env.sdk \in {"installed", "missing", "refuses"}
  BY DEF IInv, Environments
<1> QED
  BY <1>2, <1>3, <1>4, <1>5 DEF BuildProvider

LEMMA RefusePacketIInv == ASSUME IInv, RefusePacket PROVE IInv'
<1>1. /\ run.pc = "generate" /\ UNCHANGED <<env, network, accepted>>
      /\ accepted = 0 /\ network = NoValue
  BY DEF RefusePacket, IInv, Traffic
<1> DEFINE result == _packet_error_result(PacketCode)
<1>2. Present(result) /\ result.raw_candidate = NoValue
  BY DEF RefusePacket, _packet_error_result, Result
<1> HIDE DEF result
<1>3. PICK d : Show(d)
  BY <1>2 DEF Present
<1>4. run'.shown = d /\ run'.shown.raw = NoValue
  BY <1>2, <1>3, ShowSets, PresentShows DEF IInv
<1> QED
  BY <1>1, <1>3, <1>4, EndsUnsent

LEMMA SendIInv == ASSUME IInv, Send PROVE IInv'
<1>1. /\ run.pc = "generate" /\ PacketCode = "NONE"
      /\ run' = [run EXCEPT !.pc = "wait", !.call_count = @ + 1]
      /\ network' = [request |-> Request(run.retrieval, "asked")]
      /\ UNCHANGED <<env, accepted>> /\ accepted = 0
  BY DEF Send, IInv, Traffic
<1>2. PICK S : run \in [caller : Callers, retrieval : Retrievals, pc : Stages, retries : {0},
                        call_count : {0, 1}, shown : S]
  BY DEF IInv, RunTyped
<1>3. run.call_count = 0
  BY <1>1 DEF IInv, Traffic
<1>4. run' \in [caller : Callers, retrieval : Retrievals, pc : Stages, retries : {0},
                call_count : {0, 1}, shown : S]
      /\ run'.pc = "wait" /\ run'.call_count = 1 /\ run'.retrieval = run.retrieval
  <2>1. run.call_count + 1 = 1 /\ "wait" \in Stages
    BY <1>3 DEF Stages
  <2>2. run' = [run EXCEPT !.pc = "wait", !.call_count = 1]
    BY <1>1, <2>1
  <2> QED
    BY <1>2, <2>1, <2>2
<1>5. RunTyped'
  BY <1>4 DEF RunTyped
<1>6. Permitted /\ (Permitted' <=> Permitted)
  <2>1. /\ env.confirmed /\ env.enabled /\ ~env.test_runner
        /\ env.api_key # "blank" /\ env.api_key \in {"blank", "set"}
    BY <1>1 DEF IInv, Traffic, Configured, Environments
  <2> QED
    BY <1>1, <1>4, <2>1 DEF Permitted, PacketCode
<1>7. Traffic'
  BY <1>1, <1>4, <1>6 DEF Traffic
<1> QED
  BY <1>1, <1>4, <1>5, <1>7 DEF IInv, ReportIsTrue, Shown

LEMMA RequestFailsIInv == ASSUME IInv, RequestFails PROVE IInv'
<1>1. /\ run.pc = "wait" /\ UNCHANGED <<env, accepted>>
      /\ network.error \in Errors /\ Raise(network.error, NoValue)
  BY DEF RequestFails, IInv, Traffic
<1>2. network.error \in DOMAIN SdkExceptions
  BY <1>1 DEF SdkExceptions, Errors
<1> QED
  BY <1>1, <1>2, RaiseEnds

LEMMA GiveUpIInv == ASSUME IInv, TimeOut \/ Disconnect PROVE IInv'
<1>1. "timeout" \in DOMAIN SdkExceptions /\ "connection" \in DOMAIN SdkExceptions
  BY DEF SdkExceptions
<1> QED
  BY <1>1, RaiseEnds DEF TimeOut, Disconnect

LEMMA ReceiveIInv == ASSUME IInv, Receive PROVE IInv'
<1> DEFINE message == network.message
           request == Request(run.retrieval, "asked")
           context == Context(run.retrieval, "asked")
           codes == validate_grounded_response(request, context, message.text)
<1>1. /\ run.pc = "wait" /\ run.call_count = 1 /\ network # NoValue
      /\ network' = NoValue /\ UNCHANGED <<env, accepted>> /\ Permitted
  BY DEF Receive, IInv, Traffic
<1>2. ASSUME NEW result, Present(result),
             result.outcome \in {"PROVIDER_FAILED", "PASSED_DETERMINISTIC_CHECKS",
                                 "VALIDATION_REJECTED"},
             result.provider_failure # "PROVIDER_NOT_CONFIGURED",
             result.raw_candidate = NoValue \/
                /\ result.raw_candidate = message.text /\ result.validation = codes
                /\ result.outcome = IF codes = {} THEN "PASSED_DETERMINISTIC_CHECKS"
                                    ELSE "VALIDATION_REJECTED"
      PROVE  IInv'
  <2>1. /\ RunTyped'
        /\ run'.pc = "shown" /\ run'.retrieval = run.retrieval
        /\ run'.shown.outcome = result.outcome
        /\ run'.shown.failure = result.provider_failure
        /\ run'.shown.raw \in {result.raw_candidate, NoValue}
        /\ run'.shown.raw # NoValue => run'.shown.validation = result.validation
        /\ run'.shown.attempted # FALSE
    BY <1>1, <1>2, PresentShows DEF IInv
  <2>2. Traffic'
    <3>1. Permitted' <=> Permitted
      BY <1>1, <2>1 DEF Permitted, PacketCode
    <3> QED
      BY <1>1, <2>1, <3>1 DEF IInv, Traffic
  <2>3. ShownTextIsJudged'
    <3> SUFFICES ASSUME run'.shown.raw # NoValue
                 PROVE  /\ run'.shown.validation = validate_grounded_response(
                               Request(run'.retrieval, "asked"),
                               Context(run'.retrieval, "asked"), run'.shown.raw)
                        /\ run'.shown.outcome = "PASSED_DETERMINISTIC_CHECKS" <=>
                               validate_grounded_response(
                                   Request(run'.retrieval, "asked"),
                                   Context(run'.retrieval, "asked"), run'.shown.raw) = {}
      BY DEF ShownTextIsJudged
    <3>1. run'.shown.raw = message.text /\ run'.shown.validation = codes
          /\ run'.shown.outcome = IF codes = {} THEN "PASSED_DETERMINISTIC_CHECKS"
                                  ELSE "VALIDATION_REJECTED"
      BY <1>2, <2>1
    <3>2. validate_grounded_response(Request(run'.retrieval, "asked"),
               Context(run'.retrieval, "asked"), run'.shown.raw) = codes
      BY <2>1, <3>1
    <3> QED
      BY <3>1, <3>2
  <2>4. ReportIsTrue'
    BY <1>2, <2>1, <2>3, GenerationAssumption DEF ReportIsTrue
  <2> QED
    BY <1>1, <2>1, <2>2, <2>4 DEF IInv
<1>3. CASE Present(_provider_failed_result("PROVIDER_RESPONSE_INVALID"))
  <2> DEFINE result == _provider_failed_result("PROVIDER_RESPONSE_INVALID")
  <2>1. /\ result.outcome = "PROVIDER_FAILED" /\ result.raw_candidate = NoValue
        /\ result.provider_failure = "PROVIDER_RESPONSE_INVALID"
    BY DEF _provider_failed_result, Result
  <2> HIDE DEF result
  <2> QED
    BY <1>2, <1>3, <2>1 DEF result
<1>4. CASE Present(JudgedResult(codes, message))
  <2> DEFINE result == JudgedResult(codes, message)
  <2>1. /\ result.outcome = IF codes = {} THEN "PASSED_DETERMINISTIC_CHECKS"
                            ELSE "VALIDATION_REJECTED"
        /\ result.provider_failure = NoValue
        /\ result.raw_candidate = message.text /\ result.validation = codes
    <3> HIDE DEF codes, message
    <3> QED
      BY DEF JudgedResult, Result
  <2> HIDE DEF result
  <2>2. Present(result)
    BY <1>4 DEF result
  <2> HIDE DEF codes, message
  <2> QED
    BY <1>2, <2>1, <2>2, GenerationAssumption
<1> QED
  BY <1>3, <1>4 DEF Receive

(* The provider and the network act without the run.                       *)
LEMMA ExternalIInv ==
    ASSUME IInv, Accept \/ RefuseRequest \/ Lose PROVE IInv'
<1>1. UNCHANGED <<env, run>> /\ network # NoValue /\ Permitted
  BY DEF Accept, RefuseRequest, Lose, IInv, Traffic
<1>2. /\ RunTyped' /\ (Permitted' <=> Permitted) /\ (ShownTextIsJudged' <=> ShownTextIsJudged)
  <2>1. RunTyped'
    BY <1>1 DEF IInv, RunTyped
  <2>2. Permitted' <=> Permitted
    BY <1>1 DEF Permitted, PacketCode
  <2>3. ShownTextIsJudged' <=> ShownTextIsJudged
    BY <1>1 DEF ShownTextIsJudged, Shown
  <2> QED
    BY <2>1, <2>2, <2>3
<1>3. ReportIsTrue'
  BY <1>1, <1>2 DEF IInv, ReportIsTrue, Shown
<1>4. CASE Accept
  <2>1. /\ accepted = 0 /\ accepted' = 1
        /\ \E m \in Messages : network' = [message |-> m]
    BY <1>4 DEF Accept, IInv, Traffic
  <2>2. Traffic'
    BY <1>1, <1>2, <2>1 DEF IInv, Traffic
  <2> QED
    BY <1>1, <1>2, <1>3, <2>2 DEF IInv
<1>5. CASE RefuseRequest
  <2>1. /\ accepted' = accepted /\ \E exc \in Errors : network' = [error |-> exc]
    BY <1>5 DEF RefuseRequest, Errors
  <2>2. Traffic'
    BY <1>1, <1>2, <2>1 DEF IInv, Traffic
  <2> QED
    BY <1>1, <1>2, <1>3, <2>2 DEF IInv
<1>6. CASE Lose
  <2>1. accepted' = accepted /\ network' = NoValue
    BY <1>6 DEF Lose
  <2>2. Traffic'
    BY <1>1, <1>2, <2>1 DEF IInv, Traffic
  <2> QED
    BY <1>1, <1>2, <1>3, <2>2 DEF IInv
<1> QED
  BY <1>4, <1>5, <1>6

LEMMA NextIInv == IInv /\ [Next]_vars => IInv'
<1> SUFFICES ASSUME IInv, [Next]_vars PROVE IInv'
  OBVIOUS
<1>1. CASE UNCHANGED vars
  BY <1>1
  DEF vars, IInv, RunTyped, Traffic, Permitted, PacketCode, Configured,
      ReportIsTrue, ShownTextIsJudged, Shown
<1> QED
  BY <1>1, StartIInv, BuildProviderIInv, RefusePacketIInv, SendIInv, RequestFailsIInv,
     GiveUpIInv, ReceiveIInv, ExternalIInv DEF Next

LEMMA Inductive == Spec => []IInv
  BY InitIInv, NextIInv, PTL DEF Spec

-----------------------------------------------------------------------------
(* One run makes the provider work at most once, however late, lost or     *)
(* refused its request or the answer is.                                   *)
THEOREM OneGeneration == Spec => []AtMostOneGeneration
<1>1. IInv => AtMostOneGeneration
  BY DEF IInv, Traffic, AtMostOneGeneration
<1> QED
  BY Inductive, <1>1, PTL

(* The provider only works on what was confirmed, configured and checked.  *)
THEOREM OnlyOnPurpose == Spec => []SentOnPurpose
<1>1. IInv => SentOnPurpose
  BY DEF IInv, Traffic, Permitted, PacketCode, SentOnPurpose
<1> QED
  BY Inductive, <1>1, PTL

(* A shown text carries the verdict of the checks on that text.            *)
THEOREM TextIsJudged == Spec => []ShownTextIsJudged
<1>1. IInv => ShownTextIsJudged
  BY DEF IInv, ReportIsTrue, ShownTextIsJudged
<1> QED
  BY Inductive, <1>1, PTL

(* A report that denies the request is true for good: nothing of the run is  *)
(* on its way.                                                             *)
THEOREM DeniedIsUnsent == Spec => []DeniedMeansUnsent
<1>1. IInv => DeniedMeansUnsent
  BY DEF IInv, ReportIsTrue, DeniedMeansUnsent
<1> QED
  BY Inductive, <1>1, PTL

(* The reported category of a failure is that of the exception, although the *)
(* classes of the SDK overlap.                                             *)
THEOREM CategoriesAreTold == Spec => FailuresAreTold
<1>1. ASSUME IInv, TimeOut PROVE Reports("PROVIDER_TIMEOUT")
  <2>1. "timeout" \in DOMAIN SdkExceptions
        /\ _map_sdk_exception("timeout") = "PROVIDER_TIMEOUT"
    BY DEF SdkExceptions, _map_sdk_exception
  <2> QED
    BY <1>1, <2>1, RaiseEnds DEF TimeOut, Reports
<1>2. ASSUME IInv, RequestFails
      PROVE  /\ Reports("PROVIDER_RATE_LIMITED") <=> network.error = "rate_limit"
             /\ Reports("PROVIDER_AUTH_FAILED") <=>
                   network.error \in {"authentication", "permission"}
             /\ ~Reports("PROVIDER_TIMEOUT")
  <2>1. network.error \in Errors /\ run.pc = "wait" /\ UNCHANGED <<env, accepted>>
        /\ Raise(network.error, NoValue)
    BY <1>2 DEF RequestFails, IInv, Traffic
  <2>2. network.error \in DOMAIN SdkExceptions
    BY <2>1 DEF SdkExceptions, Errors
  <2>3. Reports(_map_sdk_exception(network.error))
        /\ run'.shown.failure = _map_sdk_exception(network.error)
    BY <1>2, <2>1, <2>2, RaiseEnds DEF Reports
  <2>4. \A exc \in Errors :
          /\ _map_sdk_exception(exc) = "PROVIDER_RATE_LIMITED" <=> exc = "rate_limit"
          /\ _map_sdk_exception(exc) = "PROVIDER_AUTH_FAILED" <=>
                exc \in {"authentication", "permission"}
          /\ _map_sdk_exception(exc) # "PROVIDER_TIMEOUT"
    BY DEF Errors, SdkExceptions, _map_sdk_exception
  <2> QED
    BY <2>1, <2>3, <2>4 DEF Reports
<1>3. IInv /\ [Next]_vars =>
        [run'.pc = "shown" =>
           /\ TimeOut => Reports("PROVIDER_TIMEOUT")
           /\ RequestFails =>
                 /\ Reports("PROVIDER_RATE_LIMITED") <=> network.error = "rate_limit"
                 /\ Reports("PROVIDER_AUTH_FAILED") <=>
                       network.error \in {"authentication", "permission"}
                 /\ ~Reports("PROVIDER_TIMEOUT")]_vars
  BY <1>1, <1>2
<1> QED
  BY Inductive, <1>3, PTL DEF Spec, FailuresAreTold

(* The provider works on a prompt once, and only if it was meant to be sent. *)
THEOREM OnceOnPurpose == Spec => []SentOnceOnPurpose
<1>1. AtMostOneGeneration /\ SentOnPurpose => SentOnceOnPurpose
  BY DEF SentOnceOnPurpose
<1> QED
  BY <1>1, OneGeneration, OnlyOnPurpose, PTL

=============================================================================
