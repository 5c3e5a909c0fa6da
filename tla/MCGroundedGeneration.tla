----------------------- MODULE MCGroundedGeneration ------------------------
(* An instance of GroundedGeneration for TLC: the canary fixture, the same   *)
(* with a cell that no packet accepts, and an empty retrieval; answers that *)
(* pass, that are rejected, and that are not JSON.                         *)
EXTENDS GroundedGenerationProps

MCCanonical == [IDENTIFIER |-> {}, TIMESTAMP |-> {}, TEXT |-> {}, INTEGER |-> {"6"},
                DECIMAL |-> {"6"}]

MCNumberOf == [t \in {"6", "7"} |-> IF t = "6" THEN 6 ELSE 7]

MCNamesIn == [t \in {"6", "7"} |-> {t}]

(* None of the answers has a piece written like a time.                    *)
MCLeftover == [t \in {} |-> {}]

MCRetrievals ==
    {load_canary_retrieval,
     [load_canary_retrieval EXCEPT !.results[1].content = [total_trades |-> "six"]],
     [load_canary_retrieval EXCEPT !.state = "NO_RELEVANT_EVIDENCE", !.results = << >>]}

Answer(json, text) ==
    [json |-> json, leak |-> "no",
     payload |-> [schema_version |-> "current",
                  answer |-> {[kind |-> "citation", alias |-> 1],
                              [kind |-> "number", text |-> text, percent |-> FALSE]},
                  claims |-> <<[evidence |-> 1, field |-> "total_trades", value |-> "6"]>>,
                  citations |-> <<1>>, limitation_codes |-> << >>]]

MCCandidates == {Answer("object", "6"), Answer("object", "7"), Answer("malformed", "6")}

MCStopReasons == {"end_turn", "max_tokens"}

=============================================================================
