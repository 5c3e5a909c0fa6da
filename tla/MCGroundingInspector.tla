------------------------ MODULE MCGroundingInspector ------------------------
(* Instances of the grounding inspector for TLC: journals of two or three   *)
(* trades with whole-number and text tickets, one with a ticket twice and   *)
(* one with a cell no packet accepts; forms for every way to retrieve; and  *)
(* candidates built from parts that may each be wrong.                     *)
EXTENDS GroundingInspectorProps, TLC

Lines(side, profit) ==
    [side |-> side, open_time |-> "t1", entry |-> "1.5", profit |-> profit]

Row(ticket, symbol, side, profit) ==
    [ticket |-> ticket, symbol |-> symbol, lines |-> Lines(side, profit)]

Two == << Row("10", "EURUSD", "Buy", "7"), Row("7", "GBPUSD", "Sell", "1.5") >>

(* The same rows with another profit have the same fingerprint.            *)
TwoRevalued == << Row("10", "EURUSD", "Buy", "1.5"), Row("7", "GBPUSD", "Sell", "7.0") >>

Three == << Row("10", "EURUSD", "Buy", "7"), Row("A", "eurusd", "Buy", "7"),
            Row("7", NoValue, "Buy", "7") >>

Twice == << Row("10", "EURUSD", "Buy", "7"), Row("10", "GBPUSD", "Sell", "7") >>

Odd == << Row("10", "EURUSD", "balance", "7"), Row("7", "GBPUSD", "Sell", "n/a") >>

(* A symbol that contains the name of the digest.                          *)
Leaking == << Row("7", "request_sha256", "Buy", "7") >>

MCJournals == {Two, TwoRevalued, Three, Twice, Odd, Leaking}

MCLeakingTexts == {"request_sha256"}

FewJournals == {Two, TwoRevalued}

MCKpis == [j \in MCJournals |->
              [total_trades |-> Numeral[Len(j)],
               win_rate_pct |-> IF j = TwoRevalued THEN "7" ELSE "50"]]

Computed(value) ==
    [status |-> "COMPUTED",
     lines |-> [approx_window_high |-> "1.5", approx_window_low |-> "1.5",
                approx_mfe |-> value, approx_mae |-> "0"]]

Without(status) == [status |-> status, lines |-> << >>]

MCVerdicts == {Computed("7"), Without("NO_MARKET_DATA"), Without("INCOMPLETE_COVERAGE")}

FewVerdicts == {Computed("7"), Without("NO_MARKET_DATA")}

MCTimeBases == {"IANA (Europe/London)"}

MCTicketOf == [t \in {"10", " 7", "7", "99", "A", "1.5"} |->
                  CASE t = " 7" -> "7" [] t = "1.5" -> NoValue [] OTHER -> t]

MCFold == [s \in {"EURUSD", "GBPUSD", "eurusd", "XAUUSD", "request_sha256"} |->
              IF s = "EURUSD" THEN "eurusd" ELSE s]

MCNumericKey == ("10" :> 10) @@ ("7" :> 7)

MCTextRank == ("10" :> 1) @@ ("7" :> 2) @@
              [A |-> 3, journal |-> 4, total_trades |-> 5, win_rate_pct |-> 6]

MCNumeral == <<"1", "2", "3">>

MCNumberOf == [t \in {"0", "1", "1.5", "1.50", "2", "3", "7", "+7", "7.0", "10", "50"} |->
                 CASE t \in {"1.5", "1.50"} -> 15 [] t \in {"7", "+7", "7.0"} -> 70
                   [] t = "1" -> 10
                   [] t = "0" -> 0 [] t = "2" -> 20 [] t = "3" -> 30
                   [] t = "10" -> 100 [] t = "50" -> 500]

MCCanonical ==
    [IDENTIFIER |-> {"10", "7", "A", "EURUSD", "GBPUSD", "eurusd", "request_sha256"},
     TIMESTAMP |-> {"t1"},
     TEXT |-> MCTimeBases,
     INTEGER |-> {"0", "1", "2", "3", "7", "10", "50"},
     DECIMAL |-> {"0", "1.5", "2", "3", "7", "7.0", "10", "50"}]

Number(text, percent) == [kind |-> "number", text |-> text, percent |-> percent]

MCNamesIn == [t \in DOMAIN MCNumberOf |-> IF t = "+7" THEN {"+7", "7"} ELSE {t}]

(* Read on its own "t1" holds a 3 and a 10; "t1!" has a 3 more behind "t1".  *)
MCLeftover ==
    [t \in {"t1", "t1!", "t2"} |->
        [times \in SUBSET MCCanonical["TIMESTAMP"] |->
            {Number(n, FALSE) :
                n \in CASE t = "t1" -> IF "t1" \in times THEN {} ELSE {"3", "10"}
                       [] t = "t1!" -> IF "t1" \in times THEN {"3"} ELSE {"3", "10"}
                       [] OTHER -> {"7"}}]]

-----------------------------------------------------------------------------
FormAsking(question, query, ticket, symbol, type, top_k) ==
    [query |-> query, ticket |-> ticket, symbol |-> symbol, document_type |-> type,
     top_k |-> top_k, question |-> question]

Form(query, ticket, symbol, type, top_k) ==
    FormAsking(IF query = {} THEN "blank" ELSE "asked", query, ticket, symbol, type, top_k)

(* Every way to retrieve, right and wrong.                                 *)
MCForms ==
    {Form(query, ticket, symbol, type, top_k) :
        query \in {{}, {"7"}, {"Buy", "total_trades"}, {"unknown"}},
        ticket \in {NoValue, " 7", "99"}, symbol \in {NoValue, "eurusd"},
        type \in {NoValue, "TRADE_EVIDENCE", "KPI_EVIDENCE"},
        top_k \in {NoValue, 1, 9}}
    \cup {Form({"7"}, NoValue, NoValue, NoValue, 0), FormAsking("too long", TooLong, NoValue, NoValue, NoValue, 1),
          Form({"7"}, "1.5", NoValue, NoValue, NoValue),
          Form({"7"}, NoValue, NoValue, "NEWS", NoValue),
          FormAsking("asked", {}, " 7", NoValue, NoValue, NoValue)}
    \cup {FormAsking(question, {"7"}, ticket, NoValue, NoValue, NoValue) :
             question \in {"too long", "unstable", "leaking"}, ticket \in {NoValue, " 7"}}

FewForms == {Form({"7"}, NoValue, NoValue, NoValue, NoValue),
             Form({"7", "Sell"}, NoValue, NoValue, "TRADE_EVIDENCE", NoValue),
             Form({"7", "Sell"}, NoValue, NoValue, "TRADE_EVIDENCE", 1),
             Form({"7"}, "10", NoValue, NoValue, NoValue)}

AllForms == MCForms \cup FewForms

-----------------------------------------------------------------------------
Candidate(json, leak, payload) == [json |-> json, leak |-> leak, payload |-> payload]

Payload_(answer, claims, citations, codes) ==
    [schema_version |-> "current", answer |-> answer, claims |-> claims,
     citations |-> citations, limitation_codes |-> codes]

Cite(alias) == [kind |-> "citation", alias |-> alias]

Named(kind, text) == [kind |-> kind, text |-> text]

Time(text) == [kind |-> "time", text |-> text]

Claim(alias, field, value) == [evidence |-> alias, field |-> field, value |-> value]

Word == [kind |-> "word"]

(* Answers and claims that may or may not fit together.                    *)
Statements == {{Word}, {Number("7", FALSE)}, {Number("1.50", FALSE)}, {Number("1.50", TRUE)},
               {Number("+7", FALSE)}, {Time("t1")}, {Time("t1!")}, {Time("t2")},
               {Named("ticket", "10")}, {Named("ticket", "7"), Named("symbol", "GBPUSD")},
               {Named("symbol", "XAUUSD")}, {[kind |-> "phrase", code |-> "PROHIBITED_ADVICE"]}}

ClaimLists == {<< >>, <<Claim(1, "profit", "7")>>, <<Claim(2, "profit", "1.5")>>,
               <<Claim(1, "approx_mfe", "7"), Claim(1, "profit", "7.0")>>,
               <<Claim(2, "win_rate_pct", "7")>>, <<Claim(1, "profit", "1.5")>>, <<Claim(1, "ticket", "10")>>,
               <<Claim(3, "profit", "7")>>}

CitationLists == {<<1>>, <<1, 2>>}

CodeLists == {<< >>, <<"PARTIAL_EVIDENCE">>, <<"APPROXIMATE_M1_EVIDENCE">>,
              <<"APPROXIMATE_M1_EVIDENCE", "PARTIAL_EVIDENCE">>,
              <<"EVIDENCE_UNAVAILABLE">>,
              <<"APPROXIMATE_M1_EVIDENCE", "EVIDENCE_UNAVAILABLE">>,
              <<"APPROXIMATE_M1_EVIDENCE", "CROSS_SYMBOL_NOT_COMPARABLE">>}

Fitting ==
    {Candidate("object", "no",
        Payload_(s \cup {Cite(a) : a \in Elements(citations)}, claims, citations, codes)) :
        s \in Statements, claims \in ClaimLists, citations \in CitationLists,
        codes \in CodeLists}

Sound == Payload_({Word, Cite(1)}, << >>, <<1>>, << >>)

Without_(payload, key) == [k \in DOMAIN payload \ {key} |-> payload[k]]

(* One thing wrong with an otherwise sound candidate.                      *)
Broken ==
    {Candidate("malformed", "no", Sound), Candidate("not an object", "no", Sound),
     Candidate("object", "raw", Sound), Candidate("object", "decoded", Sound)}
    \cup {Candidate("object", "no", Without_(Sound, k)) : k \in DOMAIN Sound}
    \cup {Candidate("object", "no", [Sound EXCEPT ![k] = WrongType]) : k \in DOMAIN Sound}
    \cup {Candidate("object", "no", p) :
            p \in {Sound @@ [note |-> "extra"],
                   [Sound EXCEPT !["schema_version"] = "old"],
                   [Sound EXCEPT !["answer"] = {}],
                   [Sound EXCEPT !["answer"] = {Word}],
                   [Sound EXCEPT !["answer"] = @ \cup {[kind |-> "long"]}],
                   [Sound EXCEPT !["citations"] = << >>],
                   [Sound EXCEPT !["citations"] = <<1, 1>>],
                   [Sound EXCEPT !["citations"] = <<1, 9>>],
                   [Sound EXCEPT !["citations"] = <<InternalId>>],
                   [Sound EXCEPT !["citations"] = <<WrongType>>],
                   [Sound EXCEPT !["limitation_codes"] = <<"UNHEARD_OF">>],
                   [Sound EXCEPT !["limitation_codes"] = <<WrongType>>],
                   [Sound EXCEPT !["claims"] = <<WrongType>>],
                   [Sound EXCEPT !["claims"] = <<Without_(Claim(1, "profit", "7"), "value")>>],
                   [Sound EXCEPT !["claims"] = <<Claim(1, "profit", WrongType)>>],
                   [Sound EXCEPT !["claims"] = <<Claim(InternalId, "profit", "7")>>],
                   [Sound EXCEPT !["claims"] = <<Claim(1, "profit", "7") @@ [note |-> "x"]>>]}}

MCAnswers == Fitting \cup Broken

SoundAnswers == {Candidate("object", "no", Sound)}

-----------------------------------------------------------------------------
(* The instances of one run: every way to retrieve from every journal, with  *)
(* one candidate, and every candidate over a few packets.                    *)
VARIABLE instance

MCInit == Init /\ instance \in {"retrieval", "answers"}

MCLoadJournal ==
    /\ LoadJournal
    /\ instance = "answers" => journal' \in FewJournals

MCStoreEvidence ==
    /\ StoreEvidence
    /\ instance = "answers" => {excursion_state'.evidence[k] : k \in TicketsOf(journal)} \subseteq FewVerdicts

Retrieve ==
    /\ instance = "retrieval" /\ page = NoPage
    /\ \E form \in MCForms, answer \in SoundAnswers \cup {NoValue} : Inspect(form, answer)

Answer ==
    /\ instance = "answers" /\ page = NoPage
    /\ \E form \in FewForms, answer \in Answers \cup {NoValue} : Inspect(form, answer)

MCNext ==
    /\ MCLoadJournal \/ MCStoreEvidence \/ NoJournal \/ LeavePage \/ Retrieve \/ Answer
    /\ UNCHANGED instance

MCSpec == MCInit /\ [][MCNext]_<<vars, instance>>

=============================================================================
