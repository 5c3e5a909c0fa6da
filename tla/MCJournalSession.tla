-------------------------- MODULE MCJournalSession --------------------------
(***************************************************************************)
(* Finite instances of JournalSession for TLC.                             *)
(***************************************************************************)
EXTENDS JournalSessionProps, FiniteSets, TLC

(* Accepted files "a", "b" and "odd"; "bad" is refused, and a journal without *)
(* tickets, that of "odd", has no fingerprint.                               *)
MCJournals == {"ja", "jb", "jo"}
MCFingerprints == {"pa", "pb"}
MCContent == [f \in Files |-> CASE f = "a" -> "ja" [] f = "b" -> "jb" [] f = "odd" -> "jo"
                                [] OTHER -> NoValue]
MCFingerprint == [j \in MCJournals |-> CASE j = "ja" -> "pa" [] j = "jb" -> "pb"
                                        [] OTHER -> NoValue]

(* Two users with a session each.                                            *)
MCUserOf == [s \in {"s1", "s2"} |-> IF s = "s1" THEN "u1" ELSE "u2"]

(* The instances of one run: the files that may be uploaded, the sessions in *)
(* use, how many requests may overlap, and how often the process may crash   *)
(* and the database refuse a write.                                          *)
VARIABLE instance

Overlap == [files |-> {"a", "b"}, sessions |-> {"s1"}, width |-> 2,
            crashes |-> 0, dbErrors |-> 0]

Failures == [files |-> {"a", "bad"}, sessions |-> {"s1"}, width |-> 2,
             crashes |-> 1, dbErrors |-> 1]

TwoUsers == [files |-> {"a"}, sessions |-> {"s1", "s2"}, width |-> 2,
             crashes |-> 0, dbErrors |-> 0]

Serial == [files |-> {"a", "odd", "bad"}, sessions |-> {"s1"}, width |-> 1,
           crashes |-> 1, dbErrors |-> 0]

(* A database that is busy for longer.                                       *)
Locked == [Serial EXCEPT !.files = {"a", "bad"}, !.dbErrors = 2]

(* No crash: two requests that overlap, or one in front of a busy database.  *)
Settling == {[Failures EXCEPT !.crashes = 0, !.dbErrors = 0], [Locked EXCEPT !.crashes = 0]}

Within ==
    /\ \A r \in Requests :
         req'[r].pc # "idle" => /\ req'[r].session \in instance.sessions
                                /\ req'[r].file \in instance.files \cup {NoValue}
    /\ Cardinality({r \in Requests : req'[r].pc # "idle"}) <= instance.width
    /\ crashes' <= instance.crashes /\ dbErrors' <= instance.dbErrors
    /\ \A s \in Sessions : store'[s] # store[s] => s \in instance.sessions

MCInit == Init /\ instance \in {Overlap, Failures, TwoUsers, Serial, Locked}

MCNext == Next /\ Within /\ UNCHANGED instance

MCSpec == MCInit /\ [][MCNext]_<<vars, instance>>

(* One request at a time.                                                    *)
SerialInit == Init /\ instance = Serial

SerialSpec == SerialInit /\ [][MCNext]_<<vars, instance>>

(* A process that advances every request.                                    *)
SettlingInit == Init /\ instance \in Settling

SettlingSpec ==
    /\ SettlingInit
    /\ [][MCNext]_<<vars, instance>>
    /\ \A r \in Requests : WF_vars(Advance(r))

(* Requests are interchangeable: no property or action orders them.          *)
Workers == Permutations(Requests)

(* With one request at a time, the journal of a session changes only when an *)
(* upload or a load responds: dashboards, inspectors and market uploads,     *)
(* which also write the session, leave it alone.                             *)
OnlyIngestionSwitchesJournal ==
    [][instance = Serial =>
       \A s \in Sessions :
         store[s] # NoValue /\ store'[s] # NoValue
           /\ store'[s].cleaned_data # store[s].cleaned_data
         => \E r \in Requests : /\ req[r].session = s
                                /\ req[r].kind \in {"upload", "load"}
                                /\ req[r].pc = "respond"]_vars

=============================================================================
