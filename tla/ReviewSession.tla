--------------------------- MODULE ReviewSession ----------------------------
(***************************************************************************)
(* What the upload-and-review part of TradeIntel 360 promises its users,   *)
(* without requests, worker threads, session copies or processing status:  *)
(* a session shows nothing, or one accepted trading file of its own user,  *)
(* with no broker-bar evidence or with the evidence of exactly that        *)
(* journal; and once it has ended it shows nothing ever again.             *)
(***************************************************************************)
CONSTANTS Users, Sessions, Files, UserOf, Content, Fingerprint, NoValue

VARIABLES
    owner,    \* who uploaded a file, NoValue if nobody did
    review    \* what a session shows, NoValue once it has ended

vars == <<owner, review>>

Nothing == [dataset |-> NoValue, evidence |-> NoValue]

Init ==
    /\ owner = [f \in Files |-> NoValue]
    /\ review = [s \in Sessions |-> Nothing]

Submit(f, u) ==
    /\ owner[f] = NoValue
    /\ owner' = [owner EXCEPT ![f] = u]
    /\ UNCHANGED review

(* A file is shown to its owner only, and only if it was accepted; Next      *)
(* allows no evidence or that of the file's own journal. *)
Show(s, f, e) ==
    /\ review[s] # NoValue
    /\ owner[f] = UserOf[s]
    /\ Content[f] # NoValue
    /\ review' = [review EXCEPT ![s] = [dataset |-> f, evidence |-> e]]
    /\ UNCHANGED owner

ShowNothing(s) ==
    /\ review[s] # NoValue
    /\ review' = [review EXCEPT ![s] = Nothing]
    /\ UNCHANGED owner

End(s) ==
    /\ review[s] # NoValue
    /\ review' = [review EXCEPT ![s] = NoValue]
    /\ UNCHANGED owner

Next ==
    \/ \E f \in Files, u \in Users : Submit(f, u)
    \/ \E s \in Sessions :
         \/ \E f \in Files : Show(s, f, NoValue) \/ Show(s, f, Fingerprint[Content[f]])
         \/ ShowNothing(s)
         \/ End(s)

Spec == Init /\ [][Next]_vars

=============================================================================
