----------------------------- MODULE MCRecords ------------------------------
(***************************************************************************)
(* Finite instances of TradeRecords and of UserProfiles for TLC.  The two   *)
(* share users and worker threads but no rows, so a behaviour is about one  *)
(* of them.                                                                 *)
(***************************************************************************)
EXTENDS TradeRecords, UserProfiles, FiniteSets, TLC

Long == [side |-> "LONG", status |-> "OPEN", entry_price |-> 2, exit_price |-> NoValue,
         quantity |-> 2, fees |-> 1]

(* Open, closed with a profit, closed with a loss, closed at a price of zero *)
(* and closed without a price.                                               *)
MCForms ==
    {Long, [Long EXCEPT !.status = "CLOSED", !.exit_price = 3],
     [Long EXCEPT !.side = "SHORT", !.status = "CLOSED", !.exit_price = 3],
     [Long EXCEPT !.status = "CLOSED", !.exit_price = 0],
     [Long EXCEPT !.status = "CLOSED"]}

(* The instances of one run: which rows change, how many keys there are and  *)
(* how many requests may overlap.                                            *)
VARIABLE instance

Edits == [of |-> "trades", ids |-> 2, width |-> 2]

FormsOverlap == [of |-> "profiles", ids |-> 0, width |-> 2]

FormsInTurn == [of |-> "profiles", ids |-> 0, width |-> 1]

Within ==
    /\ Cardinality(used') <= instance.ids
    /\ Cardinality({r \in Requests : req'[r].pc # "idle"}) <= instance.width
    /\ Cardinality({r \in Requests : serving'[r].pc # "idle"}) <= instance.width

MCInit ==
    /\ instance \in {Edits, FormsOverlap, FormsInTurn}
    /\ Init
    /\ ProfilesInit
    /\ instance.of = "trades" => account = [u \in Users |-> NoValue]

TradesMove == instance.of = "trades" /\ Next /\ UNCHANGED profileVars

ProfilesMove == instance.of = "profiles" /\ ProfilesNext /\ UNCHANGED vars

MCNext == (TradesMove \/ ProfilesMove) /\ Within /\ UNCHANGED instance

MCSpec == MCInit /\ [][MCNext]_<<vars, profileVars, instance>>

(* The profile a page reported as updated is the one stored until the next   *)
(* form is saved, although every login and every account save also writes    *)
(* the whole profile row: so it is while requests do not overlap.            *)
SavedStays ==
    instance = FormsInTurn =>
        \A u \in Users : saved[u] # NoValue => profile[u] = saved[u]

(* Users, threads, keys and values are only compared for equality.           *)
Symmetry ==
    Permutations(Requests) \cup Permutations(Users) \cup Permutations(Ids)
      \cup Permutations(Values)

=============================================================================
