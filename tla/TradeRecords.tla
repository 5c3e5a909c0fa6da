---------------------------- MODULE TradeRecords ----------------------------
(***************************************************************************)
(* trading/views.py and trading/models.py: the trades a user keeps by      *)
(* hand.  A request loads the row it edits or deletes and writes it later, *)
(* in a statement of its own; other requests of the user may come between. *)
(* Prices, sizes and fees are integers.                                    *)
(***************************************************************************)
EXTENDS Integers, WebRequests

CONSTANTS
    Ids,             \* primary keys
    Forms            \* the valid forms considered

Price == Nat \cup {NoValue}

(* What TradeForm lets the user enter, as far as the outcome depends on it.  *)
Form == [side : {"LONG", "SHORT"}, status : {"OPEN", "CLOSED"}, entry_price : Nat,
         exit_price : Price, quantity : Nat, fees : Nat]

Trade == [form : Form, user : Users, pnl : Int \cup {NoValue}]

ASSUME TradeRecordsAssumption ==
    /\ Forms \subseteq Form
    /\ NoValue \notin Int \cup Users \cup Ids \cup Trade

VARIABLES
    trades,      \* the table: primary key to row
    used,        \* the keys that were ever given out
    deleted,     \* the keys a user deleted
    author,      \* per key, the user whose request wrote the row last
    req          \* the request each worker thread is serving

vars == <<trades, used, deleted, author, req>>

(* idle: next Create or Load     write: row loaded, next its view's write    *)
RequestRecord == [pc : {"idle", "write"}, kind : {"update", "delete"},
                  user : Users \cup {NoValue}, id : Ids \cup {NoValue},
                  copy : Trade \cup {NoValue}]

Idle == [pc |-> "idle", kind |-> "update", user |-> NoValue, id |-> NoValue,
         copy |-> NoValue]

(* A request that will write works on a row it found under a given key.      *)
RequestOK(q) ==
    q.pc = "write" => q.user \in Users /\ q.id \in used /\ q.copy \in Trade

TypeOK ==
    /\ trades \in [Ids -> Trade \cup {NoValue}]
    /\ used \subseteq Ids
    /\ deleted \subseteq used
    /\ author \in [Ids -> Users \cup {NoValue}]
    /\ req \in [Requests -> RequestRecord]
    /\ \A r \in Requests : RequestOK(req[r])
    /\ \A i \in Ids : trades[i] # NoValue => i \in used

-----------------------------------------------------------------------------
(* Trade.realized_pnl: an exit price of zero counts as none.                 *)
realized_pnl(f) ==
    IF f.status # "CLOSED" \/ f.exit_price \in {NoValue, 0} THEN NoValue
    ELSE (IF f.side = "LONG" THEN f.exit_price - f.entry_price
          ELSE f.entry_price - f.exit_price) * f.quantity - f.fees

(* Faulty variant: the outcome is worked out once, when it is not there yet. *)
FilledOnce(f, copy) ==
    [form |-> f, user |-> copy.user,
     pnl |-> IF copy.pnl # NoValue THEN copy.pnl ELSE realized_pnl(f)]

(* TradeForm.save(commit=False) on the loaded row, and its outcome anew.     *)
Filled(f, copy) == [form |-> f, user |-> copy.user, pnl |-> realized_pnl(f)]

(* The table's keys are never given out twice.                               *)
FreshIds == Ids \ used

(* Faulty variant: the row is looked up by its key alone.                    *)
FoundById(u, i) == trades[i] # NoValue

(* get_object_or_404(Trade, pk=pk, user=request.user).                       *)
Found(u, i) == trades[i] # NoValue /\ trades[i].user = u

-----------------------------------------------------------------------------
Init ==
    /\ trades = [i \in Ids |-> NoValue]
    /\ used = {}
    /\ deleted = {}
    /\ author = [i \in Ids |-> NoValue]
    /\ req = [r \in Requests |-> Idle]

(* trade_create.                                                             *)
Create(r, u, f) ==
    /\ req[r].pc = "idle"
    /\ \E i \in FreshIds :
         /\ trades' = [trades EXCEPT ![i] = [form |-> f, user |-> u, pnl |-> realized_pnl(f)]]
         /\ used' = used \cup {i}
         /\ author' = [author EXCEPT ![i] = u]
    /\ UNCHANGED <<deleted, req>>

(* trade_update and trade_delete begin; a row that is not found is a 404.    *)
Load(r, u, i, k) ==
    /\ req[r].pc = "idle"
    /\ Found(u, i)
    /\ req' = [req EXCEPT ![r] = [pc |-> "write", kind |-> k, user |-> u, id |-> i,
                                  copy |-> trades[i]]]
    /\ UNCHANGED <<trades, used, deleted, author>>

At(r, k) == req[r].pc = "write" /\ req[r].kind = k

(* trade.save() names no fields: it updates the row, or inserts it if it is  *)
(* not there any more. *)
Update(r, f) ==
    LET i == req[r].id IN
    /\ At(r, "update")
    /\ trades' = [trades EXCEPT ![i] = Filled(f, req[r].copy)]
    /\ author' = [author EXCEPT ![i] = req[r].user]
    /\ req' = [req EXCEPT ![r] = Idle]
    /\ UNCHANGED <<used, deleted>>

(* A GET of either page, or a form that is not valid.                        *)
Leave(r) ==
    /\ req[r].pc = "write"
    /\ req' = [req EXCEPT ![r] = Idle]
    /\ UNCHANGED <<trades, used, deleted, author>>

(* trade.delete() deletes by key, and says so whether or not it was there.   *)
Delete(r) ==
    LET i == req[r].id IN
    /\ At(r, "delete")
    /\ trades' = [trades EXCEPT ![i] = NoValue]
    /\ deleted' = deleted \cup {i}
    /\ req' = [req EXCEPT ![r] = Idle]
    /\ UNCHANGED <<used, author>>

Next ==
    \E r \in Requests :
      \/ \E u \in Users, f \in Forms : Create(r, u, f)
      \/ \E u \in Users, i \in Ids, k \in {"update", "delete"} : Load(r, u, i, k)
      \/ \E f \in Forms : Update(r, f)
      \/ Leave(r)
      \/ Delete(r)

Spec == Init /\ [][Next]_vars

-----------------------------------------------------------------------------
(* The cached outcome the pages show is the outcome of the row it is stored  *)
(* in, whichever of two overlapping edits wins and whatever a late edit      *)
(* writes back over a deletion: no row ever mixes two writes.                *)
PnlIsOfItsRow ==
    \A i \in Ids : trades[i] # NoValue => trades[i].pnl = realized_pnl(trades[i].form)

(* Nobody's request writes another user's row, and no write hands a row to   *)
(* another user, although the row is checked when it is loaded and written   *)
(* later, by its key alone.                                                  *)
WrittenByOwner ==
    \A i \in Ids : trades[i] # NoValue => author[i] = trades[i].user

(* The confirmation page says that a deletion permanently removes the trade. *)
(* It does while requests do not overlap; an edit that loaded the row before *)
(* the deletion and saves it afterwards brings it back.                      *)
DeletedStaysDeleted ==
    \A i \in deleted : trades[i] = NoValue

=============================================================================
