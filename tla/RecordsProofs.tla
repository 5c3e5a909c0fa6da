---------------------------- MODULE RecordsProofs ----------------------------
(***************************************************************************)
(* Proofs about TradeRecords and UserProfiles, for any users, requests,    *)
(* keys, forms and values, and about requests served in turn (MCRecords).  *)
(***************************************************************************)
EXTENDS MCRecords, FiniteSetTheorems, TLAPS

(***************************************************************************)
(* TradeRecords.                                                           *)
(***************************************************************************)
Writing(r) == req[r].pc = "write"

(* A request works on a copy of a row of its user; if the row is there, it *)
(* is still that user's.                                                   *)
CopiesAreOwn ==
    \A r \in Requests : Writing(r) =>
        /\ req[r].copy.user = req[r].user
        /\ trades[req[r].id] # NoValue => trades[req[r].id].user = req[r].user

(* Even after the row is gone, only one user's requests can bring it back. *)
WritersAgree ==
    \A r, s \in Requests :
        Writing(r) /\ Writing(s) /\ req[r].id = req[s].id => req[r].user = req[s].user

TradesInv == TypeOK /\ PnlIsOfItsRow /\ WrittenByOwner /\ CopiesAreOwn /\ WritersAgree

-----------------------------------------------------------------------------
LEMMA PnlTyped ==
    ASSUME NEW f \in Form
    PROVE  realized_pnl(f) \in Int \cup {NoValue}
  BY DEF Form, Price, realized_pnl

LEMMA RowTyped ==
    ASSUME NEW f \in Forms, NEW u \in Users
    PROVE  LET row == [form |-> f, user |-> u, pnl |-> realized_pnl(f)] IN
           row \in Trade /\ row # NoValue
  BY PnlTyped, TradeRecordsAssumption DEF Trade

LEMMA IdleRequestTyped == Idle \in RequestRecord /\ Idle.pc = "idle"
  BY DEF Idle, RequestRecord

(* A request that ends only takes obligations away.                        *)
LEMMA EndingKeepsRequests ==
    ASSUME TypeOK, NEW r \in Requests, req' = [req EXCEPT ![r] = Idle]
    PROVE  /\ req' \in [Requests -> RequestRecord]
           /\ \A s \in Requests : Writing(s)' => s # r /\ Writing(s) /\ req'[s] = req[s]
  BY IdleRequestTyped DEF TypeOK, Writing

(* Rows that come and go under one key, with requests only ending, keep the  *)
(* invariant if the new row belongs to whoever may still write the key.    *)
LEMMA WriteKeeps ==
    ASSUME TradesInv, NEW r \in Requests, Writing(r), NEW row \in Trade \cup {NoValue},
           trades' = [trades EXCEPT ![req[r].id] = row],
           row # NoValue => /\ row.user = req[r].user
                            /\ row.pnl = realized_pnl(row.form)
                            /\ author' = [author EXCEPT ![req[r].id] = req[r].user],
           row = NoValue => author' = author,
           req' = [req EXCEPT ![r] = Idle],
           used' = used, deleted' \in SUBSET used
    PROVE  TradesInv'
<1> DEFINE i == req[r].id
<1>1. /\ i \in used /\ i \in Ids /\ req[r].user \in Users
  BY DEF TradesInv, TypeOK, RequestOK, Writing
<1>2. /\ \A j \in Ids : trades'[j] = IF j = i THEN row ELSE trades[j]
      /\ trades' \in [Ids -> Trade \cup {NoValue}]
      /\ author' \in [Ids -> Users \cup {NoValue}]
  BY <1>1 DEF TradesInv, TypeOK
<1>3. /\ req' \in [Requests -> RequestRecord]
      /\ \A s \in Requests : Writing(s)' => s # r /\ Writing(s) /\ req'[s] = req[s]
  BY EndingKeepsRequests DEF TradesInv
<1> HIDE DEF i
<1>4. TypeOK'
  BY <1>1, <1>2, <1>3 DEF TradesInv, TypeOK, RequestOK, Writing
<1>5. PnlIsOfItsRow'
  BY <1>2 DEF TradesInv, PnlIsOfItsRow
<1>6. WrittenByOwner'
  BY <1>1, <1>2 DEF TradesInv, TypeOK, WrittenByOwner, i
<1>7. CopiesAreOwn'
  <2> SUFFICES ASSUME NEW s \in Requests, Writing(s)'
               PROVE  /\ req'[s].copy.user = req'[s].user
                      /\ trades'[req'[s].id] # NoValue
                           => trades'[req'[s].id].user = req'[s].user
    BY DEF CopiesAreOwn
  <2>1. Writing(s) /\ req'[s] = req[s] /\ req[s].id \in Ids
    BY <1>3 DEF TradesInv, TypeOK, RequestOK, Writing
  <2>2. CASE req[s].id = i
    BY <1>2, <2>1, <2>2 DEF TradesInv, CopiesAreOwn, WritersAgree, i
  <2>3. CASE req[s].id # i
    BY <1>2, <2>1, <2>3 DEF TradesInv, CopiesAreOwn
  <2> QED
    BY <2>2, <2>3
<1>8. WritersAgree'
  BY <1>3 DEF TradesInv, WritersAgree
<1> QED
  BY <1>4, <1>5, <1>6, <1>7, <1>8 DEF TradesInv

-----------------------------------------------------------------------------
LEMMA InitTradesInv == Init => TradesInv
  BY IdleRequestTyped
  DEF Init, TradesInv, TypeOK, RequestOK, PnlIsOfItsRow, WrittenByOwner, CopiesAreOwn,
      WritersAgree, Writing

LEMMA CreateKeeps ==
    ASSUME TradesInv, NEW r \in Requests, NEW u \in Users, NEW f \in Forms, Create(r, u, f)
    PROVE  TradesInv'
<1> DEFINE row == [form |-> f, user |-> u, pnl |-> realized_pnl(f)]
<1>1. PICK i \in FreshIds : /\ trades' = [trades EXCEPT ![i] = row]
                            /\ used' = used \cup {i}
                            /\ author' = [author EXCEPT ![i] = u]
  BY DEF Create
<1>2. UNCHANGED <<deleted, req>> /\ i \in Ids /\ i \notin used
  BY <1>1 DEF Create, FreshIds
<1>3. row \in Trade /\ row # NoValue
      /\ row.user = u /\ row.form = f /\ row.pnl = realized_pnl(f)
  BY RowTyped
<1> HIDE DEF row
<1>4. \A j \in Ids : trades'[j] = IF j = i THEN row ELSE trades[j]
  BY <1>1, <1>2 DEF TradesInv, TypeOK
<1>5. TypeOK'
  BY <1>1, <1>2, <1>3 DEF TradesInv, TypeOK, RequestOK
<1>6. PnlIsOfItsRow' /\ WrittenByOwner'
  BY <1>1, <1>2, <1>3, <1>4 DEF TradesInv, TypeOK, PnlIsOfItsRow, WrittenByOwner
<1>7. CopiesAreOwn' /\ WritersAgree'
  <2>1. \A s \in Requests : Writing(s) => req[s].id \in Ids /\ req[s].id # i
    BY <1>2 DEF TradesInv, TypeOK, RequestOK, Writing
  <2> QED
    BY <1>2, <1>4, <2>1 DEF TradesInv, CopiesAreOwn, WritersAgree, Writing
<1> QED
  BY <1>5, <1>6, <1>7 DEF TradesInv

LEMMA LoadKeeps ==
    ASSUME TradesInv, NEW r \in Requests, NEW u \in Users, NEW i \in Ids,
           NEW k \in {"update", "delete"}, Load(r, u, i, k)
    PROVE  TradesInv'
<1> DEFINE q == [pc |-> "write", kind |-> k, user |-> u, id |-> i, copy |-> trades[i]]
<1>1. /\ UNCHANGED <<trades, used, deleted, author>>
      /\ req' = [req EXCEPT ![r] = q]
      /\ trades[i] # NoValue /\ trades[i].user = u
  BY DEF Load, Found
<1>2. trades[i] \in Trade /\ i \in used
  BY <1>1 DEF TradesInv, TypeOK
<1>3. q \in RequestRecord /\ RequestOK(q)
  BY <1>2 DEF RequestRecord, RequestOK
<1>4. /\ q.pc = "write" /\ q.user = u /\ q.id = i /\ q.copy = trades[i]
      /\ \A s \in Requests : req'[s] = IF s = r THEN q ELSE req[s]
  BY <1>1 DEF TradesInv, TypeOK
<1> HIDE DEF q
<1>5. TypeOK'
  <2>1. req' \in [Requests -> RequestRecord]
    BY <1>1, <1>3 DEF TradesInv, TypeOK
  <2>2. \A s \in Requests : RequestOK(req[s])'
    BY <1>1, <1>3, <1>4 DEF TradesInv, TypeOK, RequestOK
  <2> QED
    BY <1>1, <2>1, <2>2 DEF TradesInv, TypeOK
<1>6. PnlIsOfItsRow' /\ WrittenByOwner'
  BY <1>1 DEF TradesInv, PnlIsOfItsRow, WrittenByOwner
<1>7. CopiesAreOwn' /\ WritersAgree'
  BY <1>1, <1>4 DEF TradesInv, CopiesAreOwn, WritersAgree, Writing
<1> QED
  BY <1>5, <1>6, <1>7 DEF TradesInv

LEMMA UpdateKeeps ==
    ASSUME TradesInv, NEW r \in Requests, NEW f \in Forms, Update(r, f)
    PROVE  TradesInv'
<1> DEFINE row == Filled(f, req[r].copy)
<1>1. /\ Writing(r)
      /\ trades' = [trades EXCEPT ![req[r].id] = row]
      /\ author' = [author EXCEPT ![req[r].id] = req[r].user]
      /\ req' = [req EXCEPT ![r] = Idle]
      /\ UNCHANGED <<used, deleted>>
  BY DEF Update, At, Writing
<1>2. req[r].user \in Users /\ req[r].copy.user = req[r].user
  BY <1>1 DEF TradesInv, TypeOK, RequestOK, CopiesAreOwn, Writing
<1>3. row \in Trade /\ row # NoValue
      /\ row.user = req[r].user /\ row.pnl = realized_pnl(row.form)
  BY <1>2, RowTyped DEF Filled
<1>4. deleted \subseteq used
  BY DEF TradesInv, TypeOK
<1> HIDE DEF row
<1> QED
  BY <1>1, <1>3, <1>4, WriteKeeps

LEMMA DeleteKeeps ==
    ASSUME TradesInv, NEW r \in Requests, Delete(r)
    PROVE  TradesInv'
<1>1. /\ Writing(r)
      /\ trades' = [trades EXCEPT ![req[r].id] = NoValue]
      /\ deleted' = deleted \cup {req[r].id}
      /\ req' = [req EXCEPT ![r] = Idle]
      /\ UNCHANGED <<used, author>>
  BY DEF Delete, At, Writing
<1>2. deleted' \in SUBSET used
  BY <1>1 DEF TradesInv, TypeOK, RequestOK, Writing
<1> QED
  BY <1>1, <1>2, WriteKeeps

LEMMA LeaveKeeps ==
    ASSUME TradesInv, NEW r \in Requests, Leave(r)
    PROVE  TradesInv'
<1>1. /\ UNCHANGED <<trades, used, deleted, author>>
      /\ req' = [req EXCEPT ![r] = Idle]
  BY DEF Leave
<1>2. /\ req' \in [Requests -> RequestRecord]
      /\ \A s \in Requests : Writing(s)' => s # r /\ Writing(s) /\ req'[s] = req[s]
  BY <1>1, EndingKeepsRequests DEF TradesInv
<1>3. TypeOK'
  BY <1>1, <1>2 DEF TradesInv, TypeOK, RequestOK, Writing
<1>4. PnlIsOfItsRow' /\ WrittenByOwner' /\ CopiesAreOwn' /\ WritersAgree'
  BY <1>1, <1>2 DEF TradesInv, PnlIsOfItsRow, WrittenByOwner, CopiesAreOwn, WritersAgree
<1> QED
  BY <1>3, <1>4 DEF TradesInv

LEMMA NextTradesInv == TradesInv /\ [Next]_vars => TradesInv'
<1> SUFFICES ASSUME TradesInv, [Next]_vars PROVE TradesInv'
  OBVIOUS
<1>1. CASE Next
  <2>1. PICK r \in Requests :
          \/ \E u \in Users, f \in Forms : Create(r, u, f)
          \/ \E u \in Users, i \in Ids, k \in {"update", "delete"} : Load(r, u, i, k)
          \/ \E f \in Forms : Update(r, f)
          \/ Leave(r)
          \/ Delete(r)
    BY <1>1 DEF Next
  <2> QED
    BY <2>1, CreateKeeps, LoadKeeps, UpdateKeeps, LeaveKeeps, DeleteKeeps
<1>2. CASE UNCHANGED vars
  BY <1>2
  DEF vars, TradesInv, TypeOK, RequestOK, PnlIsOfItsRow, WrittenByOwner, CopiesAreOwn,
      WritersAgree, Writing
<1> QED
  BY <1>1, <1>2

LEMMA TradesInvHolds == Spec => []TradesInv
  BY InitTradesInv, NextTradesInv, PTL DEF Spec

-----------------------------------------------------------------------------
(* The tables and the requests keep their types; every row has a key that  *)
(* was given out.                                                          *)
THEOREM TradesTyped == Spec => []TypeOK
<1>1. TradesInv => TypeOK
  BY DEF TradesInv
<1> QED
  BY TradesInvHolds, <1>1, PTL

(* No interleaving of creations, edits and deletions leaves a row with the *)
(* outcome of another write.                                               *)
THEOREM OutcomesBelong == Spec => []PnlIsOfItsRow
<1>1. TradesInv => PnlIsOfItsRow
  BY DEF TradesInv
<1> QED
  BY TradesInvHolds, <1>1, PTL

(* A row is only ever written by requests of the user it belongs to, also  *)
(* when an edit brings back a row that was deleted meanwhile.              *)
THEOREM OwnersWrite == Spec => []WrittenByOwner
<1>1. TradesInv => WrittenByOwner
  BY DEF TradesInv
<1> QED
  BY TradesInvHolds, <1>1, PTL

(***************************************************************************)
(* UserProfiles.                                                           *)
(***************************************************************************)
(* Once the handler has read or made the profile, it is there for good.    *)
ReadMeansThere ==
    \A r \in Requests :
        /\ serving[r].pc # "idle" => serving[r].user \in Users
        /\ serving[r].pc \in {"saving", "form"} => profile[serving[r].user] # NoValue

ProfilesInv == ProfilesTypeOK /\ ReadMeansThere

-----------------------------------------------------------------------------
LEMMA IdleThreadTyped == IdleThread \in ProfileRequest /\ IdleThread.pc = "idle"
  BY DEF IdleThread, ProfileRequest, Stages, Kinds, Stored

LEMMA InitProfilesInv == ProfilesInit => ProfilesInv
<1> SUFFICES ASSUME ProfilesInit PROVE ProfilesInv
  OBVIOUS
<1>1. /\ account \in [Users -> Stored \cup {NoValue}]
      /\ profile \in [Users -> Stored \cup {NoValue}]
      /\ saved \in [Users -> Stored \cup {NoValue}]
  BY DEF ProfilesInit, Stored
<1>2. serving \in [Requests -> ProfileRequest] /\ \A r \in Requests : serving[r].pc = "idle"
  BY IdleThreadTyped DEF ProfilesInit
<1> QED
  BY <1>1, <1>2 DEF ProfilesInv, ProfilesTypeOK, ReadMeansThere

(* A step that serves one request and never takes a profile away.          *)
LEMMA ServeKeeps ==
    ASSUME ProfilesInv, NEW r \in Requests, NEW q \in ProfileRequest,
           serving' = [serving EXCEPT ![r] = q],
           account' \in [Users -> Stored \cup {NoValue}],
           profile' \in [Users -> Stored \cup {NoValue}],
           saved' \in [Users -> Stored \cup {NoValue}],
           \A u \in Users : profile[u] # NoValue => profile'[u] # NoValue,
           q.pc = "saving" => q.read # NoValue,
           q.pc # "idle" => q.user \in Users,
           q.pc \in {"saving", "form"} => profile'[q.user] # NoValue
    PROVE  ProfilesInv'
<1>1. /\ serving' \in [Requests -> ProfileRequest]
      /\ \A s \in Requests : serving'[s] = IF s = r THEN q ELSE serving[s]
  BY DEF ProfilesInv, ProfilesTypeOK
<1>2. ProfilesTypeOK'
  BY <1>1 DEF ProfilesInv, ProfilesTypeOK
<1>3. ReadMeansThere'
  BY <1>1 DEF ProfilesInv, ReadMeansThere
<1> QED
  BY <1>2, <1>3 DEF ProfilesInv

LEMMA CreateUserKeeps == ASSUME ProfilesInv, NEW u \in Users, CreateUser(u) PROVE ProfilesInv'
<1>1. /\ account' = [account EXCEPT ![u] = Blank] /\ profile' = [profile EXCEPT ![u] = Blank]
      /\ UNCHANGED <<saved, serving>> /\ Blank \in Stored /\ Blank # NoValue
  BY UserProfilesAssumption DEF CreateUser, Stored
<1>2. \A v \in Users : profile[v] # NoValue => profile'[v] # NoValue
  BY <1>1 DEF ProfilesInv, ProfilesTypeOK
<1>3. ProfilesTypeOK'
  BY <1>1 DEF ProfilesInv, ProfilesTypeOK
<1>4. ReadMeansThere'
  BY <1>1, <1>2 DEF ProfilesInv, ReadMeansThere
<1> QED
  BY <1>3, <1>4 DEF ProfilesInv

LEMMA LoginKeeps ==
    ASSUME ProfilesInv, NEW r \in Requests, NEW u \in Users, Login(r, u) PROVE ProfilesInv'
<1> DEFINE q == [IdleThread EXCEPT !.pc = "signal", !.user = u]
<1>1. q \in ProfileRequest /\ q.pc = "signal" /\ q.user = u
  BY DEF IdleThread, ProfileRequest, Stages, Kinds, Stored
<1>2. serving' = [serving EXCEPT ![r] = q] /\ UNCHANGED <<account, profile, saved>>
  BY DEF Login
<1> HIDE DEF q
<1> QED
  BY <1>1, <1>2, ServeKeeps DEF ProfilesInv, ProfilesTypeOK

LEMMA PostKeeps ==
    ASSUME ProfilesInv, NEW r \in Requests, NEW u \in Users, NEW k \in {"profile", "edit"},
           NEW v \in Values, Post(r, u, k, v)
    PROVE  ProfilesInv'
<1> DEFINE q == [pc |-> "page", kind |-> k, user |-> u, value |-> v,
                 loaded |-> profile[u], read |-> NoValue]
<1>1. q \in ProfileRequest /\ q.pc = "page" /\ q.user = u
  BY DEF ProfilesInv, ProfilesTypeOK, ProfileRequest, Stages, Kinds, Stored
<1>2. serving' = [serving EXCEPT ![r] = q] /\ UNCHANGED <<account, profile, saved>>
  BY DEF Post
<1> HIDE DEF q
<1> QED
  BY <1>1, <1>2, ServeKeeps DEF ProfilesInv, ProfilesTypeOK

LEMMA SaveAccountKeeps == ASSUME ProfilesInv, NEW r \in Requests, SaveAccount(r) PROVE ProfilesInv'
<1> DEFINE q == [serving[r] EXCEPT !.pc = "signal"]
<1>1. serving[r] \in ProfileRequest /\ serving[r].user \in Users /\ serving[r].value \in Stored
  BY DEF SaveAccount, ProfilesInv, ProfilesTypeOK, ReadMeansThere, ProfileRequest
<1>2. q \in ProfileRequest /\ q.pc = "signal" /\ q.user = serving[r].user
  BY <1>1 DEF ProfileRequest, Stages
<1>3. /\ serving' = [serving EXCEPT ![r] = q] /\ UNCHANGED <<profile, saved>>
      /\ account' = [account EXCEPT ![serving[r].user] = serving[r].value]
  BY DEF SaveAccount
<1>4. account' \in [Users -> Stored \cup {NoValue}]
  BY <1>1, <1>3 DEF ProfilesInv, ProfilesTypeOK
<1> HIDE DEF q
<1> QED
  BY <1>1, <1>2, <1>3, <1>4, ServeKeeps DEF ProfilesInv, ProfilesTypeOK

LEMMA ReadOrCreateTyped ==
    ASSUME ProfilesInv, NEW u \in Users
    PROVE  ReadOrCreate(u) \in Stored /\ ReadOrCreate(u) # NoValue
  BY UserProfilesAssumption DEF ProfilesInv, ProfilesTypeOK, ReadOrCreate, Stored

(* Writing a profile keeps the table's type and every profile there.       *)
LEMMA ProfileWritten ==
    ASSUME ProfilesInv, NEW u \in Users, NEW v \in Stored, profile' = [profile EXCEPT ![u] = v]
    PROVE  /\ profile' \in [Users -> Stored \cup {NoValue}]
           /\ \A w \in Users : profile[w] # NoValue => profile'[w] # NoValue
           /\ profile'[u] = v /\ v # NoValue
  BY UserProfilesAssumption DEF ProfilesInv, ProfilesTypeOK

LEMMA SignalReadsKeeps == ASSUME ProfilesInv, NEW r \in Requests, SignalReads(r) PROVE ProfilesInv'
<1> DEFINE u == serving[r].user
           v == ReadOrCreate(u)
           q == [serving[r] EXCEPT !.pc = "saving", !.read = v]
<1>1. serving[r] \in ProfileRequest /\ u \in Users
  BY DEF SignalReads, ProfilesInv, ProfilesTypeOK, ReadMeansThere
<1>2. v \in Stored /\ v # NoValue
  BY <1>1, ReadOrCreateTyped
<1>3. /\ profile' = [profile EXCEPT ![u] = v] /\ serving' = [serving EXCEPT ![r] = q]
      /\ UNCHANGED <<account, saved>>
  BY DEF SignalReads
<1> HIDE DEF v
<1>4. q \in ProfileRequest /\ q.pc = "saving" /\ q.user = u /\ q.read = v
  BY <1>1, <1>2 DEF ProfileRequest, Stages
<1> HIDE DEF q, u
<1> QED
  BY <1>1, <1>2, <1>3, <1>4, ProfileWritten, ServeKeeps DEF ProfilesInv, ProfilesTypeOK

LEMMA SignalSavesKeeps == ASSUME ProfilesInv, NEW r \in Requests, SignalSaves(r) PROVE ProfilesInv'
<1> DEFINE u == serving[r].user
           v == serving[r].read
           q == IF serving[r].kind = "login" THEN IdleThread ELSE [serving[r] EXCEPT !.pc = "form"]
<1>1. /\ serving[r] \in ProfileRequest /\ u \in Users /\ v \in Stored
  BY DEF SignalSaves, ProfilesInv, ProfilesTypeOK, ReadMeansThere, ProfileRequest
<1>2. /\ profile' = [profile EXCEPT ![u] = v] /\ serving' = [serving EXCEPT ![r] = q]
      /\ UNCHANGED <<account, saved>>
  BY DEF SignalSaves, HandlerProfile
<1>3. q \in ProfileRequest /\ q.pc \in {"idle", "form"} /\ (q.pc = "form" => q.user = u)
  BY <1>1, IdleThreadTyped DEF ProfileRequest, Stages
<1> HIDE DEF q, u, v
<1> QED
  BY <1>1, <1>2, <1>3, ProfileWritten, ServeKeeps DEF ProfilesInv, ProfilesTypeOK

LEMMA SaveFormKeeps == ASSUME ProfilesInv, NEW r \in Requests, SaveForm(r) PROVE ProfilesInv'
<1> DEFINE u == serving[r].user
           v == serving[r].value
<1>1. u \in Users /\ v \in Stored
  BY DEF SaveForm, ProfilesInv, ProfilesTypeOK, ReadMeansThere, ProfileRequest
<1>2. /\ profile' = [profile EXCEPT ![u] = v] /\ saved' = [saved EXCEPT ![u] = v]
      /\ serving' = [serving EXCEPT ![r] = IdleThread] /\ UNCHANGED account
  BY DEF SaveForm
<1> HIDE DEF u, v
<1>3. saved' \in [Users -> Stored \cup {NoValue}]
  BY <1>1, <1>2 DEF ProfilesInv, ProfilesTypeOK
<1> QED
  BY <1>1, <1>2, <1>3, IdleThreadTyped, ProfileWritten, ServeKeeps DEF ProfilesInv, ProfilesTypeOK

LEMMA SaveFormFailsKeeps == ASSUME ProfilesInv, NEW r \in Requests, SaveFormFails(r) PROVE ProfilesInv'
<1>1. serving' = [serving EXCEPT ![r] = IdleThread] /\ UNCHANGED <<account, profile, saved>>
  BY DEF SaveFormFails
<1> QED
  BY <1>1, IdleThreadTyped, ServeKeeps DEF ProfilesInv, ProfilesTypeOK

LEMMA NextProfilesInv == ProfilesInv /\ [ProfilesNext]_profileVars => ProfilesInv'
<1> SUFFICES ASSUME ProfilesInv, [ProfilesNext]_profileVars PROVE ProfilesInv'
  OBVIOUS
<1>1. CASE UNCHANGED profileVars
  BY <1>1 DEF profileVars, ProfilesInv, ProfilesTypeOK, ReadMeansThere
<1> QED
  BY <1>1, CreateUserKeeps, LoginKeeps, PostKeeps, SaveAccountKeeps, SignalReadsKeeps,
     SignalSavesKeeps, SaveFormKeeps, SaveFormFailsKeeps DEF ProfilesNext

LEMMA ProfilesInvHolds == ProfilesSpec => []ProfilesInv
  BY InitProfilesInv, NextProfilesInv, PTL DEF ProfilesSpec

-----------------------------------------------------------------------------
(* The tables and the requests keep their types.                           *)
THEOREM ProfilesTyped == ProfilesSpec => []ProfilesTypeOK
<1>1. ProfilesInv => ProfilesTypeOK
  BY DEF ProfilesInv
<1> QED
  BY ProfilesInvHolds, <1>1, PTL

(* However requests overlap, whoever was served has a profile.             *)
THEOREM ServedHaveProfiles == ProfilesSpec => ServedUserHasProfile
<1>1. ASSUME ProfilesInv, ProfilesNext, NEW r \in Requests, serving[r].pc # "idle", serving'[r].pc = "idle"
      PROVE  profile'[serving[r].user] # NoValue
  <2>1. serving \in [Requests -> ProfileRequest]
    BY <1>1 DEF ProfilesInv, ProfilesTypeOK
  <2>2. CASE SignalSaves(r)
    <3>1. /\ serving[r].pc = "saving" /\ serving[r].user \in Users /\ serving[r].read \in Stored
          /\ profile' = [profile EXCEPT ![serving[r].user] = serving[r].read]
      BY <1>1, <2>2
      DEF SignalSaves, HandlerProfile, ProfilesInv, ProfilesTypeOK, ReadMeansThere, ProfileRequest
    <3> QED
      BY <1>1, <3>1, ProfileWritten
  <2>3. CASE SaveForm(r)
    <3>1. /\ serving[r].user \in Users /\ serving[r].value \in Stored
          /\ profile' = [profile EXCEPT ![serving[r].user] = serving[r].value]
      BY <1>1, <2>3 DEF SaveForm, ProfilesInv, ProfilesTypeOK, ReadMeansThere, ProfileRequest
    <3> QED
      BY <1>1, <3>1, ProfileWritten
  <2>4. CASE SaveFormFails(r)
    BY <1>1, <2>4 DEF SaveFormFails, ProfilesInv, ReadMeansThere
  <2>5. ASSUME ~ SignalSaves(r), ~ SaveForm(r), ~ SaveFormFails(r) PROVE FALSE
    <3>1. ASSUME NEW s \in Requests, NEW q, serving' = [serving EXCEPT ![s] = q],
                 s # r \/ q.pc # "idle"
          PROVE  FALSE
      BY <1>1, <2>1, <3>1
    <3>2. ASSUME NEW u \in Users, CreateUser(u) PROVE FALSE
      BY <1>1, <3>2 DEF CreateUser
    <3>3. ASSUME NEW s \in Requests, NEW u \in Users, Login(s, u) PROVE FALSE
      BY <3>1, <3>3 DEF Login, IdleThread
    <3>4. ASSUME NEW s \in Requests, NEW u \in Users, NEW k \in {"profile", "edit"},
                 NEW v \in Values, Post(s, u, k, v)
          PROVE  FALSE
      BY <3>1, <3>4 DEF Post
    <3>5. ASSUME NEW s \in Requests, SaveAccount(s) PROVE FALSE
      BY <2>1, <3>1, <3>5 DEF SaveAccount, ProfileRequest
    <3>6. ASSUME NEW s \in Requests, SignalReads(s) PROVE FALSE
      BY <2>1, <3>1, <3>6 DEF SignalReads, ProfileRequest
    <3>7. ASSUME NEW s \in Requests, SignalSaves(s) \/ SaveForm(s) \/ SaveFormFails(s)
          PROVE  FALSE
      <4>1. s # r
        BY <2>5, <3>7
      <4> QED
        BY <3>1, <3>7, <4>1 DEF SignalSaves, SaveForm, SaveFormFails
    <3> QED
      BY <1>1, <3>2, <3>3, <3>4, <3>5, <3>6, <3>7 DEF ProfilesNext
  <2> QED
    BY <2>2, <2>3, <2>4, <2>5
<1>2. ProfilesInv /\ [ProfilesNext]_profileVars =>
        [\A r \in Requests :
           serving[r].pc # "idle" /\ serving'[r].pc = "idle" => profile'[serving[r].user] # NoValue]_profileVars
  BY <1>1
<1> QED
  BY ProfilesInvHolds, <1>2, PTL DEF ProfilesSpec, ServedUserHasProfile


(***************************************************************************)
(* MCRecords: requests for profiles served in turn.                        *)
(***************************************************************************)
Busy == {r \in Requests : serving[r].pc # "idle"}

(* One request is served at a time, so the handler saves the profile as it *)
(* is; a user with a saved profile has an account, so that no new account  *)
(* resets the profile.                                                     *)
ServedInTurn ==
    /\ ProfilesInv
    /\ IsFiniteSet(Busy)
    /\ \A r, s \in Busy : r = s
    /\ \A r \in Busy : account[serving[r].user] # NoValue
    /\ \A r \in Requests :
          serving[r].pc = "saving" => serving[r].read = profile[serving[r].user]
    /\ \A u \in Users : saved[u] # NoValue => account[u] # NoValue /\ profile[u] = saved[u]

TurnInv == instance = FormsInTurn => ServedInTurn

(* The bound of one request in service leaves no second one.               *)
LEMMA OneIsBusy ==
    ASSUME NEW S, IsFiniteSet(S), Cardinality(S) <= 1
    PROVE  \A r, s \in S : r = s
<1> SUFFICES ASSUME NEW r \in S, NEW s \in S, r # s PROVE FALSE
  OBVIOUS
<1>1. IsFiniteSet({r}) /\ Cardinality({r}) = 1
  BY FS_Singleton
<1>2. Cardinality({r} \cup {s}) = Cardinality({r}) + 1
  BY <1>1, FS_AddElement
<1>3. {r} \cup {s} \in SUBSET S
  OBVIOUS
<1>4. Cardinality({r} \cup {s}) <= Cardinality(S)
  BY <1>3, FS_Subset
<1>5. Cardinality(S) \in Nat
  BY FS_CardinalityType
<1> QED
  BY <1>1, <1>2, <1>4, <1>5

(* What a step does to the rows and the requests that matters in turn.     *)
LEMMA TurnStep ==
    ASSUME ServedInTurn, ProfilesInv',
           NEW r \in Requests, NEW q, serving' = [serving EXCEPT ![r] = q],
           Cardinality(Busy') <= 1,
           \A u \in Users : account[u] # NoValue => account'[u] # NoValue,
           q.pc # "idle" => account'[q.user] # NoValue,
           q.pc = "saving" => q.read = profile'[q.user],
           r \notin Busy => profile' = profile,
           \A u \in Users :
              saved'[u] # NoValue => account'[u] # NoValue /\ profile'[u] = saved'[u]
    PROVE  ServedInTurn'
<1>1. \A s \in Requests : serving'[s] = IF s = r THEN q ELSE serving[s]
  BY DEF ServedInTurn, ProfilesInv, ProfilesTypeOK
<1>2. Busy' \subseteq Busy \cup {r}
  BY <1>1 DEF Busy
<1>3. IsFiniteSet(Busy')
  <2>1. IsFiniteSet(Busy \cup {r})
    BY FS_AddElement DEF ServedInTurn
  <2>2. Busy' \in SUBSET (Busy \cup {r})
    BY <1>2
  <2> QED
    BY <2>1, <2>2, FS_Subset
<1>4. \A s, t \in Busy' : s = t
  BY <1>3, OneIsBusy
<1>5. \A s \in Busy' : account'[serving'[s].user] # NoValue
  BY <1>1 DEF Busy, ServedInTurn, ProfilesInv, ReadMeansThere
<1>6. ASSUME NEW s \in Requests, serving'[s].pc = "saving"
      PROVE  serving'[s].read = profile'[serving'[s].user]
  <2>1. CASE s = r
    BY <1>1, <1>6, <2>1
  <2>2. CASE s # r
    <3>1. s \in Busy /\ serving'[s] = serving[s]
      BY <1>1, <1>6, <2>2 DEF Busy
    <3>2. r \notin Busy
      BY <2>2, <3>1 DEF ServedInTurn
    <3> QED
      BY <1>6, <3>1, <3>2 DEF ServedInTurn
  <2> QED
    BY <2>1, <2>2
<1> QED
  BY <1>3, <1>4, <1>5, <1>6 DEF ServedInTurn

LEMMA ProfilesMoveKeepsTurn ==
    ASSUME ServedInTurn, ProfilesNext, Cardinality(Busy') <= 1
    PROVE  ServedInTurn'
<1>1. ProfilesInv'
  BY NextProfilesInv DEF ServedInTurn
<1>2. /\ account \in [Users -> Stored \cup {NoValue}]
      /\ profile \in [Users -> Stored \cup {NoValue}]
      /\ saved \in [Users -> Stored \cup {NoValue}]
      /\ serving \in [Requests -> ProfileRequest]
      /\ NoValue \notin Stored
  BY UserProfilesAssumption DEF ServedInTurn, ProfilesInv, ProfilesTypeOK
<1>3. ASSUME NEW u \in Users, CreateUser(u) PROVE ServedInTurn'
  <2>1. /\ account[u] = NoValue /\ account' = [account EXCEPT ![u] = Blank]
        /\ profile' = [profile EXCEPT ![u] = Blank] /\ UNCHANGED <<saved, serving>>
        /\ Blank # NoValue
    BY <1>2, <1>3 DEF CreateUser, Stored
  <2>2. Busy' = Busy
    BY <2>1 DEF Busy
  <2>3. \A w \in Users : account[w] # NoValue => /\ w # u /\ account'[w] = account[w]
                                                 /\ profile'[w] = profile[w]
    BY <1>2, <2>1
  <2>4. \A r \in Busy : serving[r].user \in Users /\ account[serving[r].user] # NoValue
    BY DEF ServedInTurn, ProfilesInv, ReadMeansThere, Busy
  <2>5. \A r \in Requests : serving[r].pc = "saving" => r \in Busy
    BY DEF Busy
  <2> QED
    BY <1>1, <2>1, <2>2, <2>3, <2>4, <2>5 DEF ServedInTurn
<1>4. ASSUME NEW r \in Requests, NEW u \in Users, Login(r, u) PROVE ServedInTurn'
  <2> DEFINE q == [IdleThread EXCEPT !.pc = "signal", !.user = u]
  <2>1. q.pc = "signal" /\ q.user = u
    BY DEF IdleThread
  <2>2. /\ serving' = [serving EXCEPT ![r] = q] /\ UNCHANGED <<account, profile, saved>>
        /\ account[u] # NoValue
    BY <1>4 DEF Login
  <2> HIDE DEF q
  <2>3. \A w \in Users : saved'[w] # NoValue => account'[w] # NoValue /\ profile'[w] = saved'[w]
    BY <2>2 DEF ServedInTurn
  <2> QED
    BY <1>1, <2>1, <2>2, <2>3, TurnStep
<1>5. ASSUME NEW r \in Requests, NEW u \in Users, NEW k \in {"profile", "edit"},
             NEW v \in Values, Post(r, u, k, v)
      PROVE  ServedInTurn'
  <2> DEFINE q == [pc |-> "page", kind |-> k, user |-> u, value |-> v,
                   loaded |-> profile[u], read |-> NoValue]
  <2>1. q.pc = "page" /\ q.user = u
    OBVIOUS
  <2>2. /\ serving' = [serving EXCEPT ![r] = q] /\ UNCHANGED <<account, profile, saved>>
        /\ account[u] # NoValue
    BY <1>5 DEF Post
  <2> HIDE DEF q
  <2>3. \A w \in Users : saved'[w] # NoValue => account'[w] # NoValue /\ profile'[w] = saved'[w]
    BY <2>2 DEF ServedInTurn
  <2> QED
    BY <1>1, <2>1, <2>2, <2>3, TurnStep
<1>6. ASSUME NEW r \in Busy
      PROVE  /\ r \in Requests /\ serving[r] \in ProfileRequest /\ serving[r].user \in Users
             /\ account[serving[r].user] # NoValue /\ serving[r].value \in Stored
  BY <1>2 DEF Busy, ServedInTurn, ProfilesInv, ReadMeansThere, ProfileRequest
<1>7. ASSUME NEW r \in Requests, SaveAccount(r) PROVE ServedInTurn'
  <2> DEFINE q == [serving[r] EXCEPT !.pc = "signal"]
             u == serving[r].user
  <2>1. r \in Busy
    BY <1>7 DEF SaveAccount, Busy
  <2>2. /\ serving' = [serving EXCEPT ![r] = q] /\ UNCHANGED <<profile, saved>>
        /\ account' = [account EXCEPT ![u] = serving[r].value]
    BY <1>7 DEF SaveAccount
  <2>3. q.pc = "signal" /\ q.user = u
    BY <1>6, <2>1 DEF ProfileRequest
  <2>4. \A w \in Users : account[w] # NoValue => account'[w] # NoValue
    BY <1>2, <1>6, <2>1, <2>2
  <2>5. account'[u] # NoValue
    BY <1>6, <2>1, <2>4
  <2> HIDE DEF q, u
  <2>6. \A w \in Users : saved'[w] # NoValue => account'[w] # NoValue /\ profile'[w] = saved'[w]
    BY <2>2, <2>4 DEF ServedInTurn
  <2> QED
    BY <1>1, <2>1, <2>2, <2>3, <2>4, <2>5, <2>6, TurnStep
<1>8. ASSUME NEW r \in Requests, SignalReads(r) PROVE ServedInTurn'
  <2> DEFINE u == serving[r].user
             v == ReadOrCreate(u)
             q == [serving[r] EXCEPT !.pc = "saving", !.read = v]
  <2>1. r \in Busy
    BY <1>8 DEF SignalReads, Busy
  <2>2. /\ serving' = [serving EXCEPT ![r] = q] /\ UNCHANGED <<account, saved>>
        /\ profile' = [profile EXCEPT ![u] = v]
    BY <1>8 DEF SignalReads
  <2>3. q.pc = "saving" /\ q.user = u /\ q.read = v
    BY <1>6, <2>1 DEF ProfileRequest
  <2>4. profile'[u] = v
    BY <1>2, <1>6, <2>1, <2>2
  <2>5. \A w \in Users : profile[w] # NoValue => profile'[w] = profile[w]
    BY <1>2, <2>2 DEF ReadOrCreate
  <2>6. account[u] # NoValue
    BY <1>6, <2>1
  <2>7. \A w \in Users : saved'[w] # NoValue => account'[w] # NoValue /\ profile'[w] = saved'[w]
    BY <2>2, <2>5 DEF ServedInTurn
  <2> HIDE DEF q, u, v
  <2> QED
    BY <1>1, <2>1, <2>2, <2>3, <2>4, <2>6, <2>7, TurnStep
<1>9. ASSUME NEW r \in Requests, SignalSaves(r) PROVE ServedInTurn'
  <2> DEFINE u == serving[r].user
             v == serving[r].read
             q == IF serving[r].kind = "login" THEN IdleThread
                  ELSE [serving[r] EXCEPT !.pc = "form"]
  <2>1. r \in Busy /\ serving[r].pc = "saving"
    BY <1>9 DEF SignalSaves, Busy
  <2>2. /\ serving' = [serving EXCEPT ![r] = q] /\ UNCHANGED <<account, saved>>
        /\ profile' = [profile EXCEPT ![u] = v]
    BY <1>9 DEF SignalSaves, HandlerProfile
  <2>3. q.pc \in {"idle", "form"} /\ (q.pc = "form" => q.user = u)
    BY <1>6, <2>1 DEF ProfileRequest, IdleThread
  <2>4. v = profile[u]
    BY <2>1 DEF ServedInTurn
  <2>5. profile' = profile
    BY <1>2, <2>2, <2>4
  <2>6. account[u] # NoValue
    BY <1>6, <2>1
  <2> HIDE DEF q, u, v
  <2>7. \A w \in Users : saved'[w] # NoValue => account'[w] # NoValue /\ profile'[w] = saved'[w]
    BY <2>2, <2>5 DEF ServedInTurn
  <2> QED
    BY <1>1, <2>1, <2>2, <2>3, <2>5, <2>6, <2>7, TurnStep
<1>10. ASSUME NEW r \in Requests, SaveForm(r) PROVE ServedInTurn'
  <2> DEFINE u == serving[r].user
             v == serving[r].value
  <2>1. r \in Busy
    BY <1>10 DEF SaveForm, Busy
  <2>2. /\ serving' = [serving EXCEPT ![r] = IdleThread] /\ UNCHANGED account
        /\ profile' = [profile EXCEPT ![u] = v] /\ saved' = [saved EXCEPT ![u] = v]
    BY <1>10 DEF SaveForm
  <2>3. IdleThread.pc = "idle"
    BY DEF IdleThread
  <2>4. account[u] # NoValue /\ u \in Users
    BY <1>6, <2>1
  <2> HIDE DEF u, v
  <2>5. \A w \in Users : saved'[w] # NoValue => account'[w] # NoValue /\ profile'[w] = saved'[w]
    BY <1>2, <2>2, <2>4 DEF ServedInTurn
  <2> QED
    BY <1>1, <2>1, <2>2, <2>3, <2>5, TurnStep
<1>11. ASSUME NEW r \in Requests, SaveFormFails(r) PROVE ServedInTurn'
  <2>1. serving' = [serving EXCEPT ![r] = IdleThread] /\ UNCHANGED <<account, profile, saved>>
    BY <1>11 DEF SaveFormFails
  <2>2. IdleThread.pc = "idle"
    BY DEF IdleThread
  <2>3. \A w \in Users : saved'[w] # NoValue => account'[w] # NoValue /\ profile'[w] = saved'[w]
    BY <2>1 DEF ServedInTurn
  <2> QED
    BY <1>1, <2>1, <2>2, <2>3, TurnStep
<1> QED
  BY <1>3, <1>4, <1>5, <1>7, <1>8, <1>9, <1>10, <1>11 DEF ProfilesNext

(* While requests are served in turn, the profile a page reported as updated *)
(* is the one stored until the next form is saved, although every login and  *)
(* every save of an account writes the whole profile row.                  *)
THEOREM SavedProfileStays == MCSpec => []SavedStays
<1>1. MCInit => TurnInv
  <2> SUFFICES ASSUME MCInit PROVE ServedInTurn
    BY DEF TurnInv
  <2>1. ProfilesInv
    BY InitProfilesInv DEF MCInit
  <2>2. /\ \A r \in Requests : serving[r].pc = "idle"
        /\ \A u \in Users : saved[u] = NoValue
    BY IdleThreadTyped DEF MCInit, ProfilesInit
  <2>3. Busy = {}
    BY <2>2 DEF Busy
  <2> QED
    BY <2>1, <2>2, <2>3, FS_EmptySet DEF ServedInTurn
<1>2. TurnInv /\ [MCNext]_<<vars, profileVars, instance>> => TurnInv'
  <2> SUFFICES ASSUME TurnInv, [MCNext]_<<vars, profileVars, instance>>,
                      instance' = FormsInTurn
               PROVE  ServedInTurn'
    BY DEF TurnInv
  <2>1. instance = FormsInTurn /\ ServedInTurn
    BY DEF MCNext, TurnInv
  <2>2. CASE UNCHANGED profileVars
    <3>1. Busy' = Busy
      BY <2>2 DEF Busy, profileVars
    <3> QED
      BY <2>1, <2>2, <3>1
      DEF profileVars, ServedInTurn, ProfilesInv, ProfilesTypeOK, ReadMeansThere
  <2>3. CASE ProfilesNext /\ Within
    <3>1. instance.width = 1
      BY <2>1 DEF FormsInTurn
    <3>2. Cardinality(Busy') <= 1
      BY <2>3, <3>1 DEF Within, Busy
    <3> QED
      BY <2>1, <2>3, <3>2, ProfilesMoveKeepsTurn
  <2> QED
    BY <2>2, <2>3 DEF MCNext, TradesMove, ProfilesMove
<1>3. TurnInv => SavedStays
  BY DEF TurnInv, ServedInTurn, SavedStays
<1> QED
  BY <1>1, <1>2, <1>3, PTL DEF MCSpec

=============================================================================
