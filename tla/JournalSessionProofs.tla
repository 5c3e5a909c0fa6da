------------------------ MODULE JournalSessionProofs ------------------------
(***************************************************************************)
(* Proofs about JournalSession, for any number of users, sessions, threads *)
(* and files, and whatever ingestion makes of a file; the last theorem is  *)
(* about the instance of MCJournalSession that serves requests in turn.    *)
(***************************************************************************)
EXTENDS MCJournalSession, FiniteSetTheorems, TLAPS

(* Rows never lose their owner, and a row being processed belongs to the   *)
(* user of the session that uploads it. *)
OwnersKnown ==
    /\ \A f \in Files : rows[f].status = "unused" <=> rows[f].owner = NoValue
    /\ \A r \in Requests :
         Uploading(req[r]) => rows[req[r].file].owner = UserOf[req[r].session]

Basics == TypeOK /\ OwnersKnown

(* The journal of a session copy came from a file of the session's user.   *)
OwnJournal(v, s) ==
    v.cleaned_data # NoValue =>
        /\ s \in Sessions
        /\ v.last_uploaded_file \in Files
        /\ v.cleaned_data = Content[v.last_uploaded_file]
        /\ rows[v.last_uploaded_file].owner = UserOf[s]

JournalsOwned ==
    /\ \A s \in Sessions : store[s] # NoValue => OwnJournal(store[s], s)
    /\ \A r \in Requests : OwnJournal(req[r].view, req[r].session)

-----------------------------------------------------------------------------
(* The operators on session copies.                                        *)
LEMMA EmptySessionType == EmptySession \in SessionData
  BY DEF EmptySession, SessionData

LEMMA IdleOK == Idle \in RequestRecord /\ RequestOK(Idle)
  BY EmptySessionType DEF Idle, RequestRecord, RequestOK, Uploading, Stages, Kinds

LEMMA PopCleanedType ==
    ASSUME NEW v \in SessionData
    PROVE  PopCleaned(v) \in SessionData /\ PopCleaned(v).cleaned_data = NoValue
  BY DEF PopCleaned, SessionData

LEMMA ClearType ==
    ASSUME NEW v \in SessionData
    PROVE  LET w == clear_excursion_state(v) IN
             /\ w \in SessionData /\ w.evidence = NoValue
             /\ w.cleaned_data = v.cleaned_data
             /\ w.last_uploaded_file = v.last_uploaded_file
  BY DEF clear_excursion_state, SessionData

LEMMA LoadBoundType ==
    ASSUME NEW v \in SessionData
    PROVE  LET w == load_bound_excursion_state(v) IN
             /\ w \in SessionData
             /\ w.evidence = NoValue \/ (Binds(v) /\ w = v)
             /\ w.cleaned_data = v.cleaned_data
             /\ w.last_uploaded_file = v.last_uploaded_file
  BY ClearType DEF load_bound_excursion_state

LEMMA IngestType ==
    ASSUME NEW v \in SessionData, NEW f \in Files, NEW w \in Ingest(v, f)
    PROVE  /\ w \in SessionData
           /\ w.cleaned_data # NoValue =>
                w.last_uploaded_file = f /\ w.cleaned_data = Content[f]
<1>1. Content[f] \in Journals \cup {NoValue}
  BY ConstantsAssumption
<1>2. CASE Content[f] # NoValue
  BY <1>1, <1>2 DEF Ingest, SessionData
<1>3. CASE Content[f] = NoValue
  <2>1. [v EXCEPT !.last_uploaded_file = f] \in SessionData
    BY DEF SessionData
  <2> QED
    BY <1>3, <2>1, PopCleanedType DEF Ingest
<1> QED
  BY <1>2, <1>3

-----------------------------------------------------------------------------
(* The steps that run the body of a view, or a block of it, on its copy.   *)
ViewStep(r) ==
    \/ UploadRefused(r) \/ UploadInvalid(r)
    \/ UploadProcess(r) \/ UploadRaises(r) \/ UploadRecover(r) \/ UploadFails(r)
    \/ LoadFile(r) \/ UploadMarketData(r) \/ Dashboard(r) \/ Inspect(r) \/ Report(r)

(* What a view may make of the journal of its copy: keep it, drop it, or   *)
(* replace it by the content of a file of the session's user. *)
Derived(w, v, s) ==
    \/ w.cleaned_data = NoValue
    \/ w.cleaned_data = v.cleaned_data /\ w.last_uploaded_file = v.last_uploaded_file
    \/ \E f \in Files : /\ rows[f].owner = UserOf[s]
                        /\ w.last_uploaded_file = f /\ w.cleaned_data = Content[f]

(* Such a step changes the record of its own thread only; the row of an    *)
(* upload remains to be settled only when the try block raised.            *)
Finished(r, q) ==
    /\ q \in RequestRecord /\ RequestOK(q)
    /\ q.pc \in {"respond", "abort", "recover"}
    /\ q.pc = "recover" => UploadRaises(r)
    /\ q.session = req[r].session /\ q.kind = req[r].kind /\ q.file = req[r].file
    /\ Derived(q.view, req[r].view, req[r].session)
    /\ req' = [req EXCEPT ![r] = q]

LEMMA FinishFinishes ==
    ASSUME TypeOK, NEW r \in Requests, NEW v \in SessionData, NEW set \in BOOLEAN,
           req[r].pc = "view", Finish(r, v, set),
           Derived(v, req[r].view, req[r].session)
    PROVE  \E q : /\ Finished(r, q) /\ q.view = v /\ q.pc = "respond"
<1> DEFINE m == req[r].modified \/ set \/ v # req[r].view
           q == [req[r] EXCEPT !.pc = "respond", !.view = v, !.modified = m]
<1>1. req[r] \in RequestRecord /\ RequestOK(req[r])
  BY DEF TypeOK
<1>2. req' = [req EXCEPT ![r] = q]
  BY DEF Finish
<1>3. m \in BOOLEAN
  BY <1>1 DEF RequestRecord
<1> HIDE DEF m
<1>4. q \in RequestRecord
  BY <1>1, <1>3 DEF RequestRecord, Stages
<1>5. /\ q.pc = "respond" /\ q.session = req[r].session /\ q.kind = req[r].kind
      /\ q.view = v /\ q.file = req[r].file
  BY <1>1 DEF RequestRecord
<1>6. RequestOK(q)
  BY <1>1, <1>5 DEF RequestOK, Uploading
<1> HIDE DEF q
<1> QED
  BY <1>2, <1>4, <1>5, <1>6 DEF Finished

LEMMA IngestionIsDerived ==
    ASSUME Basics, NEW r \in Requests, NEW f \in Files, NEW w \in Ingest(req[r].view, f),
           rows[f].owner = UserOf[req[r].session]
    PROVE  w \in SessionData /\ Derived(w, req[r].view, req[r].session)
<1>1. req[r].view \in SessionData
  BY DEF Basics, TypeOK, RequestRecord
<1> QED
  BY <1>1, IngestType DEF Derived

LEMMA ViewStepFinishes ==
    ASSUME Basics, NEW r \in Requests, ViewStep(r)
    PROVE  \E q : Finished(r, q)
<1>1. req[r] \in RequestRecord /\ RequestOK(req[r]) /\ req[r].view \in SessionData
  BY DEF Basics, TypeOK, RequestRecord
<1>2. TypeOK /\ TRUE \in BOOLEAN /\ FALSE \in BOOLEAN
  BY DEF Basics
<1>3. CASE UploadInvalid(r) \/ Report(r)
  <2>1. Finish(r, req[r].view, FALSE) /\ req[r].pc = "view"
    BY <1>3 DEF UploadInvalid, Report, At
  <2>2. Derived(req[r].view, req[r].view, req[r].session)
    BY DEF Derived
  <2> QED
    BY <1>1, <1>2, <2>1, <2>2, FinishFinishes
<1>4. CASE UploadProcess(r) \/ UploadRaises(r)
  <2> DEFINE f == req[r].file
  <2>1. f \in Files /\ rows[f].owner = UserOf[req[r].session] /\ req[r].kind = "upload"
    BY <1>1, <1>4 DEF Basics, OwnersKnown, UploadProcess, UploadRaises, RequestOK, Uploading
  <2>2. CASE UploadProcess(r)
    <3>1. PICK v \in Ingest(req[r].view, f) :
            req' = [req EXCEPT ![r] = [@ EXCEPT !.pc = "respond", !.view = v,
                      !.outcome = "processed", !.modified = TRUE]]
      BY <2>2 DEF UploadProcess
    <3>2. v \in SessionData /\ Derived(v, req[r].view, req[r].session)
      BY <2>1, IngestionIsDerived
    <3> DEFINE q == [req[r] EXCEPT !.pc = "respond", !.view = v,
                       !.outcome = "processed", !.modified = TRUE]
    <3>3. req' = [req EXCEPT ![r] = q]
      BY <3>1
    <3> HIDE DEF f
    <3>5. /\ q \in RequestRecord /\ q.pc = "respond" /\ q.session = req[r].session
          /\ q.kind = req[r].kind /\ q.view = v /\ q.file = req[r].file
      BY <1>1, <3>2 DEF RequestRecord, Stages
    <3>6. RequestOK(q)
      BY <1>1, <3>5, <2>2 DEF RequestOK, Uploading, UploadProcess
    <3> HIDE DEF q
    <3> QED
      BY <3>2, <3>3, <3>5, <3>6 DEF Finished
  <2>3. CASE UploadRaises(r)
    <3>1. PICK u \in Ingest(req[r].view, f) :
            req' = [req EXCEPT ![r] = [@ EXCEPT !.pc = "recover", !.view = PopCleaned(u),
                      !.outcome = "error",
                      !.modified = Content[f] # NoValue \/ PopCleaned(u) # req[r].view]]
      BY <2>3 DEF UploadRaises
    <3>2. PopCleaned(u) \in SessionData /\ PopCleaned(u).cleaned_data = NoValue
      BY <2>1, <3>1, IngestionIsDerived, PopCleanedType
    <3> DEFINE v == PopCleaned(u)
               m == Content[f] # NoValue \/ v # req[r].view
               q == [req[r] EXCEPT !.pc = "recover", !.view = v,
                       !.outcome = "error", !.modified = m]
    <3>3. req' = [req EXCEPT ![r] = q]
      BY <3>1
    <3>4. v \in SessionData /\ Derived(v, req[r].view, req[r].session) /\ m \in BOOLEAN
      BY <3>2 DEF Derived
    <3> HIDE DEF v, m, f
    <3>5. /\ q \in RequestRecord /\ q.pc = "recover" /\ q.session = req[r].session
          /\ q.kind = req[r].kind /\ q.view = v /\ q.file = req[r].file
      BY <1>1, <3>4 DEF RequestRecord, Stages
    <3>6. RequestOK(q)
      BY <1>1, <2>1, <3>5, <2>3 DEF RequestOK, Uploading, UploadRaises, f
    <3> HIDE DEF q
    <3> QED
      BY <2>3, <3>3, <3>4, <3>5, <3>6 DEF Finished
  <2> QED
    BY <1>4, <2>2, <2>3
<1>4a. CASE UploadRefused(r) \/ UploadRecover(r) \/ UploadFails(r)
  <2>1. PICK pc \in {"respond", "abort"} : req' = [req EXCEPT ![r].pc = pc]
    BY <1>4a DEF UploadRefused, UploadRecover, UploadFails
  <2> DEFINE q == [req[r] EXCEPT !.pc = pc]
  <2>2. req' = [req EXCEPT ![r] = q]
    BY <2>1
  <2>3. /\ q \in RequestRecord /\ q.pc = pc /\ q.session = req[r].session
        /\ q.kind = req[r].kind /\ q.view = req[r].view /\ q.file = req[r].file
    BY <1>1, <2>1 DEF RequestRecord, Stages
  <2>4. req[r].pc # "idle"
    BY <1>4a DEF UploadRefused, UploadRecover, UploadFails, At
  <2>5. RequestOK(q)
    BY <1>1, <2>1, <2>3, <2>4 DEF RequestOK, Uploading
  <2>6. Derived(q.view, req[r].view, req[r].session)
    BY <2>3 DEF Derived
  <2> HIDE DEF q
  <2> QED
    BY <2>1, <2>2, <2>3, <2>5, <2>6 DEF Finished
<1>5. CASE LoadFile(r)
  <2> DEFINE f == req[r].file
  <2>1. f \in Files /\ req[r].pc = "view"
    BY <1>1, <1>5 DEF LoadFile, At, RequestOK
  <2>2. CASE Finish(r, req[r].view, FALSE)
    <3>1. Derived(req[r].view, req[r].view, req[r].session)
      BY DEF Derived
    <3> QED
      BY <1>1, <1>2, <2>1, <2>2, <3>1, FinishFinishes
  <2>3. CASE Found(f, UserOf[req[r].session])
             /\ \E v \in Ingest(req[r].view, f) :
                  \E set \in {Content[f] # NoValue, v.last_uploaded_file = f} :
                    Finish(r, v, set)
    <3>1. PICK v \in Ingest(req[r].view, f) :
            \E set \in {Content[f] # NoValue, v.last_uploaded_file = f} : Finish(r, v, set)
      BY <2>3
    <3>4. PICK set \in BOOLEAN : Finish(r, v, set)
      BY <3>1, Zenon
    <3>2. v \in SessionData /\ Derived(v, req[r].view, req[r].session)
      BY <2>1, <2>3, IngestionIsDerived DEF Found
    <3> QED
      BY <1>2, <2>1, <3>2, <3>4, FinishFinishes
  <2> QED
    BY <1>5, <2>2, <2>3 DEF LoadFile
<1>6. CASE UploadMarketData(r)
  <2> DEFINE v == clear_excursion_state(req[r].view)
             p == PrintOf(v.cleaned_data)
             w == [v EXCEPT !.evidence = p]
  <2>1. /\ v \in SessionData /\ v.cleaned_data = req[r].view.cleaned_data
        /\ v.last_uploaded_file = req[r].view.last_uploaded_file
    BY <1>1, ClearType
  <2>2. Finish(r, v, FALSE) \/ (p # NoValue /\ Finish(r, w, TRUE))
    BY <1>6 DEF UploadMarketData
  <2>3. req[r].pc = "view"
    BY <1>6 DEF UploadMarketData, At
  <2> HIDE DEF v
  <2>4. p \in Fingerprints \cup {NoValue}
    BY <2>1, ConstantsAssumption DEF PrintOf, SessionData
  <2> HIDE DEF p
  <2>5. /\ w \in SessionData /\ w.cleaned_data = v.cleaned_data
        /\ w.last_uploaded_file = v.last_uploaded_file
    BY <2>1, <2>4 DEF SessionData
  <2> HIDE DEF w
  <2>6. Derived(v, req[r].view, req[r].session) /\ Derived(w, req[r].view, req[r].session)
    BY <2>1, <2>5 DEF Derived
  <2> QED
    BY <1>2, <2>1, <2>2, <2>3, <2>5, <2>6, FinishFinishes
<1>7. CASE Dashboard(r) \/ Inspect(r)
  <2> DEFINE v == load_bound_excursion_state(req[r].view)
  <2>1. /\ v \in SessionData /\ v.cleaned_data = req[r].view.cleaned_data
        /\ v.last_uploaded_file = req[r].view.last_uploaded_file
    BY <1>1, LoadBoundType
  <2>2. Finish(r, v, FALSE) \/ Finish(r, req[r].view, FALSE)
    BY <1>7 DEF Dashboard, Inspect
  <2>3. req[r].pc = "view"
    BY <1>7 DEF Dashboard, Inspect, At
  <2> HIDE DEF v
  <2>4. /\ Derived(v, req[r].view, req[r].session)
        /\ Derived(req[r].view, req[r].view, req[r].session)
    BY <2>1 DEF Derived
  <2> QED
    BY <1>1, <1>2, <2>1, <2>2, <2>3, <2>4, FinishFinishes
<1> QED
  BY <1>3, <1>4, <1>4a, <1>5, <1>6, <1>7 DEF ViewStep

(* Rows change their status at most, and none comes into being.            *)
RowsKept ==
    /\ rows' \in [Files -> [owner : Users \cup {NoValue}, status : Status]]
    /\ \A f \in Files : rows'[f].owner = rows[f].owner
    /\ \A f \in Files : rows'[f].status = "unused" <=> rows[f].status = "unused"

(* Refused writes are only ever counted up.                                *)
LEMMA DbErrorsCounted ==
    ASSUME TypeOK, [Next]_vars
    PROVE  dbErrors' \in 0..MaxDbErrors /\ dbErrors' >= dbErrors
<1> DEFINE Goal == dbErrors' \in 0..MaxDbErrors /\ dbErrors' >= dbErrors
<1>1. CASE Refused
  BY <1>1, ConstantsAssumption DEF Refused, TypeOK
<1>2. ASSUME UNCHANGED dbErrors PROVE Goal
  BY <1>2, ConstantsAssumption DEF TypeOK
<1> HIDE DEF Goal
<1>3. ASSUME NEW r \in Requests, Advance(r) PROVE Goal \/ Refused
  BY <1>2, <1>3 DEF Advance, UploadPending, UploadRefused, UploadInvalid, UploadProcess,
     UploadRaises, UploadRecover, UploadFails, SaveRaises, LoadFile, UploadMarketData,
     Dashboard, Inspect, Report, Respond, RespondFails, Abort
<1>4. Goal \/ Refused
  BY <1>2, <1>3 DEF Next, Begin, Logout, AdminDelete, Crash, vars
<1> QED
  BY <1>1, <1>4 DEF Goal

LEMMA ViewStepFrame ==
    ASSUME Basics, NEW r \in Requests, ViewStep(r)
    PROVE  store' = store /\ crashes' = crashes /\ RowsKept
<1>1. rows \in [Files -> [owner : Users \cup {NoValue}, status : Status]]
  BY DEF Basics, TypeOK
<1>2. CASE UploadProcess(r) \/ UploadRecover(r)
  <2>1. req[r].file \in Files
    BY <1>2 DEF UploadProcess, UploadRecover, Basics, TypeOK, RequestOK, Uploading
  <2>2. /\ UNCHANGED <<store, crashes>> /\ RowExists(req[r].file)
        /\ \E status \in {"processed", "error"} :
             rows' = [rows EXCEPT ![req[r].file].status = status]
    BY <1>2 DEF UploadProcess, UploadRecover, SaveStatus
  <2> QED
    BY <1>1, <2>1, <2>2 DEF Status, RowExists, RowsKept
<1>3. CASE UNCHANGED <<rows, store, crashes>>
  BY <1>1, <1>3 DEF RowsKept
<1> QED
  BY <1>2, <1>3 DEF Uploading, ViewStep, UploadRefused, UploadInvalid, UploadRaises, UploadFails,
     LoadFile, UploadMarketData, Dashboard, Inspect, Report

-----------------------------------------------------------------------------
(* Types and owners.                                                       *)
LEMMA InitBasics == Init => Basics
<1> SUFFICES ASSUME Init PROVE Basics
  OBVIOUS
<1>1. TypeOK
  <2>1. [owner |-> NoValue, status |-> "unused"] \in
          [owner : Users \cup {NoValue}, status : Status]
    BY DEF Status
  <2> QED
    BY <2>1, ConstantsAssumption, IdleOK, EmptySessionType DEF Init, TypeOK
<1>2. OwnersKnown
  BY DEF Init, OwnersKnown, Idle, Uploading
<1> QED
  BY <1>1, <1>2 DEF Basics

LEMMA NextBasics ==
    ASSUME Basics, [Next]_vars PROVE Basics'
<1> USE ConstantsAssumption
<1>0. /\ rows \in [Files -> [owner : Users \cup {NoValue}, status : Status]]
      /\ store \in [Sessions -> SessionData \cup {NoValue}]
      /\ req \in [Requests -> RequestRecord]
      /\ \A r \in Requests : RequestOK(req[r])
      /\ crashes \in 0..MaxCrashes
      /\ dbErrors' \in 0..MaxDbErrors
  BY DbErrorsCounted DEF Basics, TypeOK
<1>1. ASSUME NEW r \in Requests, NEW q \in RequestRecord, RequestOK(q),
             Uploading(q) => /\ Uploading(req[r])
                             /\ q.file = req[r].file /\ q.session = req[r].session,
             req' = [req EXCEPT ![r] = q], RowsKept,
             store' \in [Sessions -> SessionData \cup {NoValue}],
             crashes' = crashes
      PROVE  Basics'
  <2>1. \A t \in Requests : req'[t] = IF t = r THEN q ELSE req[t]
    BY <1>0, <1>1
  <2>2. TypeOK'
    BY <1>0, <1>1, <2>1 DEF TypeOK, RowsKept
  <2>3. \A t \in Requests : Uploading(req[t]) => req[t].file \in Files
    BY <1>0 DEF RequestOK
  <2>4. OwnersKnown'
    BY <1>1, <2>1, <2>3 DEF Basics, OwnersKnown, RowsKept
  <2> QED
    BY <2>2, <2>4 DEF Basics
<1>2. ASSUME NEW r \in Requests, NEW s \in Sessions, NEW k \in Kinds,
             NEW f \in Files \cup {NoValue}, Begin(r, s, k, f)
      PROVE  Basics'
  <2> DEFINE q == [pc |-> "view", kind |-> k, session |-> s, file |-> f,
                   outcome |-> "pending", view |-> store[s], modified |-> FALSE]
  <2>1. q \in RequestRecord /\ RequestOK(q) /\ ~Uploading(q)
    BY <1>0, <1>2 DEF Begin, RequestRecord, RequestOK, Uploading, Stages
  <2>2. req' = [req EXCEPT ![r] = q]
    BY <1>2 DEF Begin
  <2> HIDE DEF q
  <2> QED
    BY <1>0, <1>1, <1>2, <2>1, <2>2 DEF Begin, RowsKept
<1>3. ASSUME NEW r \in Requests, UploadPending(r) PROVE Basics'
  <2>1. PICK f \in Files :
          /\ rows[f].status = "unused"
          /\ rows' = [rows EXCEPT ![f] = [owner |-> UserOf[req[r].session],
                                          status |-> "pending"]]
          /\ req' = [req EXCEPT ![r] = [@ EXCEPT !.pc = "process", !.file = f]]
    BY <1>3 DEF UploadPending
  <2> DEFINE q == [req[r] EXCEPT !.pc = "process", !.file = f]
  <2>2. q \in RequestRecord /\ q.session = req[r].session /\ q.file = f /\ q.kind = req[r].kind
        /\ q.pc = "process"
    <3>1. req[r] \in RequestRecord
      BY <1>0
    <3> QED
      BY <3>1 DEF RequestRecord, Stages
  <2>3. req[r].session \in Sessions /\ UserOf[req[r].session] \in Users
    BY <1>0, <1>3 DEF UploadPending, At, RequestOK
  <2>4. RequestOK(q)
    BY <1>3, <2>2, <2>3 DEF RequestOK, Uploading, UploadPending, At
  <2>5. req' = [req EXCEPT ![r] = q]
    BY <2>1
  <2> HIDE DEF q
  <2>6. TypeOK'
    BY <1>0, <1>3, <2>1, <2>2, <2>3, <2>4, <2>5 DEF TypeOK, UploadPending, Status
  <2>7. \A t \in Requests : Uploading(req[t]) =>
          req[t].file \in Files /\ req[t].session \in Sessions /\ req[t].file # f
    BY <1>0, <2>1, <2>3 DEF RequestOK, Uploading, Basics, OwnersKnown
  <2>8. \A g \in Files : rows'[g] = IF g = f THEN [owner |-> UserOf[req[r].session],
                                                 status |-> "pending"] ELSE rows[g]
    BY <1>0, <2>1
  <2>9. \A t \in Requests : req'[t] = IF t = r THEN q ELSE req[t]
    BY <1>0, <2>5
  <2> QED
    BY <2>2, <2>3, <2>6, <2>7, <2>8, <2>9 DEF Basics, OwnersKnown
<1>4. ASSUME NEW r \in Requests, ViewStep(r) PROVE Basics'
  <2>1. PICK q : Finished(r, q)
    BY <1>4, ViewStepFinishes
  <2>2. /\ q \in RequestRecord /\ RequestOK(q) /\ req' = [req EXCEPT ![r] = q]
        /\ Uploading(q) => /\ Uploading(req[r])
                           /\ q.file = req[r].file /\ q.session = req[r].session
    BY <2>1 DEF Finished, Uploading, UploadRaises
  <2>3. store' \in [Sessions -> SessionData \cup {NoValue}] /\ crashes' = crashes /\ RowsKept
    BY <1>0, <1>4, ViewStepFrame
  <2> QED
    BY <1>1, <2>2, <2>3
<1>5. ASSUME NEW r \in Requests, Respond(r) \/ RespondFails(r) \/ Abort(r) PROVE Basics'
  <2>1. store' \in [Sessions -> SessionData \cup {NoValue}]
    <3>1. req[r].view \in SessionData
      BY <1>0 DEF RequestRecord
    <3> QED
      BY <1>0, <1>5, <3>1 DEF Respond, RespondFails, Abort, Commit
  <2>2. req' = [req EXCEPT ![r] = Idle] /\ UNCHANGED <<rows, crashes>>
    BY <1>5 DEF Respond, RespondFails, Abort
  <2>3. ~Uploading(Idle)
    BY DEF Idle, Uploading
  <2> QED
    BY <1>0, <1>1, <2>1, <2>2, <2>3, IdleOK DEF RowsKept
<1>6. ASSUME NEW s \in Sessions, Logout(s) PROVE Basics'
  BY <1>0, <1>6 DEF Logout, Basics, TypeOK, OwnersKnown
<1>7. ASSUME NEW f \in Files, AdminDelete(f) PROVE Basics'
  <2>1. \A g \in Files : /\ rows'[g].owner = rows[g].owner
                         /\ rows'[g].status = IF g = f THEN "deleted" ELSE rows[g].status
    BY <1>0, <1>7 DEF AdminDelete
  <2>2. rows' \in [Files -> [owner : Users \cup {NoValue}, status : Status]]
    BY <1>0, <1>7 DEF AdminDelete, Status
  <2>3. \A t \in Requests : Uploading(req[t]) => req[t].file \in Files
    BY <1>0 DEF RequestOK
  <2> QED
    BY <1>0, <1>7, <2>1, <2>2, <2>3 DEF AdminDelete, RowExists, Basics, TypeOK, OwnersKnown
<1>8. CASE Crash
  <2>1. TypeOK'
    BY <1>0, <1>8, IdleOK DEF Crash, TypeOK
  <2>2. OwnersKnown'
    BY <1>8 DEF Crash, Basics, OwnersKnown, Idle, Uploading
  <2> QED
    BY <2>1, <2>2 DEF Basics
<1>9. CASE UNCHANGED vars
  BY <1>9 DEF vars, Basics, TypeOK, OwnersKnown
<1>10. ASSUME NEW r \in Requests, Advance(r) PROVE Basics'
  BY <1>3, <1>4, <1>5, <1>10 DEF Advance, ViewStep
<1> QED
  BY <1>2, <1>6, <1>7, <1>8, <1>9, <1>10 DEF Next

-----------------------------------------------------------------------------
(* Whose journal a session holds.                                          *)

(* Owners, once known, stay.                                               *)
LEMMA OwnersStay ==
    ASSUME Basics, [Next]_vars, NEW f \in Files, rows[f].owner # NoValue
    PROVE  rows'[f].owner = rows[f].owner
<1>1. ASSUME NEW r \in Requests, UploadPending(r) PROVE rows'[f].owner = rows[f].owner
  BY <1>1 DEF UploadPending, Basics, OwnersKnown, TypeOK
<1>2. ASSUME NEW r \in Requests, ViewStep(r) PROVE rows'[f].owner = rows[f].owner
  BY <1>2, ViewStepFrame DEF RowsKept
<1>3. ASSUME NEW g \in Files, AdminDelete(g) PROVE rows'[f].owner = rows[f].owner
  BY <1>3 DEF AdminDelete, Basics, TypeOK
<1>4. CASE UNCHANGED rows
  BY <1>4
<1>5. ASSUME NEW r \in Requests, Advance(r) PROVE rows'[f].owner = rows[f].owner
  BY <1>1, <1>2, <1>4, <1>5 DEF Advance, ViewStep, Respond, RespondFails, Abort
<1> QED
  BY <1>3, <1>4, <1>5 DEF Next, Begin, Logout, Crash, vars

(* OwnJournal in the next state, for a value of this one.                  *)
OwnedNext(v, s) ==
    v.cleaned_data # NoValue =>
        /\ s \in Sessions
        /\ v.last_uploaded_file \in Files
        /\ v.cleaned_data = Content[v.last_uploaded_file]
        /\ rows'[v.last_uploaded_file].owner = UserOf[s]

AllOwnedNext ==
    /\ \A s \in Sessions : store'[s] # NoValue => OwnedNext(store'[s], s)
    /\ \A r \in Requests : OwnedNext(req'[r].view, req'[r].session)

LEMMA OwnJournalStays ==
    ASSUME Basics, [Next]_vars, NEW v, NEW s, OwnJournal(v, s)
    PROVE  OwnedNext(v, s)
<1>1. CASE v.cleaned_data # NoValue
  <2>1. UserOf[s] # NoValue
    BY <1>1, ConstantsAssumption DEF OwnJournal
  <2> QED
    BY <1>1, <2>1, OwnersStay DEF OwnJournal, OwnedNext
<1> QED
  BY <1>1 DEF OwnedNext

LEMMA DerivedJournalStays ==
    ASSUME Basics, [Next]_vars, NEW w, NEW v, NEW s \in Sessions,
           OwnJournal(v, s), Derived(w, v, s)
    PROVE  OwnedNext(w, s)
<1>1. OwnJournal(w, s)
  BY DEF OwnJournal, Derived
<1> QED
  BY <1>1, OwnJournalStays

LEMMA NextJournalsOwned ==
    ASSUME Basics, JournalsOwned, [Next]_vars PROVE JournalsOwned'
<1>0. /\ store \in [Sessions -> SessionData \cup {NoValue}]
      /\ req \in [Requests -> RequestRecord]
      /\ \A r \in Requests : RequestOK(req[r])
  BY DEF Basics, TypeOK
<1>1. \A s \in Sessions : store[s] # NoValue => OwnedNext(store[s], s)
  BY OwnJournalStays DEF JournalsOwned
<1>2. \A r \in Requests : OwnedNext(req[r].view, req[r].session)
  BY OwnJournalStays DEF JournalsOwned
<1>3. SUFFICES AllOwnedNext
  BY DEF JournalsOwned, OwnJournal, OwnedNext, AllOwnedNext
<1>4. OwnedNext(EmptySession, NoValue)
  BY DEF OwnedNext, EmptySession
<1>5. ASSUME NEW r \in Requests, NEW s \in Sessions, NEW k \in Kinds,
             NEW f \in Files \cup {NoValue}, Begin(r, s, k, f)
      PROVE  AllOwnedNext
  <2>1. /\ req'[r].view = store[s] /\ req'[r].session = s /\ store[s] # NoValue
        /\ store' = store /\ \A t \in Requests : t # r => req'[t] = req[t]
    BY <1>0, <1>5 DEF Begin
  <2> QED
    BY <1>1, <1>2, <2>1 DEF AllOwnedNext
<1>6. ASSUME NEW r \in Requests, UploadPending(r) PROVE AllOwnedNext
  <2>1. /\ req'[r].view = req[r].view /\ req'[r].session = req[r].session
        /\ store' = store /\ \A t \in Requests : t # r => req'[t] = req[t]
    <3>1. PICK f \in Files :
            req' = [req EXCEPT ![r] = [@ EXCEPT !.pc = "process", !.file = f]]
      BY <1>6 DEF UploadPending
    <3>2. req[r] \in RequestRecord
      BY <1>0
    <3>3. LET q == [req[r] EXCEPT !.pc = "process", !.file = f] IN
            q.view = req[r].view /\ q.session = req[r].session
      BY <3>2 DEF RequestRecord
    <3> QED
      BY <1>0, <1>6, <3>1, <3>3 DEF UploadPending
  <2> QED
    BY <1>1, <1>2, <2>1 DEF AllOwnedNext
<1>7. ASSUME NEW r \in Requests, ViewStep(r) PROVE AllOwnedNext
  <2>1. PICK q : Finished(r, q)
    BY <1>7, ViewStepFinishes
  <2>2. /\ req'[r] = q /\ q.session = req[r].session
        /\ store' = store /\ \A t \in Requests : t # r => req'[t] = req[t]
    BY <1>0, <1>7, <2>1, ViewStepFrame DEF Finished
  <2>3. req[r].session \in Sessions
    BY <1>0, <1>7 DEF RequestOK, ViewStep, UploadRefused, UploadInvalid, UploadProcess, UploadRaises,
       UploadRecover, UploadFails,
       LoadFile, UploadMarketData, Dashboard, Inspect, Report, At
  <2>4. OwnedNext(q.view, req[r].session)
    BY <2>1, <2>3, DerivedJournalStays DEF Finished, JournalsOwned
  <2> QED
    BY <1>1, <1>2, <2>2, <2>4 DEF AllOwnedNext
<1>8. ASSUME NEW r \in Requests, Respond(r) \/ RespondFails(r) \/ Abort(r) PROVE AllOwnedNext
  <2>1. /\ req'[r].view = EmptySession /\ req'[r].session = NoValue
        /\ \A t \in Requests : t # r => req'[t] = req[t]
    BY <1>0, <1>8 DEF Respond, RespondFails, Abort, Idle
  <2>2. \A s \in Sessions :
          store'[s] = store[s] \/ (s = req[r].session /\ store'[s] = req[r].view)
    BY <1>0, <1>8 DEF Respond, RespondFails, Abort, Commit
  <2> QED
    BY <1>1, <1>2, <1>4, <2>1, <2>2 DEF AllOwnedNext
<1>9. ASSUME NEW s \in Sessions, Logout(s) PROVE AllOwnedNext
  BY <1>0, <1>1, <1>2, <1>9 DEF Logout, AllOwnedNext
<1>10. CASE Crash
  BY <1>1, <1>4, <1>10 DEF Crash, Idle, AllOwnedNext
<1>11. CASE UNCHANGED <<store, req>>
  BY <1>1, <1>2, <1>11 DEF AllOwnedNext
<1>12. ASSUME NEW r \in Requests, Advance(r) PROVE AllOwnedNext
  BY <1>6, <1>7, <1>8, <1>12 DEF Advance, ViewStep
<1>13. ASSUME NEW f \in Files, AdminDelete(f) PROVE AllOwnedNext
  BY <1>11, <1>13 DEF AdminDelete
<1>14. CASE UNCHANGED vars
  BY <1>11, <1>14 DEF vars
<1> QED
  BY <1>5, <1>9, <1>10, <1>12, <1>13, <1>14 DEF Next

-----------------------------------------------------------------------------
(* Which evidence is shown.                                                *)

LEMMA NextEvidenceIsBound ==
    ASSUME Basics, EvidenceIsBound, [Next]_vars PROVE EvidenceIsBound'
<1>0. /\ req \in [Requests -> RequestRecord]
      /\ \A r \in Requests : RequestOK(req[r])
  BY DEF Basics, TypeOK
<1>1. ASSUME NEW r \in Requests, \A t \in Requests : t # r => req'[t] = req[t],
             \/ req'[r].pc # "respond"
             \/ req'[r].kind \notin {"dashboard", "inspect"}
             \/ req'[r].kind = "inspect" /\ PrintOf(req'[r].view.cleaned_data) = NoValue
             \/ req'[r].view.evidence = NoValue
             \/ /\ req'[r].view.cleaned_data # NoValue
                /\ req'[r].view.evidence = Fingerprint[req'[r].view.cleaned_data]
      PROVE  EvidenceIsBound'
  BY <1>1 DEF EvidenceIsBound, PrintOf
<1>2. ASSUME NEW r \in Requests, NEW s \in Sessions, NEW k \in Kinds,
             NEW f \in Files \cup {NoValue}, Begin(r, s, k, f)
      PROVE  EvidenceIsBound'
  BY <1>0, <1>1, <1>2 DEF Begin
<1>3. ASSUME NEW r \in Requests, UploadPending(r) PROVE EvidenceIsBound'
  <2>1. PICK f \in Files :
          req' = [req EXCEPT ![r] = [@ EXCEPT !.pc = "process", !.file = f]]
    BY <1>3 DEF UploadPending
  <2>2. req'[r].pc = "process" /\ \A t \in Requests : t # r => req'[t] = req[t]
    BY <1>0, <2>1 DEF RequestRecord
  <2> QED
    BY <1>1, <2>2
<1>4. ASSUME NEW r \in Requests, ViewStep(r), ~Dashboard(r), ~Inspect(r)
      PROVE  EvidenceIsBound'
  <2>1. req[r].kind \notin {"dashboard", "inspect"}
    BY <1>0, <1>4 DEF Uploading, ViewStep, UploadRefused, UploadInvalid, UploadProcess, UploadRaises,
       UploadRecover, UploadFails, LoadFile,
       UploadMarketData, Report, At, RequestOK
  <2>2. PICK q : Finished(r, q)
    BY <1>4, ViewStepFinishes
  <2>3. /\ req'[r].kind = req[r].kind
        /\ \A t \in Requests : t # r => req'[t] = req[t]
    BY <1>0, <2>2 DEF Finished
  <2> QED
    BY <1>1, <2>1, <2>3
<1>5. ASSUME NEW r \in Requests, Dashboard(r) \/ Inspect(r) PROVE EvidenceIsBound'
  <2> DEFINE v == req[r].view
             w == load_bound_excursion_state(v)
  <2>1. v \in SessionData
    BY <1>0 DEF RequestRecord
  <2>2. w.evidence # NoValue =>
          w.cleaned_data # NoValue /\ w.evidence = Fingerprint[w.cleaned_data]
    BY <2>1, LoadBoundType DEF Binds, PrintOf
  <2>3. \/ Finish(r, w, FALSE)
        \/ /\ req[r].kind = "inspect" /\ PrintOf(v.cleaned_data) = NoValue
           /\ Finish(r, v, FALSE)
    BY <1>5 DEF Dashboard, Inspect, At
  <2>4. ASSUME NEW u, Finish(r, u, FALSE)
        PROVE  /\ req'[r].view = u /\ req'[r].kind = req[r].kind
               /\ \A t \in Requests : t # r => req'[t] = req[t]
    BY <1>0, <2>4 DEF Finish, RequestRecord
  <2> HIDE DEF v, w
  <2> QED
    BY <1>1, <2>2, <2>3, <2>4
<1>6. ASSUME NEW r \in Requests, Respond(r) \/ RespondFails(r) \/ Abort(r) PROVE EvidenceIsBound'
  BY <1>0, <1>1, <1>6 DEF Respond, RespondFails, Abort, Idle
<1>7. CASE Crash
  BY <1>7 DEF Crash, Idle, EvidenceIsBound
<1>8. CASE UNCHANGED req
  BY <1>8 DEF EvidenceIsBound, PrintOf
<1>9. ASSUME NEW r \in Requests, Advance(r) PROVE EvidenceIsBound'
  BY <1>3, <1>4, <1>5, <1>6, <1>9 DEF Advance, ViewStep
<1> QED
  BY <1>2, <1>7, <1>8, <1>9 DEF Next, Logout, AdminDelete, vars

-----------------------------------------------------------------------------
(* The status of a file.                                                   *)

(* Every step changes the status of a row in one of these ways.            *)
StatusStep(f) ==
    \/ rows'[f] = rows[f]
    \/ rows[f].status = "unused" /\ rows'[f].status = "pending"
    \/ RowExists(f) /\ rows'[f].status = "processed" /\ Content[f] # NoValue
    \/ /\ RowExists(f) /\ rows'[f].status = "error"
       /\ \E r \in Requests : req[r].pc = "recover" /\ req[r].file = f
    \/ RowExists(f) /\ rows'[f].status = "deleted"

LEMMA StatusSteps ==
    ASSUME Basics, [Next]_vars, NEW f \in Files
    PROVE  StatusStep(f)
<1>0. rows \in [Files -> [owner : Users \cup {NoValue}, status : Status]]
  BY DEF Basics, TypeOK
<1>1. ASSUME NEW r \in Requests, UploadPending(r) PROVE StatusStep(f)
  BY <1>0, <1>1 DEF UploadPending, StatusStep
<1>2. ASSUME NEW r \in Requests, UploadProcess(r) PROVE StatusStep(f)
  <2>1. req[r].file \in Files
    BY <1>2 DEF UploadProcess, Basics, TypeOK, RequestOK, Uploading
  <2> QED
    BY <1>0, <1>2, <2>1 DEF UploadProcess, SaveStatus, StatusStep
<1>3. ASSUME NEW r \in Requests, UploadRecover(r) PROVE StatusStep(f)
  <2>1. req[r].file \in Files
    BY <1>3 DEF UploadRecover, Basics, TypeOK, RequestOK, Uploading
  <2> QED
    BY <1>0, <1>3, <2>1 DEF UploadRecover, SaveStatus, StatusStep
<1>4. ASSUME NEW g \in Files, AdminDelete(g) PROVE StatusStep(f)
  BY <1>0, <1>4 DEF AdminDelete, StatusStep
<1>5. ASSUME UNCHANGED rows PROVE StatusStep(f)
  BY <1>5 DEF StatusStep
<1>6. ASSUME NEW r \in Requests, Advance(r) PROVE StatusStep(f)
  BY <1>1, <1>2, <1>3, <1>5, <1>6 DEF Advance, UploadRefused, UploadInvalid, UploadRaises,
     UploadFails, LoadFile, UploadMarketData, Dashboard, Inspect, Report, Respond,
     RespondFails, Abort
<1> QED
  BY <1>4, <1>5, <1>6 DEF Next, Begin, Logout, Crash, vars

(* A request enters the except block only when its try block raised.       *)
LEMMA RecoverSteps ==
    ASSUME Basics, [Next]_vars, NEW r \in Requests, req'[r].pc = "recover"
    PROVE  /\ req'[r].file = req[r].file
           /\ UploadRaises(r) \/ req[r].pc = "recover"
<1> DEFINE Goal == /\ req'[r].file = req[r].file
                   /\ UploadRaises(r) \/ req[r].pc = "recover"
<1>0. req \in [Requests -> RequestRecord]
  BY DEF Basics, TypeOK
<1>1. ASSUME req'[r] = req[r] PROVE Goal
  BY <1>1
<1>2. ASSUME Crash PROVE Goal
  BY <1>2 DEF Crash, Idle
<1>3. ASSUME NEW t \in Requests, NEW s \in Sessions, NEW k \in Kinds,
             NEW f \in Files \cup {NoValue}, Begin(t, s, k, f)
      PROVE  Goal
  BY <1>0, <1>1, <1>3 DEF Begin
<1>4. ASSUME NEW t \in Requests, UploadPending(t) PROVE Goal
  BY <1>0, <1>1, <1>4 DEF UploadPending, RequestRecord
<1>5. ASSUME NEW t \in Requests, ViewStep(t) PROVE Goal
  <2>1. PICK q : Finished(t, q)
    BY <1>5, ViewStepFinishes
  <2>2. req'[r] = IF t = r THEN q ELSE req[r]
    BY <1>0, <2>1 DEF Finished
  <2> QED
    BY <1>1, <2>1, <2>2 DEF Finished
<1>6. ASSUME NEW t \in Requests, Respond(t) \/ RespondFails(t) \/ Abort(t) PROVE Goal
  BY <1>0, <1>1, <1>6 DEF Respond, RespondFails, Abort, Idle
<1> HIDE DEF Goal
<1>7. ASSUME NEW t \in Requests, Advance(t) PROVE Goal
  BY <1>4, <1>5, <1>6, <1>7 DEF Advance, ViewStep
<1>8. Goal
  BY <1>1, <1>2, <1>3, <1>7 DEF Next, Logout, AdminDelete, vars
<1> QED
  BY <1>8 DEF Goal

(* An accepted file is marked as an error, and its except block runs while *)
(* its row is there, only after the database refused a write.              *)
Excused(f) == Content[f] = NoValue \/ dbErrors > 0

ErrorsExplained ==
    /\ \A f \in Files : rows[f].status = "error" => Excused(f)
    /\ \A r \in Requests :
         req[r].pc = "recover" /\ RowExists(req[r].file) => Excused(req[r].file)

LEMMA NextErrorsExplained ==
    ASSUME Basics, ErrorsExplained, [Next]_vars PROVE ErrorsExplained'
<1> USE ConstantsAssumption
<1>0. /\ dbErrors \in Nat /\ dbErrors' \in Nat /\ dbErrors' >= dbErrors
      /\ \A r \in Requests : RequestOK(req[r])
  BY DbErrorsCounted DEF Basics, TypeOK
<1>1. ASSUME NEW f, Excused(f) PROVE Excused(f)'
  BY <1>0, <1>1 DEF Excused
<1>2. ASSUME NEW f \in Files, rows'[f].status = "error" PROVE Excused(f)'
  BY <1>1, <1>2, StatusSteps DEF StatusStep, ErrorsExplained
<1>3. ASSUME NEW r \in Requests, (req[r].pc = "recover" /\ RowExists(req[r].file))'
      PROVE  Excused(req[r].file)'
  <2> DEFINE f == req[r].file
  <2>1. /\ req'[r].file = f /\ Uploading(req[r])
        /\ UploadRaises(r) \/ req[r].pc = "recover"
    BY <1>3, RecoverSteps DEF Uploading, UploadRaises
  <2>2. f \in Files /\ rows[f].status # "unused"
    BY <1>0, <2>1 DEF Basics, OwnersKnown, RequestOK, Uploading
  <2> HIDE DEF f
  <2>3. RowExists(f)
    BY <1>3, <2>1, <2>2, StatusSteps DEF StatusStep, RowExists
  <2>4. CASE UploadRaises(r)
    <3>1. Content[f] = NoValue \/ dbErrors' = dbErrors + 1
      BY <2>3, <2>4 DEF UploadRaises, SaveRaises, Refused, f
    <3>2. Content[f] = NoValue \/ dbErrors' > 0
      BY <1>0, <3>1
    <3> QED
      BY <2>1, <3>2 DEF Excused
  <2>5. CASE req[r].pc = "recover"
    BY <1>1, <2>1, <2>3, <2>5 DEF ErrorsExplained, f
  <2> QED
    BY <2>1, <2>4, <2>5
<1> QED
  BY <1>2, <1>3 DEF ErrorsExplained

LEMMA NextPendingHasUploader ==
    ASSUME Basics, ErrorsExplained, PendingHasUploader, [Next]_vars
    PROVE  PendingHasUploader'
<1> USE ConstantsAssumption
<1>0. /\ rows \in [Files -> [owner : Users \cup {NoValue}, status : Status]]
      /\ req \in [Requests -> RequestRecord]
      /\ \A r \in Requests : RequestOK(req[r])
      /\ dbErrors \in Nat /\ dbErrors' \in Nat /\ dbErrors' >= dbErrors
  BY DbErrorsCounted DEF Basics, TypeOK
<1>0a. \A f : SavesToLose(f) \in Nat
  BY DEF SavesToLose
<1>1. ASSUME \A f \in Files :
               rows'[f].status = "pending" /\ dbErrors' < SavesToLose(f) =>
                 /\ rows[f].status = "pending"
                 /\ \A r \in Requests : Uploads(r, f)' <=> Uploads(r, f),
             crashes' = crashes
      PROVE  PendingHasUploader'
  BY <1>0, <1>0a, <1>1 DEF PendingHasUploader, SavesToLose
<1>2. ASSUME NEW r \in Requests, \A t \in Requests : t # r => req'[t] = req[t],
             ~Uploading(req[r]), ~Uploading(req'[r]), UNCHANGED <<rows, crashes>>
      PROVE  PendingHasUploader'
  <2>1. \A t \in Requests, f \in Files : Uploads(t, f)' <=> Uploads(t, f)
    BY <1>2 DEF Uploads, Uploading
  <2> QED
    BY <1>1, <1>2, <2>1
<1>3. ASSUME NEW r \in Requests, NEW s \in Sessions, NEW k \in Kinds,
             NEW f \in Files \cup {NoValue}, Begin(r, s, k, f)
      PROVE  PendingHasUploader'
  BY <1>0, <1>2, <1>3 DEF Begin, Uploading
<1>4. ASSUME NEW r \in Requests, UploadPending(r) PROVE PendingHasUploader'
  <2>1. PICK f \in Files :
          /\ rows[f].status = "unused"
          /\ rows' = [rows EXCEPT ![f] = [owner |-> UserOf[req[r].session],
                                          status |-> "pending"]]
          /\ req' = [req EXCEPT ![r] = [@ EXCEPT !.pc = "process", !.file = f]]
    BY <1>4 DEF UploadPending
  <2>2. /\ req'[r].pc = "process" /\ req'[r].file = f
        /\ \A t \in Requests : t # r => req'[t] = req[t]
    BY <1>0, <2>1 DEF RequestRecord
  <2>3. \A t \in Requests : ~Uploads(t, f)
    BY <1>0, <2>1 DEF Uploads, Uploading, Basics, OwnersKnown, RequestOK
  <2>4. \A g \in Files : ~Uploads(r, g)
    BY <1>4 DEF Uploads, Uploading, UploadPending, At
  <2>5. \A g \in Files : g # f => rows'[g] = rows[g]
    BY <1>0, <2>1
  <2>6. UNCHANGED <<crashes, dbErrors>>
    BY <1>4 DEF UploadPending
  <2> QED
    BY <2>2, <2>3, <2>4, <2>5, <2>6 DEF PendingHasUploader, Uploads, Uploading
<1>5. ASSUME NEW r \in Requests, UploadProcess(r) \/ UploadRecover(r) \/ UploadFails(r)
      PROVE  PendingHasUploader'
  <2> DEFINE f == req[r].file
  <2>1. f \in Files /\ UNCHANGED crashes
    BY <1>0, <1>5 DEF UploadProcess, UploadRecover, UploadFails, RequestOK, Uploading
  <2>2. PICK q : Finished(r, q)
    BY <1>5, ViewStepFinishes DEF ViewStep
  <2>3. /\ \A t \in Requests : t # r => req'[t] = req[t]
        /\ req'[r].pc \notin {"process", "recover"}
    <3>1. req'[r].pc \in {"respond", "abort"}
      <4>1. CASE UploadProcess(r)
        BY <1>0, <4>1 DEF UploadProcess, RequestRecord
      <4>2. CASE UploadRecover(r) \/ UploadFails(r)
        BY <1>0, <4>2 DEF UploadRecover, UploadFails, RequestRecord
      <4> QED
        BY <1>5, <4>1, <4>2
    <3> QED
      BY <1>0, <2>2, <3>1 DEF Finished
  <2>4. /\ \A g \in Files : g # f => rows'[g] = rows[g]
        /\ rows'[f].status = "pending" => dbErrors' >= SavesToLose(f)
    <3>1. CASE UploadProcess(r)
      BY <1>0, <2>1, <3>1 DEF UploadProcess, SaveStatus
    <3>2. CASE UploadRecover(r)
      BY <1>0, <2>1, <3>2 DEF UploadRecover, SaveStatus
    <3>3. CASE UploadFails(r)
      <4>1. rows' = rows /\ req[r].pc = "recover"
        BY <3>3 DEF UploadFails
      <4>2. ASSUME rows[f].status = "pending" PROVE dbErrors' >= SavesToLose(f)
        <5>1. RowExists(f)
          BY <4>2 DEF RowExists
        <5>2. dbErrors' = dbErrors + 1
          BY <3>3, <5>1 DEF UploadFails, SaveRaises, Refused
        <5>3. Content[f] = NoValue \/ dbErrors > 0
          BY <4>1, <5>1 DEF ErrorsExplained, Excused
        <5> QED
          BY <1>0, <5>2, <5>3 DEF SavesToLose
      <4> QED
        BY <4>1, <4>2
    <3> QED
      BY <1>5, <3>1, <3>2, <3>3
  <2> HIDE DEF f
  <2>5. \A g \in Files : Uploads(r, g) => g = f
    BY DEF Uploads, f
  <2>6. ASSUME NEW g \in Files, rows'[g].status = "pending", dbErrors' < SavesToLose(g)
        PROVE  /\ rows[g].status = "pending"
               /\ \A t \in Requests : Uploads(t, g)' <=> Uploads(t, g)
    <3>1. g # f
      BY <1>0, <1>0a, <2>4, <2>6
    <3> QED
      BY <2>3, <2>4, <2>5, <2>6, <3>1 DEF Uploads, Uploading
  <2> QED
    BY <1>1, <2>1, <2>6
<1>5a. ASSUME NEW r \in Requests, UploadRaises(r) PROVE PendingHasUploader'
  <2>1. /\ req'[r].pc = "recover" /\ req'[r].file = req[r].file /\ req[r].pc = "process"
        /\ \A t \in Requests : t # r => req'[t] = req[t]
        /\ UNCHANGED <<rows, crashes>>
    BY <1>0, <1>5a DEF UploadRaises, RequestRecord
  <2>2. \A t \in Requests, f \in Files : Uploads(t, f)' <=> Uploads(t, f)
    BY <2>1 DEF Uploads, Uploading
  <2> QED
    BY <1>1, <2>1, <2>2
<1>6. ASSUME NEW r \in Requests, ViewStep(r), ~UploadProcess(r), ~UploadRaises(r),
             ~UploadRecover(r), ~UploadFails(r)
      PROVE  PendingHasUploader'
  <2>1. PICK q : Finished(r, q)
    BY <1>6, ViewStepFinishes
  <2>2. ~Uploading(req'[r]) /\ \A t \in Requests : t # r => req'[t] = req[t]
    BY <1>0, <1>6, <2>1 DEF Finished, Uploading
  <2>3. req[r].pc = "view" /\ UNCHANGED <<rows, crashes>>
    BY <1>6 DEF Uploading, ViewStep, UploadRefused, UploadInvalid, LoadFile, UploadMarketData,
       Dashboard, Inspect, Report, At
  <2>4. ~Uploading(req[r])
    BY <2>3 DEF Uploading
  <2> QED
    BY <1>2, <2>2, <2>3, <2>4
<1>7. ASSUME NEW r \in Requests, Respond(r) \/ RespondFails(r) \/ Abort(r)
      PROVE  PendingHasUploader'
  BY <1>0, <1>2, <1>7 DEF Respond, RespondFails, Abort, Idle, Uploading
<1>8. ASSUME NEW f \in Files, AdminDelete(f) PROVE PendingHasUploader'
  BY <1>0, <1>1, <1>8 DEF AdminDelete, Uploads
<1>9. CASE Crash
  BY <1>9 DEF Crash, PendingHasUploader, Basics, TypeOK
<1>10. CASE UNCHANGED <<rows, req, crashes>>
  BY <1>1, <1>10 DEF Uploads
<1>11. ASSUME NEW r \in Requests, Advance(r) PROVE PendingHasUploader'
  BY <1>4, <1>5, <1>5a, <1>6, <1>7, <1>11 DEF Advance, ViewStep
<1> QED
  BY <1>3, <1>8, <1>9, <1>10, <1>11 DEF Next, Logout, vars

-----------------------------------------------------------------------------
(* The invariant and the theorems.                                         *)

IInv == /\ Basics /\ JournalsOwned /\ EvidenceIsBound
        /\ ErrorsExplained /\ PendingHasUploader

LEMMA InitIInv == Init => IInv
<1> SUFFICES ASSUME Init PROVE IInv
  OBVIOUS
<1>1. JournalsOwned
  BY DEF Init, Idle, EmptySession, JournalsOwned, OwnJournal
<1>2. EvidenceIsBound /\ ErrorsExplained /\ PendingHasUploader
  BY DEF Init, Idle, EvidenceIsBound, ErrorsExplained, PendingHasUploader
<1> QED
  BY <1>1, <1>2, InitBasics DEF IInv

LEMMA NextIInv == IInv /\ [Next]_vars => IInv'
  BY NextBasics, NextJournalsOwned, NextEvidenceIsBound, NextErrorsExplained,
     NextPendingHasUploader DEF IInv

LEMMA Inductive == Spec => []IInv
  BY InitIInv, NextIInv, PTL DEF Spec

(* Rows, sessions and requests always have their types; in particular an   *)
(* upload always has the row it is about to update. *)
THEOREM TypeCorrect == Spec => []TypeOK
<1>1. IInv => TypeOK
  BY DEF IInv, Basics
<1> QED
  BY Inductive, <1>1, PTL

(* The source file a session names is the file its journal came from.      *)
THEOREM JournalsAreNamed == Spec => []JournalNamesItsFile
<1>1. IInv => JournalNamesItsFile
  BY ConstantsAssumption DEF IInv, JournalsOwned, OwnJournal, JournalNamesItsFile, Lineage
<1> QED
  BY Inductive, <1>1, PTL

(* No session ever holds a journal of another user's file.                 *)
THEOREM JournalsAreOwn == Spec => []JournalIsOwn
<1>1. IInv => JournalIsOwn
  BY ConstantsAssumption DEF IInv, JournalsOwned, OwnJournal, JournalIsOwn, Owned
<1> QED
  BY Inductive, <1>1, PTL

(* The evidence shown next to a journal carries that journal's fingerprint.  *)
THEOREM EvidenceShownIsBound == Spec => []EvidenceIsBound
<1>1. IInv => EvidenceIsBound
  BY DEF IInv
<1> QED
  BY Inductive, <1>1, PTL

(* No session shows a file that its list of files marks as an error, unless *)
(* a write was refused: shown journals are of accepted files, and accepted  *)
(* files get that status only then.                                         *)
THEOREM ListAgrees == Spec => []FileListAgrees
<1>1. IInv => FileListAgrees
  <2>1. ASSUME NEW v, NEW s, NEW f \in Files, OwnJournal(v, s), Shows(v, f)
        PROVE  Content[f] # NoValue
    BY <2>1 DEF OwnJournal, Shows
  <2>2. ASSUME IInv, dbErrors = 0, NEW f \in Files, rows[f].status = "error"
        PROVE  Content[f] = NoValue
    BY <2>2 DEF IInv, ErrorsExplained, Excused
  <2> QED
    BY <2>1, <2>2 DEF IInv, JournalsOwned, FileListAgrees
<1> QED
  BY Inductive, <1>1, PTL

(* Before the first crash a pending file has exactly one uploader, unless   *)
(* every save of its status was refused.                                    *)
THEOREM PendingIsServed == Spec => []PendingHasUploader
<1>1. IInv => PendingHasUploader
  BY DEF IInv
<1> QED
  BY Inductive, <1>1, PTL

(* An administrator's deletion is final, whatever uploads are under way.   *)
THEOREM DeletionIsFinal == Spec => DeletedStaysDeleted
<1>1. IInv /\ [Next]_vars =>
        [\A f \in Files : rows[f].status = "deleted" => rows'[f].status = "deleted"]_vars
  BY StatusSteps DEF IInv, StatusStep, RowExists
<1> QED
  BY Inductive, <1>1, PTL DEF Spec, DeletedStaysDeleted

(* The session table only changes when a response is committed or a session  *)
(* is logged out. *)
StoreChanges ==
    \/ store' = store
    \/ \E r \in Requests : /\ req[r].session \in Sessions
                           /\ store[req[r].session] # NoValue
                           /\ store' = [store EXCEPT ![req[r].session] = req[r].view]
    \/ \E s \in Sessions : store[s] # NoValue /\ store' = [store EXCEPT ![s] = NoValue]

LEMMA StoreSteps ==
    ASSUME Basics, [Next]_vars PROVE StoreChanges
<1>1. ASSUME NEW r \in Requests, Respond(r) PROVE StoreChanges
  BY <1>1 DEF Respond, Commit, StoreChanges, Basics, TypeOK, RequestOK
<1>2. ASSUME NEW s \in Sessions, Logout(s) PROVE StoreChanges
  BY <1>2 DEF Logout, StoreChanges
<1>3. ASSUME store' = store PROVE StoreChanges
  BY <1>3 DEF StoreChanges
<1>4. ASSUME NEW r \in Requests, Advance(r) PROVE StoreChanges
  BY <1>1, <1>3, <1>4 DEF Advance, UploadPending, UploadRefused, UploadInvalid, UploadProcess, UploadRaises,
       UploadRecover, UploadFails,
     LoadFile, UploadMarketData, Dashboard, Inspect, Report, RespondFails, Abort
<1> QED
  BY <1>2, <1>3, <1>4 DEF Next, Begin, AdminDelete, Crash, vars

(* A logout is final, whatever requests of the session are under way.      *)
THEOREM LogoutEnds == Spec => LogoutIsFinal
<1>1. IInv /\ [Next]_vars =>
        [\A s \in Sessions : store[s] = NoValue => store'[s] = NoValue]_vars
  BY StoreSteps DEF IInv, Basics, TypeOK, StoreChanges
<1> QED
  BY Inductive, <1>1, PTL DEF Spec, LogoutIsFinal

-----------------------------------------------------------------------------
(* JournalSession implements ReviewSession.                                *)

LEMMA InitMaps == Init => Review!Init
<1>1. EmptySession # NoValue
  BY EmptySessionType, NoValueAssumption
<1>2. Shown(EmptySession) = [dataset |-> NoValue, evidence |-> NoValue]
  BY <1>1 DEF Shown, EmptySession, Binds, PrintOf
<1> QED
  BY <1>2 DEF Init, Review!Init, Review!Nothing

LEMMA ShownIsReview ==
    ASSUME NEW v \in SessionData PROVE Shown(v) # NoValue
<1>1. v # NoValue
  BY NoValueAssumption
<1>2. Binds(v) => v.evidence \in Fingerprints \cup {NoValue}
  BY DEF SessionData
<1>3. (IF v.cleaned_data = NoValue THEN NoValue ELSE v.last_uploaded_file)
        \in Files \cup {NoValue}
  BY DEF SessionData
<1> QED
  BY <1>1, <1>2, <1>3, ShownAssumption DEF Shown

(* A committed copy shows nothing, or an accepted file of the session's own  *)
(* user with evidence of its journal or none. *)
LEMMA CommittedIsShown ==
    ASSUME NEW v \in SessionData, NEW s \in Sessions, OwnJournal(v, s)
    PROVE  \/ Shown(v) = [dataset |-> NoValue, evidence |-> NoValue]
           \/ \E f \in Files : \E e \in {NoValue, Fingerprint[Content[f]]} :
                /\ rows[f].owner = UserOf[s] /\ Content[f] # NoValue
                /\ Shown(v) = [dataset |-> f, evidence |-> e]
<1>1. v # NoValue
  BY NoValueAssumption
<1>2. CASE v.cleaned_data = NoValue
  BY <1>1, <1>2 DEF Shown, Binds, PrintOf
<1>3. CASE v.cleaned_data # NoValue
  <2> DEFINE f == v.last_uploaded_file
  <2>1. /\ f \in Files /\ v.cleaned_data = Content[f] /\ rows[f].owner = UserOf[s]
    BY <1>3 DEF OwnJournal
  <2>2. CASE Binds(v)
    <3>1. v.evidence = Fingerprint[Content[f]]
      BY <1>3, <2>1, <2>2 DEF Binds, PrintOf
    <3>2. Shown(v) = [dataset |-> f, evidence |-> v.evidence]
      BY <1>1, <1>3, <2>2 DEF Shown
    <3> QED
      BY <1>3, <2>1, <3>1, <3>2
  <2>3. CASE ~Binds(v)
    <3>1. Shown(v) = [dataset |-> f, evidence |-> NoValue]
      BY <1>1, <1>3, <2>3 DEF Shown
    <3> QED
      BY <1>3, <2>1, <3>1
  <2> QED
    BY <2>2, <2>3
<1> QED
  BY <1>2, <1>3

LEMMA StepMaps ==
    ASSUME IInv, [Next]_vars PROVE [Review!Next]_(Review!vars)
<1>0. /\ rows \in [Files -> [owner : Users \cup {NoValue}, status : Status]]
      /\ store \in [Sessions -> SessionData \cup {NoValue}]
      /\ req \in [Requests -> RequestRecord]
      /\ \A r \in Requests : RequestOK(req[r])
  BY DEF IInv, Basics, TypeOK
<1>1. ASSUME NEW r \in Requests, UploadPending(r) PROVE [Review!Next]_(Review!vars)
  <2>1. PICK f \in Files :
          /\ rows[f].status = "unused"
          /\ rows' = [rows EXCEPT ![f] = [owner |-> UserOf[req[r].session],
                                          status |-> "pending"]]
    BY <1>1 DEF UploadPending
  <2>2. UserOf[req[r].session] \in Users
    BY <1>0, <1>1, ConstantsAssumption DEF UploadPending, At, RequestOK
  <2>3. rows[f].owner = NoValue /\ UNCHANGED store
    BY <1>1, <2>1 DEF IInv, Basics, OwnersKnown, UploadPending
  <2>4. PICK u \in Users : u = UserOf[req[r].session]
    BY <2>2
  <2>5. Review!Submit(f, u)
    BY <1>0, <2>1, <2>3, <2>4 DEF Review!Submit
  <2>6. Review!Next
    BY <2>5 DEF Review!Next
  <2> QED
    BY <2>6
<1>2. ASSUME \A f \in Files : rows'[f].owner = rows[f].owner
      PROVE  [Review!Next]_(Review!vars)
  <2>1. UNCHANGED [f \in Files |-> rows[f].owner]
    BY <1>2
  <2>2. StoreChanges
    BY StoreSteps DEF IInv
  <2>3. CASE store' = store
    BY <2>1, <2>3 DEF Review!vars
  <2>4. ASSUME NEW s \in Sessions, store[s] # NoValue, store' = [store EXCEPT ![s] = NoValue]
        PROVE  Review!Next
    <3>1. Shown(store[s]) # NoValue
      BY <1>0, <2>4, ShownIsReview
    <3>2. [t \in Sessions |-> Shown(store'[t])]
            = [[t \in Sessions |-> Shown(store[t])] EXCEPT ![s] = NoValue]
      BY <1>0, <2>4 DEF Shown
    <3> QED
      BY <2>1, <3>1, <3>2 DEF Review!Next, Review!End
  <2>5. ASSUME NEW r \in Requests, req[r].session \in Sessions,
               store[req[r].session] # NoValue,
               store' = [store EXCEPT ![req[r].session] = req[r].view]
        PROVE  Review!Next
    <3> DEFINE s == req[r].session
               v == req[r].view
    <3>1. v \in SessionData /\ OwnJournal(v, s)
      BY <1>0 DEF IInv, JournalsOwned, RequestRecord
    <3>2. Shown(store[s]) # NoValue
      BY <1>0, <2>5, ShownIsReview
    <3>3. [t \in Sessions |-> Shown(store'[t])]
            = [[t \in Sessions |-> Shown(store[t])] EXCEPT ![s] = Shown(v)]
      BY <1>0, <2>5
    <3>4. CASE Shown(v) = [dataset |-> NoValue, evidence |-> NoValue]
      <4>1. Review!ShowNothing(s)
        BY <2>1, <2>5, <3>2, <3>3, <3>4 DEF Review!ShowNothing, Review!Nothing
      <4> QED
        BY <2>5, <4>1 DEF Review!Next
    <3>5. ASSUME NEW f \in Files, NEW e, rows[f].owner = UserOf[s], Content[f] # NoValue,
                 e \in {NoValue, Fingerprint[Content[f]]},
                 Shown(v) = [dataset |-> f, evidence |-> e]
          PROVE  Review!Next
      <4>1. Review!Show(s, f, e)
        BY <2>1, <2>5, <3>2, <3>3, <3>5 DEF Review!Show
      <4> QED
        BY <2>5, <3>5, <4>1 DEF Review!Next
    <3> HIDE DEF s, v
    <3> QED
      BY <2>5, <3>1, <3>4, <3>5, CommittedIsShown DEF s
  <2> QED
    BY <2>2, <2>3, <2>4, <2>5 DEF StoreChanges
<1>3. ASSUME NEW r \in Requests, Advance(r), ~UploadPending(r)
      PROVE  \A f \in Files : rows'[f].owner = rows[f].owner
  <2>1. CASE ViewStep(r)
    BY <2>1, ViewStepFrame DEF IInv, RowsKept
  <2>2. CASE Respond(r) \/ RespondFails(r) \/ Abort(r)
    BY <2>2 DEF Respond, RespondFails, Abort
  <2> QED
    BY <1>3, <2>1, <2>2 DEF Advance, ViewStep
<1>4. ASSUME NEW g \in Files, AdminDelete(g)
      PROVE  \A f \in Files : rows'[f].owner = rows[f].owner
  BY <1>0, <1>4 DEF AdminDelete
<1>5. ASSUME NEW r \in Requests, Advance(r) PROVE [Review!Next]_(Review!vars)
  BY <1>1, <1>2, <1>3, <1>5
<1>6. ASSUME UNCHANGED rows PROVE [Review!Next]_(Review!vars)
  BY <1>2, <1>6
<1> QED
  BY <1>2, <1>4, <1>5, <1>6 DEF Next, Begin, Logout, Crash, vars

(* The detailed system, with its overlapping requests, whole-session writes, *)
(* crashes, deletions and logouts, shows nothing ReviewSession would not.  *)
THEOREM Refinement == Spec => ImplementsReviewSession
  BY Inductive, InitMaps, StepMaps, PTL DEF Spec, ImplementsReviewSession, Review!Spec

-----------------------------------------------------------------------------
(* Requests served in turn.                                                *)
Busy(r) == req[r].pc # "idle"

OneAtATime == \A r, q \in Requests : Busy(r) /\ Busy(q) => r = q

Ingesting(r) == req[r].kind \in {"upload", "load"}

(* Nothing happened to the session since a request loaded it: unless the   *)
(* request ingests a file, its copy has the journal its session has.       *)
CopyIsCurrent(r) ==
    LET s == req[r].session IN
    Ingesting(r) \/ store[s] = NoValue \/ req[r].view.cleaned_data = store[s].cleaned_data

CopiesAreCurrent == \A r \in Requests : Busy(r) => CopyIsCurrent(r)

(* The step that OnlyIngestionSwitchesJournal allows.                      *)
SwitchedByIngestion ==
    \A s \in Sessions :
      store[s] # NoValue /\ store'[s] # NoValue
        /\ store'[s].cleaned_data # store[s].cleaned_data
      => \E r \in Requests : /\ req[r].session = s
                             /\ req[r].kind \in {"upload", "load"}
                             /\ req[r].pc = "respond"

(* The views that ingest no file leave the journal of their copy alone.    *)
LEMMA ViewKeepsJournal ==
    ASSUME Basics, NEW r \in Requests, ViewStep(r)
    PROVE  /\ store' = store
           /\ \A t \in Requests : t # r => req'[t] = req[t]
           /\ req'[r].kind = req[r].kind /\ req'[r].session = req[r].session
           /\ Ingesting(r) \/ req'[r].view.cleaned_data = req[r].view.cleaned_data
<1>0. req \in [Requests -> RequestRecord] /\ req[r].view \in SessionData
  BY DEF Basics, TypeOK, RequestRecord
<1>1. PICK q : Finished(r, q)
  BY ViewStepFinishes
<1>2. /\ req'[r] = q /\ q.kind = req[r].kind /\ q.session = req[r].session
      /\ store' = store /\ \A t \in Requests : t # r => req'[t] = req[t]
  BY <1>0, <1>1, ViewStepFrame DEF Finished
<1>3. CASE UploadRefused(r) \/ UploadInvalid(r) \/ UploadProcess(r) \/ UploadRaises(r)
          \/ UploadRecover(r) \/ UploadFails(r) \/ LoadFile(r)
  <2>1. Ingesting(r)
    BY <1>3 DEF Basics, TypeOK, RequestOK, Uploading, UploadRefused, UploadInvalid, UploadProcess, UploadRaises,
       UploadRecover, UploadFails,
       LoadFile, At, Ingesting
  <2> QED
    BY <1>2, <2>1
<1>4. CASE UploadMarketData(r) \/ Dashboard(r) \/ Inspect(r) \/ Report(r)
  <2>1. ASSUME NEW v, NEW set, Finish(r, v, set), v.cleaned_data = req[r].view.cleaned_data
        PROVE  req'[r].view.cleaned_data = req[r].view.cleaned_data
    BY <1>0, <2>1 DEF Finish, RequestRecord
  <2> DEFINE w == clear_excursion_state(req[r].view)
             p == PrintOf(w.cleaned_data)
             b == load_bound_excursion_state(req[r].view)
  <2>2. /\ w \in SessionData /\ w.cleaned_data = req[r].view.cleaned_data
        /\ b.cleaned_data = req[r].view.cleaned_data
    BY <1>0, ClearType, LoadBoundType
  <2>3. [w EXCEPT !.evidence = p].cleaned_data = w.cleaned_data
    BY <2>2 DEF SessionData
  <2>4. \/ Finish(r, w, FALSE) \/ Finish(r, [w EXCEPT !.evidence = p], TRUE)
        \/ Finish(r, b, FALSE) \/ Finish(r, req[r].view, FALSE)
    BY <1>4 DEF UploadMarketData, Dashboard, Inspect, Report
  <2> HIDE DEF w, p, b
  <2> QED
    BY <1>2, <2>1, <2>2, <2>3, <2>4
<1> QED
  BY <1>3, <1>4 DEF ViewStep

LEMMA InTurnStep ==
    ASSUME Basics, OneAtATime, CopiesAreCurrent, [Next]_vars, OneAtATime'
    PROVE  CopiesAreCurrent' /\ SwitchedByIngestion
<1>0. /\ req \in [Requests -> RequestRecord]
      /\ store \in [Sessions -> SessionData \cup {NoValue}]
  BY DEF Basics, TypeOK
<1>1. ASSUME NEW r \in Requests, \A t \in Requests : t # r => req'[t] = req[t],
             Busy(r)' => CopyIsCurrent(r)', Busy(r) \/ Busy(r)'
      PROVE  CopiesAreCurrent'
  BY <1>1 DEF CopiesAreCurrent, OneAtATime, Busy
<1>2. ASSUME store' = store PROVE SwitchedByIngestion
  BY <1>2 DEF SwitchedByIngestion
<1>3. ASSUME NEW r \in Requests, NEW s \in Sessions, NEW k \in Kinds,
             NEW f \in Files \cup {NoValue}, Begin(r, s, k, f)
      PROVE  CopiesAreCurrent' /\ SwitchedByIngestion
  <2>1. /\ store' = store /\ \A t \in Requests : t # r => req'[t] = req[t]
        /\ req'[r].view = store[s] /\ req'[r].session = s /\ req'[r].pc = "view"
    BY <1>0, <1>3 DEF Begin
  <2>2. CopyIsCurrent(r)' /\ Busy(r)'
    BY <2>1 DEF CopyIsCurrent, Busy
  <2> QED
    BY <1>1, <1>2, <2>1, <2>2
<1>4. ASSUME NEW r \in Requests, UploadPending(r)
      PROVE  CopiesAreCurrent' /\ SwitchedByIngestion
  <2>1. PICK f \in Files :
          req' = [req EXCEPT ![r] = [@ EXCEPT !.pc = "process", !.file = f]]
    BY <1>4 DEF UploadPending
  <2>2. /\ req'[r].kind = "upload" /\ \A t \in Requests : t # r => req'[t] = req[t]
        /\ store' = store /\ Busy(r)
    BY <1>0, <1>4, <2>1 DEF UploadPending, At, Busy, RequestRecord
  <2>3. CopyIsCurrent(r)'
    BY <2>2 DEF CopyIsCurrent, Ingesting
  <2> QED
    BY <1>1, <1>2, <2>2, <2>3
<1>5. ASSUME NEW r \in Requests, ViewStep(r)
      PROVE  CopiesAreCurrent' /\ SwitchedByIngestion
  <2>1. /\ store' = store
        /\ \A t \in Requests : t # r => req'[t] = req[t]
        /\ req'[r].kind = req[r].kind /\ req'[r].session = req[r].session
        /\ Ingesting(r) \/ req'[r].view.cleaned_data = req[r].view.cleaned_data
    BY <1>5, ViewKeepsJournal
  <2>2. Busy(r)
    BY <1>5 DEF Uploading, ViewStep, UploadRefused, UploadInvalid, UploadProcess, UploadRaises,
       UploadRecover, UploadFails, LoadFile,
       UploadMarketData, Dashboard, Inspect, Report, At, Busy
  <2>3. CopyIsCurrent(r)
    BY <2>2 DEF CopiesAreCurrent
  <2>4. CopyIsCurrent(r)'
    BY <2>1, <2>3 DEF CopyIsCurrent, Ingesting
  <2> QED
    BY <1>1, <1>2, <2>1, <2>2, <2>4
<1>6. ASSUME NEW r \in Requests, Respond(r)
      PROVE  CopiesAreCurrent' /\ SwitchedByIngestion
  <2>1. /\ ~Busy(r)' /\ Busy(r) /\ req[r].pc = "respond"
        /\ \A t \in Requests : t # r => req'[t] = req[t]
    BY <1>0, <1>6 DEF Respond, Busy, Idle
  <2>2. CopyIsCurrent(r)
    BY <2>1 DEF CopiesAreCurrent
  <2>3. \A s \in Sessions :
          store'[s] = store[s] \/ (s = req[r].session /\ store'[s] = req[r].view)
    BY <1>0, <1>6 DEF Respond, Commit
  <2>4. SwitchedByIngestion
    BY <2>1, <2>2, <2>3 DEF SwitchedByIngestion, CopyIsCurrent, Ingesting
  <2> QED
    BY <1>1, <2>1, <2>4
<1>7. ASSUME NEW r \in Requests, RespondFails(r) \/ Abort(r)
      PROVE  CopiesAreCurrent' /\ SwitchedByIngestion
  <2>1. /\ ~Busy(r)' /\ Busy(r) /\ store' = store
        /\ \A t \in Requests : t # r => req'[t] = req[t]
    BY <1>0, <1>7 DEF RespondFails, Abort, Busy, Idle
  <2> QED
    BY <1>1, <1>2, <2>1
<1>8. ASSUME NEW s \in Sessions, Logout(s)
      PROVE  CopiesAreCurrent' /\ SwitchedByIngestion
  <2>1. /\ req' = req /\ store'[s] = NoValue
        /\ \A t : t # s => store'[t] = store[t]
    BY <1>0, <1>8 DEF Logout
  <2>2. CopiesAreCurrent'
    BY <2>1 DEF CopiesAreCurrent, CopyIsCurrent, Busy, Ingesting
  <2>3. SwitchedByIngestion
    BY <2>1 DEF SwitchedByIngestion
  <2> QED
    BY <2>2, <2>3
<1>9. CASE Crash
  <2>1. \A r \in Requests : ~Busy(r)'
    BY <1>9 DEF Crash, Busy, Idle
  <2> QED
    BY <1>2, <1>9, <2>1 DEF Crash, CopiesAreCurrent
<1>10. CASE UNCHANGED <<store, req>>
  BY <1>2, <1>10 DEF CopiesAreCurrent, CopyIsCurrent, Busy, Ingesting
<1>11. ASSUME NEW r \in Requests, Advance(r)
       PROVE  CopiesAreCurrent' /\ SwitchedByIngestion
  BY <1>4, <1>5, <1>6, <1>7, <1>11 DEF Advance, ViewStep
<1> QED
  BY <1>3, <1>8, <1>9, <1>10, <1>11 DEF Next, AdminDelete, vars

InTurn == Basics /\ OneAtATime /\ CopiesAreCurrent

LEMMA InitInTurn == Init => InTurn
  BY InitBasics DEF Init, Idle, Busy, OneAtATime, CopiesAreCurrent, InTurn

(* A step that leaves at most one request busy keeps them in turn: a step  *)
(* makes at most one more request busy, so those it leaves can be counted. *)
LEMMA CountedInTurn ==
    ASSUME InTurn, [Next]_vars, Cardinality({r \in Requests : req'[r].pc # "idle"}) <= 1
    PROVE  OneAtATime'
<1> DEFINE Before == {r \in Requests : req[r].pc # "idle"}
           After == {r \in Requests : req'[r].pc # "idle"}
<1>0. req \in [Requests -> RequestRecord]
  BY DEF InTurn, Basics, TypeOK
<1>1. IsFiniteSet(Before)
  <2>1. CASE Before = {}
    BY <2>1, FS_EmptySet
  <2>2. ASSUME NEW r \in Before PROVE Before = {r}
    BY <2>2 DEF InTurn, OneAtATime, Busy
  <2> HIDE DEF Before
  <2>3. ASSUME NEW r, Before = {r} PROVE IsFiniteSet(Before)
    BY <2>3, FS_Singleton
  <2> QED
    BY <2>1, <2>2, <2>3
<1>2. IsFiniteSet(After)
  <2>1. ASSUME NEW r \in Requests, \A t \in Requests : t # r => req'[t] = req[t]
        PROVE  IsFiniteSet(After)
    <3>1. After \subseteq Before \cup {r}
      BY <2>1
    <3> HIDE DEF Before, After
    <3> QED
      BY <1>1, <3>1, FS_AddElement, FS_Subset
  <2>2. ASSUME req' = req PROVE IsFiniteSet(After)
    BY <1>1, <2>2
  <2>3. CASE Crash
    <3>1. After = {}
      BY <2>3 DEF Crash, Idle
    <3> HIDE DEF After
    <3> QED
      BY <3>1, FS_EmptySet
  <2> HIDE DEF Before, After
  <2>4. ASSUME NEW r \in Requests, NEW s \in Sessions, NEW k \in Kinds,
               NEW f \in Files \cup {NoValue}, Begin(r, s, k, f)
        PROVE  IsFiniteSet(After)
    BY <1>0, <2>1, <2>4 DEF Begin
  <2>5. ASSUME NEW r \in Requests, UploadPending(r) PROVE IsFiniteSet(After)
    BY <1>0, <2>1, <2>5 DEF UploadPending
  <2>6. ASSUME NEW r \in Requests, ViewStep(r) PROVE IsFiniteSet(After)
    BY <2>1, <2>6, ViewKeepsJournal DEF InTurn
  <2>7. ASSUME NEW r \in Requests, Respond(r) \/ RespondFails(r) \/ Abort(r) PROVE IsFiniteSet(After)
    BY <1>0, <2>1, <2>7 DEF Respond, RespondFails, Abort
  <2>8. ASSUME NEW r \in Requests, Advance(r) PROVE IsFiniteSet(After)
    BY <2>5, <2>6, <2>7, <2>8 DEF Advance, ViewStep
  <2> QED
    BY <2>2, <2>3, <2>4, <2>8 DEF Next, Logout, AdminDelete, vars
<1>3. Cardinality(After) \in Nat /\ Cardinality(After) <= 1
  BY <1>2, FS_CardinalityType
<1>4. SUFFICES ASSUME NEW r \in After, NEW q \in After, r # q PROVE FALSE
  BY DEF OneAtATime, Busy
<1> HIDE DEF After, Before
<1>5. {r, q} \subseteq After /\ Cardinality({r, q}) = 2
  <2>1. IsFiniteSet({r}) /\ Cardinality({r}) = 1
    BY FS_Singleton
  <2>2. q \notin {r}
    BY <1>4
  <2>3. Cardinality({r} \cup {q}) = 2
    <3> DEFINE S == {r}
    <3>1. IsFiniteSet(S) /\ Cardinality(S) = 1 /\ q \notin S
      BY <2>1, <2>2
    <3> HIDE DEF S
    <3>2. Cardinality(S \cup {q}) = Cardinality(S) + 1
      BY <3>1, FS_AddElement
    <3> QED
      BY <3>1, <3>2 DEF S
  <2>4. {r} \cup {q} = {r, q}
    OBVIOUS
  <2> QED
    BY <2>3, <2>4
<1>6. Cardinality({r, q}) <= Cardinality(After)
  BY <1>2, <1>5, FS_Subset
<1> QED
  BY <1>3, <1>5, <1>6

(* Whenever requests are served in turn, the journal of a session changes  *)
(* only by the response of an upload or a load.                            *)
THEOREM SwitchedInTurn ==
    Init /\ [][Next /\ OneAtATime']_vars => [][SwitchedByIngestion]_vars
<1>1. InTurn /\ [Next /\ OneAtATime']_vars => InTurn' /\ [SwitchedByIngestion]_vars
  <2> SUFFICES ASSUME InTurn, [Next /\ OneAtATime']_vars
               PROVE  InTurn' /\ SwitchedByIngestion
    OBVIOUS
  <2>1. [Next]_vars /\ OneAtATime'
    BY DEF vars, InTurn, OneAtATime, Busy
  <2> QED
    BY <2>1, NextBasics, InTurnStep DEF InTurn
<1> QED
  BY <1>1, InitInTurn, PTL

(* In the instance that serves one request at a time, dashboards, inspectors *)
(* and market uploads leave the journal alone though they write the session. *)
THEOREM OnlyIngestionSwitches == MCSpec => OnlyIngestionSwitchesJournal
<1> DEFINE I == instance = Serial => InTurn
<1>1. MCInit => I
  BY InitInTurn DEF MCInit
<1>2. I /\ [MCNext]_<<vars, instance>> =>
        I' /\ [instance = Serial => SwitchedByIngestion]_vars
  <2> SUFFICES ASSUME I, [MCNext]_<<vars, instance>>, instance = Serial \/ instance' = Serial
               PROVE  InTurn' /\ SwitchedByIngestion
    OBVIOUS
  <2>1. instance = Serial /\ InTurn
    BY DEF MCNext
  <2>2. CASE UNCHANGED vars
    <3>1. OneAtATime'
      BY <2>1, <2>2 DEF vars, InTurn, OneAtATime, Busy
    <3> QED
      BY <2>1, <2>2, <3>1, NextBasics, InTurnStep DEF InTurn
  <2>3. CASE Next /\ Within
    <3>1. instance.width = 1
      BY <2>1 DEF Serial
    <3>2. OneAtATime'
      BY <2>1, <2>3, <3>1, CountedInTurn DEF Within
    <3> QED
      BY <2>1, <2>3, <3>2, NextBasics, InTurnStep DEF InTurn
  <2> QED
    BY <2>2, <2>3 DEF MCNext
<1>3. [instance = Serial => SwitchedByIngestion]_vars
        <=> [instance = Serial =>
               \A s \in Sessions :
                 store[s] # NoValue /\ store'[s] # NoValue
                   /\ store'[s].cleaned_data # store[s].cleaned_data
                 => \E r \in Requests : /\ req[r].session = s
                                        /\ req[r].kind \in {"upload", "load"}
                                        /\ req[r].pc = "respond"]_vars
  BY DEF SwitchedByIngestion
<1> QED
  BY <1>1, <1>2, <1>3, PTL DEF MCSpec, OnlyIngestionSwitchesJournal

=============================================================================
