--------------------------- MODULE JournalSession ---------------------------
(***************************************************************************)
(* The review session of TradeIntel 360: uploaded trading files (rows of   *)
(* performance.TradingFile), the cleaned journal kept in the Django        *)
(* session, and the broker-bar excursion evidence bound to that journal.   *)
(*                                                                         *)
(* A request is served by a worker thread.  It loads the WHOLE session at  *)
(* its first access, works on that private copy, and when the response is  *)
(* not a 500 the session middleware writes the whole copy back if the view *)
(* marked it modified.  Several requests of one session may overlap.       *)
(***************************************************************************)
EXTENDS Naturals

CONSTANTS
    Users, Sessions, Requests, Files, Journals, Fingerprints,
    UserOf,          \* the user logged in to each session
    Content,         \* what clean_ftmo_csv makes of a file: a journal or NoValue
    Fingerprint,     \* compute_journal_fingerprint of a journal, NoValue if none
    MaxCrashes,      \* bound on worker-process crashes
    MaxDbErrors,     \* bound on writes the database refuses
    NoValue

ASSUME ConstantsAssumption ==
    /\ UserOf \in [Sessions -> Users]
    /\ Content \in [Files -> Journals \cup {NoValue}]
    /\ Fingerprint \in [Journals -> Fingerprints \cup {NoValue}]
    /\ MaxCrashes \in Nat /\ MaxDbErrors \in Nat
    /\ NoValue \notin Users \cup Sessions \cup Files \cup Journals \cup Fingerprints

VARIABLES
    rows,     \* TradingFile rows: owner and processing status
    store,    \* the session table; NoValue once the session was flushed
    req,      \* the request each worker thread is serving
    crashes,  \* how often the process was killed
    dbErrors  \* how often a write raised though nothing forbade it

vars == <<rows, store, req, crashes, dbErrors>>

-----------------------------------------------------------------------------
(* Types. *)

SessionData == [cleaned_data : Journals \cup {NoValue},
                last_uploaded_file : Files \cup {NoValue},
                evidence : Fingerprints \cup {NoValue}]

ASSUME NoValueAssumption == NoValue \notin SessionData

EmptySession == [cleaned_data |-> NoValue,
                 last_uploaded_file |-> NoValue,
                 evidence |-> NoValue]

(* "unused": no row was ever created with this id. *)
Status == {"unused", "pending", "processed", "error", "deleted"}

(* upload: upload_file (POST)      load: load_file                         *)
(* market: upload_market_data      dashboard: dashboard                    *)
(* inspect: the retrieval and grounding inspectors                         *)
(* report: kpi_report, the exports and the query inspector (read only)     *)
Kinds == {"upload", "load", "market", "dashboard", "inspect", "report"}

(* idle    : next Begin                                                    *)
(* view    : session loaded, next the body of the view                     *)
(* process : row saved as pending, next the try block of upload_file       *)
(* recover : that block raised, next the except block                      *)
(* respond : response ready, next Respond                                  *)
(* abort   : the view raised, next Abort                                   *)
Stages == {"idle", "view", "process", "recover", "respond", "abort"}

Idle == [pc |-> "idle", kind |-> "report", session |-> NoValue, file |-> NoValue,
         outcome |-> "pending", view |-> EmptySession, modified |-> FALSE]

RequestRecord == [pc : Stages, kind : Kinds, session : Sessions \cup {NoValue},
                  file : Files \cup {NoValue}, outcome : {"pending", "processed", "error"},
                  view : SessionData, modified : BOOLEAN]

(* Between its two saves an upload has a row that is not settled yet.        *)
Uploading(q) == q.pc \in {"process", "recover"}

(* Only an upload has a row to process; a load names the file it asks for.   *)
RequestOK(q) ==
    /\ q.pc # "idle" => q.session \in Sessions
    /\ Uploading(q) => q.kind = "upload" /\ q.file \in Files
    /\ q.pc = "view" /\ q.kind = "load" => q.file \in Files

TypeOK ==
    /\ rows \in [Files -> [owner : Users \cup {NoValue}, status : Status]]
    /\ store \in [Sessions -> SessionData \cup {NoValue}]
    /\ req \in [Requests -> RequestRecord]
    /\ \A r \in Requests : RequestOK(req[r])
    /\ crashes \in 0..MaxCrashes
    /\ dbErrors \in 0..MaxDbErrors

-----------------------------------------------------------------------------
(* What the views do to their copy of the session. *)

PopCleaned(v) == [v EXCEPT !.cleaned_data = NoValue]

(* Faulty variant: dropping stale evidence drops the journal with it. *)
ClearEverything(v) == [v EXCEPT !.evidence = NoValue, !.cleaned_data = NoValue]

clear_excursion_state(v) == [v EXCEPT !.evidence = NoValue]

(* Faulty variant: a failed ingestion leaves the previous journal loaded but *)
(* has already renamed it after the rejected file. *)
IngestForgetsPop(v, f) ==
    IF Content[f] # NoValue
    THEN {[v EXCEPT !.last_uploaded_file = f, !.cleaned_data = Content[f]]}
    ELSE {[v EXCEPT !.last_uploaded_file = f]}

(* The try block shared by upload_file and load_file.  A journal that cannot *)
(* be serialised fails after last_uploaded_file was already replaced. *)
Ingest(v, f) ==
    IF Content[f] # NoValue
    THEN {[v EXCEPT !.last_uploaded_file = f, !.cleaned_data = Content[f]]}
    ELSE {PopCleaned(v), PopCleaned([v EXCEPT !.last_uploaded_file = f])}

PrintOf(j) == IF j = NoValue THEN NoValue ELSE Fingerprint[j]

(* Faulty variant: any stored evidence is accepted for the current journal. *)
BindsAnything(v) == v.evidence # NoValue

(* load_bound_excursion_state accepts the evidence only for the journal whose *)
(* fingerprint it carries. *)
Binds(v) == PrintOf(v.cleaned_data) # NoValue /\ v.evidence = PrintOf(v.cleaned_data)

load_bound_excursion_state(v) == IF Binds(v) THEN v ELSE clear_excursion_state(v)

-----------------------------------------------------------------------------
Init ==
    /\ rows = [f \in Files |-> [owner |-> NoValue, status |-> "unused"]]
    /\ store = [s \in Sessions |-> EmptySession]
    /\ req = [r \in Requests |-> Idle]
    /\ crashes = 0 /\ dbErrors = 0

(* The database refuses a write, for instance because it is locked.          *)
Refused == dbErrors < MaxDbErrors /\ dbErrors' = dbErrors + 1

Begin(r, s, k, f) ==
    /\ req[r].pc = "idle"
    /\ store[s] # NoValue
    /\ (f # NoValue) = (k = "load")
    /\ req' = [req EXCEPT ![r] = [pc |-> "view", kind |-> k, session |-> s, file |-> f,
                                  outcome |-> "pending", view |-> store[s],
                                  modified |-> FALSE]]
    /\ UNCHANGED <<rows, store, crashes, dbErrors>>

At(r, pc, k) == req[r].pc = pc /\ req[r].kind = k

(* The view returns with session copy v.  A pop marks the session modified   *)
(* only if the key was there; "set" tells of an assignment. *)
Finish(r, v, set) ==
    req' = [req EXCEPT ![r] = [@ EXCEPT !.pc = "respond", !.view = v,
                                        !.modified = req[r].modified \/ set
                                                     \/ v # req[r].view]]

(* upload_file, first half: a valid form creates the row as pending. *)
UploadPending(r) ==
    /\ At(r, "view", "upload")
    /\ \E f \in Files :
         /\ rows[f].status = "unused"
         /\ rows' = [rows EXCEPT ![f] = [owner |-> UserOf[req[r].session],
                                         status |-> "pending"]]
         /\ req' = [req EXCEPT ![r] = [@ EXCEPT !.pc = "process", !.file = f]]
    /\ UNCHANGED <<store, crashes, dbErrors>>

(* The INSERT of the row is outside the try block.                           *)
UploadRefused(r) ==
    /\ At(r, "view", "upload")
    /\ Refused
    /\ req' = [req EXCEPT ![r].pc = "abort"]
    /\ UNCHANGED <<rows, store, crashes>>

UploadInvalid(r) ==
    /\ At(r, "view", "upload")
    /\ Finish(r, req[r].view, FALSE)
    /\ UNCHANGED <<rows, store, crashes, dbErrors>>

(* Faulty variant: a row whose ingestion failed is left pending. *)
SaveOnlySuccess(f, status) ==
    rows' = IF status = "processed" THEN [rows EXCEPT ![f].status = status] ELSE rows

SaveStatus(f, status) == rows' = [rows EXCEPT ![f].status = status]

(* Faulty variant: save() without update_fields inserts a deleted row again. *)
RowExistsOrInserted(f) == rows[f].status # "unused"

(* save(update_fields=["status"]) is an UPDATE that raises when no row is hit. *)
RowExists(f) == rows[f].status \notin {"unused", "deleted"}

(* Such a save raises for a row that is gone or a database that refuses it.   *)
SaveRaises(f) ==
    \/ ~RowExists(f) /\ UNCHANGED dbErrors
    \/ RowExists(f) /\ Refused

(* upload_file, the try block: an accepted file is marked processed.         *)
UploadProcess(r) ==
    LET f == req[r].file IN
    /\ req[r].pc = "process"
    /\ Content[f] # NoValue
    /\ RowExists(f)
    /\ SaveStatus(f, "processed")
    /\ \E v \in Ingest(req[r].view, f) :
         req' = [req EXCEPT ![r] = [@ EXCEPT !.pc = "respond", !.view = v,
                                             !.outcome = "processed", !.modified = TRUE]]
    /\ UNCHANGED <<store, crashes, dbErrors>>

(* The try block raises: the file is refused, or its status cannot be saved  *)
(* after the session copy was filled.  The except block drops the journal.   *)
UploadRaises(r) ==
    LET f == req[r].file
        accepted == Content[f] # NoValue IN
    /\ req[r].pc = "process"
    /\ \/ ~accepted /\ UNCHANGED dbErrors
       \/ accepted /\ SaveRaises(f)
    /\ \E v \in {PopCleaned(w) : w \in Ingest(req[r].view, f)} :
         req' = [req EXCEPT ![r] = [@ EXCEPT !.pc = "recover", !.view = v,
                                             !.outcome = "error",
                                             !.modified = accepted \/ v # req[r].view]]
    /\ UNCHANGED <<rows, store, crashes>>

(* The except block marks the row as an error, whatever raised.              *)
UploadRecover(r) ==
    /\ req[r].pc = "recover"
    /\ RowExists(req[r].file)
    /\ SaveStatus(req[r].file, "error")
    /\ req' = [req EXCEPT ![r].pc = "respond"]
    /\ UNCHANGED <<store, crashes, dbErrors>>

(* Its save raises as well, so the request is a 500.                         *)
UploadFails(r) ==
    /\ req[r].pc = "recover"
    /\ SaveRaises(req[r].file)
    /\ req' = [req EXCEPT ![r].pc = "abort"]
    /\ UNCHANGED <<rows, store, crashes>>

(* Faulty variant: the row is looked up by id alone. *)
FoundById(f, u) == RowExists(f)

(* get_object_or_404(TradingFile, id=file_id, user=request.user) *)
Found(f, u) == RowExists(f) /\ rows[f].owner = u

LoadFile(r) ==
    LET f == req[r].file IN
    /\ At(r, "view", "load")
    /\ \/ /\ ~Found(f, UserOf[req[r].session])
          /\ Finish(r, req[r].view, FALSE)
       \/ /\ Found(f, UserOf[req[r].session])
          /\ \E v \in Ingest(req[r].view, f) :
               \E set \in {Content[f] # NoValue, v.last_uploaded_file = f} :
                 Finish(r, v, set)
    /\ UNCHANGED <<rows, store, crashes, dbErrors>>

(* upload_market_data drops the old evidence first, then may refuse: invalid *)
(* form or bars, no journal, no fingerprint, or evidence too large to store. *)
UploadMarketData(r) ==
    /\ At(r, "view", "market")
    /\ LET v == clear_excursion_state(req[r].view)
           p == PrintOf(v.cleaned_data) IN
       \/ Finish(r, v, FALSE)
       \/ p # NoValue /\ Finish(r, [v EXCEPT !.evidence = p], TRUE)
    /\ UNCHANGED <<rows, store, crashes, dbErrors>>

Dashboard(r) ==
    /\ At(r, "view", "dashboard")
    /\ Finish(r, load_bound_excursion_state(req[r].view), FALSE)
    /\ UNCHANGED <<rows, store, crashes, dbErrors>>

(* The inspectors resolve the retrieval scope first; without a fingerprint    *)
(* they answer CORPUS_INVALID and never reach the evidence. *)
Inspect(r) ==
    LET v == req[r].view IN
    /\ At(r, "view", "inspect")
    /\ Finish(r, IF PrintOf(v.cleaned_data) = NoValue THEN v
                 ELSE load_bound_excursion_state(v), FALSE)
    /\ UNCHANGED <<rows, store, crashes, dbErrors>>

Report(r) ==
    /\ At(r, "view", "report")
    /\ Finish(r, req[r].view, FALSE)
    /\ UNCHANGED <<rows, store, crashes, dbErrors>>

(* Faulty variant: a save creates the session row again after a logout. *)
CommitRecreates(r) ==
    IF req[r].modified
    THEN [store EXCEPT ![req[r].session] = req[r].view] ELSE store

(* The middleware's save is an UPDATE of an existing session row; after a     *)
(* logout it fails (SessionInterrupted) and writes nothing. *)
Commit(r) ==
    IF req[r].modified /\ store[req[r].session] # NoValue
    THEN [store EXCEPT ![req[r].session] = req[r].view] ELSE store

Respond(r) ==
    /\ req[r].pc = "respond"
    /\ store' = Commit(r)
    /\ req' = [req EXCEPT ![r] = Idle]
    /\ UNCHANGED <<rows, crashes, dbErrors>>

(* The session cannot be saved: a 500 in place of the response.              *)
RespondFails(r) ==
    /\ req[r].pc = "respond" /\ req[r].modified
    /\ Refused
    /\ req' = [req EXCEPT ![r] = Idle]
    /\ UNCHANGED <<rows, store, crashes>>

(* A 500 response: the middleware does not save the session. *)
Abort(r) ==
    /\ req[r].pc = "abort"
    /\ req' = [req EXCEPT ![r] = Idle]
    /\ UNCHANGED <<rows, store, crashes, dbErrors>>

Logout(s) ==
    /\ store[s] # NoValue
    /\ store' = [store EXCEPT ![s] = NoValue]
    /\ UNCHANGED <<rows, req, crashes, dbErrors>>

AdminDelete(f) ==
    /\ RowExists(f)
    /\ rows' = [rows EXCEPT ![f].status = "deleted"]
    /\ UNCHANGED <<store, req, crashes, dbErrors>>

Crash ==
    /\ crashes < MaxCrashes
    /\ crashes' = crashes + 1
    /\ req' = [r \in Requests |-> Idle]
    /\ UNCHANGED <<rows, store, dbErrors>>

Advance(r) ==
    \/ UploadPending(r) \/ UploadRefused(r) \/ UploadInvalid(r)
    \/ UploadProcess(r) \/ UploadRaises(r) \/ UploadRecover(r) \/ UploadFails(r)
    \/ LoadFile(r) \/ UploadMarketData(r) \/ Dashboard(r) \/ Inspect(r) \/ Report(r)
    \/ Respond(r) \/ RespondFails(r) \/ Abort(r)

Next ==
    \/ \E r \in Requests, s \in Sessions, k \in Kinds, f \in Files \cup {NoValue} :
         Begin(r, s, k, f)
    \/ \E r \in Requests : Advance(r)
    \/ \E s \in Sessions : Logout(s)
    \/ \E f \in Files : AdminDelete(f)
    \/ Crash

Spec == Init /\ [][Next]_vars

(* A worker thread that began a request goes on with it. *)
FairSpec == Spec /\ \A r \in Requests : WF_vars(Advance(r))

=============================================================================
