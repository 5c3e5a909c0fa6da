------------------------ MODULE JournalSessionProps ------------------------
(***************************************************************************)
(* Properties of JournalSession.                                           *)
(***************************************************************************)
EXTENDS JournalSession

(* A copy of the session a request or the session table holds. *)
Lineage(v) ==
    v.cleaned_data # NoValue =>
        /\ v.last_uploaded_file # NoValue
        /\ v.cleaned_data = Content[v.last_uploaded_file]

(* The Source File that the dashboard, the reports and ExportMeta print is   *)
(* always the file the analysed journal came from, in the session table and  *)
(* in every request's copy, whatever uploads, failures and loads overlap.    *)
JournalNamesItsFile ==
    /\ \A s \in Sessions : store[s] # NoValue => Lineage(store[s])
    /\ \A r \in Requests : Lineage(req[r].view)

(* A session only ever holds journals of files its own user uploaded:        *)
(* load_file looks rows up by user, and a request that outlives another      *)
(* session's change writes back to its own session only.                     *)
Owned(v, u) ==
    v.cleaned_data # NoValue => /\ v.last_uploaded_file # NoValue
                                /\ rows[v.last_uploaded_file].owner = u

JournalIsOwn ==
    /\ \A s \in Sessions : store[s] # NoValue => Owned(store[s], UserOf[s])
    /\ \A r \in Requests :
         req[r].session # NoValue => Owned(req[r].view, UserOf[req[r].session])

(* The evidence a page shows (dashboard and inspectors read the copy they    *)
(* respond with) carries the fingerprint of the journal shown next to it,    *)
(* though loading another journal never removes the evidence it leaves stale. *)
EvidenceIsBound ==
    \A r \in Requests :
      LET v == req[r].view IN
        /\ req[r].pc = "respond"
        /\ \/ req[r].kind = "dashboard"
           \/ req[r].kind = "inspect" /\ PrintOf(v.cleaned_data) # NoValue
        /\ v.evidence # NoValue
        => v.cleaned_data # NoValue /\ v.evidence = Fingerprint[v.cleaned_data]

(* The list of files next to the dashboard never marks the file whose        *)
(* journal a session shows as an error, whatever uploads and loads of it and *)
(* of refused files overlap; only a write that the database refused may make *)
(* upload_file mark an accepted file that another request has loaded.        *)
Shows(v, f) == v.cleaned_data # NoValue /\ v.last_uploaded_file = f

FileListAgrees ==
    dbErrors = 0 =>
      \A f \in Files : rows[f].status = "error" =>
        /\ \A s \in Sessions : store[s] # NoValue => ~Shows(store[s], f)
        /\ \A r \in Requests : ~Shows(req[r].view, f)

(* Until the process has crashed, a pending file is being worked on by       *)
(* exactly one request, unless the database refused every save of its        *)
(* status: one for a refused file, two for an accepted one, whose except     *)
(* block tries again.  No other path of upload_file leaves a row pending.    *)
Uploads(r, f) == Uploading(req[r]) /\ req[r].file = f

SavesToLose(f) == IF Content[f] # NoValue THEN 2 ELSE 1

PendingHasUploader ==
    \A f \in Files :
      rows[f].status = "pending" /\ crashes = 0 /\ dbErrors < SavesToLose(f) =>
        \E r \in Requests : Uploads(r, f) /\ \A q \in Requests : Uploads(q, f) => q = r

(* A file the administrator deleted never returns, although the upload that  *)
(* created it may still be about to save its status.                         *)
DeletedStaysDeleted ==
    [][\A f \in Files : rows[f].status = "deleted" => rows'[f].status = "deleted"]_vars

(* A logged-out session never comes back, although requests that loaded it   *)
(* before the logout still finish and try to save it.                        *)
LogoutIsFinal == [][\A s \in Sessions : store[s] = NoValue => store'[s] = NoValue]_vars

(* What a session shows, abstracted from the session table: evidence that is *)
(* not bound to the loaded journal is never shown, only kept.                *)
Shown(v) ==
    IF v = NoValue THEN NoValue
    ELSE [dataset |-> IF v.cleaned_data = NoValue THEN NoValue ELSE v.last_uploaded_file,
          evidence |-> IF Binds(v) THEN v.evidence ELSE NoValue]

ASSUME ShownAssumption ==
    NoValue \notin [dataset : Files \cup {NoValue}, evidence : Fingerprints \cup {NoValue}]

Review == INSTANCE ReviewSession WITH
    owner <- [f \in Files |-> rows[f].owner],
    review <- [s \in Sessions |-> Shown(store[s])]

(* JournalSession implements ReviewSession: no interleaving of requests with *)
(* whole-session writes, failures, deletions, crashes and logouts ever lets a *)
(* session show more than the abstract system may show.                      *)
ImplementsReviewSession == Review!Spec

(* While nothing crashes, every pending file is settled or deleted, unless   *)
(* the database refuses as many writes as settle it.                         *)
PendingSettles ==
    \A f \in Files :
      rows[f].status = "pending" ~> rows[f].status # "pending" \/ dbErrors >= SavesToLose(f)

(* tests.py:562 test_failed_upload_clears_previous_cleaned_data: after an    *)
(* upload whose ingestion failed, the session holds no cleaned data.         *)
FailedUploadClears ==
    [][\A r \in Requests :
         /\ req[r].kind = "upload" /\ req[r].outcome = "error"
         /\ req[r].pc \in {"respond", "abort"} /\ req'[r].pc = "idle"
         /\ store'[req[r].session] # NoValue
         => store'[req[r].session].cleaned_data = NoValue]_vars

=============================================================================
