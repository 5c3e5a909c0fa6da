---------------------------- MODULE UserProfiles ----------------------------
(***************************************************************************)
(* core/views.py, core/signals.py: a user's account row and profile row.   *)
(* Every save of the account runs a signal handler that reads the profile, *)
(* or creates it, and saves it whole; the profile pages save the account   *)
(* and then the profile they loaded.  No statement is in a transaction     *)
(* with another.                                                           *)
(***************************************************************************)
EXTENDS Naturals, WebRequests

CONSTANTS
    Values,          \* what a form may hold
    Blank            \* the defaults of a new profile

Stored == Values \cup {Blank}

ASSUME UserProfilesAssumption == NoValue \notin Stored \cup Users

VARIABLES
    account,     \* the user table
    profile,     \* the profile table
    saved,       \* per user, the profile a form last reported as saved
    serving      \* the request each worker thread is serving

profileVars == <<account, profile, saved, serving>>

(* login: the last-login date of the account is saved                        *)
(* profile, edit: a valid form is posted to the page of that name            *)
Kinds == {"login", "profile", "edit"}

(* page: profile loaded by the view, next SaveAccount                        *)
(* signal: account saved, next SignalReads                                   *)
(* saving: profile read by the handler, next SignalSaves                     *)
(* form: handler done, next SaveForm                                         *)
Stages == {"idle", "page", "signal", "saving", "form"}

ProfileRequest == [pc : Stages, kind : Kinds, user : Users \cup {NoValue},
                   value : Stored,
                   loaded : Stored \cup {NoValue},   \* by the view
                   read : Stored \cup {NoValue}]     \* by the handler

IdleThread == [pc |-> "idle", kind |-> "login", user |-> NoValue, value |-> Blank,
               loaded |-> NoValue, read |-> NoValue]

ProfilesTypeOK ==
    /\ account \in [Users -> Stored \cup {NoValue}]
    /\ profile \in [Users -> Stored \cup {NoValue}]
    /\ saved \in [Users -> Stored \cup {NoValue}]
    /\ serving \in [Requests -> ProfileRequest]
    /\ \A r \in Requests : serving[r].pc = "saving" => serving[r].read # NoValue

(* An account that was there before the handlers were has no profile yet.    *)
ProfilesInit ==
    /\ account \in [Users -> {NoValue, Blank}]
    /\ profile = [u \in Users |-> NoValue]
    /\ saved = [u \in Users |-> NoValue]
    /\ serving = [r \in Requests |-> IdleThread]

-----------------------------------------------------------------------------
(* The administrator adds a user; both handlers run in that transaction.     *)
CreateUser(u) ==
    /\ account[u] = NoValue
    /\ account' = [account EXCEPT ![u] = Blank]
    /\ profile' = [profile EXCEPT ![u] = Blank]
    /\ UNCHANGED <<saved, serving>>

(* A login saves the account without changing what a form holds.             *)
Login(r, u) ==
    /\ serving[r].pc = "idle"
    /\ account[u] # NoValue
    /\ serving' = [serving EXCEPT ![r] = [IdleThread EXCEPT !.pc = "signal", !.user = u]]
    /\ UNCHANGED <<account, profile, saved>>

(* profile() makes do without a profile; edit_profile() fails without one.   *)
Post(r, u, k, v) ==
    /\ serving[r].pc = "idle"
    /\ account[u] # NoValue
    /\ k = "edit" => profile[u] # NoValue
    /\ serving' = [serving EXCEPT ![r] = [pc |-> "page", kind |-> k, user |-> u, value |-> v,
                                          loaded |-> profile[u], read |-> NoValue]]
    /\ UNCHANGED <<account, profile, saved>>

(* uform.save().                                                             *)
SaveAccount(r) ==
    /\ serving[r].pc = "page"
    /\ account' = [account EXCEPT ![serving[r].user] = serving[r].value]
    /\ serving' = [serving EXCEPT ![r].pc = "signal"]
    /\ UNCHANGED <<profile, saved>>

(* Faulty variant: a missing profile is left to the handler of new users.    *)
ReadOrCreateNothing(u) == profile[u]

(* UserProfile.objects.get_or_create(user=instance).                         *)
ReadOrCreate(u) == IF profile[u] = NoValue THEN Blank ELSE profile[u]

(* Faulty variant: the handler saves a profile it had not just read.         *)
HandlerProfileDefault(q) == Blank

HandlerProfile(q) == q.read

SignalReads(r) ==
    LET u == serving[r].user IN
    /\ serving[r].pc = "signal"
    /\ profile' = [profile EXCEPT ![u] = ReadOrCreate(u)]
    /\ serving' = [serving EXCEPT ![r] = [@ EXCEPT !.pc = "saving", !.read = ReadOrCreate(u)]]
    /\ UNCHANGED <<account, saved>>

(* profile.save() of the whole row just read.                              *)
SignalSaves(r) ==
    LET u == serving[r].user
        v == HandlerProfile(serving[r]) IN
    /\ serving[r].pc = "saving"
    /\ profile' = [profile EXCEPT ![u] = v]
    /\ serving' = [serving EXCEPT ![r] = IF serving[r].kind = "login" THEN IdleThread
                                     ELSE [@ EXCEPT !.pc = "form"]]
    /\ UNCHANGED <<account, saved>>

(* pform.save(), and the success message.                                    *)
SaveForm(r) ==
    LET u == serving[r].user IN
    /\ serving[r].pc = "form"
    /\ serving[r].loaded # NoValue
    /\ profile' = [profile EXCEPT ![u] = serving[r].value]
    /\ saved' = [saved EXCEPT ![u] = serving[r].value]
    /\ serving' = [serving EXCEPT ![r] = IdleThread]
    /\ UNCHANGED account

(* Without a loaded profile the form makes a new row, which has no user: the *)
(* insertion is refused and the request ends as a 500. *)
SaveFormFails(r) ==
    /\ serving[r].pc = "form"
    /\ serving[r].loaded = NoValue
    /\ serving' = [serving EXCEPT ![r] = IdleThread]
    /\ UNCHANGED <<account, profile, saved>>

ProfilesNext ==
    \/ \E u \in Users : CreateUser(u)
    \/ \E r \in Requests, u \in Users :
         \/ Login(r, u)
         \/ \E k \in {"profile", "edit"}, v \in Values : Post(r, u, k, v)
    \/ \E r \in Requests :
         SaveAccount(r) \/ SignalReads(r) \/ SignalSaves(r) \/ SaveForm(r) \/ SaveFormFails(r)

ProfilesSpec == ProfilesInit /\ [][ProfilesNext]_profileVars

-----------------------------------------------------------------------------
(* Whoever was served has a profile, also a user whose account is older than *)
(* the signal handlers and whose two first requests overlap, and also when   *)
(* the profile form itself failed.                                           *)
ServedUserHasProfile ==
    [][\A r \in Requests :
         serving[r].pc # "idle" /\ serving'[r].pc = "idle" =>
           profile'[serving[r].user] # NoValue]_profileVars

=============================================================================
