-------------------------- MODULE ProviderApproval --------------------------
(***************************************************************************)
(* performance/provider_inspector.py: a staff user previews the exact      *)
(* prompt (GET), which stores a single-use approval in the session, and    *)
(* then confirms sending it (POST).  The POST takes the approval out of    *)
(* the session, checks its age, marks its nonce as consumed in the cache   *)
(* of the worker process, compares the prompt and only then calls the LLM  *)
(* provider.  Settings configure no cache, so each process has its own.    *)
(*                                                                         *)
(* Every request works on the copy of the session it loaded, and other     *)
(* views of the same session may write an old copy, approval included,     *)
(* back over a newer one.                                                  *)
(***************************************************************************)
EXTENDS Naturals

CONSTANTS
    Sessions, Requests, Nonces, Procs,
    Prompts,         \* what build_server_owned_prompt may render, by release
    TTL,             \* APPROVAL_TTL_SECONDS
    MaxStall,        \* longest pause of a thread between expiry check and cache.add
    MinThink,        \* least time between rendering a preview and its first POST
    MaxTime,         \* bound on the clock
    MaxRestarts,     \* bound on restarts of worker processes
    NoValue

ASSUME ConstantsAssumption ==
    /\ TTL \in Nat \ {0}
    /\ MaxStall \in Nat
    /\ MinThink \in Nat
    /\ MaxTime \in Nat
    /\ MaxRestarts \in Nat
    /\ NoValue \notin Sessions \cup Requests \cup Nonces \cup Procs \cup Prompts

(* A thread that found an approval young enough adds its nonce to the cache   *)
(* sooner than a person can answer a page that was just rendered. *)
ASSUME StallAssumption == MaxStall <= MinThink

VARIABLES
    now,         \* the clock, in units of TTL
    live,        \* sessions that were not logged out
    approval,    \* SESSION_APPROVAL_KEY in the session table
    minted,      \* which session previewed a nonce, which prompt and when
    cache,       \* per process: when the entry of a nonce expires, 0 if never added
    prompt,      \* the prompt the release running in a process renders
    calls,       \* provider calls a process made for a nonce since it started
    req,         \* the request each worker thread is serving
    restarts

vars == <<now, live, approval, minted, cache, prompt, calls, req, restarts>>

-----------------------------------------------------------------------------
(* Types. *)

Time == 0..MaxTime

Approval == [nonce : Nonces, prompt : Prompts, issued : Time]

Mint == [session : Sessions, prompt : Prompts, at : Time]

ASSUME NoValueAssumption == NoValue \notin Approval \cup Mint

(* preview: the inspector's GET     post: its POST                         *)
(* other: any other view of the same session                               *)
Kinds == {"preview", "post", "other"}

(* What the user posts: confirm_send = 1 with the preset question, with     *)
(* another question, or no confirmation (or the provider is not enabled).   *)
Forms == {"confirmed", "wrong question", "unconfirmed"}

(* idle    : next BeginPreview, BeginPost or BeginOther                     *)
(* view    : session loaded, next the body of the view                      *)
(* check   : approval popped and the session saved, next Check              *)
(* consume : approval matches and is not expired, next Consume              *)
(* call    : nonce consumed and prompt unchanged, next Call                 *)
(* respond : response ready, next Respond                                   *)
Stages == {"idle", "view", "check", "consume", "call", "respond"}

RequestRecord == [pc : Stages, kind : Kinds, form : Forms,
                  session : Sessions \cup {NoValue}, proc : Procs \cup {NoValue},
                  nonce : Nonces \cup {NoValue},
                  copy : Approval \cup {NoValue},   \* of the session
                  held : Approval \cup {NoValue},   \* popped by a POST
                  checked : Time, modified : BOOLEAN]

Idle == [pc |-> "idle", kind |-> "other", form |-> "unconfirmed",
         session |-> NoValue, proc |-> NoValue, nonce |-> NoValue,
         copy |-> NoValue, held |-> NoValue, checked |-> 0, modified |-> FALSE]

(* From its first step on a thread knows its session and process; only a POST *)
(* reaches the checks, and only with an approval the nonce and the provider. *)
RequestOK(q) ==
    /\ q.pc # "idle" => q.session \in Sessions /\ q.proc \in Procs
    /\ q.kind = "post" => q.nonce \in Nonces
    /\ q.pc \in {"check", "consume", "call"} => q.kind = "post"
    /\ q.pc \in {"consume", "call"} => q.held \in Approval

TypeOK ==
    /\ now \in Time
    /\ live \subseteq Sessions
    /\ approval \in [Sessions -> Approval \cup {NoValue}]
    /\ minted \in [Nonces -> Mint \cup {NoValue}]
    /\ cache \in [Procs -> [Nonces -> 0..(MaxTime + TTL)]]
    /\ prompt \in [Procs -> Prompts]
    /\ calls \in [Procs -> [Nonces -> Nat]]
    /\ req \in [Requests -> RequestRecord]
    /\ \A r \in Requests : RequestOK(req[r])
    /\ restarts \in 0..MaxRestarts

-----------------------------------------------------------------------------
Init ==
    /\ now = 0
    /\ live = Sessions
    /\ approval = [s \in Sessions |-> NoValue]
    /\ minted = [n \in Nonces |-> NoValue]
    /\ cache = [p \in Procs |-> [n \in Nonces |-> 0]]
    /\ prompt \in [Procs -> Prompts]
    /\ calls = [p \in Procs |-> [n \in Nonces |-> 0]]
    /\ req = [r \in Requests |-> Idle]
    /\ restarts = 0

Begin(r, s, p, k, n, form) ==
    /\ req[r].pc = "idle"
    /\ s \in live
    /\ req' = [req EXCEPT ![r] = [pc |-> "view", kind |-> k, form |-> form,
                                  session |-> s, proc |-> p, nonce |-> n,
                                  copy |-> approval[s], held |-> NoValue,
                                  checked |-> 0, modified |-> FALSE]]
    /\ UNCHANGED <<now, live, approval, minted, cache, prompt, calls, restarts>>

BeginPreview(r, s, p) == Begin(r, s, p, "preview", NoValue, "unconfirmed")

BeginOther(r, s, p) == Begin(r, s, p, "other", NoValue, "unconfirmed")

(* A form is posted with a nonce some preview has shown.                     *)
BeginPost(r, s, p, n, form) ==
    /\ minted[n] # NoValue
    /\ now >= minted[n].at + MinThink
    /\ Begin(r, s, p, "post", n, form)

At(r, pc, k) == req[r].pc = pc /\ req[r].kind = k

(* _render_preview: a fresh nonce, and the approval overwrites any other.    *)
Preview(r) ==
    LET p == prompt[req[r].proc] IN
    /\ At(r, "view", "preview")
    /\ \E n \in Nonces :
         /\ minted[n] = NoValue
         /\ minted' = [minted EXCEPT ![n] = [session |-> req[r].session,
                                             prompt |-> p, at |-> now]]
         /\ req' = [req EXCEPT ![r] =
                [@ EXCEPT !.pc = "respond", !.modified = TRUE,
                          !.copy = [nonce |-> n, prompt |-> p, issued |-> now]]]
    /\ UNCHANGED <<now, live, approval, cache, prompt, calls, restarts>>

(* _render_preview while the provider is not enabled.                        *)
PreviewDisabled(r) ==
    /\ At(r, "view", "preview")
    /\ req' = [req EXCEPT ![r].pc = "respond"]
    /\ UNCHANGED <<now, live, approval, minted, cache, prompt, calls, restarts>>

(* Another view of the session, which may or may not modify it; none of them *)
(* knows the approval key. *)
OtherView(r) ==
    /\ At(r, "view", "other")
    /\ \E m \in BOOLEAN :
         req' = [req EXCEPT ![r] = [@ EXCEPT !.pc = "respond", !.modified = m]]
    /\ UNCHANGED <<now, live, approval, minted, cache, prompt, calls, restarts>>

(* _handle_post returns before it touches the session.                       *)
PostUnconfirmed(r) ==
    /\ At(r, "view", "post")
    /\ req[r].form = "unconfirmed"
    /\ req' = [req EXCEPT ![r].pc = "respond"]
    /\ UNCHANGED <<now, live, approval, minted, cache, prompt, calls, restarts>>

(* The approval leaves the session for good before anything is checked.      *)
PopApproval(r) ==
    /\ At(r, "view", "post")
    /\ req[r].form # "unconfirmed"
    /\ req[r].session \in live
    /\ approval' = [approval EXCEPT ![req[r].session] = NoValue]
    /\ req' = [req EXCEPT ![r] = [@ EXCEPT !.pc = "check", !.held = req[r].copy,
                                           !.copy = NoValue, !.modified = TRUE]]
    /\ UNCHANGED <<now, live, minted, cache, prompt, calls, restarts>>

(* session.save() of a session that was logged out raises: a 500.            *)
PopFails(r) ==
    /\ At(r, "view", "post")
    /\ req[r].form # "unconfirmed"
    /\ req[r].session \notin live
    /\ req' = [req EXCEPT ![r] = Idle]
    /\ UNCHANGED <<now, live, approval, minted, cache, prompt, calls, restarts>>

(* Faulty variant: the nonce posted is not compared with the approval's. *)
MatchesAny(r) == req[r].held # NoValue /\ req[r].form = "confirmed"

(* The bindings of the approval: nonce and question (the fixture is fixed).  *)
Matches(r) ==
    /\ req[r].held # NoValue
    /\ req[r].held.nonce = req[r].nonce
    /\ req[r].form = "confirmed"

(* Faulty variant: off by one at the end of the lifetime. *)
ExpiredLate(a) == now - a.issued > TTL

approval_expired(a) == now - a.issued >= TTL

Check(r) ==
    /\ req[r].pc = "check"
    /\ req' = [req EXCEPT ![r] =
            [@ EXCEPT !.pc = IF Matches(r) /\ ~approval_expired(req[r].held)
                             THEN "consume" ELSE "respond",
                      !.checked = now]]
    /\ UNCHANGED <<now, live, approval, minted, cache, prompt, calls, restarts>>

(* Faulty variant: the lifetime is taken for a point in time. *)
EntryExpiresAbsolute == TTL

EntryExpires == now + TTL

(* cache.add refuses while an entry is there that has not expired.           *)
Consumed(p, n) == cache[p][n] > now

PromptUnchanged(r) == prompt[req[r].proc] = req[r].held.prompt

(* consume_approval_nonce and, once it succeeded, the prompt comparison.     *)
Consume(r) ==
    LET p == req[r].proc n == req[r].nonce IN
    /\ req[r].pc = "consume"
    /\ ~Consumed(p, n)
    /\ cache' = [cache EXCEPT ![p][n] = EntryExpires]
    /\ req' = [req EXCEPT ![r].pc = IF PromptUnchanged(r) THEN "call" ELSE "respond"]
    /\ UNCHANGED <<now, live, approval, minted, prompt, calls, restarts>>

ConsumeRefused(r) ==
    /\ req[r].pc = "consume"
    /\ Consumed(req[r].proc, req[r].nonce)
    /\ req' = [req EXCEPT ![r].pc = "respond"]
    /\ UNCHANGED <<now, live, approval, minted, cache, prompt, calls, restarts>>

(* generate_grounded_response makes one provider call and never retries it.  *)
Call(r) ==
    /\ req[r].pc = "call"
    /\ calls' = [calls EXCEPT ![req[r].proc][req[r].nonce] = @ + 1]
    /\ req' = [req EXCEPT ![r].pc = "respond"]
    /\ UNCHANGED <<now, live, approval, minted, cache, prompt, restarts>>

(* get_provider reports PROVIDER_NOT_CONFIGURED, or raises.                  *)
NoProvider(r) ==
    /\ req[r].pc = "call"
    /\ req' = [req EXCEPT ![r].pc = "respond"]
    /\ UNCHANGED <<now, live, approval, minted, cache, prompt, calls, restarts>>

(* The session middleware writes the whole copy back, unless the session was *)
(* logged out meanwhile. *)
Respond(r) ==
    /\ req[r].pc = "respond"
    /\ approval' = IF req[r].modified /\ req[r].session \in live
                   THEN [approval EXCEPT ![req[r].session] = req[r].copy] ELSE approval
    /\ req' = [req EXCEPT ![r] = Idle]
    /\ UNCHANGED <<now, live, minted, cache, prompt, calls, restarts>>

Logout(s) ==
    /\ s \in live
    /\ live' = live \ {s}
    /\ UNCHANGED <<now, approval, minted, cache, prompt, calls, req, restarts>>

(* A restart, of the same release or another, empties the process's cache.   *)
Restart(p) ==
    /\ restarts < MaxRestarts
    /\ restarts' = restarts + 1
    /\ cache' = [cache EXCEPT ![p] = [n \in Nonces |-> 0]]
    /\ calls' = [calls EXCEPT ![p] = [n \in Nonces |-> 0]]
    /\ \E v \in Prompts : prompt' = [prompt EXCEPT ![p] = v]
    /\ req' = [r \in Requests |-> IF req[r].proc = p THEN Idle ELSE req[r]]
    /\ UNCHANGED <<now, live, approval, minted>>

Tick ==
    /\ now < MaxTime
    /\ \A r \in Requests : req[r].pc = "consume" => now < req[r].checked + MaxStall
    /\ now' = now + 1
    /\ UNCHANGED <<live, approval, minted, cache, prompt, calls, req, restarts>>

Advance(r) ==
    \/ Preview(r) \/ PreviewDisabled(r) \/ OtherView(r)
    \/ PostUnconfirmed(r) \/ PopApproval(r) \/ PopFails(r) \/ Check(r)
    \/ Consume(r) \/ ConsumeRefused(r) \/ Call(r) \/ NoProvider(r) \/ Respond(r)

Next ==
    \/ \E r \in Requests, s \in Sessions, p \in Procs :
         \/ BeginPreview(r, s, p)
         \/ BeginOther(r, s, p)
         \/ \E n \in Nonces, form \in Forms : BeginPost(r, s, p, n, form)
    \/ \E r \in Requests : Advance(r)
    \/ \E s \in Sessions : Logout(s)
    \/ \E p \in Procs : Restart(p)
    \/ Tick

Spec == Init /\ [][Next]_vars

=============================================================================
