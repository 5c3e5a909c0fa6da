----------------------- MODULE ProviderApprovalProofs -----------------------
(***************************************************************************)
(* Proofs about ProviderApproval, for any number of sessions, requests,    *)
(* worker processes, nonces and releases, any lifetime and any clock.      *)
(***************************************************************************)
EXTENDS ProviderApprovalProps, TLAPS

(* Every approval was minted for the session that holds it.                *)
Genuine(a, s) ==
    a # NoValue => /\ minted[a.nonce] # NoValue
                   /\ minted[a.nonce].session = s
                   /\ minted[a.nonce].prompt = a.prompt
                   /\ minted[a.nonce].at = a.issued

ApprovalsGenuine ==
    /\ \A s \in Sessions : Genuine(approval[s], s)
    /\ \A r \in Requests : /\ Genuine(req[r].copy, req[r].session)
                           /\ Genuine(req[r].held, req[r].session)

MintedInPast == \A n \in Nonces : minted[n] # NoValue => minted[n].at <= now

(* A post answers a page, and no sooner than MinThink after it was rendered. *)
PostsAnswerPages ==
    \A r \in Requests :
      req[r].kind = "post" =>
        /\ minted[req[r].nonce] # NoValue
        /\ now >= minted[req[r].nonce].at + MinThink

(* What a request that passed Check knows.                                 *)
CheckedApprovals ==
    \A r \in Requests :
      req[r].pc \in {"consume", "call"} =>
        /\ req[r].held.nonce = req[r].nonce
        /\ req[r].checked < req[r].held.issued + TTL
        /\ req[r].pc = "consume" => now <= req[r].checked + MaxStall

(* The entry of a nonce outlives its approval by at least MinThink.        *)
EntriesOutliveApprovals ==
    \A p \in Procs, n \in Nonces :
      cache[p][n] # 0 => /\ minted[n] # NoValue
                         /\ cache[p][n] >= minted[n].at + MinThink + TTL

(* A nonce is added to the cache of a process by one request, before its only *)
(* call. *)
CallsFollowEntries ==
    /\ \A p \in Procs, n \in Nonces : calls[p][n] = 0 \/ (calls[p][n] = 1 /\ cache[p][n] # 0)
    /\ \A r \in Requests :
         req[r].pc = "call" => /\ cache[req[r].proc][req[r].nonce] # 0
                               /\ calls[req[r].proc][req[r].nonce] = 0
                               /\ prompt[req[r].proc] = req[r].held.prompt
    /\ \A q, r \in Requests :
         /\ req[q].pc = "call" /\ req[r].pc = "call"
         /\ req[q].proc = req[r].proc /\ req[q].nonce = req[r].nonce
         => q = r

IInv == /\ TypeOK /\ ApprovalsGenuine /\ MintedInPast /\ PostsAnswerPages
        /\ CheckedApprovals /\ EntriesOutliveApprovals /\ CallsFollowEntries

-----------------------------------------------------------------------------
LEMMA IdleOK == Idle \in RequestRecord /\ RequestOK(Idle)
  BY ConstantsAssumption DEF Idle, RequestRecord, RequestOK, Stages, Kinds, Forms, Time

LEMMA InitTypeOK == Init => TypeOK
  BY IdleOK, ConstantsAssumption DEF Init, TypeOK, Time

(* Serving a request changes the record of one thread.                     *)
LEMMA RequestTyped ==
    ASSUME TypeOK, NEW r \in Requests, NEW q \in RequestRecord, RequestOK(q),
           req' = [req EXCEPT ![r] = q]
    PROVE  /\ req' \in [Requests -> RequestRecord]
           /\ \A t \in Requests : RequestOK(req'[t])
  <1>1. req \in [Requests -> RequestRecord] /\ \A t \in Requests : RequestOK(req[t])
    BY DEF TypeOK
  <1>2. req' \in [Requests -> RequestRecord]
    BY <1>1
  <1>3. ASSUME NEW t \in Requests PROVE RequestOK(req'[t])
    <2>1. CASE t = r
      BY <1>1, <2>1
    <2>2. CASE t # r
      BY <1>1, <2>2
    <2> QED
      BY <2>1, <2>2
  <1> QED
    BY <1>2, <1>3

LEMMA NextTypeOK == TypeOK /\ [Next]_vars => TypeOK'
<1> SUFFICES ASSUME TypeOK, [Next]_vars PROVE TypeOK'
  OBVIOUS
<1> USE ConstantsAssumption
<1>0. \A t \in Requests : req[t] \in RequestRecord
  BY DEF TypeOK
<1>1. ASSUME NEW r \in Requests, NEW s \in Sessions, NEW p \in Procs,
             NEW k \in Kinds, NEW n \in Nonces \cup {NoValue}, NEW form \in Forms,
             k = "post" => n \in Nonces,
             Begin(r, s, p, k, n, form)
      PROVE TypeOK'
  <2> DEFINE q == [pc |-> "view", kind |-> k, form |-> form, session |-> s, proc |-> p,
                   nonce |-> n, copy |-> approval[s], held |-> NoValue,
                   checked |-> 0, modified |-> FALSE]
  <2>1. q \in RequestRecord /\ RequestOK(q)
    BY <1>1 DEF TypeOK, RequestRecord, RequestOK, Stages, Time
  <2>2. req' = [req EXCEPT ![r] = q]
    BY <1>1 DEF Begin
  <2> HIDE DEF q
  <2> QED
    BY <1>1, <2>1, <2>2, RequestTyped DEF Begin, TypeOK
<1>2. ASSUME NEW r \in Requests, Preview(r) PROVE TypeOK'
  <2> DEFINE p == prompt[req[r].proc]
  <2>1. PICK n \in Nonces :
          /\ minted' = [minted EXCEPT ![n] = [session |-> req[r].session,
                                              prompt |-> p, at |-> now]]
          /\ req' = [req EXCEPT ![r] =
                 [@ EXCEPT !.pc = "respond", !.modified = TRUE,
                           !.copy = [nonce |-> n, prompt |-> p, issued |-> now]]]
    BY <1>2 DEF Preview
  <2>2. p \in Prompts /\ req[r].session \in Sessions
    BY <1>2 DEF Preview, At, TypeOK, RequestOK
  <2>3. [nonce |-> n, prompt |-> p, issued |-> now] \in Approval
    BY <2>2 DEF TypeOK, Approval
  <2> HIDE DEF p
  <2> DEFINE q == [req[r] EXCEPT !.pc = "respond", !.modified = TRUE,
                     !.copy = [nonce |-> n, prompt |-> p, issued |-> now]]
  <2>4. q \in RequestRecord
    BY <1>0, <2>3 DEF RequestRecord, Stages
  <2>5. RequestOK(q)
    BY <1>2 DEF TypeOK, RequestRecord, RequestOK, Preview, At
  <2>6. req' = [req EXCEPT ![r] = q]
    BY <2>1
  <2>7. minted' \in [Nonces -> Mint \cup {NoValue}]
    BY <2>1, <2>2 DEF TypeOK, Mint
  <2> HIDE DEF q
  <2> QED
    BY <1>2, <2>4, <2>5, <2>6, <2>7, RequestTyped DEF Preview, TypeOK
<1>3. ASSUME NEW r \in Requests, PreviewDisabled(r) PROVE TypeOK'
  <2> DEFINE q == [req[r] EXCEPT !.pc = "respond"]
  <2>1. q \in RequestRecord
    BY <1>0 DEF RequestRecord, Stages
  <2>2. RequestOK(q)
    BY <1>3 DEF TypeOK, RequestRecord, RequestOK, PreviewDisabled, At
  <2>3. req' = [req EXCEPT ![r] = q]
    BY <1>3 DEF PreviewDisabled
  <2> HIDE DEF q
  <2> QED
    BY <1>3, <2>1, <2>2, <2>3, RequestTyped DEF PreviewDisabled, TypeOK
<1>4. ASSUME NEW r \in Requests, OtherView(r) PROVE TypeOK'
  <2>0. PICK m \in BOOLEAN :
          req' = [req EXCEPT ![r] = [@ EXCEPT !.pc = "respond", !.modified = m]]
    BY <1>4 DEF OtherView
  <2> DEFINE q == [req[r] EXCEPT !.pc = "respond", !.modified = m]
  <2>1. q \in RequestRecord
    BY <1>0 DEF RequestRecord, Stages
  <2>2. RequestOK(q)
    BY <1>4 DEF TypeOK, RequestRecord, RequestOK, OtherView, At
  <2>3. req' = [req EXCEPT ![r] = q]
    BY <2>0
  <2> HIDE DEF q
  <2> QED
    BY <1>4, <2>1, <2>2, <2>3, RequestTyped DEF OtherView, TypeOK
<1>5. ASSUME NEW r \in Requests, PostUnconfirmed(r) PROVE TypeOK'
  <2> DEFINE q == [req[r] EXCEPT !.pc = "respond"]
  <2>1. q \in RequestRecord
    BY <1>0 DEF RequestRecord, Stages
  <2>2. RequestOK(q)
    BY <1>5 DEF TypeOK, RequestRecord, RequestOK, PostUnconfirmed, At
  <2>3. req' = [req EXCEPT ![r] = q]
    BY <1>5 DEF PostUnconfirmed
  <2> HIDE DEF q
  <2> QED
    BY <1>5, <2>1, <2>2, <2>3, RequestTyped DEF PostUnconfirmed, TypeOK
<1>6. ASSUME NEW r \in Requests, PopApproval(r) PROVE TypeOK'
  <2> DEFINE q == [req[r] EXCEPT !.pc = "check", !.held = req[r].copy,
                             !.copy = NoValue, !.modified = TRUE]
  <2>0. req[r].copy \in Approval \cup {NoValue}
    BY <1>0 DEF RequestRecord
  <2>1. q \in RequestRecord
    BY <1>0, <2>0 DEF RequestRecord, Stages
  <2>2. RequestOK(q)
    BY <1>6 DEF TypeOK, RequestRecord, RequestOK, PopApproval, At
  <2>3. req' = [req EXCEPT ![r] = q]
    BY <1>6 DEF PopApproval
  <2> HIDE DEF q
  <2> QED
    BY <1>6, <2>1, <2>2, <2>3, RequestTyped DEF PopApproval, TypeOK
<1>7. ASSUME NEW r \in Requests, PopFails(r) PROVE TypeOK'
  BY <1>7, IdleOK, RequestTyped DEF PopFails, TypeOK
<1>8. ASSUME NEW r \in Requests, Check(r) PROVE TypeOK'
  <2> DEFINE q == [req[r] EXCEPT !.pc = IF Matches(r) /\ ~approval_expired(req[r].held)
                                  THEN "consume" ELSE "respond",
                             !.checked = now]
  <2>0. now \in Time
    BY DEF TypeOK
  <2>1. q \in RequestRecord
    BY <1>0, <2>0 DEF RequestRecord, Stages
  <2>2. RequestOK(q)
    BY <1>8 DEF TypeOK, RequestRecord, RequestOK, Check, Matches
  <2>3. req' = [req EXCEPT ![r] = q]
    BY <1>8 DEF Check
  <2> HIDE DEF q
  <2> QED
    BY <1>8, <2>1, <2>2, <2>3, RequestTyped DEF Check, TypeOK
<1>9. ASSUME NEW r \in Requests, Consume(r) PROVE TypeOK'
  <2> DEFINE q == [req[r] EXCEPT !.pc = IF PromptUnchanged(r) THEN "call" ELSE "respond"]
  <2>1. q \in RequestRecord
    BY <1>0 DEF RequestRecord, Stages
  <2>2. RequestOK(q)
    BY <1>9 DEF TypeOK, RequestRecord, RequestOK, Consume
  <2>3. req' = [req EXCEPT ![r] = q]
    BY <1>9 DEF Consume
  <2> HIDE DEF q
  <2>4. cache' \in [Procs -> [Nonces -> 0..(MaxTime + TTL)]]
    BY <1>9 DEF Consume, EntryExpires, TypeOK, RequestOK, Time
  <2> QED
    BY <1>9, <2>1, <2>2, <2>3, <2>4, RequestTyped DEF Consume, TypeOK
<1>10. ASSUME NEW r \in Requests, ConsumeRefused(r) PROVE TypeOK'
  <2> DEFINE q == [req[r] EXCEPT !.pc = "respond"]
  <2>1. q \in RequestRecord
    BY <1>0 DEF RequestRecord, Stages
  <2>2. RequestOK(q)
    BY <1>10 DEF TypeOK, RequestRecord, RequestOK, ConsumeRefused
  <2>3. req' = [req EXCEPT ![r] = q]
    BY <1>10 DEF ConsumeRefused
  <2> HIDE DEF q
  <2> QED
    BY <1>10, <2>1, <2>2, <2>3, RequestTyped DEF ConsumeRefused, TypeOK
<1>11. ASSUME NEW r \in Requests, Call(r) PROVE TypeOK'
  <2> DEFINE q == [req[r] EXCEPT !.pc = "respond"]
  <2>1. q \in RequestRecord
    BY <1>0 DEF RequestRecord, Stages
  <2>2. RequestOK(q)
    BY <1>11 DEF TypeOK, RequestRecord, RequestOK, Call
  <2>3. req' = [req EXCEPT ![r] = q]
    BY <1>11 DEF Call
  <2> HIDE DEF q
  <2>4. calls' \in [Procs -> [Nonces -> Nat]]
    BY <1>11 DEF Call, TypeOK, RequestOK
  <2> QED
    BY <1>11, <2>1, <2>2, <2>3, <2>4, RequestTyped DEF Call, TypeOK
<1>12. ASSUME NEW r \in Requests, NoProvider(r) PROVE TypeOK'
  <2> DEFINE q == [req[r] EXCEPT !.pc = "respond"]
  <2>1. q \in RequestRecord
    BY <1>0 DEF RequestRecord, Stages
  <2>2. RequestOK(q)
    BY <1>12 DEF TypeOK, RequestRecord, RequestOK, NoProvider
  <2>3. req' = [req EXCEPT ![r] = q]
    BY <1>12 DEF NoProvider
  <2> HIDE DEF q
  <2> QED
    BY <1>12, <2>1, <2>2, <2>3, RequestTyped DEF NoProvider, TypeOK
<1>13. ASSUME NEW r \in Requests, Respond(r) PROVE TypeOK'
  <2>1. req[r].session \in Sessions /\ req[r].copy \in Approval \cup {NoValue}
    BY <1>13 DEF Respond, TypeOK, RequestOK, RequestRecord
  <2>2. approval' \in [Sessions -> Approval \cup {NoValue}]
    BY <1>13, <2>1 DEF Respond, TypeOK
  <2> QED
    BY <1>13, <2>2, IdleOK, RequestTyped DEF Respond, TypeOK
<1>14. ASSUME NEW s \in Sessions, Logout(s) PROVE TypeOK'
  BY <1>14 DEF Logout, TypeOK
<1>15. ASSUME NEW p \in Procs, Restart(p) PROVE TypeOK'
  <2>1. req' \in [Requests -> RequestRecord] /\ \A t \in Requests : RequestOK(req'[t])
    BY <1>15, IdleOK DEF Restart, TypeOK
  <2> QED
    BY <1>15, <2>1 DEF Restart, TypeOK
<1>16. CASE Tick
  BY <1>16 DEF Tick, TypeOK, Time
<1>17. CASE UNCHANGED vars
  BY <1>17 DEF vars, TypeOK
<1>18. ASSUME NEW r \in Requests, NEW s \in Sessions, NEW p \in Procs,
             BeginPreview(r, s, p) \/ BeginOther(r, s, p)
               \/ \E n \in Nonces, form \in Forms : BeginPost(r, s, p, n, form)
      PROVE TypeOK'
  BY <1>18, <1>1 DEF BeginPreview, BeginOther, BeginPost, Kinds, Forms
<1> QED
  BY <1>2, <1>3, <1>4, <1>5, <1>6, <1>7, <1>8, <1>9, <1>10, <1>11, <1>12, <1>13, <1>14, <1>15, <1>16, <1>17, <1>18 DEF Next, Advance

(* Every value the state of the approval workflow takes has its type: threads *)
(* always know their session and process, and no request reaches the nonce or *)
(* the provider without an approval in hand. *)
THEOREM TypeCorrect == Spec => []TypeOK
  BY InitTypeOK, NextTypeOK, PTL DEF Spec

-----------------------------------------------------------------------------
(* Steps that change nothing of the requests but the stage of one thread, its *)
(* modified flag and the time it looked at the clock. *)
LocalStep(r) ==
    \/ PreviewDisabled(r) \/ OtherView(r) \/ PostUnconfirmed(r) \/ Check(r)
    \/ Consume(r) \/ ConsumeRefused(r) \/ Call(r) \/ NoProvider(r)

LEMMA LocalFrame ==
    ASSUME TypeOK, NEW r \in Requests, LocalStep(r)
    PROVE  /\ UNCHANGED <<now, live, approval, minted, prompt, restarts>>
           /\ \A t \in Requests :
                /\ t # r => req'[t] = req[t]
                /\ req'[t].session = req[t].session /\ req'[t].proc = req[t].proc
                /\ req'[t].nonce = req[t].nonce /\ req'[t].kind = req[t].kind
                /\ req'[t].copy = req[t].copy /\ req'[t].held = req[t].held
<1> DEFINE Same(q) ==
      /\ q.session = req[r].session /\ q.proc = req[r].proc /\ q.nonce = req[r].nonce
      /\ q.kind = req[r].kind /\ q.copy = req[r].copy /\ q.held = req[r].held
<1>1. req \in [Requests -> RequestRecord] /\ req[r] \in RequestRecord
  BY DEF TypeOK
<1>2. \E q : Same(q) /\ req' = [req EXCEPT ![r] = q]
  <2>1. ASSUME NEW pc \in Stages, req' = [req EXCEPT ![r].pc = pc]
        PROVE \E q : Same(q) /\ req' = [req EXCEPT ![r] = q]
    <3>1. Same([req[r] EXCEPT !.pc = pc])
      BY <1>1 DEF RequestRecord
    <3> QED
      BY <2>1, <3>1
  <2>2. CASE OtherView(r)
    <3>1. PICK m \in BOOLEAN :
            req' = [req EXCEPT ![r] = [@ EXCEPT !.pc = "respond", !.modified = m]]
      BY <2>2 DEF OtherView
    <3>2. Same([req[r] EXCEPT !.pc = "respond", !.modified = m])
      BY <1>1 DEF RequestRecord
    <3> QED
      BY <3>1, <3>2
  <2>3. CASE Check(r)
    <3> DEFINE q == [req[r] EXCEPT !.pc = IF Matches(r) /\ ~approval_expired(req[r].held)
                                      THEN "consume" ELSE "respond",
                                 !.checked = now]
    <3>1. Same(q)
      BY <1>1 DEF RequestRecord
    <3>2. req' = [req EXCEPT ![r] = q]
      BY <2>3 DEF Check
    <3> HIDE DEF q
    <3> QED
      BY <3>1, <3>2
  <2>4. CASE Consume(r)
    <3>1. CASE PromptUnchanged(r)
      BY <2>1, <2>4, <3>1 DEF Consume, Stages
    <3>2. CASE ~PromptUnchanged(r)
      BY <2>1, <2>4, <3>2 DEF Consume, Stages
    <3> QED
      BY <3>1, <3>2
  <2>5. CASE \/ PreviewDisabled(r) \/ PostUnconfirmed(r) \/ ConsumeRefused(r)
             \/ Call(r) \/ NoProvider(r)
    BY <2>1, <2>5 DEF PreviewDisabled, PostUnconfirmed, ConsumeRefused, Call, NoProvider,
                      Stages
  <2> QED
    BY <2>2, <2>3, <2>4, <2>5 DEF LocalStep
<1>3. UNCHANGED <<now, live, approval, minted, prompt, restarts>>
  BY DEF LocalStep, PreviewDisabled, OtherView, PostUnconfirmed, Check, Consume,
         ConsumeRefused, Call, NoProvider
<1>4. PICK q : Same(q) /\ req' = [req EXCEPT ![r] = q]
  BY <1>2
<1> QED
  BY <1>1, <1>3, <1>4

LEMMA NextMintedInPast ==
    ASSUME TypeOK, MintedInPast, [Next]_vars PROVE MintedInPast'
<1> USE ConstantsAssumption, NoValueAssumption
<1>1. ASSUME NEW r \in Requests, Preview(r) PROVE MintedInPast'
  <2>1. PICK n \in Nonces :
          minted' = [minted EXCEPT ![n] = [session |-> req[r].session,
                                           prompt |-> prompt[req[r].proc], at |-> now]]
    BY <1>1 DEF Preview
  <2> QED
    BY <1>1, <2>1 DEF Preview, MintedInPast, TypeOK, Time
<1>2. CASE Tick
  BY <1>2 DEF Tick, MintedInPast, TypeOK, Time, Mint
<1>3. CASE UNCHANGED <<now, minted>>
  BY <1>3 DEF MintedInPast
<1>4. ASSUME NEW r \in Requests, LocalStep(r) PROVE UNCHANGED <<now, minted>>
  BY <1>4, LocalFrame
<1> QED
  BY <1>1, <1>2, <1>3, <1>4 DEF Next, Advance, LocalStep, BeginPreview, BeginOther, BeginPost,
     Begin, PopApproval, PopFails, Respond, Logout, Restart, vars

(* What each step makes of the requests, the approvals and the mint records. *)
LEMMA NextApprovalsGenuine ==
    ASSUME TypeOK, ApprovalsGenuine, [Next]_vars PROVE ApprovalsGenuine'
<1> USE ConstantsAssumption, NoValueAssumption
<1>0. /\ req \in [Requests -> RequestRecord]
      /\ approval \in [Sessions -> Approval \cup {NoValue}]
  BY DEF TypeOK
<1>1. ASSUME NEW r \in Requests, NEW s \in Sessions, NEW p \in Procs, NEW k \in Kinds,
             NEW n \in Nonces \cup {NoValue}, NEW form \in Forms, Begin(r, s, p, k, n, form)
      PROVE ApprovalsGenuine'
  <2>1. /\ req'[r].copy = approval[s] /\ req'[r].held = NoValue /\ req'[r].session = s
        /\ \A t \in Requests : t # r => req'[t] = req[t]
    BY <1>0, <1>1 DEF Begin
  <2> QED
    BY <1>1, <2>1 DEF Begin, ApprovalsGenuine, Genuine
<1>2. ASSUME NEW r \in Requests, Preview(r) PROVE ApprovalsGenuine'
  <2>1. PICK n \in Nonces, a \in Approval, m \in Mint :
          /\ a.nonce = n /\ a.prompt = m.prompt /\ a.issued = m.at
          /\ m.session = req[r].session
          /\ minted[n] = NoValue
          /\ minted' = [minted EXCEPT ![n] = m]
          /\ req' = [req EXCEPT ![r] =
                 [@ EXCEPT !.pc = "respond", !.modified = TRUE, !.copy = a]]
    <3>1. now \in Time /\ prompt[req[r].proc] \in Prompts /\ req[r].session \in Sessions
      BY <1>2 DEF Preview, At, TypeOK, RequestOK
    <3> QED
      BY <1>2, <3>1 DEF Preview, Approval, Mint
  <2>2. /\ req'[r].copy = a /\ req'[r].held = req[r].held
        /\ req'[r].session = req[r].session
        /\ \A t \in Requests : t # r => req'[t] = req[t]
    BY <1>0, <2>1 DEF RequestRecord
  <2>3. minted'[n] = m /\ m # NoValue
    BY <2>1 DEF TypeOK
  <2>4. \A b \in Approval : minted[b.nonce] # NoValue => minted'[b.nonce] = minted[b.nonce]
    BY <2>1 DEF TypeOK, Approval
  <2>5. Genuine(req[r].copy, req[r].session)'
    BY <2>1, <2>2, <2>3 DEF Genuine
  <2>6. ASSUME NEW t \in Requests
        PROVE  Genuine(req[t].copy, req[t].session)' /\ Genuine(req[t].held, req[t].session)'
    <3>1. req[t].copy \in Approval \cup {NoValue} /\ req[t].held \in Approval \cup {NoValue}
      BY <1>0 DEF RequestRecord
    <3>2. Genuine(req[t].copy, req[t].session) /\ Genuine(req[t].held, req[t].session)
      BY DEF ApprovalsGenuine
    <3>3. CASE t = r
      BY <2>2, <2>4, <2>5, <3>1, <3>2, <3>3 DEF Genuine
    <3>4. CASE t # r
      BY <2>2, <2>4, <3>1, <3>2, <3>4 DEF Genuine
    <3> QED
      BY <3>3, <3>4
  <2>7. \A s \in Sessions : Genuine(approval[s], s)'
    BY <1>0, <1>2, <2>4 DEF ApprovalsGenuine, Genuine, Preview
  <2> QED
    BY <2>6, <2>7 DEF ApprovalsGenuine
<1>3. ASSUME NEW r \in Requests, PopApproval(r) PROVE ApprovalsGenuine'
  <2>1. /\ req'[r].copy = NoValue /\ req'[r].held = req[r].copy
        /\ req'[r].session = req[r].session
        /\ \A t \in Requests : t # r => req'[t] = req[t]
    BY <1>0, <1>3 DEF PopApproval, RequestRecord
  <2> QED
    BY <1>0, <1>3, <2>1 DEF PopApproval, ApprovalsGenuine, Genuine
<1>4. ASSUME NEW r \in Requests, Respond(r) \/ PopFails(r) PROVE ApprovalsGenuine'
  <2>1. /\ req'[r].copy = NoValue /\ req'[r].held = NoValue
        /\ \A t \in Requests : t # r => req'[t] = req[t]
    BY <1>0, <1>4 DEF Respond, PopFails, Idle
  <2> QED
    BY <1>0, <1>4, <2>1 DEF Respond, PopFails, ApprovalsGenuine, Genuine
<1>5. ASSUME NEW r \in Requests, LocalStep(r) PROVE ApprovalsGenuine'
  BY <1>5, LocalFrame DEF ApprovalsGenuine, Genuine
<1>6. ASSUME NEW p \in Procs, Restart(p) PROVE ApprovalsGenuine'
  BY <1>6 DEF Restart, ApprovalsGenuine, Genuine, Idle
<1>7. CASE UNCHANGED <<approval, minted, req>>
  BY <1>7 DEF ApprovalsGenuine, Genuine
<1>8. ASSUME NEW r \in Requests, Advance(r) PROVE ApprovalsGenuine'
  BY <1>2, <1>3, <1>4, <1>5, <1>8 DEF Advance, LocalStep
<1>9. ASSUME NEW r \in Requests, NEW s \in Sessions, NEW p \in Procs,
             BeginPreview(r, s, p) \/ BeginOther(r, s, p)
               \/ \E n \in Nonces, form \in Forms : BeginPost(r, s, p, n, form)
      PROVE ApprovalsGenuine'
  BY <1>1, <1>9 DEF BeginPreview, BeginOther, BeginPost, Kinds, Forms
<1> QED
  BY <1>6, <1>7, <1>8, <1>9 DEF Next, Logout, Tick, vars

LEMMA NextPostsAnswerPages ==
    ASSUME TypeOK, PostsAnswerPages, [Next]_vars PROVE PostsAnswerPages'
<1> USE ConstantsAssumption, NoValueAssumption
<1>0. req \in [Requests -> RequestRecord] /\ \A r \in Requests : RequestOK(req[r])
  BY DEF TypeOK
<1>1. ASSUME NEW r \in Requests, NEW s \in Sessions, NEW p \in Procs, NEW k \in Kinds,
             NEW n \in Nonces \cup {NoValue}, NEW form \in Forms, Begin(r, s, p, k, n, form),
             k = "post" => minted[n] # NoValue /\ now >= minted[n].at + MinThink
      PROVE PostsAnswerPages'
  <2>1. /\ req'[r].kind = k /\ req'[r].nonce = n
        /\ \A t \in Requests : t # r => req'[t] = req[t]
    BY <1>0, <1>1 DEF Begin
  <2> QED
    BY <1>1, <2>1 DEF Begin, PostsAnswerPages
<1>2. ASSUME NEW r \in Requests, Preview(r) PROVE PostsAnswerPages'
  <2>1. PICK n \in Nonces :
          minted[n] = NoValue /\ \E m : minted' = [minted EXCEPT ![n] = m]
    BY <1>2 DEF Preview
  <2>2. \A t \in Requests : req'[t].kind = req[t].kind /\ req'[t].nonce = req[t].nonce
    BY <1>0, <1>2 DEF Preview, RequestRecord
  <2> QED
    BY <1>0, <1>2, <2>1, <2>2 DEF Preview, PostsAnswerPages, TypeOK, RequestOK
<1>3. ASSUME NEW r \in Requests, PopApproval(r) PROVE PostsAnswerPages'
  <2>1. \A t \in Requests : req'[t].kind = req[t].kind /\ req'[t].nonce = req[t].nonce
    BY <1>0, <1>3 DEF PopApproval, RequestRecord
  <2> QED
    BY <1>3, <2>1 DEF PopApproval, PostsAnswerPages
<1>4. ASSUME NEW r \in Requests, Respond(r) \/ PopFails(r) PROVE PostsAnswerPages'
  BY <1>0, <1>4 DEF Respond, PopFails, Idle, PostsAnswerPages
<1>5. ASSUME NEW r \in Requests, LocalStep(r) PROVE PostsAnswerPages'
  BY <1>5, LocalFrame DEF PostsAnswerPages
<1>6. ASSUME NEW p \in Procs, Restart(p) PROVE PostsAnswerPages'
  BY <1>6 DEF Restart, PostsAnswerPages, Idle
<1>7. CASE Tick
  <2>1. \A r \in Requests : req[r].kind = "post" /\ minted[req[r].nonce] # NoValue
          => minted[req[r].nonce].at \in Time
    BY DEF TypeOK, RequestOK, Mint
  <2> QED
    BY <1>7, <2>1 DEF Tick, PostsAnswerPages, TypeOK, Time
<1>8. CASE UNCHANGED <<now, minted, req>>
  BY <1>8 DEF PostsAnswerPages
<1>9. ASSUME NEW r \in Requests, Advance(r) PROVE PostsAnswerPages'
  BY <1>2, <1>3, <1>4, <1>5, <1>9 DEF Advance, LocalStep
<1>10. ASSUME NEW r \in Requests, NEW s \in Sessions, NEW p \in Procs,
              BeginPreview(r, s, p) \/ BeginOther(r, s, p)
                \/ \E n \in Nonces, form \in Forms : BeginPost(r, s, p, n, form)
       PROVE PostsAnswerPages'
  BY <1>1, <1>10 DEF BeginPreview, BeginOther, BeginPost, Kinds, Forms
<1> QED
  BY <1>6, <1>7, <1>8, <1>9, <1>10 DEF Next, Logout, vars

LEMMA NextCheckedApprovals ==
    ASSUME TypeOK, CheckedApprovals, [Next]_vars PROVE CheckedApprovals'
<1> USE ConstantsAssumption, NoValueAssumption
<1>0. req \in [Requests -> RequestRecord] /\ \A r \in Requests : RequestOK(req[r])
  BY DEF TypeOK
<1>1. ASSUME NEW r \in Requests, UNCHANGED now,
             \A t \in Requests : t # r => req'[t] = req[t],
             req'[r].pc \notin {"consume", "call"}
      PROVE CheckedApprovals'
  BY <1>1 DEF CheckedApprovals
<1>2. ASSUME NEW r \in Requests, NEW s \in Sessions, NEW p \in Procs, NEW k \in Kinds,
             NEW n \in Nonces \cup {NoValue}, NEW form \in Forms, Begin(r, s, p, k, n, form)
      PROVE CheckedApprovals'
  BY <1>0, <1>1, <1>2 DEF Begin
<1>3. ASSUME NEW r \in Requests,
             \/ Preview(r) \/ OtherView(r) \/ PopApproval(r) \/ Respond(r) \/ PopFails(r)
             \/ PreviewDisabled(r) \/ PostUnconfirmed(r) \/ ConsumeRefused(r)
             \/ Call(r) \/ NoProvider(r)
      PROVE CheckedApprovals'
  <2>1. req'[r].pc \in {"respond", "check", "idle"}
    <3>1. CASE Preview(r)
      BY <1>0, <3>1 DEF Preview, RequestRecord
    <3>2. CASE OtherView(r)
      BY <1>0, <3>2 DEF OtherView, RequestRecord
    <3>3. CASE PopApproval(r)
      BY <1>0, <3>3 DEF PopApproval, RequestRecord
    <3>4. CASE Respond(r) \/ PopFails(r)
      BY <1>0, <3>4 DEF Respond, PopFails, Idle
    <3>5. CASE \/ PreviewDisabled(r) \/ PostUnconfirmed(r) \/ ConsumeRefused(r)
               \/ Call(r) \/ NoProvider(r)
      BY <1>0, <3>5 DEF PreviewDisabled, PostUnconfirmed, ConsumeRefused, Call, NoProvider,
         RequestRecord
    <3> QED
      BY <1>3, <3>1, <3>2, <3>3, <3>4, <3>5
  <2>2. UNCHANGED now /\ \A t \in Requests : t # r => req'[t] = req[t]
    BY <1>0, <1>3 DEF Preview, OtherView, PopApproval, Respond, PopFails, PreviewDisabled,
       PostUnconfirmed, ConsumeRefused, Call, NoProvider
  <2> QED
    BY <1>1, <2>1, <2>2
<1>4. ASSUME NEW r \in Requests, Check(r) PROVE CheckedApprovals'
  <2> DEFINE ok == Matches(r) /\ ~approval_expired(req[r].held)
             q == [req[r] EXCEPT !.pc = IF ok THEN "consume" ELSE "respond", !.checked = now]
  <2>1. req' = [req EXCEPT ![r] = q] /\ UNCHANGED now
    BY <1>4 DEF Check
  <2>2. q.pc = (IF ok THEN "consume" ELSE "respond") /\ q.held = req[r].held
        /\ q.nonce = req[r].nonce /\ q.checked = now
    BY <1>0 DEF RequestRecord
  <2> HIDE DEF q
  <2>3. CASE ok
    <3>1. req[r].held.nonce = req[r].nonce /\ req[r].held \in Approval
      BY <1>0, <2>3 DEF Matches, RequestRecord
    <3>2. now < req[r].held.issued + TTL
      BY <2>3, <3>1 DEF approval_expired, Approval, TypeOK, Time
    <3> QED
      BY <1>0, <2>1, <2>2, <2>3, <3>1, <3>2 DEF CheckedApprovals, TypeOK, Time
  <2>4. CASE ~ok
    <3>1. req'[r].pc = "respond" /\ \A t \in Requests : t # r => req'[t] = req[t]
      BY <1>0, <2>1, <2>2, <2>4
    <3> QED
      BY <1>1, <2>1, <3>1
  <2> QED
    BY <2>3, <2>4
<1>5. ASSUME NEW r \in Requests, Consume(r) PROVE CheckedApprovals'
  <2> DEFINE q == [req[r] EXCEPT !.pc = IF PromptUnchanged(r) THEN "call" ELSE "respond"]
  <2>1. req' = [req EXCEPT ![r] = q] /\ UNCHANGED now
    BY <1>5 DEF Consume
  <2>2. q.pc \in {"call", "respond"} /\ q.held = req[r].held
        /\ q.nonce = req[r].nonce /\ q.checked = req[r].checked
    BY <1>0 DEF RequestRecord
  <2> HIDE DEF q
  <2>3. req[r].pc = "consume"
    BY <1>5 DEF Consume
  <2> QED
    BY <1>0, <2>1, <2>2, <2>3 DEF CheckedApprovals
<1>6. ASSUME NEW p \in Procs, Restart(p) PROVE CheckedApprovals'
  BY <1>6 DEF Restart, CheckedApprovals, Idle
<1>7. CASE Tick
  <2>1. \A r \in Requests : req[r].checked \in Time
    BY <1>0 DEF RequestRecord
  <2> QED
    BY <1>7, <2>1 DEF Tick, CheckedApprovals, TypeOK, Time
<1>8. CASE UNCHANGED <<now, req>>
  BY <1>8 DEF CheckedApprovals
<1>9. ASSUME NEW r \in Requests, Advance(r) PROVE CheckedApprovals'
  BY <1>3, <1>4, <1>5, <1>9 DEF Advance
<1>10. ASSUME NEW r \in Requests, NEW s \in Sessions, NEW p \in Procs,
              BeginPreview(r, s, p) \/ BeginOther(r, s, p)
                \/ \E n \in Nonces, form \in Forms : BeginPost(r, s, p, n, form)
       PROVE CheckedApprovals'
  BY <1>2, <1>10 DEF BeginPreview, BeginOther, BeginPost, Kinds, Forms
<1> QED
  BY <1>6, <1>7, <1>8, <1>9, <1>10 DEF Next, Logout, vars

(* The key step: Consume only succeeds for a nonce that was never added.  An *)
(* entry outlives the approval by MinThink, and a request that found the   *)
(* approval young enough is at most MaxStall behind the clock.             *)
LEMMA ConsumeIsFirst ==
    ASSUME TypeOK, ApprovalsGenuine, CheckedApprovals, EntriesOutliveApprovals,
           NEW r \in Requests, Consume(r)
    PROVE  cache[req[r].proc][req[r].nonce] = 0
<1> DEFINE p == req[r].proc n == req[r].nonce
<1>1. p \in Procs /\ n \in Nonces /\ req[r].held \in Approval /\ req[r].checked \in Time
  BY DEF Consume, TypeOK, RequestOK, RequestRecord
<1>2. minted[n] # NoValue /\ req[r].held.issued = minted[n].at /\ minted[n].at \in Time
  BY <1>1, NoValueAssumption DEF Consume, CheckedApprovals, ApprovalsGenuine, Genuine, TypeOK, Mint
<1>3. now < minted[n].at + TTL + MaxStall
  BY <1>1, <1>2, ConstantsAssumption DEF Consume, CheckedApprovals, TypeOK, Time
<1>4. cache[p][n] # 0 => cache[p][n] >= minted[n].at + MinThink + TTL
  BY <1>1 DEF EntriesOutliveApprovals
<1>5. cache[p][n] <= now /\ cache[p][n] \in Nat
  BY <1>1, ConstantsAssumption DEF Consume, Consumed, TypeOK, Time
<1> QED
  BY <1>1, <1>2, <1>3, <1>4, <1>5, ConstantsAssumption, StallAssumption DEF TypeOK, Time

LEMMA NextEntriesOutliveApprovals ==
    ASSUME TypeOK, PostsAnswerPages, EntriesOutliveApprovals, [Next]_vars
    PROVE  EntriesOutliveApprovals'
<1> USE ConstantsAssumption, NoValueAssumption
<1>1. ASSUME NEW r \in Requests, Preview(r) PROVE EntriesOutliveApprovals'
  <2>1. PICK n \in Nonces :
          minted[n] = NoValue /\ \E m : minted' = [minted EXCEPT ![n] = m]
    BY <1>1 DEF Preview
  <2> QED
    BY <1>1, <2>1 DEF Preview, EntriesOutliveApprovals, TypeOK
<1>2. ASSUME NEW r \in Requests, Consume(r) PROVE EntriesOutliveApprovals'
  <2> DEFINE p == req[r].proc n == req[r].nonce
  <2>1. p \in Procs /\ n \in Nonces /\ req[r].kind = "post"
    BY <1>2 DEF Consume, TypeOK, RequestOK
  <2>2. minted[n] # NoValue /\ now >= minted[n].at + MinThink
    BY <2>1 DEF PostsAnswerPages
  <2>3. cache' = [cache EXCEPT ![p][n] = now + TTL] /\ UNCHANGED minted
    BY <1>2 DEF Consume, EntryExpires
  <2>4. now \in Nat /\ minted[n].at \in Nat
    BY <2>1, <2>2 DEF TypeOK, Mint, Time
  <2>5. now + TTL >= minted[n].at + MinThink + TTL
    BY <2>2, <2>4
  <2> HIDE DEF p, n
  <2> QED
    BY <2>1, <2>2, <2>3, <2>5 DEF EntriesOutliveApprovals, TypeOK
<1>3. ASSUME NEW p \in Procs, Restart(p) PROVE EntriesOutliveApprovals'
  BY <1>3 DEF Restart, EntriesOutliveApprovals, TypeOK
<1>4. CASE UNCHANGED <<cache, minted>>
  BY <1>4 DEF EntriesOutliveApprovals
<1>5. ASSUME NEW r \in Requests, Advance(r) PROVE EntriesOutliveApprovals'
  BY <1>1, <1>2, <1>4, <1>5 DEF Advance, OtherView, PopApproval, Respond, PopFails,
     PreviewDisabled, PostUnconfirmed, Check, ConsumeRefused, Call, NoProvider
<1> QED
  BY <1>3, <1>4, <1>5 DEF Next, BeginPreview, BeginOther, BeginPost, Begin, Logout, Tick, vars

LEMMA NextCallsFollowEntries ==
    ASSUME IInv, [Next]_vars PROVE CallsFollowEntries'
<1> USE ConstantsAssumption, NoValueAssumption DEF IInv
<1>0. /\ req \in [Requests -> RequestRecord] /\ \A r \in Requests : RequestOK(req[r])
      /\ cache \in [Procs -> [Nonces -> 0..(MaxTime + TTL)]]
      /\ calls \in [Procs -> [Nonces -> Nat]]
  BY DEF TypeOK
<1>1. ASSUME NEW r \in Requests, UNCHANGED <<cache, calls, prompt>>,
             \A t \in Requests : t # r => req'[t] = req[t],
             req'[r].pc # "call"
      PROVE CallsFollowEntries'
  BY <1>1 DEF CallsFollowEntries
<1>2. ASSUME NEW r \in Requests, NEW s \in Sessions, NEW p \in Procs, NEW k \in Kinds,
             NEW n \in Nonces \cup {NoValue}, NEW form \in Forms, Begin(r, s, p, k, n, form)
      PROVE CallsFollowEntries'
  BY <1>0, <1>1, <1>2 DEF Begin
<1>3. ASSUME NEW r \in Requests, \/ Preview(r) \/ OtherView(r) \/ PopApproval(r) \/ Check(r)
             \/ Respond(r) \/ PopFails(r) \/ PreviewDisabled(r) \/ PostUnconfirmed(r)
             \/ ConsumeRefused(r) \/ NoProvider(r)
      PROVE CallsFollowEntries'
  <2>1. req'[r].pc # "call"
    <3>1. CASE Preview(r)
      BY <1>0, <3>1 DEF Preview, RequestRecord
    <3>2. CASE OtherView(r)
      BY <1>0, <3>2 DEF OtherView, RequestRecord
    <3>3. CASE PopApproval(r)
      BY <1>0, <3>3 DEF PopApproval, RequestRecord
    <3>4. CASE Check(r)
      <4> DEFINE ok == Matches(r) /\ ~approval_expired(req[r].held)
      <4>1. req' = [req EXCEPT ![r] = [@ EXCEPT !.pc = IF ok THEN "consume" ELSE "respond",
                                               !.checked = now]]
        BY <3>4 DEF Check
      <4> HIDE DEF ok
      <4> QED
        BY <1>0, <4>1 DEF RequestRecord
    <3>5. CASE Respond(r) \/ PopFails(r)
      BY <1>0, <3>5 DEF Respond, PopFails, Idle
    <3>6. CASE \/ PreviewDisabled(r) \/ PostUnconfirmed(r) \/ ConsumeRefused(r)
               \/ NoProvider(r)
      BY <1>0, <3>6 DEF PreviewDisabled, PostUnconfirmed, ConsumeRefused, NoProvider,
         RequestRecord
    <3> QED
      BY <1>3, <3>1, <3>2, <3>3, <3>4, <3>5, <3>6
  <2>2. /\ UNCHANGED <<cache, calls, prompt>>
        /\ \A t \in Requests : t # r => req'[t] = req[t]
    BY <1>0, <1>3 DEF Preview, OtherView, PopApproval, Check, Respond, PopFails,
       PreviewDisabled, PostUnconfirmed, ConsumeRefused, NoProvider
  <2> QED
    BY <1>1, <2>1, <2>2
<1>4. ASSUME NEW r \in Requests, Consume(r) PROVE CallsFollowEntries'
  <2> DEFINE p == req[r].proc n == req[r].nonce
             q == [req[r] EXCEPT !.pc = IF PromptUnchanged(r) THEN "call" ELSE "respond"]
  <2>1. p \in Procs /\ n \in Nonces
    BY <1>0, <1>4 DEF Consume, RequestOK
  <2>2. cache[p][n] = 0 /\ calls[p][n] = 0
    BY <1>4, <2>1, ConsumeIsFirst DEF CallsFollowEntries
  <2>3. q.proc = p /\ q.nonce = n /\ q.held = req[r].held
        /\ (q.pc = "call" => prompt[p] = q.held.prompt)
    BY <1>0 DEF RequestRecord, PromptUnchanged
  <2>4. /\ req' = [req EXCEPT ![r] = q] /\ cache' = [cache EXCEPT ![p][n] = now + TTL]
        /\ UNCHANGED <<calls, prompt>>
    BY <1>4 DEF Consume, EntryExpires
  <2>5. now + TTL # 0
    BY DEF TypeOK, Time
  <2> HIDE DEF p, n, q
  <2>6. cache'[p][n] # 0
        /\ \A p2 \in Procs, n2 \in Nonces : cache[p2][n2] # 0 => cache'[p2][n2] # 0
    BY <1>0, <2>1, <2>4, <2>5
  <2>7. \A t \in Requests : t # r /\ req[t].pc = "call" => ~(req[t].proc = p /\ req[t].nonce = n)
    BY <2>2 DEF CallsFollowEntries
  <2>8. req'[r] = q /\ \A t \in Requests : t # r => req'[t] = req[t]
    BY <1>0, <2>4
  <2>9. \A t \in Requests : req[t].pc = "call" => req[t].proc \in Procs /\ req[t].nonce \in Nonces
    BY <1>0 DEF RequestOK
  <2> QED
    BY <2>1, <2>2, <2>3, <2>4, <2>6, <2>7, <2>8, <2>9 DEF CallsFollowEntries
<1>5. ASSUME NEW r \in Requests, Call(r) PROVE CallsFollowEntries'
  <2> DEFINE p == req[r].proc n == req[r].nonce
  <2>1. p \in Procs /\ n \in Nonces /\ req[r].pc = "call"
    BY <1>0, <1>5 DEF Call, RequestOK
  <2>2. calls[p][n] = 0 /\ cache[p][n] # 0
    BY <2>1 DEF CallsFollowEntries
  <2>3. calls' = [calls EXCEPT ![p][n] = @ + 1] /\ UNCHANGED <<cache, prompt>>
    BY <1>5 DEF Call
  <2>4. req'[r].pc = "respond" /\ \A t \in Requests : t # r => req'[t] = req[t]
    BY <1>0, <1>5 DEF Call, RequestRecord
  <2>5. \A t \in Requests : t # r /\ req[t].pc = "call" => ~(req[t].proc = p /\ req[t].nonce = n)
    BY <2>1 DEF CallsFollowEntries
  <2>6. \A t \in Requests : req[t].pc = "call" => req[t].proc \in Procs /\ req[t].nonce \in Nonces
    BY <1>0 DEF RequestOK
  <2> HIDE DEF p, n
  <2>7. calls'[p][n] = 1
        /\ \A p2 \in Procs, n2 \in Nonces : ~(p2 = p /\ n2 = n) => calls'[p2][n2] = calls[p2][n2]
    BY <1>0, <2>1, <2>2, <2>3
  <2> QED
    BY <2>1, <2>2, <2>3, <2>4, <2>5, <2>6, <2>7 DEF CallsFollowEntries
<1>6. ASSUME NEW p \in Procs, Restart(p) PROVE CallsFollowEntries'
  <2>1. \A t \in Requests : req'[t].pc = "call" => req'[t] = req[t] /\ req[t].proc # p
    BY <1>0, <1>6 DEF Restart, Idle
  <2>2. \A t \in Requests : req[t].pc = "call" => req[t].proc \in Procs /\ req[t].nonce \in Nonces
    BY <1>0 DEF RequestOK
  <2>3. \A o \in Procs : o # p => cache'[o] = cache[o] /\ calls'[o] = calls[o] /\ prompt'[o] = prompt[o]
    BY <1>0, <1>6 DEF Restart, TypeOK
  <2>4. \A n \in Nonces : calls'[p][n] = 0
    BY <1>0, <1>6 DEF Restart
  <2> QED
    BY <2>1, <2>2, <2>3, <2>4 DEF CallsFollowEntries
<1>7. CASE UNCHANGED <<cache, calls, prompt, req>>
  BY <1>7 DEF CallsFollowEntries
<1>8. ASSUME NEW r \in Requests, Advance(r) PROVE CallsFollowEntries'
  BY <1>3, <1>4, <1>5, <1>8 DEF Advance
<1>9. ASSUME NEW r \in Requests, NEW s \in Sessions, NEW p \in Procs,
             BeginPreview(r, s, p) \/ BeginOther(r, s, p)
               \/ \E n \in Nonces, form \in Forms : BeginPost(r, s, p, n, form)
      PROVE CallsFollowEntries'
  BY <1>2, <1>9 DEF BeginPreview, BeginOther, BeginPost, Kinds, Forms
<1> QED
  BY <1>6, <1>7, <1>8, <1>9 DEF Next, Logout, Tick, vars

-----------------------------------------------------------------------------
LEMMA InitIInv == Init => IInv
  BY InitTypeOK DEF Init, IInv, Idle, ApprovalsGenuine, Genuine, MintedInPast,
     PostsAnswerPages, CheckedApprovals, EntriesOutliveApprovals, CallsFollowEntries

LEMMA NextIInv == IInv /\ [Next]_vars => IInv'
  BY NextTypeOK, NextApprovalsGenuine, NextMintedInPast, NextPostsAnswerPages,
     NextCheckedApprovals, NextEntriesOutliveApprovals, NextCallsFollowEntries DEF IInv

LEMMA Inductive == Spec => []IInv
  BY InitIInv, NextIInv, PTL DEF Spec

(* A worker process calls the provider at most once per preview, for every *)
(* number of tabs, threads and processes, every lifetime and every schedule  *)
(* in which a thread's stall stays below the time a user needs to answer.  *)
THEOREM CalledAtMostOnce == Spec => []AtMostOncePerProcess
<1>1. IInv => AtMostOncePerProcess
  BY DEF IInv, CallsFollowEntries, AtMostOncePerProcess
<1> QED
  BY Inductive, <1>1, PTL

(* What is sent is what the posting session itself previewed, whatever     *)
(* releases the processes run.                                             *)
THEOREM CalledAsPreviewed == Spec => []SentAsPreviewed
<1>1. IInv => SentAsPreviewed
  BY NoValueAssumption DEF IInv, TypeOK, RequestOK, CallsFollowEntries, CheckedApprovals,
     ApprovalsGenuine, Genuine, SentAsPreviewed
<1> QED
  BY Inductive, <1>1, PTL

(* No approval is acted on once its lifetime since its preview has passed. *)
THEOREM CalledInTime == Spec => []SentInTime
<1>1. IInv => SentInTime
  BY NoValueAssumption DEF IInv, TypeOK, RequestOK, CheckedApprovals, ApprovalsGenuine,
     Genuine, SentInTime
<1> QED
  BY Inductive, <1>1, PTL

=============================================================================
