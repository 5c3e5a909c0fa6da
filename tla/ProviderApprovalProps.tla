----------------------- MODULE ProviderApprovalProps ------------------------
(***************************************************************************)
(* Properties of ProviderApproval.                                         *)
(***************************************************************************)
EXTENDS ProviderApproval

(* Replayed, concurrent and re-posted confirmations: one previewed prompt is *)
(* sent to the provider at most once by a worker process, although a stale   *)
(* session copy can put a used approval back, and although the cache entry   *)
(* that remembers the nonce expires itself.                                  *)
AtMostOncePerProcess ==
    \A p \in Procs, n \in Nonces : calls[p][n] <= 1

(* What is about to be sent is, word for word, what this session previewed   *)
(* under the posted nonce, although other processes may run another release  *)
(* and other tabs may have previewed since.                                  *)
SentAsPreviewed ==
    \A r \in Requests :
      req[r].pc = "call" =>
        /\ minted[req[r].nonce] # NoValue
        /\ minted[req[r].nonce].session = req[r].session
        /\ minted[req[r].nonce].prompt = prompt[req[r].proc]

(* An approval is only acted on while it is younger than its lifetime,       *)
(* counted from the moment its own preview was rendered, however often it    *)
(* was copied between sessions copies and the session table meanwhile.       *)
SentInTime ==
    \A r \in Requests :
      req[r].pc \in {"consume", "call"} =>
        /\ minted[req[r].nonce] # NoValue
        /\ req[r].checked < minted[req[r].nonce].at + TTL

(* The preview page calls the confirmation a one-shot and its button "Send    *)
(* once to provider", and a test lets two threads race for one nonce: at     *)
(* most one of them may send.  Here the two may be served by two processes,  *)
(* which both loaded the session before either popped the approval, and      *)
(* whose caches know nothing of each other.                                  *)
SentByOneProcess ==
    \A p, q \in Procs, n \in Nonces :
      calls[p][n] > 0 /\ calls[q][n] > 0 => p = q

=============================================================================
