------------------------- MODULE MCProviderApproval -------------------------
(***************************************************************************)
(* Finite instances of ProviderApproval for TLC.                           *)
(***************************************************************************)
EXTENDS ProviderApprovalProps, FiniteSets, TLC

(* The instances of one run: the sessions, processes and prompts in use, and *)
(* how many nonces, time units and restarts there are.                       *)
VARIABLE instance

(* One session and process over more than two lifetimes of an approval.      *)
Replays == [sessions : {{s} : s \in Sessions}, procs : {{p} : p \in Procs},
            prompts : {{v} : v \in Prompts}, nonces : {1}, time : {5}, restarts : {1}]

(* Two sessions that preview and confirm at the same time.                   *)
Crossing == [sessions : {Sessions}, procs : {{p} : p \in Procs},
             prompts : {{v} : v \in Prompts}, nonces : {2}, time : {1}, restarts : {0}]

(* Two processes that may run different releases of the prompt.              *)
Releases == [sessions : {{s} : s \in Sessions}, procs : {Procs},
             prompts : {Prompts}, nonces : {1}, time : {2}, restarts : {1}]

Instances == Replays \cup Crossing \cup Releases

Within ==
    /\ \A s \in Sessions \ instance.sessions : s \in live'
    /\ \A r \in Requests :
         req'[r].pc # "idle" => /\ req'[r].session \in instance.sessions
                                /\ req'[r].proc \in instance.procs
    /\ \A p \in Procs :
         IF p \in instance.procs THEN prompt'[p] \in instance.prompts
                                 ELSE prompt'[p] = prompt[p]
    /\ Cardinality({n \in Nonces : minted'[n] # NoValue}) <= instance.nonces
    /\ now' <= instance.time
    /\ restarts' <= instance.restarts

(* A process that is not in use renders what any other one renders.          *)
MCInit ==
    /\ Init
    /\ instance \in Instances
    /\ \A p \in Procs : prompt[p] \in instance.prompts

MCNext == Next /\ Within /\ UNCHANGED instance

MCSpec == MCInit /\ [][MCNext]_<<vars, instance>>

(* Worker threads, nonces, sessions, processes and prompts are               *)
(* interchangeable: the specification and its properties only compare them   *)
(* for equality.                                                             *)
Symmetry ==
    Permutations(Requests) \cup Permutations(Nonces) \cup Permutations(Sessions)
      \cup Permutations(Procs) \cup Permutations(Prompts)

=============================================================================
