---------------------------- MODULE WebRequests -----------------------------
(***************************************************************************)
(* What the database views of trading/ and core/ share: logged-in users,   *)
(* the worker threads that serve their requests, and the absence of a row. *)
(***************************************************************************)
CONSTANTS Users, Requests, NoValue

=============================================================================
