-------------------------- MODULE ClientLifecycle --------------------------
(***************************************************************************)
(* What a user of mt5.Client may rely on: Run keeps the client linked to   *)
(* the server as best it can until it returns, a link comes up only while  *)
(* Run runs and the client is not closed, Run returns only unlinked, and   *)
(* Close is final: it breaks the link and makes Run return.                *)
(***************************************************************************)
VARIABLES
  closed,   (* Close has been called                 *)
  linked,   (* the client has a connection           *)
  run       (* Run is "idle", "running" or "returned" *)

vars == <<closed, linked, run>>

Init == closed = FALSE /\ linked = FALSE /\ run = "idle"

Start ==
  /\ run = "idle" /\ run' = "running"
  /\ UNCHANGED <<closed, linked>>

LinkUp ==
  /\ run = "running" /\ ~closed
  /\ ~linked /\ linked' = TRUE
  /\ UNCHANGED <<closed, run>>

LinkDown ==
  /\ linked /\ linked' = FALSE
  /\ UNCHANGED <<closed, run>>

Close ==
  /\ ~closed /\ closed' = TRUE
  /\ UNCHANGED <<linked, run>>

Return ==
  /\ run = "running" /\ ~linked /\ run' = "returned"
  /\ UNCHANGED <<closed, linked>>

Next == Start \/ LinkUp \/ LinkDown \/ Close \/ Return

Spec == Init /\ [][Next]_vars

\* Close unlinks the client and ends Run.
CloseEndsRun == closed ~> ~linked /\ run # "running"
=============================================================================
