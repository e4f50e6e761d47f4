------------------------------ MODULE Display -------------------------------
(***************************************************************************)
(* What the progress display of a command promises its reader, whatever    *)
(* renders it: a subject that has been heard of does not fall silent, what *)
(* is shown as failed stays so, and after the end nothing changes.         *)
(***************************************************************************)
CONSTANT Subjects   \* the operation and its plugins

VARIABLES status, over

Statuses == {"silent", "pending", "working", "done", "failed"}
Unheard  == {"silent", "pending"}

Init == status = [s \in Subjects |-> "silent"] /\ over = FALSE

Keeps(s, new) ==
  /\ status[s] = "failed" => new = "failed"
  /\ status[s] = "pending" => new # "silent"
  /\ status[s] \notin Unheard => new \notin Unheard

Show ==
  /\ ~over /\ over' \in BOOLEAN
  /\ status' \in [Subjects -> Statuses]
  /\ \A s \in Subjects : Keeps(s, status'[s])

Spec == Init /\ [][Show]_<<status, over>>
=============================================================================
