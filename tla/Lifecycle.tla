------------------------------- MODULE Lifecycle -------------------------------
(***************************************************************************)
(* The nine-state lifecycle of a media generation, from                    *)
(* src/orchestrator/lifecycle.rs.  Constant operators only.                *)
(***************************************************************************)
EXTENDS Naturals

Status == {"queued", "interpreting", "classified", "generating", "uploading",
           "publishing", "completed", "failed", "cancelled"}

Terminal == {"completed", "failed", "cancelled"}

IsTerminal(s) == s \in Terminal

\* The legal successors of every status, as can_transition lists them.
\* "publishing" is the one working state that cannot be cancelled.
NextStatuses ==
  [s \in Status |->
     CASE s = "queued"       -> {"interpreting", "failed", "cancelled"}
       [] s = "interpreting" -> {"classified", "failed", "cancelled"}
       [] s = "classified"   -> {"generating", "failed", "cancelled"}
       [] s = "generating"   -> {"uploading", "failed", "cancelled"}
       [] s = "uploading"    -> {"publishing", "failed", "cancelled"}
       [] s = "publishing"   -> {"completed", "failed"}
       [] OTHER              -> {}]

CanTransition(from, to) == to \in NextStatuses[from]

OrderIndex ==
  [s \in Status |->
     CASE s = "queued"       -> 0
       [] s = "interpreting" -> 1
       [] s = "classified"   -> 2
       [] s = "generating"   -> 3
       [] s = "uploading"    -> 4
       [] s = "publishing"   -> 5
       [] s = "completed"    -> 6
       [] s = "failed"       -> 7
       [] s = "cancelled"    -> 8]

\* A terminal status is never "before" a checkpoint.
StatusBefore(s, checkpoint) ==
  /\ ~IsTerminal(s)
  /\ OrderIndex[s] < OrderIndex[checkpoint]
================================================================================
