-------------------------------- MODULE JobQueue -------------------------------
(***************************************************************************)
(* What the queue promises about the jobs handed to it, without streams,   *)
(* consumer groups or worker loops.  A job is run at most MaxTries times   *)
(* per submission, never twice at the same time, and ends in one of four   *)
(* ways: done, dead, or stranded by a fault before or while it ran.  A     *)
(* dead job may be given a new life by an administrator.                   *)
(*                                                                         *)
(* Workflow treats the queue like this; StreamQueue implements it.         *)
(***************************************************************************)
EXTENDS Naturals

CONSTANTS Job, MaxTries

VARIABLES
  state,    \* where each job is
  tries     \* runs begun or pending since it was last submitted

JobState == {"idle", "waiting", "running", "done", "dead", "stranded"}

Init ==
  /\ state = [j \in Job |-> "idle"]
  /\ tries = [j \in Job |-> 0]

Submit(j) ==
  /\ state[j] = "idle"
  /\ state' = [state EXCEPT ![j] = "waiting"]
  /\ tries' = [tries EXCEPT ![j] = 1]

Move(j, from, to) ==
  /\ state[j] = from
  /\ state' = [state EXCEPT ![j] = to]
  /\ UNCHANGED tries

Retry(j) ==
  /\ state[j] = "running"
  /\ tries[j] < MaxTries
  /\ state' = [state EXCEPT ![j] = "waiting"]
  /\ tries' = [tries EXCEPT ![j] = @ + 1]

Revive(j) ==
  /\ state[j] = "dead"
  /\ state' = [state EXCEPT ![j] = "waiting"]
  /\ tries' = [tries EXCEPT ![j] = 1]

\* A fault may hit several jobs at once: the tasks of a worker that stops.
Strand(S) ==
  /\ \A j \in S : state[j] \in {"waiting", "running"}
  /\ state' = [j \in Job |-> IF j \in S THEN "stranded" ELSE state[j]]
  /\ UNCHANGED tries

Next ==
  \/ \E j \in Job :
       \/ Submit(j)
       \/ Move(j, "waiting", "running")
       \/ Move(j, "running", "done")
       \/ Retry(j)
       \/ Move(j, "running", "dead")
       \/ Revive(j)
  \/ \E S \in SUBSET Job : Strand(S)

Spec == Init /\ [][Next]_<<state, tries>>
================================================================================
