----------------------------- MODULE MCStreamQueue -----------------------------
(* Instances of StreamQueue for TLC. *)
EXTENDS StreamQueue, TLC

\* Jobs and workers are interchangeable; used for safety runs only.
Symmetry == Permutations(Job) \cup Permutations(Worker)
================================================================================
