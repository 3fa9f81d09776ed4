----------------------------- MODULE MCPublication -----------------------------
EXTENDS Publication, TLC

CONSTANTS g1, p1, p2, f1, a1

MCOutputType == [g \in Generation |-> "null"]

\* The two publishers are interchangeable; only invariants are checked.
Symmetry == Permutations({p1, p2})
================================================================================
