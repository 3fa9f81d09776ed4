------------------------------ MODULE MCSubmission -----------------------------
EXTENDS Submission, TLC

CONSTANTS r1, r2, r3, t1, t2

MCRequest   == {r1, r2, r3}
MCTeacherOf == (r1 :> t1) @@ (r2 :> t1) @@ (r3 :> t2)
MCSquish    == [x \in Text |-> "air"]
MCTidy      == [x \in Text |-> "air"]
MCTrimLower == ("FOTO" :> "foto")

\* Requests of one teacher are interchangeable.
Symmetry == Permutations({r1, r2})

\* No subject at all, or a sub-subject whose subject is not named.
MCSubject   == {<<"none", "none">>, <<"none", "plants">>}
MCSubjectOf == ("plants" :> "biology") @@ ("none" :> "none")
================================================================================
