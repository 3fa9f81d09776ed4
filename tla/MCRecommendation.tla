---------------------------- MODULE MCRecommendation ---------------------------
EXTENDS Recommendation

CONSTANTS t1, t2, t3, a1, a2, o1, g1, u1, u2, r1, r2, gen1

\* Sub-subjects 1 and 2 belong to subject 1, sub-subject 3 to subject 2.
MCSubjectOf == [s \in 1..3 |-> IF s = 3 THEN 2 ELSE 1]

\* u1 has chosen subject 1 and written about 3; u2 chose none and wrote about 2.
MCPrimary == [u \in User |-> IF u = u1 THEN 1 ELSE NoOne]

MCStartTopic == [t \in Topic |->
  CASE t = t1 -> [sub |-> 1, teacher |-> NoOne, order |-> 0, created |-> 1, updated |-> 1]
    [] t = t2 -> [sub |-> 2, teacher |-> u2, order |-> 0, created |-> 5, updated |-> 5]
    [] OTHER  -> [sub |-> 3, teacher |-> u1, order |-> 0, created |-> 1, updated |-> 3]]

\* Two admin uploads, an imported project that stands for t1, a published generation.
MCStartProject == [p \in Project |->
  CASE p = a1 -> [source |-> "admin_upload", ref |-> NoOne, sub |-> NoOne, subject |-> NoOne,
                  eligible |-> TRUE, priority |-> 0, score |-> 0, created |-> 3, updated |-> 3]
    [] p = a2 -> [source |-> "admin_upload", ref |-> NoOne, sub |-> NoOne, subject |-> NoOne,
                  eligible |-> TRUE, priority |-> 1, score |-> 0, created |-> 1, updated |-> 1]
    [] p = o1 -> [source |-> "system_topic", ref |-> t1, sub |-> 1, subject |-> 1,
                  eligible |-> TRUE, priority |-> 5, score |-> 2, created |-> 2, updated |-> 2]
    [] OTHER  -> [source |-> "ai_generated", ref |-> gen1, sub |-> NoOne, subject |-> NoOne,
                  eligible |-> TRUE, priority |-> 0, score |-> 0, created |-> 4, updated |-> 4]]

MCStartActive == {{a1, a2, o1, g1}, {o1, g1}, {}}

MCIdRank == [x \in Topic \cup Project \cup {gen1} |->
  CASE x = a1 -> 1 [] x = a2 -> 7 [] x = o1 -> 2 [] x = g1 -> 3 [] x = t1 -> 4 [] x = t2 -> 5 [] x = t3 -> 6
    [] OTHER -> 0]

\* Requests differ in nothing but their name.
RequestSymmetry == Permutations(Request)
================================================================================
