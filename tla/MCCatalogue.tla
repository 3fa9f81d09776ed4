------------------------------ MODULE MCCatalogue ------------------------------
EXTENDS Catalogue

CONSTANTS t1, t2, t3, c1, c2, c3, p1, s1, s2, k1, k2, a1, a2

MCStartOrder == [r \in {t1, t2, t3, c1, c2} |->
                   CASE r \in {t1, c1} -> 0 [] r \in {t2, c2} -> 1 [] OTHER -> 2]

MCSubjectOf == [s \in {"plants"} |-> "biology"]

MCRawOf == [a \in Admin |-> IF a = a1 THEN "yes" ELSE "0"]

MCSettingType == [k \in Setting |-> IF k = k1 THEN "boolean" ELSE "text"]
================================================================================
