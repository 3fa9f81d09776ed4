---------------------------- MODULE PipelineProofs -----------------------------
(***************************************************************************)
(* What holds of Pipeline for every prompt, every preference and every     *)
(* answer of a provider, whatever keywords the prompts contain: repairing  *)
(* an answer, asking for what it leaves out, deciding on the format and    *)
(* building the renderer's specification.                                  *)
(***************************************************************************)
EXTENDS Pipeline, FiniteSetTheorems, SequenceTheorems, WellFoundedInduction,
        TLAPS

--------------------------------------------------------------------------------
\* Sequences of up to three elements.

LEMMA OneElement ==
  ASSUME NEW S, NEW s \in Seq(S), Len(s) = 1
  PROVE  s = <<s[1]>>
OBVIOUS

LEMMA TwoElements ==
  ASSUME NEW S, NEW s \in Seq(S), Len(s) = 2
  PROVE  s = <<s[1], s[2]>>
OBVIOUS

LEMMA ThreeElements ==
  ASSUME NEW S, NEW s \in Seq(S), Len(s) = 3
  PROVE  s = <<s[1], s[2], s[3]>>
OBVIOUS

\* Concatenations that make two or three elements.
LEMMA OneAndOne ==
  ASSUME NEW a, NEW b
  PROVE  <<a>> \o <<b>> = <<a, b>>
<1> DEFINE s == <<a>> \o <<b>>
<1>1. /\ <<a>> \in Seq({a, b}) /\ Len(<<a>>) = 1
      /\ <<b>> \in Seq({a, b}) /\ Len(<<b>>) = 1
  OBVIOUS
<1>2. s \in Seq({a, b}) /\ Len(s) = 2
  BY <1>1
<1>3. s[1] = a /\ s[2] = b
  BY <1>1
<1>4. QED
  BY <1>2, <1>3, TwoElements

LEMMA TwoAndOne ==
  ASSUME NEW a, NEW b, NEW c
  PROVE  <<a, b>> \o <<c>> = <<a, b, c>>
<1> DEFINE s == <<a, b>> \o <<c>>
<1>1. /\ <<a, b>> \in Seq({a, b, c}) /\ Len(<<a, b>>) = 2
      /\ <<c>> \in Seq({a, b, c}) /\ Len(<<c>>) = 1
  OBVIOUS
<1>2. s \in Seq({a, b, c}) /\ Len(s) = 3
  BY <1>1
<1>3. s[1] = a /\ s[2] = b /\ s[3] = c
  BY <1>1
<1>4. QED
  BY <1>2, <1>3, ThreeElements

LEMMA OneAndTwo ==
  ASSUME NEW a, NEW b, NEW c
  PROVE  <<a>> \o <<b, c>> = <<a, b, c>>
<1> DEFINE s == <<a>> \o <<b, c>>
<1>1. /\ <<b, c>> \in Seq({a, b, c}) /\ Len(<<b, c>>) = 2
      /\ <<a>> \in Seq({a, b, c}) /\ Len(<<a>>) = 1
  OBVIOUS
<1>2. s \in Seq({a, b, c}) /\ Len(s) = 3
  BY <1>1
<1>3. s[1] = a /\ s[2] = b /\ s[3] = c
  BY <1>1
<1>4. QED
  BY <1>2, <1>3, ThreeElements

\* Parts of two elements.
LEMMA PartsOfTwo ==
  ASSUME NEW a, NEW b
  PROVE  /\ SubSeq(<<a, b>>, 1, 1) = <<a>>
         /\ SubSeq(<<a, b>>, 2, 2) = <<b>>
         /\ SubSeq(<<a, b>>, 1, 2) = <<a, b>>
<1> DEFINE s == SubSeq(<<a, b>>, 1, 1)
           t == SubSeq(<<a, b>>, 2, 2)
           u == SubSeq(<<a, b>>, 1, 2)
<1>1. <<a, b>> \in Seq({a, b}) /\ Len(<<a, b>>) = 2
  OBVIOUS
<1>2. s \in Seq({a, b}) /\ Len(s) = 1 /\ s[1] = a
  BY <1>1
<1>3. t \in Seq({a, b}) /\ Len(t) = 1 /\ t[1] = b
  BY <1>1
<1>4. u \in Seq({a, b}) /\ Len(u) = 2 /\ u[1] = a /\ u[2] = b
  BY <1>1
<1>5. QED
  BY <1>2, <1>3, <1>4, OneElement, TwoElements

LEMMA PartOfOne ==
  ASSUME NEW a
  PROVE  SubSeq(<<a>>, 1, 1) = <<a>>
<1> DEFINE s == SubSeq(<<a>>, 1, 1)
<1>1. <<a>> \in Seq({a}) /\ Len(<<a>>) = 1
  OBVIOUS
<1>2. s \in Seq({a}) /\ Len(s) = 1 /\ s[1] = a
  BY <1>1
<1>3. QED
  BY <1>2, OneElement

\* Inserting into at most two elements.
LEMMA InsertIntoNone ==
  ASSUME NEW x
  PROVE  InsertAt(<< >>, 1, x) = <<x>>
<1>1. SubSeq(<< >>, 1, 0) = << >>
  BY SubSeqEmpty
<1>2. InsertAt(<< >>, 1, x) = SubSeq(<< >>, 1, 0) \o <<x>> \o SubSeq(<< >>, 1, 0)
  BY DEF InsertAt
<1>3. << >> \o <<x>> = <<x>> /\ <<x>> \o << >> = <<x>>
  OBVIOUS
<1>4. QED
  BY <1>1, <1>2, <1>3

LEMMA InsertIntoOne ==
  ASSUME NEW a, NEW x
  PROVE  /\ InsertAt(<<a>>, 1, x) = <<x, a>>
         /\ InsertAt(<<a>>, 2, x) = <<a, x>>
<1>1. SubSeq(<<a>>, 1, 0) = << >> /\ SubSeq(<<a>>, 2, 1) = << >>
  BY SubSeqEmpty
<1>2. /\ InsertAt(<<a>>, 1, x) = SubSeq(<<a>>, 1, 0) \o <<x>> \o SubSeq(<<a>>, 1, 1)
      /\ InsertAt(<<a>>, 2, x) = SubSeq(<<a>>, 1, 1) \o <<x>> \o SubSeq(<<a>>, 2, 1)
  BY DEF InsertAt
<1>3. << >> \o <<x>> = <<x>> /\ <<a, x>> \o << >> = <<a, x>>
  OBVIOUS
<1>4. QED
  BY <1>1, <1>2, <1>3, PartOfOne, OneAndOne

LEMMA InsertIntoTwo ==
  ASSUME NEW a, NEW b, NEW x
  PROVE  /\ InsertAt(<<a, b>>, 1, x) = <<x, a, b>>
         /\ InsertAt(<<a, b>>, 2, x) = <<a, x, b>>
         /\ InsertAt(<<a, b>>, 3, x) = <<a, b, x>>
<1>1. SubSeq(<<a, b>>, 1, 0) = << >> /\ SubSeq(<<a, b>>, 3, 2) = << >>
  BY SubSeqEmpty
<1>2. /\ InsertAt(<<a, b>>, 1, x)
           = SubSeq(<<a, b>>, 1, 0) \o <<x>> \o SubSeq(<<a, b>>, 1, 2)
      /\ InsertAt(<<a, b>>, 2, x)
           = SubSeq(<<a, b>>, 1, 1) \o <<x>> \o SubSeq(<<a, b>>, 2, 2)
      /\ InsertAt(<<a, b>>, 3, x)
           = SubSeq(<<a, b>>, 1, 2) \o <<x>> \o SubSeq(<<a, b>>, 3, 2)
  BY DEF InsertAt
<1>3. << >> \o <<x>> = <<x>> /\ <<a, b, x>> \o << >> = <<a, b, x>>
  OBVIOUS
<1>4. QED
  BY <1>1, <1>2, <1>3, PartsOfTwo, OneAndOne, OneAndTwo, TwoAndOne

--------------------------------------------------------------------------------
\* The ranking of three formats.

\* The greatest of some numbers.
LEMMA MaxIs ==
  ASSUME NEW S \in SUBSET Int, NEW m \in S, \A y \in S : m >= y
  PROVE  Max(S) = m
<1> DEFINE x == CHOOSE x \in S : \A y \in S : x >= y
<1>1. x \in S /\ \A y \in S : x >= y
  OBVIOUS
<1>2. Max(S) = x
  BY DEF Max
<1> HIDE DEF x
<1>3. x >= m /\ m >= x /\ x \in Int /\ m \in Int
  BY <1>1
<1>4. QED
  BY <1>2, <1>3

\* What sort_by makes of three elements, spelled out.
Ranked(scores, a, b, c) ==
  LET one == IF Before(scores, b, a) THEN b ELSE a
      two == IF Before(scores, b, a) THEN a ELSE b
  IN  IF ~Before(scores, c, two) THEN <<one, two, c>>
      ELSE IF ~Before(scores, c, one) THEN <<one, c, two>>
      ELSE <<c, one, two>>

LEMMA InsertSortedFirst ==
  ASSUME NEW scores, NEW x
  PROVE  InsertSorted(scores, << >>, x) = <<x>>
<1>1. Max({0} \cup {i \in DOMAIN << >> : ~Before(scores, x, << >>[i])}) = 0
  BY DEF Max
<1>2. InsertSorted(scores, << >>, x) = InsertAt(<< >>, 1, x)
  BY <1>1 DEF InsertSorted
<1>3. QED
  BY <1>2, InsertIntoNone

LEMMA InsertSortedSecond ==
  ASSUME NEW scores, NEW a, NEW x
  PROVE  InsertSorted(scores, <<a>>, x)
           = IF Before(scores, x, a) THEN <<x, a>> ELSE <<a, x>>
<1> DEFINE at == {i \in DOMAIN <<a>> : ~Before(scores, x, <<a>>[i])}
<1>1. at = IF Before(scores, x, a) THEN {} ELSE {1}
  OBVIOUS
<1>2. InsertSorted(scores, <<a>>, x) = InsertAt(<<a>>, Max({0} \cup at) + 1, x)
  BY DEF InsertSorted
<1> HIDE DEF at
<1>3. CASE Before(scores, x, a)
  <2>1. Max({0} \cup at) = 0
    BY <1>1, <1>3 DEF Max
  <2>2. QED
    BY <1>2, <1>3, <2>1, InsertIntoOne
<1>4. CASE ~Before(scores, x, a)
  <2>1. Max({0} \cup at) = 1
    BY <1>1, <1>4 DEF Max
  <2>2. QED
    BY <1>2, <1>4, <2>1, InsertIntoOne
<1>5. QED
  BY <1>3, <1>4

LEMMA InsertSortedThird ==
  ASSUME NEW scores, NEW a, NEW b, NEW x
  PROVE  InsertSorted(scores, <<a, b>>, x)
           = IF ~Before(scores, x, b) THEN <<a, b, x>>
             ELSE IF ~Before(scores, x, a) THEN <<a, x, b>>
             ELSE <<x, a, b>>
<1> DEFINE at == {i \in DOMAIN <<a, b>> : ~Before(scores, x, <<a, b>>[i])}
<1>1. /\ 1 \in at <=> ~Before(scores, x, a)
      /\ 2 \in at <=> ~Before(scores, x, b)
      /\ at \subseteq {1, 2}
  OBVIOUS
<1>2. InsertSorted(scores, <<a, b>>, x) = InsertAt(<<a, b>>, Max({0} \cup at) + 1, x)
  BY DEF InsertSorted
<1> HIDE DEF at
<1>3. CASE ~Before(scores, x, b)
  <2>1. {0} \cup at \in SUBSET Int /\ 2 \in {0} \cup at
        /\ \A y \in {0} \cup at : 2 >= y
    BY <1>1, <1>3
  <2>2. Max({0} \cup at) = 2
    BY <2>1, MaxIs
  <2>3. QED
    BY <1>2, <1>3, <2>2, InsertIntoTwo
<1>4. CASE Before(scores, x, b) /\ ~Before(scores, x, a)
  <2>1. {0} \cup at \in SUBSET Int /\ 1 \in {0} \cup at
        /\ \A y \in {0} \cup at : 1 >= y
    BY <1>1, <1>4
  <2>2. Max({0} \cup at) = 1
    BY <2>1, MaxIs
  <2>3. QED
    BY <1>2, <1>4, <2>2, InsertIntoTwo
<1>5. CASE Before(scores, x, b) /\ Before(scores, x, a)
  <2>1. {0} \cup at \in SUBSET Int /\ 0 \in {0} \cup at
        /\ \A y \in {0} \cup at : 0 >= y
    BY <1>1, <1>5
  <2>2. Max({0} \cup at) = 0
    BY <2>1, MaxIs
  <2>3. QED
    BY <1>2, <1>5, <2>2, InsertIntoTwo
<1>6. QED
  BY <1>3, <1>4, <1>5

LEMMA RankCandidatesIs ==
  ASSUME NEW scores, NEW order
  PROVE  RankCandidates(scores, order) = Ranked(scores, order[1], order[2], order[3])
<1> DEFINE a == order[1]
           b == order[2]
           c == order[3]
           one == IF Before(scores, b, a) THEN b ELSE a
           two == IF Before(scores, b, a) THEN a ELSE b
<1>1. InsertSorted(scores, << >>, a) = <<a>>
  BY InsertSortedFirst
<1>2. InsertSorted(scores, <<a>>, b) = <<one, two>>
  BY InsertSortedSecond
<1>3. RankCandidates(scores, order) = InsertSorted(scores, <<one, two>>, c)
  BY <1>1, <1>2 DEF RankCandidates
<1>4. QED
  BY <1>3, InsertSortedThird DEF Ranked

\* A HashMap yields the three formats in some order.
LEMMA HashOrderIs ==
  ASSUME NEW order \in HashOrders
  PROVE  /\ {order[1], order[2], order[3]} \subseteq AllowedFormats
         /\ order[1] # order[2] /\ order[2] # order[3] /\ order[1] # order[3]
<1>1. order \in [1..3 -> AllowedFormats] /\ IsInjective(order)
  BY DEF HashOrders
<1>2. 1 \in 1..3 /\ 2 \in 1..3 /\ 3 \in 1..3
  OBVIOUS
<1>3. QED
  BY <1>1, <1>2 DEF IsInjective

\* Whatever the scores, only formats are ranked.
LEMMA RankedAreFormats ==
  ASSUME NEW scores, NEW order \in HashOrders
  PROVE  /\ RankCandidates(scores, order)[1] \in AllowedFormats
         /\ RankCandidates(scores, order)[2] \in AllowedFormats
BY HashOrderIs, RankCandidatesIs DEF Ranked

\* Scores of which no two are one unit apart.
Apart(scores) ==
  /\ scores \in [AllowedFormats -> Int]
  /\ \A f, g \in AllowedFormats : scores[f] - scores[g] # 1

\* For them the comparison of the sort is an order: the priorities tell equal
\* scores apart.  (With one unit between them it need not be transitive.)
LEMMA BeforeIsTotal ==
  ASSUME NEW scores, Apart(scores), NEW a \in AllowedFormats, NEW b \in AllowedFormats,
         a # b
  PROVE  Before(scores, a, b) <=> ~Before(scores, b, a)
<1>1. scores[a] \in Int /\ scores[b] \in Int
  BY DEF Apart
<1>2. Tied(scores[a], scores[b]) <=> scores[a] = scores[b]
  BY <1>1 DEF Apart, Tied
<1>3. Tied(scores[b], scores[a]) <=> scores[a] = scores[b]
  BY <1>1 DEF Apart, Tied
<1>4. /\ TypePriority(a) \in Int /\ TypePriority(b) \in Int
      /\ TypePriority(a) # TypePriority(b)
  BY DEF AllowedFormats, TypePriority
<1>5. QED
  BY <1>1, <1>2, <1>3, <1>4 DEF Before

LEMMA BeforeIsTransitive ==
  ASSUME NEW scores, Apart(scores), NEW a \in AllowedFormats, NEW b \in AllowedFormats,
         NEW c \in AllowedFormats, Before(scores, a, b), Before(scores, b, c)
  PROVE  Before(scores, a, c)
<1>1. scores[a] \in Int /\ scores[b] \in Int /\ scores[c] \in Int
  BY DEF Apart
<1>2. \A x, y \in {a, b, c} : Tied(scores[x], scores[y]) <=> scores[x] = scores[y]
  <2>1. ASSUME NEW x \in {a, b, c}, NEW y \in {a, b, c}
        PROVE  Tied(scores[x], scores[y]) <=> scores[x] = scores[y]
    <3>1. scores[x] - scores[y] # 1 /\ scores[y] - scores[x] # 1
      BY <2>1 DEF Apart
    <3>2. scores[x] \in Int /\ scores[y] \in Int
      BY <1>1, <2>1
    <3>3. QED
      BY <3>1, <3>2 DEF Tied
  <2>2. QED
    BY <2>1
<1>3. TypePriority(a) \in Int /\ TypePriority(b) \in Int /\ TypePriority(c) \in Int
  BY DEF AllowedFormats, TypePriority
<1>4. QED
  BY <1>1, <1>2, <1>3 DEF Before

\* A ranking in order: the first two places of any two are the same.
InOrder(scores, s) ==
  /\ {s[1], s[2], s[3]} = AllowedFormats
  /\ s[1] # s[2] /\ s[2] # s[3] /\ s[1] # s[3]
  /\ Before(scores, s[1], s[2]) /\ Before(scores, s[2], s[3])

LEMMA RankedInOrder ==
  ASSUME NEW scores, Apart(scores), NEW order \in HashOrders
  PROVE  InOrder(scores, RankCandidates(scores, order))
<1> DEFINE a == order[1]
           b == order[2]
           c == order[3]
           one == IF Before(scores, b, a) THEN b ELSE a
           two == IF Before(scores, b, a) THEN a ELSE b
<1>1. /\ a \in AllowedFormats /\ b \in AllowedFormats /\ c \in AllowedFormats
      /\ a # b /\ b # c /\ a # c
  BY HashOrderIs
<1>2. {a, b, c} = AllowedFormats
  BY <1>1 DEF AllowedFormats
<1> HIDE DEF a, b, c
<1>3. /\ one \in AllowedFormats /\ two \in AllowedFormats
      /\ {one, two, c} = AllowedFormats /\ one # two /\ one # c /\ two # c
      /\ Before(scores, one, two)
  BY <1>1, <1>2, BeforeIsTotal
<1>4. RankCandidates(scores, order)
        = IF ~Before(scores, c, two) THEN <<one, two, c>>
          ELSE IF ~Before(scores, c, one) THEN <<one, c, two>>
          ELSE <<c, one, two>>
  BY RankCandidatesIs DEF Ranked, a, b, c
<1> HIDE DEF one, two
<1>5. CASE ~Before(scores, c, two)
  BY <1>1, <1>3, <1>4, <1>5, BeforeIsTotal DEF InOrder
<1>6. CASE Before(scores, c, two) /\ ~Before(scores, c, one)
  BY <1>1, <1>3, <1>4, <1>6, BeforeIsTotal DEF InOrder
<1>7. CASE Before(scores, c, two) /\ Before(scores, c, one)
  BY <1>1, <1>3, <1>4, <1>7 DEF InOrder
<1>8. QED
  BY <1>5, <1>6, <1>7

LEMMA OneRanking ==
  ASSUME NEW scores, Apart(scores), NEW s, NEW t, InOrder(scores, s), InOrder(scores, t)
  PROVE  s[1] = t[1] /\ s[2] = t[2]
<1>1. ASSUME NEW u, InOrder(scores, u)
      PROVE  /\ {u[1], u[2], u[3]} = AllowedFormats
             /\ u[1] # u[2] /\ u[2] # u[3] /\ u[1] # u[3]
             /\ ~Before(scores, u[2], u[1]) /\ ~Before(scores, u[3], u[2])
             /\ ~Before(scores, u[3], u[1])
             /\ Before(scores, u[1], u[2]) /\ Before(scores, u[2], u[3])
             /\ Before(scores, u[1], u[3])
  <2>1. u[1] \in AllowedFormats /\ u[2] \in AllowedFormats /\ u[3] \in AllowedFormats
    BY <1>1 DEF InOrder
  <2>2. Before(scores, u[1], u[3])
    BY <1>1, <2>1, BeforeIsTransitive DEF InOrder
  <2>3. QED
    BY <1>1, <2>1, <2>2, BeforeIsTotal DEF InOrder
<1>2. s[1] = t[1]
  <2>1. s[1] \in {t[1], t[2], t[3]} /\ t[1] \in {s[1], s[2], s[3]}
    BY <1>1
  <2>2. QED
    BY <1>1, <2>1
<1>3. s[2] = t[2]
  <2>1. s[2] \in {t[1], t[2], t[3]} /\ t[2] \in {s[1], s[2], s[3]}
    BY <1>1
  <2>2. QED
    BY <1>1, <1>2, <2>1
<1>4. QED
  BY <1>2, <1>3

\* So the decision does not depend on the order.
LEMMA DecideIsSettled ==
  ASSUME NEW scores, Apart(scores), NEW preferred, NEW constraint
  PROVE  Cardinality({Decide(preferred, constraint, scores, order) : order \in HashOrders})
           = 1
<1> DEFINE D(order) == Decide(preferred, constraint, scores, order)
           o == <<"pptx", "pdf", "docx">>
<1>1. o \in HashOrders
  <2>1. o \in [1..3 -> AllowedFormats]
    BY DEF AllowedFormats
  <2>2. IsInjective(o)
    BY <2>1 DEF IsInjective
  <2>3. QED
    BY <2>1, <2>2 DEF HashOrders
<1> HIDE DEF o
<1>2. ASSUME NEW order \in HashOrders
      PROVE  D(order) = D(o)
  <2>1. /\ RankCandidates(scores, order)[1] = RankCandidates(scores, o)[1]
        /\ RankCandidates(scores, order)[2] = RankCandidates(scores, o)[2]
    BY <1>1, <1>2, RankedInOrder, OneRanking
  <2>2. QED
    BY <2>1 DEF Decide
<1> HIDE DEF D
<1>3. {D(order) : order \in HashOrders} = {D(o)}
  BY <1>1, <1>2
<1>4. Cardinality({D(o)}) = 1
  BY FS_Singleton
<1>5. QED
  BY <1>3, <1>4 DEF D

--------------------------------------------------------------------------------
\* The scores of the candidates.

\* Induction, for a set of numbers.
LEMMA Induction ==
  ASSUME NEW G, 0 \in G, \A n \in Nat : n \in G => n + 1 \in G
  PROVE  \A n \in Nat : n \in G
<1> DEFINE D == Nat \ G
<1>1. SUFFICES ASSUME D # {}
               PROVE  FALSE
  OBVIOUS
<1>2. D \subseteq Nat
  OBVIOUS
<1> HIDE DEF D
<1>3. PICK d \in D : \A x \in D : <<x, d>> \notin OpToRel(<, Nat)
  BY <1>1, <1>2, NatLessThanWellFounded, WFMin
<1>4. d \in Nat /\ d \notin G /\ d # 0
  BY <1>3 DEF D
<1>5. d - 1 \in Nat /\ d - 1 < d /\ (d - 1) + 1 = d
  BY <1>4
<1>6. d - 1 \notin D
  BY <1>3, <1>4, <1>5 DEF OpToRel
<1>7. QED
  BY <1>4, <1>5, <1>6 DEF D


\* A finite, non-empty set of natural numbers has a greatest element.  The
\* induction is on the subsets that have none: a smallest one would lose an
\* element and still have none.
LEMMA GreatestElement ==
  ASSUME NEW S \in SUBSET Nat, IsFiniteSet(S), S # {}
  PROVE  Max(S) \in S /\ \A y \in S : Max(S) >= y
<1> DEFINE HasMax(T) == \E x \in T : \A y \in T : x >= y
           Bad == {T \in SUBSET S : T # {} /\ ~HasMax(T)}
<1>1. IsWellFoundedOn(StrictSubsetOrdering(S), SUBSET S)
  BY FS_StrictSubsetOrderingWellFounded, FS_FiniteSubsetsOfFinite
<1>2. Bad = {}
  <2> SUFFICES ASSUME Bad # {}
               PROVE  FALSE
    OBVIOUS
  <2>1. PICK T \in Bad : \A U \in Bad : ~(<<U, T>> \in StrictSubsetOrdering(S))
    <3>1. Bad \subseteq SUBSET S
      OBVIOUS
    <3> HIDE DEF Bad
    <3> QED
      BY <3>1, <1>1, WFMin
  <2>2. PICK x : x \in T
    BY <2>1
  <2> DEFINE U == T \ {x}
  <2>3. <<U, T>> \in StrictSubsetOrdering(S)
    BY <2>1, <2>2 DEF StrictSubsetOrdering
  <2>4. U \notin Bad /\ U \in SUBSET S
    BY <2>1, <2>3
  <2>5. CASE U = {}
    <3>1. T = {x} /\ x \in Nat
      BY <2>1, <2>2, <2>5
    <3>2. HasMax(T)
      BY <3>1
    <3> QED
      BY <2>1, <3>2
  <2>6. CASE U # {}
    <3>1. PICK m \in U : \A y \in U : m >= y
      BY <2>4, <2>6
    <3>2. m \in Nat /\ x \in Nat /\ T = U \cup {x} /\ \A y \in U : y \in Nat
      BY <2>1, <2>2, <3>1
    <3> HIDE DEF U
    <3>3. HasMax(T)
      <4>1. CASE m >= x
        <5>1. \A y \in T : m >= y
          BY <3>1, <3>2, <4>1
        <5> QED
          BY <3>1, <3>2, <5>1
      <4>2. CASE ~(m >= x)
        <5>1. \A y \in U : x >= y
          BY <3>1, <3>2, <4>2
        <5>2. \A y \in T : x >= y
          BY <5>1, <3>2
        <5> QED
          BY <3>2, <5>2
      <4> QED
        BY <4>1, <4>2
    <3> QED
      BY <2>1, <3>3
  <2> QED
    BY <2>5, <2>6
<1>3. HasMax(S)
  BY <1>2
<1> QED
  BY <1>3 DEF Max

\* Candidates: a sequence of pairs, the second of each a score.
Weighted(c) ==
  /\ Len(c) \in Nat /\ DOMAIN c = 1..Len(c)
  /\ \A i \in 1..Len(c) : c[i][2] \in Int

LEMMA PairsAreWeighted ==
  ASSUME NEW S, NEW c \in Seq(S \X Int)
  PROVE  Weighted(c)
BY DEF Weighted

\* What a candidate adds to the score of a format.
Adds(f, c) == IF c[1] = f THEN c[2] ELSE 0

\* The recursion behind FoldLeft, over the sets of positions.
Sums(g, n, w) ==
  g = [s \in SUBSET (1..n) |->
         IF s = {} THEN 0 ELSE g[s \ {Max(s)}] + w[Max(s)]]

\* It has a solution: the one for n positions extends to n + 1.
LEMMA SumsExist ==
  ASSUME NEW n \in Nat, NEW w \in [1..n -> Int]
  PROVE  \E g : Sums(g, n, w)
<1> DEFINE Solves(g, m) == \A s \in SUBSET (1..m) :
                             g[s] = IF s = {} THEN 0 ELSE g[s \ {Max(s)}] + w[Max(s)]
           Solved(m) == m <= n => \E g \in [SUBSET (1..m) -> Int] : Solves(g, m)
           G == {m \in Nat : Solved(m)}
<1>1. Solved(0)
  <2> DEFINE g == [s \in SUBSET (1..0) |-> 0]
  <2>1. g \in [SUBSET (1..0) -> Int]
    OBVIOUS
  <2>2. \A s \in SUBSET (1..0) : s = {}
    OBVIOUS
  <2>3. Solves(g, 0)
    BY <2>2
  <2>4. QED
    BY <2>1, <2>3
<1>2. ASSUME NEW m \in Nat, Solved(m)
      PROVE  Solved(m + 1)
  <2> SUFFICES ASSUME m + 1 <= n
               PROVE  \E g \in [SUBSET (1..(m + 1)) -> Int] : Solves(g, m + 1)
    OBVIOUS
  <2>0. m <= n
    OBVIOUS
  <2>1. PICK g \in [SUBSET (1..m) -> Int] : Solves(g, m)
    <3> HIDE DEF Solves
    <3>1. QED
      BY <1>2, <2>0
  <2> DEFINE h == [s \in SUBSET (1..(m + 1)) |->
                     IF m + 1 \in s THEN g[s \ {m + 1}] + w[m + 1] ELSE g[s]]
  <2>2. m + 1 \in 1..n /\ w[m + 1] \in Int
    OBVIOUS
  <2>3. ASSUME NEW s \in SUBSET (1..(m + 1))
        PROVE  /\ s \ {m + 1} \in SUBSET (1..m)
               /\ m + 1 \notin s => s \in SUBSET (1..m)
    OBVIOUS
  <2>4. h \in [SUBSET (1..(m + 1)) -> Int]
    BY <2>1, <2>2, <2>3
  <2>5. ASSUME NEW s \in SUBSET (1..(m + 1))
        PROVE  h[s] = IF s = {} THEN 0 ELSE h[s \ {Max(s)}] + w[Max(s)]
    <3>1. CASE m + 1 \in s
      <4>1. Max(s) = m + 1
        <5>1. s \in SUBSET Int /\ \A y \in s : m + 1 >= y
          OBVIOUS
        <5>2. QED
          BY <3>1, <5>1, MaxIs
      <4>2. h[s \ {m + 1}] = g[s \ {m + 1}]
        BY <2>3
      <4>3. QED
        BY <3>1, <4>1, <4>2
    <3>2. CASE m + 1 \notin s
      <4>1. s \in SUBSET (1..m) /\ s \ {Max(s)} \in SUBSET (1..m)
        BY <2>3, <3>2
      <4>2. h[s] = g[s] /\ h[s \ {Max(s)}] = g[s \ {Max(s)}]
        BY <3>2, <4>1
      <4>3. g[s] = IF s = {} THEN 0 ELSE g[s \ {Max(s)}] + w[Max(s)]
        BY <2>1, <4>1
      <4>4. QED
        BY <4>2, <4>3
    <3>3. QED
      BY <3>1, <3>2
  <2> HIDE DEF h
  <2>6. Solves(h, m + 1)
    BY <2>5
  <2>7. QED
    BY <2>4, <2>6
<1>3. Solved(n)
  <2> HIDE DEF Solved
  <2>1. 0 \in G /\ \A m \in Nat : m \in G => m + 1 \in G
    BY <1>1, <1>2
  <2> HIDE DEF G
  <2>2. n \in G
    BY <2>1, Induction
  <2>3. QED
    BY <2>2 DEF G
<1> HIDE DEF Solves
<1>0. n <= n
  OBVIOUS
<1>4. PICK g \in [SUBSET (1..n) -> Int] : Solves(g, n)
  BY <1>3, <1>0
<1> USE DEF Solves
<1>5. Sums(g, n, w)
  BY <1>4 DEF Sums
<1>6. QED
  BY <1>5

\* And all its values are numbers.
LEMMA SumsAreInt ==
  ASSUME NEW n \in Nat, NEW w \in [1..n -> Int], NEW g, Sums(g, n, w)
  PROVE  g[1..n] \in Int
<1> DEFINE Good(m) == m <= n => \A s \in SUBSET (1..m) : g[s] \in Int
           G == {m \in Nat : Good(m)}
<1>1. ASSUME NEW s \in SUBSET (1..n)
      PROVE  g[s] = IF s = {} THEN 0 ELSE g[s \ {Max(s)}] + w[Max(s)]
  BY <1>1 DEF Sums
<1>2. Good(0)
  <2>1. \A s \in SUBSET (1..0) : s = {} /\ s \in SUBSET (1..n)
    OBVIOUS
  <2>2. g[{}] = 0
    BY <1>1
  <2>3. ASSUME NEW s \in SUBSET (1..0)
        PROVE  g[s] \in Int
    <3>1. s = {}
      BY <2>1
    <3>2. QED
      BY <2>2, <3>1
  <2>4. QED
    BY <2>3
<1>3. ASSUME NEW m \in Nat, Good(m)
      PROVE  Good(m + 1)
  <2> SUFFICES ASSUME m + 1 <= n, NEW s \in SUBSET (1..(m + 1))
               PROVE  g[s] \in Int
    OBVIOUS
  <2>1. m <= n /\ \A t \in SUBSET (1..m) : g[t] \in Int
    BY <1>3
  <2>2. CASE m + 1 \in s
    <3>1. Max(s) = m + 1
      <4>1. s \in SUBSET Int /\ \A y \in s : m + 1 >= y
        OBVIOUS
      <4>2. QED
        BY <2>2, <4>1, MaxIs
    <3>2. s \ {m + 1} \in SUBSET (1..m) /\ s \in SUBSET (1..n) /\ s # {}
      BY <2>2
    <3>3. w[m + 1] \in Int
      OBVIOUS
    <3>4. g[s \ {m + 1}] \in Int
      BY <2>1, <3>2
    <3>5. g[s] = g[s \ {m + 1}] + w[m + 1]
      BY <1>1, <3>1, <3>2
    <3>6. QED
      BY <3>3, <3>4, <3>5
  <2>3. CASE m + 1 \notin s
    <3>1. s \in SUBSET (1..m)
      BY <2>3
    <3>2. QED
      BY <2>1, <3>1
  <2>4. QED
    BY <2>2, <2>3
<1>4. Good(n)
  <2> HIDE DEF Good
  <2>1. 0 \in G /\ \A m \in Nat : m \in G => m + 1 \in G
    BY <1>2, <1>3
  <2> HIDE DEF G
  <2>2. n \in G
    BY <2>1, Induction
  <2>3. QED
    BY <2>2 DEF G
<1>5. QED
  BY <1>4

\* CandidateScore is such a solution's last value.
LEMMA CandidateScoreIs ==
  ASSUME NEW f, NEW c, Weighted(c)
  PROVE  \E g : /\ Sums(g, Len(c), [i \in 1..Len(c) |-> Adds(f, c[i])])
                /\ CandidateScore(f, c) = g[1..Len(c)]
<1> DEFINE w == [i \in 1..Len(c) |-> Adds(f, c[i])]
           Step(g) == [s \in SUBSET DOMAIN c |->
                         IF s = {} THEN 0
                         ELSE g[s \ {Max(s)}]
                                + (IF c[Max(s)][1] = f THEN c[Max(s)][2] ELSE 0)]
           h == CHOOSE h : h = Step(h)
<1>1. DOMAIN c = 1..Len(c) /\ Len(c) \in Nat
  BY DEF Weighted
<1>2. ASSUME NEW i \in 1..Len(c)
      PROVE  Adds(f, c[i]) \in Int
  BY <1>2 DEF Adds, Weighted
<1>3. w \in [1..Len(c) -> Int]
  BY <1>2
<1>4. ASSUME NEW s \in SUBSET DOMAIN c, s # {}
      PROVE  w[Max(s)] = IF c[Max(s)][1] = f THEN c[Max(s)][2] ELSE 0
  <2>1. s \in SUBSET Nat /\ IsFiniteSet(s)
    <3>1. IsFiniteSet(1..Len(c))
      BY <1>1, FS_Interval
    <3>2. s \subseteq 1..Len(c)
      BY <1>1, <1>4
    <3>3. QED
      BY <3>1, <3>2, FS_Subset
  <2>2. Max(s) \in s
    BY <1>4, <2>1, GreatestElement
  <2>3. QED
    BY <1>1, <1>4, <2>2 DEF Adds
<1>5. ASSUME NEW g
      PROVE  g = Step(g) <=> Sums(g, Len(c), w)
  <2>1. Step(g) = [s \in SUBSET (1..Len(c)) |->
                     IF s = {} THEN 0 ELSE g[s \ {Max(s)}] + w[Max(s)]]
    <3> HIDE DEF w
    <3>1. QED
      BY <1>1, <1>4
  <2> HIDE DEF w, Step
  <2>2. QED
    BY <2>1 DEF Sums
<1>6. CandidateScore(f, c) = h[DOMAIN c]
  BY DEF CandidateScore, FoldLeft, MapThenFoldSet
<1> HIDE DEF w, Step
<1>7. PICK g : Sums(g, Len(c), w)
  BY <1>1, <1>3, SumsExist
<1>8. h = Step(h)
  BY <1>5, <1>7
<1>9. Sums(h, Len(c), w)
  BY <1>5, <1>8
<1> HIDE DEF h
<1>10. QED
  BY <1>1, <1>6, <1>9 DEF w

LEMMA CandidateScoreIsInt ==
  ASSUME NEW f, NEW c, Weighted(c)
  PROVE  CandidateScore(f, c) \in Int
<1> DEFINE w == [i \in 1..Len(c) |-> Adds(f, c[i])]
<1>1. w \in [1..Len(c) -> Int] /\ Len(c) \in Nat
  BY DEF Adds, Weighted
<1>2. PICK g : Sums(g, Len(c), w) /\ CandidateScore(f, c) = g[1..Len(c)]
  BY CandidateScoreIs
<1> HIDE DEF w
<1>3. QED
  BY <1>1, <1>2, SumsAreInt

\* The scores of an interpretation are numbers.
LEMMA ScoresAreInt ==
  ASSUME NEW c, Weighted(c), NEW haystack, NEW visual
  PROVE  Scores(c, haystack, visual) \in [AllowedFormats -> Int]
<1>1. ASSUME NEW f \in AllowedFormats
      PROVE  SignalScore(f, haystack, visual) \in Int
  <2>1. SignalWeight[f] \in Int /\ VisualBonus \in Int
    BY <1>1 DEF SignalWeight, VisualBonus, AllowedFormats
  <2>2. QED
    BY <2>1 DEF SignalScore
<1>2. ASSUME NEW f \in AllowedFormats
      PROVE  CandidateScore(f, c) + SignalScore(f, haystack, visual) \in Int
  <2>1. CandidateScore(f, c) \in Int
    BY CandidateScoreIsInt
  <2>2. QED
    BY <1>1, <2>1
<1>3. QED
  BY <1>2 DEF Scores

--------------------------------------------------------------------------------
\* Repairing an answer, field by field.

AnswerFields ==
  {"envelope", "schema_version", "teacher_prompt", "language", "reasoning", "delivery",
   "intent", "goal", "clarify", "constraints", "preferred", "duration", "candidates",
   "named", "blueprint", "title", "summary", "sections", "usable", "activities", "visual",
   "confidence", "score", "audience", "integrity", "assets", "objectives", "plan", "active",
   "fields", "difficulty", "questions", "counts", "missing"}

Shaped(r) == r = [f \in AnswerFields |-> r[f]]

\* An answer whose fields outside F are as they were, and one that agrees with
\* another on the fields in R.
Kept(r, s, F) == Shaped(s) /\ \A f \in AnswerFields \ F : s[f] = r[f]
Agree(r, s, R) == \A f \in R : s[f] = r[f]

LEMMA AnswersAreShaped ==
  ASSUME NEW r \in InterpretationAnswer
  PROVE  Shaped(r)
BY DEF InterpretationAnswer, Shaped, AnswerFields

LEMMA KeptTransitive ==
  ASSUME NEW r, NEW s, NEW t, NEW F, NEW G, Kept(r, s, F), Kept(s, t, G)
  PROVE  Kept(r, t, F \cup G)
BY DEF Kept

LEMMA FillKeeps ==
  ASSUME NEW r, Shaped(r), NEW f \in AnswerFields, NEW S, NEW v
  PROVE  /\ Kept(r, Fill(r, f, S, v), {f})
         /\ Fill(r, f, S, v)[f] = IF r[f] \in S THEN v ELSE r[f]
BY DEF Fill, Kept, Shaped

LEMMA FillSettles ==
  ASSUME NEW s, Shaped(s), NEW f \in AnswerFields, NEW S, NEW v,
         s[f] \in S => s[f] = v
  PROVE  Fill(s, f, S, v) = s
BY DEF Fill, Shaped

\* One lemma for each step of repair_interpretation_json: the fields it leaves
\* alone, and that it has nothing to do on an answer that agrees with its
\* result on the fields it reads.
LEMMA FixSchemaVersionLemma ==
  ASSUME NEW r, Shaped(r)
  PROVE  /\ Kept(r, FixSchemaVersion(r), {"schema_version"})
         /\ \A s : Shaped(s) /\ Agree(FixSchemaVersion(r), s, {"schema_version"})
                     => FixSchemaVersion(s) = s
<1>1. "schema_version" \in AnswerFields
  BY DEF AnswerFields
<1>2. FixSchemaVersion(r).schema_version \notin NotThere
  <2>1. FixSchemaVersion(r)["schema_version"]
          = IF r["schema_version"] \in NotThere THEN "text" ELSE r["schema_version"]
    BY <1>1 DEF FixSchemaVersion, Fill, Shaped
  <2>2. QED
    BY <2>1 DEF NotThere
<1>3. QED
  BY <1>1, <1>2, FillKeeps, FillSettles DEF FixSchemaVersion, Agree

LEMMA FixTeacherPromptLemma ==
  ASSUME NEW r, Shaped(r)
  PROVE  /\ Kept(r, FixTeacherPrompt(r), {"teacher_prompt"})
         /\ \A s : Shaped(s) /\ Agree(FixTeacherPrompt(r), s, {"teacher_prompt"})
                     => FixTeacherPrompt(s) = s
<1>1. "teacher_prompt" \in AnswerFields
  BY DEF AnswerFields
<1>2. FixTeacherPrompt(r).teacher_prompt \in Unset
        => FixTeacherPrompt(r).teacher_prompt = "blank"
  <2>1. FixTeacherPrompt(r)["teacher_prompt"]
          = IF r["teacher_prompt"] \in Unset THEN PromptString(r) ELSE r["teacher_prompt"]
    BY <1>1 DEF FixTeacherPrompt, Fill, Shaped
  <2>2. QED
    BY <2>1 DEF Unset, PromptString
<1>3. ASSUME NEW s, Shaped(s), Agree(FixTeacherPrompt(r), s, {"teacher_prompt"})
      PROVE  FixTeacherPrompt(s) = s
  <2>1. s["teacher_prompt"] \in Unset => s["teacher_prompt"] = PromptString(s)
    BY <1>2, <1>3 DEF Agree, PromptString
  <2>2. QED
    BY <1>1, <1>3, <2>1, FillSettles DEF FixTeacherPrompt
<1>4. QED
  BY <1>1, <1>3, FillKeeps DEF FixTeacherPrompt

LEMMA NormalizeOutputTypeSettles ==
  ASSUME NEW x
  PROVE  /\ NormalizeOutputType(x) \in {"pdf", "docx", "pptx"}
         /\ NormalizeOutputType(NormalizeOutputType(x)) = NormalizeOutputType(x)
BY DEF NormalizeOutputType

\* A field that is filled with a shape that is not filled again.
LEMMA FillOnce ==
  ASSUME NEW r, Shaped(r), NEW f \in AnswerFields, NEW S, NEW v, v \notin S
  PROVE  /\ Kept(r, Fill(r, f, S, v), {f})
         /\ \A s : Shaped(s) /\ Agree(Fill(r, f, S, v), s, {f}) => Fill(s, f, S, v) = s
<1>1. Fill(r, f, S, v)[f] \notin S
  BY DEF Fill, Shaped
<1>2. ASSUME NEW s, Shaped(s), Agree(Fill(r, f, S, v), s, {f})
      PROVE  Fill(s, f, S, v) = s
  BY <1>1, <1>2 DEF Fill, Agree
<1>3. QED
  BY <1>2, FillKeeps

\* A field whose shapes in S become v and whose shapes in T become w.
LEMMA FillTwice ==
  ASSUME NEW r, Shaped(r), NEW f \in AnswerFields, NEW S, NEW v, NEW T, NEW w,
         v \notin S, v \notin T, w \notin S, w \notin T
  PROVE  /\ Kept(r, Fill(Fill(r, f, S, v), f, T, w), {f})
         /\ \A s : Shaped(s) /\ Agree(Fill(Fill(r, f, S, v), f, T, w), s, {f})
                     => Fill(Fill(s, f, S, v), f, T, w) = s
<1> DEFINE a == Fill(r, f, S, v)
           b == Fill(a, f, T, w)
<1>1. Kept(r, a, {f}) /\ (a[f] \notin S)
  BY FillKeeps DEF Fill, Shaped
<1>2. Shaped(a)
  BY <1>1 DEF Kept
<1> HIDE DEF a
<1>3. Kept(a, b, {f}) /\ b[f] \notin S /\ b[f] \notin T
  <2>1. Kept(a, b, {f})
    BY <1>2, FillKeeps
  <2>2. b[f] \notin S /\ b[f] \notin T
    BY <1>1, <1>2 DEF Fill, Shaped
  <2>3. QED
    BY <2>1, <2>2
<1>4. Kept(r, b, {f})
  BY <1>1, <1>3 DEF Kept
<1> HIDE DEF b
<1>5. ASSUME NEW s, Shaped(s), Agree(b, s, {f})
      PROVE  Fill(Fill(s, f, S, v), f, T, w) = s
  <2>1. s[f] \notin S /\ s[f] \notin T
    BY <1>3, <1>5 DEF Agree
  <2>2. Fill(s, f, S, v) = s
    BY <2>1 DEF Fill
  <2>3. Fill(s, f, T, w) = s
    BY <2>1 DEF Fill
  <2>4. QED
    BY <2>2, <2>3
<1>6. QED
  BY <1>4, <1>5 DEF a, b

LEMMA FixDurationLemma ==
  ASSUME NEW r, Shaped(r)
  PROVE  /\ Kept(r, FixDuration(r), {"duration"})
         /\ \A s : Shaped(s) /\ Agree(FixDuration(r), s, {"duration"}) => FixDuration(s) = s
<1>1. "duration" \in AnswerFields
  BY DEF AnswerFields
<1>2. /\ "number" \notin {"digits"} /\ "number" \notin {"text", "blank"}
      /\ "absent" \notin {"digits"} /\ "absent" \notin {"text", "blank"}
  OBVIOUS
<1>3. QED
  BY <1>1, <1>2, FillTwice DEF FixDuration

LEMMA FixLanguageLemma ==
  ASSUME NEW r, Shaped(r)
  PROVE  /\ Kept(r, FixLanguage(r), {"language"})
         /\ \A s : Shaped(s) /\ Agree(FixLanguage(r), s, {"language"}) => FixLanguage(s) = s
<1>1. "language" \in AnswerFields
  BY DEF AnswerFields
<1>2. "text" \notin Unset
  BY DEF Unset
<1>3. QED
  BY <1>1, <1>2, FillOnce DEF FixLanguage

LEMMA FixReasoningLemma ==
  ASSUME NEW r, Shaped(r)
  PROVE  /\ Kept(r, FixReasoning(r), {"reasoning"})
         /\ \A s : Shaped(s) /\ Agree(FixReasoning(r), s, {"reasoning"}) => FixReasoning(s) = s
<1>1. "reasoning" \in AnswerFields
  BY DEF AnswerFields
<1>2. "text" \notin Unset
  BY DEF Unset
<1>3. QED
  BY <1>1, <1>2, FillOnce DEF FixReasoning

LEMMA FixContentIntegrityLemma ==
  ASSUME NEW r, Shaped(r)
  PROVE  /\ Kept(r, FixContentIntegrity(r), {"integrity"})
         /\ \A s : Shaped(s) /\ Agree(FixContentIntegrity(r), s, {"integrity"})
                     => FixContentIntegrity(s) = s
<1>1. "integrity" \in AnswerFields
  BY DEF AnswerFields
<1>2. "object" \notin {"scoreless"}
  OBVIOUS
<1>3. QED
  BY <1>1, <1>2, FillOnce DEF FixContentIntegrity

LEMMA FixAssetsLemma ==
  ASSUME NEW r, Shaped(r)
  PROVE  /\ Kept(r, FixAssets(r), {"assets"})
         /\ \A s : Shaped(s) /\ Agree(FixAssets(r), s, {"assets"}) => FixAssets(s) = s
<1>1. "assets" \in AnswerFields
  BY DEF AnswerFields
<1>2. "array" \notin {"unmarked"}
  OBVIOUS
<1>3. QED
  BY <1>1, <1>2, FillOnce DEF FixAssets

LEMMA FixLearningObjectivesLemma ==
  ASSUME NEW r, Shaped(r)
  PROVE  /\ Kept(r, FixLearningObjectives(r), {"objectives"})
         /\ \A s : Shaped(s) /\ Agree(FixLearningObjectives(r), s, {"objectives"})
                     => FixLearningObjectives(s) = s
<1>1. "objectives" \in AnswerFields
  BY DEF AnswerFields
<1>2. /\ "empty" \notin NotThere /\ "empty" \notin {"objects"}
      /\ "array" \notin NotThere /\ "array" \notin {"objects"}
  BY DEF NotThere
<1>3. QED
  BY <1>1, <1>2, FillTwice DEF FixLearningObjectives

LEMMA FixMissingFieldsLemma ==
  ASSUME NEW r, Shaped(r)
  PROVE  /\ Kept(r, FixMissingFields(r), {"missing"})
         /\ \A s : Shaped(s) /\ Agree(FixMissingFields(r), s, {"missing"})
                     => FixMissingFields(s) = s
<1>1. "missing" \in AnswerFields
  BY DEF AnswerFields
<1>2. /\ "empty" \notin NotThere /\ "empty" \notin {"partial"}
      /\ "array" \notin NotThere /\ "array" \notin {"partial"}
  BY DEF NotThere
<1>3. QED
  BY <1>1, <1>2, FillTwice DEF FixMissingFields

LEMMA FixDeliverySummaryLemma ==
  ASSUME NEW r, Shaped(r)
  PROVE  /\ Kept(r, FixDeliverySummary(r), {"delivery"})
         /\ \A s : Shaped(s) /\ Agree(FixDeliverySummary(r), s, {"delivery", "teacher_prompt"})
                     => FixDeliverySummary(s) = s
<1>1. "delivery" \in AnswerFields
  BY DEF AnswerFields
<1>2. FixDeliverySummary(r)["delivery"] \in Unset
        => FixDeliverySummary(r)["delivery"] = TruncateStr(PromptString(r))
  BY <1>1 DEF FixDeliverySummary, Fill, Shaped
<1>3. Kept(r, FixDeliverySummary(r), {"delivery"})
  BY <1>1, FillKeeps DEF FixDeliverySummary
<1>4. FixDeliverySummary(r)["teacher_prompt"] = r["teacher_prompt"]
  BY <1>3 DEF Kept, AnswerFields
<1>5. ASSUME NEW s, Shaped(s), Agree(FixDeliverySummary(r), s, {"delivery", "teacher_prompt"})
      PROVE  FixDeliverySummary(s) = s
  <2>1. s["teacher_prompt"] = r["teacher_prompt"]
        /\ s["delivery"] = FixDeliverySummary(r)["delivery"]
    BY <1>4, <1>5 DEF Agree
  <2>2. PromptString(s) = PromptString(r)
    BY <2>1 DEF PromptString
  <2>3. s["delivery"] \in Unset => s["delivery"] = TruncateStr(PromptString(s))
    BY <1>2, <2>1, <2>2
  <2>4. QED
    BY <1>1, <1>5, <2>3, FillSettles DEF FixDeliverySummary
<1>6. QED
  BY <1>3, <1>5

\* The candidates: pairs of a format and a score that is there.
Listed(c) == c \in Seq({"pdf", "docx", "pptx"} \X Nat)

LEMMA CandidatesOfAString ==
  ASSUME NEW x
  PROVE  Listed(NormalizeOutputTypeCandidatesString(x)) /\ Listed(DefaultCandidates)
<1>1. NormalizeOutputType(x) \in {"pdf", "docx", "pptx"}
  BY NormalizeOutputTypeSettles
<1>2. QED
  BY <1>1 DEF Listed, NormalizeOutputTypeCandidatesString, DefaultCandidates

LEMMA IsASeqOf ==
  ASSUME NEW S, NEW n \in Nat, NEW s \in [1..n -> S]
  PROVE  s \in Seq(S)
BY SeqDef

LEMMA FixCandidatesLemma ==
  ASSUME NEW r, Shaped(r), Weighted(r["named"])
  PROVE  /\ Kept(r, FixCandidates(r), {"candidates", "named"})
         /\ Weighted(FixCandidates(r)["named"])
         /\ \A s : Shaped(s) /\ Agree(FixCandidates(r), s, {"candidates", "named"})
                     => FixCandidates(s) = s
<1> DEFINE First == IF r.named = << >> THEN "pdf" ELSE r.named[1][1]
           Scored(c) == <<NormalizeOutputType(c[1]), IF c[2] < 0 THEN 7000 ELSE c[2]>>
           all == [i \in DOMAIN r.named |-> Scored(r.named[i])]
           e == FixCandidates(r)
           New(n) == [r EXCEPT !.candidates = "array", !.named = n]
<1>1. "candidates" \in AnswerFields /\ "named" \in AnswerFields /\ "candidates" # "named"
  BY DEF AnswerFields
<1>2. Listed(all)
  <2>1. ASSUME NEW i \in DOMAIN r.named
        PROVE  Scored(r.named[i]) \in {"pdf", "docx", "pptx"} \X Nat
    <3>1. r.named[i][2] \in Int
      BY <2>1 DEF Weighted
    <3>2. (IF r.named[i][2] < 0 THEN 7000 ELSE r.named[i][2]) \in Nat
      BY <3>1
    <3>3. QED
      BY <3>2, NormalizeOutputTypeSettles
  <2> HIDE DEF Scored
  <2>2. DOMAIN r.named = 1..Len(r.named) /\ Len(r.named) \in Nat
    BY DEF Weighted
  <2>3. all \in [1..Len(r.named) -> {"pdf", "docx", "pptx"} \X Nat]
    BY <2>1, <2>2
  <2> HIDE DEF all
  <2>4. QED
    BY <2>2, <2>3, IsASeqOf DEF Listed
<1>3. \/ \E n : e = New(n) /\ Listed(n)
      \/ e = r /\ r.candidates \notin {"string", "object", "absent", "array", "strings"}
  <2>1. CASE r.candidates = "string"
    BY <2>1, CandidatesOfAString DEF FixCandidates
  <2>2. CASE r.candidates = "object"
    BY <2>2, CandidatesOfAString DEF FixCandidates, NormalizeOutputTypeCandidatesObject
  <2>3. CASE r.candidates = "absent"
    BY <2>3, CandidatesOfAString DEF FixCandidates
  <2>4. CASE r.candidates \in {"array", "strings"}
    <3>1. e = New(all)
      BY <2>4 DEF FixCandidates
    <3> HIDE DEF all, e
    <3>2. QED
      BY <1>2, <3>1
  <2>5. CASE r.candidates \notin {"string", "object", "absent", "array", "strings"}
    BY <2>5 DEF FixCandidates
  <2>6. QED
    BY <2>1, <2>2, <2>3, <2>4, <2>5
<1> HIDE DEF all, e
<1>4. ASSUME NEW s, Shaped(s), s.candidates = "array", Listed(s.named)
      PROVE  FixCandidates(s) = s
  <2>1. ASSUME NEW i \in DOMAIN s.named
        PROVE  Scored(s.named[i]) = s.named[i]
    <3>1. s.named[i] \in {"pdf", "docx", "pptx"} \X Nat
      BY <1>4, <2>1 DEF Listed
    <3>2. NormalizeOutputType(s.named[i][1]) = s.named[i][1]
      BY <3>1 DEF NormalizeOutputType
    <3>3. (IF s.named[i][2] < 0 THEN 7000 ELSE s.named[i][2]) = s.named[i][2]
      BY <3>1
    <3>4. s.named[i] = <<s.named[i][1], s.named[i][2]>>
      BY <3>1
    <3>5. QED
      BY <3>2, <3>3, <3>4
  <2>2. [i \in DOMAIN s.named |-> Scored(s.named[i])] = s.named
    <3> HIDE DEF Scored
    <3>1. s.named = [i \in DOMAIN s.named |-> s.named[i]]
      BY <1>4 DEF Listed
    <3>2. QED
      BY <2>1, <3>1
  <2>3. FixCandidates(s) = [s EXCEPT !.candidates = "array",
                                     !.named = [i \in DOMAIN s.named |-> Scored(s.named[i])]]
    BY <1>4 DEF FixCandidates
  <2>4. FixCandidates(s) = [s EXCEPT !.candidates = s.candidates, !.named = s.named]
    <3> DEFINE m == [i \in DOMAIN s.named |-> Scored(s.named[i])]
    <3>1. m = s.named /\ FixCandidates(s) = [s EXCEPT !.candidates = "array", !.named = m]
      BY <2>2, <2>3
    <3> HIDE DEF m
    <3>2. QED
      BY <1>4, <3>1
  <2>5. QED
    BY <2>4, <1>4, <1>1 DEF Shaped
<1>5. CASE \E n : e = New(n) /\ Listed(n)
  <2>1. PICK n : e = New(n) /\ Listed(n)
    BY <1>5
  <2>2. e.candidates = "array" /\ e.named = n /\ Kept(r, e, {"candidates", "named"})
    BY <1>1, <2>1 DEF Kept, Shaped
  <2>3. ASSUME NEW s, Shaped(s), Agree(e, s, {"candidates", "named"})
        PROVE  FixCandidates(s) = s
    <3>1. s.candidates = "array" /\ s.named = n
      BY <2>2, <2>3 DEF Agree
    <3>2. QED
      BY <1>4, <2>1, <2>3, <3>1
  <2>4. Weighted(n)
    BY <2>1 DEF Listed, Weighted
  <2>5. QED
    BY <2>2, <2>3, <2>4 DEF e
<1>6. CASE e = r /\ r.candidates \notin {"string", "object", "absent", "array", "strings"}
  <2>1. Kept(r, e, {"candidates", "named"})
    BY <1>6 DEF Kept
  <2>2. ASSUME NEW s, Shaped(s), Agree(e, s, {"candidates", "named"})
        PROVE  FixCandidates(s) = s
    <3>1. s.candidates \notin {"string", "object", "absent", "array", "strings"}
      BY <1>6, <2>2 DEF Agree
    <3>2. QED
      BY <3>1 DEF FixCandidates
  <2>3. QED
    BY <1>6, <2>1, <2>2 DEF e
<1>7. QED
  BY <1>3, <1>5, <1>6

LEMMA FixConstraintsLemma ==
  ASSUME NEW r, Shaped(r)
  PROVE  /\ Kept(r, FixConstraints(r), {"constraints", "preferred"})
         /\ \A s : Shaped(s) /\ Agree(FixConstraints(r), s, {"constraints", "preferred"})
                     => FixConstraints(s) = s
<1> DEFINE e == FixConstraints(r)
<1>1. "constraints" \in AnswerFields /\ "preferred" \in AnswerFields
  BY DEF AnswerFields
<1>2. /\ Kept(r, e, {"constraints", "preferred"})
      /\ e.constraints # "absent" /\ (e.constraints = "object" => e.preferred \notin Unset)
  BY <1>1 DEF FixConstraints, Fill, Unset, Kept, Shaped
<1>3. ASSUME NEW s, s.constraints # "absent",
             s.constraints = "object" => s.preferred \notin Unset
      PROVE  FixConstraints(s) = s
  BY <1>3 DEF FixConstraints, Fill
<1> HIDE DEF e
<1>4. ASSUME NEW s, Agree(e, s, {"constraints", "preferred"})
      PROVE  FixConstraints(s) = s
  <2>1. s.constraints = e.constraints /\ s.preferred = e.preferred
    BY <1>4 DEF Agree
  <2>2. QED
    BY <1>2, <1>3, <2>1
<1>5. QED
  BY <1>2, <1>4 DEF e

LEMMA FixConfidenceLemma ==
  ASSUME NEW r, Shaped(r), r["score"] \in Int
  PROVE  /\ Kept(r, FixConfidence(r), {"confidence", "score"})
         /\ \A s : Shaped(s) /\ Agree(FixConfidence(r), s, {"confidence", "score"})
                     => FixConfidence(s) = s
<1> DEFINE e == FixConfidence(r)
<1>1. "confidence" \in AnswerFields /\ "score" \in AnswerFields
  BY DEF AnswerFields
<1>2. Kept(r, e, {"confidence", "score"}) /\ e.confidence = "object" /\ ~(e.score < 0)
  <2>1. e = [r EXCEPT !.confidence = "object",
                      !.score = IF r.score < 0 \/ r.confidence \in NotThere THEN 6 ELSE r.score]
    BY <1>1 DEF FixConfidence, Shaped
  <2>2. e.score = IF r.score < 0 \/ r.confidence \in NotThere THEN 6 ELSE r.score
    BY <1>1, <2>1 DEF Shaped
  <2>3. ~(e.score < 0)
    BY <2>2
  <2>4. Kept(r, e, {"confidence", "score"}) /\ e.confidence = "object"
    <3> DEFINE x == IF r.score < 0 \/ r.confidence \in NotThere THEN 6 ELSE r.score
    <3>1. e = [r EXCEPT !.confidence = "object", !.score = x]
      BY <2>1
    <3> HIDE DEF x, e
    <3>2. QED
      BY <1>1, <3>1 DEF Kept, Shaped
  <2>5. QED
    BY <2>3, <2>4
<1> HIDE DEF e
<1>3. ASSUME NEW s, Shaped(s), Agree(e, s, {"confidence", "score"})
      PROVE  FixConfidence(s) = s
  <2>1. s.confidence = "object" /\ ~(s.score < 0) /\ s.confidence \notin NotThere
    BY <1>2, <1>3 DEF Agree, NotThere
  <2>2. FixConfidence(s) = [s EXCEPT !.confidence = s.confidence, !.score = s.score]
    BY <1>1, <1>3, <2>1 DEF FixConfidence, Shaped
  <2>3. QED
    BY <1>3, <2>2 DEF Shaped
<1>4. QED
  BY <1>2, <1>3 DEF e

LEMMA FixPlanModeLemma ==
  ASSUME NEW r, Shaped(r)
  PROVE  /\ Kept(r, FixPlanMode(r), {"plan", "active"})
         /\ \A s : Shaped(s) /\ Agree(FixPlanMode(r), s, {"plan", "active"})
                     => FixPlanMode(s) = s
<1> DEFINE e == FixPlanMode(r)
<1>1. "plan" \in AnswerFields /\ "active" \in AnswerFields
  BY DEF AnswerFields
<1>2. /\ Kept(r, e, {"plan", "active"})
      /\ e.plan \notin NotThere /\ (e.plan = "object" => e.active \notin NotThere)
  BY <1>1 DEF FixPlanMode, Fill, NotThere, Kept, Shaped
<1>3. ASSUME NEW s, s.plan \notin NotThere,
             s.plan = "object" => s.active \notin NotThere
      PROVE  FixPlanMode(s) = s
  BY <1>3 DEF FixPlanMode, Fill
<1> HIDE DEF e
<1>4. ASSUME NEW s, Agree(e, s, {"plan", "active"})
      PROVE  FixPlanMode(s) = s
  <2>1. s.plan = e.plan /\ s.active = e.active
    BY <1>4 DEF Agree
  <2>2. QED
    BY <1>2, <1>3, <2>1
<1>5. QED
  BY <1>2, <1>4 DEF e

LEMMA FixInterpretedFieldsLemma ==
  ASSUME NEW r, Shaped(r), NEW counts
  PROVE  /\ Kept(r, FixInterpretedFields(r, counts),
                 {"fields", "difficulty", "questions", "counts"})
         /\ \A s : Shaped(s) /\ Agree(FixInterpretedFields(r, counts), s, {"fields", "counts"})
                     => FixInterpretedFields(s, counts) = s
<1> DEFINE e == FixInterpretedFields(r, counts)
<1>1. {"fields", "difficulty", "questions", "counts"} \subseteq AnswerFields
  BY DEF AnswerFields
<1>2. /\ Kept(r, e, {"fields", "difficulty", "questions", "counts"})
      /\ e.fields \notin NotThere
      /\ e.fields = "object" /\ counts => e.counts \notin NotThere
  BY <1>1 DEF FixInterpretedFields, Fill, NotThere, Kept, Shaped
<1>3. ASSUME NEW s, s.fields \notin NotThere,
             s.fields = "object" /\ counts => s.counts \notin NotThere
      PROVE  FixInterpretedFields(s, counts) = s
  BY <1>3 DEF FixInterpretedFields, Fill
<1> HIDE DEF e
<1>4. ASSUME NEW s, Agree(e, s, {"fields", "counts"})
      PROVE  FixInterpretedFields(s, counts) = s
  <2>1. s.fields = e.fields /\ s.counts = e.counts
    BY <1>4 DEF Agree
  <2>2. QED
    BY <1>2, <1>3, <2>1
<1>5. QED
  BY <1>2, <1>4 DEF e

LEMMA FixTeacherIntentLemma ==
  ASSUME NEW r, Shaped(r)
  PROVE  /\ Kept(r, FixTeacherIntent(r), {"intent", "goal", "clarify"})
         /\ \A s : Shaped(s) /\ Agree(FixTeacherIntent(r), s,
                                      {"intent", "goal", "clarify", "teacher_prompt"})
                     => FixTeacherIntent(s) = s
<1> DEFINE e == FixTeacherIntent(r)
           p == TruncateStr(PromptString(r))
<1>1. {"intent", "goal", "clarify", "teacher_prompt"} \subseteq AnswerFields
  BY DEF AnswerFields
<1>2. e = CASE r.intent = "absent" ->
                 [r EXCEPT !.intent = "object", !.goal = p, !.clarify = "false"]
            [] r.intent = "object" ->
                 Fill(Fill(r, "goal", Unset, p), "clarify", NotThere, "false")
            [] OTHER -> r
  BY DEF FixTeacherIntent
<1> HIDE DEF e, p
<1>3. /\ Kept(r, e, {"intent", "goal", "clarify"})
      /\ e.intent # "absent"
      /\ e.intent = "object" => /\ e.goal \in Unset => e.goal = p
                                /\ e.clarify \notin NotThere
  <2>1. CASE r.intent = "absent"
    BY <1>1, <1>2, <2>1 DEF NotThere, Kept, Shaped
  <2>2. CASE r.intent = "object"
    <3> DEFINE a == Fill(r, "goal", Unset, p)
    <3>1. Kept(r, a, {"goal"}) /\ (a.goal \in Unset => a.goal = p)
      BY <1>1 DEF Fill, Kept, Shaped
    <3>2. e = Fill(a, "clarify", NotThere, "false")
      BY <1>2, <2>2
    <3> HIDE DEF a
    <3>3. Kept(a, e, {"clarify"}) /\ e.clarify \notin NotThere
      BY <1>1, <3>1, <3>2 DEF Fill, Kept, Shaped, NotThere
    <3>4. Kept(r, e, {"intent", "goal", "clarify"})
      BY <3>1, <3>3 DEF Kept
    <3>5. e.goal = a.goal
      BY <1>1, <3>3 DEF Kept
    <3>6. e.intent = "object"
      BY <1>1, <2>2, <3>1, <3>3 DEF Kept
    <3>7. QED
      BY <3>1, <3>3, <3>4, <3>5, <3>6
  <2>3. CASE r.intent \notin {"absent", "object"}
    BY <1>2, <2>3 DEF Kept
  <2>4. QED
    BY <2>1, <2>2, <2>3
<1>4. ASSUME NEW s, Shaped(s), Agree(e, s, {"intent", "goal", "clarify", "teacher_prompt"})
      PROVE  FixTeacherIntent(s) = s
  <2>1. /\ s.intent = e.intent /\ s.goal = e.goal /\ s.clarify = e.clarify
        /\ s.teacher_prompt = r.teacher_prompt
    BY <1>1, <1>3, <1>4 DEF Agree, Kept
  <2>2. TruncateStr(PromptString(s)) = p
    BY <2>1 DEF PromptString, p
  <2>3. CASE s.intent = "object"
    <3>1. s["goal"] \in Unset => s["goal"] = p
      BY <1>3, <2>1, <2>3
    <3>2. Fill(s, "goal", Unset, p) = s
      BY <1>1, <1>4, <3>1, FillSettles
    <3>3. Fill(s, "clarify", NotThere, "false") = s
      BY <1>3, <2>1, <2>3 DEF Fill
    <3>4. FixTeacherIntent(s)
            = Fill(Fill(s, "goal", Unset, p), "clarify", NotThere, "false")
      BY <2>2, <2>3 DEF FixTeacherIntent
    <3>5. QED
      BY <3>2, <3>3, <3>4
  <2>4. CASE s.intent # "object"
    BY <1>3, <2>1, <2>4 DEF FixTeacherIntent
  <2>5. QED
    BY <2>3, <2>4
<1>5. QED
  BY <1>3, <1>4 DEF e

\* What a section is repaired to needs no more repair.
LEMMA RepairSectionSettles ==
  ASSUME NEW x
  PROVE  /\ RepairSection(RepairSection(x)) = RepairSection(x)
         /\ RepairSection(x) \in {"absent", "null", "empty", "not_array"}
              => x \in {"absent", "null", "empty", "not_array"}
BY DEF RepairSection

BlueprintFields == {"blueprint", "title", "summary", "sections"}

LEMMA FixBlueprintLemma ==
  ASSUME NEW r, Shaped(r)
  PROVE  /\ Kept(r, FixBlueprint(r), BlueprintFields)
         /\ \A s : Shaped(s) /\ Agree(FixBlueprint(r), s, BlueprintFields \cup {"teacher_prompt"})
                     => FixBlueprint(s) = s
<1> DEFINE e == FixBlueprint(r)
           b == FixBlueprintShape(r)
           p == TruncateStr(PromptString(r))
           Made == {"string", "alias", "alias_string", "absent", "null"}
           Bare == {"absent", "null", "empty", "not_array"}
           a == Fill(b, "title", Unset, p)
           c == Fill(a, "summary", Unset, p)
           x == IF c.sections \in Bare THEN "objects" ELSE RepairSection(c.sections)
<1>1. BlueprintFields \cup {"teacher_prompt"} \subseteq AnswerFields
  BY DEF AnswerFields, BlueprintFields
<1>2. e = IF b.blueprint # "object" THEN b ELSE [c EXCEPT !.sections = x]
  BY DEF FixBlueprint
<1>3. Kept(r, b, BlueprintFields) /\ b.blueprint \notin Made
  BY <1>1 DEF FixBlueprintShape, BlueprintFields, Kept, Shaped, NotThere
<1> HIDE DEF e, b, p
<1>4. Kept(b, a, {"title"}) /\ (a.title \in Unset => a.title = p)
  BY <1>1, <1>3 DEF Fill, Kept, Shaped, BlueprintFields
<1> HIDE DEF a
<1>5. Kept(a, c, {"summary"}) /\ (c.summary \in Unset => c.summary = p)
  BY <1>1, <1>4 DEF Fill, Kept, Shaped, BlueprintFields
<1> HIDE DEF c
<1>6. x \notin Bare /\ RepairSection(x) = x
  BY RepairSectionSettles DEF RepairSection
<1> HIDE DEF x
<1>7. /\ Kept(r, e, BlueprintFields)
      /\ e.blueprint \notin Made
      /\ e.blueprint = "object" => /\ e.title \in Unset => e.title = p
                                   /\ e.summary \in Unset => e.summary = p
                                   /\ e.sections = x
  <2>1. CASE b.blueprint # "object"
    BY <1>2, <1>3, <2>1
  <2>2. CASE b.blueprint = "object"
    <3>1. e = [c EXCEPT !.sections = x]
      BY <1>2, <2>2
    <3>2. Kept(c, e, {"sections"}) /\ e.sections = x
      BY <1>1, <1>5, <3>1 DEF Kept, Shaped, BlueprintFields
    <3>3. e.title = a.title /\ e.summary = c.summary
      BY <1>1, <1>5, <3>2 DEF Kept, BlueprintFields
    <3>4. e.blueprint = "object"
      BY <1>1, <1>4, <1>5, <2>2, <3>2 DEF Kept, BlueprintFields
    <3>5. Kept(r, e, BlueprintFields)
      BY <1>3, <1>4, <1>5, <3>2 DEF Kept, BlueprintFields
    <3>6. QED
      BY <1>4, <1>5, <3>2, <3>3, <3>4, <3>5
  <2>3. QED
    BY <2>1, <2>2
<1>8. ASSUME NEW s, Shaped(s), Agree(e, s, BlueprintFields \cup {"teacher_prompt"})
      PROVE  FixBlueprint(s) = s
  <2>1. /\ s.blueprint = e.blueprint /\ s.title = e.title /\ s.summary = e.summary
        /\ s.sections = e.sections /\ s.teacher_prompt = r.teacher_prompt
    BY <1>1, <1>7, <1>8 DEF Agree, Kept, BlueprintFields
  <2>2. TruncateStr(PromptString(s)) = p
    BY <2>1 DEF PromptString, p
  <2>3. FixBlueprintShape(s) = s
    BY <1>7, <2>1 DEF FixBlueprintShape, NotThere
  <2>4. CASE s.blueprint # "object"
    BY <2>3, <2>4 DEF FixBlueprint
  <2>5. CASE s.blueprint = "object"
    <3>1. (s["title"] \in Unset => s["title"] = p) /\ (s["summary"] \in Unset => s["summary"] = p)
      BY <1>7, <2>1, <2>5
    <3>2. Fill(s, "title", Unset, p) = s /\ Fill(s, "summary", Unset, p) = s
      BY <1>1, <1>8, <3>1, FillSettles DEF BlueprintFields
    <3>3. s.sections = x
      BY <1>7, <2>1, <2>5
    <3>4. FixBlueprint(s) = [s EXCEPT !.sections = s.sections]
      BY <1>6, <2>2, <2>3, <2>5, <3>2, <3>3 DEF FixBlueprint
    <3>5. QED
      BY <1>8, <3>4 DEF Shaped
  <2>6. QED
    BY <2>4, <2>5
<1>9. QED
  BY <1>7, <1>8 DEF e

\* The repair of the object found.
FixAll(x, counts) ==
  LET a == FixDuration(FixCandidates(FixTeacherPrompt(FixSchemaVersion(x))))
      b == FixConfidence(FixConstraints(FixTeacherIntent(FixBlueprint(a))))
      c == FixReasoning(FixLanguage(FixDeliverySummary(b)))
      d == FixLearningObjectives(FixAssets(FixContentIntegrity(c)))
  IN  FixMissingFields(FixInterpretedFields(FixPlanMode(d), counts))

\* The answers on the way from x, the object found, to the repaired one.
LEMMA RepairSteps ==
  ASSUME NEW x, Shaped(x), Weighted(x["named"]), x["score"] \in Int, NEW counts
  PROVE  LET e == FixAll(x, counts)
         IN  /\ Kept(x, e, AnswerFields \ {"envelope", "usable", "activities", "visual", "audience"})
             /\ Weighted(e["named"])
             /\ FixAll(e, counts) = e
<1> DEFINE s1 == FixSchemaVersion(x)
           s2 == FixTeacherPrompt(s1)
           s3 == FixCandidates(s2)
           s4 == FixDuration(s3)
           s5 == FixBlueprint(s4)
           s6 == FixTeacherIntent(s5)
           s7 == FixConstraints(s6)
           s8 == FixConfidence(s7)
           s9 == FixDeliverySummary(s8)
           s10 == FixLanguage(s9)
           s11 == FixReasoning(s10)
           s12 == FixContentIntegrity(s11)
           s13 == FixAssets(s12)
           s14 == FixLearningObjectives(s13)
           s15 == FixPlanMode(s14)
           s16 == FixInterpretedFields(s15, counts)
           s17 == FixMissingFields(s16)
<1>e. FixAll(x, counts) = s17
  BY DEF FixAll
<1> HIDE DEF s1, s2, s3, s4, s5, s6, s7, s8, s9, s10, s11, s12, s13, s14, s15, s16, s17
<1>1. /\ Kept(x, s1, {"schema_version"}) /\ Shaped(s1)
      /\ \A s : Shaped(s) /\ Agree(s1, s, {"schema_version"})
               => FixSchemaVersion(s) = s
  BY FixSchemaVersionLemma DEF s1, Kept
<1>2. /\ Kept(s1, s2, {"teacher_prompt"}) /\ Shaped(s2)
      /\ \A s : Shaped(s) /\ Agree(s2, s, {"teacher_prompt"})
               => FixTeacherPrompt(s) = s
  BY <1>1, FixTeacherPromptLemma DEF s2, Kept
<1>n. Weighted(s2["named"])
  <2>1. s2["named"] = x["named"]
    BY <1>1, <1>2 DEF Kept, AnswerFields
  <2>2. QED
    BY <2>1
<1>3. /\ Kept(s2, s3, {"candidates", "named"}) /\ Shaped(s3) /\ Weighted(s3["named"])
      /\ \A s : Shaped(s) /\ Agree(s3, s, {"candidates", "named"})
               => FixCandidates(s) = s
  BY <1>2, <1>n, FixCandidatesLemma DEF s3, Kept
<1>4. /\ Kept(s3, s4, {"duration"}) /\ Shaped(s4)
      /\ \A s : Shaped(s) /\ Agree(s4, s, {"duration"})
               => FixDuration(s) = s
  BY <1>3, FixDurationLemma DEF s4, Kept
<1>5. /\ Kept(s4, s5, BlueprintFields) /\ Shaped(s5)
      /\ \A s : Shaped(s) /\ Agree(s5, s, BlueprintFields \cup {"teacher_prompt"})
               => FixBlueprint(s) = s
  BY <1>4, FixBlueprintLemma DEF s5, Kept
<1>6. /\ Kept(s5, s6, {"intent", "goal", "clarify"}) /\ Shaped(s6)
      /\ \A s : Shaped(s) /\ Agree(s6, s, {"intent", "goal", "clarify", "teacher_prompt"})
               => FixTeacherIntent(s) = s
  BY <1>5, FixTeacherIntentLemma DEF s6, Kept
<1>7. /\ Kept(s6, s7, {"constraints", "preferred"}) /\ Shaped(s7)
      /\ \A s : Shaped(s) /\ Agree(s7, s, {"constraints", "preferred"})
               => FixConstraints(s) = s
  BY <1>6, FixConstraintsLemma DEF s7, Kept
<1>o. s7["score"] \in Int
  <2>1. s7["score"] = x["score"]
    BY <1>1, <1>2, <1>3, <1>4, <1>5, <1>6, <1>7 DEF Kept, AnswerFields, BlueprintFields
  <2>2. QED
    BY <2>1
<1>8. /\ Kept(s7, s8, {"confidence", "score"}) /\ Shaped(s8)
      /\ \A s : Shaped(s) /\ Agree(s8, s, {"confidence", "score"})
               => FixConfidence(s) = s
  BY <1>7, <1>o, FixConfidenceLemma DEF s8, Kept
<1>9. /\ Kept(s8, s9, {"delivery"}) /\ Shaped(s9)
      /\ \A s : Shaped(s) /\ Agree(s9, s, {"delivery", "teacher_prompt"})
               => FixDeliverySummary(s) = s
  BY <1>8, FixDeliverySummaryLemma DEF s9, Kept
<1>10. /\ Kept(s9, s10, {"language"}) /\ Shaped(s10)
      /\ \A s : Shaped(s) /\ Agree(s10, s, {"language"})
               => FixLanguage(s) = s
  BY <1>9, FixLanguageLemma DEF s10, Kept
<1>11. /\ Kept(s10, s11, {"reasoning"}) /\ Shaped(s11)
      /\ \A s : Shaped(s) /\ Agree(s11, s, {"reasoning"})
               => FixReasoning(s) = s
  BY <1>10, FixReasoningLemma DEF s11, Kept
<1>12. /\ Kept(s11, s12, {"integrity"}) /\ Shaped(s12)
      /\ \A s : Shaped(s) /\ Agree(s12, s, {"integrity"})
               => FixContentIntegrity(s) = s
  BY <1>11, FixContentIntegrityLemma DEF s12, Kept
<1>13. /\ Kept(s12, s13, {"assets"}) /\ Shaped(s13)
      /\ \A s : Shaped(s) /\ Agree(s13, s, {"assets"})
               => FixAssets(s) = s
  BY <1>12, FixAssetsLemma DEF s13, Kept
<1>14. /\ Kept(s13, s14, {"objectives"}) /\ Shaped(s14)
      /\ \A s : Shaped(s) /\ Agree(s14, s, {"objectives"})
               => FixLearningObjectives(s) = s
  BY <1>13, FixLearningObjectivesLemma DEF s14, Kept
<1>15. /\ Kept(s14, s15, {"plan", "active"}) /\ Shaped(s15)
      /\ \A s : Shaped(s) /\ Agree(s15, s, {"plan", "active"})
               => FixPlanMode(s) = s
  BY <1>14, FixPlanModeLemma DEF s15, Kept
<1>16. /\ Kept(s15, s16, {"fields", "difficulty", "questions", "counts"}) /\ Shaped(s16)
      /\ \A s : Shaped(s) /\ Agree(s16, s, {"fields", "counts"})
               => FixInterpretedFields(s, counts) = s
  BY <1>15, FixInterpretedFieldsLemma DEF s16, Kept
<1>17. /\ Kept(s16, s17, {"missing"}) /\ Shaped(s17)
      /\ \A s : Shaped(s) /\ Agree(s17, s, {"missing"})
               => FixMissingFields(s) = s
  BY <1>16, FixMissingFieldsLemma DEF s17, Kept
<1> DEFINE e == s17
<1>18. FixMissingFields(e) = e
  <2>1. Agree(s17, e, {"missing"})
    BY DEF Agree, Kept, AnswerFields, BlueprintFields
  <2>2. QED
    BY <1>17, <1>17, <2>1
<1>19. FixInterpretedFields(e, counts) = e
  <2>1. Agree(s16, e, {"fields", "counts"})
    BY <1>17 DEF Agree, Kept, AnswerFields, BlueprintFields
  <2>2. QED
    BY <1>16, <1>17, <2>1
<1>20. FixPlanMode(e) = e
  <2>1. Agree(s15, e, {"plan", "active"})
    BY <1>16, <1>17 DEF Agree, Kept, AnswerFields, BlueprintFields
  <2>2. QED
    BY <1>15, <1>17, <2>1
<1>21. FixLearningObjectives(e) = e
  <2>1. Agree(s14, e, {"objectives"})
    BY <1>15, <1>16, <1>17 DEF Agree, Kept, AnswerFields, BlueprintFields
  <2>2. QED
    BY <1>14, <1>17, <2>1
<1>22. FixAssets(e) = e
  <2>1. Agree(s13, e, {"assets"})
    BY <1>14, <1>15, <1>16, <1>17 DEF Agree, Kept, AnswerFields, BlueprintFields
  <2>2. QED
    BY <1>13, <1>17, <2>1
<1>23. FixContentIntegrity(e) = e
  <2>1. Agree(s12, e, {"integrity"})
    BY <1>13, <1>14, <1>15, <1>16, <1>17 DEF Agree, Kept, AnswerFields, BlueprintFields
  <2>2. QED
    BY <1>12, <1>17, <2>1
<1>24. FixReasoning(e) = e
  <2>1. Agree(s11, e, {"reasoning"})
    BY <1>12, <1>13, <1>14, <1>15, <1>16, <1>17 DEF Agree, Kept, AnswerFields, BlueprintFields
  <2>2. QED
    BY <1>11, <1>17, <2>1
<1>25. FixLanguage(e) = e
  <2>1. Agree(s10, e, {"language"})
    BY <1>11, <1>12, <1>13, <1>14, <1>15, <1>16, <1>17 DEF Agree, Kept, AnswerFields, BlueprintFields
  <2>2. QED
    BY <1>10, <1>17, <2>1
<1>26. FixDeliverySummary(e) = e
  <2>1. Agree(s9, e, {"delivery", "teacher_prompt"})
    BY <1>10, <1>11, <1>12, <1>13, <1>14, <1>15, <1>16, <1>17 DEF Agree, Kept, AnswerFields, BlueprintFields
  <2>2. QED
    BY <1>9, <1>17, <2>1
<1>27. FixConfidence(e) = e
  <2>1. Agree(s8, e, {"confidence", "score"})
    BY <1>9, <1>10, <1>11, <1>12, <1>13, <1>14, <1>15, <1>16, <1>17 DEF Agree, Kept, AnswerFields, BlueprintFields
  <2>2. QED
    BY <1>8, <1>17, <2>1
<1>28. FixConstraints(e) = e
  <2>1. Agree(s7, e, {"constraints", "preferred"})
    BY <1>8, <1>9, <1>10, <1>11, <1>12, <1>13, <1>14, <1>15, <1>16, <1>17 DEF Agree, Kept, AnswerFields, BlueprintFields
  <2>2. QED
    BY <1>7, <1>17, <2>1
<1>29. FixTeacherIntent(e) = e
  <2>1. Agree(s6, e, {"intent", "goal", "clarify", "teacher_prompt"})
    BY <1>7, <1>8, <1>9, <1>10, <1>11, <1>12, <1>13, <1>14, <1>15, <1>16, <1>17 DEF Agree, Kept, AnswerFields, BlueprintFields
  <2>2. QED
    BY <1>6, <1>17, <2>1
<1>30. FixBlueprint(e) = e
  <2>1. Agree(s5, e, BlueprintFields \cup {"teacher_prompt"})
    BY <1>6, <1>7, <1>8, <1>9, <1>10, <1>11, <1>12, <1>13, <1>14, <1>15, <1>16, <1>17 DEF Agree, Kept, AnswerFields, BlueprintFields
  <2>2. QED
    BY <1>5, <1>17, <2>1
<1>31. FixDuration(e) = e
  <2>1. Agree(s4, e, {"duration"})
    BY <1>5, <1>6, <1>7, <1>8, <1>9, <1>10, <1>11, <1>12, <1>13, <1>14, <1>15, <1>16, <1>17 DEF Agree, Kept, AnswerFields, BlueprintFields
  <2>2. QED
    BY <1>4, <1>17, <2>1
<1>32. FixCandidates(e) = e
  <2>1. Agree(s3, e, {"candidates", "named"})
    BY <1>4, <1>5, <1>6, <1>7, <1>8, <1>9, <1>10, <1>11, <1>12, <1>13, <1>14, <1>15, <1>16, <1>17 DEF Agree, Kept, AnswerFields, BlueprintFields
  <2>2. QED
    BY <1>3, <1>17, <2>1
<1>33. FixTeacherPrompt(e) = e
  <2>1. Agree(s2, e, {"teacher_prompt"})
    BY <1>3, <1>4, <1>5, <1>6, <1>7, <1>8, <1>9, <1>10, <1>11, <1>12, <1>13, <1>14, <1>15, <1>16, <1>17 DEF Agree, Kept, AnswerFields, BlueprintFields
  <2>2. QED
    BY <1>2, <1>17, <2>1
<1>34. FixSchemaVersion(e) = e
  <2>1. Agree(s1, e, {"schema_version"})
    BY <1>2, <1>3, <1>4, <1>5, <1>6, <1>7, <1>8, <1>9, <1>10, <1>11, <1>12, <1>13, <1>14, <1>15, <1>16, <1>17 DEF Agree, Kept, AnswerFields, BlueprintFields
  <2>2. QED
    BY <1>1, <1>17, <2>1
<1>35. FixAll(e, counts) = e
  BY <1>18, <1>19, <1>20, <1>21, <1>22, <1>23, <1>24, <1>25, <1>26, <1>27, <1>28, <1>29, <1>30, <1>31, <1>32, <1>33, <1>34 DEF FixAll
<1>36. Weighted(e["named"])
  <2>1. e["named"] = s3["named"]
    BY <1>4, <1>5, <1>6, <1>7, <1>8, <1>9, <1>10, <1>11, <1>12, <1>13, <1>14, <1>15, <1>16, <1>17 DEF Kept, AnswerFields, BlueprintFields
  <2>2. QED
    BY <1>3, <2>1
<1>37. ASSUME NEW f \in {"envelope", "usable", "activities", "visual", "audience"}
      PROVE  e[f] = x[f]
  BY <1>37, <1>1, <1>2, <1>3, <1>4, <1>5, <1>6, <1>7, <1>8, <1>9, <1>10, <1>11, <1>12, <1>13, <1>14, <1>15, <1>16, <1>17 DEF Kept, AnswerFields, BlueprintFields
<1>38. QED
  BY <1>e, <1>17, <1>35, <1>36, <1>37 DEF Kept

\* Each step leaves an answer that decodes one that decodes.
LEMMA DecodesFields ==
  ASSUME NEW r, Shaped(r), DecodesInterpretation(r), r["score"] \in Int
  PROVE  /\ FixSchemaVersion(r) = r /\ FixTeacherPrompt(r) = r /\ FixBlueprint(r) = r
         /\ FixDeliverySummary(r) = r /\ FixLanguage(r) = r /\ FixReasoning(r) = r
         /\ FixContentIntegrity(r) = r /\ FixAssets(r) = r /\ FixConfidence(r) = r
<1>1. FixSchemaVersion(r) = r
  BY DEF DecodesInterpretation, FixSchemaVersion, Fill, NotThere
<1>2. FixTeacherPrompt(r) = r
  BY DEF DecodesInterpretation, FixTeacherPrompt, Fill, Unset
<1>3. FixBlueprint(r) = r
  <2>1. /\ r.blueprint = "object" /\ r.title \notin Unset /\ r.summary \notin Unset
        /\ r.sections = "objects"
    BY DEF DecodesInterpretation, Unset
  <2>2. FixBlueprintShape(r) = r
    BY <2>1 DEF FixBlueprintShape, NotThere
  <2>3. Fill(r, "title", Unset, TruncateStr(PromptString(r))) = r
    BY <2>1 DEF Fill
  <2>4. Fill(r, "summary", Unset, TruncateStr(PromptString(r))) = r
    BY <2>1 DEF Fill
  <2>5. FixBlueprint(r) = [r EXCEPT !.sections = r.sections]
    BY <2>1, <2>2, <2>3, <2>4 DEF FixBlueprint, RepairSection
  <2>6. QED
    BY <2>5 DEF Shaped
<1>4. FixDeliverySummary(r) = r /\ FixLanguage(r) = r /\ FixReasoning(r) = r
  BY DEF DecodesInterpretation, FixDeliverySummary, FixLanguage, FixReasoning, Fill, Unset
<1>5. FixContentIntegrity(r) = r /\ FixAssets(r) = r
  BY DEF DecodesInterpretation, FixContentIntegrity, FixAssets, Fill
<1>6. FixConfidence(r) = r
  <2>1. r.confidence = "object" /\ r.score >= 0
    BY DEF DecodesInterpretation
  <2>2. ~(r.score < 0) /\ r.confidence \notin NotThere
    BY <2>1 DEF NotThere
  <2>3. FixConfidence(r) = [r EXCEPT !.confidence = r.confidence, !.score = r.score]
    BY <2>1, <2>2 DEF FixConfidence, Shaped, AnswerFields
  <2>4. QED
    BY <2>3 DEF Shaped
<1>7. QED
  BY <1>1, <1>2, <1>3, <1>4, <1>5, <1>6

LEMMA FixCandidatesKeepsDecodable ==
  ASSUME NEW r, Shaped(r), Weighted(r["named"]), DecodesInterpretation(r)
  PROVE  DecodesInterpretation(FixCandidates(r))
<1> DEFINE s == FixCandidates(r)
           Scored(c) == <<NormalizeOutputType(c[1]), IF c[2] < 0 THEN 7000 ELSE c[2]>>
           n == [i \in DOMAIN r.named |-> Scored(r.named[i])]
<1>1. r.candidates = "array" /\ r.named # << >> /\ DOMAIN r.named # {}
      /\ \A i \in DOMAIN r.named : r.named[i][2] >= 0
  BY DEF DecodesInterpretation, Weighted
<1>2. s = [r EXCEPT !.candidates = "array", !.named = n]
  BY <1>1 DEF FixCandidates
<1>3. n # << >> /\ \A i \in DOMAIN n : n[i][2] >= 0
  BY <1>1
<1> HIDE DEF n, s
<1>4. Kept(r, s, {"named"}) /\ s["named"] = n
  <2>1. "candidates" \in AnswerFields /\ "named" \in AnswerFields
    BY DEF AnswerFields
  <2>2. QED
    BY <1>1, <1>2, <2>1 DEF Kept, Shaped
<1>5. QED
  BY <1>3, <1>4 DEF DecodesInterpretation, Kept, AnswerFields, s

LEMMA FixesKeepDecodable ==
  ASSUME NEW r, Shaped(r), DecodesInterpretation(r), NEW counts
  PROVE  /\ DecodesInterpretation(FixDuration(r))
         /\ DecodesInterpretation(FixTeacherIntent(r))
         /\ DecodesInterpretation(FixConstraints(r))
         /\ DecodesInterpretation(FixLearningObjectives(r))
         /\ DecodesInterpretation(FixPlanMode(r))
         /\ DecodesInterpretation(FixInterpretedFields(r, counts))
         /\ DecodesInterpretation(FixMissingFields(r))
<1>2. DecodesInterpretation(FixDuration(r))
  BY FixDurationLemma DEF DecodesInterpretation, Kept, AnswerFields
<1>3. DecodesInterpretation(FixTeacherIntent(r))
  <2>1. r.intent = "object" /\ r.goal \notin Unset
    BY DEF DecodesInterpretation, Unset
  <2>2. FixTeacherIntent(r) = Fill(r, "clarify", NotThere, "false")
    BY <2>1 DEF FixTeacherIntent, Fill
  <2>3. QED
    BY <2>2 DEF DecodesInterpretation, Fill, Shaped, AnswerFields
<1>4. DecodesInterpretation(FixConstraints(r))
  BY DEF FixConstraints, DecodesInterpretation, Fill, Shaped, AnswerFields
<1>5. DecodesInterpretation(FixLearningObjectives(r))
  BY DEF FixLearningObjectives, DecodesInterpretation, Fill, Shaped, AnswerFields
<1>6. DecodesInterpretation(FixPlanMode(r))
  BY DEF FixPlanMode, DecodesInterpretation, Fill, Shaped, AnswerFields
<1>7. DecodesInterpretation(FixInterpretedFields(r, counts))
  BY DEF FixInterpretedFields, DecodesInterpretation, Fill, Shaped, AnswerFields
<1>8. DecodesInterpretation(FixMissingFields(r))
  BY DEF FixMissingFields, DecodesInterpretation, Fill, Shaped, AnswerFields
<1>9. QED
  BY <1>2, <1>3, <1>4, <1>5, <1>6, <1>7, <1>8

LEMMA FixAllKeepsDecodable ==
  ASSUME NEW x, Shaped(x), Weighted(x["named"]), x["score"] \in Int, NEW counts,
         DecodesInterpretation(x)
  PROVE  DecodesInterpretation(FixAll(x, counts))
<1> DEFINE Good(s) == Shaped(s) /\ DecodesInterpretation(s) /\ s["score"] \in Int
           a == FixCandidates(x)
           b == FixDuration(a)
           c == FixTeacherIntent(b)
           d == FixConstraints(c)
           f == FixLearningObjectives(d)
           g == FixPlanMode(f)
           h == FixInterpretedFields(g, counts)
           i == FixMissingFields(h)
<1>0. "score" \in AnswerFields /\ Good(x)
  BY DEF AnswerFields
<1>1. Good(a)
  BY <1>0, FixCandidatesLemma, FixCandidatesKeepsDecodable DEF Kept
<1> HIDE DEF a
<1>2. Good(b)
  BY <1>0, <1>1, FixDurationLemma, FixesKeepDecodable DEF Kept
<1> HIDE DEF b
<1>3. Good(c)
  BY <1>0, <1>2, FixTeacherIntentLemma, FixesKeepDecodable DEF Kept
<1> HIDE DEF c
<1>4. Good(d)
  BY <1>0, <1>3, FixConstraintsLemma, FixesKeepDecodable DEF Kept
<1> HIDE DEF d
<1>5. Good(f)
  BY <1>0, <1>4, FixLearningObjectivesLemma, FixesKeepDecodable DEF Kept
<1> HIDE DEF f
<1>6. Good(g)
  BY <1>0, <1>5, FixPlanModeLemma, FixesKeepDecodable DEF Kept
<1> HIDE DEF g
<1>7. Good(h)
  BY <1>0, <1>6, FixInterpretedFieldsLemma, FixesKeepDecodable DEF Kept
<1> HIDE DEF h
<1>8. DecodesInterpretation(i)
  BY <1>7, FixesKeepDecodable
<1> HIDE DEF i
<1>9. FixAll(x, counts) = i
  <2>1. FixSchemaVersion(x) = x /\ FixTeacherPrompt(x) = x
    BY <1>0, DecodesFields
  <2>2. FixBlueprint(b) = b
    BY <1>2, DecodesFields
  <2>3. FixConfidence(d) = d /\ FixDeliverySummary(d) = d /\ FixLanguage(d) = d
        /\ FixReasoning(d) = d /\ FixContentIntegrity(d) = d /\ FixAssets(d) = d
    BY <1>4, DecodesFields
  <2>4. QED
    BY <2>1, <2>2, <2>3 DEF FixAll, a, b, c, d, f, g, h, i
<1>10. QED
  BY <1>8, <1>9

\* What the repair of an answer leaves and what it is good for.
LEMMA AnswerFacts ==
  ASSUME NEW r \in InterpretationAnswer
  PROVE  /\ Shaped(ExtractObject(r)) /\ Weighted(ExtractObject(r)["named"])
         /\ ExtractObject(r)["score"] \in Int
         /\ Kept(r, ExtractObject(r), {"envelope"})
         /\ r.envelope = "object" => ExtractObject(r) = r
<1>1. Shaped(r)
  BY AnswersAreShaped
<1>2. r["named"] \in Seq(STRING \X Int) /\ r["score"] \in Int
  BY DEF InterpretationAnswer
<1>3. Weighted(r["named"])
  BY <1>2, PairsAreWeighted
<1>4. "envelope" \in AnswerFields /\ "named" \in AnswerFields /\ "score" \in AnswerFields
  BY DEF AnswerFields
<1>5. Kept(r, ExtractObject(r), {"envelope"})
  BY <1>1, <1>4, FillKeeps DEF ExtractObject
<1>6. r.envelope = "object" => ExtractObject(r) = r
  BY DEF ExtractObject, Fill
<1>7. ExtractObject(r)["named"] = r["named"] /\ ExtractObject(r)["score"] = r["score"]
  BY <1>4, <1>5 DEF Kept
<1>8. QED
  BY <1>2, <1>3, <1>5, <1>6, <1>7 DEF Kept

LEMMA RepairIsFixAll ==
  ASSUME NEW r, NEW counts
  PROVE  RepairInterpretation(r, counts)
           = IF ExtractObject(r).envelope = "object" THEN FixAll(ExtractObject(r), counts) ELSE r
BY DEF RepairInterpretation, FixAll

LEMMA RepairHelps ==
  ASSUME NEW r \in InterpretationAnswer, NEW counts
  PROVE  LET once == RepairInterpretation(r, counts)
         IN  /\ DecodesInterpretation(r) => DecodesInterpretation(once)
             /\ RepairInterpretation(once, counts) = once
<1> DEFINE x == ExtractObject(r)
           e == FixAll(x, counts)
<1>1. Shaped(x) /\ Weighted(x["named"]) /\ x["score"] \in Int
      /\ (r.envelope = "object" => x = r)
  BY AnswerFacts
<1>2. RepairInterpretation(r, counts) = IF x.envelope = "object" THEN e ELSE r
  BY RepairIsFixAll
<1> HIDE DEF x
<1>3. CASE x.envelope = "object"
  <2>1. Kept(x, e, AnswerFields \ {"envelope", "usable", "activities", "visual", "audience"})
        /\ FixAll(e, counts) = e
    BY <1>1, RepairSteps
  <2>2. DecodesInterpretation(x) => DecodesInterpretation(e)
    BY <1>1, FixAllKeepsDecodable
  <2> HIDE DEF e
  <2>3. e.envelope = "object"
    BY <1>3, <2>1 DEF Kept, AnswerFields
  <2>4. ExtractObject(e) = e
    BY <2>3 DEF ExtractObject, Fill
  <2>5. RepairInterpretation(e, counts) = e
    BY <2>1, <2>3, <2>4, RepairIsFixAll
  <2>6. DecodesInterpretation(r) => DecodesInterpretation(e)
    BY <1>1, <2>2 DEF DecodesInterpretation
  <2>7. QED
    BY <1>2, <1>3, <2>5, <2>6
<1>4. CASE x.envelope # "object"
  BY <1>2, <1>4
<1>5. QED
  BY <1>3, <1>4

--------------------------------------------------------------------------------
\* The payload and the blocks of the draft.

\* A number of pages or slides, or none.
Counts == {{}} \cup {{n} : n \in Nat}

\* Blocks of each section.
Blocks(u) == u \in Seq(Int)

FieldNames == {"target_audience", "output_type", "learning_objectives", "difficulty_level",
               "question_count", "slide_count", "page_count"}

PayloadFields == {"answer", "text", "title", "audience", "preferred", "objectives",
                  "candidates", "reasoning", "visual", "usable", "activities", "active",
                  "clarify", "missing", "fields"}

\* What the later steps rely on.
IsPayload(p) ==
  /\ p = [f \in PayloadFields |-> p[f]]
  /\ p.fields = [f \in FieldNames |-> p.fields[f]]
  /\ p.title = "text"
  /\ Weighted(p.candidates)
  /\ Blocks(p.usable)
  /\ p.fields.page_count \in Counts /\ p.fields.slide_count \in Counts

LEMMA FirstNumberIsNumber ==
  ASSUME NEW t, NEW u \in Units
  PROVE  FirstNumber(t, u) \in Nat \cup {NoNumber}
<1>1. ASSUME NEW f, NEW v
      PROVE  PieceQuantity(f, v, u) \in Nat \cup {NoNumber}
  <2>1. CASE f = "typed" /\ v \in Typed
    BY <2>1, QuantityAssumption DEF PieceQuantity
  <2>2. CASE ~(f = "typed" /\ v \in Typed)
    BY <2>2 DEF PieceQuantity
  <2>3. QED
    BY <2>1, <2>2
<1>2. QED
  BY <1>1 DEF FirstNumber

LEMMA CountsOfAPrompt ==
  ASSUME NEW t
  PROVE  DetectSlideCountFromPrompt(t) \in Counts /\ DetectPageCountFromPrompt(t) \in Counts
<1>1. "slide" \in Units /\ "halaman" \in Units
  BY DEF Units
<1>2. /\ FirstNumber(t, "slide") \in Nat \cup {NoNumber}
      /\ FirstNumber(t, "halaman") \in Nat \cup {NoNumber}
  BY <1>1, FirstNumberIsNumber
<1>3. QED
  BY <1>2 DEF DetectSlideCountFromPrompt, DetectPageCountFromPrompt, SomeIf, None, Counts

LEMMA OneBlock ==
  Blocks(<<1>>)
BY DEF Blocks

LEMMA DecodedIsPayload ==
  ASSUME NEW raw \in InterpretationAnswer, NEW t, DecodesInterpretation(Repaired(raw, t))
  PROVE  IsPayload(Decoded(raw, t)) /\ Decoded(raw, t).answer = "decoded"
<1> DEFINE p == Decoded(raw, t)
           r == Repaired(raw, t)
           said == Echoed(raw, t)
           x == ExtractObject(raw)
           counts == NamesCounts(said)
<1>1. r.envelope = "object" /\ r.title = "text"
  BY DEF DecodesInterpretation
<1>2. Weighted(r.named)
  <2>1. Shaped(x) /\ Weighted(x["named"]) /\ x["score"] \in Int
        /\ (raw.envelope = "object" => x = raw)
    BY AnswerFacts
  <2>2. r = IF x.envelope = "object" THEN FixAll(x, counts) ELSE raw
    BY RepairIsFixAll DEF Repaired
  <2> HIDE DEF x, r, counts
  <2>3. x.envelope = "object"
    BY <1>1, <2>1, <2>2
  <2>4. Weighted(FixAll(x, counts)["named"])
    BY <2>1, RepairSteps
  <2>5. QED
    BY <2>2, <2>3, <2>4
<1>3. Blocks(IF raw.sections = "objects" THEN raw.usable ELSE <<1>>)
  <2>1. raw.usable \in Seq(Nat)
    BY DEF InterpretationAnswer
  <2>2. Len(raw.usable) \in Nat /\ raw.usable \in [1..Len(raw.usable) -> Int]
    BY <2>1
  <2>3. Blocks(raw.usable)
    BY <2>2, IsASeqOf DEF Blocks
  <2>4. QED
    BY <2>3, OneBlock
<1> HIDE DEF r, said
<1>4. /\ p.title = r.title /\ p.candidates = r.named /\ p.answer = "decoded"
      /\ p.usable = IF raw.sections = "objects" THEN raw.usable ELSE <<1>>
      /\ p.fields = FieldsOfAnswer(raw, r, said)
      /\ p = [f \in PayloadFields |-> p[f]]
  BY DEF Decoded, PayloadFields, r, said
<1> DEFINE q == FieldsOfAnswer(raw, r, said)
<1>5. /\ q = [f \in FieldNames |-> q[f]]
      /\ q.page_count \in Counts /\ q.slide_count \in Counts
  <2>1. {ProviderCount} \in Counts
    BY DEF ProviderCount, Counts
  <2>2. /\ q.page_count \in {{ProviderCount}, DetectPageCountFromPrompt(said)}
        /\ q.slide_count \in {{ProviderCount}, DetectSlideCountFromPrompt(said)}
        /\ q = [f \in FieldNames |-> q[f]]
    BY DEF FieldsOfAnswer, FieldNames
  <2>3. QED
    BY <2>1, <2>2, CountsOfAPrompt
<1> HIDE DEF p, q
<1>6. QED
  BY <1>1, <1>2, <1>3, <1>4, <1>5 DEF IsPayload, p, q

LEMMA FallbackIsPayload ==
  ASSUME NEW t, NEW pr
  PROVE  IsPayload(Fallback(t, pr)) /\ Fallback(t, pr).answer = "fallback"
<1> DEFINE p == Fallback(t, pr)
<1>1. /\ p.title = "text" /\ p.answer = "fallback" /\ p.usable = <<1>>
      /\ p.fields = NoFields
      /\ p = [f \in PayloadFields |-> p[f]]
  <2> DEFINE top == FallbackFormat(t, pr)
             second == IF top = "pdf" THEN "docx" ELSE "pdf"
             third == IF top = "pptx" THEN "docx" ELSE "pptx"
             c == << <<top, 9500>>, <<second, 4000>>, <<third, 4000>> >>
             v == {top}
  <2>1. p = [answer |-> "fallback", text |-> t, title |-> "text", audience |-> FALSE,
             preferred |-> pr, objectives |-> FALSE, candidates |-> c, reasoning |-> v,
             visual |-> FALSE, usable |-> <<1>>, activities |-> 0, active |-> FALSE,
             clarify |-> FALSE, missing |-> {}, fields |-> NoFields]
    BY DEF Fallback
  <2> HIDE DEF p, c, v
  <2>2. p = [f \in PayloadFields |-> p[f]]
    BY <2>1 DEF PayloadFields
  <2>3. QED
    BY <2>1, <2>2
<1>2. Weighted(p.candidates)
  BY DEF Weighted, Fallback
<1>3. /\ NoFields = [f \in FieldNames |-> NoFields[f]]
      /\ NoFields.page_count \in Counts /\ NoFields.slide_count \in Counts
  BY DEF NoFields, FieldNames, Counts, None
<1> HIDE DEF p
<1>4. QED
  BY <1>1, <1>2, <1>3, OneBlock DEF IsPayload, p

\* What a cache hit leaves alone.
LEMMA RegenerateKeeps ==
  ASSUME NEW p, IsPayload(p)
  PROVE  LET q == RegeneratePlanMode(p)
         IN  /\ IsPayload(q) /\ q.answer = p.answer
             /\ q.text = p.text /\ q.audience = p.audience /\ q.preferred = p.preferred
             /\ q.objectives = p.objectives /\ q.candidates = p.candidates
             /\ q.fields = BuildInterpretedFields(p)
             /\ \A f \in {"difficulty_level", "question_count"} : q.fields[f] = p.fields[f]
<1> DEFINE q == RegeneratePlanMode(p)
           b == BuildInterpretedFields(p)
           missing == FindMissingRequiredFields(p,
                        ContentTypeRequiredFields(DetectContentTypeFromPayload(p)))
           M == {GenerateContextualMissingField(f) : f \in missing}
           N == missing # {}
<1>1. q = [p EXCEPT !.fields = b, !.missing = M, !.active = N, !.clarify = N]
  BY DEF RegeneratePlanMode
<1>2. b = [f \in FieldNames |-> b[f]]
      /\ \A f \in {"difficulty_level", "question_count", "page_count", "slide_count"} :
           b[f] = p.fields[f]
  BY DEF BuildInterpretedFields, IsPayload, FieldNames
<1> HIDE DEF q, b, M, N
<1>3. /\ q = [f \in PayloadFields |-> q[f]]
      /\ q.fields = b
      /\ \A f \in PayloadFields \ {"fields", "missing", "active", "clarify"} : q[f] = p[f]
  BY <1>1 DEF IsPayload, PayloadFields
<1>4. /\ q.answer = p.answer /\ q.text = p.text /\ q.audience = p.audience
      /\ q.preferred = p.preferred /\ q.objectives = p.objectives
      /\ q.candidates = p.candidates /\ q.title = p.title /\ q.usable = p.usable
  BY <1>3 DEF PayloadFields
<1>5. IsPayload(q)
  BY <1>2, <1>3, <1>4 DEF IsPayload
<1>6. QED
  BY <1>2, <1>3, <1>4, <1>5 DEF q, b

\* The questions after one cache hit are those after two.
LEMMA RegenerateSettles ==
  ASSUME NEW p, IsPayload(p)
  PROVE  LET once == RegeneratePlanMode(p)
         IN  RegeneratePlanMode(once) = once /\ (once.clarify <=> once.missing # {})
<1> DEFINE q == RegeneratePlanMode(p)
           R(x) == ContentTypeRequiredFields(DetectContentTypeFromPayload(x))
           F(x) == FindMissingRequiredFields(x, R(x))
           M(x) == {GenerateContextualMissingField(f) : f \in F(x)}
<1>1. ASSUME NEW x
      PROVE  RegeneratePlanMode(x)
               = [x EXCEPT !.fields = BuildInterpretedFields(x), !.missing = M(x),
                           !.active = F(x) # {}, !.clarify = F(x) # {}]
  BY DEF RegeneratePlanMode
<1>2. /\ IsPayload(q)
      /\ q.text = p.text /\ q.audience = p.audience /\ q.preferred = p.preferred
      /\ q.objectives = p.objectives /\ q.candidates = p.candidates
      /\ q.fields = BuildInterpretedFields(p)
      /\ \A f \in {"difficulty_level", "question_count"} : q.fields[f] = p.fields[f]
  BY RegenerateKeeps
<1>3. R(q) = R(p)
  <2> HIDE DEF q
  <2>1. DetectContentTypeFromPayload(q) = DetectContentTypeFromPayload(p)
    BY <1>2 DEF DetectContentTypeFromPayload
  <2>2. QED
    BY <2>1
<1>4. R(p) \subseteq {"target_audience", "output_type", "learning_objectives",
                      "difficulty_level", "question_count"}
  BY DEF ContentTypeRequiredFields
<1>5. F(q) = F(p)
  <2> HIDE DEF q, R
  <2>1. ASSUME NEW f \in R(p)
        PROVE  f \in F(q) <=> f \in F(p)
    <3>1. CASE f \in {"target_audience", "output_type", "learning_objectives"}
      BY <1>2, <1>3, <3>1 DEF FindMissingRequiredFields
    <3>2. CASE f \in {"difficulty_level", "question_count"}
      BY <1>2, <1>3, <3>2 DEF FindMissingRequiredFields
    <3>3. QED
      BY <1>4, <3>1, <3>2
  <2>2. F(q) \subseteq R(p) /\ F(p) \subseteq R(p)
    BY <1>3 DEF FindMissingRequiredFields
  <2> HIDE DEF F
  <2>3. QED
    BY <2>1, <2>2
<1>6. BuildInterpretedFields(q) = q.fields
  <2> HIDE DEF q
  <2>1. q.fields = [f \in FieldNames |-> q.fields[f]] /\ p.fields = [f \in FieldNames |-> p.fields[f]]
    BY <1>2 DEF IsPayload
  <2>2. /\ q.fields.target_audience = IF p.audience THEN {"said"} ELSE p.fields.target_audience
        /\ q.fields.output_type = IF p.preferred # "auto" THEN {p.preferred}
                                  ELSE {p.candidates[1][1]}
        /\ q.fields.learning_objectives
             = IF p.objectives THEN {"said"} ELSE p.fields.learning_objectives
    BY <1>2, <2>1 DEF BuildInterpretedFields, FieldNames
  <2>3. BuildInterpretedFields(q)
          = [q.fields EXCEPT !.target_audience = q.fields.target_audience,
                             !.output_type = q.fields.output_type,
                             !.learning_objectives = q.fields.learning_objectives]
    BY <1>2, <2>1, <2>2 DEF BuildInterpretedFields, FieldNames
  <2>4. QED
    BY <2>1, <2>3
<1>7. q.missing = M(p) /\ q.active = (F(p) # {}) /\ q.clarify = (F(p) # {})
  <2> HIDE DEF M, F
  <2>1. QED
    BY <1>1 DEF IsPayload, PayloadFields
<1>8. RegeneratePlanMode(q) = q
  <2>1. M(q) = M(p)
    <3> HIDE DEF q, F
    <3>1. QED
      BY <1>5
  <2>2. RegeneratePlanMode(q)
          = [q EXCEPT !.fields = q.fields, !.missing = q.missing,
                      !.active = q.active, !.clarify = q.clarify]
    <3> HIDE DEF q, F, M
    <3>1. QED
      BY <1>1, <1>5, <1>6, <1>7, <2>1
  <2> HIDE DEF q, F, M
  <2>3. QED
    BY <1>2, <2>2 DEF IsPayload
<1>9. M(p) # {} <=> F(p) # {}
  <2> HIDE DEF F
  <2>1. QED
    OBVIOUS
<1>10. QED
  <2> HIDE DEF q, F, M
  <2>1. RegeneratePlanMode(q) = q /\ (q.clarify <=> q.missing # {})
    BY <1>7, <1>8, <1>9
  <2>2. QED
    BY <2>1 DEF q

\* The blocks a repaired draft has.
DraftFields == {"envelope", "schema_version", "title", "summary", "delivery", "sections",
                "blocks", "slides", "objectives"}

LEMMA DraftBlocks ==
  ASSUME NEW d \in DraftAnswer
  PROVE  Blocks(RepairDraft(d).blocks)
<1> DEFINE Is(r) == r = [f \in DraftFields |-> r[f]] /\ Blocks(r.blocks)
           x == ExtractObject(d)
           a == DraftSchema(x)
           b == DraftStrings(a)
           c == DraftSections(b)
           e == DraftObjectives(c)
<1>1. Is(d)
  <2>1. d = [f \in DraftFields |-> d[f]]
    BY DEF DraftAnswer, DraftFields
  <2>2. d.blocks \in Seq(Int)
    BY DEF DraftAnswer
  <2>3. Blocks(d.blocks)
    BY <2>2 DEF Blocks
  <2>4. QED
    BY <2>1, <2>3
<1>2. ASSUME NEW r, Is(r), NEW f \in DraftFields \ {"blocks"}, NEW S, NEW v
      PROVE  Is(Fill(r, f, S, v))
  <2>1. Fill(r, f, S, v) = [g \in DraftFields |-> Fill(r, f, S, v)[g]]
    BY <1>2 DEF Fill
  <2>2. Fill(r, f, S, v).blocks = r.blocks
    BY <1>2 DEF Fill, DraftFields
  <2>3. QED
    BY <1>2, <2>1, <2>2
<1>3. {"envelope", "schema_version", "objectives"} \subseteq DraftFields \ {"blocks"}
  BY DEF DraftFields
<1> HIDE DEF Is
<1>4. Is(x)
  BY <1>1, <1>2, <1>3 DEF ExtractObject
<1> HIDE DEF x
<1>5. Is(a)
  BY <1>2, <1>3, <1>4 DEF DraftSchema
<1> HIDE DEF a
<1>6. Is(b)
  <2>1. PICK t, s, y : b = [a EXCEPT !.title = t, !.summary = s, !.delivery = y]
    BY DEF DraftStrings
  <2> HIDE DEF b
  <2>2. b = [f \in DraftFields |-> b[f]] /\ b.blocks = a.blocks
    BY <1>5, <2>1 DEF Is, DraftFields
  <2>3. QED
    BY <1>5, <2>2 DEF Is
<1> HIDE DEF b
<1>7. Is(c)
  <2> DEFINE some == b.sections = "array" /\ b.blocks # << >>
             n == [i \in DOMAIN b.blocks |-> RepairDraftSection(b.blocks[i])]
  <2>1. CASE some
    <3>1. c = [b EXCEPT !.blocks = n]
      BY <1>6, <2>1 DEF DraftSections, Is, DraftFields
    <3>2. ASSUME NEW k \in Int
          PROVE  RepairDraftSection(k) \in Int
      <4>1. CASE k < 1
        <5>1. Max({1, k}) = 1
          BY <4>1, MaxIs
        <5>2. QED
          BY <5>1 DEF RepairDraftSection
      <4>2. CASE ~(k < 1)
        <5>1. Max({1, k}) = k
          BY <4>2, MaxIs
        <5>2. QED
          BY <5>1 DEF RepairDraftSection
      <4>3. QED
        BY <4>1, <4>2
    <3>3. Blocks(n)
      <4>1. /\ Len(b.blocks) \in Nat /\ DOMAIN b.blocks = 1..Len(b.blocks)
            /\ \A i \in 1..Len(b.blocks) : b.blocks[i] \in Int
        BY <1>6 DEF Is, Blocks
      <4>2. n \in [1..Len(b.blocks) -> Int]
        BY <4>1, <3>2
      <4> HIDE DEF n
      <4>3. n \in Seq(Int)
        BY <4>1, <4>2, IsASeqOf
      <4>4. QED
        BY <4>3 DEF Blocks
    <3> HIDE DEF c, n
    <3>4. c = [f \in DraftFields |-> c[f]] /\ c.blocks = n
      BY <1>6, <3>1 DEF Is, DraftFields
    <3>5. QED
      BY <3>3, <3>4 DEF Is
  <2>2. CASE ~some
    <3>1. \E u \in {<< >>, <<1>>} : c = [b EXCEPT !.sections = "array", !.blocks = u]
      BY <2>2 DEF DraftSections
    <3>2. PICK u \in {<< >>, <<1>>} : c = [b EXCEPT !.sections = "array", !.blocks = u]
      BY <3>1
    <3>3. Blocks(u)
      <4>1. Blocks(<< >>)
        BY DEF Blocks
      <4>2. QED
        BY <4>1, OneBlock
    <3> HIDE DEF c
    <3>4. c = [f \in DraftFields |-> c[f]] /\ c.blocks = u
      BY <1>6, <3>2 DEF Is, DraftFields
    <3>5. QED
      BY <3>3, <3>4 DEF Is
  <2>3. QED
    BY <2>1, <2>2
<1> HIDE DEF c
<1>8. Is(e)
  BY <1>2, <1>3, <1>7 DEF DraftObjectives
<1> HIDE DEF e
<1>9. RepairDraft(d) = e \/ RepairDraft(d) = d
  BY DEF RepairDraft, x, a, b, c, e
<1>10. QED
  BY <1>1, <1>8, <1>9 DEF Is

\* The specification made of such blocks and counts.
Renderable(s) ==
  /\ s.export_format \in AllowedFormats
  /\ s.title = "text"
  /\ s.sections # << >> /\ s.section_count = Len(s.sections)
  /\ \A i \in DOMAIN s.sections : s.sections[i] >= 1
  /\ s.total_units >= 1 \/ s.requested = {0}

LEMMA SpecOfBlocks ==
  ASSUME NEW format \in AllowedFormats, NEW u, Blocks(u), NEW pages \in Counts,
         NEW slides \in Counts, NEW activities
  PROVE  Renderable(BuildGenerationSpec(format, "text", "text", u, pages, slides, activities))
<1> DEFINE s == BuildGenerationSpec(format, "text", "text", u, pages, slides, activities)
           sections == SectionBlocks(u)
           target == TargetUnits(format, pages, slides)
           more == IF activities > 0 THEN 1 ELSE 0
           natural == 1 + Len(sections) + more
<1>1. /\ s.export_format = format /\ s.title = RequireStrBounded("text", "text")
      /\ s.sections = sections /\ s.section_count = Len(sections) /\ s.requested = target
      /\ s.total_units = IF target = {} THEN natural ELSE CHOOSE n \in target : TRUE
  BY DEF BuildGenerationSpec
<1>2. RequireStrBounded("text", "text") = "text"
  BY DEF RequireStrBounded, TruncateField
<1>3. /\ sections # << >> /\ Len(sections) \in Nat
      /\ \A i \in DOMAIN sections : sections[i] >= 1
  <2>1. CASE u = << >>
    BY <2>1 DEF SectionBlocks, DefaultSection
  <2>2. CASE u # << >>
    <3>1. sections = [i \in DOMAIN u |-> Max({1, u[i]})]
      BY <2>2 DEF SectionBlocks
    <3>2. Len(u) \in Nat /\ DOMAIN u = 1..Len(u) /\ \A i \in 1..Len(u) : u[i] \in Int
      BY DEF Blocks
    <3>3. Len(u) # 0
      <4>1. SUFFICES ASSUME Len(u) = 0
                     PROVE  u = << >>
        BY <2>2
      <4>2. u \in Seq(Int)
        BY DEF Blocks
      <4>3. QED
        BY <4>1, <4>2
    <3>4. ASSUME NEW k \in Int
          PROVE  Max({1, k}) \in Int /\ Max({1, k}) >= 1
      <4>1. CASE k < 1
        <5>1. Max({1, k}) = 1
          BY <4>1, MaxIs
        <5>2. QED
          BY <5>1
      <4>2. CASE ~(k < 1)
        <5>1. Max({1, k}) = k
          BY <4>2, MaxIs
        <5>2. QED
          BY <4>2, <5>1
      <4>3. QED
        BY <4>1, <4>2
    <3> HIDE DEF sections
    <3>5. sections \in [1..Len(u) -> Int] /\ \A i \in 1..Len(u) : sections[i] >= 1
      BY <3>1, <3>2, <3>4
    <3>6. sections \in Seq(Int)
      BY <3>2, <3>5, IsASeqOf
    <3>7. DOMAIN sections = 1..Len(u) /\ Len(sections) = Len(u)
      BY <3>2, <3>5, <3>6
    <3>8. QED
      BY <3>2, <3>3, <3>5, <3>6, <3>7
  <2>3. QED
    BY <2>1, <2>2
<1>4. target \in Counts
  BY DEF TargetUnits
<1> HIDE DEF s, sections, target
<1>5. s.total_units >= 1 \/ target = {0}
  <2>1. CASE target = {}
    <3>1. more \in {0, 1}
      OBVIOUS
    <3> HIDE DEF more
    <3>2. QED
      BY <1>1, <1>3, <2>1, <3>1
  <2>2. CASE target # {}
    <3>1. PICK n \in Nat : target = {n}
      BY <1>4, <2>2 DEF Counts
    <3>2. s.total_units = n
      BY <1>1, <2>2, <3>1
    <3>3. QED
      BY <3>1, <3>2
  <2>3. QED
    BY <2>1, <2>2
<1>6. QED
  BY <1>1, <1>2, <1>3, <1>5 DEF Renderable, s

--------------------------------------------------------------------------------
\* The decision after a fallback.

LEMMA ScoreOfThree ==
  ASSUME NEW f, NEW c, Weighted(c), Len(c) = 3
  PROVE  CandidateScore(f, c) = Adds(f, c[1]) + Adds(f, c[2]) + Adds(f, c[3])
<1> DEFINE w == [i \in 1..Len(c) |-> Adds(f, c[i])]
<1>1. PICK g : Sums(g, Len(c), w) /\ CandidateScore(f, c) = g[1..Len(c)]
  BY CandidateScoreIs
<1>2. /\ w[1] = Adds(f, c[1]) /\ w[2] = Adds(f, c[2]) /\ w[3] = Adds(f, c[3])
      /\ w[1] \in Int /\ w[2] \in Int /\ w[3] \in Int
  BY DEF Adds, Weighted
<1> HIDE DEF w
<1>3. ASSUME NEW s \in SUBSET (1..3)
      PROVE  g[s] = IF s = {} THEN 0 ELSE g[s \ {Max(s)}] + w[Max(s)]
  BY <1>1, <1>3 DEF Sums
<1>4. Max({1}) = 1 /\ Max({1, 2}) = 2 /\ Max({1, 2, 3}) = 3
  BY MaxIs
<1>5. /\ {1} \ {1} = {} /\ {1, 2} \ {2} = {1} /\ {1, 2, 3} \ {3} = {1, 2}
      /\ 1..3 = {1, 2, 3}
  OBVIOUS
<1>6. g[{}] = 0
  BY <1>3
<1>7. g[{1}] = w[1]
  BY <1>2, <1>3, <1>4, <1>5, <1>6
<1>8. g[{1, 2}] = w[1] + w[2]
  BY <1>3, <1>4, <1>5, <1>7
<1>9. g[{1, 2, 3}] = w[1] + w[2] + w[3]
  BY <1>3, <1>4, <1>5, <1>8
<1>10. QED
  BY <1>1, <1>2, <1>5, <1>9

\* A format that goes before every other is ranked first.
LEMMA BestIsFirst ==
  ASSUME NEW scores, NEW top \in AllowedFormats, NEW order \in HashOrders,
         \A f \in AllowedFormats \ {top} : Before(scores, top, f) /\ ~Before(scores, f, top)
  PROVE  RankCandidates(scores, order)[1] = top
<1> DEFINE a == order[1]
           b == order[2]
           c == order[3]
<1>1. /\ a \in AllowedFormats /\ b \in AllowedFormats /\ c \in AllowedFormats
      /\ a # b /\ b # c /\ a # c
  BY HashOrderIs
<1>2. RankCandidates(scores, order) = Ranked(scores, a, b, c)
  BY RankCandidatesIs
<1> HIDE DEF a, b, c
<1>3. top = a \/ top = b \/ top = c
  BY <1>1 DEF AllowedFormats
<1>4. Ranked(scores, a, b, c)[1] = top
  <2>1. CASE top = a
    BY <1>1, <2>1 DEF Ranked
  <2>2. CASE top = b
    BY <1>1, <2>2 DEF Ranked
  <2>3. CASE top = c
    BY <1>1, <2>3 DEF Ranked
  <2>4. QED
    BY <1>3, <2>1, <2>2, <2>3
<1>5. QED
  BY <1>2, <1>4

\* The keyword signals give at most 0.35, the candidates of the fallback are
\* 0.55 apart.
LEMMA FallbackScores ==
  ASSUME NEW t, NEW haystack, NEW visual, ~visual
  PROVE  LET top == FallbackFormat(t, "auto")
             scores == Scores(Fallback(t, "auto").candidates, haystack, visual)
         IN  /\ top \in AllowedFormats
             /\ \A f \in AllowedFormats \ {top} :
                  Before(scores, top, f) /\ ~Before(scores, f, top)
<1> DEFINE top == FallbackFormat(t, "auto")
           second == IF top = "pdf" THEN "docx" ELSE "pdf"
           third == IF top = "pptx" THEN "docx" ELSE "pptx"
           c == << <<top, 9500>>, <<second, 4000>>, <<third, 4000>> >>
           scores == Scores(Fallback(t, "auto").candidates, haystack, visual)
<1>1. top \in AllowedFormats
  BY DEF FallbackFormat, AllowedFormats
<1>2. Fallback(t, "auto").candidates = c
  BY DEF Fallback
<1> HIDE DEF top
<1>3. top # second /\ top # third /\ second # third
  BY <1>1 DEF AllowedFormats
<1>4. {top, second, third} = AllowedFormats
  BY <1>1 DEF AllowedFormats
<1> HIDE DEF second, third
<1>5. Weighted(c) /\ Len(c) = 3 /\ c[1] = <<top, 9500>> /\ c[2] = <<second, 4000>>
      /\ c[3] = <<third, 4000>>
  BY DEF Weighted
<1> HIDE DEF c
<1>6. /\ CandidateScore(top, c) = 9500
      /\ CandidateScore(second, c) = 4000 /\ CandidateScore(third, c) = 4000
  <2>1. /\ Adds(top, c[1]) = 9500 /\ Adds(top, c[2]) = 0 /\ Adds(top, c[3]) = 0
        /\ Adds(second, c[1]) = 0 /\ Adds(second, c[2]) = 4000 /\ Adds(second, c[3]) = 0
        /\ Adds(third, c[1]) = 0 /\ Adds(third, c[2]) = 0 /\ Adds(third, c[3]) = 4000
    BY <1>3, <1>5 DEF Adds
  <2>2. QED
    BY <1>5, <2>1, ScoreOfThree
<1>7. ASSUME NEW f \in AllowedFormats
      PROVE  LET k == SignalScore(f, haystack, visual)
             IN  k \in Int /\ 0 <= k /\ k <= 3500
  <2> DEFINE k == SignalScore(f, haystack, visual)
             v == SignalWeight[f]
             found == haystack \cap KeywordSignals[f] # {}
  <2>1. v \in Int /\ 0 <= v /\ v <= 3500
    BY <1>7 DEF SignalWeight, AllowedFormats
  <2>2. k = (IF found THEN v ELSE 0) + 0
    BY DEF SignalScore
  <2> HIDE DEF k, v, found
  <2>3. k \in Int /\ 0 <= k /\ k <= 3500
    BY <2>1, <2>2
  <2>4. QED
    BY <2>3 DEF k
<1>8. ASSUME NEW f \in AllowedFormats
      PROVE  scores[f] = CandidateScore(f, c) + SignalScore(f, haystack, visual)
  BY <1>2, <1>8 DEF Scores
<1> HIDE DEF scores
<1>9. scores[top] \in Int /\ scores[top] >= 9500
  <2> DEFINE k == SignalScore(top, haystack, visual)
  <2>1. k \in Int /\ 0 <= k /\ k <= 3500
    BY <1>1, <1>7
  <2>2. scores[top] = 9500 + k
    BY <1>1, <1>6, <1>8
  <2> HIDE DEF k
  <2>3. QED
    BY <2>1, <2>2
<1>10. ASSUME NEW f \in AllowedFormats \ {top}
       PROVE  Before(scores, top, f) /\ ~Before(scores, f, top)
  <2> DEFINE k == SignalScore(f, haystack, visual)
  <2>1. k \in Int /\ 0 <= k /\ k <= 3500
    BY <1>10, <1>7
  <2>2. scores[f] = 4000 + k
    BY <1>4, <1>6, <1>8, <1>10
  <2> HIDE DEF k
  <2>3. scores[f] \in Int /\ scores[f] <= 7500
    BY <2>1, <2>2
  <2>4. ~Tied(scores[top], scores[f]) /\ ~Tied(scores[f], scores[top])
    BY <1>9, <2>3 DEF Tied
  <2>5. QED
    BY <1>9, <2>3, <2>4 DEF Before
<1>11. QED
  BY <1>1, <1>10 DEF top, scores

\* The teacher's format, or the fallback's: never another.
LEMMA FallbackDecides ==
  ASSUME NEW t, NEW pr, NEW order \in HashOrders
  PROVE  LET p == NormalizePreferredOutputType(pr)
             b == Fallback(t, p)
         IN  Decide(p, b.preferred, ScoresOf(b), order).format = FallbackFormat(t, p)
<1> DEFINE p == NormalizePreferredOutputType(pr)
           b == Fallback(t, p)
           d == Decide(p, b.preferred, ScoresOf(b), order)
<1>1. b.preferred = p /\ ~b.visual
  BY DEF Fallback
<1>2. p \in AllowedFormats \cup {"auto"} /\ NormalizePreferredOutputType(p) = p
  BY DEF NormalizePreferredOutputType, AllowedFormats
<1>3. CASE p # "auto"
  <2>1. d.format = p
    BY <1>2, <1>3 DEF Decide, BuildDecision
  <2>2. QED
    BY <1>3, <2>1 DEF FallbackFormat
<1>4. CASE p = "auto"
  <2> DEFINE top == FallbackFormat(t, "auto")
             scores == Scores(Fallback(t, "auto").candidates, Haystack(b), b.visual)
  <2>1. ScoresOf(b) = scores
    BY <1>1, <1>4 DEF ScoresOf
  <2>2. RankCandidates(scores, order)[1] = top
    <3>1. top \in AllowedFormats
          /\ \A f \in AllowedFormats \ {top} : Before(scores, top, f) /\ ~Before(scores, f, top)
      BY <1>1, FallbackScores
    <3> HIDE DEF top, scores
    <3>2. QED
      BY <3>1, BestIsFirst
  <2> HIDE DEF top, scores, p, b
  <2>3. d.format = RankCandidates(scores, order)[1]
    BY <1>1, <1>2, <1>4, <2>1 DEF Decide, BuildDecision
  <2>4. QED
    BY <1>4, <2>2, <2>3 DEF top, p, b
<1>5. QED
  BY <1>3, <1>4

--------------------------------------------------------------------------------
\* The specification.

Past == {"interpreted", "drafted", "decided"}

\* From the interpretation on there is a payload the later steps can use, and
\* a fallback is still the one made of the prompt and the preference.
PayloadInv ==
  phase \in Past =>
    /\ IsPayload(payload)
    /\ payload.answer = "fallback" => payload = Fallback(text, Preferred)

UsableInv == phase \in {"drafted", "decided"} => Blocks(usable)

DecidedInv ==
  phase = "decided" =>
    /\ Renderable(spec)
    /\ payload.answer = "fallback" => decision.format = FallbackFormat(text, Preferred)

PipelineInv == PayloadInv /\ UsableInv /\ DecidedInv

LEMMA DecideIsAFormat ==
  ASSUME NEW preferred, NEW constraint, NEW scores, NEW order \in HashOrders
  PROVE  Decide(preferred, constraint, scores, order).format \in AllowedFormats
<1>1. RankCandidates(scores, order)[1] \in AllowedFormats
  BY RankedAreFormats
<1>2. QED
  BY <1>1 DEF Decide, BuildDecision, NormalizePreferredOutputType

LEMMA PipelineInvInit ==
  Init => PipelineInv
BY DEF Init, DialogueInit, PipelineInv, PayloadInv, UsableInv, DecidedInv, Past

LEMMA DialogueStaysBefore ==
  ASSUME Dialogue
  PROVE  phase' \in {"compose", "asked", "submitted"}
BY DEF Dialogue, DialogueNext, PostPreflight, Answer, Enrich

LEMMA PipelineInvNext ==
  ASSUME PipelineInv, [Next]_vars
  PROVE  PipelineInv'
<1>1. CASE Dialogue
  <2>1. phase' \notin Past
    BY <1>1, DialogueStaysBefore DEF Past
  <2>2. QED
    BY <2>1 DEF PipelineInv, PayloadInv, UsableInv, DecidedInv, Past
<1>2. CASE Interpret
  <2>1. phase' = "interpreted" /\ text' = text /\ pref' = pref
    BY <1>2 DEF Interpret
  <2>2. PICK raw \in Answers :
          payload' = IF DecodesInterpretation(Repaired(raw, text))
                     THEN Decoded(raw, text) ELSE Fallback(text, Preferred)
    BY <1>2 DEF Interpret
  <2>3. raw \in InterpretationAnswer
    BY AnswersAssumption
  <2>5. IsPayload(payload') /\ (payload'.answer = "fallback" => payload' = Fallback(text, Preferred))
    <3>1. CASE DecodesInterpretation(Repaired(raw, text))
      <4>1. payload' = Decoded(raw, text)
        BY <2>2, <3>1
      <4>2. IsPayload(Decoded(raw, text)) /\ Decoded(raw, text).answer = "decoded"
        BY <2>3, <3>1, DecodedIsPayload
      <4>3. QED
        BY <4>1, <4>2
    <3>2. CASE ~DecodesInterpretation(Repaired(raw, text))
      <4>1. payload' = Fallback(text, Preferred)
        BY <2>2, <3>2
      <4>2. QED
        BY <4>1, FallbackIsPayload
    <3>3. QED
      BY <3>1, <3>2
  <2>6. PayloadInv'
    BY <2>1, <2>5 DEF PayloadInv, Preferred
  <2>7. QED
    BY <2>1, <2>6 DEF PipelineInv, UsableInv, DecidedInv
<1>3. CASE CacheHit
  <2>1. /\ phase = "interpreted" /\ phase' = phase /\ payload.answer = "decoded"
        /\ payload' = RegeneratePlanMode(payload)
    BY <1>3 DEF CacheHit
  <2>2. IsPayload(payload)
    BY <2>1 DEF PipelineInv, PayloadInv, Past
  <2>3. IsPayload(payload') /\ payload'.answer = "decoded"
    BY <2>1, <2>2, RegenerateKeeps
  <2>4. PayloadInv'
    BY <2>3 DEF PayloadInv
  <2>5. QED
    BY <2>1, <2>4 DEF PipelineInv, UsableInv, DecidedInv
<1>4. CASE Draft
  <2>1. /\ phase = "interpreted" /\ phase' = "drafted"
        /\ payload' = payload /\ text' = text /\ pref' = pref
    BY <1>4 DEF Draft
  <2>2. PICK raw \in DraftAnswers :
          usable' = IF DecodesDraft(RepairDraft(raw)) THEN RepairDraft(raw).blocks ELSE <<1>>
    BY <1>4 DEF Draft
  <2>3. raw \in DraftAnswer
    BY AnswersAssumption
  <2>4. Blocks(usable')
    BY <2>2, <2>3, DraftBlocks, OneBlock
  <2>5. PayloadInv'
    BY <2>1 DEF PipelineInv, PayloadInv, Past, Preferred
  <2>6. QED
    BY <2>1, <2>4, <2>5 DEF PipelineInv, UsableInv, DecidedInv
<1>5. CASE SkipDraft
  <2>1. /\ phase = "interpreted" /\ phase' = "drafted" /\ usable' = payload.usable
        /\ payload' = payload /\ text' = text /\ pref' = pref
    BY <1>5 DEF SkipDraft
  <2>2. Blocks(usable')
    BY <2>1 DEF PipelineInv, PayloadInv, Past, IsPayload
  <2>3. PayloadInv'
    BY <2>1 DEF PipelineInv, PayloadInv, Past, Preferred
  <2>4. QED
    BY <2>1, <2>2, <2>3 DEF PipelineInv, UsableInv, DecidedInv
<1>6. CASE Resolve
  <2>1. /\ phase = "drafted" /\ phase' = "decided" /\ usable' = usable
        /\ payload' = payload /\ text' = text /\ pref' = pref
        /\ spec' = BuildGenerationSpec(decision'.format, payload.title, "text", usable,
                                       payload.fields.page_count, payload.fields.slide_count,
                                       payload.activities)
    BY <1>6 DEF Resolve
  <2>2. PICK order \in HashOrders :
          decision' = Decide(Preferred, payload.preferred, ScoresOf(payload), order)
    BY <1>6 DEF Resolve
  <2>3. /\ IsPayload(payload) /\ Blocks(usable)
        /\ payload.answer = "fallback" => payload = Fallback(text, Preferred)
    BY <2>1 DEF PipelineInv, PayloadInv, UsableInv, Past
  <2>4. decision'.format \in AllowedFormats
    BY <2>2, DecideIsAFormat
  <2>5. Renderable(spec')
    <3>1. /\ payload.title = "text" /\ payload.fields.page_count \in Counts
          /\ payload.fields.slide_count \in Counts
      BY <2>3 DEF IsPayload
    <3>2. QED
      BY <2>1, <2>3, <2>4, <3>1, SpecOfBlocks
  <2>6. payload.answer = "fallback" => decision'.format = FallbackFormat(text, Preferred)
    BY <2>2, <2>3, FallbackDecides DEF Preferred
  <2>7. PayloadInv'
    BY <2>1, <2>3 DEF PayloadInv, Preferred
  <2>8. QED
    BY <2>1, <2>3, <2>5, <2>6, <2>7 DEF PipelineInv, UsableInv, DecidedInv, Preferred
<1>7. CASE UNCHANGED vars
  BY <1>7 DEF vars, PipelineInv, PayloadInv, UsableInv, DecidedInv, Preferred
<1>8. QED
  BY <1>1, <1>2, <1>3, <1>4, <1>5, <1>6, <1>7 DEF Next, Done, Stop

LEMMA PipelineInvHolds ==
  Spec => []PipelineInv
BY PipelineInvInit, PipelineInvNext, PTL DEF Spec

\* Whatever a provider answers, repair never makes a decodable answer
\* undecodable, and repairing twice is repairing once.
THEOREM RepairOnlyHelpsThm ==
  Spec => []RepairOnlyHelps
<1>1. RepairOnlyHelps
  <2>1. ASSUME NEW raw \in Answers, NEW counts
        PROVE  LET once == RepairInterpretation(raw, counts)
               IN  /\ DecodesInterpretation(raw) => DecodesInterpretation(once)
                   /\ RepairInterpretation(once, counts) = once
    <3>1. raw \in InterpretationAnswer
      BY <2>1, AnswersAssumption
    <3>2. QED
      BY <3>1, RepairHelps
  <2>2. QED
    BY <2>1 DEF RepairOnlyHelps
<1>2. QED
  BY <1>1, PTL

\* However often a cached interpretation is served, it asks the same questions,
\* and it asks for a clarification exactly when it has one.
THEOREM PlanModeIsStableThm ==
  Spec => []PlanModeIsStable
<1>1. PipelineInv => PlanModeIsStable
  BY RegenerateSettles DEF PipelineInv, PayloadInv, Past, PlanModeIsStable
<1>2. QED
  BY <1>1, PipelineInvHolds, PTL

\* The order of the HashMap does not show in the decision unless two scores are
\* one unit apart, and after a fallback the format is the one it took from the
\* teacher or the prompt.
THEOREM DecisionIsSettledThm ==
  Spec => []DecisionIsSettled
<1>1. PipelineInv => DecisionIsSettled
  <2> SUFFICES ASSUME PipelineInv
               PROVE  DecisionIsSettled
    OBVIOUS
  <2>1. ASSUME phase = "drafted",
               \A f, g \in AllowedFormats : ScoresOf(payload)[f] - ScoresOf(payload)[g] # 1
        PROVE  Cardinality({Decide(Preferred, payload.preferred, ScoresOf(payload), order) :
                              order \in HashOrders}) = 1
    <3> DEFINE scores == ScoresOf(payload)
    <3>1. Weighted(payload.candidates)
      BY <2>1 DEF PipelineInv, PayloadInv, IsPayload, Past
    <3>2. scores \in [AllowedFormats -> Int]
      BY <3>1, ScoresAreInt DEF ScoresOf
    <3> HIDE DEF scores
    <3>3. Apart(scores)
      BY <2>1, <3>2 DEF Apart, scores
    <3>4. Cardinality({Decide(Preferred, payload.preferred, scores, order) :
                         order \in HashOrders}) = 1
      BY <3>3, DecideIsSettled
    <3>5. QED
      BY <3>4 DEF scores
  <2>2. phase = "decided" /\ payload.answer = "fallback"
          => decision.format = FallbackFormat(text, Preferred)
    BY DEF PipelineInv, DecidedInv
  <2>3. QED
    BY <2>1, <2>2 DEF DecisionIsSettled
<1>2. QED
  BY <1>1, PipelineInvHolds, PTL

\* Whatever the providers answered, the renderer can use its specification.
THEOREM SpecIsRenderableThm ==
  Spec => []SpecIsRenderable
<1>1. PipelineInv => SpecIsRenderable
  BY DEF PipelineInv, DecidedInv, Renderable, SpecIsRenderable
<1>2. QED
  BY <1>1, PipelineInvHolds, PTL
================================================================================
