--------------------------- MODULE RecommendationProofs ------------------------
(***************************************************************************)
(* For any number of topics, projects, teachers and requests, whatever     *)
(* administrators edit between two reads of a request: the feed it answers *)
(* shows nothing twice and loses nothing, fits the teacher it is for, and  *)
(* is as ordered as compare_items can make it.                             *)
(*                                                                         *)
(* A request's feed is the one of the projects, topics and context it read *)
(* (FeedInvariant).  The rest is about that feed: what the sort does with  *)
(* a comparison that is no order, what the selection keeps, and what the   *)
(* suppressed keys keep out.  What of it was shown is recorded, and summed *)
(* up truly over all teachers (RecordInvariant).                           *)
(***************************************************************************)
EXTENDS Recommendation, FiniteSetTheorems, SequenceTheorems, WellFoundedInduction, TLAPS

--------------------------------------------------------------------------------
(* Numbers.                                                                *)

\* A set of numbers that is not empty has a least element.
LEMMA LeastElement ==
  ASSUME NEW S \in SUBSET Nat, S # {}
  PROVE  \E d \in S : \A x \in S : d <= x
<1>1. PICK d \in S : \A x \in S : <<x, d>> \notin OpToRel(<, Nat)
  BY NatLessThanWellFounded, WFMin
<1>2. \A x \in S : ~(x < d)
  BY <1>1 DEF OpToRel
<1> QED
  BY <1>2

\* Induction, for a set of numbers.
LEMMA Induction ==
  ASSUME NEW G, 0 \in G, \A n \in Nat : n \in G => n + 1 \in G
  PROVE  \A n \in Nat : n \in G
<1> DEFINE D == Nat \ G
<1> SUFFICES ASSUME D # {}
             PROVE  FALSE
  OBVIOUS
<1>1. D \in SUBSET Nat
  OBVIOUS
<1> HIDE DEF D
<1>2. PICK d \in D : \A x \in D : d <= x
  BY <1>1, LeastElement
<1>3. d \in Nat /\ d \notin G /\ d # 0
  BY <1>2 DEF D
<1>4. d - 1 \in Nat /\ ~(d <= d - 1) /\ (d - 1) + 1 = d
  BY <1>3
<1>5. d - 1 \notin D
  BY <1>2, <1>4
<1> QED
  BY <1>3, <1>4, <1>5 DEF D

\* A set of numbers up to n that is not empty has a greatest element.
LEMMA GreatestElement ==
  ASSUME NEW n \in Nat, NEW S \in SUBSET (0 .. n), S # {}
  PROVE  Max(S) \in S /\ \A y \in S : Max(S) >= y
<1> DEFINE U == {n - x : x \in S}
<1>1. U \in SUBSET Nat /\ U # {}
  <2>1. \A x \in S : n - x \in Nat
    OBVIOUS
  <2> QED
    BY <2>1
<1> HIDE DEF U
<1>2. PICK d \in U : \A u \in U : d <= u
  BY <1>1, LeastElement
<1>3. PICK m \in S : d = n - m
  BY <1>2 DEF U
<1>4. ASSUME NEW y \in S
      PROVE  m >= y
  <2>1. d <= n - y
    BY <1>2 DEF U
  <2> QED
    BY <1>3, <2>1
<1> QED
  BY <1>4 DEF Max

--------------------------------------------------------------------------------
(* Lexicographic order.                                                    *)

Numbers(a, n) == Len(a) = n /\ \A i \in 1 .. n : a[i] \in Int

\* Of two different keys only one is less.
LEMMA LexAsymmetric ==
  ASSUME NEW n \in Nat, NEW a, NEW b, Numbers(a, n), Numbers(b, n), LexLess(a, b)
  PROVE  ~LexLess(b, a)
<1> SUFFICES ASSUME LexLess(b, a)
             PROVE  FALSE
  OBVIOUS
<1>1. PICK i \in 1 .. n : a[i] < b[i] /\ \A j \in 1 .. (i - 1) : a[j] = b[j]
  BY DEF LexLess, Numbers
<1>2. PICK k \in 1 .. n : b[k] < a[k] /\ \A j \in 1 .. (k - 1) : b[j] = a[j]
  BY DEF LexLess, Numbers
<1>3. a[i] \in Int /\ b[i] \in Int /\ a[k] \in Int /\ b[k] \in Int
  BY DEF Numbers
<1>4. i = k \/ i \in 1 .. (k - 1) \/ k \in 1 .. (i - 1)
  OBVIOUS
<1> QED
  BY <1>1, <1>2, <1>3, <1>4

\* Not to be less is transitive: look at the first place where not all three agree.
LEMMA LexTransitive ==
  ASSUME NEW n \in Nat, NEW a, NEW b, NEW c,
         Numbers(a, n), Numbers(b, n), Numbers(c, n),
         ~LexLess(b, a), ~LexLess(c, b)
  PROVE  ~LexLess(c, a)
<1> SUFFICES ASSUME LexLess(c, a)
             PROVE  FALSE
  OBVIOUS
<1>1. PICK i \in 1 .. n : c[i] < a[i] /\ \A j \in 1 .. (i - 1) : c[j] = a[j]
  BY DEF LexLess, Numbers
<1> DEFINE D == {k \in 1 .. n : ~(a[k] = b[k] /\ b[k] = c[k])}
<1>2. \A k \in 1 .. n : a[k] \in Int /\ b[k] \in Int /\ c[k] \in Int
  BY DEF Numbers
<1>3. i \in D /\ D \in SUBSET Nat
  BY <1>1, <1>2
<1>4. PICK k \in D : \A x \in D : k <= x
  <2> HIDE DEF D
  <2> QED
    BY <1>3, LeastElement
<1>5. k \in 1 .. n /\ k <= i /\ \A j \in 1 .. (k - 1) : a[j] = b[j] /\ b[j] = c[j]
  <2>1. k \in 1 .. n /\ k <= i
    BY <1>3, <1>4
  <2>2. ASSUME NEW j \in 1 .. (k - 1)
        PROVE  a[j] = b[j] /\ b[j] = c[j]
    <3>1. j \in 1 .. n /\ ~(k <= j)
      BY <2>1
    <3>2. j \notin D
      BY <1>4, <3>1
    <3> QED
      BY <3>1, <3>2
  <2> QED
    BY <2>1, <2>2
<1>6. ~(b[k] < a[k])
  BY <1>5 DEF LexLess, Numbers
<1>7. ~(c[k] < b[k])
  BY <1>5 DEF LexLess, Numbers
<1>8. ~(a[k] = b[k] /\ b[k] = c[k])
  BY <1>4
<1>9. a[k] < c[k]
  BY <1>2, <1>5, <1>6, <1>7, <1>8
<1>10. k = i \/ k \in 1 .. (i - 1)
  BY <1>5
<1> QED
  BY <1>1, <1>2, <1>5, <1>9, <1>10

\* What is not less is not less in the first number, and where that is the same not
\* in the second.
LEMMA LexFirst ==
  ASSUME NEW n \in Nat, NEW a, NEW b, Numbers(a, n), Numbers(b, n), n > 1, ~LexLess(b, a)
  PROVE  a[1] <= b[1] /\ (a[1] = b[1] => a[2] <= b[2])
<1>1. 1 \in 1 .. n /\ 2 \in 1 .. n
  OBVIOUS
<1>2. a[1] \in Int /\ b[1] \in Int /\ a[2] \in Int /\ b[2] \in Int
  BY <1>1 DEF Numbers
<1>3. ~(b[1] < a[1])
  BY <1>1 DEF LexLess, Numbers
<1>4. ASSUME a[1] = b[1]
      PROVE  ~(b[2] < a[2])
  <2>1. \A j \in 1 .. (2 - 1) : b[j] = a[j]
    BY <1>4
  <2> QED
    BY <1>1, <2>1 DEF LexLess, Numbers
<1> QED
  BY <1>2, <1>3, <1>4

--------------------------------------------------------------------------------
(* compare_items.                                                          *)

\* The numbers an item is compared by.
Comparable(x) ==
  /\ x.group \in Int /\ x.rank \in Int /\ x.updated \in Int
  /\ x.priority \in Int /\ x.score \in Int /\ x.created \in Int /\ IdRank[x.id] \in Int

SystemKey(x) == <<x.group, x.rank, -x.updated>> \o CommonKey(x)

\* Three numbers and four more.
LEMMA SevenNumbers ==
  ASSUME NEW u \in Seq(Int), NEW v \in Seq(Int), Len(u) = 3, Len(v) = 4
  PROVE  Numbers(u \o v, 7) /\ (u \o v)[1] = u[1] /\ (u \o v)[2] = u[2]
<1> DEFINE w == u \o v
<1>1. /\ w \in Seq(Int) /\ Len(w) = Len(u) + Len(v)
      /\ \A i \in 1 .. Len(u) + Len(v) : w[i] = IF i <= Len(u) THEN u[i] ELSE v[i - Len(u)]
  BY ConcatProperties
<1> HIDE DEF w
<1>2. Len(w) = 7 /\ w[1] = u[1] /\ w[2] = u[2]
  BY <1>1
<1>3. \A i \in 1 .. 7 : w[i] \in Int
  BY <1>1, <1>2, ElementOfSeq
<1> QED
  BY <1>2, <1>3 DEF Numbers, w

\* The keys compare_items compares.
LEMMA KeysAre ==
  ASSUME NEW x, Comparable(x)
  PROVE  /\ Numbers(CommonKey(x), 4) /\ CommonKey(x)[1] = -x.priority
         /\ Numbers(SystemKey(x), 7) /\ SystemKey(x)[1] = x.group /\ SystemKey(x)[2] = x.rank
<1>1. /\ CommonKey(x) = <<-x.priority, -x.score, -x.created, IdRank[x.id]>>
      /\ -x.priority \in Int /\ -x.score \in Int /\ -x.created \in Int /\ IdRank[x.id] \in Int
  BY DEF CommonKey, Comparable
<1> DEFINE head == <<x.group, x.rank, -x.updated>>
<1>2. /\ head \in Seq(Int) /\ Len(head) = 3 /\ head[1] = x.group /\ head[2] = x.rank
  BY DEF Comparable
<1>3. CommonKey(x) \in Seq(Int) /\ Len(CommonKey(x)) = 4 /\ CommonKey(x)[1] = -x.priority
  BY <1>1
<1>4. SystemKey(x) = head \o CommonKey(x)
  BY DEF SystemKey
<1> HIDE DEF head
<1>5. Numbers(SystemKey(x), 7) /\ SystemKey(x)[1] = x.group /\ SystemKey(x)[2] = x.rank
  BY <1>2, <1>3, <1>4, SevenNumbers
<1>6. Numbers(CommonKey(x), 4)
  <2> DEFINE key == CommonKey(x)
  <2>1. key \in Seq(Int) /\ Len(key) = 4
    BY <1>3
  <2> HIDE DEF key
  <2>2. \A i \in 1 .. 4 : key[i] \in Int
    BY <2>1, ElementOfSeq
  <2> QED
    BY <2>1, <2>2 DEF Numbers, key
<1> QED
  BY <1>3, <1>5, <1>6

\* Never both less than the other.
LEMMA CompareAsymmetric ==
  ASSUME NEW a, NEW b, Comparable(a), Comparable(b), CompareItems(a, b)
  PROVE  ~CompareItems(b, a)
BY KeysAre, LexAsymmetric DEF CompareItems, SystemKey

\* Among admin uploads and among system items it is an order.
LEMMA CompareTransitive ==
  ASSUME NEW a, NEW b, NEW c, Comparable(a), Comparable(b), Comparable(c),
         IsAdmin(a) <=> IsAdmin(b), IsAdmin(b) <=> IsAdmin(c),
         ~CompareItems(b, a), ~CompareItems(c, b)
  PROVE  ~CompareItems(c, a)
<1>1. CASE IsAdmin(a)
  BY <1>1, KeysAre, LexTransitive DEF CompareItems, IsSystem
<1>2. CASE ~IsAdmin(a)
  BY <1>2, KeysAre, LexTransitive DEF CompareItems, IsSystem, SystemKey
<1> QED
  BY <1>1, <1>2

\* What it means that an item does not belong before the one it follows.
LEMMA CompareMeans ==
  ASSUME NEW a, NEW b, Comparable(a), Comparable(b), ~CompareItems(b, a)
  PROVE  /\ IsAdmin(a) /\ IsAdmin(b) => a.priority >= b.priority
         /\ IsSystem(a) /\ IsSystem(b) =>
              a.group < b.group \/ (a.group = b.group /\ a.rank <= b.rank)
<1>1. ASSUME IsAdmin(a), IsAdmin(b)
      PROVE  a.priority >= b.priority
  <2>1. ~LexLess(CommonKey(b), CommonKey(a))
    BY <1>1 DEF CompareItems, IsSystem
  <2>2. CommonKey(a)[1] <= CommonKey(b)[1]
    BY <2>1, KeysAre, LexFirst
  <2> QED
    BY <2>2, KeysAre DEF Comparable
<1>2. ASSUME IsSystem(a), IsSystem(b)
      PROVE  a.group < b.group \/ (a.group = b.group /\ a.rank <= b.rank)
  <2>1. ~LexLess(SystemKey(b), SystemKey(a))
    BY <1>2 DEF CompareItems, SystemKey
  <2>2. /\ SystemKey(a)[1] <= SystemKey(b)[1]
        /\ SystemKey(a)[1] = SystemKey(b)[1] => SystemKey(a)[2] <= SystemKey(b)[2]
    BY <2>1, KeysAre, LexFirst
  <2> QED
    BY <2>2, KeysAre DEF Comparable
<1> QED
  BY <1>1, <1>2

--------------------------------------------------------------------------------
(* Places.                                                                 *)

\* before[i] holds the elements that come before i in a strict total order.
Orders(S, before) ==
  /\ before \in [S -> SUBSET S]
  /\ \A i \in S : i \notin before[i]
  /\ \A i, j \in S : i \in before[j] => before[i] \subseteq before[j]
  /\ \A i, j \in S : i # j => i \in before[j] \/ j \in before[i]

\* In a finite, totally ordered set every place is taken, and by one element.
LEMMA Places ==
  ASSUME NEW S, IsFiniteSet(S), NEW before, Orders(S, before)
  PROVE  /\ Cardinality(S) \in Nat
         /\ \A i \in S : Cardinality(before[i]) \in 0 .. Cardinality(S) - 1
         /\ \A i, j \in S : i \in before[j] => Cardinality(before[i]) < Cardinality(before[j])
         /\ \A k \in 0 .. Cardinality(S) - 1 : \E i \in S : Cardinality(before[i]) = k
<1> DEFINE n == Cardinality(S)
           place == [i \in S |-> Cardinality(before[i])]
<1>1. n \in Nat
  BY FS_CardinalityType
<1>2. ASSUME NEW T, IsFiniteSet(T), NEW P \in SUBSET T, NEW x \in T, x \notin P
      PROVE  /\ Cardinality(P) \in Nat /\ Cardinality(T) \in Nat
             /\ Cardinality(P) < Cardinality(T)
  <2>1. IsFiniteSet(P) /\ Cardinality(P) <= Cardinality(T) /\ Cardinality(P) # Cardinality(T)
    BY <1>2, FS_Subset
  <2>2. Cardinality(P) \in Nat /\ Cardinality(T) \in Nat
    BY <1>2, <2>1, FS_CardinalityType
  <2> QED
    BY <2>1, <2>2
<1>3. \A i \in S : IsFiniteSet(before[i]) /\ before[i] \in SUBSET S /\ i \notin before[i]
  BY FS_Subset DEF Orders
<1>4. \A i \in S : Cardinality(before[i]) \in 0 .. n - 1
  BY <1>1, <1>2, <1>3
<1>5. ASSUME NEW i \in S, NEW j \in S, i \in before[j]
      PROVE  Cardinality(before[i]) < Cardinality(before[j])
  <2>1. before[i] \in SUBSET before[j] /\ i \notin before[i] /\ IsFiniteSet(before[j])
    BY <1>3, <1>5 DEF Orders
  <2> QED
    BY <1>2, <1>5, <2>1
<1>6. \A i, j \in S : i # j => place[i] # place[j]
  BY <1>4, <1>5 DEF Orders
<1>7. place \in Injection(S, 0 .. n - 1)
  <2>1. place \in [S -> 0 .. n - 1]
    BY <1>4
  <2> HIDE DEF place
  <2> QED
    BY <1>6, <2>1 DEF Injection, IsInjective
<1>8. IsFiniteSet(0 .. n - 1) /\ Cardinality(0 .. n - 1) = n
  <2>1. /\ IsFiniteSet(0 .. n - 1)
        /\ Cardinality(0 .. n - 1) = IF 0 > n - 1 THEN 0 ELSE n - 1 - 0 + 1
    <3>1. 0 \in Int /\ n - 1 \in Int
      BY <1>1
    <3> HIDE DEF n
    <3> QED
      BY <3>1, FS_Interval
  <2> QED
    BY <1>1, <2>1
<1>9. place \in Surjection(S, 0 .. n - 1)
  <2> HIDE DEF place
  <2>1. Cardinality(S) = Cardinality(0 .. n - 1)
    BY <1>8
  <2> QED
    BY <1>7, <1>8, <2>1, FS_Injection
<1>10. \A k \in 0 .. n - 1 : \E i \in S : place[i] = k
  <2> HIDE DEF place
  <2> QED
    BY <1>9 DEF Surjection
<1> QED
  BY <1>1, <1>4, <1>5, <1>10

\* w has the elements of s at the positions in P, each once and in their order; p
\* tells which.
Picked(w, s, P, m, p) ==
  /\ m \in Nat /\ p \in [1 .. m -> P]
  /\ Len(w) = m /\ DOMAIN w = 1 .. m
  /\ \A k \in 1 .. m : w[k] = s[p[k]]
  /\ \A j, k \in 1 .. m : j < k => p[j] < p[k]
  /\ \A i \in P : \E k \in 1 .. m : p[k] = i

\* Pick does so.
LEMMA PickIs ==
  ASSUME NEW s, NEW P, IsFiniteSet(P), \A i \in P : i \in Nat
  PROVE  \E m, p : Picked(Pick(s, P), s, P, m, p)
<1> DEFINE before == [i \in P |-> {j \in P : j < i}]
           m == Cardinality(P)
           at(k) == CHOOSE i \in P : Cardinality({j \in P : j < i}) = k - 1
           p == [k \in 1 .. m |-> at(k)]
           lower(i) == Cardinality({j \in P : j < i})
<1>3. Orders(P, before)
  <2>1. before \in [P -> SUBSET P]
    OBVIOUS
  <2>2. \A i, j \in P : i \in before[j] <=> i < j
    OBVIOUS
  <2> HIDE DEF before
  <2>3. \A i, j \in P : i \in before[j] => before[i] \in SUBSET before[j]
    <3> SUFFICES ASSUME NEW i \in P, NEW j \in P, i \in before[j], NEW k \in before[i]
                 PROVE  k \in before[j]
      BY <2>1
    <3>1. k \in P /\ k < i /\ i < j
      BY <2>1, <2>2
    <3> QED
      BY <2>2, <3>1
  <2>4. \A i \in P : i \notin before[i]
    BY <2>2
  <2>5. \A i, j \in P : i # j => i \in before[j] \/ j \in before[i]
    BY <2>2
  <2> QED
    BY <2>1, <2>3, <2>4, <2>5 DEF Orders
<1>4. /\ m \in Nat
      /\ \A i \in P : Cardinality(before[i]) \in 0 .. m - 1
      /\ \A i, j \in P : i \in before[j] => Cardinality(before[i]) < Cardinality(before[j])
      /\ \A k \in 0 .. m - 1 : \E i \in P : Cardinality(before[i]) = k
  <2>1. /\ Cardinality(P) \in Nat
        /\ \A i \in P : Cardinality(before[i]) \in 0 .. Cardinality(P) - 1
        /\ \A i, j \in P : i \in before[j] => Cardinality(before[i]) < Cardinality(before[j])
        /\ \A k \in 0 .. Cardinality(P) - 1 : \E i \in P : Cardinality(before[i]) = k
    <3> HIDE DEF before
    <3> QED
      BY <1>3, Places
  <2> QED
    BY <2>1
<1>5. \A i \in P : Cardinality(before[i]) = lower(i)
  OBVIOUS
<1>6. \A i, j \in P : i < j => i \in before[j]
  OBVIOUS
<1>7. Pick(s, P) = [k \in 1 .. m |-> s[at(k)]]
  BY DEF Pick
<1>8. ASSUME NEW k \in 1 .. m
      PROVE  at(k) \in P /\ lower(at(k)) = k - 1
  <2>1. k - 1 \in 0 .. m - 1
    BY <1>4
  <2> HIDE DEF before, m
  <2>2. \E i \in P : lower(i) = k - 1
    BY <1>4, <1>5, <2>1
  <2> QED
    BY <2>2
<1> HIDE DEF before, m, at, lower
<1>9. p \in [1 .. m -> P]
  BY <1>8
<1>10. \A k \in 1 .. m : p[k] = at(k)
  OBVIOUS
<1> HIDE DEF p
<1>11. /\ \A i, j \in P : i < j => lower(i) < lower(j)
       /\ \A i \in P : lower(i) \in 0 .. m - 1
  BY <1>4, <1>5, <1>6
<1>12. ASSUME NEW j \in 1 .. m, NEW k \in 1 .. m, j < k
       PROVE  p[j] < p[k]
  <2>1. p[j] \in P /\ p[k] \in P /\ lower(p[j]) = j - 1 /\ lower(p[k]) = k - 1
    BY <1>8, <1>10
  <2>2. lower(p[j]) < lower(p[k])
    BY <1>12, <2>1
  <2>3. ~(p[k] < p[j]) /\ p[k] # p[j]
    BY <1>11, <2>1, <2>2
  <2> QED
    BY <2>1, <2>3
<1>13. ASSUME NEW i \in P
       PROVE  \E k \in 1 .. m : p[k] = i
  <2> DEFINE k == lower(i) + 1
  <2>1. k \in 1 .. m
    BY <1>4, <1>11
  <2>2. p[k] \in P /\ lower(p[k]) = lower(i)
    BY <1>4, <1>8, <1>10, <1>11, <2>1
  <2> HIDE DEF k
  <2>3. ~(p[k] < i) /\ ~(i < p[k])
    BY <1>11, <2>2
  <2> QED
    BY <2>1, <2>2, <2>3
<1>14. Len(Pick(s, P)) = m /\ DOMAIN Pick(s, P) = 1 .. m
  BY <1>4, <1>7
<1>15. \A k \in 1 .. m : Pick(s, P)[k] = s[p[k]]
  BY <1>7, <1>10
<1>16. m \in Nat
  BY <1>4
<1>17. Picked(Pick(s, P), s, P, m, p)
  BY <1>9, <1>12, <1>13, <1>14, <1>15, <1>16 DEF Picked
<1> QED
  BY <1>17

--------------------------------------------------------------------------------
(* The sort.                                                               *)

\* Where an item is put: behind the last one it is not less than.
Place(s, x) == Max({0} \cup {i \in DOMAIN s : ~CompareItems(x, s[i])})

\* The item is less than all it moves past, and not less than the one it stops at.
LEMMA PlaceIs ==
  ASSUME NEW n \in Nat, NEW s, DOMAIN s = 1 .. n, NEW x
  PROVE  /\ Place(s, x) \in 0 .. n
         /\ \A i \in (Place(s, x) + 1) .. n : CompareItems(x, s[i])
         /\ Place(s, x) # 0 => ~CompareItems(x, s[Place(s, x)])
<1> DEFINE I == {i \in DOMAIN s : ~CompareItems(x, s[i])}
           S == {0} \cup I
<1>1. S \in SUBSET (0 .. n) /\ S # {} /\ I \in SUBSET (1 .. n)
  OBVIOUS
<1>2. Place(s, x) = Max(S)
  BY DEF Place
<1>3. \A i \in 1 .. n : i \notin I => CompareItems(x, s[i])
  OBVIOUS
<1>4. \A i \in I : ~CompareItems(x, s[i])
  OBVIOUS
<1> HIDE DEF I
<1>5. Max(S) \in S /\ \A y \in S : Max(S) >= y
  <2> HIDE DEF S
  <2> QED
    BY <1>1, GreatestElement
<1> DEFINE m == Max(S)
<1>6. m \in 0 .. n /\ m \in S
  BY <1>1, <1>5
<1>7. \A y \in I : m >= y
  BY <1>5
<1> HIDE DEF m
<1>8. \A i \in (m + 1) .. n : CompareItems(x, s[i])
  <2> SUFFICES ASSUME NEW i \in (m + 1) .. n
               PROVE  CompareItems(x, s[i])
    OBVIOUS
  <2>1. i \in 1 .. n /\ ~(m >= i)
    BY <1>6
  <2> QED
    BY <1>3, <1>7, <2>1
<1>9. m # 0 => ~CompareItems(x, s[m])
  BY <1>4, <1>6
<1> QED
  BY <1>2, <1>6, <1>8, <1>9 DEF m

\* What InsertAt does to the places of a sequence.
LEMMA InsertedAt ==
  ASSUME NEW T, NEW s \in Seq(T), NEW x \in T, NEW m \in 0 .. Len(s),
         NEW w, w = InsertAt(s, 1 + m, x)
  PROVE  /\ w \in Seq(T) /\ Len(w) = Len(s) + 1
         /\ \A i \in 1 .. m : w[i] = s[i]
         /\ w[m + 1] = x
         /\ \A i \in (m + 2) .. (Len(s) + 1) : w[i] = s[i - 1]
<1> DEFINE n == Len(s)
           a == SubSeq(s, 1, m)
           b == SubSeq(s, m + 1, n)
           ax == a \o <<x>>
<1>1. n \in Nat /\ m \in Nat /\ m <= n
  BY LenProperties
<1>2. w = ax \o b
  <2>1. (1 + m) - 1 = m /\ 1 + m = m + 1
    BY <1>1
  <2> QED
    BY <2>1 DEF InsertAt
<1>0. \A i \in 1 .. n : s[i] \in T
  BY ElementOfSeq
<1>3. a \in Seq(T) /\ Len(a) = m /\ \A i \in 1 .. m : a[i] = s[i]
  <2>1. \A i \in 1 .. m : s[i] \in T
    BY <1>0, <1>1
  <2>2. /\ a \in Seq(T) /\ Len(a) = IF 1 <= m THEN m - 1 + 1 ELSE 0
        /\ \A i \in 1 .. m - 1 + 1 : a[i] = s[1 + i - 1]
    BY <1>1, <2>1, SubSeqProperties
  <2> HIDE DEF a
  <2> QED
    BY <1>1, <2>2
<1>4. b \in Seq(T) /\ Len(b) = n - m /\ \A i \in 1 .. (n - m) : b[i] = s[m + i]
  <2>1. \A i \in m + 1 .. n : s[i] \in T
    BY <1>0, <1>1
  <2>2. /\ b \in Seq(T) /\ Len(b) = IF m + 1 <= n THEN n - (m + 1) + 1 ELSE 0
        /\ \A i \in 1 .. n - (m + 1) + 1 : b[i] = s[(m + 1) + i - 1]
    BY <1>1, <2>1, SubSeqProperties
  <2> HIDE DEF b
  <2> QED
    BY <1>1, <2>2
<1>5. <<x>> \in Seq(T) /\ Len(<<x>>) = 1 /\ <<x>>[1] = x
  OBVIOUS
<1> HIDE DEF a, b
<1>6. /\ ax \in Seq(T) /\ Len(ax) = m + 1
      /\ \A i \in 1 .. m + 1 : ax[i] = IF i <= m THEN a[i] ELSE <<x>>[i - m]
  BY <1>3, <1>5, ConcatProperties
<1> HIDE DEF ax
<1>7. /\ w \in Seq(T) /\ Len(w) = (m + 1) + (n - m)
      /\ \A i \in 1 .. (m + 1) + (n - m) : w[i] = IF i <= m + 1 THEN ax[i] ELSE b[i - (m + 1)]
  <2>1. /\ ax \o b \in Seq(T) /\ Len(ax \o b) = Len(ax) + Len(b)
        /\ \A i \in 1 .. Len(ax) + Len(b) :
             (ax \o b)[i] = IF i <= Len(ax) THEN ax[i] ELSE b[i - Len(ax)]
    BY <1>4, <1>6, ConcatProperties
  <2>2. Len(ax) = m + 1 /\ Len(b) = n - m
    BY <1>4, <1>6
  <2> QED
    BY <1>2, <2>1, <2>2
<1>8. (m + 1) + (n - m) = n + 1
  BY <1>1
<1>9. ASSUME NEW i \in 1 .. m
      PROVE  w[i] = s[i]
  <2>1. i \in 1 .. m + 1 /\ i <= m + 1 /\ i <= m /\ i \in 1 .. n + 1
    BY <1>1
  <2> QED
    BY <1>3, <1>6, <1>7, <1>8, <2>1
<1>10. w[m + 1] = x
  <2>1. m + 1 \in 1 .. m + 1 /\ ~(m + 1 <= m) /\ (m + 1) - m = 1 /\ m + 1 \in 1 .. n + 1
    BY <1>1
  <2> QED
    <3>1. w[m + 1] = ax[m + 1]
      BY <1>7, <1>8, <2>1
    <3>2. ax[m + 1] = <<x>>[(m + 1) - m]
      BY <1>6, <2>1
    <3> QED
      BY <1>5, <2>1, <3>1, <3>2
<1>11. ASSUME NEW i \in (m + 2) .. (n + 1)
       PROVE  w[i] = s[i - 1]
  <2>1. /\ i \in 1 .. (m + 1) + (n - m) /\ ~(i <= m + 1) /\ i - (m + 1) \in 1 .. (n - m)
        /\ m + (i - (m + 1)) = i - 1
    BY <1>1
  <2>2. w[i] = b[i - (m + 1)]
    BY <1>7, <2>1
  <2>3. b[i - (m + 1)] = s[m + (i - (m + 1))]
    BY <1>4, <2>1
  <2> QED
    BY <2>1, <2>2, <2>3
<1> QED
  BY <1>7, <1>8, <1>9, <1>10, <1>11

\* The first n items are all admin uploads, or none of them is.
Alike(items, n) == \A i, j \in 1 .. n : IsAdmin(items[i]) <=> IsAdmin(items[j])

\* p says where the elements of s were among the first n items.
Rearranges(p, s, items, n) ==
  /\ p \in [1 .. n -> 1 .. n]
  /\ \A i, j \in 1 .. n : p[i] = p[j] => i = j
  /\ \A i \in 1 .. n : \E k \in 1 .. n : p[k] = i
  /\ \A k \in 1 .. n : s[k] = items[p[k]]

\* What the sort has made of the first n items.
Arranged(s, items, n) ==
  /\ s \in Seq(Range(items)) /\ Len(s) = n
  /\ \E p : Rearranges(p, s, items, n)
  /\ \A i \in 1 .. n - 1 : ~CompareItems(s[i + 1], s[i])
  /\ Alike(items, n) => \A i, j \in 1 .. n : i < j => ~CompareItems(s[j], s[i])
  /\ \A i, j \in 1 .. n :
       i < j /\ IsAdmin(s[i]) /\ IsAdmin(s[j]) => s[i].priority >= s[j].priority

AdminsFirst(items) ==
  \A i, j \in DOMAIN items : i < j /\ IsAdmin(items[j]) => IsAdmin(items[i])

Sortable(items, n) ==
  /\ n \in Nat /\ Len(items) = n /\ DOMAIN items = 1 .. n
  /\ \A i \in 1 .. n : Comparable(items[i])
  /\ AdminsFirst(items)

\* One more item is put in its place.
LEMMA InsertArranges ==
  ASSUME NEW items, NEW top, Sortable(items, top), NEW n \in Nat, n < top,
         NEW s, Arranged(s, items, n)
  PROVE  Arranged(InsertAt(s, 1 + Place(s, items[n + 1]), items[n + 1]), items, n + 1)
<1> DEFINE x == items[n + 1]
           m == Place(s, x)
           w == InsertAt(s, 1 + m, x)
           T == Range(items)
<1>1. /\ top \in Nat /\ n + 1 \in 1 .. top /\ x \in T
      /\ \A i \in 1 .. n : i \in 1 .. top
  BY DEF Sortable, Range
<1>2. s \in Seq(T) /\ Len(s) = n /\ DOMAIN s = 1 .. n
  BY LenProperties DEF Arranged
<1>3. PICK p : Rearranges(p, s, items, n)
  BY DEF Arranged
<1>4. /\ Comparable(x) /\ \A i \in 1 .. n : Comparable(items[i])
      /\ \A k \in 1 .. n : Comparable(s[k])
  <2>1. Comparable(x) /\ \A i \in 1 .. n : Comparable(items[i])
    BY <1>1 DEF Sortable
  <2> QED
    BY <1>3, <2>1 DEF Rearranges
<1>5. /\ m \in 0 .. n
      /\ \A i \in (m + 1) .. n : CompareItems(x, s[i])
      /\ m # 0 => ~CompareItems(x, s[m])
  BY <1>2, PlaceIs
<1>6. /\ w \in Seq(T) /\ Len(w) = n + 1
      /\ \A i \in 1 .. m : w[i] = s[i]
      /\ w[m + 1] = x
      /\ \A i \in (m + 2) .. (n + 1) : w[i] = s[i - 1]
  <2>1. w = InsertAt(s, 1 + m, x)
    OBVIOUS
  <2>2. m \in 0 .. Len(s)
    BY <1>2, <1>5
  <2> HIDE DEF m, T, x, w
  <2>3. s \in Seq(T) /\ x \in T
    BY <1>1, <1>2
  <2>4. w \in Seq(T)
    BY <2>1, <2>2, <2>3, InsertedAt, ZenonT(30)
  <2>5. Len(w) = Len(s) + 1
    BY <2>1, <2>2, <2>3, InsertedAt, SMTT(30)
  <2>6. w[m + 1] = x
    BY <2>1, <2>2, <2>3, InsertedAt, SMTT(30)
  <2>7. \A i \in 1 .. m : w[i] = s[i]
    BY <2>1, <2>2, <2>3, InsertedAt, SMTT(30)
  <2>8. \A i \in (m + 2) .. (Len(s) + 1) : w[i] = s[i - 1]
    BY <2>1, <2>2, <2>3, InsertedAt, SMTT(30)
  <2> QED
    BY <1>2, <2>4, <2>5, <2>6, <2>7, <2>8
<1> HIDE DEF m, w, T
\* Where the elements of w come from.
<1>7. ASSUME NEW k \in 1 .. n + 1
      PROVE  \/ k = m + 1 /\ w[k] = x
             \/ k <= m /\ k \in 1 .. n /\ w[k] = s[k]
             \/ k >= m + 2 /\ k - 1 \in 1 .. n /\ w[k] = s[k - 1]
  <2>1. k = m + 1 \/ k \in 1 .. m \/ k \in (m + 2) .. (n + 1)
    BY <1>5
  <2>2. k \in 1 .. m => k <= m /\ k \in 1 .. n
    BY <1>5
  <2>3. k \in (m + 2) .. (n + 1) => k >= m + 2 /\ k - 1 \in 1 .. n
    BY <1>5
  <2> QED
    BY <1>6, <2>1, <2>2, <2>3
<1> DEFINE q == [k \in 1 .. n + 1 |-> IF k = m + 1 THEN n + 1
                                       ELSE IF k <= m THEN p[k] ELSE p[k - 1]]
<1>8. Rearranges(q, w, items, n + 1)
  <2>1. /\ p \in [1 .. n -> 1 .. n]
        /\ \A i, j \in 1 .. n : p[i] = p[j] => i = j
        /\ \A i \in 1 .. n : \E k \in 1 .. n : p[k] = i
        /\ \A k \in 1 .. n : s[k] = items[p[k]]
    BY <1>3 DEF Rearranges
  <2>2. ASSUME NEW k \in 1 .. n + 1
        PROVE  \/ k = m + 1 /\ q[k] = n + 1 /\ w[k] = x
               \/ k <= m /\ k \in 1 .. n /\ q[k] = p[k] /\ q[k] \in 1 .. n /\ w[k] = s[k]
               \/ /\ k >= m + 2 /\ k - 1 \in 1 .. n /\ q[k] = p[k - 1] /\ q[k] \in 1 .. n
                  /\ w[k] = s[k - 1]
    <3>1. CASE k = m + 1
      BY <1>6, <3>1
    <3>2. CASE k <= m /\ k \in 1 .. n /\ w[k] = s[k]
      <4>1. k # m + 1
        BY <1>5, <3>2
      <4> QED
        BY <2>1, <3>2, <4>1
    <3>3. CASE k >= m + 2 /\ k - 1 \in 1 .. n /\ w[k] = s[k - 1]
      <4>1. k # m + 1 /\ ~(k <= m)
        BY <1>5, <3>3
      <4> QED
        BY <2>1, <3>3, <4>1
    <3> QED
      BY <1>7, <3>1, <3>2, <3>3
  <2>3. q \in [1 .. n + 1 -> 1 .. n + 1]
    <3>1. \A k \in 1 .. n + 1 : q[k] \in 1 .. n + 1
      <4> HIDE DEF q
      <4> QED
        BY <2>2
    <3> QED
      BY <3>1
  <2> HIDE DEF q
  <2>4. ASSUME NEW i \in 1 .. n + 1, NEW j \in 1 .. n + 1, q[i] = q[j]
        PROVE  i = j
    <3>1. n + 1 \notin 1 .. n
      OBVIOUS
    <3>2. \A k, l \in 1 .. n + 1 : k <= m /\ k \in 1 .. n /\ l >= m + 2 /\ l - 1 \in 1 .. n
                                     => p[k] # p[l - 1]
      <4> SUFFICES ASSUME NEW k \in 1 .. n + 1, NEW l \in 1 .. n + 1, k <= m, k \in 1 .. n,
                          l >= m + 2, l - 1 \in 1 .. n
                   PROVE  p[k] # p[l - 1]
        OBVIOUS
      <4>1. k # l - 1
        BY <1>5
      <4> QED
        BY <2>1, <4>1
    <3>3. CASE i = m + 1 \/ j = m + 1
      <4>1. q[m + 1] = n + 1 /\ m + 1 \in 1 .. n + 1
        BY <1>5, <2>2, <3>3
      <4>2. \A k \in 1 .. n + 1 : k # m + 1 => q[k] \in 1 .. n
        BY <2>2
      <4> QED
        BY <2>4, <3>1, <3>3, <4>1, <4>2
    <3>4. CASE i <= m /\ i \in 1 .. n /\ q[i] = p[i]
      <4>1. CASE j <= m /\ j \in 1 .. n /\ q[j] = p[j]
        BY <2>1, <2>4, <3>4, <4>1
      <4>2. CASE j >= m + 2 /\ j - 1 \in 1 .. n /\ q[j] = p[j - 1]
        BY <2>4, <3>2, <3>4, <4>2
      <4> QED
        BY <2>2, <3>3, <4>1, <4>2
    <3>5. CASE i >= m + 2 /\ i - 1 \in 1 .. n /\ q[i] = p[i - 1]
      <4>1. CASE j <= m /\ j \in 1 .. n /\ q[j] = p[j]
        BY <2>4, <3>2, <3>5, <4>1
      <4>2. CASE j >= m + 2 /\ j - 1 \in 1 .. n /\ q[j] = p[j - 1]
        <5>1. p[i - 1] = p[j - 1]
          BY <2>4, <3>5, <4>2
        <5>2. \A k, l \in 1 .. n : p[k] = p[l] => k = l
          BY <2>1
        <5>3. i - 1 = j - 1
          BY <3>5, <4>2, <5>1, <5>2
        <5> QED
          BY <5>3
      <4> QED
        BY <2>2, <3>3, <4>1, <4>2
    <3> QED
      BY <2>2, <3>3, <3>4, <3>5
  <2>5. ASSUME NEW i \in 1 .. n + 1
        PROVE  \E k \in 1 .. n + 1 : q[k] = i
    <3>1. CASE i = n + 1
      <4>1. m + 1 \in 1 .. n + 1 /\ ~(m + 1 <= m) /\ ~(m + 1 >= m + 2)
        BY <1>5
      <4> QED
        BY <2>2, <3>1, <4>1
    <3>2. CASE i # n + 1
      <4>1. PICK k \in 1 .. n : p[k] = i
        BY <2>1, <3>2
      <4>2. CASE k <= m
        <5>1. k \in 1 .. n + 1 /\ k # m + 1 /\ ~(k >= m + 2)
          BY <1>5, <4>2
        <5> QED
          BY <2>2, <4>1, <5>1
      <4>3. CASE ~(k <= m)
        <5>1. /\ k + 1 \in 1 .. n + 1 /\ k + 1 # m + 1 /\ ~(k + 1 <= m) /\ (k + 1) - 1 = k
          BY <1>5, <4>3
        <5> QED
          BY <2>2, <4>1, <5>1
      <4> QED
        BY <4>2, <4>3
    <3> QED
      BY <3>1, <3>2
  <2>6. ASSUME NEW k \in 1 .. n + 1
        PROVE  w[k] = items[q[k]]
    BY <2>1, <2>2
  <2> QED
    BY <2>3, <2>4, <2>5, <2>6 DEF Rearranges
<1> HIDE DEF q
<1>9. ASSUME NEW i \in 1 .. (n + 1) - 1
      PROVE  ~CompareItems(w[i + 1], w[i])
  <2>1. \A k \in 1 .. n - 1 : ~CompareItems(s[k + 1], s[k])
    BY DEF Arranged
  <2>2. CASE i + 1 <= m
    <3>1. i \in 1 .. m /\ i + 1 \in 1 .. m /\ i \in 1 .. n - 1
      BY <1>5, <2>2
    <3> QED
      BY <1>6, <2>1, <3>1
  <2>3. CASE i = m
    <3>1. i \in 1 .. m /\ m # 0
      BY <1>5, <2>3
    <3> QED
      BY <1>5, <1>6, <2>3, <3>1
  <2>4. CASE i = m + 1
    <3>1. i + 1 \in (m + 2) .. (n + 1) /\ (i + 1) - 1 = i /\ i \in (m + 1) .. n /\ i \in 1 .. n
      BY <1>5, <2>4
    <3>2. w[i] = x /\ w[i + 1] = s[i] /\ CompareItems(x, s[i])
      BY <1>5, <1>6, <2>4, <3>1
    <3> QED
      BY <1>4, <3>1, <3>2, CompareAsymmetric
  <2>5. CASE i >= m + 2
    <3>1. /\ i \in (m + 2) .. (n + 1) /\ i + 1 \in (m + 2) .. (n + 1)
          /\ (i + 1) - 1 = (i - 1) + 1 /\ i - 1 \in 1 .. n - 1
      BY <1>5, <2>5
    <3>2. w[i] = s[i - 1] /\ w[i + 1] = s[(i - 1) + 1]
      BY <1>6, <3>1
    <3> QED
      BY <2>1, <3>1, <3>2
  <2>6. i + 1 <= m \/ i = m \/ i = m + 1 \/ i >= m + 2
    BY <1>5
  <2> QED
    BY <2>2, <2>3, <2>4, <2>5, <2>6
<1>10. ASSUME Alike(items, n + 1), NEW i \in 1 .. n + 1, NEW j \in 1 .. n + 1, i < j
       PROVE  ~CompareItems(w[j], w[i])
  <2>1. \A k, l \in 1 .. n : k < l => ~CompareItems(s[l], s[k])
    <3>1. Alike(items, n)
      BY <1>10 DEF Alike
    <3> QED
      BY <3>1 DEF Arranged
  <2>2. \A k \in 1 .. n : IsAdmin(s[k]) <=> IsAdmin(x)
    <3>1. \A k \in 1 .. n : s[k] = items[p[k]] /\ p[k] \in 1 .. n + 1
      BY <1>3 DEF Rearranges
    <3>2. n + 1 \in 1 .. n + 1
      OBVIOUS
    <3> QED
      BY <1>10, <3>1, <3>2 DEF Alike
  <2>3. CASE i = m + 1
    <3>1. j >= m + 2 /\ j - 1 \in 1 .. n /\ w[j] = s[j - 1] /\ w[i] = x
      BY <1>5, <1>6, <1>7, <1>10, <2>3
    <3>2. j - 1 \in (m + 1) .. n
      BY <1>5, <3>1
    <3> QED
      BY <1>4, <1>5, <3>1, <3>2, CompareAsymmetric
  <2>4. CASE j = m + 1
    <3>1. i <= m /\ i \in 1 .. n /\ w[i] = s[i] /\ w[j] = x /\ m # 0 /\ m \in 1 .. n
      BY <1>5, <1>6, <1>7, <1>10, <2>4
    <3>2. ~CompareItems(x, s[m])
      BY <1>5, <3>1
    <3>3. CASE i = m
      BY <3>1, <3>2, <3>3
    <3>4. CASE i # m
      <4>1. ~CompareItems(s[m], s[i])
        BY <2>1, <3>1, <3>4
      <4> QED
        BY <1>4, <2>2, <3>1, <3>2, <4>1, CompareTransitive
    <3> QED
      BY <3>3, <3>4
  <2>5. CASE i # m + 1 /\ j # m + 1
    <3>1. \E k, l \in 1 .. n : k < l /\ w[i] = s[k] /\ w[j] = s[l]
      <4>1. \/ i <= m /\ i \in 1 .. n /\ w[i] = s[i]
            \/ i >= m + 2 /\ i - 1 \in 1 .. n /\ w[i] = s[i - 1]
        BY <1>7, <2>5
      <4>2. \/ j <= m /\ j \in 1 .. n /\ w[j] = s[j]
            \/ j >= m + 2 /\ j - 1 \in 1 .. n /\ w[j] = s[j - 1]
        BY <1>7, <2>5
      <4>3. i < j /\ i - 1 < j - 1 /\ (i <= m /\ j >= m + 2 => i < j - 1)
            /\ ~(i >= m + 2 /\ j <= m)
        BY <1>5, <1>10
      <4> QED
        BY <4>1, <4>2, <4>3
    <3> QED
      BY <2>1, <3>1
  <2> QED
    BY <2>3, <2>4, <2>5
<1>11. ASSUME NEW i \in 1 .. n + 1, NEW j \in 1 .. n + 1, i < j, IsAdmin(w[i]), IsAdmin(w[j])
       PROVE  w[i].priority >= w[j].priority
  <2>1. CASE IsAdmin(x)
    <3>1. \A k \in 1 .. n + 1 : IsAdmin(items[k])
      <4>1. ASSUME NEW k \in 1 .. n + 1
            PROVE  IsAdmin(items[k])
        <5>1. k \in DOMAIN items /\ n + 1 \in DOMAIN items /\ (k = n + 1 \/ k < n + 1)
          BY <1>1 DEF Sortable
        <5> QED
          BY <2>1, <5>1 DEF Sortable, AdminsFirst
      <4> QED
        BY <4>1
    <3>2. ~CompareItems(w[j], w[i])
      BY <1>10, <1>11, <3>1 DEF Alike
    <3>3. Comparable(w[i]) /\ Comparable(w[j])
      BY <1>4, <1>7
    <3> QED
      BY <1>11, <3>2, <3>3, CompareMeans
  <2>2. CASE ~IsAdmin(x)
    <3>1. \E k, l \in 1 .. n : k < l /\ w[i] = s[k] /\ w[j] = s[l]
      <4>1. \/ i <= m /\ i \in 1 .. n /\ w[i] = s[i]
            \/ i >= m + 2 /\ i - 1 \in 1 .. n /\ w[i] = s[i - 1]
        BY <1>7, <1>11, <2>2
      <4>2. \/ j <= m /\ j \in 1 .. n /\ w[j] = s[j]
            \/ j >= m + 2 /\ j - 1 \in 1 .. n /\ w[j] = s[j - 1]
        BY <1>7, <1>11, <2>2
      <4>3. i < j /\ i - 1 < j - 1 /\ (i <= m /\ j >= m + 2 => i < j - 1)
            /\ ~(i >= m + 2 /\ j <= m)
        BY <1>5, <1>11
      <4> QED
        BY <4>1, <4>2, <4>3
    <3> QED
      BY <1>11, <3>1 DEF Arranged
  <2> QED
    BY <2>1, <2>2
<1>12. Arranged(w, items, n + 1)
  BY <1>6, <1>8, <1>9, <1>10, <1>11 DEF Arranged, T
<1> QED
  BY <1>12 DEF w, m

\* The sort after n items.
OneMore(items, n, s) ==
  IF n = 0 THEN <<>> ELSE InsertAt(s, 1 + Place(s, items[n]), items[n])

Sorts(items, f) == f = [n \in 0 .. Len(items) |-> OneMore(items, n, f[n - 1])]

\* The sort, step by step, exists: by induction on the number of items.
LEMMA SortExists ==
  ASSUME NEW items, Len(items) \in Nat
  PROVE  \E f : Sorts(items, f)
<1> DEFINE Solves(g, m) == \A n \in 0 .. m : g[n] = OneMore(items, n, g[n - 1])
           G == {m \in Nat : \E g : Solves(g, m)}
<1>1. 0 \in G
  <2> DEFINE g == [n \in {0} |-> <<>>]
  <2>1. Solves(g, 0)
    BY DEF OneMore
  <2> QED
    BY <2>1
<1>2. ASSUME NEW m \in Nat, m \in G
      PROVE  m + 1 \in G
  <2>1. PICK g : Solves(g, m)
    BY <1>2
  <2> DEFINE h == [n \in 0 .. m + 1 |-> IF n = m + 1 THEN OneMore(items, m + 1, g[m]) ELSE g[n]]
  <2>2. h[m + 1] = OneMore(items, m + 1, g[m]) /\ \A n \in 0 .. m : h[n] = g[n]
    OBVIOUS
  <2> HIDE DEF h
  <2>3. ASSUME NEW n \in 0 .. m
        PROVE  h[n] = OneMore(items, n, h[n - 1])
    <3>1. CASE n = 0
      BY <2>1, <2>2, <3>1 DEF OneMore
    <3>2. CASE n # 0
      <4>1. n - 1 \in 0 .. m
        BY <3>2
      <4> QED
        BY <2>1, <2>2, <4>1
    <3> QED
      BY <3>1, <3>2
  <2>4. h[m + 1] = OneMore(items, m + 1, h[(m + 1) - 1])
    BY <2>2
  <2>5. Solves(h, m + 1)
    BY <2>3, <2>4
  <2> QED
    BY <2>5
<1> HIDE DEF G
<1>3. Len(items) \in G
  BY <1>1, <1>2, Induction
<1>4. PICK g : Solves(g, Len(items))
  BY <1>3 DEF G
<1> DEFINE f == [n \in 0 .. Len(items) |-> g[n]]
<1>5. \A n \in 0 .. Len(items) : f[n] = g[n]
  OBVIOUS
<1>6. ASSUME NEW n \in 0 .. Len(items)
      PROVE  g[n] = OneMore(items, n, f[n - 1])
  <2>1. CASE n = 0
    BY <1>4, <2>1 DEF OneMore
  <2>2. CASE n # 0
    <3>1. n - 1 \in 0 .. Len(items)
      BY <2>2
    <3> QED
      BY <1>4, <1>5, <3>1
  <2> QED
    BY <2>1, <2>2
<1>7. Sorts(items, f)
  BY <1>6 DEF Sorts
<1> QED
  BY <1>7

\* The sort arranges all items.
LEMMA SortedIs ==
  ASSUME NEW items, NEW top, Sortable(items, top)
  PROVE  Arranged(Sorted(items), items, top)
<1> DEFINE f == CHOOSE g : Sorts(items, g)
<1>1. top \in Nat /\ Len(items) = top
  BY DEF Sortable
<1>2. Sorts(items, f)
  BY <1>1, SortExists
<1>3. Sorted(items) = f[top]
  BY <1>1 DEF Sorted, Sorts, OneMore, Place
<1> HIDE DEF f
<1>4. \A n \in 0 .. top : f[n] = OneMore(items, n, f[n - 1])
  BY <1>1, <1>2 DEF Sorts
<1> DEFINE G == {n \in Nat : n <= top => Arranged(f[n], items, n)}
<1>5. 0 \in G
  <2>1. f[0] = <<>>
    BY <1>1, <1>4 DEF OneMore
  <2>2. <<>> \in Seq(Range(items)) /\ Len(<<>>) = 0
    OBVIOUS
  <2>3. \E p : Rearranges(p, <<>>, items, 0)
    <3>1. Rearranges([k \in 1 .. 0 |-> k], <<>>, items, 0)
      BY DEF Rearranges
    <3> QED
      BY <3>1
  <2>4. Arranged(<<>>, items, 0)
    BY <2>2, <2>3 DEF Arranged
  <2> QED
    BY <2>1, <2>4
<1>6. ASSUME NEW n \in Nat, n \in G
      PROVE  n + 1 \in G
  <2> SUFFICES ASSUME n + 1 <= top
               PROVE  Arranged(f[n + 1], items, n + 1)
    OBVIOUS
  <2>1. n < top /\ n <= top /\ n + 1 \in 0 .. top /\ n + 1 # 0 /\ (n + 1) - 1 = n
    BY <1>1
  <2>2. Arranged(f[n], items, n)
    BY <1>6, <2>1
  <2>3. f[n + 1] = InsertAt(f[n], 1 + Place(f[n], items[n + 1]), items[n + 1])
    BY <1>4, <2>1 DEF OneMore
  <2> QED
    BY <2>1, <2>2, <2>3, InsertArranges
<1> HIDE DEF G
<1>7. top \in G
  BY <1>1, <1>5, <1>6, Induction
<1> QED
  BY <1>1, <1>3, <1>7 DEF G

--------------------------------------------------------------------------------
(* Lists of items.                                                         *)

\* A list is a sequence; what is in it is told by Items.
List(s) == Len(s) \in Nat /\ s \in [1 .. Len(s) -> Items(s)]

\* No two items stand for the same.
Distinct(s) ==
  \A i, j \in DOMAIN s : RecommendationKey(s[i]) = RecommendationKey(s[j]) => i = j

\* Any function on 1 .. n is a list.
LEMMA ListsAre ==
  ASSUME NEW s, NEW n \in Nat, NEW T, s \in [1 .. n -> T]
  PROVE  List(s) /\ Len(s) = n /\ DOMAIN s = 1 .. n /\ Items(s) \subseteq T /\ s \in Seq(T)
<1>1. Len(s) = n /\ DOMAIN s = 1 .. n /\ s \in Seq(T)
  OBVIOUS
<1>2. s \in [1 .. n -> Items(s)]
  BY <1>1 DEF Items
<1>3. Items(s) \subseteq T
  BY <1>1 DEF Items
<1> QED
  BY <1>1, <1>2, <1>3 DEF List

\* A selection of a list.
LEMMA PickLists ==
  ASSUME NEW s, List(s), NEW P, P \subseteq DOMAIN s
  PROVE  /\ List(Pick(s, P)) /\ Items(Pick(s, P)) = {s[i] : i \in P}
         /\ Distinct(s) => Distinct(Pick(s, P))
<1> DEFINE w == Pick(s, P)
           n == Len(s)
<1>1. n \in Nat /\ DOMAIN s = 1 .. n
  BY DEF List
<1>2. IsFiniteSet(P) /\ \A i \in P : i \in Nat
  <2>1. IsFiniteSet(1 .. n)
    BY <1>1, FS_Interval
  <2>2. IsFiniteSet(P)
    BY <1>1, <2>1, FS_Subset
  <2> QED
    BY <1>1, <2>2
<1>3. PICK m, p : Picked(w, s, P, m, p)
  BY <1>2, PickIs
<1>4. /\ m \in Nat /\ p \in [1 .. m -> P]
      /\ Len(w) = m /\ DOMAIN w = 1 .. m
      /\ \A k \in 1 .. m : w[k] = s[p[k]]
      /\ \A j, k \in 1 .. m : j < k => p[j] < p[k]
      /\ \A i \in P : \E k \in 1 .. m : p[k] = i
  BY <1>3 DEF Picked
<1>5. w = [k \in 1 .. m |-> w[k]]
  <2>1. w = [k \in 1 .. Cardinality(P) |-> w[k]]
    BY DEF Pick
  <2>2. DOMAIN w = 1 .. Cardinality(P)
    BY <2>1
  <2> HIDE DEF w
  <2> QED
    BY <1>4, <2>1, <2>2
<1> HIDE DEF w
<1>6. List(w)
  <2>1. \A k \in 1 .. m : w[k] \in Items(w)
    BY <1>4 DEF Items
  <2>2. w \in [1 .. m -> Items(w)]
    BY <1>5, <2>1
  <2> QED
    BY <1>4, <2>2 DEF List
<1>7. Items(w) = {s[i] : i \in P}
  BY <1>4 DEF Items
<1>8. ASSUME Distinct(s)
      PROVE  Distinct(w)
  <2> SUFFICES ASSUME NEW i \in 1 .. m, NEW j \in 1 .. m,
                      RecommendationKey(w[i]) = RecommendationKey(w[j])
               PROVE  i = j
    BY <1>4 DEF Distinct
  <2>1. p[i] \in DOMAIN s /\ p[j] \in DOMAIN s /\ w[i] = s[p[i]] /\ w[j] = s[p[j]]
    BY <1>4
  <2>2. p[i] = p[j]
    BY <1>8, <2>1 DEF Distinct
  <2>3. p[i] \in Nat
    BY <1>2, <1>4
  <2>4. ~(i < j) /\ ~(j < i)
    BY <1>4, <2>2, <2>3
  <2> QED
    BY <2>4
<1> QED
  BY <1>6, <1>7, <1>8 DEF w

\* One list after another.
LEMMA ConcatLists ==
  ASSUME NEW u, NEW v, List(u), List(v)
  PROVE  /\ List(u \o v) /\ Items(u \o v) = Items(u) \cup Items(v)
         /\ Len(u \o v) = Len(u) + Len(v)
         /\ \A i \in 1 .. Len(u) : (u \o v)[i] = u[i]
         /\ \A i \in Len(u) + 1 .. Len(u) + Len(v) : (u \o v)[i] = v[i - Len(u)]
<1> DEFINE w == u \o v
           a == Len(u)
           b == Len(v)
           T == Items(u) \cup Items(v)
<1>1. a \in Nat /\ b \in Nat /\ DOMAIN u = 1 .. a /\ DOMAIN v = 1 .. b
  BY DEF List
<1>2. u \in Seq(T) /\ v \in Seq(T)
  <2>1. u \in [1 .. a -> T] /\ v \in [1 .. b -> T]
    BY DEF List
  <2> QED
    BY <1>1, <2>1
<1>3. /\ w \in Seq(T) /\ Len(w) = a + b
      /\ \A i \in 1 .. a + b : w[i] = IF i <= a THEN u[i] ELSE v[i - a]
  BY <1>2, ConcatProperties
<1> HIDE DEF w, T
<1>4. DOMAIN w = 1 .. a + b /\ w \in [1 .. a + b -> T]
  BY <1>1, <1>3
<1>5. \A i \in 1 .. a : i \in 1 .. a + b /\ w[i] = u[i]
  BY <1>1, <1>3
<1>6. \A i \in a + 1 .. a + b : i \in 1 .. a + b /\ w[i] = v[i - a]
  BY <1>1, <1>3
<1>7. List(w)
  <2>1. a + b \in Nat
    BY <1>1
  <2> QED
    BY <1>4, <2>1, ListsAre
<1>8. Items(w) = Items(u) \cup Items(v)
  <2>1. \A x \in Items(w) : x \in Items(u) \cup Items(v)
    BY <1>3, <1>4 DEF Items, T
  <2>2. \A x \in Items(u) : x \in Items(w)
    BY <1>1, <1>4, <1>5 DEF Items
  <2>3. \A x \in Items(v) : x \in Items(w)
    <3> SUFFICES ASSUME NEW j \in 1 .. b
                 PROVE  v[j] \in Items(w)
      BY <1>1 DEF Items
    <3>1. j + a \in a + 1 .. a + b /\ (j + a) - a = j
      BY <1>1
    <3> QED
      BY <1>4, <1>6, <3>1 DEF Items
  <2> QED
    BY <2>1, <2>2, <2>3
<1> QED
  BY <1>3, <1>5, <1>6, <1>7, <1>8 DEF w

\* It shows nothing twice when the two have nothing in common.
LEMMA ConcatDistinct ==
  ASSUME NEW u, NEW v, List(u), List(v), Distinct(u), Distinct(v),
         \A x \in Items(u), y \in Items(v) : RecommendationKey(x) # RecommendationKey(y)
  PROVE  Distinct(u \o v)
<1> DEFINE w == u \o v
           a == Len(u)
           b == Len(v)
<1>1. a \in Nat /\ b \in Nat /\ DOMAIN u = 1 .. a /\ DOMAIN v = 1 .. b
  BY DEF List
<1>2. /\ List(w) /\ Len(w) = a + b
      /\ \A i \in 1 .. a : w[i] = u[i]
      /\ \A i \in a + 1 .. a + b : w[i] = v[i - a]
  BY ConcatLists
<1> HIDE DEF w
<1>3. DOMAIN w = 1 .. a + b
  BY <1>2 DEF List
<1> SUFFICES ASSUME NEW i \in 1 .. a + b, NEW j \in 1 .. a + b,
                    RecommendationKey(w[i]) = RecommendationKey(w[j])
             PROVE  i = j
  BY <1>3 DEF Distinct, w
<1>4. \A k \in 1 .. a + b : \/ k \in 1 .. a /\ w[k] = u[k] /\ w[k] \in Items(u)
                            \/ /\ k - a \in 1 .. b /\ w[k] = v[k - a] /\ w[k] \in Items(v)
  <2> SUFFICES ASSUME NEW k \in 1 .. a + b
               PROVE  \/ k \in 1 .. a /\ w[k] = u[k] /\ w[k] \in Items(u)
                      \/ k - a \in 1 .. b /\ w[k] = v[k - a] /\ w[k] \in Items(v)
    OBVIOUS
  <2>1. k \in 1 .. a \/ (k \in a + 1 .. a + b /\ k - a \in 1 .. b)
    BY <1>1
  <2> QED
    BY <1>1, <1>2, <2>1 DEF Items
<1>5. CASE i \in 1 .. a /\ w[i] = u[i] /\ w[i] \in Items(u)
  <2>1. j \in 1 .. a /\ w[j] = u[j]
    BY <1>4, <1>5
  <2> QED
    BY <1>1, <1>5, <2>1 DEF Distinct
<1>6. CASE i - a \in 1 .. b /\ w[i] = v[i - a] /\ w[i] \in Items(v)
  <2>1. j - a \in 1 .. b /\ w[j] = v[j - a]
    BY <1>4, <1>6
  <2>2. i - a = j - a
    BY <1>1, <1>6, <2>1 DEF Distinct
  <2> QED
    BY <1>1, <2>2
<1> QED
  BY <1>4, <1>5, <1>6

\* The sort loses nothing and shows nothing twice.
LEMMA ArrangedLists ==
  ASSUME NEW s, NEW items, List(items), Arranged(s, items, Len(items))
  PROVE  List(s) /\ Items(s) = Items(items) /\ (Distinct(items) => Distinct(s))
<1> DEFINE n == Len(items)
<1>1. n \in Nat /\ DOMAIN items = 1 .. n
  BY DEF List
<1>2. DOMAIN s = 1 .. n /\ Len(s) = n /\ s \in [1 .. n -> Range(items)]
  <2>1. s \in Seq(Range(items)) /\ Len(s) = n
    BY DEF Arranged
  <2> QED
    BY <2>1, LenProperties
<1>3. List(s)
  BY <1>1, <1>2, ListsAre
<1>4. PICK p : Rearranges(p, s, items, n)
  BY DEF Arranged
<1>5. /\ p \in [1 .. n -> 1 .. n]
      /\ \A i, j \in 1 .. n : p[i] = p[j] => i = j
      /\ \A i \in 1 .. n : \E k \in 1 .. n : p[k] = i
      /\ \A k \in 1 .. n : s[k] = items[p[k]]
  BY <1>4 DEF Rearranges
<1>6. Items(s) = Items(items)
  <2>1. \A k \in 1 .. n : s[k] \in Items(items)
    BY <1>1, <1>5, ZenonT(30) DEF Items
  <2>2. \A i \in 1 .. n : items[i] \in Items(s)
    <3> SUFFICES ASSUME NEW i \in 1 .. n
                 PROVE  items[i] \in Items(s)
      OBVIOUS
    <3>1. PICK k \in 1 .. n : p[k] = i
      BY <1>5
    <3> QED
      BY <1>2, <1>5, <3>1 DEF Items
  <2>3. Items(s) \subseteq Items(items)
    BY <1>2, <2>1 DEF Items
  <2>4. Items(items) \subseteq Items(s)
    BY <1>1, <2>2 DEF Items
  <2> QED
    BY <2>3, <2>4
<1>7. ASSUME Distinct(items)
      PROVE  Distinct(s)
  <2> SUFFICES ASSUME NEW i \in 1 .. n, NEW j \in 1 .. n,
                      RecommendationKey(s[i]) = RecommendationKey(s[j])
               PROVE  i = j
    BY <1>2 DEF Distinct
  <2>1. p[i] \in DOMAIN items /\ p[j] \in DOMAIN items /\ s[i] = items[p[i]] /\ s[j] = items[p[j]]
    BY <1>1, <1>5
  <2>2. p[i] = p[j]
    BY <1>7, <2>1 DEF Distinct
  <2> QED
    BY <1>5, <2>2
<1> QED
  BY <1>3, <1>6, <1>7

--------------------------------------------------------------------------------
(* Items.                                                                  *)

Columns == {"id", "source", "ref", "sub", "subject", "eligible", "priority", "score",
            "created", "updated", "group", "rank"}

\* What an item is before the selection looks at it.
Whole(x) ==
  /\ DOMAIN x = Columns /\ Comparable(x) /\ x.group = 4

ProjectItem(x) ==
  /\ Whole(x) /\ x.id \in Project
  /\ x.source = StartProject[x.id].source /\ x.ref = StartProject[x.id].ref
  /\ x.sub = StartProject[x.id].sub /\ x.subject = StartProject[x.id].subject

TopicItem(x) ==
  /\ Whole(x) /\ x.id \in Topic /\ x.ref = x.id /\ x.source = "system_topic"
  /\ x.sub \in SubSubject /\ x.subject = SubjectOf[x.sub]

OneOfEach(s) == \A i, j \in DOMAIN s : s[i].id = s[j].id => i = j

Curated(s) == List(s) /\ OneOfEach(s) /\ \A x \in Items(s) : ProjectItem(x)
Topics(s)  == List(s) /\ OneOfEach(s) /\ \A x \in Items(s) : TopicItem(x)

\* In a list are the items at its positions.
LEMMA ItemsOf ==
  ASSUME NEW s
  PROVE  /\ \A i \in DOMAIN s : s[i] \in Items(s)
         /\ \A x \in Items(s) : \E i \in DOMAIN s : x = s[i]
BY DEF Items

\* Keys are equal part by part.
LEMMA SameKey ==
  ASSUME NEW a, NEW b, RecommendationKey(a) = RecommendationKey(b)
  PROVE  a.source = b.source /\ ResolveSourceReference(a) = ResolveSourceReference(b)
BY DEF RecommendationKey, MakeSourceKey

\* A project stands for what it refers to, or for itself.
LEMMA CuratedDistinct ==
  ASSUME NEW s, Curated(s)
  PROVE  Distinct(s)
<1> SUFFICES ASSUME NEW i \in DOMAIN s, NEW j \in DOMAIN s,
                    RecommendationKey(s[i]) = RecommendationKey(s[j])
             PROVE  i = j
  BY DEF Distinct
<1> DEFINE a == s[i]
           b == s[j]
<1>1. ProjectItem(a) /\ ProjectItem(b)
  BY ItemsOf DEF Curated
<1>2. a.source = b.source /\ ResolveSourceReference(a) = ResolveSourceReference(b)
  BY SameKey
<1> HIDE DEF a, b
<1>3. a.id = b.id
  <2>1. /\ \A p \in Project : StartProject[p].ref \notin Project
        /\ \A p, q \in Project :
             StartProject[p].source = StartProject[q].source /\ StartProject[p].ref # NoOne
               => (StartProject[p].ref = StartProject[q].ref => p = q)
    BY RecommendationAssumption
  <2>2. /\ a.id \in Project /\ b.id \in Project
        /\ StartProject[a.id].source = StartProject[b.id].source
        /\ a.ref = StartProject[a.id].ref /\ b.ref = StartProject[b.id].ref
    BY <1>1, <1>2 DEF ProjectItem
  <2>3. CASE a.ref # NoOne /\ b.ref # NoOne
    BY <1>2, <2>1, <2>2, <2>3 DEF ResolveSourceReference
  <2>4. CASE a.ref = NoOne \/ b.ref = NoOne
    BY <1>2, <2>1, <2>2, <2>4 DEF ResolveSourceReference
  <2> QED
    BY <2>3, <2>4
<1> QED
  BY <1>3 DEF Curated, OneOfEach, a, b

\* A topic stands for itself.
LEMMA TopicsDistinct ==
  ASSUME NEW s, Topics(s)
  PROVE  Distinct(s)
<1> SUFFICES ASSUME NEW i \in DOMAIN s, NEW j \in DOMAIN s,
                    RecommendationKey(s[i]) = RecommendationKey(s[j])
             PROVE  i = j
  BY DEF Distinct
<1> DEFINE a == s[i]
           b == s[j]
<1>1. TopicItem(a) /\ TopicItem(b)
  BY ItemsOf DEF Topics
<1>2. ResolveSourceReference(a) = ResolveSourceReference(b)
  BY SameKey
<1> HIDE DEF a, b
<1>3. a.id = b.id
  BY <1>1, <1>2, RecommendationAssumption DEF TopicItem, ResolveSourceReference
<1> QED
  BY <1>3 DEF Topics, OneOfEach, a, b

--------------------------------------------------------------------------------
(* System items.                                                           *)

\* x, a topic, is not shown: the project y stands for it.
StandsFor(y, x) == IsSystem(y) /\ y.ref # NoOne /\ y.source = "system_topic" /\ y.ref = x.ref

\* The suppressed keys are those of the projects that stand for a topic.
LEMMA SuppressedAre ==
  ASSUME NEW curated, NEW x
  PROVE  MakeSourceKey("system_topic", x.ref) \in SuppressedSourceKeys(curated)
           <=> \E y \in Items(curated) : StandsFor(y, x)
<1>1. \A y : MakeSourceKey("system_topic", x.ref) = MakeSourceKey(y.source, y.ref)
               <=> y.source = "system_topic" /\ y.ref = x.ref
  BY DEF MakeSourceKey
<1> DEFINE D == {j \in DOMAIN curated : IsSystem(curated[j]) /\ curated[j].ref # NoOne}
<1>2. SuppressedSourceKeys(curated)
        = {MakeSourceKey(curated[i].source, curated[i].ref) : i \in D}
  BY DEF SuppressedSourceKeys
<1>3. ASSUME NEW y \in Items(curated), StandsFor(y, x)
      PROVE  MakeSourceKey("system_topic", x.ref) \in SuppressedSourceKeys(curated)
  <2>1. PICK i \in DOMAIN curated : y = curated[i]
    BY ItemsOf
  <2>2. i \in D /\ MakeSourceKey("system_topic", x.ref) = MakeSourceKey(y.source, y.ref)
    BY <1>1, <1>3, <2>1 DEF StandsFor
  <2> QED
    BY <1>2, <2>1, <2>2
<1>4. ASSUME MakeSourceKey("system_topic", x.ref) \in SuppressedSourceKeys(curated)
      PROVE  \E y \in Items(curated) : StandsFor(y, x)
  <2>1. PICK i \in D : MakeSourceKey("system_topic", x.ref)
                         = MakeSourceKey(curated[i].source, curated[i].ref)
    BY <1>2, <1>4
  <2>2. StandsFor(curated[i], x) /\ curated[i] \in Items(curated)
    BY <1>1, <2>1, ItemsOf DEF StandsFor
  <2> QED
    BY <2>2
<1> QED
  BY <1>3, <1>4

\* No system item is there twice, and a topic is missing only when a project stands for it.
LEMMA SystemItemsAre ==
  ASSUME NEW curated, NEW topics, Curated(curated), Topics(topics)
  PROVE  /\ List(SystemItems(curated, topics)) /\ Distinct(SystemItems(curated, topics))
         /\ Items(SystemItems(curated, topics)) =
              {x \in Items(curated) : IsSystem(x)}
                \cup {x \in Items(topics) : ~\E y \in Items(curated) : StandsFor(y, x)}
<1> DEFINE P == {i \in DOMAIN curated : IsSystem(curated[i])}
           Q == {i \in DOMAIN topics : MakeSourceKey("system_topic", topics[i].ref)
                                          \notin SuppressedSourceKeys(curated)}
           u == Pick(curated, P)
           v == Pick(topics, Q)
           A == {x \in Items(curated) : IsSystem(x)}
           B == {x \in Items(topics) : ~\E y \in Items(curated) : StandsFor(y, x)}
<1>1. SystemItems(curated, topics) = u \o v
  BY DEF SystemItems
<1>2. List(curated) /\ List(topics) /\ Distinct(curated) /\ Distinct(topics)
  BY CuratedDistinct, TopicsDistinct DEF Curated, Topics
<1>3. List(u) /\ Distinct(u) /\ Items(u) = A
  <2>1. P \subseteq DOMAIN curated
    OBVIOUS
  <2>2. {curated[i] : i \in P} = A
    BY DEF Items
  <2> HIDE DEF P, A
  <2> QED
    BY <1>2, <2>1, <2>2, PickLists
<1>4. List(v) /\ Distinct(v) /\ Items(v) = B
  <2>1. Q \subseteq DOMAIN topics
    OBVIOUS
  <2>2. \A i \in DOMAIN topics : i \in Q <=> ~\E y \in Items(curated) : StandsFor(y, topics[i])
    BY SuppressedAre
  <2>3. {topics[i] : i \in Q} = B
    <3> HIDE DEF Q
    <3> QED
      BY <2>1, <2>2 DEF Items
  <2> HIDE DEF Q, B
  <2> QED
    BY <1>2, <2>1, <2>3, PickLists
<1> HIDE DEF P, Q, u, v
<1>5. ASSUME NEW x \in A, NEW y \in B
      PROVE  RecommendationKey(x) # RecommendationKey(y)
  <2> SUFFICES ASSUME RecommendationKey(x) = RecommendationKey(y)
               PROVE  FALSE
    OBVIOUS
  <2>1. ProjectItem(x) /\ TopicItem(y) /\ IsSystem(x)
    BY DEF Curated, Topics
  <2>2. x.source = "system_topic" /\ ResolveSourceReference(x) = y.ref
    BY <2>1, SameKey, RecommendationAssumption DEF TopicItem, ResolveSourceReference
  <2>3. CASE x.ref # NoOne
    BY <2>1, <2>2, <2>3 DEF ResolveSourceReference, StandsFor
  <2>4. CASE x.ref = NoOne
    BY <2>1, <2>2, <2>4, RecommendationAssumption DEF ResolveSourceReference, ProjectItem, TopicItem
  <2> QED
    BY <2>3, <2>4
<1>6. List(u \o v) /\ Items(u \o v) = A \cup B
  BY <1>3, <1>4, ConcatLists
<1>7. Distinct(u \o v)
  <2> HIDE DEF A, B
  <2> QED
    BY <1>3, <1>4, <1>5, ConcatDistinct
<1> QED
  BY <1>1, <1>6, <1>7

--------------------------------------------------------------------------------
(* The selection.                                                          *)

\* Lists of ids: what a teacher wrote about.
Ranked(ids) == Len(ids) \in Nat /\ DOMAIN ids = 1 .. Len(ids)

Context(ctx) ==
  /\ Ranked(ctx.preferred) /\ Ranked(ctx.secondary)
  /\ ctx.fallback = "global_feed" => ~ctx.signals
  /\ ctx.fallback = "primary_subject_catalog" => ctx.preferred = <<>>

\* build_rank_lookup ranks what is in the list, and nothing else.
LEMMA RankLookupIs ==
  ASSUME NEW ids, Ranked(ids)
  PROVE  /\ DOMAIN BuildRankLookup(ids) = ToSet(ids)
         /\ \A s \in ToSet(ids) : BuildRankLookup(ids)[s] \in Int
<1> DEFINE at(s) == {i \in DOMAIN ids : ids[i] = s}
<1>1. BuildRankLookup(ids) = [s \in ToSet(ids) |-> Max(at(s)) - 1]
  BY DEF BuildRankLookup
<1>2. ASSUME NEW s \in ToSet(ids)
      PROVE  Max(at(s)) \in Int
  <2>1. at(s) # {}
    BY DEF ToSet
  <2>2. at(s) \in SUBSET (0 .. Len(ids)) /\ Len(ids) \in Nat
    BY DEF Ranked
  <2>3. \A x \in at(s) : x \in Int
    BY <2>2
  <2> HIDE DEF at
  <2>4. Max(at(s)) \in at(s)
    BY <2>1, <2>2, GreatestElement
  <2> QED
    BY <2>3, <2>4
<1> HIDE DEF at
<1> QED
  BY <1>1, <1>2

\* Ranks of the catalog are numbers.
LEMMA CatalogIs ==
  ASSUME NEW items, List(items), NEW ctx,
         NEW s \in DOMAIN BuildPrimarySubjectCatalogLookup(items, ctx)
  PROVE  BuildPrimarySubjectCatalogLookup(items, ctx)[s] \in Int
<1> DEFINE excluded == ToSet(ctx.preferred) \cup ToSet(ctx.secondary)
           L(item) == /\ ctx.primary # NoOne /\ IsEligible(item)
                      /\ item.subject = ctx.primary /\ item.sub \notin excluded
           candidates == {i \in DOMAIN items : L(items[i])}
           upTo(q) == {i \in candidates : items[i].sub <= q}
<1>1. BuildPrimarySubjectCatalogLookup(items, ctx)
        = [q \in {items[i].sub : i \in candidates} |-> Cardinality(upTo(q)) - 1]
  BY DEF BuildPrimarySubjectCatalogLookup
<1>2. upTo(s) \subseteq 1 .. Len(items) /\ Len(items) \in Nat
  BY DEF List
<1>3. IsFiniteSet(1 .. Len(items))
  BY <1>2, FS_Interval
<1> HIDE DEF upTo, candidates
<1>4. Cardinality(upTo(s)) \in Nat
  BY <1>2, <1>3, FS_Subset, FS_CardinalityType
<1> QED
  BY <1>1, <1>4

\* The group says why an item was selected.
LEMMA SelectionIs ==
  ASSUME NEW item, NEW ctx, Context(ctx), NEW catalog,
         \A s \in DOMAIN catalog : catalog[s] \in Int
  PROVE  LET w == Selection(item, ctx, catalog)
         IN  /\ w.group \in 0 .. 4 /\ w.rank \in Int
             /\ w.group < 3 =>
                  /\ IsEligible(item)
                  /\ \/ item.sub \in ToSet(ctx.preferred) \cup ToSet(ctx.secondary)
                     \/ item.subject = ctx.primary
             /\ w.group = 0 => ctx.preferred # <<>>
<1> DEFINE w == Selection(item, ctx, catalog)
           first == BuildRankLookup(ctx.preferred)
           second == BuildRankLookup(ctx.secondary)
           s == item.sub
<1>1. w = IF ~IsEligible(item)       THEN [group |-> 4, rank |-> Top]
          ELSE IF s \in DOMAIN first THEN [group |-> 0, rank |-> first[s]]
          ELSE IF item.subject = ctx.primary /\ s \in DOMAIN catalog
                                     THEN [group |-> 1, rank |-> catalog[s]]
          ELSE IF s \in DOMAIN second THEN [group |-> 2, rank |-> second[s]]
                                     ELSE [group |-> 3, rank |-> Top]
  BY DEF Selection
<1>2. /\ DOMAIN first = ToSet(ctx.preferred) /\ \A q \in DOMAIN first : first[q] \in Int
      /\ DOMAIN second = ToSet(ctx.secondary) /\ \A q \in DOMAIN second : second[q] \in Int
  BY RankLookupIs DEF Context
<1>3. ctx.preferred = <<>> => ToSet(ctx.preferred) = {}
  BY DEF ToSet
<1>4. Top \in Int
  BY DEF Top
<1> HIDE DEF w, first, second, s
<1>5. CASE ~IsEligible(item)
  <2>1. w = [group |-> 4, rank |-> Top]
    BY <1>1, <1>5
  <2> QED
    BY <1>4, <2>1 DEF w
<1>6. CASE IsEligible(item) /\ s \in DOMAIN first
  <2>1. w = [group |-> 0, rank |-> first[s]]
    BY <1>1, <1>6
  <2> QED
    BY <1>2, <1>3, <1>6, <2>1 DEF w, s
<1>7. CASE /\ IsEligible(item) /\ s \notin DOMAIN first
           /\ item.subject = ctx.primary /\ s \in DOMAIN catalog
  <2>1. w = [group |-> 1, rank |-> catalog[s]]
    BY <1>1, <1>7
  <2> QED
    BY <1>7, <2>1 DEF w
<1>8. CASE /\ IsEligible(item) /\ s \notin DOMAIN first /\ s \in DOMAIN second
           /\ ~(item.subject = ctx.primary /\ s \in DOMAIN catalog)
  <2>1. w = [group |-> 2, rank |-> second[s]]
    BY <1>1, <1>8
  <2> QED
    BY <1>2, <1>8, <2>1 DEF w, s
<1>9. CASE /\ IsEligible(item) /\ s \notin DOMAIN first /\ s \notin DOMAIN second
           /\ ~(item.subject = ctx.primary /\ s \in DOMAIN catalog)
  <2>1. w = [group |-> 3, rank |-> Top]
    BY <1>1, <1>9
  <2> QED
    BY <1>4, <2>1 DEF w
<1> QED
  BY <1>5, <1>6, <1>7, <1>8, <1>9

\* y is x with its group and rank.
Noted(y, x) ==
  /\ DOMAIN y = Columns /\ Comparable(y)
  /\ y.id = x.id /\ y.source = x.source /\ y.ref = x.ref
  /\ y.sub = x.sub /\ y.subject = x.subject /\ y.eligible = x.eligible
  /\ y.priority = x.priority

\* The annotation changes no key and no source.
LEMMA NotedKey ==
  ASSUME NEW x, NEW y, Noted(y, x)
  PROVE  RecommendationKey(y) = RecommendationKey(x) /\ (IsSystem(y) <=> IsSystem(x))
BY DEF Noted, RecommendationKey, ResolveSourceReference, MakeSourceKey, IsSystem, IsAdmin

\* What was selected fits the teacher.
Fits(y, ctx) ==
  /\ IsEligible(y)
  /\ \/ y.sub \in ToSet(ctx.preferred) \cup ToSet(ctx.secondary)
     \/ y.subject = ctx.primary
  /\ y.group = 0 => ctx.preferred # <<>>

\* Items get a group and a rank, and nothing else; the group tells why.
LEMMA AnnotatedAre ==
  ASSUME NEW items, List(items), \A x \in Items(items) : Whole(x), NEW ctx, Context(ctx)
  PROVE  /\ Annotated(items, ctx) \in [1 .. Len(items) -> Items(Annotated(items, ctx))]
         /\ \A i \in DOMAIN items :
              /\ Noted(Annotated(items, ctx)[i], items[i])
              /\ Selected(Annotated(items, ctx)[i]) => Fits(Annotated(items, ctx)[i], ctx)
<1> DEFINE catalog == BuildPrimarySubjectCatalogLookup(items, ctx)
           sel(i) == Selection(items[i], ctx, catalog)
           all == Annotated(items, ctx)
<1>1. all = [i \in DOMAIN items |-> [items[i] EXCEPT !.group = sel(i).group, !.rank = sel(i).rank]]
  BY DEF Annotated
<1>2. DOMAIN items = 1 .. Len(items)
  BY DEF List
<1> HIDE DEF all
<1>3. all \in [1 .. Len(items) -> Items(all)]
  BY <1>1, <1>2 DEF Items
<1>4. \A s \in DOMAIN catalog : catalog[s] \in Int
  BY CatalogIs
<1> SUFFICES ASSUME NEW i \in DOMAIN items
             PROVE  Noted(all[i], items[i]) /\ (Selected(all[i]) => Fits(all[i], ctx))
  BY <1>3 DEF all
<1> DEFINE x == items[i]
           y == all[i]
           w == sel(i)
<1> HIDE DEF catalog
<1>5. /\ w.group \in 0 .. 4 /\ w.rank \in Int
      /\ w.group < 3 =>
           /\ IsEligible(x)
           /\ \/ x.sub \in ToSet(ctx.preferred) \cup ToSet(ctx.secondary)
              \/ x.subject = ctx.primary
      /\ w.group = 0 => ctx.preferred # <<>>
  BY <1>4, SelectionIs
<1>6. y = [x EXCEPT !.group = w.group, !.rank = w.rank] /\ Whole(x)
  BY <1>1, ItemsOf
<1> HIDE DEF x, y, w, sel
<1>7. DOMAIN x = Columns /\ Comparable(x)
  BY <1>6 DEF Whole
<1>8. /\ DOMAIN y = Columns /\ y.group = w.group /\ y.rank = w.rank
      /\ y.id = x.id /\ y.source = x.source /\ y.ref = x.ref
      /\ y.sub = x.sub /\ y.subject = x.subject /\ y.eligible = x.eligible
      /\ y.priority = x.priority /\ y.score = x.score
      /\ y.created = x.created /\ y.updated = x.updated
  BY <1>6, <1>7 DEF Columns
<1>9. Noted(y, x)
  BY <1>5, <1>7, <1>8 DEF Noted, Comparable
<1>10. ASSUME Selected(y)
       PROVE  Fits(y, ctx)
  <2>1. w.group < 3
    BY <1>8, <1>10 DEF Selected
  <2>2. IsEligible(y)
    BY <1>5, <1>8, <2>1 DEF IsEligible, IsSystem, IsAdmin
  <2> QED
    BY <1>5, <1>8, <2>1, <2>2 DEF Fits
<1> QED
  BY <1>9, <1>10 DEF x, y

--------------------------------------------------------------------------------
(* The feed.                                                               *)

\* Either every system item is a candidate, or those that fit the teacher are.
Candidates(c, items, ctx) ==
  /\ List(c) /\ Distinct(c) /\ (c = <<>> => items = <<>>)
  /\ \/ c = items
     \/ /\ ctx.signals
        /\ \A y \in Items(c) : Fits(y, ctx) /\ \E x \in Items(items) : Noted(y, x)

\* select_system_generated_candidates: all, or what fits.
LEMMA CandidatesAre ==
  ASSUME NEW items, List(items), Distinct(items), \A x \in Items(items) : Whole(x),
         NEW ctx, Context(ctx)
  PROVE  Candidates(SelectSystemGeneratedCandidates(items, ctx), items, ctx)
<1> DEFINE all == Annotated(items, ctx)
           P == {i \in DOMAIN all : Selected(all[i])}
           selected == Pick(all, P)
<1>1. SelectSystemGeneratedCandidates(items, ctx)
        = IF ~ctx.signals \/ selected = <<>> THEN items ELSE selected
  BY DEF SelectSystemGeneratedCandidates
<1>2. /\ all \in [1 .. Len(items) -> Items(all)]
      /\ \A i \in DOMAIN items :
           Noted(all[i], items[i]) /\ (Selected(all[i]) => Fits(all[i], ctx))
  BY AnnotatedAre
<1>3. Len(items) \in Nat /\ DOMAIN items = 1 .. Len(items)
  BY DEF List
<1> HIDE DEF all
<1>4. List(all) /\ DOMAIN all = DOMAIN items
  BY <1>2, <1>3, ListsAre
<1>5. Distinct(all)
  <2> SUFFICES ASSUME NEW i \in DOMAIN items, NEW j \in DOMAIN items,
                      RecommendationKey(all[i]) = RecommendationKey(all[j])
               PROVE  i = j
    BY <1>4 DEF Distinct
  <2>1. RecommendationKey(items[i]) = RecommendationKey(items[j])
    BY <1>2, NotedKey
  <2> QED
    BY <2>1 DEF Distinct
<1>6. List(selected) /\ Items(selected) = {all[i] : i \in P} /\ Distinct(selected)
  <2>1. P \subseteq DOMAIN all
    OBVIOUS
  <2> HIDE DEF P
  <2> QED
    BY <1>4, <1>5, <2>1, PickLists
<1>7. \A y \in Items(selected) : Fits(y, ctx) /\ \E x \in Items(items) : Noted(y, x)
  <2> SUFFICES ASSUME NEW i \in P
               PROVE  Fits(all[i], ctx) /\ \E x \in Items(items) : Noted(all[i], x)
    BY <1>6
  <2>1. i \in DOMAIN items /\ Selected(all[i]) /\ items[i] \in Items(items)
    BY <1>4, ItemsOf
  <2> QED
    BY <1>2, <2>1
<1> HIDE DEF P, selected
<1>8. CASE ~ctx.signals \/ selected = <<>>
  BY <1>1, <1>8 DEF Candidates
<1>9. CASE ctx.signals /\ selected # <<>>
  BY <1>1, <1>6, <1>7, <1>9 DEF Candidates
<1> QED
  BY <1>1, <1>8, <1>9 DEF Candidates

System(curated, topics) == Items(SystemItems(curated, topics))

\* What is sorted.
Gathered(input, curated, topics, ctx) ==
  /\ List(input) /\ Distinct(input) /\ Sortable(input, Len(input))
  /\ {x \in Items(curated) : IsAdmin(x)} \subseteq Items(input)
  /\ \A y \in Items(input) : IsAdmin(y) => y \in Items(curated)
  /\ input = <<>> => Items(curated) = {} /\ Items(topics) = {}
  /\ \A y \in Items(input) : \E x \in Items(curated) \cup Items(topics) : Noted(y, x)
  /\ \/ /\ System(curated, topics) \subseteq Items(input)
        /\ \A y \in Items(input) : IsSystem(y) => y \in System(curated, topics)
     \/ ctx.signals /\ \A y \in Items(input) : IsSystem(y) => Fits(y, ctx)

\* A list with nothing in it is empty.
LEMMA EmptyList ==
  ASSUME NEW s, List(s)
  PROVE  s = <<>> <=> Items(s) = {}
<1>1. s = <<>> => Items(s) = {}
  BY DEF Items
<1>2. ASSUME Items(s) = {}
      PROVE  s = <<>>
  <2>1. Len(s) \in Nat /\ s \in [1 .. Len(s) -> {}] /\ 1 .. Len(s) = {}
    BY <1>2 DEF List
  <2> QED
    BY <2>1
<1> QED
  BY <1>1, <1>2

\* Admin uploads come first in what is sorted, and nothing is there twice.
LEMMA InputIs ==
  ASSUME NEW curated, NEW topics, Curated(curated), Topics(topics), NEW ctx, Context(ctx),
         NEW input,
         input = Pick(curated, {i \in DOMAIN curated : IsAdmin(curated[i])})
                   \o SelectSystemGeneratedCandidates(SystemItems(curated, topics), ctx)
  PROVE  Gathered(input, curated, topics, ctx)
<1> DEFINE P == {i \in DOMAIN curated : IsAdmin(curated[i])}
           u == Pick(curated, P)
           sys == SystemItems(curated, topics)
           c == SelectSystemGeneratedCandidates(sys, ctx)
           A == {x \in Items(curated) : IsAdmin(x)}
           n == Len(input)
<1>1. input = u \o c
  OBVIOUS
<1>2. List(u) /\ Distinct(u) /\ Items(u) = A
  <2>1. P \subseteq DOMAIN curated
    OBVIOUS
  <2>2. {curated[i] : i \in P} = A
    BY DEF Items
  <2>3. List(curated) /\ Distinct(curated)
    BY CuratedDistinct DEF Curated
  <2> HIDE DEF P, A
  <2> QED
    BY <2>1, <2>2, <2>3, PickLists
<1>3. /\ List(sys) /\ Distinct(sys)
      /\ Items(sys) = {x \in Items(curated) : IsSystem(x)}
              \cup {x \in Items(topics) : ~\E y \in Items(curated) : StandsFor(y, x)}
  BY SystemItemsAre
<1> HIDE DEF P, u, sys, c
<1>4. \A x \in Items(sys) : Whole(x) /\ IsSystem(x)
  BY <1>3 DEF Curated, Topics, ProjectItem, TopicItem, IsSystem, IsAdmin
<1>5. Candidates(c, sys, ctx)
  BY <1>3, <1>4, CandidatesAre DEF c
<1>6. \A y \in Items(c) : Comparable(y) /\ IsSystem(y)
  <2>1. CASE c = sys
    BY <1>4, <2>1 DEF Whole
  <2>2. CASE c # sys
    BY <1>4, <1>5, <2>2, NotedKey DEF Candidates, Noted
  <2> QED
    BY <2>1, <2>2
<1>7. \A y \in A : Comparable(y) /\ IsAdmin(y)
  BY DEF Curated, ProjectItem, Whole
<1>8. List(c) /\ Distinct(c)
  BY <1>5 DEF Candidates
<1>9. /\ List(input) /\ Items(input) = A \cup Items(c)
      /\ Len(input) = Len(u) + Len(c)
      /\ \A i \in 1 .. Len(u) : input[i] = u[i]
      /\ \A i \in Len(u) + 1 .. Len(u) + Len(c) : input[i] = c[i - Len(u)]
  <2> HIDE DEF A
  <2>1. /\ List(u \o c) /\ Items(u \o c) = Items(u) \cup Items(c)
        /\ Len(u \o c) = Len(u) + Len(c)
    BY <1>2, <1>8, ConcatLists
  <2>2. \A i \in 1 .. Len(u) : (u \o c)[i] = u[i]
    BY <1>2, <1>8, ConcatLists
  <2>3. \A i \in Len(u) + 1 .. Len(u) + Len(c) : (u \o c)[i] = c[i - Len(u)]
    BY <1>2, <1>8, ConcatLists
  <2> QED
    BY <1>1, <1>2, <2>1, <2>2, <2>3
<1>10. Distinct(input)
  <2>1. \A x \in Items(u), y \in Items(c) : RecommendationKey(x) # RecommendationKey(y)
    BY <1>2, <1>6, <1>7, SameKey DEF IsSystem, IsAdmin
  <2> QED
    BY <1>1, <1>2, <1>8, <2>1, ConcatDistinct
<1>11. Sortable(input, n)
  <2>1. n \in Nat /\ DOMAIN input = 1 .. n
    BY <1>9 DEF List
  <2>2. \A i \in 1 .. n : Comparable(input[i])
    BY <1>6, <1>7, <1>9, <2>1, ItemsOf
  <2>3. /\ Len(u) \in Nat /\ Len(c) \in Nat
        /\ DOMAIN u = 1 .. Len(u) /\ DOMAIN c = 1 .. Len(c)
    BY <1>2, <1>8 DEF List
  <2>4. AdminsFirst(input)
    <3> SUFFICES ASSUME NEW i \in 1 .. n, NEW j \in 1 .. n, i < j, IsAdmin(input[j])
                 PROVE  IsAdmin(input[i])
      BY <2>1 DEF AdminsFirst
    <3>1. j \in 1 .. Len(u)
      <4> SUFFICES ASSUME j \notin 1 .. Len(u)
                   PROVE  FALSE
        OBVIOUS
      <4>1. j \in Len(u) + 1 .. Len(u) + Len(c) /\ j - Len(u) \in DOMAIN c
        BY <1>9, <2>3
      <4>2. input[j] \in Items(c)
        BY <1>9, <4>1, ItemsOf
      <4> QED
        BY <1>6, <4>2 DEF IsSystem
    <3>2. i \in 1 .. Len(u) /\ input[i] = u[i] /\ u[i] \in Items(u)
      BY <1>9, <2>3, <3>1, ItemsOf
    <3> QED
      BY <1>2, <1>7, <3>2
  <2> QED
    BY <2>1, <2>2, <2>4 DEF Sortable
<1>12. \A y \in Items(input) :
         (IsAdmin(y) => y \in Items(curated)) /\ (IsSystem(y) => y \in Items(c))
  BY <1>6, <1>7, <1>9 DEF IsSystem
<1>13. ASSUME input = <<>>
       PROVE  Items(curated) = {} /\ Items(topics) = {}
  <2>1. A = {} /\ Items(c) = {}
    BY <1>9, <1>13, EmptyList
  <2>2. c = <<>> /\ sys = <<>>
    BY <1>5, <1>8, <2>1, EmptyList DEF Candidates
  <2>3. Items(sys) = {}
    BY <1>3, <2>2, EmptyList
  <2>4. Items(curated) = {}
    BY <1>3, <2>1, <2>3 DEF IsSystem
  <2> QED
    BY <1>3, <2>3, <2>4
<1>14. \/ /\ Items(sys) \subseteq Items(input)
          /\ \A y \in Items(input) : IsSystem(y) => y \in Items(sys)
       \/ ctx.signals /\ \A y \in Items(input) : IsSystem(y) => Fits(y, ctx)
  <2>1. CASE c = sys
    BY <1>9, <1>12, <2>1
  <2>2. CASE c # sys
    BY <1>5, <1>12, <2>2 DEF Candidates
  <2> QED
    BY <2>1, <2>2
<1>15. A \subseteq Items(input)
  BY <1>9
<1>16. \A y \in Items(input) : \E x \in Items(curated) \cup Items(topics) : Noted(y, x)
  <2>1. \A x \in Items(curated) \cup Items(topics) : Noted(x, x)
    BY DEF Curated, Topics, ProjectItem, TopicItem, Whole, Noted
  <2>2. Items(sys) \subseteq Items(curated) \cup Items(topics)
    BY <1>3
  <2>3. \A y \in Items(c) : \E x \in Items(sys) : Noted(y, x)
    BY <1>5, <2>1, <2>2 DEF Candidates
  <2> QED
    BY <1>9, <2>1, <2>2, <2>3
<1> HIDE DEF A, n
<1> QED
  BY <1>9, <1>10, <1>11, <1>12, <1>13, <1>14, <1>15, <1>16 DEF Gathered, System, sys, A, n

\* The feed of what was read.
FeedOf(f, curated, topics, ctx) ==
  /\ List(f) /\ Distinct(f)
  /\ {x \in Items(curated) : IsAdmin(x)} \subseteq Items(f)
  /\ f = <<>> => Items(curated) = {} /\ Items(topics) = {}
  /\ \A y \in Items(f) : \E x \in Items(curated) \cup Items(topics) : Noted(y, x)
  /\ \/ /\ System(curated, topics) \subseteq Items(f)
        /\ \A y \in Items(f) : IsSystem(y) => y \in System(curated, topics)
     \/ ctx.signals /\ \A y \in Items(f) : IsSystem(y) => Fits(y, ctx)
  /\ \A i \in DOMAIN f : Comparable(f[i])
  /\ \A i \in DOMAIN f : i + 1 \in DOMAIN f => ~CompareItems(f[i + 1], f[i])
  /\ \A i, j \in DOMAIN f :
       i < j /\ IsAdmin(f[i]) /\ IsAdmin(f[j]) => f[i].priority >= f[j].priority
  /\ (\A i \in DOMAIN f : IsSystem(f[i])) =>
        \A i, j \in DOMAIN f : i < j => ~CompareItems(f[j], f[i])

\* build_feed_snapshot makes such a feed.
LEMMA FeedIs ==
  ASSUME NEW curated, NEW topics, Curated(curated), Topics(topics), NEW ctx, Context(ctx)
  PROVE  FeedOf(BuildFeedSnapshot(curated, topics, ctx), curated, topics, ctx)
<1> DEFINE input == Pick(curated, {i \in DOMAIN curated : IsAdmin(curated[i])})
                      \o SelectSystemGeneratedCandidates(SystemItems(curated, topics), ctx)
           f == BuildFeedSnapshot(curated, topics, ctx)
           n == Len(input)
<1>1. f = Sorted(input)
  BY DEF BuildFeedSnapshot
<1>2. Gathered(input, curated, topics, ctx)
  BY InputIs
<1> HIDE DEF input, f
<1>3. /\ List(input) /\ Distinct(input) /\ Sortable(input, n)
      /\ n \in Nat /\ DOMAIN input = 1 .. n
  BY <1>2 DEF Gathered, List
<1>4. Arranged(f, input, n)
  BY <1>1, <1>3, SortedIs
<1>5. List(f) /\ Distinct(f) /\ Items(f) = Items(input)
  BY <1>3, <1>4, ArrangedLists
<1>6. Len(f) = n /\ DOMAIN f = 1 .. n
  <2>1. Len(f) = n
    BY <1>4 DEF Arranged
  <2> QED
    BY <1>5, <2>1 DEF List
<1>7. f = <<>> => input = <<>>
  BY <1>3, <1>5, EmptyList
<1>8. /\ \A i \in DOMAIN f : i + 1 \in DOMAIN f => ~CompareItems(f[i + 1], f[i])
      /\ \A i, j \in DOMAIN f :
           i < j /\ IsAdmin(f[i]) /\ IsAdmin(f[j]) => f[i].priority >= f[j].priority
  <2>1. /\ \A i \in 1 .. n - 1 : ~CompareItems(f[i + 1], f[i])
        /\ \A i, j \in 1 .. n :
             i < j /\ IsAdmin(f[i]) /\ IsAdmin(f[j]) => f[i].priority >= f[j].priority
    BY <1>4 DEF Arranged
  <2>2. \A i \in 1 .. n : i + 1 \in 1 .. n => i \in 1 .. n - 1
    BY <1>3
  <2> QED
    BY <1>6, <2>1, <2>2
<1>9. ASSUME \A i \in DOMAIN f : IsSystem(f[i])
      PROVE  \A i, j \in DOMAIN f : i < j => ~CompareItems(f[j], f[i])
  <2>1. \A y \in Items(input) : ~IsAdmin(y)
    BY <1>5, <1>9, ItemsOf DEF IsSystem
  <2>2. Alike(input, n)
    BY <1>3, <2>1, ItemsOf DEF Alike
  <2> QED
    BY <1>4, <1>6, <2>2 DEF Arranged
<1>10. \A i \in DOMAIN f : Comparable(f[i])
  <2>1. \A y \in Items(input) : Comparable(y)
    BY <1>3, ItemsOf DEF Sortable
  <2> QED
    BY <1>5, <2>1, ItemsOf
<1>11. /\ {x \in Items(curated) : IsAdmin(x)} \subseteq Items(f)
       /\ f = <<>> => Items(curated) = {} /\ Items(topics) = {}
       /\ \A y \in Items(f) : \E x \in Items(curated) \cup Items(topics) : Noted(y, x)
       /\ \/ /\ System(curated, topics) \subseteq Items(f)
             /\ \A y \in Items(f) : IsSystem(y) => y \in System(curated, topics)
          \/ ctx.signals /\ \A y \in Items(f) : IsSystem(y) => Fits(y, ctx)
  BY <1>2, <1>5, <1>7 DEF Gathered
<1>12. FeedOf(f, curated, topics, ctx)
  BY <1>5, <1>8, <1>9, <1>10, <1>11 DEF FeedOf
<1> QED
  BY <1>12 DEF f

--------------------------------------------------------------------------------
(* What is read.                                                           *)

TopicRows ==
  [Topic -> [published : BOOLEAN, sub : SubSubject \cup {NoOne}, updated : Int]]
ProjectRows == [Project -> [active : BOOLEAN, updated : Int]]

Columned ==
  /\ topic \in TopicRows /\ project \in ProjectRows
  /\ enabled \in BOOLEAN /\ now \in Int

\* ORDER BY gives every row once.
LEMMA OrderingsAre ==
  ASSUME NEW S, IsFiniteSet(S), NEW s \in SetToSeqs(S)
  PROVE  /\ Cardinality(S) \in Nat /\ s \in [1 .. Cardinality(S) -> S]
         /\ \A i, j \in 1 .. Cardinality(S) : s[i] = s[j] => i = j
<1>1. Cardinality(S) \in Nat
  BY FS_CardinalityType
<1>2. s \in [1 .. Cardinality(S) -> S] /\ \A i, j \in 1 .. Cardinality(S) : i # j => s[i] # s[j]
  BY DEF SetToSeqs, IsInjective
<1> QED
  BY <1>1, <1>2

\* What the query of the visible projects returns, as items.
LEMMA ProjectsRead ==
  ASSUME Columned, NEW ps \in FindVisible
  PROVE  Curated([i \in DOMAIN ps |-> NormalizeCuratedItem(ps[i])])
<1> DEFINE S == {p \in Project : project[p].active}
           c == [i \in DOMAIN ps |-> NormalizeCuratedItem(ps[i])]
           n == Cardinality(S)
<1>1. IsFiniteSet(S)
  BY FS_Subset, RecommendationAssumption
<1>2. ps \in SetToSeqs(S)
  BY DEF FindVisible, Orderings
<1>3. n \in Nat /\ ps \in [1 .. n -> S] /\ \A i, j \in 1 .. n : ps[i] = ps[j] => i = j
  <2> HIDE DEF S
  <2> QED
    BY <1>1, <1>2, OrderingsAre
<1>4. ASSUME NEW p \in Project
      PROVE  ProjectItem(NormalizeCuratedItem(p)) /\ NormalizeCuratedItem(p).id = p
  <2> DEFINE x == NormalizeCuratedItem(p)
  <2>1. /\ StartProject[p].priority \in Int /\ StartProject[p].score \in Int
        /\ StartProject[p].created \in Int /\ IdRank[p] \in Int
    BY RecommendationAssumption DEF EveryId
  <2>2. project[p].updated \in Int
    BY DEF Columned, TopicRows, ProjectRows
  <2>3. /\ DOMAIN x = Columns /\ x.id = p /\ x.group = 4 /\ x.rank = Top
        /\ x.source = StartProject[p].source /\ x.ref = StartProject[p].ref
        /\ x.sub = StartProject[p].sub /\ x.subject = StartProject[p].subject
        /\ x.priority = StartProject[p].priority /\ x.score = StartProject[p].score
        /\ x.created = StartProject[p].created /\ x.updated = project[p].updated
    BY DEF NormalizeCuratedItem, Columns
  <2> HIDE DEF x
  <2>4. Whole(x)
    BY <2>1, <2>2, <2>3 DEF Whole, Comparable, Top
  <2>5. ProjectItem(x) /\ x.id = p
    BY <2>3, <2>4 DEF ProjectItem
  <2> QED
    BY <2>5 DEF x
<1> DEFINE T == {x \in {NormalizeCuratedItem(p) : p \in Project} : ProjectItem(x)}
<1>5. c \in [1 .. n -> T]
  <2>1. \A i \in 1 .. n : NormalizeCuratedItem(ps[i]) \in T
    BY <1>3, <1>4
  <2>2. DOMAIN ps = 1 .. n
    BY <1>3
  <2> HIDE DEF T
  <2> QED
    BY <2>1, <2>2
<1>6. \A i \in 1 .. n : c[i].id = ps[i]
  BY <1>3, <1>4
<1> HIDE DEF c, n
<1>7. List(c) /\ DOMAIN c = 1 .. n /\ Items(c) \subseteq T
  <2> HIDE DEF T
  <2> QED
    BY <1>3, <1>5, ListsAre
<1>8. OneOfEach(c)
  BY <1>3, <1>6, <1>7 DEF OneOfEach
<1>9. Curated(c)
  BY <1>7, <1>8 DEF Curated
<1> QED
  BY <1>9 DEF c

\* What the query of the published topics returns, as items.
LEMMA TopicsRead ==
  ASSUME Columned, NEW ts \in QueryPublishedTopics
  PROVE  Topics([i \in DOMAIN ts |-> NormalizeTopicItem(ts[i])])
<1> DEFINE S == {t \in Topic : topic[t].published /\ topic[t].sub # NoOne}
           c == [i \in DOMAIN ts |-> NormalizeTopicItem(ts[i])]
           n == Cardinality(S)
<1>1. IsFiniteSet(S)
  BY FS_Subset, RecommendationAssumption
<1>2. ts \in SetToSeqs(S)
  BY DEF QueryPublishedTopics, Orderings
<1>3. n \in Nat /\ ts \in [1 .. n -> S] /\ \A i, j \in 1 .. n : ts[i] = ts[j] => i = j
  <2> HIDE DEF S
  <2> QED
    BY <1>1, <1>2, OrderingsAre
<1>4. ASSUME NEW t \in S
      PROVE  TopicItem(NormalizeTopicItem(t)) /\ NormalizeTopicItem(t).id = t
  <2> DEFINE x == NormalizeTopicItem(t)
  <2>1. StartTopic[t].created \in Int /\ IdRank[t] \in Int
    BY RecommendationAssumption DEF EveryId
  <2>2. topic[t].updated \in Int /\ topic[t].sub \in SubSubject
    BY DEF Columned, TopicRows, ProjectRows
  <2>3. /\ DOMAIN x = Columns /\ x.id = t /\ x.group = 4 /\ x.rank = Top
        /\ x.source = "system_topic" /\ x.ref = t
        /\ x.sub = topic[t].sub /\ x.subject = SubjectOf[topic[t].sub] /\ x.priority = 0 /\ x.score = 0
        /\ x.created = StartTopic[t].created /\ x.updated = topic[t].updated
    BY DEF NormalizeTopicItem, Columns
  <2> HIDE DEF x
  <2>4. Whole(x)
    BY <2>1, <2>2, <2>3 DEF Whole, Comparable, Top
  <2>5. TopicItem(x) /\ x.id = t
    BY <2>2, <2>3, <2>4 DEF TopicItem
  <2> QED
    BY <2>5 DEF x
<1> DEFINE T == {x \in {NormalizeTopicItem(t) : t \in S} : TopicItem(x)}
<1>5. c \in [1 .. n -> T]
  <2>1. \A i \in 1 .. n : NormalizeTopicItem(ts[i]) \in T
    BY <1>3, <1>4
  <2>2. DOMAIN ts = 1 .. n
    BY <1>3
  <2> HIDE DEF T
  <2> QED
    BY <2>1, <2>2
<1>6. \A i \in 1 .. n : c[i].id = ts[i]
  BY <1>3, <1>4
<1> HIDE DEF c, n
<1>7. List(c) /\ DOMAIN c = 1 .. n /\ Items(c) \subseteq T
  <2> HIDE DEF T
  <2> QED
    BY <1>3, <1>5, ListsAre
<1>8. OneOfEach(c)
  BY <1>3, <1>6, <1>7 DEF OneOfEach
<1>9. Topics(c)
  BY <1>7, <1>8 DEF Topics
<1> QED
  BY <1>9 DEF c

\* A selection of a list of ids.
LEMMA PickRanked ==
  ASSUME NEW ids, Ranked(ids), NEW P, P \subseteq DOMAIN ids
  PROVE  Ranked(Pick(ids, P))
<1>1. IsFiniteSet(P) /\ \A i \in P : i \in Nat
  <2>1. IsFiniteSet(1 .. Len(ids))
    BY FS_Interval DEF Ranked
  <2> QED
    BY <2>1, FS_Subset DEF Ranked
<1>2. PICK m, p : Picked(Pick(ids, P), ids, P, m, p)
  BY <1>1, PickIs
<1> QED
  BY <1>2 DEF Picked, Ranked

\* The sub-subjects a teacher wrote about form a list.
LEMMA ActivityIs ==
  ASSUME NEW u
  PROVE  Ranked(QueryAuthoredTopicActivity(u))
<1> DEFINE own(s) == {t \in Topic : /\ topic[t].published /\ StartTopic[t].teacher = u
                                    /\ topic[t].sub = s}
           S == {s \in SubSubject : own(s) # {}}
           a == QueryAuthoredTopicActivity(u)
<1>1. IsFiniteSet(S)
  BY FS_Subset, RecommendationAssumption
<1>2. Cardinality(S) \in Nat
  BY <1>1, FS_CardinalityType
<1>3. DOMAIN a = 1 .. Cardinality(S)
  BY DEF QueryAuthoredTopicActivity, InOrder
<1> HIDE DEF a, S
<1> QED
  BY <1>2, <1>3 DEF Ranked, a

\* The fallback of a teacher agrees with the lists it was decided from.
LEMMA AuthenticatedIs ==
  ASSUME NEW primary, NEW activity, Ranked(activity)
  PROVE  Context(AuthenticatedContext(primary, activity))
<1> DEFINE M(s) == primary = NoOne \/ SubjectOf[s] = primary
           P == {i \in DOMAIN activity : M(activity[i])}
           Q == {i \in DOMAIN activity : ~M(activity[i])}
           p == Pick(activity, P)
           mode == ResolveFallbackMode(primary, activity, p)
           ctx == AuthenticatedContext(primary, activity)
<1>1. /\ ctx.preferred = p /\ ctx.secondary = Pick(activity, Q)
      /\ ctx.signals <=> primary # NoOne \/ activity # <<>>
      /\ ctx.fallback = mode
  BY DEF AuthenticatedContext
<1>2. P \subseteq DOMAIN activity /\ Q \subseteq DOMAIN activity
  OBVIOUS
<1> HIDE DEF P, Q
<1>3. Ranked(p) /\ Ranked(Pick(activity, Q))
  BY <1>2, PickRanked
<1> HIDE DEF p
<1>4. NoOne # "global_feed" /\ NoOne # "primary_subject_catalog"
  BY RecommendationAssumption
<1>5. /\ mode = "global_feed" => primary = NoOne /\ activity = <<>>
      /\ mode = "primary_subject_catalog" => p = <<>>
  BY <1>4 DEF ResolveFallbackMode
<1> HIDE DEF ctx, mode
<1>6. ctx.fallback = "global_feed" => ~ctx.signals
  BY <1>1, <1>5
<1>7. Context(ctx)
  BY <1>1, <1>3, <1>5, <1>6 DEF Context
<1> QED
  BY <1>7 DEF ctx

\* The context is read in one go: its fallback agrees with its lists.
LEMMA ContextRead ==
  ASSUME NEW u
  PROVE  Context(BuildPersonalizationContext(u))
<1>1. CASE u = NoOne
  <2>1. Context(GuestContext)
    BY DEF GuestContext, Context, Ranked
  <2> QED
    BY <1>1, <2>1 DEF BuildPersonalizationContext
<1>2. CASE u # NoOne
  BY <1>2, ActivityIs, AuthenticatedIs DEF BuildPersonalizationContext
<1> QED
  BY <1>1, <1>2

--------------------------------------------------------------------------------
(* The invariant.                                                          *)

\* A finite set of integers that is not empty has a greatest element.
LEMMA GreatestOfFinite ==
  ASSUME NEW S, \A x \in S : x \in Int, IsFiniteSet(S), S # {}
  PROVE  Max(S) \in S
<1> DEFINE before == [i \in S |-> {j \in S : j < i}]
           n == Cardinality(S)
<1>1. /\ before \in [S -> SUBSET S]
      /\ \A i, j \in S : i \in before[j] <=> i < j
  OBVIOUS
<1> HIDE DEF before
<1>2. Orders(S, before)
  <2>1. \A i, j \in S : i \in before[j] => before[i] \subseteq before[j]
    <3> SUFFICES ASSUME NEW i \in S, NEW j \in S, i \in before[j], NEW k \in before[i]
                 PROVE  k \in before[j]
      OBVIOUS
    <3>1. k \in S /\ k \in Int /\ i \in Int /\ j \in Int /\ k < i /\ i < j
      BY <1>1
    <3>2. k < j
      BY <3>1
    <3> QED
      BY <1>1, <3>1, <3>2
  <2>2. \A i \in S : i \notin before[i]
    BY <1>1
  <2>3. \A i, j \in S : i # j => i \in before[j] \/ j \in before[i]
    BY <1>1
  <2> QED
    BY <1>1, <2>1, <2>2, <2>3 DEF Orders
<1>3. /\ n \in Nat
      /\ \A i \in S : Cardinality(before[i]) \in 0 .. n - 1
      /\ \A i, j \in S : i \in before[j] => Cardinality(before[i]) < Cardinality(before[j])
      /\ \A k \in 0 .. n - 1 : \E i \in S : Cardinality(before[i]) = k
  <2>1. /\ Cardinality(S) \in Nat
        /\ \A i \in S : Cardinality(before[i]) \in 0 .. Cardinality(S) - 1
        /\ \A i, j \in S : i \in before[j] => Cardinality(before[i]) < Cardinality(before[j])
        /\ \A k \in 0 .. Cardinality(S) - 1 : \E i \in S : Cardinality(before[i]) = k
    BY <1>2, Places
  <2> QED
    BY <2>1
<1>4. n - 1 \in 0 .. n - 1
  <2>1. PICK x : x \in S
    OBVIOUS
  <2> QED
    BY <1>3, <2>1
<1> HIDE DEF n
<1>5. PICK m \in S : Cardinality(before[m]) = n - 1
  BY <1>3, <1>4
<1>6. ASSUME NEW y \in S
      PROVE  m >= y
  <2>1. m \notin before[y]
    <3>1. Cardinality(before[y]) \in 0 .. n - 1
      BY <1>3
    <3> QED
      BY <1>3, <1>5, <3>1
  <2> QED
    BY <1>1, <2>1
<1> QED
  BY <1>6 DEF Max

\* The clock starts at a number: there are finitely many rows.
LEMMA StartNow ==
  1 + Max({0} \cup {StartTopic[t].updated : t \in Topic}
              \cup {StartProject[p].updated : p \in Project}) \in Int
<1> DEFINE A == {StartTopic[t].updated : t \in Topic}
           B == {StartProject[p].updated : p \in Project}
           S == {0} \cup A \cup B
<1>1. IsFiniteSet(Topic) /\ IsFiniteSet(Project) /\ A \subseteq Int /\ B \subseteq Int
  BY RecommendationAssumption
<1>2. IsFiniteSet(A)
  <2>1. [t \in Topic |-> StartTopic[t].updated] \in Surjection(Topic, A)
    BY DEF Surjection
  <2> HIDE DEF A
  <2> QED
    BY <1>1, <2>1, FS_Surjection
<1>3. IsFiniteSet(B)
  <2>1. [p \in Project |-> StartProject[p].updated] \in Surjection(Project, B)
    BY DEF Surjection
  <2> HIDE DEF B
  <2> QED
    BY <1>1, <2>1, FS_Surjection
<1> HIDE DEF A, B
<1>4. IsFiniteSet(S) /\ (\A x \in S : x \in Int) /\ S # {}
  <2>1. IsFiniteSet({0})
    BY FS_Singleton
  <2>2. IsFiniteSet({0} \cup A)
    BY <1>2, <2>1, FS_Union
  <2>3. IsFiniteSet(S)
    BY <1>3, <2>2, FS_Union
  <2> QED
    BY <1>1, <2>3
<1> HIDE DEF S
<1>5. Max(S) \in Int
  BY <1>4, GreatestOfFinite
<1>6. 1 + Max(S) \in Int
  BY <1>5
<1> QED
  BY <1>6 DEF S, A, B

Slots == {"at", "user", "moment", "on", "ctx", "curated", "topics", "feed", "todo", "failed"}

\* A request keeps what it read; its feed is the one of what it keeps.
Kept(q) ==
  /\ DOMAIN q = Slots /\ q.on \in BOOLEAN
  /\ Context(q.ctx) /\ Curated(q.curated)
  /\ Built(q) => /\ Topics(q.topics)
                 /\ q.feed = BuildFeedSnapshot(q.curated, q.topics, q.ctx)

FeedInv == Columned /\ DOMAIN req = Request /\ \A r \in Request : Kept(req[r])

\* Nothing was read yet.
LEMMA NothingRead == Curated(<<>>)
<1>1. Items(<<>>) = {} /\ List(<<>>)
  BY DEF Items, List
<1> QED
  BY <1>1 DEF Curated, OneOfEach

\* A request that waits, or was refused, keeps nothing.
LEMMA IdleKept == Kept(Idle) /\ Kept([Idle EXCEPT !.at = "refused"])
<1>1. Context(GuestContext)
  BY DEF GuestContext, Context, Ranked
<1>2. /\ DOMAIN Idle = Slots /\ Idle.on = FALSE /\ Idle.ctx = GuestContext /\ Idle.curated = <<>>
      /\ Idle.at = "idle"
  BY DEF Idle, Slots
<1> DEFINE q == [Idle EXCEPT !.at = "refused"]
<1>3. /\ DOMAIN q = Slots /\ q.on = FALSE /\ q.ctx = GuestContext /\ q.curated = <<>>
      /\ q.at = "refused"
  BY <1>2 DEF Slots
<1> HIDE DEF q
<1>4. Kept(q)
  BY <1>1, <1>3, NothingRead DEF Kept, Built
<1>5. Kept(Idle)
  BY <1>1, <1>2, NothingRead DEF Kept, Built
<1> QED
  BY <1>4, <1>5 DEF q

\* The first state satisfies the invariant.
LEMMA FeedInit == Init => FeedInv
<1> SUFFICES ASSUME Init
             PROVE  FeedInv
  OBVIOUS
<1>1. topic \in TopicRows
  BY RecommendationAssumption DEF Init, TopicRows
<1>2. project \in ProjectRows
  <2>1. PICK A \in StartActive :
          project = [p \in Project |-> [active |-> p \in A, updated |-> StartProject[p].updated]]
    BY DEF Init
  <2>2. \A p \in Project : StartProject[p].updated \in Int
    BY RecommendationAssumption
  <2>3. \A p \in Project : (p \in A) \in BOOLEAN
    OBVIOUS
  <2> QED
    BY <2>1, <2>2, <2>3 DEF ProjectRows
<1>3. now \in Int /\ enabled \in BOOLEAN
  BY StartNow DEF Init
<1>4. DOMAIN req = Request /\ \A r \in Request : req[r] = Idle
  BY DEF Init
<1> QED
  BY <1>1, <1>2, <1>3, <1>4, IdleKept DEF FeedInv, Columned

\* One request takes a step.
LEMMA OneRequest ==
  ASSUME FeedInv, NEW r \in Request, DOMAIN req' = Request,
         \A s \in Request : s # r => req'[s] = req[s],
         Kept(req'[r]), UNCHANGED tables, now' \in Int
  PROVE  FeedInv'
<1>1. Columned'
  BY DEF FeedInv, Columned, tables
<1>2. \A s \in Request : Kept(req'[s])
  BY DEF FeedInv
<1>3. \A s \in Request : Kept(req[s])'
  BY <1>2 DEF Kept, Context, Ranked, Built, Curated, List, OneOfEach, Items, Topics, ProjectItem
<1> QED
  BY <1>1, <1>3 DEF FeedInv

\* A request that has not built its feed keeps what it read.
LEMMA ServeKeeps ==
  ASSUME FeedInv, NEW r \in Request, Serve(r)
  PROVE  FeedInv'
<1> DEFINE q == req[r]
           w == req'[r]
<1>0. /\ Kept(q) /\ DOMAIN req = Request /\ now \in Int /\ Columned
      /\ DOMAIN q = Slots /\ q.on \in BOOLEAN
  BY DEF FeedInv, Columned, Kept
<1> DEFINE Steps == /\ DOMAIN req' = Request /\ \A s \in Request : s # r => req'[s] = req[s]
                    /\ UNCHANGED tables /\ now' \in Int
<1>1. ASSUME NEW u \in User \cup {NoOne}, Arrive(r, u)
      PROVE  FeedInv'
  <2>1. Steps /\ DOMAIN w = Slots /\ w.at = "section" /\ w.on = q.on /\ w.ctx = q.ctx
              /\ w.curated = q.curated
    BY <1>0, <1>1 DEF Arrive, Slots
  <2>2. Kept(w)
    BY <1>0, <2>1 DEF Kept, Built
  <2> QED
    BY <2>1, <2>2, OneRequest
<1>2. ASSUME LoadSection(r)
      PROVE  FeedInv'
  <2>1. Steps /\ DOMAIN w = Slots /\ w.at = "context" /\ w.on = enabled /\ w.ctx = q.ctx
              /\ w.curated = q.curated
    BY <1>0, <1>2 DEF LoadSection, Slots
  <2>2. Kept(w)
    BY <1>0, <2>1 DEF Kept, Built, Columned
  <2> QED
    BY <2>1, <2>2, OneRequest
<1>3. ASSUME ReadContext(r)
      PROVE  FeedInv'
  <2>1. /\ Steps /\ DOMAIN w = Slots /\ w.on = q.on /\ w.curated = q.curated
        /\ w.at = IF q.on THEN "projects" ELSE "answered"
        /\ w.ctx = BuildPersonalizationContext(q.user)
    BY <1>0, <1>3 DEF ReadContext, Slots
  <2>2. Kept(w)
    BY <1>0, <2>1, ContextRead DEF Kept, Built
  <2> QED
    BY <2>1, <2>2, OneRequest
<1>4. ASSUME ReadProjects(r)
      PROVE  FeedInv'
  <2>1. PICK ps \in FindVisible :
          req' = [req EXCEPT ![r].at = "topics",
                             ![r].curated = [i \in DOMAIN ps |-> NormalizeCuratedItem(ps[i])]]
    BY <1>4 DEF ReadProjects
  <2> DEFINE c == [i \in DOMAIN ps |-> NormalizeCuratedItem(ps[i])]
  <2>2. Curated(c)
    BY <1>0, ProjectsRead
  <2> HIDE DEF c
  <2>3. Steps /\ DOMAIN w = Slots /\ w.at = "topics" /\ w.on = q.on /\ w.ctx = q.ctx
              /\ w.curated = c
    BY <1>0, <1>4, <2>1 DEF ReadProjects, Slots, c
  <2>4. Kept(w)
    BY <1>0, <2>2, <2>3 DEF Kept, Built
  <2> QED
    BY <2>3, <2>4, OneRequest
<1>5. ASSUME ReadTopics(r)
      PROVE  FeedInv'
  <2> DEFINE topics(ts) == [i \in DOMAIN ts |-> NormalizeTopicItem(ts[i])]
             feed(ts) == BuildFeedSnapshot(q.curated, topics(ts), q.ctx)
             todo(ts) == IF q.user = NoOne THEN <<>> ELSE Trackable(feed(ts))
  <2>1. PICK ts \in QueryPublishedTopics :
          req' = [req EXCEPT ![r].at = IF todo(ts) = <<>> THEN "answered" ELSE "track",
                             ![r].topics = topics(ts), ![r].feed = feed(ts), ![r].todo = todo(ts)]
    BY <1>5, ZenonT(30) DEF ReadTopics
  <2> DEFINE t == topics(ts)
             f == feed(ts)
             d == todo(ts)
  <2>2. Topics(t)
    BY <1>0, TopicsRead
  <2>3. /\ f = BuildFeedSnapshot(q.curated, t, q.ctx)
        /\ req' = [req EXCEPT ![r].at = IF d = <<>> THEN "answered" ELSE "track",
                             ![r].topics = t, ![r].feed = f, ![r].todo = d]
    BY <2>1
  <2> HIDE DEF t, f, d
  <2>0. UNCHANGED tables /\ now' = now
    BY <1>5 DEF ReadTopics
  <2>4. /\ Steps /\ DOMAIN w = Slots /\ w.on = q.on /\ w.ctx = q.ctx /\ w.curated = q.curated
        /\ w.topics = t /\ w.feed = f
    BY <1>0, <2>0, <2>3, SMTT(30) DEF Slots
  <2>5. Kept(w)
    BY <1>0, <2>2, <2>3, <2>4 DEF Kept
  <2> QED
    BY <2>4, <2>5, OneRequest
<1>6. ASSUME Refuse(r)
      PROVE  FeedInv'
  <2>1. Steps /\ w = [Idle EXCEPT !.at = "refused"]
    BY <1>0, <1>6 DEF Refuse
  <2>2. Kept(w)
    BY <2>1, IdleKept
  <2> QED
    BY <2>1, <2>2, OneRequest
<1>7. ASSUME TrackServed(r)
      PROVE  FeedInv'
  <2>1. /\ Steps /\ DOMAIN w = Slots /\ w.on = q.on /\ w.ctx = q.ctx /\ w.curated = q.curated
        /\ w.topics = q.topics /\ w.feed = q.feed /\ q.at = "track"
    BY <1>0, <1>7 DEF TrackServed, Slots
  <2>2. Kept(w)
    BY <1>0, <2>1 DEF Kept, Built
  <2> QED
    BY <2>1, <2>2, OneRequest
<1>8. ASSUME TrackFails(r)
      PROVE  FeedInv'
  <2>1. /\ Steps /\ DOMAIN w = Slots /\ w.on = q.on /\ w.ctx = q.ctx /\ w.curated = q.curated
        /\ w.topics = q.topics /\ w.feed = q.feed /\ q.at = "track"
    BY <1>0, <1>8 DEF TrackFails, Slots
  <2>2. Kept(w)
    BY <1>0, <2>1 DEF Kept, Built
  <2> QED
    BY <2>1, <2>2, OneRequest
<1> QED
  BY <1>1, <1>2, <1>3, <1>4, <1>5, <1>6, <1>7, <1>8 DEF Serve

\* What administrators do does not reach a request that is under way.
LEMMA EditKeeps ==
  ASSUME FeedInv, UNCHANGED req, Columned'
  PROVE  FeedInv'
BY DEF FeedInv, Kept, Context, Ranked, Built, Curated, List, OneOfEach, Items, Topics, ProjectItem

\* Every step preserves the invariant.
LEMMA FeedStep == FeedInv /\ [Next]_vars => FeedInv'
<1> SUFFICES ASSUME FeedInv, [Next]_vars
             PROVE  FeedInv'
  OBVIOUS
<1>0. Columned
  BY DEF FeedInv
<1>1. ASSUME NEW r \in Request, Serve(r)
      PROVE  FeedInv'
  BY <1>1, ServeKeeps
<1>2. ASSUME NEW t \in Topic, SetPublish(t)
      PROVE  FeedInv'
  <2>1. topic' = [topic EXCEPT ![t].published = ~@, ![t].updated = now] /\ now' \in Int
    BY <1>0, <1>2 DEF SetPublish, Edit, Columned
  <2>2. topic' \in TopicRows
    BY <1>0, <2>1 DEF Columned, TopicRows
  <2>3. Columned'
    BY <1>0, <1>2, <2>1, <2>2 DEF SetPublish, Edit, Columned
  <2> QED
    BY <1>2, <2>3, EditKeeps DEF SetPublish, Edit
<1>3. ASSUME NEW t \in Topic, UpdateTopic(t)
      PROVE  FeedInv'
  <2>1. PICK s \in SubSubject \cup {NoOne} :
          topic' = [topic EXCEPT ![t].sub = s, ![t].updated = now]
    BY <1>3 DEF UpdateTopic
  <2>2. now' \in Int
    BY <1>0, <1>3 DEF UpdateTopic, Edit, Columned
  <2>3. topic' \in TopicRows
    BY <1>0, <2>1 DEF Columned, TopicRows
  <2>4. Columned'
    BY <1>0, <1>3, <2>2, <2>3 DEF UpdateTopic, Edit, Columned
  <2> QED
    BY <1>3, <2>4, EditKeeps DEF UpdateTopic, Edit
<1>4. ASSUME NEW p \in Project, ToggleActive(p)
      PROVE  FeedInv'
  <2>1. project' = [project EXCEPT ![p].active = ~@, ![p].updated = now] /\ now' \in Int
    BY <1>0, <1>4 DEF ToggleActive, Edit, Columned
  <2>2. project' \in ProjectRows
    BY <1>0, <2>1 DEF Columned, ProjectRows
  <2>3. Columned'
    BY <1>0, <1>4, <2>1, <2>2 DEF ToggleActive, Edit, Columned
  <2> QED
    BY <1>4, <2>3, EditKeeps DEF ToggleActive, Edit
<1>5. ASSUME ToggleSection
      PROVE  FeedInv'
  <2>1. Columned'
    BY <1>0, <1>5 DEF ToggleSection, Edit, Columned
  <2> QED
    BY <1>5, <2>1, EditKeeps DEF ToggleSection, Edit
<1>6. ASSUME UNCHANGED vars
      PROVE  FeedInv'
  <2>1. Columned'
    BY <1>0, <1>6 DEF vars, Columned
  <2> QED
    BY <1>6, <2>1, EditKeeps DEF vars
<1> QED
  BY <1>1, <1>2, <1>3, <1>4, <1>5, <1>6 DEF Next

\* The feed of a request is the one its reads make, whatever is edited between them.
THEOREM FeedInvariant == Spec => []FeedInv
BY FeedInit, FeedStep, PTL DEF Spec

\* A feed that was built is the feed of what its request read.
LEMMA BuiltFeed ==
  ASSUME FeedInv, NEW r \in Request, Built(req[r])
  PROVE  /\ Curated(req[r].curated) /\ Topics(req[r].topics) /\ Context(req[r].ctx)
         /\ FeedOf(req[r].feed, req[r].curated, req[r].topics, req[r].ctx)
<1>1. Kept(req[r])
  BY DEF FeedInv
<1> QED
  BY <1>1, FeedIs DEF Kept

--------------------------------------------------------------------------------
(* The properties.                                                         *)

\* GET /homepage-recommendations reads projects and topics in two statements, with edits
\* between them.  No feed shows two items of one recommendation key, every admin upload
\* that was read is in it, and it is empty only when nothing was read.
THEOREM NothingTwiceNothingLostThm == Spec => []NothingTwiceNothingLost
<1>1. ASSUME FeedInv
      PROVE  NothingTwiceNothingLost
  <2> SUFFICES ASSUME NEW r \in Request, Built(req[r])
               PROVE  LET q == req[r]
                      IN  /\ \A i, j \in DOMAIN q.feed :
                               RecommendationKey(q.feed[i]) = RecommendationKey(q.feed[j])
                                 => i = j
                          /\ {c.id : c \in {x \in Items(q.curated) : IsAdmin(x)}}
                               \subseteq Ids(q.feed)
                          /\ q.feed = <<>> => q.curated = <<>> /\ q.topics = <<>>
    BY DEF NothingTwiceNothingLost
  <2> DEFINE q == req[r]
  <2>1. /\ Curated(q.curated) /\ Topics(q.topics)
        /\ FeedOf(q.feed, q.curated, q.topics, q.ctx)
    BY <1>1, BuiltFeed
  <2> HIDE DEF q
  <2>2. Distinct(q.feed)
    BY <2>1 DEF FeedOf
  <2>3. \A x \in Items(q.curated) : IsAdmin(x) => x.id \in Ids(q.feed)
    <3>1. \A x \in Items(q.curated) : IsAdmin(x) => x \in Items(q.feed)
      BY <2>1 DEF FeedOf
    <3> QED
      BY <3>1 DEF Items, Ids
  <2>4. q.feed = <<>> => q.curated = <<>> /\ q.topics = <<>>
    BY <2>1, EmptyList DEF FeedOf, Curated, Topics
  <2> QED
    BY <2>2, <2>3, <2>4 DEF q, Distinct
<1> QED
  BY <1>1, FeedInvariant, PTL

\* select_system_generated_candidates works with a context that was read before the items:
\* a teacher is served every system item, or only those of a sub-subject the teacher wrote
\* about or of the primary subject; and the announced fallback is the one that happens.
THEOREM FeedFitsTheTeacherThm == Spec => []FeedFitsTheTeacher
<1>1. ASSUME FeedInv, NEW r \in Request, Built(req[r])
      PROVE  LET q == req[r]
                 wrote == ToSet(q.ctx.preferred) \cup ToSet(q.ctx.secondary)
                 offered == {x \in Items(q.curated) \cup Items(q.topics) : IsSystem(x)}
                 served == {x \in Items(q.feed) : IsSystem(x)}
                 fits(x) == /\ x.sub # NoOne /\ x.source = "system_topic" => x.eligible
                            /\ x.sub \in wrote \/ x.subject = q.ctx.primary
                 whole == \A x \in offered : \/ x.id \in Ids(q.feed)
                                             \/ \E y \in offered : /\ y.source = x.source
                                                                   /\ y.ref = x.ref /\ y # x
             IN  /\ whole \/ \A x \in served : fits(x)
                 /\ q.ctx.fallback = "global_feed" => whole
                 /\ q.ctx.fallback = "primary_subject_catalog" => \A x \in served : x.group # 0
  <2> DEFINE q == req[r]
             wrote == ToSet(q.ctx.preferred) \cup ToSet(q.ctx.secondary)
             offered == {x \in Items(q.curated) \cup Items(q.topics) : IsSystem(x)}
             served == {x \in Items(q.feed) : IsSystem(x)}
             F(x) == /\ x.sub # NoOne /\ x.source = "system_topic" => x.eligible
                     /\ x.sub \in wrote \/ x.subject = q.ctx.primary
             W == \A x \in offered : \/ x.id \in Ids(q.feed)
                                     \/ \E y \in offered : /\ y.source = x.source
                                                           /\ y.ref = x.ref /\ y # x
             sys == System(q.curated, q.topics)
  <2>1. /\ Curated(q.curated) /\ Topics(q.topics) /\ Context(q.ctx)
        /\ FeedOf(q.feed, q.curated, q.topics, q.ctx)
    BY <1>1, BuiltFeed
  <2> HIDE DEF q
  <2>2. sys = {x \in Items(q.curated) : IsSystem(x)}
              \cup {x \in Items(q.topics) : ~\E y \in Items(q.curated) : StandsFor(y, x)}
    BY <2>1, SystemItemsAre DEF System
  <2> HIDE DEF sys
  <2>3. ASSUME sys \subseteq Items(q.feed)
        PROVE  W
    <3> SUFFICES ASSUME NEW x \in offered, x.id \notin Ids(q.feed)
                 PROVE  \E y \in offered : y.source = x.source /\ y.ref = x.ref /\ y # x
      OBVIOUS
    <3>1. x \notin Items(q.feed)
      BY DEF Items, Ids
    <3>2. x \in Items(q.topics)
      BY <2>2, <2>3, <3>1
    <3>3. PICK y \in Items(q.curated) : StandsFor(y, x)
      BY <2>2, <2>3, <3>1, <3>2
    <3>4. TopicItem(x) /\ ProjectItem(y)
      BY <2>1, <3>2 DEF Curated, Topics
    <3>5. x.id # y.id
      BY <3>4, RecommendationAssumption DEF TopicItem, ProjectItem
    <3>6. y \in offered /\ y.source = x.source /\ y.ref = x.ref
      BY <3>3, <3>4 DEF StandsFor, TopicItem
    <3> QED
      BY <3>5, <3>6
  <2>4. \/ sys \subseteq Items(q.feed) /\ \A y \in served : y \in sys
        \/ q.ctx.signals /\ \A y \in served : Fits(y, q.ctx)
    BY <2>1 DEF FeedOf, sys
  <2>5. ASSUME NEW y \in served, Fits(y, q.ctx)
        PROVE  F(y) /\ (y.group = 0 => q.ctx.preferred # <<>>)
    BY <2>5 DEF Fits, IsEligible
  <2>6. ASSUME NEW y \in sys
        PROVE  y.group = 4
    BY <2>1, <2>2, <2>6 DEF Curated, Topics, ProjectItem, TopicItem, Whole
  <2> HIDE DEF W, F, served
  <2>7. W \/ \A x \in served : F(x)
    BY <2>3, <2>4, <2>5
  <2>8. q.ctx.fallback = "global_feed" => W
    BY <2>1, <2>3, <2>4 DEF Context
  <2>9. q.ctx.fallback = "primary_subject_catalog" => \A x \in served : x.group # 0
    BY <2>1, <2>4, <2>5, <2>6 DEF Context
  <2> QED
    BY <2>7, <2>8, <2>9 DEF W, F, served, q
<1>2. FeedInv => FeedFitsTheTeacher
  BY <1>1 DEF FeedFitsTheTeacher
<1> QED
  BY <1>2, FeedInvariant, PTL

\* compare_items is no order when admin uploads and system items mix.  The stable sort
\* still leaves admin uploads by priority and no system item next to a worse placed one;
\* without admin uploads all items go by group and rank.
THEOREM FeedIsInOrderThm == Spec => []FeedIsInOrder
<1>1. ASSUME FeedInv, NEW r \in Request, Built(req[r])
      PROVE  LET f == req[r].feed
                 mixed == \E i \in DOMAIN f : IsAdmin(f[i])
             IN  \A i, j \in DOMAIN f : i < j =>
                   /\ IsAdmin(f[i]) /\ IsAdmin(f[j]) => f[i].priority >= f[j].priority
                   /\ IsSystem(f[i]) /\ IsSystem(f[j]) /\ (~mixed \/ j = i + 1) =>
                        \/ f[i].group < f[j].group
                        \/ f[i].group = f[j].group /\ f[i].rank <= f[j].rank
  <2> DEFINE f == req[r].feed
             mixed == \E i \in DOMAIN f : IsAdmin(f[i])
  <2>1. FeedOf(f, req[r].curated, req[r].topics, req[r].ctx)
    BY <1>1, BuiltFeed
  <2> HIDE DEF f
  <2> SUFFICES ASSUME NEW i \in DOMAIN f, NEW j \in DOMAIN f, i < j
               PROVE  /\ IsAdmin(f[i]) /\ IsAdmin(f[j]) => f[i].priority >= f[j].priority
                      /\ IsSystem(f[i]) /\ IsSystem(f[j]) /\ (~mixed \/ j = i + 1) =>
                           \/ f[i].group < f[j].group
                           \/ f[i].group = f[j].group /\ f[i].rank <= f[j].rank
    BY DEF f
  <2>2. IsAdmin(f[i]) /\ IsAdmin(f[j]) => f[i].priority >= f[j].priority
    BY <2>1 DEF FeedOf
  <2>3. ASSUME IsSystem(f[i]), IsSystem(f[j]), ~mixed \/ j = i + 1
        PROVE  \/ f[i].group < f[j].group
               \/ f[i].group = f[j].group /\ f[i].rank <= f[j].rank
    <3>1. Comparable(f[i]) /\ Comparable(f[j])
      BY <2>1 DEF FeedOf
    <3>2. CASE j = i + 1
      <4>1. ~CompareItems(f[j], f[i])
        BY <2>1, <3>2 DEF FeedOf
      <4> QED
        BY <2>3, <3>1, <4>1, CompareMeans
    <3>3. CASE ~mixed
      <4>1. \A k \in DOMAIN f : IsSystem(f[k])
        BY <3>3 DEF IsSystem
      <4>2. ~CompareItems(f[j], f[i])
        BY <2>1, <4>1 DEF FeedOf
      <4> QED
        BY <2>3, <3>1, <4>2, CompareMeans
    <3> QED
      BY <2>3, <3>2, <3>3
  <2> QED
    BY <2>2, <2>3
<1>2. FeedInv => FeedIsInOrder
  BY <1>1 DEF FeedIsInOrder
<1> QED
  BY <1>2, FeedInvariant, PTL

--------------------------------------------------------------------------------
(* What is recorded.                                                       *)

\* What projects tell of themselves in source_payload agrees with the taxonomy.
ConsistentPayloads ==
  \A p \in Project : StartProject[p].sub \in SubSubject =>
                       StartProject[p].subject = SubjectOf[StartProject[p].sub]

\* The keys under which items are recorded.
Keys ==
  {<<"system_topic", t>> : t \in Topic} \cup
  {<<StartProject[p].source, IF StartProject[p].ref # NoOne THEN StartProject[p].ref ELSE p>> :
     p \in {q \in Project : StartProject[q].source \in DefaultTrackableSourceTypes}}

Serves(R, r, u, m) == Built(R[r]) /\ R[r].user = u /\ R[r].moment = m

\* A row of u under c tells what u was served, last and first, by the requests R.
RowTrue(R, u, c, a) ==
  /\ \E r \in Request : \E x \in Items(R[r].feed) :
       /\ Serves(R, r, u, a.last) /\ IsSystem(x) /\ RecommendationKey(x) = c
       /\ a.item = x.id /\ a.sub = x.sub /\ a.subject = x.subject
  /\ \E r \in Request : Serves(R, r, u, a.first)

\* The rows by their keys: finitely many, and all of them true.
RowsTrue(R, rows) ==
  /\ IsFiniteSet(DOMAIN rows)
  /\ \A k \in DOMAIN rows : \E u \in User, c \in Keys :
       k = <<u, c>> /\ RowTrue(R, u, c, rows[k])

\* What a request has still to record is from its feed.
TodoInv(q) ==
  /\ q.user \in User \cup {NoOne} /\ q.moment \in Int
  /\ q.at \in {"projects", "topics", "track"} => q.on
  /\ q.at = "track" =>
       /\ q.user \in User /\ List(q.todo) /\ q.todo # <<>>
       /\ \A x \in Items(q.todo) : x \in Items(q.feed) /\ IsSystem(x)

\* What was served is recorded, under one of the keys in done, or about to be.
Covered(q, done) ==
  Built(q) /\ q.user \in User /\ ~q.failed =>
    \A x \in Items(q.feed) : IsSystem(x) =>
      \/ <<q.user, RecommendationKey(x)>> \in done
      \/ q.at = "track" /\ \E y \in Items(q.todo) : RecommendationKey(y) = RecommendationKey(x)

RecordInv ==
  /\ RowsTrue(req, assignment)
  /\ \A r \in Request : TodoInv(req[r]) /\ Covered(req[r], DOMAIN assignment)

\* The reference in a key tells the key.
LEMMA KeysApart ==
  /\ \A k \in Keys : k = <<k[1], k[2]>> /\ k[1] \in DefaultTrackableSourceTypes /\ k[2] \in EveryId
  /\ \A k, l \in Keys : k[2] = l[2] => k = l
<1> DEFINE A == {<<"system_topic", t>> : t \in Topic}
           own(p) == IF StartProject[p].ref # NoOne THEN StartProject[p].ref ELSE p
           P == {q \in Project : StartProject[q].source \in DefaultTrackableSourceTypes}
           B == {<<StartProject[p].source, own(p)>> : p \in P}
<1>1. Keys = A \cup B
  BY DEF Keys
<1>2. \A t \in Topic : t \in EveryId /\ t \notin Project
  BY RecommendationAssumption DEF EveryId
<1>3. \A p \in P : /\ p \in Project /\ own(p) \in EveryId
                   /\ StartProject[p].source \in {"system_topic", "ai_generated"}
  BY DEF EveryId, DefaultTrackableSourceTypes
<1>4. ASSUME NEW p \in P, NEW q \in P, own(p) = own(q)
      PROVE  StartProject[p].source = StartProject[q].source
  BY <1>3, <1>4, RecommendationAssumption
<1>5. ASSUME NEW p \in P, NEW t \in Topic, own(p) = t
      PROVE  StartProject[p].source = "system_topic"
  BY <1>2, <1>3, <1>5, RecommendationAssumption
<1> HIDE DEF own, P
<1>6. \A k \in Keys : k = <<k[1], k[2]>> /\ k[1] \in DefaultTrackableSourceTypes /\ k[2] \in EveryId
  BY <1>1, <1>2, <1>3 DEF DefaultTrackableSourceTypes
<1>7. \A k \in Keys : \/ k[1] = "system_topic" /\ k[2] \in Topic
                      \/ \E p \in P : k[1] = StartProject[p].source /\ k[2] = own(p)
  BY <1>1
<1>8. ASSUME NEW k \in Keys, NEW l \in Keys, k[2] = l[2]
      PROVE  k = l
  <2>1. k[1] = l[1]
    BY <1>4, <1>5, <1>7, <1>8
  <2> QED
    BY <1>6, <1>8, <2>1
<1> QED
  BY <1>6, <1>8

\* What an item of the feed tells.
Telling(y) ==
  IsSystem(y) => /\ y.source \in DefaultTrackableSourceTypes /\ RecommendationKey(y) \in Keys
                 /\ ConsistentPayloads /\ y.sub \in SubSubject => y.subject = SubjectOf[y.sub]

\* A system item of the feed can be recorded.
LEMMA FeedTells ==
  ASSUME NEW curated, NEW topics, Curated(curated), Topics(topics), NEW ctx,
         NEW f, FeedOf(f, curated, topics, ctx)
  PROVE  \A y \in Items(f) : Telling(y)
<1> SUFFICES ASSUME NEW y \in Items(f), IsSystem(y)
             PROVE  Telling(y)
  BY DEF Telling
<1>1. PICK x \in Items(curated) \cup Items(topics) : Noted(y, x)
  BY DEF FeedOf
<1>2. /\ y.source = x.source /\ y.sub = x.sub /\ y.subject = x.subject
      /\ RecommendationKey(y) = RecommendationKey(x) /\ IsSystem(x)
  BY <1>1, NotedKey DEF Noted
<1>3. CASE x \in Items(topics)
  <2>1. TopicItem(x)
    BY <1>3 DEF Topics
  <2>2. x.ref \in Topic /\ x.ref # NoOne
    BY <2>1, RecommendationAssumption DEF TopicItem
  <2>3. RecommendationKey(x) = <<"system_topic", x.ref>>
    BY <2>1, <2>2 DEF TopicItem, RecommendationKey, MakeSourceKey, ResolveSourceReference
  <2>4. RecommendationKey(x) \in Keys
    BY <2>2, <2>3 DEF Keys
  <2> QED
    BY <1>2, <2>1, <2>4 DEF TopicItem, Telling, DefaultTrackableSourceTypes
<1>4. CASE x \in Items(curated)
  <2>1. ProjectItem(x)
    BY <1>4 DEF Curated
  <2> DEFINE p == x.id
  <2>2. /\ p \in Project /\ x.source = StartProject[p].source /\ x.ref = StartProject[p].ref
        /\ x.sub = StartProject[p].sub /\ x.subject = StartProject[p].subject
    BY <2>1 DEF ProjectItem
  <2>3. x.source \in DefaultTrackableSourceTypes
    BY <1>2, <2>2, RecommendationAssumption DEF IsSystem, IsAdmin, DefaultTrackableSourceTypes
  <2>4. RecommendationKey(x) =
          <<StartProject[p].source, IF StartProject[p].ref # NoOne THEN StartProject[p].ref ELSE p>>
    BY <2>2 DEF RecommendationKey, MakeSourceKey, ResolveSourceReference
  <2>5. RecommendationKey(x) \in Keys
    BY <2>2, <2>3, <2>4 DEF Keys
  <2>6. ConsistentPayloads /\ x.sub \in SubSubject => x.subject = SubjectOf[x.sub]
    BY <2>2 DEF ConsistentPayloads
  <2> QED
    BY <1>2, <2>3, <2>5, <2>6 DEF Telling
<1> QED
  BY <1>3, <1>4

\* track_served keeps the items of a trackable type; no two have one key.
LEMMA TrackableAre ==
  ASSUME NEW f, List(f), Distinct(f), \A y \in Items(f) : Telling(y)
  PROVE  /\ List(Trackable(f))
         /\ Items(Trackable(f)) = {y \in Items(f) : IsSystem(y)}
<1> DEFINE kept == {i \in DOMAIN f : f[i].source \in DefaultTrackableSourceTypes}
           P == {i \in kept : \A j \in kept :
                   j < i => RecommendationKey(f[j]) # RecommendationKey(f[i])}
<1>1. Trackable(f) = Pick(f, P)
  BY DEF Trackable
<1>2. DOMAIN f = 1 .. Len(f) /\ Len(f) \in Nat
  BY DEF List
<1>3. P = kept
  <2> SUFFICES ASSUME NEW i \in kept, NEW j \in kept, j < i,
                      RecommendationKey(f[j]) = RecommendationKey(f[i])
               PROVE  FALSE
    OBVIOUS
  <2> QED
    BY <1>2 DEF Distinct
<1>4. \A i \in DOMAIN f : i \in kept <=> IsSystem(f[i])
  <2> SUFFICES ASSUME NEW i \in DOMAIN f
               PROVE  f[i].source \in DefaultTrackableSourceTypes <=> IsSystem(f[i])
    OBVIOUS
  <2>1. Telling(f[i])
    BY ItemsOf
  <2> QED
    BY <2>1 DEF Telling, IsSystem, IsAdmin, DefaultTrackableSourceTypes
<1>5. {f[i] : i \in P} = {y \in Items(f) : IsSystem(y)}
  BY <1>3, <1>4 DEF Items
<1>6. P \subseteq DOMAIN f
  OBVIOUS
<1> HIDE DEF P, kept
<1> QED
  BY <1>1, <1>5, <1>6, PickLists

\* What was served stays served.
LEMMA RowStays ==
  ASSUME NEW R, NEW S,
         \A r \in Request : Built(R[r]) => /\ Built(S[r]) /\ S[r].user = R[r].user
                                           /\ S[r].moment = R[r].moment /\ S[r].feed = R[r].feed,
         NEW u, NEW c, NEW a, RowTrue(R, u, c, a)
  PROVE  RowTrue(S, u, c, a)
<1>1. \A r \in Request : \A m : Serves(R, r, u, m) => Serves(S, r, u, m) /\ S[r].feed = R[r].feed
  BY DEF Serves
<1>2. PICK r \in Request : \E x \in Items(R[r].feed) :
        /\ Serves(R, r, u, a.last) /\ IsSystem(x) /\ RecommendationKey(x) = c
        /\ a.item = x.id /\ a.sub = x.sub /\ a.subject = x.subject
  BY DEF RowTrue
<1>3. PICK r0 \in Request : Serves(R, r0, u, a.first)
  BY DEF RowTrue
<1>4. Serves(S, r, u, a.last) /\ S[r].feed = R[r].feed /\ Serves(S, r0, u, a.first)
  BY <1>1, <1>2, <1>3
<1> QED
  BY <1>2, <1>4 DEF RowTrue

\* More keys cover what fewer do.
LEMMA MoreCover ==
  ASSUME NEW q, NEW done, NEW more, done \subseteq more, Covered(q, done)
  PROVE  Covered(q, more)
BY DEF Covered

\* A request takes a step that records nothing.
LEMMA RecordsStay ==
  ASSUME RecordInv, NEW r \in Request, DOMAIN req' = Request,
         \A s \in Request : s # r => req'[s] = req[s],
         UNCHANGED assignment,
         TodoInv(req'[r]), Covered(req'[r], DOMAIN assignment),
         Built(req[r]) => /\ Built(req'[r]) /\ req'[r].user = req[r].user
                          /\ req'[r].moment = req[r].moment /\ req'[r].feed = req[r].feed
  PROVE  RecordInv'
<1>1. \A s \in Request : Built(req[s]) =>
        /\ Built(req'[s]) /\ req'[s].user = req[s].user
        /\ req'[s].moment = req[s].moment /\ req'[s].feed = req[s].feed
  OBVIOUS
<1>2. RowsTrue(req', assignment)
  <2> SUFFICES ASSUME NEW k \in DOMAIN assignment
               PROVE  \E u \in User, c \in Keys :
                        k = <<u, c>> /\ RowTrue(req', u, c, assignment[k])
    BY DEF RecordInv, RowsTrue
  <2>1. PICK u \in User, c \in Keys : k = <<u, c>> /\ RowTrue(req, u, c, assignment[k])
    BY DEF RecordInv, RowsTrue
  <2>2. RowTrue(req', u, c, assignment[k])
    BY <1>1, <2>1, RowStays
  <2> QED
    BY <2>1, <2>2
<1>3. \A s \in Request : TodoInv(req'[s]) /\ Covered(req'[s], DOMAIN assignment)
  BY DEF RecordInv
<1>4. RowsTrue(req, assignment)'
  BY <1>2 DEF RowsTrue, RowTrue, Serves, Built, Items
<1>5. \A s \in Request : TodoInv(req[s])'
  BY <1>3 DEF TodoInv, List, Items
<1>6. \A s \in Request : Covered(req[s], DOMAIN assignment)'
  BY <1>3 DEF Covered, Built, Items
<1> QED
  BY <1>4, <1>5, <1>6 DEF RecordInv

\* A list is its first item and the rest.
LEMMA HeadAndTail ==
  ASSUME NEW s, List(s), s # <<>>
  PROVE  /\ List(Tail(s)) /\ Items(s) = {Head(s)} \cup Items(Tail(s))
         /\ Tail(s) = <<>> <=> Len(s) = 1
<1> DEFINE n == Len(s)
           t == Tail(s)
<1>1. n \in Nat /\ DOMAIN s = 1 .. n /\ s \in Seq(Items(s))
  BY DEF List
<1>2. n # 0
  BY <1>1
<1>3. t \in Seq(Items(s)) /\ Len(t) = n - 1 /\ \A i \in 1 .. n - 1 : t[i] = s[i + 1]
  BY <1>1
<1>4. Head(s) = s[1] /\ 1 \in 1 .. n
  BY <1>1, <1>2
<1> HIDE DEF t
<1>5. n - 1 \in Nat /\ DOMAIN t = 1 .. n - 1 /\ t \in [1 .. n - 1 -> Items(s)]
  BY <1>1, <1>2, <1>3, LenProperties
<1>6. List(t) /\ Items(t) \subseteq Items(s)
  BY <1>3, <1>5, ListsAre
<1>7. ASSUME NEW i \in 1 .. n
      PROVE  s[i] \in {Head(s)} \cup Items(t)
  <2>1. CASE i = 1
    BY <1>4, <2>1
  <2>2. CASE i # 1
    <3>1. i - 1 \in 1 .. n - 1 /\ (i - 1) + 1 = i
      BY <1>1, <2>2
    <3>2. s[i] = t[i - 1]
      BY <1>3, <3>1
    <3> QED
      BY <1>5, <3>1, <3>2, ItemsOf
  <2> QED
    BY <2>1, <2>2
<1>8. Items(s) = {Head(s)} \cup Items(t)
  <2>1. Items(s) \subseteq {Head(s)} \cup Items(t)
    BY <1>1, <1>7, ItemsOf
  <2>2. Head(s) \in Items(s)
    BY <1>1, <1>4, ItemsOf
  <2> QED
    BY <1>6, <2>1, <2>2
<1>9. t = <<>> <=> n = 1
  <2>1. t = <<>> => n = 1
    <3>1. t = <<>> => Len(t) = 0
      OBVIOUS
    <3>2. Len(t) = n - 1 /\ n \in Nat
      BY <1>1, <1>3
    <3> HIDE DEF n
    <3> QED
      BY <3>1, <3>2
  <2>2. n = 1 => t = <<>>
    BY <1>3
  <2> QED
    BY <2>1, <2>2
<1> QED
  BY <1>6, <1>8, <1>9 DEF t

\* Requests that are not at "track" and have not built a feed have nothing to record.
LEMMA NothingDue ==
  ASSUME NEW q, ~Built(q), q.at # "track", NEW done
  PROVE  Covered(q, done)
BY DEF Covered

\* The first state has no rows.
LEMMA RecordInit == Init => RecordInv
<1> SUFFICES ASSUME Init
             PROVE  RecordInv
  OBVIOUS
<1>1. DOMAIN assignment = {}
  BY DEF Init
<1>2. RowsTrue(req, assignment)
  BY <1>1, FS_EmptySet DEF RowsTrue
<1>3. \A r \in Request : req[r] = Idle
  BY DEF Init
<1>4. Idle.at = "idle" /\ Idle.user = NoOne /\ Idle.moment = 0
  BY DEF Idle
<1>5. TodoInv(Idle) /\ Covered(Idle, DOMAIN assignment)
  BY <1>4, NothingDue DEF TodoInv, Built
<1> QED
  BY <1>2, <1>3, <1>5 DEF RecordInv

\* The reads of a request.
LEMMA ReadsRecord ==
  ASSUME FeedInv, RecordInv, NEW r \in Request,
         \/ \E u \in User \cup {NoOne} : Arrive(r, u)
         \/ LoadSection(r) \/ ReadContext(r) \/ ReadProjects(r) \/ Refuse(r) \/ TrackFails(r)
  PROVE  RecordInv'
<1> DEFINE q == req[r]
           w == req'[r]
<1>0. DOMAIN req = Request /\ now \in Int /\ DOMAIN q = Slots /\ q.on \in BOOLEAN
  BY DEF FeedInv, Columned, Kept
<1>a. TodoInv(q)
  BY DEF RecordInv
<1> DEFINE Steps == /\ DOMAIN req' = Request /\ \A s \in Request : s # r => req'[s] = req[s]
                    /\ UNCHANGED assignment
<1>1. ASSUME NEW u \in User \cup {NoOne}, Arrive(r, u)
      PROVE  RecordInv'
  <2>1. Steps /\ w.at = "section" /\ w.user = u /\ w.moment = now /\ q.at = "idle"
    BY <1>0, <1>1 DEF Arrive, Slots
  <2>2. TodoInv(w) /\ Covered(w, DOMAIN assignment) /\ ~Built(q)
    BY <1>0, <2>1, NothingDue DEF TodoInv, Built
  <2> QED
    BY <2>1, <2>2, RecordsStay
<1>2. ASSUME LoadSection(r)
      PROVE  RecordInv'
  <2>1. Steps /\ w.at = "context" /\ w.user = q.user /\ w.moment = q.moment /\ q.at = "section"
    BY <1>0, <1>2 DEF LoadSection, Slots
  <2>2. TodoInv(w) /\ Covered(w, DOMAIN assignment) /\ ~Built(q)
    BY <1>a, <2>1, NothingDue DEF TodoInv, Built
  <2> QED
    BY <2>1, <2>2, RecordsStay
<1>3. ASSUME ReadContext(r)
      PROVE  RecordInv'
  <2>1. /\ Steps /\ w.user = q.user /\ w.moment = q.moment /\ q.at = "context" /\ w.on = q.on
        /\ w.at = IF q.on THEN "projects" ELSE "answered"
    BY <1>0, <1>3 DEF ReadContext, Slots
  <2>2. TodoInv(w) /\ Covered(w, DOMAIN assignment) /\ ~Built(q)
    BY <1>a, <2>1, NothingDue DEF TodoInv, Built
  <2> QED
    BY <2>1, <2>2, RecordsStay
<1>4. ASSUME ReadProjects(r)
      PROVE  RecordInv'
  <2>1. /\ Steps /\ w.user = q.user /\ w.moment = q.moment /\ q.at = "projects" /\ w.on = q.on
        /\ w.at = "topics"
    BY <1>0, <1>4 DEF ReadProjects, Slots
  <2>2. TodoInv(w) /\ Covered(w, DOMAIN assignment) /\ ~Built(q)
    BY <1>a, <2>1, NothingDue DEF TodoInv, Built
  <2> QED
    BY <2>1, <2>2, RecordsStay
<1>5. ASSUME Refuse(r)
      PROVE  RecordInv'
  <2>1. /\ Steps /\ w = [Idle EXCEPT !.at = "refused"]
        /\ q.at \in {"section", "context", "projects", "topics"}
    BY <1>0, <1>5 DEF Refuse
  <2>2. w.at = "refused" /\ w.user = NoOne /\ w.moment = 0
    BY <2>1 DEF Idle
  <2> HIDE DEF w
  <2>3. TodoInv(w)
    BY <2>2 DEF TodoInv
  <2>4. Covered(w, DOMAIN assignment)
    BY <2>2, NothingDue DEF Built
  <2>5. ~Built(q)
    BY <2>1 DEF Built
  <2> QED
    BY <2>1, <2>3, <2>4, <2>5, RecordsStay DEF w
<1>6. ASSUME TrackFails(r)
      PROVE  RecordInv'
  <2>1. /\ Steps /\ w.user = q.user /\ w.moment = q.moment /\ q.at = "track" /\ w.on = q.on
        /\ w.at = "answered" /\ w.failed /\ w.feed = q.feed
    BY <1>0, <1>6 DEF TrackFails, Slots
  <2>2. TodoInv(w) /\ Covered(w, DOMAIN assignment) /\ (Built(q) => Built(w))
    BY <1>a, <2>1 DEF TodoInv, Built, Covered
  <2> QED
    BY <2>1, <2>2, RecordsStay
<1> QED
  BY <1>1, <1>2, <1>3, <1>4, <1>5, <1>6

\* A feed of a teacher is served when all of its system items are to be recorded.
LEMMA TopicsRecord ==
  ASSUME FeedInv, RecordInv, NEW r \in Request, ReadTopics(r)
  PROVE  RecordInv'
<1> DEFINE q == req[r]
           w == req'[r]
           topics(ts) == [i \in DOMAIN ts |-> NormalizeTopicItem(ts[i])]
           feed(ts) == BuildFeedSnapshot(q.curated, topics(ts), q.ctx)
           todo(ts) == IF q.user = NoOne THEN <<>> ELSE Trackable(feed(ts))
<1>0. /\ DOMAIN req = Request /\ DOMAIN q = Slots /\ Columned
      /\ Context(q.ctx) /\ Curated(q.curated)
  BY DEF FeedInv, Kept
<1>1. PICK ts \in QueryPublishedTopics :
        req' = [req EXCEPT ![r].at = IF todo(ts) = <<>> THEN "answered" ELSE "track",
                           ![r].topics = topics(ts), ![r].feed = feed(ts), ![r].todo = todo(ts)]
  BY ZenonT(30) DEF ReadTopics
<1> DEFINE t == topics(ts)
           f == feed(ts)
           d == todo(ts)
<1>2. Topics(t) /\ f = BuildFeedSnapshot(q.curated, t, q.ctx)
  BY <1>0, TopicsRead
<1>3. /\ d = IF q.user = NoOne THEN <<>> ELSE Trackable(f)
      /\ req' = [req EXCEPT ![r].at = IF d = <<>> THEN "answered" ELSE "track",
                           ![r].topics = t, ![r].feed = f, ![r].todo = d]
  BY <1>1
<1> HIDE DEF t, f, d
<1>4. FeedOf(f, q.curated, t, q.ctx)
  BY <1>0, <1>2, FeedIs
<1>5. List(f) /\ Distinct(f) /\ \A y \in Items(f) : Telling(y)
  <2>1. \A y \in Items(f) : Telling(y)
    BY <1>0, <1>2, <1>4, FeedTells
  <2> QED
    BY <1>4, <2>1 DEF FeedOf
<1>6. List(Trackable(f)) /\ Items(Trackable(f)) = {y \in Items(f) : IsSystem(y)}
  BY <1>5, TrackableAre
<1>7. /\ DOMAIN req' = Request /\ \A s \in Request : s # r => req'[s] = req[s]
  BY <1>0, <1>3
<1>8. /\ w.at = IF d = <<>> THEN "answered" ELSE "track"
      /\ w.feed = f /\ w.todo = d
      /\ w.user = q.user /\ w.moment = q.moment /\ w.on = q.on /\ w.failed = q.failed
  BY <1>0, <1>3, SMTT(30) DEF Slots
<1>9. q.at = "topics" /\ UNCHANGED assignment
  BY DEF ReadTopics
<1>10. TodoInv(q) /\ NoOne \notin User
  BY RecommendationAssumption DEF RecordInv
<1>11. TodoInv(w)
  <2>1. w.user \in User \cup {NoOne} /\ w.moment \in Int /\ w.on
    BY <1>8, <1>9, <1>10 DEF TodoInv
  <2>2. ASSUME w.at = "track"
        PROVE  /\ w.user \in User /\ List(w.todo) /\ w.todo # <<>>
               /\ \A x \in Items(w.todo) : x \in Items(w.feed) /\ IsSystem(x)
    <3>1. d # <<>>
      BY <1>8, <2>2
    <3>2. q.user # NoOne /\ d = Trackable(f)
      BY <1>3, <3>1
    <3> QED
      BY <1>6, <1>8, <2>1, <3>1, <3>2
  <2> HIDE DEF w
  <2> QED
    BY <2>1, <2>2 DEF TodoInv
<1>12. Covered(w, DOMAIN assignment)
  <2> SUFFICES ASSUME w.user \in User, NEW x \in Items(f), IsSystem(x)
               PROVE  w.at = "track" /\ x \in Items(w.todo)
    BY <1>8 DEF Covered
  <2>1. d = Trackable(f) /\ x \in Items(d)
    BY <1>3, <1>6, <1>8, <1>10
  <2>2. d # <<>>
    BY <2>1 DEF Items
  <2> QED
    BY <1>8, <2>1, <2>2
<1>13. ~Built(q)
  BY <1>9 DEF Built
<1> QED
  BY <1>7, <1>9, <1>11, <1>12, <1>13, RecordsStay

\* One row is written: what it says is what its request serves.
LEMMA RowWritten ==
  ASSUME NEW R, NEW S, NEW rows, NEW more, RowsTrue(R, rows),
         \A r \in Request : Built(R[r]) => /\ Built(S[r]) /\ S[r].user = R[r].user
                                           /\ S[r].moment = R[r].moment /\ S[r].feed = R[r].feed,
         NEW u \in User, NEW c \in Keys, NEW row,
         more = [k \in DOMAIN rows \cup {<<u, c>>} |-> IF k = <<u, c>> THEN row ELSE rows[k]],
         RowTrue(S, u, c, row)
  PROVE  RowsTrue(S, more)
<1>1. DOMAIN more = DOMAIN rows \cup {<<u, c>>}
  OBVIOUS
<1>2. IsFiniteSet(DOMAIN more)
  BY <1>1, FS_AddElement DEF RowsTrue
<1>3. ASSUME NEW k \in DOMAIN rows, k # <<u, c>>
      PROVE  \E v \in User, d \in Keys : k = <<v, d>> /\ RowTrue(S, v, d, more[k])
  <2>1. more[k] = rows[k]
    BY <1>3
  <2>2. PICK v \in User, d \in Keys : k = <<v, d>> /\ RowTrue(R, v, d, rows[k])
    BY DEF RowsTrue
  <2>3. RowTrue(S, v, d, rows[k])
    BY <2>2, RowStays
  <2> QED
    BY <2>1, <2>2, <2>3
<1>4. more[<<u, c>>] = row
  OBVIOUS
<1>5. \A k \in DOMAIN more : \E v \in User, d \in Keys : k = <<v, d>> /\ RowTrue(S, v, d, more[k])
  BY <1>1, <1>3, <1>4
<1> QED
  BY <1>2, <1>5 DEF RowsTrue

\* track_served writes the row of the first item it has still to record.
LEMMA TrackRecords ==
  ASSUME FeedInv, RecordInv, NEW r \in Request, TrackServed(r)
  PROVE  RecordInv'
<1> DEFINE q == req[r]
           w == req'[r]
           h == Head(q.todo)
           t == Tail(q.todo)
           u == q.user
           c == RecommendationKey(h)
           k == <<u, c>>
           first == IF k \in DOMAIN assignment THEN assignment[k].first ELSE q.moment
           row == [item |-> h.id, subject |-> h.subject, sub |-> h.sub,
                   first |-> first, last |-> q.moment]
<1>0. DOMAIN req = Request /\ DOMAIN q = Slots
  BY DEF FeedInv, Kept
<1>1. /\ q.at = "track" /\ q.on /\ u \in User /\ List(q.todo) /\ q.todo # <<>> /\ q.moment \in Int
      /\ \A x \in Items(q.todo) : x \in Items(q.feed) /\ IsSystem(x)
  BY DEF RecordInv, TodoInv, TrackServed
<1>2. /\ assignment' = [x \in DOMAIN assignment \cup {k} |-> IF x = k THEN row ELSE assignment[x]]
      /\ req' = [req EXCEPT ![r].todo = Tail(@),
                            ![r].at = IF Len(req[r].todo) = 1 THEN "answered" ELSE "track"]
  BY DEF TrackServed, Upsert
<1>3. /\ DOMAIN req' = Request /\ \A s \in Request : s # r => req'[s] = req[s]
      /\ w.at = IF Len(q.todo) = 1 THEN "answered" ELSE "track"
      /\ w.todo = t /\ w.feed = q.feed /\ w.user = u /\ w.moment = q.moment /\ w.on = q.on
      /\ w.failed = q.failed
  BY <1>0, <1>2, SMTT(30) DEF Slots
<1>4. /\ List(t) /\ Items(q.todo) = {h} \cup Items(t) /\ (t = <<>> <=> Len(q.todo) = 1)
  BY <1>1, HeadAndTail
<1>5. Built(q) /\ Built(w)
  BY <1>1, <1>3 DEF Built
<1>6. h \in Items(q.feed) /\ IsSystem(h) /\ c \in Keys
  <2>1. /\ Curated(q.curated) /\ Topics(q.topics)
        /\ FeedOf(q.feed, q.curated, q.topics, q.ctx)
    BY <1>5, BuiltFeed
  <2>2. Telling(h)
    BY <1>1, <1>4, <2>1, FeedTells
  <2> QED
    BY <1>1, <1>4, <2>2 DEF Telling
<1> DEFINE R == req
           S == req'
           rows == assignment
           more == assignment'
<1>7. \A s \in Request : Built(R[s]) => /\ Built(S[s]) /\ S[s].user = R[s].user
                                        /\ S[s].moment = R[s].moment /\ S[s].feed = R[s].feed
  BY <1>3, <1>5
<1>8. RowsTrue(R, rows)
  BY DEF RecordInv
<1>9. RowTrue(S, u, c, row)
  <2>1. Serves(S, r, u, q.moment)
    BY <1>3, <1>5 DEF Serves
  <2>2. \E s \in Request : Serves(S, s, u, row.first)
    <3>1. CASE k \in DOMAIN assignment
      <4>1. PICK v \in User, d \in Keys : k = <<v, d>> /\ RowTrue(R, v, d, rows[k])
        BY <1>8, <3>1 DEF RowsTrue
      <4>2. v = u
        BY <4>1
      <4>3. RowTrue(S, v, d, rows[k])
        <5> HIDE DEF R, S, rows, k
        <5> QED
          BY <1>7, <4>1, RowStays
      <4>4. row.first = rows[k].first
        BY <3>1
      <4> QED
        BY <4>2, <4>3, <4>4 DEF RowTrue
    <3>2. CASE k \notin DOMAIN assignment
      BY <2>1, <3>2
    <3> QED
      BY <3>1, <3>2
  <2>3. h \in Items(S[r].feed)
    BY <1>3, <1>6
  <2>4. row.last = q.moment /\ row.item = h.id /\ row.sub = h.sub /\ row.subject = h.subject
    OBVIOUS
  <2> HIDE DEF row, S, h
  <2> QED
    BY <1>6, <2>1, <2>2, <2>3, <2>4 DEF RowTrue
<1>10. more = [x \in DOMAIN rows \cup {k} |-> IF x = k THEN row ELSE rows[x]]
  BY <1>2
<1>11. RowsTrue(S, more)
  <2> HIDE DEF R, S, rows, more, row, u, c
  <2> QED
    BY <1>1, <1>6, <1>7, <1>8, <1>9, <1>10, RowWritten
<1>12. TodoInv(w)
  <2>1. TodoInv(q)
    BY DEF RecordInv
  <2>2. w.at = "track" => t # <<>>
    BY <1>3, <1>4
  <2> HIDE DEF q, w, t, h
  <2> QED
    BY <1>1, <1>3, <1>4, <2>1, <2>2 DEF TodoInv
<1>13. Covered(w, DOMAIN more)
  <2> SUFFICES ASSUME ~w.failed, NEW x \in Items(q.feed), IsSystem(x),
                      <<u, RecommendationKey(x)>> \notin DOMAIN more
               PROVE  w.at = "track" /\ \E y \in Items(t) : RecommendationKey(y) = RecommendationKey(x)
    BY <1>3 DEF Covered
  <2>1. k \in DOMAIN more /\ DOMAIN rows \subseteq DOMAIN more
    BY <1>10
  <2>2. Covered(q, DOMAIN rows)
    BY DEF RecordInv
  <2>3. PICK y \in Items(q.todo) : RecommendationKey(y) = RecommendationKey(x)
    BY <1>1, <1>3, <1>5, <2>1, <2>2 DEF Covered
  <2>4. y # h
    BY <2>1, <2>3
  <2>5. y \in Items(t)
    BY <1>4, <2>3, <2>4
  <2>6. t # <<>>
    BY <2>5 DEF Items
  <2> QED
    BY <1>3, <1>4, <2>3, <2>5, <2>6
<1>14. \A s \in Request : TodoInv(S[s]) /\ Covered(S[s], DOMAIN more)
  <2> SUFFICES ASSUME NEW s \in Request, s # r
               PROVE  TodoInv(S[s]) /\ Covered(S[s], DOMAIN more)
    BY <1>12, <1>13
  <2>1. S[s] = R[s]
    BY <1>3
  <2>2. TodoInv(R[s]) /\ Covered(R[s], DOMAIN rows)
    BY DEF RecordInv
  <2>3. DOMAIN rows \subseteq DOMAIN more
    BY <1>10
  <2> QED
    BY <2>1, <2>2, <2>3, MoreCover
<1>15. RowsTrue(req, assignment)'
  BY <1>11 DEF RowsTrue, RowTrue, Serves, Built, Items
<1>16. \A s \in Request : TodoInv(req[s])'
  BY <1>14 DEF TodoInv, List, Items
<1>17. \A s \in Request : Covered(req[s], DOMAIN assignment)'
  BY <1>14 DEF Covered, Built, Items
<1> QED
  BY <1>15, <1>16, <1>17 DEF RecordInv

\* Edits reach no row and no request.
LEMMA EditRecords ==
  ASSUME RecordInv, UNCHANGED <<assignment, req>>
  PROVE  RecordInv'
<1>1. RowsTrue(req, assignment)'
  BY DEF RecordInv, RowsTrue, RowTrue, Serves, Built, Items
<1>2. \A s \in Request : TodoInv(req'[s]) /\ Covered(req'[s], DOMAIN assignment')
  BY DEF RecordInv
<1>3. \A s \in Request : TodoInv(req[s])'
  BY <1>2 DEF TodoInv, List, Items
<1>4. \A s \in Request : Covered(req[s], DOMAIN assignment)'
  BY <1>2 DEF Covered, Built, Items
<1> QED
  BY <1>1, <1>3, <1>4 DEF RecordInv

\* Every step preserves the invariant.
LEMMA RecordStep == FeedInv /\ RecordInv /\ [Next]_vars => RecordInv'
<1> SUFFICES ASSUME FeedInv, RecordInv, [Next]_vars
             PROVE  RecordInv'
  OBVIOUS
<1>1. ASSUME NEW r \in Request, Serve(r)
      PROVE  RecordInv'
  BY <1>1, ReadsRecord, TopicsRecord, TrackRecords DEF Serve
<1>2. ASSUME \/ \E t \in Topic : SetPublish(t) \/ UpdateTopic(t)
             \/ \E p \in Project : ToggleActive(p)
             \/ ToggleSection
             \/ UNCHANGED vars
      PROVE  RecordInv'
  BY <1>2, EditRecords DEF SetPublish, UpdateTopic, ToggleActive, ToggleSection, Edit, vars
<1> QED
  BY <1>1, <1>2 DEF Next

\* Whatever requests interleave, the rows are true and nothing that was served is missing.
THEOREM RecordInvariant == Spec => [](FeedInv /\ RecordInv)
<1>1. Init => FeedInv /\ RecordInv
  BY FeedInit, RecordInit
<1>2. FeedInv /\ RecordInv /\ [Next]_vars => (FeedInv /\ RecordInv)'
  BY FeedStep, RecordStep
<1> QED
  BY <1>1, <1>2, PTL DEF Spec

--------------------------------------------------------------------------------
(* The summary.                                                            *)

\* Keys of which neither is less are the same.
LEMMA LexTotal ==
  ASSUME NEW n \in Nat, NEW a, NEW b, Numbers(a, n), Numbers(b, n),
         ~LexLess(a, b), ~LexLess(b, a)
  PROVE  \A i \in 1 .. n : a[i] = b[i]
<1> DEFINE D == {i \in 1 .. n : a[i] # b[i]}
<1> SUFFICES ASSUME D # {}
             PROVE  FALSE
  OBVIOUS
<1>1. D \in SUBSET Nat
  OBVIOUS
<1>2. PICK k \in D : \A x \in D : k <= x
  <2> HIDE DEF D
  <2> QED
    BY <1>1, LeastElement
<1>3. /\ k \in 1 .. n /\ a[k] # b[k]
      /\ a[k] \in Int /\ b[k] \in Int
  BY <1>2 DEF Numbers
<1>4. ASSUME NEW j \in 1 .. (k - 1)
      PROVE  a[j] = b[j]
  <2>1. j \in 1 .. n /\ ~(k <= j)
    BY <1>3
  <2>2. j \notin D
    BY <1>2, <2>1
  <2> QED
    BY <2>1, <2>2
<1>5. a[k] < b[k] \/ b[k] < a[k]
  BY <1>3
<1> QED
  BY <1>3, <1>4, <1>5 DEF LexLess, Numbers

\* What lexicographic order has: of two different elements exactly one is less, and not
\* to be less is transitive.
Compares(S, before) ==
  /\ before \in [S -> SUBSET S]
  /\ \A i, j \in S : i # j => i \in before[j] \/ j \in before[i]
  /\ \A i, j \in S : ~(i \in before[j] /\ j \in before[i])
  /\ \A i, j, k \in S : j \notin before[i] /\ k \notin before[j] => k \notin before[i]

\* That makes a strict order.
LEMMA StrictOrder ==
  ASSUME NEW S, NEW before, Compares(S, before)
  PROVE  Orders(S, before)
<1> USE DEF Compares
<1>1. ASSUME NEW i \in S, NEW j \in S, i \in before[j], NEW k \in before[i]
      PROVE  k \in before[j]
  <2>1. k \in S
    BY <1>1
  <2>2. j \notin before[i] /\ i \notin before[k]
    BY <1>1, <2>1
  <2>3. j \notin before[k]
    BY <2>1, <2>2
  <2>4. k # j
    BY <1>1, <2>2
  <2> QED
    BY <2>1, <2>3, <2>4
<1>2. \A i, j \in S : i \in before[j] => before[i] \subseteq before[j]
  BY <1>1
<1> QED
  BY <1>2 DEF Orders

\* The candidates of the summary: each has its numbers, and one key and sub-subject.
Summable(X) ==
  /\ IsFiniteSet(X)
  /\ \A a \in X : /\ a.users \in Int /\ a.latest \in Int
                  /\ a.key \in Keys /\ a.sub \in SubSubject
  /\ \A a, b \in X : a.key = b.key /\ a.sub = b.sub => a = b

Standing(a) == <<-a.users, -a.latest, IdRank[a.key[2]]>>

\* compare_distribution_candidates orders the candidates of a sub-subject.
LEMMA CandidatesOrdered ==
  ASSUME NEW X, Summable(X), NEW s, NEW T, T = {a \in X : a.sub = s},
         NEW before, before = [a \in T |-> {b \in T : CompareDistributionCandidates(b, a)}]
  PROVE  /\ Orders(T, before) /\ IsFiniteSet(T)
         /\ \A a, b \in T : b \in before[a] => b.users >= a.users
<1>1. \A a \in T : a \in X /\ a.sub = s
  OBVIOUS
<1>2. \A a \in T : /\ a.users \in Int /\ a.latest \in Int
                   /\ a.key \in Keys /\ IdRank[a.key[2]] \in Int
  BY <1>1, KeysApart, RecommendationAssumption DEF Summable
<1>3. \A a \in T : Numbers(Standing(a), 3)
  <2> SUFFICES ASSUME NEW a \in T
               PROVE  Numbers(Standing(a), 3)
    OBVIOUS
  <2>1. -a.users \in Int /\ -a.latest \in Int /\ IdRank[a.key[2]] \in Int
    BY <1>2
  <2> QED
    BY <2>1 DEF Numbers, Standing
<1>4. \A a, b \in T : b \in before[a] <=> LexLess(Standing(b), Standing(a))
  BY DEF CompareDistributionCandidates, Standing
<1>5. before \in [T -> SUBSET T]
  OBVIOUS
<1>6. IsFiniteSet(T)
  BY FS_Subset DEF Summable
<1>7. \A a, b \in T : ~(a \in before[b] /\ b \in before[a])
  BY <1>3, <1>4, LexAsymmetric
<1>8. ASSUME NEW a \in T, NEW b \in T, a \notin before[b], b \notin before[a]
      PROVE  a = b
  <2>1. \A i \in 1 .. 3 : Standing(a)[i] = Standing(b)[i]
    <3>1. ~LexLess(Standing(a), Standing(b)) /\ ~LexLess(Standing(b), Standing(a))
      BY <1>4, <1>8
    <3>2. Numbers(Standing(a), 3) /\ Numbers(Standing(b), 3) /\ 3 \in Nat
      BY <1>3
    <3> QED
      BY <3>1, <3>2, LexTotal
  <2>2. IdRank[a.key[2]] = IdRank[b.key[2]]
    BY <2>1 DEF Standing
  <2>3. a.key[2] \in EveryId /\ b.key[2] \in EveryId
    BY <1>2, KeysApart
  <2>4. a.key = b.key
    BY <1>2, <2>2, <2>3, KeysApart, RecommendationAssumption
  <2> QED
    BY <1>1, <2>4 DEF Summable
<1>9. ASSUME NEW a \in T, NEW b \in T, NEW c \in T, b \notin before[a], c \notin before[b]
      PROVE  c \notin before[a]
  <2>1. ~LexLess(Standing(b), Standing(a)) /\ ~LexLess(Standing(c), Standing(b))
    BY <1>4, <1>9
  <2>2. Numbers(Standing(a), 3) /\ Numbers(Standing(b), 3) /\ Numbers(Standing(c), 3)
    BY <1>3
  <2>3. ~LexLess(Standing(c), Standing(a))
    BY <2>1, <2>2, LexTransitive
  <2> QED
    BY <1>4, <2>3
<1>10. ASSUME NEW a \in T, NEW b \in T, b \in before[a]
       PROVE  b.users >= a.users
  <2>1. ~LexLess(Standing(a), Standing(b))
    BY <1>3, <1>4, <1>10, LexAsymmetric
  <2>2. Standing(b)[1] <= Standing(a)[1]
    BY <1>3, <2>1, LexFirst
  <2> QED
    BY <1>2, <2>2 DEF Standing
<1>11. Orders(T, before)
  <2>1. \A a, b \in T : a # b => a \in before[b] \/ b \in before[a]
    BY <1>8
  <2>2. \A a, b, c \in T : b \notin before[a] /\ c \notin before[b] => c \notin before[a]
    BY <1>9
  <2>3. Compares(T, before)
    BY <1>5, <1>7, <2>1, <2>2 DEF Compares
  <2> QED
    BY <2>3, StrictOrder
<1> QED
  BY <1>6, <1>10, <1>11

\* In a finite, ordered set that is not empty one element has none before it.
LEMMA FirstExists ==
  ASSUME NEW S, IsFiniteSet(S), S # {}, NEW before, Orders(S, before)
  PROVE  \E m \in S : before[m] = {}
<1>1. /\ Cardinality(S) \in Nat
      /\ \A k \in 0 .. Cardinality(S) - 1 : \E i \in S : Cardinality(before[i]) = k
      /\ \A i \in S : Cardinality(before[i]) \in 0 .. Cardinality(S) - 1
  BY Places
<1>2. 0 \in 0 .. Cardinality(S) - 1
  BY <1>1
<1>3. PICK m \in S : Cardinality(before[m]) = 0
  BY <1>1, <1>2
<1>4. IsFiniteSet(before[m])
  BY FS_Subset DEF Orders
<1> QED
  BY <1>3, <1>4, FS_EmptySet

\* The best of each sub-subject.
Best(X) == {a \in X : {b \in X : b.sub = a.sub /\ CompareDistributionCandidates(b, a)} = {}}

\* Each sub-subject with a candidate has one best candidate, which most teachers had.
LEMMA BestAre ==
  ASSUME NEW X, Summable(X)
  PROVE  /\ IsFiniteSet(Best(X)) /\ Best(X) \subseteq X
         /\ \A a, b \in Best(X) : a.sub = b.sub => a = b
         /\ \A a \in X : \E m \in Best(X) : m.sub = a.sub /\ m.users >= a.users
<1>1. IsFiniteSet(Best(X)) /\ Best(X) \subseteq X
  BY FS_Subset DEF Best, Summable
<1>2. ASSUME NEW a \in Best(X), NEW b \in Best(X), a.sub = b.sub
      PROVE  a = b
  <2> DEFINE T == {c \in X : c.sub = a.sub}
             before == [c \in T |-> {d \in T : CompareDistributionCandidates(d, c)}]
  <2>1. Orders(T, before)
    BY CandidatesOrdered
  <2>2. a \in T /\ b \in T
    BY <1>2 DEF Best
  <2>3. a \notin before[b] /\ b \notin before[a]
    BY <1>2, <2>2 DEF Best
  <2> HIDE DEF T, before
  <2> QED
    BY <2>1, <2>2, <2>3 DEF Orders
<1>3. ASSUME NEW a \in X
      PROVE  \E m \in Best(X) : m.sub = a.sub /\ m.users >= a.users
  <2> DEFINE T == {c \in X : c.sub = a.sub}
             before == [c \in T |-> {d \in T : CompareDistributionCandidates(d, c)}]
  <2>0. Orders(T, before) /\ IsFiniteSet(T)
    BY CandidatesOrdered
  <2>1. \A c, d \in T : d \in before[c] => d.users >= c.users
    <3>1. \A S, f : S = {c \in X : c.sub = a.sub}
              /\ f = [c \in S |-> {d \in S : CompareDistributionCandidates(d, c)}]
            => \A c, d \in S : d \in f[c] => d.users >= c.users
      BY CandidatesOrdered
    <3> QED
      BY <3>1
  <2>2. a \in T
    OBVIOUS
  <2>3. PICK m \in T : before[m] = {}
    <3> HIDE DEF T, before
    <3> QED
      BY <2>0, <2>2, FirstExists
  <2>4. m \in Best(X)
    <3>1. {b \in X : b.sub = m.sub /\ CompareDistributionCandidates(b, m)} = before[m]
      OBVIOUS
    <3> HIDE DEF before
    <3> QED
      BY <2>3, <3>1 DEF Best
  <2>5. m.sub = a.sub
    OBVIOUS
  <2>6. a.users \in Int
    BY DEF Summable
  <2>7. m = a \/ m \in before[a]
    <3> HIDE DEF T, before
    <3> QED
      BY <2>0, <2>2, <2>3 DEF Orders
  <2>8. m.users >= a.users
    <3>1. m = a => m.users >= a.users
      BY <2>6
    <3> HIDE DEF T, before
    <3> QED
      BY <2>1, <2>2, <2>3, <2>7, <3>1
  <2> QED
    BY <2>4, <2>5, <2>8
<1> QED
  BY <1>1, <1>2, <1>3

Place2(a) == <<SubjectOf[a.sub], a.sub>>

\* Subjects and sub-subjects order the best.
LEMMA BestOrdered ==
  ASSUME NEW X, Summable(X), NEW K, K = Best(X),
         NEW before, before \in [K -> SUBSET K],
         \A a, b \in K : b \in before[a] <=>
            \/ LexLess(Place2(b), Place2(a))
            \/ b.sub = a.sub /\ CompareDistributionCandidates(b, a)
  PROVE  /\ Orders(K, before)
         /\ \A a, b \in K : b \in before[a] =>
              b.sub # a.sub /\ SubjectOf[b.sub] <= SubjectOf[a.sub]
<1>1. K \subseteq X /\ \A a, b \in K : a.sub = b.sub => a = b
  BY BestAre
<1>2. \A a \in K : a.sub \in Int /\ SubjectOf[a.sub] \in Int
  <2>1. \A a \in K : a.sub \in SubSubject
    BY <1>1 DEF Summable
  <2>2. \A t \in SubSubject : t \in Int /\ SubjectOf[t] \in Int
    BY RecommendationAssumption
  <2> QED
    BY <2>1, <2>2
<1>3. \A a \in K : Numbers(Place2(a), 2)
  <2> SUFFICES ASSUME NEW a \in K
               PROVE  Numbers(Place2(a), 2)
    OBVIOUS
  <2> QED
    BY <1>2 DEF Numbers, Place2
<1>4. \A a \in K : ~CompareDistributionCandidates(a, a)
  BY DEF Best
<1>5. \A a, b \in K : b \in before[a] <=> LexLess(Place2(b), Place2(a))
  BY <1>1, <1>4
<1>6. ASSUME NEW a \in K, NEW b \in K, a # b
      PROVE  a \in before[b] \/ b \in before[a]
  <2> SUFFICES ASSUME ~LexLess(Place2(a), Place2(b)), ~LexLess(Place2(b), Place2(a))
               PROVE  FALSE
    BY <1>5
  <2>1. Numbers(Place2(a), 2) /\ Numbers(Place2(b), 2) /\ 2 \in Nat
    BY <1>3
  <2>2. \A i \in 1 .. 2 : Place2(a)[i] = Place2(b)[i]
    BY <2>1, LexTotal
  <2>3. a.sub = b.sub
    BY <2>2 DEF Place2
  <2> QED
    BY <1>1, <1>6, <2>3
<1>7. \A a, b \in K : ~(a \in before[b] /\ b \in before[a])
  BY <1>3, <1>5, LexAsymmetric
<1>8. ASSUME NEW a \in K, NEW b \in K, NEW c \in K, b \notin before[a], c \notin before[b]
      PROVE  c \notin before[a]
  <2>1. ~LexLess(Place2(b), Place2(a)) /\ ~LexLess(Place2(c), Place2(b))
    BY <1>5, <1>8
  <2>2. Numbers(Place2(a), 2) /\ Numbers(Place2(b), 2) /\ Numbers(Place2(c), 2)
    BY <1>3
  <2>3. ~LexLess(Place2(c), Place2(a))
    BY <2>1, <2>2, LexTransitive
  <2> QED
    BY <1>5, <2>3
<1>9. Orders(K, before)
  <2>1. \A a, b \in K : a # b => a \in before[b] \/ b \in before[a]
    BY <1>6
  <2>2. \A a, b, c \in K : b \notin before[a] /\ c \notin before[b] => c \notin before[a]
    BY <1>8
  <2>3. Compares(K, before)
    BY <1>7, <2>1, <2>2 DEF Compares
  <2> QED
    BY <2>3, StrictOrder
<1>10. ASSUME NEW a \in K, NEW b \in K, b \in before[a]
       PROVE  b.sub # a.sub /\ SubjectOf[b.sub] <= SubjectOf[a.sub]
  <2>1. a \notin before[b] /\ a # b
    BY <1>7, <1>10
  <2>2. ~LexLess(Place2(a), Place2(b))
    BY <1>5, <2>1
  <2>3. Place2(b)[1] <= Place2(a)[1]
    BY <1>3, <2>2, LexFirst
  <2>4. SubjectOf[b.sub] <= SubjectOf[a.sub]
    BY <2>3 DEF Place2
  <2> QED
    BY <1>1, <2>1, <2>4
<1> QED
  BY <1>9, <1>10

\* The k-th element of s has k - 1 elements of S before it.
Listing(s, S, before) ==
  /\ DOMAIN s = 1 .. Cardinality(S)
  /\ \A k \in 1 .. Cardinality(S) : s[k] \in S /\ Cardinality(before[s[k]]) = k - 1

\* A sequence whose k-th element has k - 1 before it has all of a finite, ordered set, in
\* its order.
LEMMA InOrderIs ==
  ASSUME NEW S, IsFiniteSet(S), NEW before, Orders(S, before), NEW s, Listing(s, S, before)
  PROVE  /\ \A x \in S : \E k \in DOMAIN s : s[k] = x
         /\ \A i, j \in DOMAIN s : i < j => s[i] \in before[s[j]]
<1> DEFINE n == Cardinality(S)
           place(x) == Cardinality(before[x])
<1>1. /\ n \in Nat
      /\ \A i \in S : place(i) \in 0 .. n - 1
      /\ \A i, j \in S : i \in before[j] => place(i) < place(j)
  BY Places
<1>2. \A i, j \in S : i # j => i \in before[j] \/ j \in before[i]
  BY DEF Orders
<1>3. \A k \in 1 .. n : s[k] \in S /\ place(s[k]) = k - 1
  BY DEF Listing
<1>4. DOMAIN s = 1 .. n
  BY DEF Listing
<1> HIDE DEF n, place
<1>5. ASSUME NEW x \in S
      PROVE  \E k \in DOMAIN s : s[k] = x
  <2>1. place(x) + 1 \in 1 .. n /\ (place(x) + 1) - 1 = place(x)
    BY <1>1
  <2>2. s[place(x) + 1] \in S /\ place(s[place(x) + 1]) = place(x)
    BY <1>3, <2>1
  <2>3. ASSUME s[place(x) + 1] # x
        PROVE  FALSE
    <3>1. place(x) \in Int
      BY <1>1
    <3> QED
      BY <1>1, <1>2, <2>2, <2>3, <3>1
  <2> QED
    BY <1>4, <2>1, <2>3
<1>6. ASSUME NEW i \in 1 .. n, NEW j \in 1 .. n, i < j
      PROVE  s[i] \in before[s[j]]
  <2>1. /\ s[i] \in S /\ s[j] \in S /\ place(s[i]) = i - 1 /\ place(s[j]) = j - 1
    BY <1>3
  <2>2. i \in Int /\ j \in Int /\ i - 1 < j - 1 /\ ~(j - 1 < i - 1)
    BY <1>1, <1>6
  <2>3. s[i] # s[j]
    BY <2>1, <2>2
  <2>4. s[j] \notin before[s[i]]
    BY <1>1, <2>1, <2>2
  <2> QED
    BY <1>2, <2>1, <2>3, <2>4
<1> QED
  BY <1>4, <1>5, <1>6

\* group_and_sort_distribution: the best of each sub-subject, by subject.
LEMMA Grouped ==
  ASSUME NEW X, Summable(X), NEW g, g = GroupAndSortDistribution(X, MaximumItemsPerSubSubject)
  PROVE  /\ Items(g) \subseteq X
         /\ \A a \in X : \E e \in Items(g) : e.sub = a.sub /\ e.users >= a.users
         /\ \A i, j \in DOMAIN g : i < j =>
              g[i].sub # g[j].sub /\ SubjectOf[g[i].sub] <= SubjectOf[g[j].sub]
<1> DEFINE K == Best(X)
           n == Cardinality(K)
           better(a) == {b \in X : b.sub = a.sub /\ CompareDistributionCandidates(b, a)}
           kept == {a \in X : Cardinality(better(a)) < MaximumItemsPerSubSubject}
           E(y, x) == \/ LexLess(Place2(y), Place2(x))
                      \/ y.sub = x.sub /\ CompareDistributionCandidates(y, x)
           P(x) == {y \in K : E(y, x)}
           before == [x \in K |-> P(x)]
<1>1. kept = K
  <2>1. ASSUME NEW a \in X
        PROVE  Cardinality(better(a)) < 1 <=> better(a) = {}
    <3>1. IsFiniteSet(better(a))
      BY FS_Subset DEF Summable
    <3> HIDE DEF better
    <3>2. Cardinality(better(a)) \in Nat
      BY <3>1, FS_CardinalityType
    <3>3. Cardinality(better(a)) = 0 <=> better(a) = {}
      BY <3>1, FS_EmptySet
    <3> QED
      BY <3>2, <3>3
  <2>2. \A a \in X : Cardinality(better(a)) < MaximumItemsPerSubSubject <=> better(a) = {}
    BY <2>1 DEF MaximumItemsPerSubSubject
  <2> QED
    BY <2>2 DEF Best
<1>2. g = [k \in 1 .. Cardinality(kept) |->
             CHOOSE x \in kept : Cardinality({y \in kept : E(y, x)}) = k - 1]
  BY DEF GroupAndSortDistribution, InOrder, Place2
<1>3. g = [k \in 1 .. n |-> CHOOSE x \in K : Cardinality(P(x)) = k - 1]
  <2> HIDE DEF kept, K, E
  <2> QED
    BY <1>1, <1>2
<1>4. /\ IsFiniteSet(K) /\ K \subseteq X
      /\ \A a \in X : \E m \in K : m.sub = a.sub /\ m.users >= a.users
  BY BestAre
<1>5. before \in [K -> SUBSET K] /\ \A a, b \in K : b \in before[a] <=> E(b, a)
  OBVIOUS
<1>6. \A x \in K : P(x) = before[x]
  OBVIOUS
<1> HIDE DEF before, P
<1>7. Orders(K, before)
  BY <1>5, BestOrdered
<1>8. ASSUME NEW a \in K, NEW b \in K, b \in before[a]
      PROVE  b.sub # a.sub /\ SubjectOf[b.sub] <= SubjectOf[a.sub]
  BY <1>5, <1>8, BestOrdered
<1> HIDE DEF K
<1>9. /\ n \in Nat
      /\ \A k \in 0 .. n - 1 : \E i \in K : Cardinality(before[i]) = k
  BY <1>4, <1>7, Places
<1>10. DOMAIN g = 1 .. n
  BY <1>3
<1>11. \A k \in 1 .. n : g[k] \in K /\ Cardinality(before[g[k]]) = k - 1
  <2> SUFFICES ASSUME NEW k \in 1 .. n
               PROVE  g[k] \in K /\ Cardinality(before[g[k]]) = k - 1
    OBVIOUS
  <2>1. k - 1 \in 0 .. n - 1
    BY <1>9
  <2>2. \E x \in K : Cardinality(P(x)) = k - 1
    BY <1>6, <1>9, <2>1
  <2>3. g[k] = CHOOSE x \in K : Cardinality(P(x)) = k - 1
    BY <1>3
  <2>4. g[k] \in K /\ Cardinality(P(g[k])) = k - 1
    BY <2>2, <2>3
  <2> QED
    BY <1>6, <2>4
<1> HIDE DEF n
<1>21. ASSUME n = Cardinality(K)
       PROVE  Listing(g, K, before)
  BY <1>10, <1>11, <1>21 DEF Listing
<1>22. Listing(g, K, before)
  BY <1>21 DEF n
<1>12. \A x \in K : \E k \in DOMAIN g : g[k] = x
  BY <1>4, <1>7, <1>22, InOrderIs
<1>13. \A i, j \in DOMAIN g : i < j => g[i] \in before[g[j]]
  BY <1>4, <1>7, <1>22, InOrderIs
<1>14. Items(g) = K
  BY <1>10, <1>11, <1>12 DEF Items
<1>15. \A i, j \in DOMAIN g : i < j =>
         g[i].sub # g[j].sub /\ SubjectOf[g[i].sub] <= SubjectOf[g[j].sub]
  BY <1>8, <1>10, <1>11, <1>13
<1> QED
  BY <1>4, <1>14, <1>15

\* What the rows say.
LEMMA RowsSay ==
  ASSUME FeedInv, RecordInv, ConsistentPayloads, NEW k \in DOMAIN assignment
  PROVE  /\ k = <<k[1], k[2]>> /\ k[1] \in User /\ k[2] \in Keys
         /\ assignment[k].last \in Int
         /\ assignment[k].sub \in SubSubject =>
              assignment[k].subject = SubjectOf[assignment[k].sub]
<1>1. PICK u \in User, c \in Keys : k = <<u, c>> /\ RowTrue(req, u, c, assignment[k])
  BY DEF RecordInv, RowsTrue
<1>2. PICK r \in Request : \E x \in Items(req[r].feed) :
        /\ Serves(req, r, u, assignment[k].last) /\ IsSystem(x) /\ RecommendationKey(x) = c
        /\ assignment[k].item = x.id /\ assignment[k].sub = x.sub
        /\ assignment[k].subject = x.subject
  BY <1>1 DEF RowTrue
<1>3. PICK x \in Items(req[r].feed) :
        /\ Serves(req, r, u, assignment[k].last) /\ IsSystem(x)
        /\ assignment[k].sub = x.sub /\ assignment[k].subject = x.subject
  BY <1>2
<1>4. Built(req[r]) /\ req[r].moment = assignment[k].last
  BY <1>3 DEF Serves
<1>5. assignment[k].last \in Int
  BY <1>4 DEF RecordInv, TodoInv
<1>6. /\ Curated(req[r].curated) /\ Topics(req[r].topics)
      /\ FeedOf(req[r].feed, req[r].curated, req[r].topics, req[r].ctx)
  BY <1>4, BuiltFeed
<1>7. Telling(x)
  BY <1>6, FeedTells
<1> QED
  BY <1>1, <1>3, <1>5, <1>7 DEF Telling

\* Few teachers were served an item.
LEMMA ServedFinite ==
  ASSUME RecordInv, NEW c, NEW j, NEW s
  PROVE  /\ IsFiniteSet(ServedUsers(c, j, s)) /\ Cardinality(ServedUsers(c, j, s)) \in Nat
<1> DEFINE D == DOMAIN assignment
           A == {k[1] : k \in D}
           f == [k \in D |-> k[1]]
<1>1. IsFiniteSet(D)
  BY DEF RecordInv, RowsTrue
<1>2. f \in Surjection(D, A)
  BY DEF Surjection
<1>3. IsFiniteSet(A)
  <2> HIDE DEF D, A, f
  <2> QED
    BY <1>1, <1>2, FS_Surjection
<1>4. ServedUsers(c, j, s) \subseteq A
  <2> SUFFICES ASSUME NEW u \in ServedUsers(c, j, s)
               PROVE  u \in A
    OBVIOUS
  <2>1. <<u, c>> \in D /\ <<u, c>>[1] = u
    BY DEF ServedUsers
  <2> QED
    BY <2>1
<1> HIDE DEF A
<1> QED
  BY <1>3, <1>4, FS_Subset, FS_CardinalityType

\* The image of a finite set is finite.
LEMMA ImageFinite ==
  ASSUME NEW S, IsFiniteSet(S), NEW f
  PROVE  IsFiniteSet({f[x] : x \in S})
<1> DEFINE T == {f[x] : x \in S}
           h == [x \in S |-> f[x]]
<1>1. h \in Surjection(S, T)
  BY DEF Surjection
<1> HIDE DEF T, h
<1>2. IsFiniteSet(T)
  BY <1>1, FS_Surjection
<1> QED
  BY <1>2 DEF T

\* Who was served the item of a key under a sub-subject.
Served(c, s) == {u \in User : <<u, c>> \in DOMAIN assignment /\ assignment[<<u, c>>].sub = s}

\* The candidates of the summary.
Summed == {a \in FindDistributionSummary(MinimumDistinctUserCount) :
                 a.key[1] \in DefaultTrackableSourceTypes /\ a.sub \in SubSubject}

\* Rows of one key and sub-subject name one subject.
LEMMA ServedAre ==
  ASSUME FeedInv, RecordInv, ConsistentPayloads, NEW c, NEW s \in SubSubject
  PROVE  /\ Served(c, s) = ServedUsers(c, SubjectOf[s], s)
         /\ IsFiniteSet(Served(c, s)) /\ Cardinality(Served(c, s)) \in Nat
<1>1. \A u \in User : <<u, c>> \in DOMAIN assignment /\ assignment[<<u, c>>].sub = s
                        => assignment[<<u, c>>].subject = SubjectOf[s]
  BY RowsSay
<1>2. Served(c, s) = ServedUsers(c, SubjectOf[s], s)
  BY <1>1 DEF Served, ServedUsers
<1> QED
  BY <1>2, ServedFinite

\* The latest of the rows of a key and sub-subject is a time.
LEMMA LatestIs ==
  ASSUME FeedInv, RecordInv, ConsistentPayloads, NEW c, NEW s \in SubSubject,
         Cardinality(Served(c, s)) > 1
  PROVE  Max({assignment[<<u, c>>].last : u \in Served(c, s)}) \in Int
<1> DEFINE f == [u \in User |-> assignment[<<u, c>>].last]
           S == Served(c, s)
           L == {f[u] : u \in S}
<1>1. L = {assignment[<<u, c>>].last : u \in S}
  BY DEF Served
<1>2. \A u \in S : f[u] \in Int
  BY RowsSay DEF Served
<1>3. IsFiniteSet(S) /\ S # {}
  BY ServedAre, FS_EmptySet
<1> HIDE DEF f, S
<1>4. IsFiniteSet(L) /\ L # {} /\ \A x \in L : x \in Int
  BY <1>2, <1>3, ImageFinite
<1> HIDE DEF L
<1>5. Max(L) \in L
  BY <1>4, GreatestOfFinite
<1> QED
  BY <1>1, <1>4, <1>5 DEF S

\* A candidate counts the teachers who were served its item under its sub-subject.
LEMMA CandidateIs ==
  ASSUME FeedInv, RecordInv, ConsistentPayloads, NEW a \in Summed
  PROVE  /\ a.key \in Keys /\ a.sub \in SubSubject
         /\ a = [key |-> a.key, subject |-> SubjectOf[a.sub], sub |-> a.sub,
                 users |-> Cardinality(Served(a.key, a.sub)),
                 latest |-> Max({assignment[<<u, a.key>>].last : u \in Served(a.key, a.sub)})]
         /\ a.users = Cardinality(Served(a.key, a.sub)) /\ a.users \in Int /\ a.users > 1
         /\ a.latest \in Int
<1> DEFINE D == {x \in DOMAIN assignment : assignment[x].sub # NoOne}
           G == {<<k[2], assignment[k].subject, assignment[k].sub>> : k \in D}
           users(g) == ServedUsers(g[1], g[2], g[3])
           row(g) == [key |-> g[1], subject |-> g[2], sub |-> g[3], users |-> Cardinality(users(g)),
                      latest |-> Max({assignment[<<u, g[1]>>].last : u \in users(g)})]
<1>1. /\ a \in {row(g) : g \in {h \in G : Cardinality(users(h)) >= 2}} /\ a.sub \in SubSubject
  BY DEF Summed, FindDistributionSummary, MinimumDistinctUserCount
<1>2. PICK k \in DOMAIN assignment :
        LET g == <<k[2], assignment[k].subject, assignment[k].sub>>
        IN  a = row(g) /\ Cardinality(users(g)) >= 2
  BY <1>1
<1> DEFINE c == k[2]
           j == assignment[k].subject
           s == assignment[k].sub
           g == <<c, j, s>>
<1>3. a = row(g) /\ Cardinality(users(g)) >= 2 /\ g[1] = c /\ g[2] = j /\ g[3] = s
  BY <1>2
<1>4. a.key = c /\ a.sub = s /\ a.subject = j /\ users(g) = ServedUsers(c, j, s)
  BY <1>3
<1>5. c \in Keys /\ s \in SubSubject /\ j = SubjectOf[s]
  BY <1>1, <1>4, RowsSay
<1>6. /\ users(g) = Served(c, s) /\ Cardinality(Served(c, s)) \in Nat
  BY <1>4, <1>5, ServedAre
<1> HIDE DEF c, j, s
<1>7. a = [key |-> c, subject |-> j, sub |-> s, users |-> Cardinality(Served(c, s)),
           latest |-> Max({assignment[<<u, c>>].last : u \in Served(c, s)})]
  BY <1>3, <1>6
<1>8. a.users = Cardinality(Served(c, s)) /\ Cardinality(Served(c, s)) > 1
  BY <1>3, <1>6, <1>7
<1>9. a.latest \in Int
  BY <1>5, <1>7, <1>8, LatestIs
<1> QED
  BY <1>4, <1>5, <1>6, <1>7, <1>8, <1>9

\* Finitely many candidates, each with its numbers, one to a key and sub-subject.
LEMMA CandidatesSum ==
  ASSUME FeedInv, RecordInv, ConsistentPayloads
  PROVE  Summable(Summed)
<1> DEFINE D == DOMAIN assignment
           users(g) == ServedUsers(g[1], g[2], g[3])
           row(g) == [key |-> g[1], subject |-> g[2], sub |-> g[3], users |-> Cardinality(users(g)),
                      latest |-> Max({assignment[<<u, g[1]>>].last : u \in users(g)})]
           f == [k \in D |-> row(<<k[2], assignment[k].subject, assignment[k].sub>>)]
<1>1. Summed \subseteq {f[k] : k \in D}
  <2> SUFFICES ASSUME NEW a \in Summed
               PROVE  \E k \in D : a = f[k]
    OBVIOUS
  <2>1. PICK k \in D : a = row(<<k[2], assignment[k].subject, assignment[k].sub>>)
    BY DEF Summed, FindDistributionSummary
  <2> QED
    BY <2>1
<1>2. IsFiniteSet(D)
  BY DEF RecordInv, RowsTrue
<1> HIDE DEF D, f
<1>3. IsFiniteSet(Summed)
  <2>1. IsFiniteSet({f[k] : k \in D})
    BY <1>2, ImageFinite
  <2> QED
    BY <1>1, <2>1, FS_Subset
<1>4. \A a \in Summed : /\ a.users \in Int /\ a.latest \in Int
                            /\ a.key \in Keys /\ a.sub \in SubSubject
  BY CandidateIs
<1>5. ASSUME NEW a \in Summed, NEW b \in Summed, a.key = b.key, a.sub = b.sub
      PROVE  a = b
  <2> DEFINE Row(c, s) == [key |-> c, subject |-> SubjectOf[s], sub |-> s,
                           users |-> Cardinality(Served(c, s)),
                           latest |-> Max({assignment[<<u, c>>].last : u \in Served(c, s)})]
  <2>1. a = Row(a.key, a.sub)
    BY CandidateIs
  <2>2. b = Row(b.key, b.sub)
    BY CandidateIs
  <2> HIDE DEF Row
  <2> QED
    BY <1>5, <2>1, <2>2
<1> QED
  BY <1>3, <1>4, <1>5 DEF Summable

\* What more than one teacher was served under a sub-subject is a candidate of it.
LEMMA CandidateExists ==
  ASSUME FeedInv, RecordInv, ConsistentPayloads, NEW c, NEW s \in SubSubject,
         Cardinality(Served(c, s)) > 1
  PROVE  \E a \in Summed : a.key = c /\ a.sub = s
<1> DEFINE D == {x \in DOMAIN assignment : assignment[x].sub # NoOne}
           G == {<<k[2], assignment[k].subject, assignment[k].sub>> : k \in D}
           users(h) == ServedUsers(h[1], h[2], h[3])
           row(h) == [key |-> h[1], subject |-> h[2], sub |-> h[3], users |-> Cardinality(users(h)),
                      latest |-> Max({assignment[<<u, h[1]>>].last : u \in users(h)})]
           g == <<c, SubjectOf[s], s>>
<1>1. IsFiniteSet(Served(c, s)) /\ Served(c, s) # {} /\ Cardinality(Served(c, s)) \in Nat
  BY ServedAre, FS_EmptySet
<1>2. PICK u \in User : <<u, c>> \in DOMAIN assignment /\ assignment[<<u, c>>].sub = s
  BY <1>1 DEF Served
<1>3. s # NoOne
  BY RecommendationAssumption
<1>4. c \in Keys /\ assignment[<<u, c>>].subject = SubjectOf[s]
  BY <1>2, RowsSay
<1>5. <<u, c>> \in D /\ <<u, c>>[2] = c
  BY <1>2, <1>3
<1>6. g \in G
  BY <1>2, <1>4, <1>5
<1>7. users(g) = Served(c, s)
  BY ServedAre
<1>8. Cardinality(users(g)) >= 2
  BY <1>1, <1>7
<1>9. row(g) \in FindDistributionSummary(MinimumDistinctUserCount)
  BY <1>6, <1>8 DEF FindDistributionSummary, MinimumDistinctUserCount
<1>10. row(g).key = c /\ row(g).sub = s
  OBVIOUS
<1>11. c[1] \in DefaultTrackableSourceTypes
  BY <1>4 DEF Keys, DefaultTrackableSourceTypes
<1> HIDE DEF row
<1> QED
  BY <1>9, <1>10, <1>11 DEF Summed

\* The summary is true of the rows.
LEMMA SummaryHonest ==
  ASSUME FeedInv, RecordInv, ConsistentPayloads
  PROVE  SummaryIsHonest
<1> DEFINE g == BuildSystemDistributionSummary
<1>1. g = GroupAndSortDistribution(Summed, MaximumItemsPerSubSubject)
  BY DEF BuildSystemDistributionSummary, Summed
<1>2. Summable(Summed)
  BY CandidatesSum
<1> HIDE DEF g
<1>3. Items(g) \subseteq Summed
  BY <1>1, <1>2, Grouped
<1>4. \A a \in Summed : \E e \in Items(g) : e.sub = a.sub /\ e.users >= a.users
  BY <1>1, <1>2, Grouped
<1>5. \A i, j \in DOMAIN g : i < j =>
        g[i].sub # g[j].sub /\ SubjectOf[g[i].sub] <= SubjectOf[g[j].sub]
  BY <1>1, <1>2, Grouped
<1>6. \A e \in Items(g) : e.users = Cardinality(Served(e.key, e.sub)) /\ e.users > 1
  BY <1>3, CandidateIs
<1>7. ASSUME NEW c, NEW s \in SubSubject, Cardinality(Served(c, s)) > 1
      PROVE  \E e \in Items(g) : e.sub = s /\ e.users >= Cardinality(Served(c, s))
  <2>1. PICK a \in Summed : a.key = c /\ a.sub = s
    BY <1>7, CandidateExists
  <2>2. a.users = Cardinality(Served(c, s))
    BY <2>1, CandidateIs
  <2> QED
    BY <1>4, <2>1, <2>2
<1> DEFINE keys == {k[2] : k \in DOMAIN assignment}
<1>8. \A c \in keys, s \in SubSubject : Cardinality(Served(c, s)) > 1 =>
        \E e \in Items(g) : e.sub = s /\ e.users >= Cardinality(Served(c, s))
  BY <1>7
<1>9. /\ \A e \in Items(g) : /\ e.users = Cardinality({u \in User :
                                      /\ <<u, e.key>> \in DOMAIN assignment
                                      /\ assignment[<<u, e.key>>].sub = e.sub})
                             /\ e.users > 1
      /\ \A c \in keys, s \in SubSubject :
           Cardinality({u \in User : /\ <<u, c>> \in DOMAIN assignment
                                     /\ assignment[<<u, c>>].sub = s}) > 1 =>
           \E e \in Items(g) : /\ e.sub = s
                               /\ e.users >= Cardinality({u \in User :
                                     /\ <<u, c>> \in DOMAIN assignment
                                     /\ assignment[<<u, c>>].sub = s})
  BY <1>6, <1>8 DEF Served
<1> QED
  BY <1>5, <1>9, Zenon DEF SummaryIsHonest, g

\* What is shown is of the feed.
LEMMA ShownAre ==
  ASSUME NEW f, List(f), NEW limit \in {NoOne, 1, MaxLimit + 1}
  PROVE  Items(Shown(f, limit)) \subseteq Items(f)
<1> DEFINE l == IF limit = NoOne THEN MaxLimit ELSE limit
           S == {Len(f), MaxLimit, l}
           m == Min(S)
<1>1. Len(f) \in Nat /\ l \in Nat /\ MaxLimit \in Nat /\ f \in [1 .. Len(f) -> Items(f)]
  BY DEF List, MaxLimit
<1>2. m \in S /\ \A x \in S : m <= x
  <2>1. \E x \in S : \A y \in S : x <= y
    <3> HIDE DEF l
    <3> QED
      BY <1>1
  <2> QED
    BY <2>1 DEF Min
<1>3. m \in Nat /\ m <= Len(f)
  <2> HIDE DEF l, m
  <2> QED
    BY <1>1, <1>2
<1>4. Shown(f, limit) = SubSeq(f, 1, m)
  BY DEF Shown
<1> HIDE DEF m
<1>5. Len(SubSeq(f, 1, m)) = m /\ \A i \in 1 .. m : SubSeq(f, 1, m)[i] = f[i]
  <2>1. f \in Seq(Items(f))
    BY <1>1
  <2> QED
    BY <1>3, <2>1
<1>6. DOMAIN SubSeq(f, 1, m) = 1 .. m
  <2>1. SubSeq(f, 1, m) \in Seq(Items(f))
    BY <1>1, <1>3
  <2> QED
    BY <1>5, <2>1
<1>7. \A i \in 1 .. m : i \in DOMAIN f
  BY <1>1, <1>3
<1> QED
  BY <1>4, <1>5, <1>6, <1>7 DEF Items

\* track_served records, one upsert after the other, what a teacher was served;
\* find_distribution_summary and group_and_sort_distribution sum the rows up.  Next to
\* other requests and edits of administrators: unless a write failed, what was shown is
\* recorded; every row tells what was served when; and the summary names for each
\* sub-subject, in order, what most teachers, two at least, were served under it.  That
\* takes projects whose source_payload agrees with the taxonomy: the endpoint that
\* writes them takes any payload.
THEOREM ServedIsRecordedThm == ASSUME ConsistentPayloads PROVE Spec => []ServedIsRecorded
<1> SUFFICES ASSUME ConsistentPayloads
             PROVE  Spec => []ServedIsRecorded
  OBVIOUS
<1>1. FeedInv /\ RecordInv => ServedIsRecorded
  <2> SUFFICES ASSUME FeedInv, RecordInv
               PROVE  ServedIsRecorded
    OBVIOUS
  <2>1. ASSUME NEW r \in Request, req[r].at = "answered", req[r].on, req[r].user \in User,
               ~req[r].failed, NEW limit \in {NoOne, 1, MaxLimit + 1},
               NEW x \in Items(Shown(req[r].feed, limit)), IsSystem(x)
        PROVE  <<req[r].user, RecommendationKey(x)>> \in DOMAIN assignment
    <3>1. Built(req[r])
      BY <2>1 DEF Built
    <3>2. List(req[r].feed)
      BY <3>1, BuiltFeed DEF FeedOf
    <3>3. x \in Items(req[r].feed)
      BY <3>2, <2>1, ShownAre
    <3>4. Covered(req[r], DOMAIN assignment)
      BY DEF RecordInv
    <3> QED
      BY <2>1, <3>1, <3>3, <3>4 DEF Covered
  <2>2. ASSUME NEW k \in DOMAIN assignment
        PROVE  /\ \E r \in Request : /\ req[r].user = k[1] /\ req[r].moment = assignment[k].last
                                      /\ \E x \in Items(req[r].feed) :
                                           /\ RecommendationKey(x) = k[2]
                                           /\ x.id = assignment[k].item /\ x.sub = assignment[k].sub
               /\ \E r \in Request : req[r].moment = assignment[k].first /\ req[r].user = k[1]
    <3>1. PICK u \in User, c \in Keys : k = <<u, c>> /\ RowTrue(req, u, c, assignment[k])
      BY DEF RecordInv, RowsTrue
    <3>2. k[1] = u /\ k[2] = c
      BY <3>1
    <3> QED
      BY <3>1, <3>2 DEF RowTrue, Serves
  <2>3. SummaryIsHonest
    BY SummaryHonest
  <2> QED
    BY <2>1, <2>2, <2>3 DEF ServedIsRecorded
<1> QED
  BY <1>1, RecordInvariant, PTL
================================================================================
