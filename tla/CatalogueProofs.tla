---------------------------- MODULE CatalogueProofs ----------------------------
(***************************************************************************)
(* For any number of administrators, topics, contents, projects, sections  *)
(* and settings: no content outlives its topic, answers agree with what    *)
(* was changed and logged, bulk updates are atomic, reordering only        *)
(* permutes the order values in use, and the listings, the detail pages    *)
(* and the settings tell one story.                                        *)
(***************************************************************************)
EXTENDS Catalogue, FiniteSetTheorems, SequenceTheorems, TLAPS

Columns == {"live", "group", "order", "flag", "file", "sub", "val", "text", "starts",
            "ends", "created"}

Parts == {"pc", "id", "seen", "todo", "cand", "dir", "kind", "changed", "result"}

\* Every table has its columns and every request its parts.
Shaped ==
  /\ row = [r \in Rows |-> row[r]] /\ \A r \in Rows : DOMAIN row[r] = Columns
  /\ lock = [r \in Rows |-> lock[r]]
  /\ req = [a \in Admin |-> req[a]] /\ \A a \in Admin : DOMAIN req[a] = Parts
  /\ activity \in Seq(Admin)

\* The tables have no row in common.
LEMMA TablesAreDisjoint ==
  /\ Topic \cap Content = {} /\ Topic \cap Project = {} /\ Topic \cap Section = {}
  /\ Topic \cap Setting = {} /\ Content \cap Project = {} /\ Content \cap Section = {}
  /\ Content \cap Setting = {} /\ Project \cap Section = {} /\ Project \cap Setting = {}
  /\ Section \cap Setting = {}
<1> DEFINE table == <<Topic, Content, Project, Section, Setting>>
<1>1. \A i, j \in 1..5 : i # j => table[i] \cap table[j] = {}
  BY CatalogueAssumption
<1>2. /\ table[1] = Topic /\ table[2] = Content /\ table[3] = Project
      /\ table[4] = Section /\ table[5] = Setting
  OBVIOUS
<1> HIDE DEF table
<1>3. /\ table[1] \cap table[2] = {} /\ table[1] \cap table[3] = {}
      /\ table[1] \cap table[4] = {} /\ table[1] \cap table[5] = {}
      /\ table[2] \cap table[3] = {} /\ table[2] \cap table[4] = {}
      /\ table[2] \cap table[5] = {} /\ table[3] \cap table[4] = {}
      /\ table[3] \cap table[5] = {} /\ table[4] \cap table[5] = {}
  BY <1>1
<1> QED
  BY <1>2, <1>3

\* A finite, non-empty set of natural numbers has a greatest element.  The
\* induction is on the subsets that have none: a smallest one would lose an
\* element and still have none.
LEMMA GreatestElement ==
  ASSUME NEW S \in SUBSET Nat, IsFiniteSet(S), S # {}
  PROVE  Max(S) \in S /\ \A y \in S : Max(S) >= y
<1> DEFINE HasMax(T) == \E x \in T : \A y \in T : x >= y
           Bad == {T \in SUBSET S : T # {} /\ ~HasMax(T)}
<1>1. IsWellFoundedOn(StrictSubsetOrdering(S), SUBSET S)
  BY FS_StrictSubsetOrderingWellFounded, FS_FiniteSubsetsOfFinite
<1>2. Bad = {}
  <2> SUFFICES ASSUME Bad # {}
               PROVE  FALSE
    OBVIOUS
  <2>1. PICK T \in Bad : \A U \in Bad : ~(<<U, T>> \in StrictSubsetOrdering(S))
    <3>1. Bad \subseteq SUBSET S
      OBVIOUS
    <3> HIDE DEF Bad
    <3> QED
      BY <3>1, <1>1, WFMin
  <2>2. PICK x : x \in T
    BY <2>1
  <2> DEFINE U == T \ {x}
  <2>3. <<U, T>> \in StrictSubsetOrdering(S)
    BY <2>1, <2>2 DEF StrictSubsetOrdering
  <2>4. U \notin Bad /\ U \in SUBSET S
    BY <2>1, <2>3
  <2>5. CASE U = {}
    <3>1. T = {x} /\ x \in Nat
      BY <2>1, <2>2, <2>5
    <3>2. HasMax(T)
      BY <3>1
    <3> QED
      BY <2>1, <3>2
  <2>6. CASE U # {}
    <3>1. PICK m \in U : \A y \in U : m >= y
      BY <2>4, <2>6
    <3>2. m \in Nat /\ x \in Nat /\ T = U \cup {x} /\ \A y \in U : y \in Nat
      BY <2>1, <2>2, <3>1
    <3> HIDE DEF U
    <3>3. HasMax(T)
      <4>1. CASE m >= x
        <5>1. \A y \in T : m >= y
          BY <3>1, <3>2, <4>1
        <5> QED
          BY <3>1, <3>2, <5>1
      <4>2. CASE ~(m >= x)
        <5>1. \A y \in U : x >= y
          BY <3>1, <3>2, <4>2
        <5>2. \A y \in T : x >= y
          BY <5>1, <3>2
        <5> QED
          BY <3>2, <5>2
      <4> QED
        BY <4>1, <4>2
    <3> QED
      BY <2>1, <3>3
  <2> QED
    BY <2>5, <2>6
<1>3. HasMax(S)
  BY <1>2
<1> QED
  BY <1>3 DEF Max

\* A sequence without repetition as long as a finite set holds all its elements.
LEMMA OrderIsComplete ==
  ASSUME NEW S, IsFiniteSet(S), NEW order \in SetToSeqs(S)
  PROVE  order \in Seq(S) /\ Range(order) = S
<1> DEFINE n == Cardinality(S)
<1>1. n \in Nat
  BY FS_CardinalityType
<1>2. /\ order \in [1..n -> S]
      /\ \A i, j \in 1..n : i # j => order[i] # order[j]
  BY DEF SetToSeqs
<1>3. IsFiniteSet(1..n) /\ Cardinality(1..n) = n
  <2>1. /\ IsFiniteSet(1..n)
        /\ Cardinality(1..n) = IF 1 > n THEN 0 ELSE n - 1 + 1
    BY <1>1, FS_Interval
  <2> QED
    BY <1>1, <2>1
<1>4. order \in Injection(1..n, S)
  BY <1>2 DEF Injection, IsInjective
<1>5. order \in Surjection(1..n, S)
  BY <1>3, <1>4, FS_Injection
<1> HIDE DEF n
<1> QED
  BY <1>1, <1>2, <1>5 DEF Surjection, Range

--------------------------------------------------------------------------------
(* The inductive invariant.                                                *)

\* A live content has a live topic.
GroupsLive ==
  \A c \in Content : row[c].live => row[c].group \in Topic /\ row[row[c].group].live

\* A row that exists has been created at some time.
Stamped ==
  \A r \in Ordered : /\ row[r].order \in Nat /\ row[r].created \in Nat
                     /\ row[r].live => row[r].created # 0

RowInv == GroupsLive /\ Stamped /\ BulkIsAtomic

Moving == {"neighbour", "await", "swap"}

SameTable(r, s) == (r \in Topic /\ s \in Topic) \/ (r \in Content /\ s \in Content)

\* reorder holds the row it moves, which keeps the order that was read, and in the
\* end the neighbour as well.
MoveInv(a) ==
  req[a].pc \in Moving =>
    /\ req[a].id \in Ordered /\ lock[req[a].id] = a
    /\ row[req[a].id].live /\ row[req[a].id].order = req[a].seen.order
    /\ req[a].pc # "neighbour" => \A p \in req[a].cand : SameTable(p[1], req[a].id)
    /\ req[a].pc = "swap" =>
         \E p : /\ req[a].cand = {p}
                /\ lock[p[1]] = a /\ row[p[1]].live /\ row[p[1]].order # req[a].seen.order

Table(kind) == IF kind = "sections" THEN Section ELSE Setting

\* A bulk update holds the rows of its table, except the ones it has not come to.
BulkInv(a) ==
  req[a].pc = "bulk" =>
    /\ req[a].kind \in {"sections", "settings"}
    /\ req[a].todo \in Seq(Table(req[a].kind))
    /\ \A r \in Table(req[a].kind) : lock[r] = a \/ r \in Range(req[a].todo)

\* What a handler remembers of the row it goes on to change.
ReadInv(a) ==
  /\ req[a].pc = "update" => /\ req[a].id \in Ordered \cup Project
                             /\ req[a].id \in Content => req[a].seen.group \in Topic
  /\ req[a].pc \in {"delete", "reload"} => req[a].id \in Project

\* Before its answer a request has no result and is not logged; it has changed
\* something exactly when it is about to log or to read again.
AnswerInv(a) ==
  /\ req[a].pc # "done" => req[a].result = "none" /\ a \notin Range(activity)
  /\ req[a].pc \notin {"log", "reload", "done"} => ~req[a].changed
  /\ req[a].pc \in {"log", "reload"} => req[a].changed
  /\ req[a].pc = "reload" => req[a].kind = "toggle"
  /\ req[a].result = "ok" => req[a].changed /\ a \in Range(activity)
  /\ a \in Range(activity) => req[a].changed
  /\ req[a].result \in {"404", "422"} => ~req[a].changed \/ req[a].kind = "toggle"

ReqInv(a) == MoveInv(a) /\ BulkInv(a) /\ ReadInv(a) /\ AnswerInv(a)

\* Only reorder and the bulk updates hold rows, each of its own tables.
Holds(a, r) ==
  \/ req[a].pc \in Moving /\ r \in Ordered /\ row[r].live
  \/ req[a].pc = "bulk" /\ r \in Table(req[a].kind)

HeldBy(a) == \A r \in Rows : lock[r] = a => Holds(a, r)

LockInv == \A r \in Rows : lock[r] \in Admin \cup {NoOne}

Inv ==
  /\ Shaped /\ RowInv /\ LockInv
  /\ \A a \in Admin : ReqInv(a) /\ HeldBy(a)

--------------------------------------------------------------------------------
(* What a step of one request does to the others: nothing they rely on.    *)

OnlyReq(a) == \A b \in Admin \ {a} : req'[b] = req[b]

Frozen(a) ==
  \A r \in Ordered : lock[r] \notin {NoOne, a} =>
    row'[r].live = row[r].live /\ row'[r].order = row[r].order

LocksMove(a) ==
  \A r \in Rows : lock'[r] = lock[r] \/ (lock[r] \in {NoOne, a} /\ lock'[r] \in {NoOne, a})

Logs(a) == UNCHANGED activity \/ activity' = Append(activity, a)

Minds(a) == OnlyReq(a) /\ Frozen(a) /\ LocksMove(a) /\ Logs(a)

LEMMA LogsOne ==
  ASSUME Shaped, NEW a \in Admin, Logs(a)
  PROVE  /\ activity' \in Seq(Admin)
         /\ UNCHANGED activity => Range(activity') = Range(activity)
         /\ activity' = Append(activity, a) => Range(activity') = Range(activity) \cup {a}
<1>1. activity \in Seq(Admin)
  BY DEF Shaped
<1>2. CASE UNCHANGED activity
  <2>1. CASE activity = Append(activity, a)
    <3>1. Len(Append(activity, a)) = Len(activity) + 1 /\ Len(activity) \in Nat
      BY <1>1
    <3> QED
      BY <2>1, <3>1
  <2> QED
    BY <1>1, <1>2, <2>1
<1>3. CASE activity' = Append(activity, a)
  <2>1. /\ Append(activity, a) \in Seq(Admin)
        /\ DOMAIN Append(activity, a) = 1 .. Len(activity) + 1
        /\ \A i \in 1 .. Len(activity) : Append(activity, a)[i] = activity[i]
        /\ Append(activity, a)[Len(activity) + 1] = a
        /\ Len(activity) \in Nat /\ DOMAIN activity = 1 .. Len(activity)
    BY <1>1, AppendProperties, SMT
  <2>2. ASSUME UNCHANGED activity
        PROVE  FALSE
    <3>1. Len(Append(activity, a)) = Len(activity) + 1 /\ Len(activity) \in Nat
      BY <1>1
    <3> QED
      BY <2>2, <1>3, <3>1
  <2>3. Range(activity') = Range(activity) \cup {a}
    BY <1>3, <2>1 DEF Range
  <2> QED
    BY <1>3, <2>1, <2>2, <2>3
<1> QED
  BY <1>2, <1>3 DEF Logs

\* The invariant of a whole step from the part that concerns its request.
LEMMA StepKeeps ==
  ASSUME Inv, NEW a \in Admin, Minds(a), Shaped', RowInv', ReqInv(a)', HeldBy(a)'
  PROVE  Inv'
<1>1. LockInv'
  BY DEF Inv, LockInv, Minds, LocksMove
<1>2. ASSUME NEW b \in Admin, b # a
      PROVE  ReqInv(b)' /\ HeldBy(b)'
  <2>1. /\ req'[b] = req[b] /\ ReqInv(b) /\ HeldBy(b) /\ b # NoOne
    BY <1>2, CatalogueAssumption DEF Inv, Minds, OnlyReq
  <2>2. \A r \in Rows : lock'[r] = b <=> lock[r] = b
    BY <1>2, <2>1 DEF Minds, LocksMove
  <2>3. \A r \in Ordered : lock[r] = b =>
          row'[r].live = row[r].live /\ row'[r].order = row[r].order
    BY <1>2, <2>1 DEF Minds, Frozen
  <2>4. MoveInv(b)'
    <3> SUFFICES ASSUME req[b].pc \in Moving
                 PROVE  MoveInv(b)'
      BY <2>1 DEF MoveInv
    <3>1. MoveInv(b)
      BY <2>1 DEF ReqInv
    <3>2. /\ req[b].id \in Ordered /\ lock[req[b].id] = b
          /\ row[req[b].id].live /\ row[req[b].id].order = req[b].seen.order
          /\ req[b].pc # "neighbour" => \A p \in req[b].cand : SameTable(p[1], req[b].id)
      BY <3>1 DEF MoveInv
    <3>3. /\ lock'[req[b].id] = b
          /\ row'[req[b].id].live /\ row'[req[b].id].order = req[b].seen.order
      BY <3>2, <2>2, <2>3 DEF Rows
    <3>4. ASSUME req[b].pc = "swap"
          PROVE  \E p : /\ req[b].cand = {p}
                        /\ lock'[p[1]] = b /\ row'[p[1]].live
                        /\ row'[p[1]].order # req[b].seen.order
      <4>1. PICK p : /\ req[b].cand = {p}
                     /\ lock[p[1]] = b /\ row[p[1]].live
                     /\ row[p[1]].order # req[b].seen.order
        BY <3>1, <3>4 DEF MoveInv
      <4>2. SameTable(p[1], req[b].id)
        BY <3>2, <3>4, <4>1
      <4>3. p[1] \in Ordered
        BY <4>2 DEF SameTable, Ordered
      <4> QED
        BY <4>1, <4>3, <2>2, <2>3 DEF Rows
    <3> QED
      BY <3>2, <3>3, <3>4, <2>1 DEF MoveInv
  <2>5. BulkInv(b)'
    <3>1. BulkInv(b)
      BY <2>1 DEF ReqInv
    <3>2. \A k : Table(k) \subseteq Rows
      BY DEF Table, Rows
    <3>3. \A k : \A r \in Table(k) : lock[r] = b => lock'[r] = b
      BY <3>2, <2>2
    <3> QED
      BY <3>1, <3>3, <2>1 DEF BulkInv, Table
  <2>6. ReadInv(b)'
    BY <2>1 DEF ReqInv, ReadInv
  <2>7. AnswerInv(b)'
    <3>1. b \in Range(activity') <=> b \in Range(activity)
      BY <1>2, LogsOne DEF Inv, Minds, Logs
    <3> QED
      BY <3>1, <2>1 DEF ReqInv, AnswerInv
  <2>8. HeldBy(b)'
    BY <2>1, <2>2, <2>3 DEF HeldBy, Holds, Table
  <2> QED
    BY <2>4, <2>5, <2>6, <2>7, <2>8 DEF ReqInv
<1> QED
  BY <1>1, <1>2 DEF Inv

--------------------------------------------------------------------------------
(* The two ways a handler leaves its request, and the two it treats rows.  *)

LEMMA AnswerParts ==
  ASSUME Inv, NEW a \in Admin, NEW res, Answer(a, res)
  PROVE  /\ req' = [b \in Admin |-> req'[b]] /\ \A b \in Admin : DOMAIN req'[b] = Parts
         /\ OnlyReq(a)
         /\ req'[a].pc = "done" /\ req'[a].kind = req[a].kind
         /\ req'[a].changed = req[a].changed /\ req'[a].result = res
BY DEF Inv, Shaped, Answer, Idle, Parts, OnlyReq

LEMMA ChangedParts ==
  ASSUME Inv, NEW a \in Admin, NEW k, NEW pc, Changed(a, k, pc)
  PROVE  /\ req' = [b \in Admin |-> req'[b]] /\ \A b \in Admin : DOMAIN req'[b] = Parts
         /\ OnlyReq(a)
         /\ req'[a].pc = pc /\ req'[a].kind = k
         /\ req'[a].changed = TRUE /\ req'[a].result = "none"
BY DEF Inv, Shaped, Changed, Idle, Parts, OnlyReq

\* An answer that tells the truth: a success is of a logged change, a refusal of
\* nothing done (or of a toggle).
LEMMA AnswerKeeps ==
  ASSUME Inv, NEW a \in Admin, NEW res, Answer(a, res), Logs(a),
         activity' # activity => req[a].changed,
         res = "ok" => activity' = Append(activity, a),
         res \in {"404", "422"} => ~req[a].changed \/ req[a].kind = "toggle"
  PROVE  ReqInv(a)'
<1>1. /\ req'[a].pc = "done" /\ req'[a].kind = req[a].kind
      /\ req'[a].changed = req[a].changed /\ req'[a].result = res
  BY AnswerParts
<1>2. a \in Range(activity') => a \in Range(activity) \/ req[a].changed
  BY LogsOne DEF Inv, Logs
<1>3. res = "ok" => a \in Range(activity')
  BY LogsOne DEF Inv
<1>4. AnswerInv(a)
  BY DEF Inv, ReqInv
<1>5. AnswerInv(a)'
  BY <1>1, <1>2, <1>3, <1>4 DEF AnswerInv
<1> QED
  BY <1>1, <1>5 DEF ReqInv, MoveInv, BulkInv, ReadInv, Moving

\* A committed change that is about to be logged.
LEMMA ChangedKeeps ==
  ASSUME Inv, NEW a \in Admin, NEW k, Changed(a, k, "log"), UNCHANGED activity,
         req[a].pc # "done"
  PROVE  ReqInv(a)'
<1>1. /\ req'[a].pc = "log" /\ req'[a].changed = TRUE /\ req'[a].result = "none"
  BY ChangedParts
<1>2. a \notin Range(activity')
  BY DEF Inv, ReqInv, AnswerInv
<1>3. AnswerInv(a)'
  BY <1>1, <1>2 DEF AnswerInv
<1> QED
  BY <1>1, <1>3 DEF ReqInv, MoveInv, BulkInv, ReadInv, Moving

\* A request that is not in a transaction holds no row.
LEMMA HoldsNothing ==
  ASSUME Inv, NEW a \in Admin, req[a].pc \notin Moving, req[a].pc # "bulk"
  PROVE  \A r \in Rows : lock[r] # a
BY DEF Inv, HeldBy, Holds

LEMMA KeepsNothing ==
  ASSUME Inv, NEW a \in Admin, req[a].pc \notin Moving, req[a].pc # "bulk", UNCHANGED lock
  PROVE  HeldBy(a)'
BY HoldsNothing DEF HeldBy

\* The end of a transaction.
LEMMA Released ==
  ASSUME Inv, NEW a \in Admin, Release(a)
  PROVE  LocksMove(a) /\ HeldBy(a)' /\ lock' = [r \in Rows |-> lock'[r]]
<1>1. \A r \in Rows : lock'[r] = IF lock[r] = a THEN NoOne ELSE lock[r]
  BY DEF Release
<1>2. a # NoOne
  BY CatalogueAssumption
<1> QED
  BY <1>1, <1>2 DEF LocksMove, HeldBy, Release

\* Rows whose place and existence are left alone.
Kept(r) ==
  /\ row'[r].live = row[r].live /\ row'[r].order = row[r].order
  /\ row'[r].created = row[r].created

\* An update of columns: a content may get another topic, which exists.
Edits ==
  /\ \A r \in Rows : Kept(r)
  /\ \A c \in Content : \/ row'[c].group = row[c].group
                        \/ row'[c].group \in Topic /\ row[row'[c].group].live
  /\ \A r \in Section \cup Setting : row'[r].val = row[r].val

LEMMA EditKeeps ==
  ASSUME Inv, NEW a \in Admin, Edits
  PROVE  RowInv' /\ Frozen(a)
<1>1. GroupsLive'
  <2> SUFFICES ASSUME NEW c \in Content, row'[c].live
               PROVE  row'[c].group \in Topic /\ row'[row'[c].group].live
    BY DEF GroupsLive
  <2>1. c \in Rows /\ row[c].live
    BY DEF Edits, Kept, Rows, Ordered
  <2>2. row'[c].group \in Topic /\ row[row'[c].group].live
    BY <2>1 DEF Edits, Inv, RowInv, GroupsLive
  <2> QED
    BY <2>2 DEF Edits, Kept, Rows, Ordered
<1>2. Stamped'
  BY DEF Edits, Kept, Rows, Ordered, Inv, RowInv, Stamped
<1>3. BulkIsAtomic'
  BY DEF Edits, Inv, RowInv, BulkIsAtomic
<1>4. Frozen(a)
  BY DEF Edits, Kept, Rows, Frozen
<1> QED
  BY <1>1, <1>2, <1>3, <1>4 DEF RowInv

LEMMA SameRowsKeep ==
  ASSUME Inv, NEW a \in Admin, UNCHANGED row
  PROVE  RowInv' /\ Frozen(a)
BY DEF Inv, RowInv, GroupsLive, Stamped, BulkIsAtomic, Frozen

LEMMA ShapeFrom ==
  ASSUME Inv, NEW a \in Admin, Logs(a),
         UNCHANGED row \/ (row' = [r \in Rows |-> row'[r]]
                           /\ \A r \in Rows : DOMAIN row'[r] = Columns),
         UNCHANGED lock \/ lock' = [r \in Rows |-> lock'[r]],
         UNCHANGED req \/ (req' = [b \in Admin |-> req'[b]]
                           /\ \A b \in Admin : DOMAIN req'[b] = Parts)
  PROVE  Shaped'
<1>1. activity' \in Seq(Admin)
  BY LogsOne DEF Inv
<1> QED
  BY <1>1 DEF Inv, Shaped

\* A handler that answers without having changed a row, ending its transaction if
\* it has one.
LEMMA PlainAnswer ==
  ASSUME Inv, NEW a \in Admin, NEW res, Answer(a, res), UNCHANGED row, Logs(a),
         activity' # activity => req[a].changed,
         res = "ok" => activity' = Append(activity, a),
         res \in {"404", "422"} => ~req[a].changed \/ req[a].kind = "toggle",
         Release(a) \/ (UNCHANGED lock /\ req[a].pc \notin Moving \cup {"bulk"})
  PROVE  Inv'
<1>1. ReqInv(a)'
  BY AnswerKeeps
<1>2. RowInv' /\ Frozen(a)
  BY SameRowsKeep
<1>3. LocksMove(a) /\ HeldBy(a)' /\ (UNCHANGED lock \/ lock' = [r \in Rows |-> lock'[r]])
  BY Released, KeepsNothing DEF LocksMove
<1>4. /\ req' = [b \in Admin |-> req'[b]] /\ \A b \in Admin : DOMAIN req'[b] = Parts
      /\ OnlyReq(a)
  BY AnswerParts
<1>5. Shaped'
  BY <1>3, <1>4, ShapeFrom
<1>6. Minds(a)
  BY <1>2, <1>3, <1>4 DEF Minds
<1> QED
  BY <1>1, <1>2, <1>3, <1>5, <1>6, StepKeeps

\* A handler that commits an edit in one statement.
LEMMA EditCommits ==
  ASSUME Inv, NEW a \in Admin, NEW k, Changed(a, k, "log"), Edits,
         row' = [r \in Rows |-> row'[r]], \A r \in Rows : DOMAIN row'[r] = Columns,
         UNCHANGED <<lock, activity>>, req[a].pc \notin Moving \cup {"bulk", "done"}
  PROVE  Inv'
<1>1. ReqInv(a)'
  BY ChangedKeeps
<1>2. RowInv' /\ Frozen(a)
  BY EditKeeps
<1>3. LocksMove(a) /\ HeldBy(a)'
  BY KeepsNothing DEF LocksMove
<1>4. /\ req' = [b \in Admin |-> req'[b]] /\ \A b \in Admin : DOMAIN req'[b] = Parts
      /\ OnlyReq(a)
  BY ChangedParts
<1>5. Shaped'
  BY <1>4, ShapeFrom DEF Logs
<1>6. Minds(a)
  BY <1>2, <1>3, <1>4 DEF Minds, Logs
<1> QED
  BY <1>1, <1>2, <1>3, <1>5, <1>6, StepKeeps

--------------------------------------------------------------------------------
(* One lemma per handler.                                                  *)

\* A request at its start has changed and recorded nothing.
LEMMA AtStart ==
  ASSUME Inv, NEW a \in Admin,
         req[a].pc \in {"idle", "update", "delete", "neighbour", "await", "bulk"}
  PROVE  ~req[a].changed /\ req[a].result = "none" /\ a \notin Range(activity)
BY DEF Inv, ReqInv, AnswerInv

\* A step that only moves the request on.
LEMMA OnlyMovesOn ==
  ASSUME Inv, NEW a \in Admin, UNCHANGED <<row, activity>>,
         req' = [b \in Admin |-> req'[b]], \A b \in Admin : DOMAIN req'[b] = Parts,
         OnlyReq(a), ReqInv(a)', HeldBy(a)',
         UNCHANGED lock \/ (lock' = [r \in Rows |-> lock'[r]] /\ LocksMove(a))
  PROVE  Inv'
<1>1. RowInv' /\ Frozen(a)
  BY SameRowsKeep
<1>2. Shaped'
  BY ShapeFrom DEF Logs
<1>3. Minds(a)
  BY <1>1 DEF Minds, Logs, LocksMove
<1> QED
  BY <1>1, <1>2, <1>3, StepKeeps

\* A refusal at the start.
LEMMA Refuses ==
  ASSUME Inv, NEW a \in Admin, NEW res, res # "ok", Answer(a, res),
         UNCHANGED <<row, lock, activity>>,
         req[a].pc \in {"idle", "update", "delete"}
  PROVE  Inv'
<1>1. ~req[a].changed
  BY AtStart
<1>2. req[a].pc \notin Moving \cup {"bulk"}
  BY DEF Moving
<1> QED
  BY <1>1, <1>2, PlainAnswer DEF Logs

LEMMA ReadForUpdateKeeps ==
  ASSUME Inv, NEW a \in Admin, ReadForUpdate(a)
  PROVE  Inv'
<1>1. PICK id \in Ordered \cup Project :
        IF row[id].live
        THEN req' = [req EXCEPT ![a].pc = "update", ![a].id = id, ![a].seen = row[id]]
        ELSE Answer(a, "404")
  BY DEF ReadForUpdate
<1>2. req[a].pc = "idle" /\ UNCHANGED <<row, lock, activity>>
  BY DEF ReadForUpdate
<1>3. CASE row[id].live
  <2>1. req' = [req EXCEPT ![a].pc = "update", ![a].id = id, ![a].seen = row[id]]
    BY <1>1, <1>3
  <2>2. /\ req' = [b \in Admin |-> req'[b]] /\ \A b \in Admin : DOMAIN req'[b] = Parts
        /\ OnlyReq(a)
        /\ req'[a].pc = "update" /\ req'[a].id = id /\ req'[a].seen = row[id]
        /\ req'[a].changed = req[a].changed /\ req'[a].result = req[a].result
    BY <2>1 DEF Inv, Shaped, Parts, OnlyReq
  <2>3. ReadInv(a)'
    BY <2>2, <1>3 DEF ReadInv, Inv, RowInv, GroupsLive
  <2>4. AnswerInv(a)'
    BY <2>2, <1>2, AtStart DEF AnswerInv
  <2>5. ReqInv(a)'
    BY <2>2, <2>3, <2>4 DEF ReqInv, MoveInv, BulkInv, Moving
  <2>6. HeldBy(a)'
    BY <1>2, KeepsNothing DEF Moving
  <2> QED
    BY <1>2, <2>2, <2>5, <2>6, OnlyMovesOn
<1>4. CASE ~row[id].live
  BY <1>1, <1>2, <1>4, Refuses
<1> QED
  BY <1>3, <1>4

LEMMA UpdateGoneKeeps ==
  ASSUME Inv, NEW a \in Admin, UpdateGone(a)
  PROVE  Inv'
<1> DEFINE res == IF req[a].id \in Project THEN "404" ELSE "500"
<1>1. /\ req[a].pc = "update" /\ Answer(a, res) /\ res # "ok"
      /\ UNCHANGED <<row, lock, activity>>
  BY DEF UpdateGone
<1> HIDE DEF res
<1> QED
  BY <1>1, Refuses

LEMMA UpdateTopicKeeps ==
  ASSUME Inv, NEW a \in Admin, UpdateTopic(a)
  PROVE  Inv'
<1> DEFINE id == req[a].id
<1>1. /\ req[a].pc = "update" /\ id \in Topic /\ id \in Rows /\ Changed(a, "other", "log")
      /\ UNCHANGED <<lock, activity>>
  BY DEF UpdateTopic, CanWrite, Rows, Ordered
<1>2. PICK sub : row' = [row EXCEPT ![id].sub = sub, ![id].val = a]
  BY DEF UpdateTopic
<1> HIDE DEF id
<1>3. /\ row' = [r \in Rows |-> row'[r]] /\ \A r \in Rows : DOMAIN row'[r] = Columns
      /\ \A r \in Rows : Kept(r) /\ row'[r].group = row[r].group
      /\ \A r \in Rows : r # id => row'[r] = row[r]
  BY <1>1, <1>2 DEF Inv, Shaped, Columns, Kept
<1>4. Edits
  BY <1>1, <1>3, TablesAreDisjoint DEF Edits, Rows, Ordered
<1> QED
  BY <1>1, <1>3, <1>4, EditCommits DEF Moving

LEMMA UpdateContentKeeps ==
  ASSUME Inv, NEW a \in Admin, UpdateContent(a)
  PROVE  Inv'
<1> DEFINE id == req[a].id
           t(given) == IF given = NoOne THEN req[a].seen.group ELSE given
<1>1. /\ req[a].pc = "update" /\ id \in Content /\ id \in Rows
      /\ UNCHANGED <<lock, activity>>
  BY DEF UpdateContent, CanWrite, Rows, Ordered
<1>2. PICK given \in Topic \cup {NoOne} :
        IF TopicExists(t(given))
        THEN /\ row' = [row EXCEPT ![id].group = t(given), ![id].val = a]
             /\ Changed(a, "other", "log")
        ELSE Answer(a, "500") /\ UNCHANGED row
  BY DEF UpdateContent
<1>3. t(given) \in Topic
  BY <1>1, <1>2 DEF Inv, ReqInv, ReadInv
<1> DEFINE g == t(given)
<1> HIDE DEF id, g
<1>4. CASE TopicExists(g)
  <2>1. row' = [row EXCEPT ![id].group = g, ![id].val = a] /\ Changed(a, "other", "log")
    BY <1>2, <1>4 DEF g
  <2>2. /\ row' = [r \in Rows |-> row'[r]] /\ \A r \in Rows : DOMAIN row'[r] = Columns
        /\ \A r \in Rows : Kept(r)
        /\ row'[id].group = g
        /\ \A r \in Rows : r # id => row'[r] = row[r]
    BY <1>1, <2>1 DEF Inv, Shaped, Columns, Kept
  <2>3. g \in Topic /\ row[g].live
    BY <1>3, <1>4 DEF g, TopicExists
  <2>4. Edits
    BY <1>1, <2>2, <2>3, TablesAreDisjoint DEF Edits, Rows, Ordered
  <2> QED
    BY <1>1, <2>1, <2>2, <2>4, EditCommits DEF Moving
<1>5. CASE ~TopicExists(g)
  <2>1. Answer(a, "500") /\ UNCHANGED row
    BY <1>2, <1>5 DEF g
  <2> QED
    BY <1>1, <2>1, Refuses
<1> QED
  BY <1>4, <1>5

LEMMA UpdateProjectKeeps ==
  ASSUME Inv, NEW a \in Admin, UpdateProject(a)
  PROVE  Inv'
<1> DEFINE p == req[a].id
<1>1. /\ req[a].pc = "update" /\ p \in Project /\ p \in Rows /\ Changed(a, "other", "log")
      /\ UNCHANGED <<lock, activity>>
  BY DEF UpdateProject, CanWrite, Rows
<1>2. PICK startsAt, endsAt \in {NoOne, 0, 1} :
        LET starts == ParseDt(startsAt, req[a].seen)
            ends   == ParseDt(endsAt, req[a].seen)
        IN  row' = [row EXCEPT ![p].val = a, ![p].flag = req[a].seen.flag,
                               ![p].starts = IF starts = NoOne THEN @ ELSE starts,
                               ![p].ends = IF ends = NoOne THEN @ ELSE ends]
  BY DEF UpdateProject
<1> HIDE DEF p
<1>3. /\ row' = [r \in Rows |-> row'[r]] /\ \A r \in Rows : DOMAIN row'[r] = Columns
      /\ \A r \in Rows : Kept(r) /\ row'[r].group = row[r].group
      /\ \A r \in Rows : r # p => row'[r] = row[r]
  <2>1. row = [r \in Rows |-> row[r]] /\ \A r \in Rows : DOMAIN row[r] = Columns
    BY DEF Inv, Shaped
  <2>2. /\ row' = [r \in Rows |-> row'[r]]
        /\ \A r \in Rows : r # p => row'[r] = row[r]
    BY <1>1, <1>2, <2>1
  <2>3. /\ DOMAIN row'[p] = Columns /\ row'[p].live = row[p].live
        /\ row'[p].order = row[p].order /\ row'[p].created = row[p].created
        /\ row'[p].group = row[p].group
    BY <1>1, <1>2, <2>1 DEF Columns
  <2>4. ASSUME NEW r \in Rows
        PROVE  DOMAIN row'[r] = Columns /\ Kept(r) /\ row'[r].group = row[r].group
    BY <2>1, <2>2, <2>3 DEF Kept
  <2> QED
    BY <2>2, <2>4
<1>4. Edits
  BY <1>1, <1>3, TablesAreDisjoint DEF Edits, Rows, Ordered
<1> QED
  BY <1>1, <1>3, <1>4, EditCommits DEF Moving

\* A new row is stamped after every other.
LEMMA NextStampIsNew ==
  ASSUME Inv, NEW c \in Content
  PROVE  /\ NextStamp \in Nat /\ NextStamp # 0
         /\ \A d \in Content : row[d].created \in Nat /\ NextStamp > row[d].created
<1> DEFINE S == {row[r].created : r \in Content}
<1>1. S \in SUBSET Nat /\ S # {}
  BY DEF Inv, RowInv, Stamped, Ordered
<1>2. IsFiniteSet(S)
  <2>1. IsFiniteSet(Content)
    BY CatalogueAssumption, FS_Subset DEF Rows, Ordered
  <2> DEFINE f == [r \in Content |-> row[r].created]
  <2>2. f \in Surjection(Content, S)
    BY DEF Surjection
  <2> HIDE DEF f, S
  <2> QED
    BY <2>1, <2>2, FS_Surjection
<1>3. Max(S) \in Nat /\ \A y \in S : Max(S) >= y
  <2> HIDE DEF S
  <2> QED
    BY <1>1, <1>2, GreatestElement
<1>4. NextStamp = 1 + Max(S)
  BY DEF NextStamp
<1>5. \A d \in Content : row[d].created \in S
  OBVIOUS
<1> HIDE DEF S
<1> QED
  BY <1>1, <1>3, <1>4, <1>5

LEMMA CreateContentKeeps ==
  ASSUME Inv, NEW a \in Admin, CreateContent(a)
  PROVE  Inv'
<1>1. req[a].pc = "idle" /\ UNCHANGED <<lock, activity>>
  BY DEF CreateContent
<1>2. PICK c \in {x \in Content : row[x].created = 0}, t \in Topic, file, valid \in BOOLEAN :
        \/ ~valid /\ Answer(a, "422") /\ UNCHANGED row
        \/ valid /\ ~TopicExists(t) /\ Answer(a, "500") /\ UNCHANGED row
        \/ /\ valid /\ TopicExists(t)
           /\ row' = [row EXCEPT ![c] = [Blank EXCEPT !.live = TRUE, !.group = t, !.val = a,
                                            !.file = file, !.created = NextStamp]]
           /\ Changed(a, "other", "log")
  BY DEF CreateContent
<1>3. CASE Answer(a, "422") /\ UNCHANGED row
  BY <1>1, <1>3, Refuses
<1>4. CASE Answer(a, "500") /\ UNCHANGED row
  BY <1>1, <1>4, Refuses
<1>5. CASE /\ TopicExists(t)
           /\ row' = [row EXCEPT ![c] = [Blank EXCEPT !.live = TRUE, !.group = t, !.val = a,
                                            !.file = file, !.created = NextStamp]]
           /\ Changed(a, "other", "log")
  <2>1. c \in Content /\ c \in Rows /\ row[c].created = 0 /\ ~row[c].live
    BY <1>2 DEF Rows, Ordered, Inv, RowInv, Stamped
  <2>2. NextStamp \in Nat /\ NextStamp # 0
    BY <2>1, NextStampIsNew
  <2>3. /\ row' = [r \in Rows |-> row'[r]]
        /\ \A r \in Rows : r # c => row'[r] = row[r]
        /\ row'[c] = [Blank EXCEPT !.live = TRUE, !.group = t, !.val = a,
                                   !.file = file, !.created = NextStamp]
    BY <1>5, <2>1 DEF Inv, Shaped
  <2>4. /\ row'[c].live /\ row'[c].group = t /\ row'[c].order = 0
        /\ row'[c].created = NextStamp /\ DOMAIN row'[c] = Columns
    BY <2>3 DEF Blank, Columns
  <2>5. \A r \in Rows : DOMAIN row'[r] = Columns
    BY <2>3, <2>4 DEF Inv, Shaped
  <2>6. GroupsLive'
    <3> SUFFICES ASSUME NEW d \in Content, row'[d].live
                 PROVE  row'[d].group \in Topic /\ row'[row'[d].group].live
      BY DEF GroupsLive
    <3>1. \A u \in Topic : u \in Rows /\ u # c
      BY <2>1, TablesAreDisjoint DEF Rows, Ordered
    <3>2. CASE d = c
      BY <3>1, <3>2, <1>5, <1>2, <2>3, <2>4 DEF TopicExists
    <3>3. CASE d # c
      BY <3>1, <3>3, <2>3 DEF Inv, RowInv, GroupsLive, Rows, Ordered
    <3> QED
      BY <3>2, <3>3
  <2>7. Stamped'
    <3> SUFFICES ASSUME NEW r \in Ordered
                 PROVE  /\ row'[r].order \in Nat /\ row'[r].created \in Nat
                        /\ row'[r].live => row'[r].created # 0
      BY DEF Stamped
    <3>1. CASE r = c
      BY <3>1, <2>2, <2>4
    <3>2. CASE r # c
      BY <3>2, <2>3 DEF Inv, RowInv, Stamped, Rows
    <3> QED
      BY <3>1, <3>2
  <2>8. BulkIsAtomic'
    BY <2>1, <2>3, TablesAreDisjoint DEF Inv, RowInv, BulkIsAtomic, Rows
  <2>9. Frozen(a)
    <3>1. lock[c] \in {NoOne, a}
      <4>1. \A b \in Admin : lock[c] = b => Holds(b, c)
        BY <2>1 DEF Inv, HeldBy
      <4>2. \A b \in Admin : ~Holds(b, c)
        BY <2>1, TablesAreDisjoint DEF Holds, Table
      <4> QED
        BY <4>1, <4>2, <2>1 DEF Inv, LockInv
    <3> QED
      BY <3>1, <2>3 DEF Frozen, Rows
  <2>10. ReqInv(a)'
    BY <1>1, <1>5, ChangedKeeps
  <2>11. LocksMove(a) /\ HeldBy(a)'
    BY <1>1, KeepsNothing DEF LocksMove, Moving
  <2>12. /\ req' = [b \in Admin |-> req'[b]] /\ \A b \in Admin : DOMAIN req'[b] = Parts
         /\ OnlyReq(a)
    BY <1>5, ChangedParts
  <2>13. Shaped'
    BY <1>1, <2>3, <2>5, <2>12, ShapeFrom DEF Logs
  <2>14. Minds(a)
    BY <1>1, <2>9, <2>11, <2>12 DEF Minds, Logs
  <2> QED
    BY <2>6, <2>7, <2>8, <2>10, <2>11, <2>13, <2>14, StepKeeps DEF RowInv
<1> QED
  BY <1>2, <1>3, <1>4, <1>5

\* The row goes, a topic with its contents.
LEMMA DeleteKeeps ==
  ASSUME Inv, NEW a \in Admin, NEW id \in Topic \cup Content \cup Project, Delete(a, id),
         UNCHANGED <<lock, activity>>, req[a].pc \in {"idle", "delete"},
         \A r \in Ordered \cap Cascade(id) : Free(r, a)
  PROVE  Inv'
<1>1. CASE ~row[id].live
  BY <1>1, Refuses DEF Delete
<1>2. CASE row[id].live
  <2>1. /\ row' = [r \in Rows |-> IF r \in Cascade(id) THEN [row[r] EXCEPT !.live = FALSE]
                                  ELSE row[r]]
        /\ Changed(a, "other", "log")
    BY <1>2 DEF Delete
  <2>2. \A r \in Rows : row'[r] = IF r \in Cascade(id) THEN [row[r] EXCEPT !.live = FALSE]
                                  ELSE row[r]
    BY <2>1
  <2>3. \A r \in Rows : /\ DOMAIN row'[r] = Columns
                        /\ row'[r].live = IF r \in Cascade(id) THEN FALSE ELSE row[r].live
                        /\ row'[r].order = row[r].order /\ row'[r].created = row[r].created
                        /\ row'[r].group = row[r].group /\ row'[r].val = row[r].val
    <3> SUFFICES ASSUME NEW r \in Rows
                 PROVE  /\ DOMAIN row'[r] = Columns
                        /\ row'[r].live = IF r \in Cascade(id) THEN FALSE ELSE row[r].live
                        /\ row'[r].order = row[r].order /\ row'[r].created = row[r].created
                        /\ row'[r].group = row[r].group /\ row'[r].val = row[r].val
      OBVIOUS
    <3>1. DOMAIN row[r] = Columns
      BY DEF Inv, Shaped
    <3>2. CASE r \in Cascade(id)
      BY <2>2, <3>1, <3>2 DEF Columns
    <3>3. CASE r \notin Cascade(id)
      BY <2>2, <3>1, <3>3
    <3> QED
      BY <3>2, <3>3
  <2>4. GroupsLive'
    <3> SUFFICES ASSUME NEW c \in Content, row'[c].live
                 PROVE  row'[c].group \in Topic /\ row'[row'[c].group].live
      BY DEF GroupsLive
    <3>1. c \in Rows /\ row[c].live /\ c \notin Cascade(id) /\ row'[c].group = row[c].group
      BY <2>3 DEF Rows, Ordered
    <3>2. row[c].group \in Topic /\ row[row[c].group].live /\ row[c].group # id
      BY <3>1 DEF Inv, RowInv, GroupsLive, Cascade
    <3>3. row[c].group \notin Cascade(id)
      BY <3>2, TablesAreDisjoint DEF Cascade
    <3> QED
      BY <3>1, <3>2, <3>3, <2>3 DEF Rows, Ordered
  <2>5. Stamped'
    BY <2>3 DEF Inv, RowInv, Stamped, Rows
  <2>6. BulkIsAtomic'
    <3>1. \A r \in Section \cup Setting : row'[r].val = row[r].val
      BY <2>3 DEF Rows
    <3> QED
      BY <3>1 DEF Inv, RowInv, BulkIsAtomic
  <2>7. Frozen(a)
    BY <2>3 DEF Frozen, Free, Rows
  <2>8. ReqInv(a)'
    BY <2>1, ChangedKeeps
  <2>9. LocksMove(a) /\ HeldBy(a)'
    BY KeepsNothing DEF LocksMove, Moving
  <2>10. /\ req' = [b \in Admin |-> req'[b]] /\ \A b \in Admin : DOMAIN req'[b] = Parts
         /\ OnlyReq(a)
    BY <2>1, ChangedParts
  <2>11. row' = [r \in Rows |-> row'[r]]
    BY <2>1
  <2>12. Shaped'
    BY <2>3, <2>10, <2>11, ShapeFrom DEF Logs
  <2>13. Minds(a)
    BY <2>7, <2>9, <2>10 DEF Minds, Logs
  <2> QED
    BY <2>4, <2>5, <2>6, <2>8, <2>9, <2>12, <2>13, StepKeeps DEF RowInv
<1> QED
  BY <1>1, <1>2

LEMMA DeletesKeep ==
  ASSUME Inv, NEW a \in Admin, DeleteTopic(a) \/ DeleteContent(a) \/ DeleteProject(a)
  PROVE  Inv'
<1>1. CASE DeleteTopic(a)
  BY <1>1, DeleteKeeps DEF DeleteTopic
<1>2. CASE DeleteContent(a)
  <2>1. PICK id \in Content : Free(id, a) /\ Delete(a, id)
    BY <1>2 DEF DeleteContent
  <2>2. Cascade(id) = {id}
    BY TablesAreDisjoint DEF Cascade, Inv, RowInv, GroupsLive
  <2> QED
    BY <1>2, <2>1, <2>2, DeleteKeeps DEF DeleteContent
<1>3. CASE DeleteProject(a)
  <2>1. req[a].pc = "delete" /\ Delete(a, req[a].id) /\ req[a].id \in Project
    BY <1>3 DEF DeleteProject, Inv, ReqInv, ReadInv
  <2>2. Ordered \cap Cascade(req[a].id) = {}
    BY <2>1, TablesAreDisjoint DEF Cascade, Inv, RowInv, GroupsLive, Ordered
  <2> QED
    BY <1>3, <2>1, <2>2, DeleteKeeps DEF DeleteProject
<1> QED
  BY <1>1, <1>2, <1>3

LEMMA FindProjectKeeps ==
  ASSUME Inv, NEW a \in Admin, FindProjectToDelete(a)
  PROVE  Inv'
<1>1. PICK p \in Project : IF row[p].live THEN req' = [req EXCEPT ![a].pc = "delete", ![a].id = p]
                           ELSE Answer(a, "404")
  BY DEF FindProjectToDelete
<1>2. req[a].pc = "idle" /\ UNCHANGED <<row, lock, activity>>
  BY DEF FindProjectToDelete
<1>3. CASE row[p].live
  <2>1. req' = [req EXCEPT ![a].pc = "delete", ![a].id = p]
    BY <1>1, <1>3
  <2>2. /\ req' = [b \in Admin |-> req'[b]] /\ \A b \in Admin : DOMAIN req'[b] = Parts
        /\ OnlyReq(a)
        /\ req'[a].pc = "delete" /\ req'[a].id = p
        /\ req'[a].changed = req[a].changed /\ req'[a].result = req[a].result
    BY <2>1 DEF Inv, Shaped, Parts, OnlyReq
  <2>3. ReadInv(a)'
    BY <2>2 DEF ReadInv
  <2>4. AnswerInv(a)'
    BY <2>2, <1>2, AtStart DEF AnswerInv
  <2>5. ReqInv(a)'
    BY <2>2, <2>3, <2>4 DEF ReqInv, MoveInv, BulkInv, Moving
  <2>6. HeldBy(a)'
    BY <1>2, KeepsNothing DEF Moving
  <2> QED
    BY <1>2, <2>2, <2>5, <2>6, OnlyMovesOn
<1>4. CASE ~row[p].live
  BY <1>1, <1>2, <1>4, Refuses
<1> QED
  BY <1>3, <1>4

LEMMA SetPublishKeeps ==
  ASSUME Inv, NEW a \in Admin, NEW id \in Ordered, NEW flag, SetPublish(a, id, flag),
         req[a].pc = "idle"
  PROVE  Inv'
<1>1. CASE row[id].live
  <2>1. /\ row' = [row EXCEPT ![id].flag = flag] /\ Changed(a, "other", "log")
        /\ UNCHANGED <<lock, activity>> /\ id \in Rows
    BY <1>1 DEF SetPublish, Rows
  <2>2. /\ row' = [r \in Rows |-> row'[r]] /\ \A r \in Rows : DOMAIN row'[r] = Columns
        /\ \A r \in Rows : Kept(r) /\ row'[r].group = row[r].group /\ row'[r].val = row[r].val
    BY <2>1 DEF Inv, Shaped, Columns, Kept
  <2>3. Edits
    BY <2>2 DEF Edits, Rows, Ordered
  <2> QED
    BY <2>1, <2>2, <2>3, EditCommits DEF Moving
<1>2. CASE ~row[id].live
  BY <1>2, Refuses DEF SetPublish
<1> QED
  BY <1>1, <1>2

LEMMA ShowNowKeeps ==
  ASSUME Inv, NEW a \in Admin, ShowNow(a)
  PROVE  Inv'
<1>1. PICK p \in Project :
        IF row[p].live
        THEN /\ row' = [row EXCEPT ![p].flag = TRUE, ![p].starts = NoOne]
             /\ Changed(a, "other", "log")
        ELSE Answer(a, "404") /\ UNCHANGED row
  BY DEF ShowNow
<1>2. req[a].pc = "idle" /\ UNCHANGED <<lock, activity>> /\ p \in Rows
  BY DEF ShowNow, Rows
<1>3. CASE row[p].live
  <2>1. row' = [row EXCEPT ![p].flag = TRUE, ![p].starts = NoOne] /\ Changed(a, "other", "log")
    BY <1>1, <1>3
  <2>2. /\ row' = [r \in Rows |-> row'[r]] /\ \A r \in Rows : DOMAIN row'[r] = Columns
        /\ \A r \in Rows : Kept(r) /\ row'[r].group = row[r].group /\ row'[r].val = row[r].val
    BY <2>1, <1>2 DEF Inv, Shaped, Columns, Kept
  <2>3. Edits
    BY <2>2 DEF Edits, Rows, Ordered
  <2> QED
    BY <1>2, <2>1, <2>2, <2>3, EditCommits DEF Moving
<1>4. CASE ~row[p].live
  BY <1>1, <1>2, <1>4, Refuses
<1> QED
  BY <1>3, <1>4

LEMMA ToggleKeeps ==
  ASSUME Inv, NEW a \in Admin, ToggleActive(a)
  PROVE  Inv'
<1>1. PICK p \in Project :
        IF row[p].live
        THEN /\ row' = [row EXCEPT ![p].flag = ~@]
             /\ req' = [req EXCEPT ![a].pc = "reload", ![a].id = p, ![a].kind = "toggle",
                                   ![a].changed = TRUE]
        ELSE Answer(a, "404") /\ UNCHANGED row
  BY DEF ToggleActive
<1>2. req[a].pc = "idle" /\ UNCHANGED <<lock, activity>> /\ p \in Rows
  BY DEF ToggleActive, Rows
<1>3. CASE row[p].live
  <2>1. /\ row' = [row EXCEPT ![p].flag = ~@]
        /\ req' = [req EXCEPT ![a].pc = "reload", ![a].id = p, ![a].kind = "toggle",
                              ![a].changed = TRUE]
    BY <1>1, <1>3
  <2>2. /\ row' = [r \in Rows |-> row'[r]] /\ \A r \in Rows : DOMAIN row'[r] = Columns
        /\ \A r \in Rows : Kept(r) /\ row'[r].group = row[r].group /\ row'[r].val = row[r].val
    BY <2>1, <1>2 DEF Inv, Shaped, Columns, Kept
  <2>3. Edits
    BY <2>2 DEF Edits, Rows, Ordered
  <2>4. RowInv' /\ Frozen(a)
    BY <2>3, EditKeeps
  <2>5. /\ req' = [b \in Admin |-> req'[b]] /\ \A b \in Admin : DOMAIN req'[b] = Parts
        /\ OnlyReq(a)
        /\ req'[a].pc = "reload" /\ req'[a].id = p /\ req'[a].kind = "toggle"
        /\ req'[a].changed = TRUE /\ req'[a].result = req[a].result
    BY <2>1 DEF Inv, Shaped, Parts, OnlyReq
  <2>6. AnswerInv(a)'
    BY <2>5, <1>2, AtStart DEF AnswerInv
  <2>7. ReqInv(a)'
    BY <2>5, <2>6 DEF ReqInv, MoveInv, BulkInv, ReadInv, Moving
  <2>8. LocksMove(a) /\ HeldBy(a)'
    BY <1>2, KeepsNothing DEF LocksMove, Moving
  <2>9. Shaped'
    BY <1>2, <2>2, <2>5, ShapeFrom DEF Logs
  <2>10. Minds(a)
    BY <1>2, <2>4, <2>5, <2>8 DEF Minds, Logs
  <2> QED
    BY <2>4, <2>7, <2>8, <2>9, <2>10, StepKeeps
<1>4. CASE ~row[p].live
  BY <1>1, <1>2, <1>4, Refuses
<1> QED
  BY <1>3, <1>4

LEMMA ReloadKeeps ==
  ASSUME Inv, NEW a \in Admin, ReloadToggled(a)
  PROVE  Inv'
<1>1. /\ req[a].pc = "reload" /\ UNCHANGED <<row, lock, activity>>
      /\ req[a].kind = "toggle" /\ req[a].changed
      /\ req[a].result = "none" /\ a \notin Range(activity)
  BY DEF ReloadToggled, Inv, ReqInv, AnswerInv
<1>2. CASE req' = [req EXCEPT ![a].pc = "log"]
  <2>1. /\ req' = [b \in Admin |-> req'[b]] /\ \A b \in Admin : DOMAIN req'[b] = Parts
        /\ OnlyReq(a)
        /\ req'[a].pc = "log"
        /\ req'[a].changed = req[a].changed /\ req'[a].result = req[a].result
    BY <1>2 DEF Inv, Shaped, Parts, OnlyReq
  <2>2. AnswerInv(a)'
    BY <1>1, <2>1 DEF AnswerInv
  <2>3. ReqInv(a)'
    BY <2>1, <2>2 DEF ReqInv, MoveInv, BulkInv, ReadInv, Moving
  <2>4. HeldBy(a)'
    BY <1>1, KeepsNothing DEF Moving
  <2> QED
    BY <1>1, <2>1, <2>3, <2>4, OnlyMovesOn
<1>3. CASE Answer(a, "404")
  BY <1>1, <1>3, PlainAnswer DEF Logs, Moving
<1> QED
  BY <1>2, <1>3 DEF ReloadToggled

LEMMA LockMovedKeeps ==
  ASSUME Inv, NEW a \in Admin, NEW id \in Ordered, NEW dir, LockMoved(a, id, dir),
         req[a].pc = "idle", UNCHANGED <<row, activity>>
  PROVE  Inv'
<1>1. CASE row[id].live
  <2>1. /\ lock' = [lock EXCEPT ![id] = a] /\ Free(id, a) /\ id \in Rows
        /\ req' = [req EXCEPT ![a].pc = "neighbour", ![a].id = id, ![a].dir = dir,
                              ![a].seen = row[id]]
    BY <1>1 DEF LockMoved, Rows
  <2>2. /\ req' = [b \in Admin |-> req'[b]] /\ \A b \in Admin : DOMAIN req'[b] = Parts
        /\ OnlyReq(a)
        /\ req'[a].pc = "neighbour" /\ req'[a].id = id /\ req'[a].seen = row[id]
        /\ req'[a].changed = req[a].changed /\ req'[a].result = req[a].result
    BY <2>1 DEF Inv, Shaped, Parts, OnlyReq
  <2>3. /\ lock' = [r \in Rows |-> lock'[r]]
        /\ \A r \in Rows : lock'[r] = IF r = id THEN a ELSE lock[r]
    BY <2>1 DEF Inv, Shaped
  <2>4. LocksMove(a)
    BY <2>1, <2>3 DEF LocksMove, Free
  <2>5. MoveInv(a)'
    <3>1. row' = row /\ lock'[id] = a
      BY <2>1, <2>3
    <3>2. /\ req'[a].id \in Ordered /\ lock'[req'[a].id] = a
          /\ row'[req'[a].id].live /\ row'[req'[a].id].order = req'[a].seen.order
      BY <1>1, <2>2, <3>1
    <3> QED
      BY <2>2, <3>2 DEF MoveInv
  <2>6. AnswerInv(a)'
    BY <2>2, AtStart DEF AnswerInv
  <2>7. ReqInv(a)'
    BY <2>2, <2>5, <2>6 DEF ReqInv, BulkInv, ReadInv
  <2>8. HeldBy(a)'
    <3>1. \A r \in Rows : lock[r] # a
      BY HoldsNothing DEF Moving
    <3> QED
      BY <3>1, <2>2, <2>3, <1>1 DEF HeldBy, Holds, Moving
  <2> QED
    BY <2>2, <2>3, <2>4, <2>7, <2>8, OnlyMovesOn
<1>2. CASE ~row[id].live
  BY <1>2, Refuses DEF LockMoved
<1> QED
  BY <1>1, <1>2

LEMMA FindNeighbourKeeps ==
  ASSUME Inv, NEW a \in Admin, FindNeighbour(a)
  PROVE  Inv'
<1> DEFINE id   == req[a].id
           cand == {<<n, row[n].order>> :
                     n \in {n \in Siblings(id) \ {id} :
                              row[n].live /\ Beyond(req[a].dir, row[n].order, req[a].seen.order)}}
<1>1. req[a].pc = "neighbour" /\ UNCHANGED <<row, activity>>
  BY DEF FindNeighbour
<1>2. \/ AtTheEdge(a)
      \/ req' = [req EXCEPT ![a].pc = "await", ![a].cand = cand] /\ UNCHANGED lock
  BY DEF FindNeighbour
<1>3. MoveInv(a) /\ id \in Ordered
  BY <1>1 DEF Inv, ReqInv, MoveInv, Moving
<1>4. \A p \in cand : SameTable(p[1], id)
  BY <1>3 DEF SameTable, Siblings, Ordered
<1> HIDE DEF cand, id
<1>5. CASE AtTheEdge(a)
  BY <1>1, <1>5, AtStart, PlainAnswer DEF AtTheEdge, Logs
<1>6. CASE req' = [req EXCEPT ![a].pc = "await", ![a].cand = cand] /\ UNCHANGED lock
  <2>1. /\ req' = [b \in Admin |-> req'[b]] /\ \A b \in Admin : DOMAIN req'[b] = Parts
        /\ OnlyReq(a)
        /\ req'[a].pc = "await" /\ req'[a].id = id /\ req'[a].seen = req[a].seen
        /\ req'[a].cand = cand /\ req[a].id = id
        /\ req'[a].changed = req[a].changed /\ req'[a].result = req[a].result
    BY <1>6 DEF Inv, Shaped, Parts, OnlyReq, id
  <2>2. MoveInv(a)'
    <3>1. /\ row' = row /\ lock' = lock /\ lock[id] = a
          /\ row[id].live /\ row[id].order = req[a].seen.order
      BY <1>1, <1>3, <1>6 DEF MoveInv, Moving, id
    <3> QED
      BY <3>1, <1>3, <1>4, <2>1 DEF MoveInv
  <2>3. AnswerInv(a)'
    BY <1>1, <2>1, AtStart DEF AnswerInv
  <2>4. ReqInv(a)'
    BY <2>1, <2>2, <2>3 DEF ReqInv, BulkInv, ReadInv
  <2>5. HeldBy(a)'
    BY <1>1, <1>6, <2>1 DEF Inv, HeldBy, Holds, Moving
  <2> QED
    BY <1>1, <1>6, <2>1, <2>4, <2>5, OnlyMovesOn
<1> QED
  BY <1>2, <1>5, <1>6

LEMMA LockNeighbourKeeps ==
  ASSUME Inv, NEW a \in Admin, LockNeighbour(a)
  PROVE  Inv'
<1>1. req[a].pc = "await" /\ UNCHANGED <<row, activity>>
  BY DEF LockNeighbour
<1>2. PICK p \in Nearest(req[a].cand, req[a].dir) :
       LET n == p[1] IN
       /\ Free(n, a)
       /\ IF /\ row[n].live /\ row[n].group = req[a].seen.group
             /\ Beyond(req[a].dir, row[n].order, req[a].seen.order)
          THEN /\ lock' = [lock EXCEPT ![n] = a]
               /\ req' = [req EXCEPT ![a].pc = "swap", ![a].cand = {p}]
          ELSE IF req[a].cand = {p} THEN AtTheEdge(a)
          ELSE req' = [req EXCEPT ![a].cand = @ \ {p}] /\ UNCHANGED lock
  BY DEF LockNeighbour
<1> DEFINE n == p[1]
<1>3. /\ MoveInv(a) /\ req[a].id \in Ordered /\ lock[req[a].id] = a
      /\ row[req[a].id].live /\ row[req[a].id].order = req[a].seen.order
      /\ \A q \in req[a].cand : SameTable(q[1], req[a].id)
  BY <1>1 DEF Inv, ReqInv, MoveInv, Moving
<1>4. p \in req[a].cand /\ SameTable(n, req[a].id) /\ n \in Ordered /\ n \in Rows
  BY <1>2, <1>3 DEF Nearest, SameTable, Rows, Ordered
<1>5. ~req[a].changed /\ req[a].result = "none" /\ a \notin Range(activity)
  BY <1>1, AtStart
<1> HIDE DEF n
<1>6. CASE /\ Free(n, a) /\ row[n].live
           /\ Beyond(req[a].dir, row[n].order, req[a].seen.order)
           /\ lock' = [lock EXCEPT ![n] = a]
           /\ req' = [req EXCEPT ![a].pc = "swap", ![a].cand = {p}]
  <2>1. /\ req' = [b \in Admin |-> req'[b]] /\ \A b \in Admin : DOMAIN req'[b] = Parts
        /\ OnlyReq(a)
        /\ req'[a].pc = "swap" /\ req'[a].id = req[a].id /\ req'[a].seen = req[a].seen
        /\ req'[a].cand = {p}
        /\ req'[a].changed = req[a].changed /\ req'[a].result = req[a].result
    BY <1>6 DEF Inv, Shaped, Parts, OnlyReq
  <2>2. /\ lock' = [r \in Rows |-> lock'[r]]
        /\ \A r \in Rows : lock'[r] = IF r = n THEN a ELSE lock[r]
    BY <1>6 DEF Inv, Shaped
  <2>3. LocksMove(a)
    BY <1>6, <2>2 DEF LocksMove, Free
  <2>4. row[n].order # req[a].seen.order
    <3>1. row[n].order \in Nat /\ req[a].seen.order \in Nat
      BY <1>3, <1>4 DEF Inv, RowInv, Stamped
    <3> QED
      BY <3>1, <1>6 DEF Beyond
  <2>5. MoveInv(a)'
    <3>1. lock'[req[a].id] = a /\ lock'[n] = a
      BY <1>3, <1>4, <2>2 DEF Rows
    <3>2. \E q : /\ req'[a].cand = {q}
                 /\ lock'[q[1]] = a /\ row'[q[1]].live
                 /\ row'[q[1]].order # req'[a].seen.order
      BY <3>1, <2>1, <2>4, <1>1, <1>6 DEF n
    <3>3. \A q \in req'[a].cand : SameTable(q[1], req'[a].id)
      BY <1>4, <2>1 DEF n
    <3> QED
      BY <1>1, <1>3, <2>1, <3>1, <3>2, <3>3 DEF MoveInv
  <2>6. AnswerInv(a)'
    BY <1>1, <1>5, <2>1 DEF AnswerInv
  <2>7. ReqInv(a)'
    BY <2>1, <2>5, <2>6 DEF ReqInv, BulkInv, ReadInv
  <2>8. HeldBy(a)'
    BY <1>1, <1>4, <1>6, <2>1, <2>2 DEF Inv, HeldBy, Holds, Moving
  <2> QED
    BY <1>1, <2>1, <2>2, <2>3, <2>7, <2>8, OnlyMovesOn
<1>7. CASE AtTheEdge(a)
  BY <1>1, <1>5, <1>7, PlainAnswer DEF AtTheEdge, Logs
<1>8. CASE req' = [req EXCEPT ![a].cand = @ \ {p}] /\ UNCHANGED lock
  <2>1. /\ req' = [b \in Admin |-> req'[b]] /\ \A b \in Admin : DOMAIN req'[b] = Parts
        /\ OnlyReq(a)
        /\ req'[a].pc = "await" /\ req'[a].id = req[a].id /\ req'[a].seen = req[a].seen
        /\ req'[a].cand = req[a].cand \ {p}
        /\ req'[a].changed = req[a].changed /\ req'[a].result = req[a].result
    BY <1>1, <1>8 DEF Inv, Shaped, Parts, OnlyReq
  <2>2. MoveInv(a)'
    BY <1>1, <1>3, <1>8, <2>1 DEF MoveInv
  <2>3. AnswerInv(a)'
    BY <1>1, <1>5, <2>1 DEF AnswerInv
  <2>4. ReqInv(a)'
    BY <2>1, <2>2, <2>3 DEF ReqInv, BulkInv, ReadInv
  <2>5. HeldBy(a)'
    BY <1>1, <1>8, <2>1 DEF Inv, HeldBy, Holds, Moving
  <2> QED
    BY <1>1, <1>8, <2>1, <2>4, <2>5, OnlyMovesOn
<1> QED
  BY <1>2, <1>6, <1>7, <1>8 DEF n

\* reorder swaps the orders of two rows of one table that it holds.
Swaps(a, id, n) ==
  /\ id \in Ordered /\ n \in Ordered /\ id # n /\ SameTable(n, id)
  /\ lock[id] = a /\ lock[n] = a /\ row[id].live /\ row[n].live
  /\ row'[id].order = row[n].order /\ row'[n].order = row[id].order
  /\ \A r \in Rows \ {id, n} : row'[r] = row[r]
  /\ \A r \in Rows : /\ DOMAIN row'[r] = Columns
                     /\ row'[r].live = row[r].live /\ row'[r].created = row[r].created
                     /\ row'[r].group = row[r].group /\ row'[r].val = row[r].val

LEMMA SwapSwaps ==
  ASSUME Inv, NEW a \in Admin, Swap(a)
  PROVE  /\ \E n : Swaps(a, req[a].id, n)
         /\ row' = [r \in Rows |-> row'[r]]
<1> DEFINE id == req[a].id
<1>1. req[a].pc = "swap" /\ MoveInv(a)
  BY DEF Swap, Inv, ReqInv
<1>2. /\ id \in Ordered /\ lock[id] = a /\ row[id].live /\ row[id].order = req[a].seen.order
      /\ \A q \in req[a].cand : SameTable(q[1], id)
  BY <1>1 DEF MoveInv, Moving
<1>3. PICK p : /\ req[a].cand = {p}
               /\ lock[p[1]] = a /\ row[p[1]].live /\ row[p[1]].order # req[a].seen.order
  BY <1>1 DEF MoveInv, Moving
<1> DEFINE n == p[1]
<1>4. (CHOOSE q \in req[a].cand : TRUE) = p
  BY <1>3
<1>5. row' = [row EXCEPT ![id].order = row[n].order, ![n].order = req[a].seen.order]
  BY <1>4 DEF Swap
<1>6. /\ SameTable(n, id) /\ n \in Ordered /\ lock[n] = a /\ row[n].live
      /\ row[n].order # row[id].order
  BY <1>2, <1>3 DEF SameTable, Ordered
<1> HIDE DEF n, id
<1>7. id # n /\ id \in Rows /\ n \in Rows
  BY <1>2, <1>6 DEF Rows
<1>8. row = [r \in Rows |-> row[r]] /\ \A r \in Rows : DOMAIN row[r] = Columns
  BY DEF Inv, Shaped
<1>9. /\ row' = [r \in Rows |-> row'[r]]
      /\ row'[id] = [row[id] EXCEPT !.order = row[n].order]
      /\ row'[n] = [row[n] EXCEPT !.order = req[a].seen.order]
      /\ \A r \in Rows \ {id, n} : row'[r] = row[r]
  BY <1>5, <1>7, <1>8
<1>10. \A r \in Rows : /\ DOMAIN row'[r] = Columns
                       /\ row'[r].live = row[r].live /\ row'[r].created = row[r].created
                       /\ row'[r].group = row[r].group /\ row'[r].val = row[r].val
  <2> SUFFICES ASSUME NEW r \in Rows
               PROVE  /\ DOMAIN row'[r] = Columns
                      /\ row'[r].live = row[r].live /\ row'[r].created = row[r].created
                      /\ row'[r].group = row[r].group /\ row'[r].val = row[r].val
    OBVIOUS
  <2>1. CASE r = id
    BY <2>1, <1>8, <1>9 DEF Columns
  <2>2. CASE r = n
    BY <2>2, <1>8, <1>9 DEF Columns
  <2>3. CASE r \notin {id, n}
    BY <2>3, <1>8, <1>9
  <2> QED
    BY <2>1, <2>2, <2>3
<1>11. row'[id].order = row[n].order /\ row'[n].order = row[id].order
  BY <1>2, <1>7, <1>8, <1>9 DEF Columns
<1>12. Swaps(a, id, n)
  BY <1>2, <1>6, <1>7, <1>9, <1>10, <1>11 DEF Swaps
<1> QED
  BY <1>9, <1>12 DEF id

LEMMA SwapKeeps ==
  ASSUME Inv, NEW a \in Admin, Swap(a)
  PROVE  Inv'
<1> DEFINE id == req[a].id
<1>1. PICK n : Swaps(a, id, n)
  BY SwapSwaps
<1> HIDE DEF id
<1>2. /\ req[a].pc = "swap" /\ Release(a) /\ Changed(a, "other", "log") /\ UNCHANGED activity
      /\ row' = [r \in Rows |-> row'[r]]
  BY SwapSwaps DEF Swap
<1>3. GroupsLive'
  <2> SUFFICES ASSUME NEW c \in Content, row'[c].live
               PROVE  row'[c].group \in Topic /\ row'[row'[c].group].live
    BY DEF GroupsLive
  <2>1. c \in Rows /\ row[c].live /\ row'[c].group = row[c].group
    BY <1>1 DEF Swaps, Rows, Ordered
  <2>2. row[c].group \in Topic /\ row[row[c].group].live
    BY <2>1 DEF Inv, RowInv, GroupsLive
  <2> QED
    BY <1>1, <2>1, <2>2 DEF Swaps, Rows, Ordered
<1>4. Stamped'
  <2> SUFFICES ASSUME NEW r \in Ordered
               PROVE  /\ row'[r].order \in Nat /\ row'[r].created \in Nat
                      /\ row'[r].live => row'[r].created # 0
    BY DEF Stamped
  <2>1. row'[r].live = row[r].live /\ row'[r].created = row[r].created
    BY <1>1 DEF Swaps, Rows
  <2>2. \E s \in Ordered : row'[r].order = row[s].order
    BY <1>1 DEF Swaps, Rows
  <2> QED
    BY <2>1, <2>2 DEF Inv, RowInv, Stamped
<1>5. BulkIsAtomic'
  <2>1. \A r \in Section \cup Setting : row'[r].val = row[r].val
    BY <1>1 DEF Swaps, Rows
  <2> QED
    BY <2>1 DEF Inv, RowInv, BulkIsAtomic
<1>6. Frozen(a)
  BY <1>1 DEF Swaps, Frozen, Rows
<1>7. ReqInv(a)'
  BY <1>2, ChangedKeeps
<1>8. LocksMove(a) /\ HeldBy(a)' /\ lock' = [r \in Rows |-> lock'[r]]
  BY <1>2, Released
<1>9. /\ req' = [b \in Admin |-> req'[b]] /\ \A b \in Admin : DOMAIN req'[b] = Parts
      /\ OnlyReq(a)
  BY <1>2, ChangedParts
<1>10. \A r \in Rows : DOMAIN row'[r] = Columns
  BY <1>1 DEF Swaps
<1>11. Shaped'
  BY <1>2, <1>8, <1>9, <1>10, ShapeFrom DEF Logs
<1>12. Minds(a)
  BY <1>2, <1>6, <1>8, <1>9 DEF Minds, Logs
<1> QED
  BY <1>3, <1>4, <1>5, <1>7, <1>8, <1>11, <1>12, StepKeeps DEF RowInv

\* A bulk update starts with all the rows of its table to do.
LEMMA BulkStarts ==
  ASSUME Inv, NEW a \in Admin, req[a].pc = "idle", UNCHANGED <<row, lock, activity>>,
         NEW k \in {"sections", "settings"}, NEW order \in SetToSeqs(Table(k)),
         req' = [req EXCEPT ![a].pc = "bulk", ![a].todo = order, ![a].kind = k]
  PROVE  Inv'
<1>1. /\ req' = [b \in Admin |-> req'[b]] /\ \A b \in Admin : DOMAIN req'[b] = Parts
      /\ OnlyReq(a)
      /\ req'[a].pc = "bulk" /\ req'[a].todo = order /\ req'[a].kind = k
      /\ req'[a].changed = req[a].changed /\ req'[a].result = req[a].result
  BY DEF Inv, Shaped, Parts, OnlyReq
<1>2. IsFiniteSet(Table(k))
  BY CatalogueAssumption, FS_Subset DEF Rows, Table
<1>3. order \in Seq(Table(k)) /\ Range(order) = Table(k)
  BY <1>2, OrderIsComplete
<1>4. BulkInv(a)'
  <2>1. /\ req'[a].kind \in {"sections", "settings"}
        /\ req'[a].todo \in Seq(Table(req'[a].kind))
        /\ \A r \in Table(req'[a].kind) : r \in Range(req'[a].todo)
    BY <1>1, <1>3
  <2> QED
    BY <2>1 DEF BulkInv, Table
<1>5. AnswerInv(a)'
  BY <1>1, AtStart DEF AnswerInv
<1>6. ReqInv(a)'
  BY <1>1, <1>4, <1>5 DEF ReqInv, MoveInv, ReadInv, Moving
<1>7. HeldBy(a)'
  BY KeepsNothing DEF Moving
<1> QED
  BY <1>1, <1>6, <1>7, OnlyMovesOn

LEMMA BulkUpdateRowKeeps ==
  ASSUME Inv, NEW a \in Admin, BulkUpdateRow(a)
  PROVE  Inv'
<1> DEFINE todo == req[a].todo
           r == Head(todo)
           T == Table(req[a].kind)
<1>1. /\ req[a].pc = "bulk" /\ todo # <<>> /\ Free(r, a)
      /\ lock' = [lock EXCEPT ![r] = a]
      /\ req' = [req EXCEPT ![a].todo = Tail(@)]
      /\ UNCHANGED <<row, activity>>
  BY DEF BulkUpdateRow
<1>2. /\ BulkInv(a) /\ req[a].kind \in {"sections", "settings"} /\ todo \in Seq(T)
      /\ \A s \in T : lock[s] = a \/ s \in Range(todo)
  BY <1>1 DEF Inv, ReqInv, BulkInv
<1>3. T \subseteq Rows
  BY DEF Table, Rows
<1>4. /\ req' = [b \in Admin |-> req'[b]] /\ \A b \in Admin : DOMAIN req'[b] = Parts
      /\ OnlyReq(a)
      /\ req'[a].pc = "bulk" /\ req'[a].todo = Tail(todo) /\ req'[a].kind = req[a].kind
      /\ req'[a].changed = req[a].changed /\ req'[a].result = req[a].result
  BY <1>1 DEF Inv, Shaped, Parts, OnlyReq
<1> HIDE DEF T, todo
<1>5. r \in T /\ Tail(todo) \in Seq(T) /\ \A s \in Range(todo) : s = r \/ s \in Range(Tail(todo))
  <2>1. /\ Len(todo) \in Nat /\ Len(todo) > 0 /\ DOMAIN todo = 1 .. Len(todo)
        /\ \A i \in 1 .. Len(todo) : todo[i] \in T
    BY <1>1, <1>2
  <2>2. r = todo[1] /\ Tail(todo) \in Seq(T) /\ Len(Tail(todo)) = Len(todo) - 1
    BY <1>1, <1>2
  <2>3. /\ DOMAIN Tail(todo) = 1 .. Len(todo) - 1
        /\ \A i \in 1 .. Len(todo) - 1 : Tail(todo)[i] = todo[i + 1]
    BY <1>1, <1>2, <2>1
  <2>4. ASSUME NEW i \in 1 .. Len(todo), i # 1
        PROVE  todo[i] \in Range(Tail(todo))
    <3>1. i - 1 \in 1 .. Len(todo) - 1
      BY <2>1, <2>4
    <3>2. Tail(todo)[i - 1] = todo[i]
      BY <2>3, <3>1, <2>1
    <3> QED
      BY <2>3, <3>1, <3>2 DEF Range
  <2> QED
    BY <2>1, <2>2, <2>4 DEF Range
<1> HIDE DEF r
<1>6. /\ lock' = [s \in Rows |-> lock'[s]]
      /\ \A s \in Rows : lock'[s] = IF s = r THEN a ELSE lock[s]
  BY <1>1, <1>3, <1>5 DEF Inv, Shaped
<1>7. LocksMove(a)
  BY <1>1, <1>6 DEF LocksMove, Free
<1>8. BulkInv(a)'
  <2>1. \A s \in T : lock'[s] = a \/ s \in Range(Tail(todo))
    BY <1>2, <1>3, <1>5, <1>6
  <2>2. T = Table(req'[a].kind)
    BY <1>4 DEF T
  <2>3. \A s \in Table(req'[a].kind) : lock'[s] = a \/ s \in Range(req'[a].todo)
    BY <2>1, <2>2, <1>4
  <2>4. req'[a].todo \in Seq(Table(req'[a].kind)) /\ req'[a].kind \in {"sections", "settings"}
    BY <2>2, <1>2, <1>4, <1>5
  <2> QED
    BY <2>3, <2>4 DEF BulkInv, Table
<1>9. AnswerInv(a)'
  BY <1>1, <1>4, AtStart DEF AnswerInv
<1>10. ReqInv(a)'
  BY <1>4, <1>8, <1>9 DEF ReqInv, MoveInv, ReadInv, Moving
<1>11. HeldBy(a)'
  <2>1. \A s \in Rows : lock[s] = a => s \in T
    BY <1>1 DEF Inv, HeldBy, Holds, Moving, T
  <2>2. \A s \in Rows : lock'[s] = a => s \in T
    BY <2>1, <1>5, <1>6
  <2> QED
    BY <2>2, <1>4 DEF HeldBy, Holds, Table, T
<1> QED
  BY <1>1, <1>4, <1>6, <1>7, <1>10, <1>11, OnlyMovesOn

LEMMA BulkCommitKeeps ==
  ASSUME Inv, NEW a \in Admin, BulkCommit(a)
  PROVE  Inv'
<1> DEFINE k == req[a].kind
           T == Table(k)
           new(r) == [row[r] EXCEPT !.val = a,
                        !.text = IF r \in Setting
                                 THEN CoerceSettingValue(RawOf[a], SettingType[r]) ELSE row[r].text]
<1>1. /\ req[a].pc = "bulk" /\ req[a].todo = <<>> /\ Release(a) /\ Changed(a, k, "log")
      /\ UNCHANGED activity
      /\ row' = [r \in Rows |-> IF lock[r] # a THEN row[r] ELSE new(r)]
  BY DEF BulkCommit
<1>2. BulkInv(a) /\ HeldBy(a)
  BY DEF Inv, ReqInv
<1>3. \A r \in Rows : lock[r] = a <=> r \in T
  <2>1. \A r \in T : lock[r] = a
    <3>1. Range(<<>>) = {}
      BY DEF Range
    <3> QED
      BY <3>1, <1>1, <1>2 DEF BulkInv
  <2>2. \A r \in Rows : lock[r] = a => r \in T
    BY <1>1, <1>2 DEF HeldBy, Holds, Moving
  <2> QED
    BY <2>1, <2>2
<1>4. T = Section \/ T = Setting
  BY DEF Table
<1> HIDE DEF k, T
<1>5. \A r \in Rows : /\ DOMAIN row'[r] = Columns
                      /\ Kept(r) /\ row'[r].group = row[r].group
                      /\ row'[r].val = IF r \in T THEN a ELSE row[r].val
  <2> SUFFICES ASSUME NEW r \in Rows
               PROVE  /\ DOMAIN row'[r] = Columns
                      /\ Kept(r) /\ row'[r].group = row[r].group
                      /\ row'[r].val = IF r \in T THEN a ELSE row[r].val
    OBVIOUS
  <2>1. DOMAIN row[r] = Columns
    BY DEF Inv, Shaped
  <2>2. row'[r] = IF r \in T THEN new(r) ELSE row[r]
    BY <1>1, <1>3
  <2>3. CASE r \in T
    BY <2>1, <2>2, <2>3 DEF Columns, Kept
  <2>4. CASE r \notin T
    BY <2>1, <2>2, <2>4 DEF Kept
  <2> QED
    BY <2>3, <2>4
<1> HIDE DEF new
<1>6. GroupsLive'
  <2> SUFFICES ASSUME NEW c \in Content, row'[c].live
               PROVE  row'[c].group \in Topic /\ row'[row'[c].group].live
    BY DEF GroupsLive
  <2>1. c \in Rows /\ row[c].live /\ row'[c].group = row[c].group
    BY <1>5 DEF Kept, Rows, Ordered
  <2>2. row[c].group \in Topic /\ row[row[c].group].live
    BY <2>1 DEF Inv, RowInv, GroupsLive
  <2> QED
    BY <1>5, <2>1, <2>2 DEF Kept, Rows, Ordered
<1>7. Stamped'
  <2>1. \A r \in Ordered : Kept(r)
    BY <1>5 DEF Rows
  <2> QED
    BY <2>1 DEF Kept, Inv, RowInv, Stamped
<1>8. BulkIsAtomic'
  <2>1. ASSUME NEW S \in {Section, Setting}, NEW r \in S, NEW s \in S
        PROVE  row'[r].val = row'[s].val
    <3>1. r \in Rows /\ s \in Rows
      BY <2>1 DEF Rows
    <3>2. r \in T <=> s \in T
      BY <2>1, <1>4, TablesAreDisjoint
    <3>3. row[r].val = row[s].val
      BY <2>1 DEF Inv, RowInv, BulkIsAtomic
    <3> QED
      BY <3>1, <3>2, <3>3, <1>5
  <2> QED
    BY <2>1 DEF BulkIsAtomic
<1>9. Frozen(a)
  BY <1>5 DEF Frozen, Kept, Rows
<1>10. ReqInv(a)'
  BY <1>1, ChangedKeeps
<1>11. LocksMove(a) /\ HeldBy(a)' /\ lock' = [r \in Rows |-> lock'[r]]
  BY <1>1, Released
<1>12. /\ req' = [b \in Admin |-> req'[b]] /\ \A b \in Admin : DOMAIN req'[b] = Parts
       /\ OnlyReq(a)
  BY <1>1, ChangedParts
<1>13. row' = [r \in Rows |-> row'[r]]
  BY <1>1
<1>14. Shaped'
  BY <1>1, <1>5, <1>11, <1>12, <1>13, ShapeFrom DEF Logs
<1>15. Minds(a)
  BY <1>1, <1>9, <1>11, <1>12 DEF Minds, Logs
<1> QED
  BY <1>6, <1>7, <1>8, <1>10, <1>11, <1>14, <1>15, StepKeeps DEF RowInv

LEMMA RecordKeeps ==
  ASSUME Inv, NEW a \in Admin, RecordActivity(a)
  PROVE  Inv'
<1>1. req[a].pc = "log" /\ UNCHANGED <<row, lock>> /\ req[a].changed
  BY DEF RecordActivity, Inv, ReqInv, AnswerInv
<1>2. req[a].pc \notin Moving \cup {"bulk"}
  BY <1>1 DEF Moving
<1>3. CASE activity' = Append(activity, a) /\ Answer(a, "ok")
  BY <1>1, <1>2, <1>3, PlainAnswer DEF Logs
<1>4. CASE activity' = Append(activity, a) /\ Answer(a, "500")
  BY <1>1, <1>2, <1>4, PlainAnswer DEF Logs
<1>5. CASE activity' = activity /\ Answer(a, "500")
  BY <1>1, <1>2, <1>5, PlainAnswer DEF Logs
<1> QED
  BY <1>3, <1>4, <1>5 DEF RecordActivity

\* Every step of a request keeps the invariant.
LEMMA AdminKeeps ==
  ASSUME Inv, NEW a \in Admin, AdminStep(a)
  PROVE  Inv'
<1>1. CASE ReadForUpdate(a)
  BY <1>1, ReadForUpdateKeeps
<1>2. CASE UpdateGone(a)
  BY <1>2, UpdateGoneKeeps
<1>3. CASE UpdateTopic(a)
  BY <1>3, UpdateTopicKeeps
<1>4. CASE UpdateContent(a)
  BY <1>4, UpdateContentKeeps
<1>5. CASE UpdateProject(a)
  BY <1>5, UpdateProjectKeeps
<1>6. CASE CreateContent(a)
  BY <1>6, CreateContentKeeps
<1>7. CASE DeleteTopic(a) \/ DeleteContent(a) \/ DeleteProject(a)
  BY <1>7, DeletesKeep
<1>8. CASE FindProjectToDelete(a)
  BY <1>8, FindProjectKeeps
<1>9. CASE PublishTopic(a) \/ PublishContent(a)
  BY <1>9, SetPublishKeeps DEF PublishTopic, PublishContent, Ordered
<1>10. CASE ShowNow(a)
  BY <1>10, ShowNowKeeps
<1>11. CASE ToggleActive(a)
  BY <1>11, ToggleKeeps
<1>12. CASE ReloadToggled(a)
  BY <1>12, ReloadKeeps
<1>13. CASE ReorderTopic(a)
  <2>1. req[a].pc = "idle" /\ UNCHANGED <<row, activity>>
    BY <1>13 DEF ReorderTopic
  <2>2. CASE Answer(a, "422") /\ UNCHANGED lock
    BY <2>1, <2>2, Refuses
  <2>3. CASE \E id \in Topic, dir \in {"up", "down"} : LockMoved(a, id, dir)
    BY <2>1, <2>3, LockMovedKeeps DEF Ordered
  <2> QED
    BY <1>13, <2>2, <2>3 DEF ReorderTopic
<1>14. CASE ReorderContent(a)
  BY <1>14, LockMovedKeeps DEF ReorderContent, Ordered
<1>15. CASE FindNeighbour(a)
  BY <1>15, FindNeighbourKeeps
<1>16. CASE LockNeighbour(a)
  BY <1>16, LockNeighbourKeeps
<1>17. CASE Swap(a)
  BY <1>17, SwapKeeps
<1>18. CASE BulkSections(a)
  <2>1. req[a].pc = "idle" /\ UNCHANGED <<row, lock, activity>>
    BY <1>18 DEF BulkSections
  <2>2. CASE Answer(a, "422") \/ Answer(a, "404")
    BY <2>1, <2>2, Refuses
  <2>3. CASE \E order \in SetToSeqs(Section) :
          req' = [req EXCEPT ![a].pc = "bulk", ![a].todo = order, ![a].kind = "sections"]
    <3>1. Table("sections") = Section
      BY DEF Table
    <3> QED
      BY <2>1, <2>3, <3>1, BulkStarts
  <2> QED
    BY <1>18, <2>2, <2>3 DEF BulkSections
<1>19. CASE BulkSettings(a)
  <2>1. Table("settings") = Setting
    BY DEF Table
  <2> QED
    BY <1>19, <2>1, BulkStarts DEF BulkSettings
<1>20. CASE BulkUpdateRow(a)
  BY <1>20, BulkUpdateRowKeeps
<1>21. CASE BulkCommit(a)
  BY <1>21, BulkCommitKeeps
<1>22. CASE DeadlockAbort(a)
  BY <1>22, PlainAnswer DEF DeadlockAbort, Logs
<1>23. CASE RecordActivity(a)
  BY <1>23, RecordKeeps
<1>24. CASE CutOff(a)
  BY <1>24, PlainAnswer DEF CutOff, Logs
<1> QED
  BY <1>1, <1>2, <1>3, <1>4, <1>5, <1>6, <1>7, <1>8, <1>9, <1>10, <1>11, <1>12, <1>13,
     <1>14, <1>15, <1>16, <1>17, <1>18, <1>19, <1>20, <1>21, <1>22, <1>23, <1>24
     DEF AdminStep

--------------------------------------------------------------------------------
(* The invariant holds, and with it the properties.                        *)

LEMMA InitHolds ==
  ASSUME CatalogueInit
  PROVE  Inv
<1> DEFINE new(r) ==
      IF r \in Ordered /\ r \notin DOMAIN StartOrder THEN Blank
      ELSE [Blank EXCEPT !.live = TRUE,
                         !.order = IF r \in Ordered THEN StartOrder[r] ELSE 0,
                         !.group = IF r \in Content THEN ImportedTopic ELSE NoOne,
                         !.file = r \in Content,
                         !.created = IF r \in Ordered THEN 1 + StartOrder[r] ELSE 1]
<1>1. row = [r \in Rows |-> new(r)] /\ lock = [r \in Rows |-> NoOne]
      /\ req = [a \in Admin |-> Idle] /\ activity = <<>>
  BY DEF CatalogueInit
<1>2. \A r \in Rows : DOMAIN row[r] = Columns /\ row[r].val = NoOne
  BY <1>1 DEF Blank, Columns
<1>3. ASSUME NEW r \in Ordered, r \in DOMAIN StartOrder
      PROVE  /\ row[r].live /\ row[r].order = StartOrder[r] /\ row[r].created = 1 + StartOrder[r]
             /\ r \in Content => row[r].group = ImportedTopic
  <2>1. r \in Rows /\ row[r] = new(r)
    BY <1>1 DEF Rows
  <2>2. row[r] = [Blank EXCEPT !.live = TRUE, !.order = StartOrder[r],
                               !.group = IF r \in Content THEN ImportedTopic ELSE NoOne,
                               !.file = r \in Content, !.created = 1 + StartOrder[r]]
    BY <2>1, <1>3
  <2> QED
    BY <2>2 DEF Blank
<1>4. ASSUME NEW r \in Ordered, r \notin DOMAIN StartOrder
       PROVE  ~row[r].live /\ row[r].order = 0 /\ row[r].created = 0
  <2>1. r \in Rows /\ row[r] = new(r)
    BY <1>1 DEF Rows
  <2>2. row[r] = Blank
    BY <2>1, <1>4
  <2> QED
    BY <2>2 DEF Blank
<1> HIDE DEF new
<1>5. GroupsLive
  <2> SUFFICES ASSUME NEW c \in Content, row[c].live
               PROVE  row[c].group \in Topic /\ row[row[c].group].live
    BY DEF GroupsLive
  <2>1. c \in DOMAIN StartOrder /\ row[c].group = ImportedTopic
    BY <1>3, <1>4 DEF Ordered
  <2>2. ImportedTopic \in Topic \cap DOMAIN StartOrder
    BY <2>1, CatalogueAssumption DEF ImportedTopic
  <2> QED
    BY <2>1, <2>2, <1>3 DEF Ordered
<1>6. Stamped
  <2> SUFFICES ASSUME NEW r \in Ordered
               PROVE  /\ row[r].order \in Nat /\ row[r].created \in Nat
                      /\ row[r].live => row[r].created # 0
    BY DEF Stamped
  <2>1. r \in DOMAIN StartOrder => StartOrder[r] \in Nat
    BY CatalogueAssumption
  <2>2. CASE r \in DOMAIN StartOrder
    <3>1. row[r].order = StartOrder[r] /\ row[r].created = 1 + StartOrder[r]
      BY <2>2, <1>3
    <3> QED
      BY <3>1, <2>1, <2>2
  <2>3. CASE r \notin DOMAIN StartOrder
    BY <2>3, <1>4
  <2> QED
    BY <2>2, <2>3
<1>7. BulkIsAtomic
  BY <1>2 DEF BulkIsAtomic, Rows
<1>8. Shaped
  <2>1. \A a \in Admin : DOMAIN req[a] = Parts
    BY <1>1 DEF Idle, Parts
  <2> QED
    BY <1>1, <1>2, <2>1 DEF Shaped
<1>9. LockInv /\ \A a \in Admin : HeldBy(a)
  <2>1. NoOne \notin Admin
    BY CatalogueAssumption
  <2> QED
    BY <1>1, <2>1 DEF LockInv, HeldBy
<1>10. ASSUME NEW a \in Admin
      PROVE  ReqInv(a)
  <2>1. req[a].pc = "idle" /\ ~req[a].changed /\ req[a].result = "none"
    BY <1>1 DEF Idle
  <2>2. Range(activity) = {}
    BY <1>1 DEF Range
  <2> QED
    BY <2>1, <2>2 DEF ReqInv, MoveInv, BulkInv, ReadInv, AnswerInv, Moving
<1> QED
  BY <1>5, <1>6, <1>7, <1>8, <1>9, <1>10 DEF Inv, RowInv

LEMMA NextHolds ==
  ASSUME Inv, [CatalogueNext]_catalogueVars
  PROVE  Inv'
<1>1. CASE CatalogueNext
  BY <1>1, AdminKeeps DEF CatalogueNext
<1>2. CASE UNCHANGED catalogueVars
  <2>1. row' = row /\ lock' = lock /\ req' = req /\ activity' = activity
    BY <1>2 DEF catalogueVars
  <2>2. Shaped' /\ LockInv'
    BY <2>1 DEF Inv, Shaped, LockInv
  <2>3. RowInv'
    BY <2>1 DEF Inv, RowInv, GroupsLive, Stamped, BulkIsAtomic
  <2>4. ASSUME NEW a \in Admin
        PROVE  MoveInv(a)' /\ BulkInv(a)' /\ ReadInv(a)' /\ AnswerInv(a)' /\ HeldBy(a)'
    <3>1. MoveInv(a) /\ BulkInv(a) /\ ReadInv(a) /\ AnswerInv(a) /\ HeldBy(a)
      BY DEF Inv, ReqInv
    <3>2. MoveInv(a)'
      BY <2>1, <3>1 DEF MoveInv
    <3>3. BulkInv(a)'
      BY <2>1, <3>1 DEF BulkInv, Table
    <3>4. ReadInv(a)' /\ AnswerInv(a)'
      BY <2>1, <3>1 DEF ReadInv, AnswerInv
    <3>5. HeldBy(a)'
      BY <2>1, <3>1 DEF HeldBy, Holds, Table
    <3> QED
      BY <3>2, <3>3, <3>4, <3>5
  <2> QED
    BY <2>2, <2>3, <2>4 DEF Inv, ReqInv
<1> QED
  BY <1>1, <1>2

LEMMA CatalogueInv ==
  CatalogueSpec => []Inv
<1>1. CatalogueInit => Inv
  BY InitHolds
<1>2. Inv /\ [CatalogueNext]_catalogueVars => Inv'
  BY NextHolds
<1> QED
  BY <1>1, <1>2, PTL DEF CatalogueSpec

\* A content that can be opened has its topic, whatever updates write back a topic
\* read before a delete: the foreign key refuses them and the delete cascades.
THEOREM ContentsHaveTopics ==
  CatalogueSpec => []NoOrphans
<1>1. Inv => NoOrphans
  BY DEF Inv, RowInv, GroupsLive, NoOrphans
<1> QED
  BY <1>1, CatalogueInv, PTL

\* A bulk update of sections or settings is seen as a whole or not at all: it
\* commits holding exactly the rows of its table.
THEOREM BulkUpdatesAreAtomic ==
  CatalogueSpec => []BulkIsAtomic
<1>1. Inv => BulkIsAtomic
  BY DEF Inv, RowInv
<1> QED
  BY <1>1, CatalogueInv, PTL

\* Success is answered for a change that was made and logged, a refusal for none
\* (a toggle excepted), whatever fails in between.
THEOREM AnswersHonest ==
  CatalogueSpec => []AnswersAreHonest
<1>1. Inv => AnswersAreHonest
  BY DEF Inv, ReqInv, AnswerInv, AnswersAreHonest
<1> QED
  BY <1>1, CatalogueInv, PTL

--------------------------------------------------------------------------------
(* reorder.                                                                *)

\* Outside reorder, a row that lives on keeps its order.
Tidy ==
  \A r \in Ordered : row'[r].live = row[r].live => row'[r].order = row[r].order

LEMMA DeleteIsTidy ==
  ASSUME Inv, NEW a \in Admin, NEW id, Delete(a, id)
  PROVE  Tidy
<1>1. CASE UNCHANGED row
  BY <1>1 DEF Tidy
<1>2. CASE row' = [r \in Rows |-> IF r \in Cascade(id) THEN [row[r] EXCEPT !.live = FALSE]
                                  ELSE row[r]]
  <2> SUFFICES ASSUME NEW r \in Ordered
               PROVE  row'[r].order = row[r].order
    BY DEF Tidy
  <2>1. r \in Rows /\ DOMAIN row[r] = Columns
    BY DEF Inv, Shaped, Rows
  <2>2. row'[r] = IF r \in Cascade(id) THEN [row[r] EXCEPT !.live = FALSE] ELSE row[r]
    BY <1>2, <2>1
  <2>3. CASE r \in Cascade(id)
    BY <2>1, <2>2, <2>3 DEF Columns
  <2>4. CASE r \notin Cascade(id)
    BY <2>2, <2>4
  <2> QED
    BY <2>3, <2>4
<1> QED
  BY <1>1, <1>2 DEF Delete

\* Statements that write columns of one row, and the answers without a statement.
LEMMA EditIsTidy ==
  ASSUME Inv, NEW a \in Admin,
         \/ UpdateTopic(a) \/ UpdateContent(a) \/ UpdateProject(a)
         \/ PublishTopic(a) \/ PublishContent(a) \/ ShowNow(a) \/ ToggleActive(a)
  PROVE  Tidy
<1>1. row = [r \in Rows |-> row[r]] /\ \A r \in Rows : DOMAIN row[r] = Columns
  BY DEF Inv, Shaped
<1>2. Ordered \subseteq Rows
  BY DEF Rows
<1>3. CASE UpdateTopic(a)
  <2>1. PICK sub : row' = [row EXCEPT ![req[a].id].sub = sub, ![req[a].id].val = a]
    BY <1>3 DEF UpdateTopic
  <2> QED
    BY <1>1, <1>2, <2>1 DEF Tidy, Columns
<1>4. CASE UpdateContent(a)
  <2>1. \/ UNCHANGED row
        \/ \E t : row' = [row EXCEPT ![req[a].id].group = t, ![req[a].id].val = a]
    BY <1>4 DEF UpdateContent
  <2>2. ASSUME NEW t, row' = [row EXCEPT ![req[a].id].group = t, ![req[a].id].val = a]
        PROVE  Tidy
    BY <1>1, <1>2, <2>2 DEF Tidy, Columns
  <2> QED
    BY <2>1, <2>2 DEF Tidy
<1>5. CASE UpdateProject(a)
  <2>1. PICK startsAt, endsAt \in {NoOne, 0, 1} :
          LET starts == ParseDt(startsAt, req[a].seen)
              ends   == ParseDt(endsAt, req[a].seen)
          IN  row' = [row EXCEPT ![req[a].id].val = a, ![req[a].id].flag = req[a].seen.flag,
                                 ![req[a].id].starts = IF starts = NoOne THEN @ ELSE starts,
                                 ![req[a].id].ends = IF ends = NoOne THEN @ ELSE ends]
    BY <1>5 DEF UpdateProject
  <2> QED
    BY <1>1, <1>2, <2>1 DEF Tidy, Columns
<1>6. CASE PublishTopic(a) \/ PublishContent(a)
  <2>1. UNCHANGED row \/ \E id, flag : row' = [row EXCEPT ![id].flag = flag]
    BY <1>6 DEF PublishTopic, PublishContent, SetPublish
  <2> QED
    BY <1>1, <1>2, <2>1 DEF Tidy, Columns
<1>7. CASE ShowNow(a)
  <2>1. UNCHANGED row \/ \E p : row' = [row EXCEPT ![p].flag = TRUE, ![p].starts = NoOne]
    BY <1>7 DEF ShowNow
  <2>2. ASSUME NEW p, row' = [row EXCEPT ![p].flag = TRUE, ![p].starts = NoOne]
        PROVE  Tidy
    BY <1>1, <1>2, <2>2 DEF Tidy, Columns
  <2> QED
    BY <2>1, <2>2 DEF Tidy
<1>8. CASE ToggleActive(a)
  <2>1. UNCHANGED row \/ \E p : row' = [row EXCEPT ![p].flag = ~@]
    BY <1>8 DEF ToggleActive
  <2> QED
    BY <1>1, <1>2, <2>1 DEF Tidy, Columns
<1> QED
  BY <1>3, <1>4, <1>5, <1>6, <1>7, <1>8

\* A new content takes a row that did not live.
LEMMA CreateIsTidy ==
  ASSUME Inv, NEW a \in Admin, CreateContent(a)
  PROVE  Tidy
<1>1. PICK c \in {x \in Content : row[x].created = 0}, t \in Topic, file, valid \in BOOLEAN :
        \/ ~valid /\ Answer(a, "422") /\ UNCHANGED row
        \/ valid /\ ~TopicExists(t) /\ Answer(a, "500") /\ UNCHANGED row
        \/ /\ valid /\ TopicExists(t)
           /\ row' = [row EXCEPT ![c] = [Blank EXCEPT !.live = TRUE, !.group = t, !.val = a,
                                            !.file = file, !.created = NextStamp]]
           /\ Changed(a, "other", "log")
  BY DEF CreateContent
<1>2. c \in Rows /\ c \in Ordered /\ ~row[c].live
  BY <1>1 DEF Rows, Ordered, Inv, RowInv, Stamped
<1>3. CASE UNCHANGED row
  BY <1>3 DEF Tidy
<1>4. CASE row' = [row EXCEPT ![c] = [Blank EXCEPT !.live = TRUE, !.group = t, !.val = a,
                                         !.file = file, !.created = NextStamp]]
  <2>1. row'[c].live /\ \A r \in Rows : r # c => row'[r] = row[r]
    BY <1>2, <1>4 DEF Inv, Shaped, Blank
  <2> QED
    BY <1>2, <2>1 DEF Tidy, Rows
<1> QED
  BY <1>1, <1>3, <1>4

LEMMA CommitIsTidy ==
  ASSUME Inv, NEW a \in Admin, BulkCommit(a)
  PROVE  Tidy
<1> DEFINE new(r) == [row[r] EXCEPT !.val = a,
                        !.text = IF r \in Setting
                                 THEN CoerceSettingValue(RawOf[a], SettingType[r]) ELSE row[r].text]
<1> SUFFICES ASSUME NEW r \in Ordered
             PROVE  row'[r].order = row[r].order
  BY DEF Tidy
<1>1. r \in Rows /\ DOMAIN row[r] = Columns
  BY DEF Inv, Shaped, Rows
<1>2. row'[r] = IF lock[r] # a THEN row[r] ELSE new(r)
  BY <1>1 DEF BulkCommit
<1> QED
  BY <1>1, <1>2 DEF Columns

LEMMA OthersAreTidy ==
  ASSUME Inv, NEW a \in Admin, AdminStep(a), ~Swap(a)
  PROVE  Tidy
<1>1. CASE \/ UpdateTopic(a) \/ UpdateContent(a) \/ UpdateProject(a)
           \/ PublishTopic(a) \/ PublishContent(a) \/ ShowNow(a) \/ ToggleActive(a)
  BY <1>1, EditIsTidy
<1>2. CASE CreateContent(a)
  BY <1>2, CreateIsTidy
<1>3. CASE DeleteTopic(a) \/ DeleteContent(a) \/ DeleteProject(a)
  BY <1>3, DeleteIsTidy DEF DeleteTopic, DeleteContent, DeleteProject
<1>4. CASE BulkCommit(a)
  BY <1>4, CommitIsTidy
<1>5. CASE UNCHANGED row
  BY <1>5 DEF Tidy
<1>6. CASE \/ ReadForUpdate(a) \/ UpdateGone(a) \/ FindProjectToDelete(a) \/ ReloadToggled(a)
           \/ ReorderTopic(a) \/ ReorderContent(a) \/ FindNeighbour(a) \/ LockNeighbour(a)
           \/ BulkSections(a) \/ BulkSettings(a) \/ BulkUpdateRow(a)
           \/ DeadlockAbort(a) \/ RecordActivity(a) \/ CutOff(a)
  <2>1. UNCHANGED row
    BY <1>6 DEF ReadForUpdate, UpdateGone, FindProjectToDelete, ReloadToggled, ReorderTopic,
       ReorderContent, FindNeighbour, LockNeighbour, BulkSections, BulkSettings, BulkUpdateRow,
       DeadlockAbort, RecordActivity, CutOff
  <2> QED
    BY <2>1, <1>5
<1> QED
  BY <1>1, <1>2, <1>3, <1>4, <1>6 DEF AdminStep

\* Exchanging one element for another leaves the size of a finite set alone.
LEMMA Exchange ==
  ASSUME NEW S, IsFiniteSet(S), NEW x \in S, NEW y, y \notin S
  PROVE  Cardinality((S \ {x}) \cup {y}) = Cardinality(S)
<1>1. IsFiniteSet(S \ {x}) /\ Cardinality(S \ {x}) = Cardinality(S) - 1
  BY FS_RemoveElement
<1>2. Cardinality((S \ {x}) \cup {y}) = Cardinality(S \ {x}) + 1
  BY <1>1, FS_AddElement
<1>3. Cardinality(S) \in Nat
  BY FS_CardinalityType
<1> QED
  BY <1>1, <1>2, <1>3

LEMMA SwapPermutes ==
  ASSUME Inv, NEW a, NEW id, NEW n, Swaps(a, id, n), NEW T \in {Topic, Content}, NEW k
  PROVE  Count(T, k)' = Count(T, k)
<1> DEFINE S == {r \in T : row[r].live /\ row[r].order = k}
           U == {r \in T : row'[r].live /\ row'[r].order = k}
<1>1. Count(T, k) = Cardinality(S) /\ Count(T, k)' = Cardinality(U)
  BY DEF Count
<1>2. T \subseteq Ordered /\ Ordered \subseteq Rows
  BY DEF Rows, Ordered
<1>3. IsFiniteSet(S)
  BY <1>2, CatalogueAssumption, FS_Subset
<1>4. /\ id \in Rows /\ n \in Rows /\ id # n /\ row[id].live /\ row[n].live
      /\ row'[id].live = row[id].live /\ row'[n].live = row[n].live
      /\ row'[id].order = row[n].order /\ row'[n].order = row[id].order
      /\ \A r \in Rows \ {id, n} : row'[r] = row[r]
      /\ id \in T <=> n \in T
  BY <1>2, TablesAreDisjoint DEF Swaps, SameTable
<1>5. \A r \in T : r \notin {id, n} => (r \in U <=> r \in S)
  BY <1>2, <1>4
<1>6. CASE id \notin T \/ row[id].order = row[n].order
  <2>1. U = S
    BY <1>4, <1>5, <1>6
  <2> QED
    BY <1>1, <2>1
<1>7. CASE id \in T /\ n \in T /\ row[id].order = k /\ row[n].order # k
  <2>1. id \in S /\ n \notin S /\ id \notin U /\ n \in U
    BY <1>4, <1>7
  <2>2. U = (S \ {id}) \cup {n}
    BY <1>5, <1>7, <2>1
  <2> HIDE DEF S, U
  <2> QED
    BY <1>1, <1>3, <2>1, <2>2, Exchange
<1>8. CASE id \in T /\ n \in T /\ row[n].order = k /\ row[id].order # k
  <2>1. n \in S /\ id \notin S /\ n \notin U /\ id \in U
    BY <1>4, <1>8
  <2>2. U = (S \ {n}) \cup {id}
    BY <1>5, <1>8, <2>1
  <2> HIDE DEF S, U
  <2> QED
    BY <1>1, <1>3, <2>1, <2>2, Exchange
<1>9. CASE id \in T /\ n \in T /\ row[n].order # k /\ row[id].order # k
  <2>1. U = S
    BY <1>4, <1>5, <1>9
  <2> QED
    BY <1>1, <2>1
<1> QED
  BY <1>4, <1>6, <1>7, <1>8, <1>9

LEMMA StepPermutes ==
  ASSUME Inv, NEW a \in Admin, AdminStep(a), \A r \in Ordered : row'[r].live = row[r].live,
         NEW T \in {Topic, Content}, NEW k
  PROVE  Count(T, k)' = Count(T, k)
<1>1. CASE Swap(a)
  BY <1>1, SwapSwaps, SwapPermutes
<1>2. CASE ~Swap(a)
  <2>1. \A r \in T : row'[r].live = row[r].live /\ row'[r].order = row[r].order
    BY <1>2, OthersAreTidy DEF Tidy, Ordered
  <2>2. {r \in T : row'[r].live /\ row'[r].order = k} = {r \in T : row[r].live /\ row[r].order = k}
    BY <2>1
  <2> QED
    BY <2>2 DEF Count
<1> QED
  BY <1>1, <1>2

\* Reordering only permutes the orders in use, for any number of administrators
\* who move, edit, publish and delete rows at the same time: both rows are locked
\* when they swap and still have the orders that were read.
THEOREM ReordersPermute ==
  CatalogueSpec => ReorderPermutes
<1> DEFINE A == (\A r \in Ordered : row'[r].live = row[r].live)
                  => \A T \in {Topic, Content}, n \in 0..Cardinality(Ordered) :
                       Count(T, n)' = Count(T, n)
<1>1. Inv /\ [CatalogueNext]_catalogueVars => [A]_catalogueVars
  <2> SUFFICES ASSUME Inv, CatalogueNext
               PROVE  A
    OBVIOUS
  <2>1. PICK a \in Admin : AdminStep(a)
    BY DEF CatalogueNext
  <2> QED
    BY <2>1, StepPermutes
<1> QED
  BY <1>1, CatalogueInv, PTL DEF CatalogueSpec, ReorderPermutes

--------------------------------------------------------------------------------
(* The listings.                                                           *)

\* The rows of a listing on a page, from their places in it.
PageOf(S, place, per, n) ==
  {r \in S : (n - 1) * per <= place[r] /\ place[r] < (n - 1) * per + per}

\* Pages of one or two rows cover the places 0 .. total - 1 and do not overlap.
LEMMA PagesCover ==
  ASSUME NEW per \in {1, 2}, NEW total \in Nat
  PROVE  /\ LastPage(per, total) \in Nat /\ LastPage(per, total) >= 1
         /\ \A k \in Nat : k < total =>
              \E n \in 1..LastPage(per, total) : (n - 1) * per <= k /\ k < (n - 1) * per + per
         /\ \A k \in Nat, m, n \in 1..LastPage(per, total) :
              /\ (n - 1) * per <= k /\ k < (n - 1) * per + per
              /\ (m - 1) * per <= k /\ k < (m - 1) * per + per
              => m = n
<1>1. CASE per = 1
  <2>1. LastPage(per, total) = IF total = 0 THEN 1 ELSE total
    BY <1>1 DEF LastPage
  <2> DEFINE L == IF total = 0 THEN 1 ELSE total
  <2>2. ASSUME NEW k \in Nat, k < total
        PROVE  \E n \in 1..L : (n - 1) * 1 <= k /\ k < (n - 1) * 1 + 1
    <3>1. k + 1 \in 1..L
      BY <2>2
    <3>2. (k + 1 - 1) * 1 <= k /\ k < (k + 1 - 1) * 1 + 1
      OBVIOUS
    <3> QED
      BY <3>1, <3>2
  <2> QED
    BY <1>1, <2>1, <2>2
<1>2. CASE per = 2
  <2>1. LastPage(per, total) = IF total = 0 THEN 1 ELSE (total + 1) \div 2
    BY <1>2 DEF LastPage
  <2> DEFINE L == IF total = 0 THEN 1 ELSE (total + 1) \div 2
  <2>2. L \in Nat /\ L >= 1 /\ 2 * L >= total
    OBVIOUS
  <2>3. ASSUME NEW k \in Nat, k < total
        PROVE  \E n \in 1..L : (n - 1) * 2 <= k /\ k < (n - 1) * 2 + 2
    <3> DEFINE h == k \div 2
    <3>1. h \in Nat /\ 2 * h <= k /\ k < 2 * h + 2
      OBVIOUS
    <3> HIDE DEF h, L
    <3>2. h + 1 \in 1..L
      BY <2>2, <2>3, <3>1
    <3> DEFINE n == h + 1
    <3>3. n \in 1..L /\ (n - 1) * 2 <= k /\ k < (n - 1) * 2 + 2
      BY <3>1, <3>2
    <3> HIDE DEF n
    <3> QED
      BY <3>3
  <2>4. ASSUME NEW k \in Nat, NEW m \in 1..L, NEW n \in 1..L,
               (n - 1) * 2 <= k, k < (n - 1) * 2 + 2, (m - 1) * 2 <= k, k < (m - 1) * 2 + 2
        PROVE  m = n
    <3> HIDE DEF L
    <3> QED
      BY <2>2, <2>4
  <2> HIDE DEF L
  <2>5. LastPage(per, total) = L
    BY <2>1 DEF L
  <2> QED
    BY <1>2, <2>2, <2>3, <2>4, <2>5
<1> QED
  BY <1>1, <1>2

\* The pages of a finite listing whose rows have places below its size.
LEMMA PagesSplit ==
  ASSUME NEW S, IsFiniteSet(S), NEW per \in {1, 2}, NEW place \in [S -> Nat],
         \A r \in S : place[r] < Cardinality(S),
         NEW page, DOMAIN page = 1..LastPage(per, Cardinality(S)),
         \A n \in DOMAIN page : page[n] = PageOf(S, place, per, n)
  PROVE  MeetsOnce(page, Cardinality(S))
<1> DEFINE total == Cardinality(S)
           L == LastPage(per, total)
<1>1. total \in Nat
  BY FS_CardinalityType
<1>2. /\ \A k \in Nat : k < total =>
           \E n \in 1..L : (n - 1) * per <= k /\ k < (n - 1) * per + per
      /\ \A k \in Nat, m, n \in 1..L :
           /\ (n - 1) * per <= k /\ k < (n - 1) * per + per
           /\ (m - 1) * per <= k /\ k < (m - 1) * per + per
           => m = n
  BY <1>1, PagesCover
<1>3. \A r \in S : place[r] \in Nat /\ place[r] < total
  OBVIOUS
<1>4. DOMAIN page = 1..L /\ \A n \in 1..L : page[n] = PageOf(S, place, per, n)
  OBVIOUS
<1> HIDE DEF L, total
<1>5. UNION Range(page) = S
  <2>1. ASSUME NEW r \in S
        PROVE  r \in UNION Range(page)
    <3>1. PICK n \in 1..L : (n - 1) * per <= place[r] /\ place[r] < (n - 1) * per + per
      BY <1>2, <1>3
    <3>2. r \in PageOf(S, place, per, n)
      BY <3>1 DEF PageOf
    <3> QED
      BY <1>4, <3>2 DEF Range
  <2>2. ASSUME NEW r \in UNION Range(page)
        PROVE  r \in S
    BY <1>4 DEF Range, PageOf
  <2> QED
    BY <2>1, <2>2
<1>6. ASSUME NEW m \in 1..L, NEW n \in 1..L, m # n
      PROVE  page[m] \cap page[n] = {}
  <2> SUFFICES ASSUME NEW r, r \in page[m], r \in page[n]
               PROVE  FALSE
    OBVIOUS
  <2>1. r \in PageOf(S, place, per, m) /\ r \in PageOf(S, place, per, n)
    BY <1>4
  <2>2. /\ r \in S
        /\ (n - 1) * per <= place[r] /\ place[r] < (n - 1) * per + per
        /\ (m - 1) * per <= place[r] /\ place[r] < (m - 1) * per + per
    BY <2>1 DEF PageOf
  <2> QED
    BY <1>2, <1>3, <1>6, <2>2
<1> QED
  BY <1>4, <1>5, <1>6 DEF total, MeetsOnce

\* A row that does not come before itself has fewer predecessors than there are rows.
LEMMA PlaceIsBelow ==
  ASSUME NEW S, IsFiniteSet(S), NEW r \in S, NEW P \in SUBSET S, r \notin P
  PROVE  Cardinality(P) \in Nat /\ Cardinality(P) < Cardinality(S)
<1>1. IsFiniteSet(P) /\ Cardinality(P) <= Cardinality(S) /\ Cardinality(P) # Cardinality(S)
  BY FS_Subset
<1>2. Cardinality(P) \in Nat /\ Cardinality(S) \in Nat
  BY <1>1, FS_CardinalityType
<1> QED
  BY <1>1, <1>2

LEMMA ClampIs ==
  ASSUME NEW perPage \in 0..2
  PROVE  ClampPerPage(perPage) \in {1, 2}
BY DEF ClampPerPage, MaxPerPage

\* LIMIT and OFFSET take a page by place.
LEMMA PageIs ==
  ASSUME NEW perPage \in 0..2, NEW n \in Nat, n >= 1
  PROVE  LET q == ParsePage(n, perPage)
         IN  q.perPage = ClampPerPage(perPage) /\ Offset(q) = (n - 1) * ClampPerPage(perPage)
BY DEF ParsePage, Offset

\* Paging through the topics, filtered in any way, meets every one of them once.
LEMMA TopicsMeetOnce ==
  ASSUME Inv, NEW perPage \in 0..2, NEW published \in BOOLEAN, NEW sub, NEW page,
         DOMAIN page = Pages(perPage, FindTopics(published, sub, ParsePage(1, perPage)).total),
         \A n \in DOMAIN page : page[n] = FindTopics(published, sub, ParsePage(n, perPage)).items
  PROVE  MeetsOnce(page, FindTopics(published, sub, ParsePage(1, perPage)).total)
<1> DEFINE S == {t \in Topic : /\ row[t].live /\ (published => row[t].flag)
                               /\ sub # NoOne => row[t].sub = sub}
           place == [r \in S |-> Cardinality({x \in S : Listed(x, r)})]
           per == ClampPerPage(perPage)
           total == FindTopics(published, sub, ParsePage(1, perPage)).total
<1>1. IsFiniteSet(S)
  BY CatalogueAssumption, FS_Subset DEF Rows, Ordered
<1>2. ASSUME NEW r \in S
      PROVE  place[r] \in Nat /\ place[r] < Cardinality(S)
  <2> DEFINE P == {x \in S : Listed(x, r)}
  <2>1. r \notin P
    BY DEF Listed, Inv, RowInv, Stamped, Ordered
  <2>2. place[r] = Cardinality(P) /\ P \in SUBSET S
    OBVIOUS
  <2> HIDE DEF P, S, place
  <2> QED
    BY <1>1, <2>1, <2>2, PlaceIsBelow
<1>3. place \in [S -> Nat] /\ \A r \in S : place[r] < Cardinality(S)
  BY <1>2
<1>4. total = Cardinality(S) /\ Cardinality(S) \in Nat /\ per \in {1, 2}
  BY <1>1, FS_CardinalityType, ClampIs DEF FindTopics
<1>5. ASSUME NEW n \in Nat, n >= 1
      PROVE  FindTopics(published, sub, ParsePage(n, perPage)).items = PageOf(S, place, per, n)
  <2> DEFINE q == ParsePage(n, perPage)
  <2>1. q.perPage = per /\ Offset(q) = (n - 1) * per
    BY <1>5, PageIs
  <2>2. FindTopics(published, sub, q).items =
          {r \in S : LET k == Cardinality({x \in S : Listed(x, r)})
                     IN  Offset(q) <= k /\ k < Offset(q) + q.perPage}
    BY DEF FindTopics, Slice
  <2> HIDE DEF q, S, per
  <2>3. FindTopics(published, sub, q).items =
          {r \in S : Offset(q) <= place[r] /\ place[r] < Offset(q) + q.perPage}
    BY <2>2
  <2> QED
    BY <2>1, <2>3 DEF PageOf, q
<1>6. DOMAIN page = 1..LastPage(per, Cardinality(S))
  BY <1>4 DEF Pages
<1> HIDE DEF S, place, per, total
<1>7. LastPage(per, Cardinality(S)) \in Nat
  BY <1>4, PagesCover
<1>8. \A n \in DOMAIN page : page[n] = PageOf(S, place, per, n)
  BY <1>5, <1>6, <1>7
<1>9. MeetsOnce(page, Cardinality(S))
  BY <1>1, <1>3, <1>4, <1>6, <1>8, PagesSplit
<1> QED
  BY <1>4, <1>9 DEF total

\* So does paging through the contents,
LEMMA ContentsMeetOnce ==
  ASSUME Inv, NEW perPage \in 0..2, NEW t, NEW page,
         DOMAIN page = Pages(perPage, FindContents(t, ParsePage(1, perPage)).total),
         \A n \in DOMAIN page : page[n] = FindContents(t, ParsePage(n, perPage)).items
  PROVE  MeetsOnce(page, FindContents(t, ParsePage(1, perPage)).total)
<1> DEFINE S == {c \in Content : row[c].live /\ (t # NoOne => row[c].group = t)}
           place == [r \in S |-> Cardinality({x \in S : Listed(x, r)})]
           per == ClampPerPage(perPage)
           total == FindContents(t, ParsePage(1, perPage)).total
<1>1. IsFiniteSet(S)
  BY CatalogueAssumption, FS_Subset DEF Rows, Ordered
<1>2. ASSUME NEW r \in S
      PROVE  place[r] \in Nat /\ place[r] < Cardinality(S)
  <2> DEFINE P == {x \in S : Listed(x, r)}
  <2>1. r \notin P
    BY DEF Listed, Inv, RowInv, Stamped, Ordered
  <2>2. place[r] = Cardinality(P) /\ P \in SUBSET S
    OBVIOUS
  <2> HIDE DEF P, S, place
  <2> QED
    BY <1>1, <2>1, <2>2, PlaceIsBelow
<1>3. place \in [S -> Nat] /\ \A r \in S : place[r] < Cardinality(S)
  BY <1>2
<1>4. total = Cardinality(S) /\ Cardinality(S) \in Nat /\ per \in {1, 2}
  BY <1>1, FS_CardinalityType, ClampIs DEF FindContents
<1>5. ASSUME NEW n \in Nat, n >= 1
      PROVE  FindContents(t, ParsePage(n, perPage)).items = PageOf(S, place, per, n)
  <2> DEFINE q == ParsePage(n, perPage)
  <2>1. q.perPage = per /\ Offset(q) = (n - 1) * per
    BY <1>5, PageIs
  <2>2. FindContents(t, q).items =
          {r \in S : LET k == Cardinality({x \in S : Listed(x, r)})
                     IN  Offset(q) <= k /\ k < Offset(q) + q.perPage}
    BY DEF FindContents, Slice
  <2> HIDE DEF q, S, per
  <2>3. FindContents(t, q).items =
          {r \in S : Offset(q) <= place[r] /\ place[r] < Offset(q) + q.perPage}
    BY <2>2
  <2> QED
    BY <2>1, <2>3 DEF PageOf, q
<1>6. DOMAIN page = 1..LastPage(per, Cardinality(S))
  BY <1>4 DEF Pages
<1> HIDE DEF S, place, per, total
<1>7. LastPage(per, Cardinality(S)) \in Nat
  BY <1>4, PagesCover
<1>8. \A n \in DOMAIN page : page[n] = PageOf(S, place, per, n)
  BY <1>5, <1>6, <1>7
<1>9. MeetsOnce(page, Cardinality(S))
  BY <1>1, <1>3, <1>4, <1>6, <1>8, PagesSplit
<1> QED
  BY <1>4, <1>9 DEF total

\* the gallery,
LEMMA GalleryMeetsOnce ==
  ASSUME Inv, NEW perPage \in 0..2, NEW page,
         DOMAIN page = Pages(perPage, FindGallery(ParsePage(1, perPage)).total),
         \A n \in DOMAIN page : page[n] = FindGallery(ParsePage(n, perPage)).items
  PROVE  MeetsOnce(page, FindGallery(ParsePage(1, perPage)).total)
<1> DEFINE S == {c \in Content : row[c].live /\ row[c].file}
           place == [r \in S |-> Cardinality({x \in S : Newer(x, r)})]
           per == ClampPerPage(perPage)
           total == FindGallery(ParsePage(1, perPage)).total
<1>1. IsFiniteSet(S)
  BY CatalogueAssumption, FS_Subset DEF Rows, Ordered
<1>2. ASSUME NEW r \in S
      PROVE  place[r] \in Nat /\ place[r] < Cardinality(S)
  <2> DEFINE P == {x \in S : Newer(x, r)}
  <2>1. r \notin P
    BY DEF Newer, Inv, RowInv, Stamped, Ordered
  <2>2. place[r] = Cardinality(P) /\ P \in SUBSET S
    OBVIOUS
  <2> HIDE DEF P, S, place
  <2> QED
    BY <1>1, <2>1, <2>2, PlaceIsBelow
<1>3. place \in [S -> Nat] /\ \A r \in S : place[r] < Cardinality(S)
  BY <1>2
<1>4. total = Cardinality(S) /\ Cardinality(S) \in Nat /\ per \in {1, 2}
  BY <1>1, FS_CardinalityType, ClampIs DEF FindGallery
<1>5. ASSUME NEW n \in Nat, n >= 1
      PROVE  FindGallery(ParsePage(n, perPage)).items = PageOf(S, place, per, n)
  <2> DEFINE q == ParsePage(n, perPage)
  <2>1. q.perPage = per /\ Offset(q) = (n - 1) * per
    BY <1>5, PageIs
  <2>2. FindGallery(q).items =
          {r \in S : LET k == Cardinality({x \in S : Newer(x, r)})
                     IN  Offset(q) <= k /\ k < Offset(q) + q.perPage}
    BY DEF FindGallery, Slice
  <2> HIDE DEF q, S, per
  <2>3. FindGallery(q).items =
          {r \in S : Offset(q) <= place[r] /\ place[r] < Offset(q) + q.perPage}
    BY <2>2
  <2> QED
    BY <2>1, <2>3 DEF PageOf, q
<1>6. DOMAIN page = 1..LastPage(per, Cardinality(S))
  BY <1>4 DEF Pages
<1> HIDE DEF S, place, per, total
<1>7. LastPage(per, Cardinality(S)) \in Nat
  BY <1>4, PagesCover
<1>8. \A n \in DOMAIN page : page[n] = PageOf(S, place, per, n)
  BY <1>5, <1>6, <1>7
<1>9. MeetsOnce(page, Cardinality(S))
  BY <1>1, <1>3, <1>4, <1>6, <1>8, PagesSplit
<1> QED
  BY <1>4, <1>9 DEF total

\* and the activity log, of one administrator or of all.
LEMMA ActivityMeetsOnce ==
  ASSUME Inv, NEW perPage \in 0..2, NEW a, NEW page,
         DOMAIN page = Pages(perPage, FindActivity(a, ParsePage(1, perPage)).total),
         \A n \in DOMAIN page : page[n] = FindActivity(a, ParsePage(n, perPage)).items
  PROVE  MeetsOnce(page, FindActivity(a, ParsePage(1, perPage)).total)
<1> DEFINE S == {i \in DOMAIN activity : a # NoOne => activity[i] = a}
           place == [r \in S |-> Cardinality({x \in S : x > r})]
           per == ClampPerPage(perPage)
           total == FindActivity(a, ParsePage(1, perPage)).total
<1>1. IsFiniteSet(S)
  <2>1. DOMAIN activity = 1..Len(activity) /\ Len(activity) \in Nat
    BY DEF Inv, Shaped
  <2>2. IsFiniteSet(1..Len(activity))
    BY <2>1, FS_Interval
  <2> QED
    BY <2>1, <2>2, FS_Subset
<1>2. ASSUME NEW r \in S
      PROVE  place[r] \in Nat /\ place[r] < Cardinality(S)
  <2> DEFINE P == {x \in S : x > r}
  <2>1. r \notin P
    <3>1. DOMAIN activity = 1..Len(activity) /\ Len(activity) \in Nat
      BY DEF Inv, Shaped
    <3> QED
      BY <3>1
  <2>2. place[r] = Cardinality(P) /\ P \in SUBSET S
    OBVIOUS
  <2> HIDE DEF P, S, place
  <2> QED
    BY <1>1, <2>1, <2>2, PlaceIsBelow
<1>3. place \in [S -> Nat] /\ \A r \in S : place[r] < Cardinality(S)
  BY <1>2
<1>4. total = Cardinality(S) /\ Cardinality(S) \in Nat /\ per \in {1, 2}
  BY <1>1, FS_CardinalityType, ClampIs DEF FindActivity
<1>5. ASSUME NEW n \in Nat, n >= 1
      PROVE  FindActivity(a, ParsePage(n, perPage)).items = PageOf(S, place, per, n)
  <2> DEFINE q == ParsePage(n, perPage)
  <2>1. q.perPage = per /\ Offset(q) = (n - 1) * per
    BY <1>5, PageIs
  <2>2. FindActivity(a, q).items =
          {r \in S : LET k == Cardinality({x \in S : x > r})
                     IN  Offset(q) <= k /\ k < Offset(q) + q.perPage}
    BY DEF FindActivity, Slice
  <2> HIDE DEF q, S, per
  <2>3. FindActivity(a, q).items =
          {r \in S : Offset(q) <= place[r] /\ place[r] < Offset(q) + q.perPage}
    BY <2>2
  <2> QED
    BY <2>1, <2>3 DEF PageOf, q
<1>6. DOMAIN page = 1..LastPage(per, Cardinality(S))
  BY <1>4 DEF Pages
<1> HIDE DEF S, place, per, total
<1>7. LastPage(per, Cardinality(S)) \in Nat
  BY <1>4, PagesCover
<1>8. \A n \in DOMAIN page : page[n] = PageOf(S, place, per, n)
  BY <1>5, <1>6, <1>7
<1>9. MeetsOnce(page, Cardinality(S))
  BY <1>1, <1>3, <1>4, <1>6, <1>8, PagesSplit
<1> QED
  BY <1>4, <1>9 DEF total

LEMMA PagesArePartition ==
  ASSUME Inv
  PROVE  PagesPartition
<1> SUFFICES ASSUME NEW perPage \in 0..2
             PROVE  PagesPartition!(perPage)
  BY DEF PagesPartition
<1>1. ASSUME NEW published \in BOOLEAN, NEW sub \in DOMAIN SubjectOf \cup {NoOne}
      PROVE  LET Index(n) == FindTopics(published, sub, ParsePage(n, perPage))
             IN  MeetsOnce([n \in Pages(perPage, Index(1).total) |-> Index(n).items],
                           Index(1).total)
  <2> DEFINE Index(n) == FindTopics(published, sub, ParsePage(n, perPage))
             page == [n \in Pages(perPage, Index(1).total) |-> Index(n).items]
  <2>1. /\ DOMAIN page = Pages(perPage, Index(1).total)
        /\ \A n \in DOMAIN page : page[n] = Index(n).items
    OBVIOUS
  <2>2. MeetsOnce(page, Index(1).total)
    <3> HIDE DEF page
    <3> QED
      BY <2>1, TopicsMeetOnce
  <2> QED
    BY <2>2
<1>2. ASSUME NEW t \in Topic \cup {NoOne}
      PROVE  LET Index(n) == FindContents(t, ParsePage(n, perPage))
             IN  MeetsOnce([n \in Pages(perPage, Index(1).total) |-> Index(n).items],
                           Index(1).total)
  <2> DEFINE Index(n) == FindContents(t, ParsePage(n, perPage))
             page == [n \in Pages(perPage, Index(1).total) |-> Index(n).items]
  <2>1. /\ DOMAIN page = Pages(perPage, Index(1).total)
        /\ \A n \in DOMAIN page : page[n] = Index(n).items
    OBVIOUS
  <2>2. MeetsOnce(page, Index(1).total)
    <3> HIDE DEF page
    <3> QED
      BY <2>1, ContentsMeetOnce
  <2> QED
    BY <2>2
<1>3. LET Index(n) == FindGallery(ParsePage(n, perPage))
      IN  MeetsOnce([n \in Pages(perPage, Index(1).total) |-> Index(n).items],
                    Index(1).total)
  <2> DEFINE Index(n) == FindGallery(ParsePage(n, perPage))
             page == [n \in Pages(perPage, Index(1).total) |-> Index(n).items]
  <2>1. /\ DOMAIN page = Pages(perPage, Index(1).total)
        /\ \A n \in DOMAIN page : page[n] = Index(n).items
    OBVIOUS
  <2>2. MeetsOnce(page, Index(1).total)
    <3> HIDE DEF page
    <3> QED
      BY <2>1, GalleryMeetsOnce
  <2> QED
    BY <2>2
<1>4. ASSUME NEW a \in Admin \cup {NoOne}
      PROVE  LET Index(n) == FindActivity(a, ParsePage(n, perPage))
             IN  MeetsOnce([n \in Pages(perPage, Index(1).total) |-> Index(n).items],
                           Index(1).total)
  <2> DEFINE Index(n) == FindActivity(a, ParsePage(n, perPage))
             page == [n \in Pages(perPage, Index(1).total) |-> Index(n).items]
  <2>1. /\ DOMAIN page = Pages(perPage, Index(1).total)
        /\ \A n \in DOMAIN page : page[n] = Index(n).items
    OBVIOUS
  <2>2. MeetsOnce(page, Index(1).total)
    <3> HIDE DEF page
    <3> QED
      BY <2>1, ActivityMeetsOnce
  <2> QED
    BY <2>2
<1> QED
  BY <1>1, <1>2, <1>3, <1>4

--------------------------------------------------------------------------------
(* What the readers rely on: creation times and the spelling of settings.  *)

\* No two contents were created at the same time.
Dated ==
  \A c, d \in Content : c # d /\ row[c].created # 0 => row[c].created # row[d].created

\* A setting holds what the last request sent for it, a boolean in one spelling.
Meant ==
  \A k \in Setting, a \in Admin :
    row[k].val = a => row[k].text = CoerceSettingValue(RawOf[a], SettingType[k])

\* Steps other than a new content and a bulk update leave all that alone.
Steady ==
  /\ \A c \in Content : row'[c].created = row[c].created
  /\ \A k \in Setting : row'[k].val = row[k].val /\ row'[k].text = row[k].text

LEMMA SteadyKeeps ==
  ASSUME Steady, Dated, Meant
  PROVE  Dated' /\ Meant'
BY DEF Steady, Dated, Meant

\* A statement that writes columns of one row, which is not a setting's.
LEMMA EditIsSteady ==
  ASSUME Inv, NEW id \in Ordered \cup Project, row' = [row EXCEPT ![id] = row'[id]],
         row'[id].created = row[id].created
  PROVE  Steady
<1>1. row = [r \in Rows |-> row[r]] /\ id \in Rows /\ id \notin Setting
  BY TablesAreDisjoint DEF Inv, Shaped, Rows, Ordered
<1>2. \A r \in Rows : r # id => row'[r] = row[r]
  BY <1>1
<1> QED
  BY <1>1, <1>2 DEF Steady, Rows, Ordered

LEMMA EditsAreSteady ==
  ASSUME Inv, NEW a \in Admin,
         \/ UpdateTopic(a) \/ UpdateContent(a) \/ UpdateProject(a)
         \/ PublishTopic(a) \/ PublishContent(a) \/ ShowNow(a) \/ ToggleActive(a)
  PROVE  Steady
<1>1. row = [r \in Rows |-> row[r]] /\ \A r \in Rows : DOMAIN row[r] = Columns
  BY DEF Inv, Shaped
<1>2. Ordered \cup Project \subseteq Rows /\ Topic \cup Content \subseteq Ordered
  BY DEF Rows, Ordered
<1>3. CASE UNCHANGED row
  BY <1>3 DEF Steady
<1>4. CASE UpdateTopic(a)
  <2>1. req[a].id \in Topic
    BY <1>4 DEF UpdateTopic, CanWrite
  <2>2. PICK sub : row' = [row EXCEPT ![req[a].id].sub = sub, ![req[a].id].val = a]
    BY <1>4 DEF UpdateTopic
  <2> DEFINE id == req[a].id
  <2>3. row' = [row EXCEPT ![id] = row'[id]] /\ row'[id].created = row[id].created
    BY <1>1, <1>2, <2>1, <2>2 DEF Columns
  <2> QED
    BY <1>2, <2>1, <2>3, EditIsSteady
<1>5. CASE UpdateContent(a)
  <2>1. req[a].id \in Content
    BY <1>5 DEF UpdateContent, CanWrite
  <2>2. \/ UNCHANGED row
        \/ \E t : row' = [row EXCEPT ![req[a].id].group = t, ![req[a].id].val = a]
    BY <1>5 DEF UpdateContent
  <2>3. ASSUME NEW t, row' = [row EXCEPT ![req[a].id].group = t, ![req[a].id].val = a]
        PROVE  Steady
    <3> DEFINE id == req[a].id
    <3>1. row' = [row EXCEPT ![id] = row'[id]] /\ row'[id].created = row[id].created
      BY <1>1, <1>2, <2>1, <2>3 DEF Columns
    <3> QED
      BY <1>2, <2>1, <3>1, EditIsSteady
  <2> QED
    BY <1>3, <2>2, <2>3
<1>6. CASE UpdateProject(a)
  <2>1. req[a].id \in Project
    BY <1>6 DEF UpdateProject, CanWrite
  <2>2. PICK startsAt, endsAt \in {NoOne, 0, 1} :
          LET starts == ParseDt(startsAt, req[a].seen)
              ends   == ParseDt(endsAt, req[a].seen)
          IN  row' = [row EXCEPT ![req[a].id].val = a, ![req[a].id].flag = req[a].seen.flag,
                                 ![req[a].id].starts = IF starts = NoOne THEN @ ELSE starts,
                                 ![req[a].id].ends = IF ends = NoOne THEN @ ELSE ends]
    BY <1>6 DEF UpdateProject
  <2> DEFINE id == req[a].id
  <2>3. row' = [row EXCEPT ![id] = row'[id]] /\ row'[id].created = row[id].created
    BY <1>1, <1>2, <2>1, <2>2 DEF Columns
  <2> QED
    BY <1>2, <2>1, <2>3, EditIsSteady
<1>7. CASE PublishTopic(a) \/ PublishContent(a)
  <2>1. UNCHANGED row \/ \E id \in Ordered, flag \in BOOLEAN : row' = [row EXCEPT ![id].flag = flag]
    BY <1>7 DEF PublishTopic, PublishContent, SetPublish, Ordered
  <2>2. ASSUME NEW id \in Ordered, NEW flag, row' = [row EXCEPT ![id].flag = flag]
        PROVE  Steady
    <3>1. row' = [row EXCEPT ![id] = row'[id]] /\ row'[id].created = row[id].created
      BY <1>1, <1>2, <2>2 DEF Columns
    <3> QED
      BY <3>1, EditIsSteady
  <2> QED
    BY <1>3, <2>1, <2>2
<1>8. CASE ShowNow(a)
  <2>1. \/ UNCHANGED row
        \/ \E p \in Project : row' = [row EXCEPT ![p].flag = TRUE, ![p].starts = NoOne]
    BY <1>8 DEF ShowNow
  <2>2. ASSUME NEW p \in Project, row' = [row EXCEPT ![p].flag = TRUE, ![p].starts = NoOne]
        PROVE  Steady
    <3>1. row' = [row EXCEPT ![p] = row'[p]] /\ row'[p].created = row[p].created
      BY <1>1, <1>2, <2>2 DEF Columns
    <3> QED
      BY <3>1, EditIsSteady
  <2> QED
    BY <1>3, <2>1, <2>2
<1>9. CASE ToggleActive(a)
  <2>1. UNCHANGED row \/ \E p \in Project : row' = [row EXCEPT ![p].flag = ~@]
    BY <1>9 DEF ToggleActive
  <2>2. ASSUME NEW p \in Project, row' = [row EXCEPT ![p].flag = ~@]
        PROVE  Steady
    <3>1. row' = [row EXCEPT ![p] = row'[p]] /\ row'[p].created = row[p].created
      BY <1>1, <1>2, <2>2 DEF Columns
    <3> QED
      BY <3>1, EditIsSteady
  <2> QED
    BY <1>3, <2>1, <2>2
<1> QED
  BY <1>4, <1>5, <1>6, <1>7, <1>8, <1>9

LEMMA DeleteIsSteady ==
  ASSUME Inv, NEW a \in Admin, NEW id, Delete(a, id)
  PROVE  Steady
<1>1. CASE UNCHANGED row
  BY <1>1 DEF Steady
<1>2. CASE row' = [r \in Rows |-> IF r \in Cascade(id) THEN [row[r] EXCEPT !.live = FALSE]
                                  ELSE row[r]]
  <2>1. ASSUME NEW r \in Rows
        PROVE  /\ row'[r].created = row[r].created /\ row'[r].val = row[r].val
               /\ row'[r].text = row[r].text
    <3>1. DOMAIN row[r] = Columns
      BY DEF Inv, Shaped
    <3>2. row'[r] = IF r \in Cascade(id) THEN [row[r] EXCEPT !.live = FALSE] ELSE row[r]
      BY <1>2
    <3>3. CASE r \in Cascade(id)
      BY <3>1, <3>2, <3>3 DEF Columns
    <3>4. CASE r \notin Cascade(id)
      BY <3>2, <3>4
    <3> QED
      BY <3>3, <3>4
  <2> QED
    BY <2>1 DEF Steady, Rows, Ordered
<1> QED
  BY <1>1, <1>2 DEF Delete

LEMMA SwapIsSteady ==
  ASSUME Inv, NEW a \in Admin, Swap(a)
  PROVE  Steady
<1>1. PICK n : Swaps(a, req[a].id, n)
  BY SwapSwaps
<1>2. \A k \in Setting : k \notin {req[a].id, n}
  BY <1>1, TablesAreDisjoint DEF Swaps, Ordered
<1> QED
  BY <1>1, <1>2 DEF Swaps, Steady, Rows, Ordered

LEMMA CreateKeepsDates ==
  ASSUME Inv, Dated, Meant, NEW a \in Admin, CreateContent(a)
  PROVE  Dated' /\ Meant'
<1>1. PICK c \in {x \in Content : row[x].created = 0}, t \in Topic, file, valid \in BOOLEAN :
        \/ ~valid /\ Answer(a, "422") /\ UNCHANGED row
        \/ valid /\ ~TopicExists(t) /\ Answer(a, "500") /\ UNCHANGED row
        \/ /\ valid /\ TopicExists(t)
           /\ row' = [row EXCEPT ![c] = [Blank EXCEPT !.live = TRUE, !.group = t, !.val = a,
                                            !.file = file, !.created = NextStamp]]
           /\ Changed(a, "other", "log")
  BY DEF CreateContent
<1>2. CASE UNCHANGED row
  BY <1>2 DEF Dated, Meant
<1>3. CASE row' = [row EXCEPT ![c] = [Blank EXCEPT !.live = TRUE, !.group = t, !.val = a,
                                         !.file = file, !.created = NextStamp]]
  <2>1. c \in Rows /\ c \in Content /\ c \notin Setting
    BY <1>1, TablesAreDisjoint DEF Rows, Ordered
  <2>2. \A d \in Content : row[d].created \in Nat /\ NextStamp > row[d].created
    BY <2>1, NextStampIsNew
  <2>3. /\ row'[c].created = NextStamp
        /\ \A r \in Rows : r # c => row'[r] = row[r]
    BY <1>3, <2>1 DEF Inv, Shaped, Blank
  <2>4. Meant'
    BY <2>1, <2>3 DEF Meant, Rows
  <2>5. \A d \in Content : d # c => row'[d].created = row[d].created
    BY <2>3 DEF Rows, Ordered
  <2>6. NextStamp \in Nat
    BY <2>1, NextStampIsNew
  <2>7. Dated'
    <3> SUFFICES ASSUME NEW d \in Content, NEW e \in Content, d # e, row'[d].created # 0
                 PROVE  row'[d].created # row'[e].created
      BY DEF Dated
    <3>1. CASE d = c
      BY <3>1, <2>2, <2>3, <2>5, <2>6
    <3>2. CASE e = c
      BY <3>2, <2>2, <2>3, <2>5, <2>6
    <3>3. CASE d # c /\ e # c
      BY <3>3, <2>5 DEF Dated
    <3> QED
      BY <3>1, <3>2, <3>3
  <2> QED
    BY <2>4, <2>7
<1> QED
  BY <1>1, <1>2, <1>3

LEMMA CommitKeepsDates ==
  ASSUME Inv, Dated, Meant, NEW a \in Admin, BulkCommit(a)
  PROVE  Dated' /\ Meant'
<1> DEFINE new(r) == [row[r] EXCEPT !.val = a,
                        !.text = IF r \in Setting
                                 THEN CoerceSettingValue(RawOf[a], SettingType[r]) ELSE row[r].text]
<1>1. ASSUME NEW r \in Rows
      PROVE  /\ row'[r].created = row[r].created
             /\ row'[r] = row[r]
                \/ (r \in Setting => /\ row'[r].val = a
                                     /\ row'[r].text = CoerceSettingValue(RawOf[a], SettingType[r]))
  <2>1. DOMAIN row[r] = Columns
    BY DEF Inv, Shaped
  <2>2. row'[r] = IF lock[r] # a THEN row[r] ELSE new(r)
    BY DEF BulkCommit
  <2> QED
    BY <2>1, <2>2 DEF Columns
<1>2. Dated'
  <2>1. \A c \in Content : row'[c].created = row[c].created
    BY <1>1 DEF Rows, Ordered
  <2> QED
    BY <2>1 DEF Dated
<1>3. Meant'
  <2> SUFFICES ASSUME NEW k \in Setting, NEW b \in Admin, row'[k].val = b
               PROVE  row'[k].text = CoerceSettingValue(RawOf[b], SettingType[k])
    BY DEF Meant
  <2>1. k \in Rows
    BY DEF Rows
  <2> QED
    BY <1>1, <2>1 DEF Meant
<1> QED
  BY <1>2, <1>3

LEMMA ReadsNext ==
  ASSUME Inv, Dated, Meant, [CatalogueNext]_catalogueVars
  PROVE  Dated' /\ Meant'
<1>1. CASE UNCHANGED row
  BY <1>1 DEF Dated, Meant
<1>2. ASSUME NEW a \in Admin, AdminStep(a)
      PROVE  Dated' /\ Meant'
  <2>1. CASE \/ UpdateTopic(a) \/ UpdateContent(a) \/ UpdateProject(a)
             \/ PublishTopic(a) \/ PublishContent(a) \/ ShowNow(a) \/ ToggleActive(a)
    BY <2>1, EditsAreSteady, SteadyKeeps
  <2>2. CASE CreateContent(a)
    BY <2>2, CreateKeepsDates
  <2>3. CASE DeleteTopic(a) \/ DeleteContent(a) \/ DeleteProject(a)
    <3>1. \E id : Delete(a, id)
      BY <2>3 DEF DeleteTopic, DeleteContent, DeleteProject
    <3> QED
      BY <3>1, DeleteIsSteady, SteadyKeeps
  <2>4. CASE BulkCommit(a)
    BY <2>4, CommitKeepsDates
  <2>5. CASE Swap(a)
    BY <2>5, SwapIsSteady, SteadyKeeps
  <2>6. CASE \/ ReadForUpdate(a) \/ UpdateGone(a) \/ FindProjectToDelete(a) \/ ReloadToggled(a)
             \/ ReorderTopic(a) \/ ReorderContent(a) \/ FindNeighbour(a) \/ LockNeighbour(a)
             \/ BulkSections(a) \/ BulkSettings(a) \/ BulkUpdateRow(a)
             \/ DeadlockAbort(a) \/ RecordActivity(a) \/ CutOff(a)
    <3>1. UNCHANGED row
      BY <2>6 DEF ReadForUpdate, UpdateGone, FindProjectToDelete, ReloadToggled, ReorderTopic,
         ReorderContent, FindNeighbour, LockNeighbour, BulkSections, BulkSettings, BulkUpdateRow,
         DeadlockAbort, RecordActivity, CutOff
    <3> QED
      BY <3>1, <1>1
  <2> QED
    BY <1>2, <2>1, <2>2, <2>3, <2>4, <2>5, <2>6 DEF AdminStep
<1> QED
  BY <1>1, <1>2 DEF CatalogueNext, catalogueVars

LEMMA ReadsInit ==
  ASSUME CatalogueInit
  PROVE  Dated /\ Meant
<1> DEFINE new(r) ==
      IF r \in Ordered /\ r \notin DOMAIN StartOrder THEN Blank
      ELSE [Blank EXCEPT !.live = TRUE,
                         !.order = IF r \in Ordered THEN StartOrder[r] ELSE 0,
                         !.group = IF r \in Content THEN ImportedTopic ELSE NoOne,
                         !.file = r \in Content,
                         !.created = IF r \in Ordered THEN 1 + StartOrder[r] ELSE 1]
<1>1. \A r \in Rows : row[r] = new(r)
  BY DEF CatalogueInit
<1>2. Meant
  <2>1. ASSUME NEW k \in Setting
        PROVE  row[k].val = NoOne
    <3>1. row[k] = new(k)
      BY <1>1 DEF Rows
    <3> QED
      BY <3>1 DEF Blank
  <2> QED
    BY <2>1, CatalogueAssumption DEF Meant
<1>3. ASSUME NEW c \in Content
      PROVE  row[c].created = IF c \in DOMAIN StartOrder THEN 1 + StartOrder[c] ELSE 0
  <2>1. row[c] = new(c) /\ c \in Ordered
    BY <1>1 DEF Rows, Ordered
  <2>2. CASE c \in DOMAIN StartOrder
    BY <2>1, <2>2 DEF Blank
  <2>3. CASE c \notin DOMAIN StartOrder
    BY <2>1, <2>3 DEF Blank
  <2> QED
    BY <2>2, <2>3
<1> HIDE DEF new
<1>4. Dated
  <2> SUFFICES ASSUME NEW c \in Content, NEW d \in Content, c # d, row[c].created # 0
               PROVE  row[c].created # row[d].created
    BY DEF Dated
  <2>1. c \in DOMAIN StartOrder /\ StartOrder[c] \in Nat
    BY <1>3, CatalogueAssumption
  <2>2. d \in DOMAIN StartOrder => StartOrder[d] \in Nat /\ StartOrder[c] # StartOrder[d]
    BY <2>1, CatalogueAssumption
  <2> QED
    BY <1>3, <2>1, <2>2
<1> QED
  BY <1>2, <1>4

--------------------------------------------------------------------------------
(* The readers agree.                                                      *)

\* The contents a topic shows, each at the place that its predecessors leave it.
LEMMA ContentsAreAllShown ==
  ASSUME Inv, Dated, NEW t
  PROVE  /\ Len(LoadContentsForTopics(t)) = LoadContentsCounts(t)
         /\ \A c \in Content : row[c].live /\ row[c].group = t
              => c \in Range(LoadContentsForTopics(t))
<1> DEFINE S == {c \in Content : row[c].live /\ row[c].group = t}
           before(r) == {x \in S : Shown(x, r)}
           place(r) == Cardinality(before(r))
           shown == LoadContentsForTopics(t)
<1>1. IsFiniteSet(S) /\ Cardinality(S) \in Nat
  BY CatalogueAssumption, FS_Subset, FS_CardinalityType DEF Rows, Ordered
<1>2. \A c \in S : /\ row[c].order \in Nat /\ row[c].created \in Nat
                   /\ \A d \in S : c # d => row[c].created # row[d].created
  BY DEF Inv, RowInv, Stamped, Dated, Ordered
<1>3. shown = [i \in 1..Cardinality(S) |-> CHOOSE r \in S : place(r) = i - 1]
  BY DEF LoadContentsForTopics, InOrder
<1>4. LoadContentsCounts(t) = Cardinality(S)
  BY DEF LoadContentsCounts
<1>5. Len(shown) = Cardinality(S) /\ DOMAIN shown = 1..Cardinality(S)
  <2> HIDE DEF S, shown, place
  <2> QED
    BY <1>1, <1>3
<1>6. ASSUME NEW c \in S
      PROVE  place(c) \in Nat /\ place(c) < Cardinality(S)
  <2> DEFINE P == before(c)
  <2>1. c \notin P
    BY <1>2 DEF Shown
  <2>2. P \in SUBSET S
    OBVIOUS
  <2> HIDE DEF S, P
  <2> QED
    BY <1>1, <2>1, <2>2, PlaceIsBelow DEF P
<1>7. ASSUME NEW c \in S, NEW d \in S, Shown(c, d)
      PROVE  place(c) # place(d)
  <2> DEFINE P == before(c)
             Q == before(d)
  <2>1. P \in SUBSET Q /\ c \in Q /\ c \notin P
    BY <1>2, <1>7 DEF Shown
  <2>2. IsFiniteSet(Q)
    BY <1>1, FS_Subset
  <2> HIDE DEF S, P, Q
  <2>3. Cardinality(P) < Cardinality(Q) /\ Cardinality(P) \in Nat
    BY <2>1, <2>2, PlaceIsBelow
  <2>4. Cardinality(Q) \in Nat
    BY <2>2, FS_CardinalityType
  <2> QED
    BY <2>3, <2>4 DEF P, Q
<1>8. \A c, d \in S : c # d => Shown(c, d) \/ Shown(d, c)
  BY <1>2 DEF Shown
<1>9. ASSUME NEW c \in S
      PROVE  c \in Range(shown)
  <2> DEFINE i == place(c) + 1
  <2>1. i \in 1..Cardinality(S) /\ i - 1 = place(c)
    <3> HIDE DEF S, place
    <3> QED
      BY <1>1, <1>6
  <2>2. \A d \in S : place(d) = place(c) => d = c
    <3> HIDE DEF S, place
    <3> QED
      BY <1>7, <1>8
  <2> HIDE DEF S, place, i, shown
  <2>3. (CHOOSE r \in S : place(r) = i - 1) = c
    BY <2>1, <2>2
  <2>4. shown[i] = c
    BY <1>3, <2>1, <2>3
  <2> QED
    BY <1>5, <2>1, <2>4 DEF Range
<1> QED
  BY <1>4, <1>5, <1>9

\* The subject of a topic is found in the page's look-up as well as alone.
LEMMA SameSubject ==
  ASSUME NEW page, NEW t \in page
  PROVE  Taxonomy(row[t].sub, LoadSubSubjects(page), LoadSubjects(LoadSubSubjects(page)))
           = LoadSingleSubject(row[t].sub)
<1> DEFINE sub == row[t].sub
           subs == LoadSubSubjects(page)
<1>1. sub \in subs <=> sub # NoOne
  BY DEF LoadSubSubjects
<1>2. sub \in subs => SubjectOf[sub] \in LoadSubjects(subs)
  BY DEF LoadSubjects
<1> HIDE DEF sub, subs
<1>3. Taxonomy(sub, subs, LoadSubjects(subs)) = LoadSingleSubject(sub)
  BY <1>1, <1>2 DEF Taxonomy, LoadSingleSubject
<1> QED
  BY <1>3 DEF sub, subs

LEMMA TopicsAgree ==
  ASSUME Inv, Dated
  PROVE  /\ \A r \in TopicIndex(FALSE, NoOne, FALSE, WholePage) :
              LET show == ShowTopic(r.topic)
              IN  /\ r.contents_count = Len(show.contents)
                  /\ r.taxonomy = show.taxonomy /\ r.personalization = show.personalization
         /\ \A r \in TopicIndex(FALSE, NoOne, TRUE, WholePage) : r = ShowTopic(r.topic)
<1> DEFINE page == FindTopics(FALSE, NoOne, WholePage).items
           subs == LoadSubSubjects(page)
           subjects == LoadSubjects(subs)
<1>1. ASSUME NEW t
      PROVE  ShowTopic(t) = [topic |-> t, taxonomy |-> LoadSingleSubject(row[t].sub),
                             personalization |-> BuildPersonalization(t),
                             contents |-> LoadContentsForTopics(t)]
  BY DEF ShowTopic, BuildTopicResourceFromTwc, FindTopicById
<1>2. ASSUME NEW r \in TopicIndex(FALSE, NoOne, FALSE, WholePage)
      PROVE  /\ r.contents_count = Len(ShowTopic(r.topic).contents)
             /\ r.taxonomy = ShowTopic(r.topic).taxonomy
             /\ r.personalization = ShowTopic(r.topic).personalization
  <2>1. PICK t \in page : r = BuildTopicResourceWithCount(t, subs, subjects)
    BY DEF TopicIndex
  <2>2. Taxonomy(row[t].sub, subs, subjects) = LoadSingleSubject(row[t].sub)
    BY SameSubject
  <2> HIDE DEF page, subs, subjects
  <2>3. /\ r.topic = t /\ r.taxonomy = Taxonomy(row[t].sub, subs, subjects)
        /\ r.personalization = BuildPersonalization(t)
        /\ r.contents_count = LoadContentsCounts(t)
    BY <2>1 DEF BuildTopicResourceWithCount
  <2>4. LoadContentsCounts(t) = Len(LoadContentsForTopics(t))
    BY ContentsAreAllShown
  <2> QED
    BY <1>1, <2>2, <2>3, <2>4
<1>3. ASSUME NEW r \in TopicIndex(FALSE, NoOne, TRUE, WholePage)
      PROVE  r = ShowTopic(r.topic)
  <2>1. PICK t \in page : r = BuildTopicResourceWithContents(t, subs, subjects)
    BY DEF TopicIndex
  <2>2. Taxonomy(row[t].sub, subs, subjects) = LoadSingleSubject(row[t].sub)
    BY SameSubject
  <2> HIDE DEF page, subs, subjects
  <2>3. r = [topic |-> t, taxonomy |-> LoadSingleSubject(row[t].sub),
             personalization |-> BuildPersonalization(t), contents |-> LoadContentsForTopics(t)]
    BY <2>1, <2>2 DEF BuildTopicResourceWithContents
  <2>4. r.topic = t
    BY <2>3
  <2> QED
    BY <1>1, <2>3, <2>4
<1> QED
  BY <1>2, <1>3

LEMMA ContentsAgree ==
  ASSUME Inv, Dated
  PROVE  /\ \A t \in Topic : \A r \in ContentIndex(t, WholePage) :
              r.content \in Range(ShowTopic(t).contents) /\ r.topic = t
         /\ \A r \in ContentIndex(NoOne, WholePage) \cup GalleryIndex(WholePage) :
              r = FindContentById(r.content)
<1>1. ASSUME NEW page, NEW c \in page, page \subseteq {d \in Content : row[d].live}
      PROVE  /\ BuildContentResource(c, LoadTopics(page)) = [content |-> c, topic |-> row[c].group]
             /\ FindContentById(c) = [content |-> c, topic |-> row[c].group]
  <2>1. c \in Content /\ row[c].live /\ row[c].group \in Topic /\ row[row[c].group].live
    BY <1>1 DEF Inv, RowInv, GroupsLive
  <2>2. row[c].group \in LoadTopics(page)
    BY <2>1 DEF LoadTopics
  <2> QED
    BY <2>1, <2>2 DEF BuildContentResource, FindContentById
<1>2. ASSUME NEW t \in Topic, NEW r \in ContentIndex(t, WholePage)
      PROVE  r.content \in Range(ShowTopic(t).contents) /\ r.topic = t
  <2> DEFINE page == FindContents(t, WholePage).items
  <2>1. PICK c \in page : r = BuildContentResource(c, LoadTopics(page))
    BY DEF ContentIndex
  <2>2. page \subseteq {d \in Content : row[d].live} /\ t # NoOne
    BY CatalogueAssumption DEF FindContents, Slice, Rows, Ordered
  <2>3. c \in Content /\ row[c].live /\ row[c].group = t
    BY <2>1, <2>2 DEF FindContents, Slice
  <2> HIDE DEF page
  <2>4. r.content = c /\ r.topic = t
    BY <1>1, <2>1, <2>2, <2>3
  <2>5. ShowTopic(t).contents = LoadContentsForTopics(t)
    BY DEF ShowTopic, BuildTopicResourceFromTwc, FindTopicById
  <2> QED
    BY <2>3, <2>4, <2>5, ContentsAreAllShown
<1>3. ASSUME NEW r \in ContentIndex(NoOne, WholePage)
      PROVE  r = FindContentById(r.content)
  <2> DEFINE page == FindContents(NoOne, WholePage).items
  <2>1. PICK c \in page : r = BuildContentResource(c, LoadTopics(page))
    BY DEF ContentIndex
  <2>2. page \subseteq {d \in Content : row[d].live}
    BY DEF FindContents, Slice
  <2> HIDE DEF page
  <2> QED
    BY <1>1, <2>1, <2>2
<1>4. ASSUME NEW r \in GalleryIndex(WholePage)
      PROVE  r = FindContentById(r.content)
  <2> DEFINE page == FindGallery(WholePage).items
  <2>1. PICK c \in page : r = BuildContentResource(c, LoadTopics(page))
    BY DEF GalleryIndex
  <2>2. page \subseteq {d \in Content : row[d].live}
    BY DEF FindGallery, Slice
  <2> HIDE DEF page
  <2> QED
    BY <1>1, <2>1, <2>2
<1> QED
  BY <1>2, <1>3, <1>4

\* Storing a boolean in one spelling and reading it again keeps what was meant.
LEMMA SettingsAgree ==
  ASSUME Meant, NEW k \in Setting, NEW a \in Admin, row[k].val = a
  PROVE  SettingResource(k) = IF SettingType[k] = "boolean" THEN RawOf[a] \in Truthy ELSE RawOf[a]
<1>1. row[k].text = CoerceSettingValue(RawOf[a], SettingType[k])
  BY DEF Meant
<1>2. CASE SettingType[k] = "boolean"
  <2>1. row[k].text = IF RawOf[a] \in Truthy THEN "true" ELSE "false"
    BY <1>1, <1>2 DEF CoerceSettingValue
  <2>2. NoOne \notin {"true", "false"}
    BY CatalogueAssumption
  <2>3. SettingResource(k) = (row[k].text \in Truthy)
    BY <1>2, <2>1, <2>2 DEF SettingResource, ParseBoolSetting
  <2>4. (row[k].text \in Truthy) = (RawOf[a] \in Truthy)
    BY <2>1 DEF Truthy
  <2> QED
    BY <1>2, <2>3, <2>4
<1>3. CASE SettingType[k] # "boolean"
  BY <1>1, <1>3 DEF CoerceSettingValue, SettingResource
<1> QED
  BY <1>2, <1>3

\* The listings, the detail pages and the settings tell one story in every state:
\* pages partition their listing, a topic has as many contents in the index as on
\* its page, a listed content can be opened and names the same topic everywhere,
\* and a boolean setting is shown as it was meant.
THEOREM ReadsTellOneStory ==
  CatalogueSpec => []ReadsAgree
<1>1. CatalogueInit => Dated /\ Meant
  BY ReadsInit
<1>2. Inv /\ Dated /\ Meant /\ [CatalogueNext]_catalogueVars => Dated' /\ Meant'
  BY ReadsNext
<1>3. Inv /\ Dated /\ Meant => ReadsAgree
  BY PagesArePartition, TopicsAgree, ContentsAgree, SettingsAgree DEF ReadsAgree
<1> QED
  BY <1>1, <1>2, <1>3, CatalogueInv, PTL DEF CatalogueSpec
================================================================================
