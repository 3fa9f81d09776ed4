---------------------------- MODULE SubmissionProofs ---------------------------
(***************************************************************************)
(* For any number of requests, teachers, prompts and rows: identical       *)
(* submissions share one generation, a conflict means that it has ended,   *)
(* answers are about the teacher's own rows, an active row has a job, and  *)
(* the lists and chains that a teacher is shown are true.                  *)
(***************************************************************************)
EXTENDS Submission, SequenceTheorems, FiniteSetTheorems,
        WellFoundedInduction, TLAPS

\* No two rows have the same active_duplicate_key, ended or not: the key is set on
\* every insert and never cleared.  This is more than OneActivePerFingerprint,
\* which is not inductive by itself: confirm may bring an ended row back.
KeysAreUnique ==
  \A i, j \in DOMAIN rows : rows[i].fingerprint = rows[j].fingerprint => i = j

\* The rows are a sequence of records that have a fingerprint.
RowsInv ==
  /\ \E S : rows \in Seq(S)
  /\ \A i \in DOMAIN rows : "fingerprint" \in DOMAIN rows[i]

KeyInv == RowsInv /\ KeysAreUnique

\* A new row whose key is not taken keeps the keys unique.
LEMMA InsertKeeps ==
  ASSUME KeyInv, NEW r, NEW f, ~KeyTaken(r), rows' = Append(rows, Row(r, f))
  PROVE  KeyInv'
<1>1. PICK S : rows \in Seq(S)
  BY DEF KeyInv, RowsInv
<1> DEFINE x == Row(r, f)
           T == S \cup {x}
<1>2. rows \in Seq(T) /\ x \in T
  BY <1>1
<1>3. x.fingerprint = FingerprintOf(r) /\ "fingerprint" \in DOMAIN x
  BY DEF Row
<1> HIDE DEF x, T
<1>4. /\ Append(rows, x) \in Seq(T)
      /\ DOMAIN Append(rows, x) = 1 .. Len(rows) + 1
      /\ \A i \in 1 .. Len(rows) : Append(rows, x)[i] = rows[i]
      /\ Append(rows, x)[Len(rows) + 1] = x
      /\ Len(rows) \in Nat /\ DOMAIN rows = 1 .. Len(rows)
  BY <1>2, AppendProperties, SMT
<1>5. rows' = Append(rows, x)
  BY DEF x
<1>6. RowsInv'
  <2>1. \E U : rows' \in Seq(U)
    BY <1>4, <1>5
  <2>2. ASSUME NEW i \in DOMAIN rows'
        PROVE  "fingerprint" \in DOMAIN rows'[i]
    <3>1. i \in 1 .. Len(rows) \/ i = Len(rows) + 1
      BY <1>4, <1>5
    <3> QED
      BY <3>1, <1>3, <1>4, <1>5 DEF KeyInv, RowsInv
  <2> QED
    BY <2>1, <2>2 DEF RowsInv
<1>7. \A i \in DOMAIN rows : rows[i].fingerprint # x.fingerprint
  BY <1>3 DEF KeyTaken
<1>8. KeysAreUnique'
  <2> SUFFICES ASSUME NEW i \in DOMAIN rows', NEW j \in DOMAIN rows',
                      rows'[i].fingerprint = rows'[j].fingerprint
               PROVE  i = j
    BY DEF KeysAreUnique
  <2>1. i \in 1 .. Len(rows) \/ i = Len(rows) + 1
    BY <1>4, <1>5
  <2>2. j \in 1 .. Len(rows) \/ j = Len(rows) + 1
    BY <1>4, <1>5
  <2> QED
    BY <2>1, <2>2, <1>4, <1>5, <1>7 DEF KeyInv, KeysAreUnique
<1> QED
  BY <1>6, <1>8 DEF KeyInv

\* An update of one row that leaves its key alone keeps the keys unique.
LEMMA UpdateKeeps ==
  ASSUME KeyInv, NEW k, NEW x, rows' = [rows EXCEPT ![k] = x],
         k \in DOMAIN rows =>
           x.fingerprint = rows[k].fingerprint /\ "fingerprint" \in DOMAIN x
  PROVE  KeyInv'
<1>1. PICK S : rows \in Seq(S)
  BY DEF KeyInv, RowsInv
<1>2. DOMAIN rows' = DOMAIN rows
  BY <1>1
<1>3. \A i \in DOMAIN rows : rows'[i] = IF i = k THEN x ELSE rows[i]
  BY <1>1
<1>4. rows' \in Seq(S \cup {x})
  <2>1. /\ Len(rows) \in Nat /\ DOMAIN rows = 1 .. Len(rows)
        /\ \A i \in 1 .. Len(rows) : rows[i] \in S
    BY <1>1
  <2>2. rows' \in [1 .. Len(rows) -> S \cup {x}]
    BY <2>1, <1>3
  <2> QED
    BY <2>1, <2>2
<1>5. RowsInv'
  BY <1>2, <1>3, <1>4 DEF KeyInv, RowsInv
<1>6. KeysAreUnique'
  BY <1>2, <1>3 DEF KeyInv, KeysAreUnique
<1> QED
  BY <1>5, <1>6 DEF KeyInv

\* So does a step that touches no row.
LEMMA SameKeeps ==
  ASSUME KeyInv, UNCHANGED rows
  PROVE  KeyInv'
BY DEF KeyInv, RowsInv, KeysAreUnique

\* Every step of a request keeps the keys unique: the two INSERTs are guarded by
\* the index, reset_for_reprocessing, update_clarification_state and
\* update_generation_job_status leave the key alone, the others write no row.
LEMMA RequestKeeps ==
  ASSUME KeyInv, NEW r \in Request, RequestStep(r)
  PROVE  KeyInv'
<1>1. CASE InsertRow(r)
  BY <1>1, InsertKeeps DEF InsertRow
<1>2. CASE InsertRegeneration(r)
  <2>1. CASE ~KeyTaken(r) /\ rows' = Append(rows, Row(r, req[r].id))
    BY <2>1, InsertKeeps
  <2>2. CASE UNCHANGED rows
    BY <2>2, SameKeeps
  <2> QED
    BY <1>2, <2>1, <2>2 DEF InsertRegeneration
<1>3. CASE ResetRow(r)
  <2> DEFINE k == req[r].id
             x == ResetForReprocessing(rows[k], req[r].prompt)
  <2>1. rows' = [rows EXCEPT ![k] = x]
    BY <1>3 DEF ResetRow
  <2>2. k \in DOMAIN rows =>
          x.fingerprint = rows[k].fingerprint /\ "fingerprint" \in DOMAIN x
    BY DEF ResetForReprocessing, KeyInv, RowsInv
  <2> HIDE DEF k, x
  <2> QED
    BY <2>1, <2>2, UpdateKeeps
<1>4. CASE SaveClarification(r)
  <2> DEFINE k == req[r].id
             x == UpdateClarificationState(rows[k], req[r].op = "skip")
  <2>1. rows' = [rows EXCEPT ![k] = x]
    BY <1>4 DEF SaveClarification
  <2>2. k \in DOMAIN rows =>
          x.fingerprint = rows[k].fingerprint /\ "fingerprint" \in DOMAIN x
    BY DEF UpdateClarificationState, KeyInv, RowsInv
  <2> HIDE DEF k, x
  <2> QED
    BY <2>1, <2>2, UpdateKeeps
<1>5. CASE MarkPending(r)
  <2> DEFINE k == req[r].id
             x == UpdateGenerationJobStatus(rows[k], r, "pending")
  <2>1. rows' = [rows EXCEPT ![k] = x]
    BY <1>5 DEF MarkPending
  <2>2. k \in DOMAIN rows =>
          x.fingerprint = rows[k].fingerprint /\ "fingerprint" \in DOMAIN x
    BY DEF UpdateGenerationJobStatus, KeyInv, RowsInv
  <2> HIDE DEF k, x
  <2> QED
    BY <2>1, <2>2, UpdateKeeps
<1>6. CASE LookupActive(r) \/ InsertConflict(r) \/ RetryLookup(r)
  BY <1>6, SameKeeps DEF LookupActive, InsertConflict, RetryLookup
<1>7. CASE FetchExisting(r) \/ TestConfirm(r) \/ TestSkip(r) \/ MarkFails(r)
  BY <1>7, SameKeeps DEF FetchExisting, TestConfirm, TestSkip, MarkFails
<1>8. CASE EnqueueCreated(r) \/ EnqueueConfirmed(r) \/ EnqueueSkipped(r)
  BY <1>8, SameKeeps DEF EnqueueCreated, EnqueueConfirmed, EnqueueSkipped, Enqueue
<1>9. CASE ReadParent(r) \/ CopyParent(r) \/ SubmitRegeneration(r)
  BY <1>9, SameKeeps DEF ReadParent, CopyParent, SubmitRegeneration
<1> QED
  BY <1>1, <1>2, <1>3, <1>4, <1>5, <1>6, <1>7, <1>8, <1>9 DEF RequestStep

\* A worker writes the two statuses and the spec of a row, never its key.
LEMMA WorkerKeeps ==
  ASSUME KeyInv, NEW q \in queue, WorkerRuns(q)
  PROVE  KeyInv'
<1>1. CASE IsTerminal(rows[q[1]].status)
  BY <1>1, SameKeeps DEF WorkerRuns
<1>2. CASE ~IsTerminal(rows[q[1]].status)
  <2>1. PICK s \in {"completed", "failed"} :
          rows' = [rows EXCEPT ![q[1]] = [rows[q[1]] EXCEPT !.status = s, !.genStatus = s,
                                                            !.spec = (s = "completed")]]
    BY <1>2 DEF WorkerRuns
  <2> DEFINE k == q[1]
             x == [rows[k] EXCEPT !.status = s, !.genStatus = s, !.spec = (s = "completed")]
  <2>2. rows' = [rows EXCEPT ![k] = x]
    BY <2>1
  <2>3. k \in DOMAIN rows =>
          x.fingerprint = rows[k].fingerprint /\ "fingerprint" \in DOMAIN x
    BY DEF KeyInv, RowsInv
  <2> HIDE DEF k, x
  <2> QED
    BY <2>2, <2>3, UpdateKeeps
<1> QED
  BY <1>1, <1>2

\* The key of a generation is never used twice, in any number of requests: the
\* unique index on active_duplicate_key guards both INSERTs and no UPDATE of the
\* submission path changes it.
THEOREM KeyInvThm == Spec => []KeyInv
<1>1. Init => KeyInv
  BY DEF Init, KeyInv, RowsInv, KeysAreUnique
<1>2. KeyInv /\ [Next]_vars => KeyInv'
  <2> SUFFICES ASSUME KeyInv, [Next]_vars
               PROVE  KeyInv'
    OBVIOUS
  <2>1. ASSUME NEW r \in Request, Arrive(r)
        PROVE  KeyInv'
    BY <2>1, SameKeeps
       DEF Arrive, PostCreate, RateLimited, PostConfirm, PostSkipClarification,
           PostRegenerate, GetOne
  <2>2. ASSUME NEW r \in Request, RequestStep(r)
        PROVE  KeyInv'
    BY <2>2, RequestKeeps
  <2>3. ASSUME NEW q \in queue, WorkerRuns(q)
        PROVE  KeyInv'
    BY <2>3, WorkerKeeps
  <2>4. CASE UNCHANGED vars
    BY <2>4, SameKeeps DEF vars
  <2> QED
    BY <2>1, <2>2, <2>3, <2>4 DEF Next
<1> QED
  BY <1>1, <1>2, PTL DEF Spec

\* Identical submissions share one generation, whatever the number of requests,
\* teachers and prompts: never two active rows have one fingerprint.
THEOREM OneActivePerFingerprintThm == Spec => []OneActivePerFingerprint
<1>1. KeyInv => OneActivePerFingerprint
  BY DEF KeyInv, KeysAreUnique, OneActivePerFingerprint
<1> QED
  BY <1>1, KeyInvThm, PTL

--------------------------------------------------------------------------------
(* The requests.                                                           *)

\* Requests keep their parts.
Parts == {"pc", "op", "id", "prompt", "type", "subject", "answer"}

Shaped == DOMAIN req = Request /\ \A r \in Request : DOMAIN req[r] = Parts

\* The handlers work on a row from here on, and it is a row of their teacher.
Working == {"fetch", "reset", "clarification", "mark", "enqueue", "submit", "copy",
            "regeneration"}

\* What a request is at fits what it was asked, has read and will answer.
ReqInv ==
  \A r \in Request :
    /\ req[r].pc # "done" => req[r].answer = "none"
    /\ req[r].pc \in {"parent", "copy", "regeneration", "submit"} => req[r].op = "regenerate"
    /\ req[r].pc \in Working => Own(r, req[r].id)
    /\ req[r].answer \in Told => Own(r, req[r].id)
    /\ req[r].pc = "retry" => KeyTaken(r)

\* A row has the columns the handlers test; its key names its teacher.
GoodRow(x) ==
  /\ {"teacher", "from", "status", "genStatus", "fingerprint"} \subseteq DOMAIN x
  /\ x.fingerprint[1] = x.teacher
  /\ x.status \in Status
  /\ x.genStatus \in {"null", "pending"} \cup Terminal

RowInv == \A i \in DOMAIN rows : GoodRow(rows[i])

\* Request r is at l, for row i, with answer a; the other requests stay.
Becomes(r, l, o, i, a) ==
  /\ DOMAIN req' = Request
  /\ \A s \in Request \ {r} : req'[s] = req[s]
  /\ req'[r].pc = l /\ req'[r].op = o /\ req'[r].id = i /\ req'[r].answer = a

SameInput(r) ==
  /\ req'[r].prompt = req[r].prompt
  /\ req'[r].type = req[r].type
  /\ req'[r].subject = req[r].subject

\* Goto and GotoWith.
LEMMA GotoBecomes ==
  ASSUME Shaped, NEW r \in Request, NEW l, NEW i,
         \/ GotoWith(r, l, i)
         \/ Goto(r, l) /\ i = req[r].id
  PROVE  Becomes(r, l, req[r].op, i, req[r].answer) /\ SameInput(r) /\ Shaped'
<1>1. DOMAIN req = Request /\ \A s \in Request : DOMAIN req[s] = Parts
  BY DEF Shaped
<1>2. CASE GotoWith(r, l, i)
  BY <1>1, <1>2 DEF GotoWith, Becomes, SameInput, Shaped, Parts
<1>3. CASE Goto(r, l) /\ i = req[r].id
  BY <1>1, <1>3 DEF Goto, Becomes, SameInput, Shaped, Parts
<1> QED
  BY <1>2, <1>3

\* Answer.
LEMMA AnswerBecomes ==
  ASSUME Shaped, NEW r \in Request, NEW a, Answer(r, a)
  PROVE  Becomes(r, "done", req[r].op, req[r].id, a) /\ Shaped'
BY DEF Shaped, Answer, Becomes, Parts

--------------------------------------------------------------------------------
(* The rows.                                                               *)

\* No row goes away, changes hands or gets another key or parent.
RowsStay ==
  \A i \in DOMAIN rows : /\ i \in DOMAIN rows'
                         /\ rows'[i].teacher = rows[i].teacher
                         /\ rows'[i].from = rows[i].from
                         /\ rows'[i].fingerprint = rows[i].fingerprint

\* One row is written, the others stay.
Written(k) ==
  /\ DOMAIN rows' = DOMAIN rows
  /\ \A i \in DOMAIN rows \ {k} : rows'[i] = rows[i]

\* A row of r's teacher with r's key is added, ready for a worker.
Inserted(r, f) ==
  /\ DOMAIN rows' = DOMAIN rows \cup {Len(rows) + 1}
  /\ \A i \in DOMAIN rows : rows'[i] = rows[i]
  /\ rows'[Len(rows) + 1].teacher = TeacherOf[r] /\ rows'[Len(rows) + 1].from = f

\* The INSERTs.
LEMMA InsertAdds ==
  ASSUME RowsInv, RowInv, NEW r, NEW f, rows' = Append(rows, Row(r, f))
  PROVE  Inserted(r, f) /\ RowsStay /\ RowInv'
<1>1. PICK S : rows \in Seq(S)
  BY DEF RowsInv
<1> DEFINE x == Row(r, f)
<1>2. GoodRow(x) /\ x.teacher = TeacherOf[r] /\ x.from = f
  BY DEF Row, FingerprintOf, MakeRequestFingerprint, GoodRow, Status
<1>3. rows' = Append(rows, x)
  OBVIOUS
<1> HIDE DEF x
<1>4. rows \in Seq(S \cup {x}) /\ x \in S \cup {x}
  BY <1>1
<1>5. /\ DOMAIN Append(rows, x) = 1 .. Len(rows) + 1
      /\ \A i \in 1 .. Len(rows) : Append(rows, x)[i] = rows[i]
      /\ Append(rows, x)[Len(rows) + 1] = x
      /\ Len(rows) \in Nat /\ DOMAIN rows = 1 .. Len(rows)
  BY <1>4, AppendProperties, SMT
<1>6. /\ DOMAIN rows' = DOMAIN rows \cup {Len(rows) + 1}
      /\ \A i \in DOMAIN rows : rows'[i] = rows[i]
      /\ rows'[Len(rows) + 1] = x
  BY <1>3, <1>5
<1>7. RowInv'
  BY <1>2, <1>6 DEF RowInv
<1> QED
  BY <1>2, <1>6, <1>7 DEF Inserted, RowsStay

\* The UPDATEs.
LEMMA UpdateWrites ==
  ASSUME RowsInv, RowInv, NEW k, NEW x, rows' = [rows EXCEPT ![k] = x],
         k \in DOMAIN rows => /\ x.teacher = rows[k].teacher /\ x.from = rows[k].from
                              /\ x.fingerprint = rows[k].fingerprint
                              /\ GoodRow(x)
  PROVE  Written(k) /\ RowsStay /\ RowInv' /\ (k \in DOMAIN rows => rows'[k] = x)
<1>1. PICK S : rows \in Seq(S)
  BY DEF RowsInv
<1>2. rows = [i \in DOMAIN rows |-> rows[i]]
  BY <1>1
<1>3. /\ DOMAIN rows' = DOMAIN rows
      /\ \A i \in DOMAIN rows : rows'[i] = IF i = k THEN x ELSE rows[i]
  BY <1>2
<1>4. RowInv'
  BY <1>3 DEF RowInv
<1> QED
  BY <1>3, <1>4 DEF Written, RowsStay

\* reset_for_reprocessing, update_clarification_state, update_generation_job_status.
LEMMA HandlersWrite ==
  ASSUME RowsInv, RowInv, NEW r \in Request, ResetRow(r) \/ SaveClarification(r) \/ MarkPending(r)
  PROVE  /\ Written(req[r].id) /\ RowsStay /\ RowInv'
         /\ ResetRow(r) \/ \A i \in DOMAIN rows : rows'[i].status = rows[i].status
<1>1. PICK k : k = req[r].id
  OBVIOUS
<1>2. ASSUME NEW x, rows' = [rows EXCEPT ![k] = x],
             k \in DOMAIN rows => /\ x.teacher = rows[k].teacher /\ x.from = rows[k].from
                                  /\ x.fingerprint = rows[k].fingerprint
                                  /\ GoodRow(x)
      PROVE  /\ Written(k) /\ RowsStay /\ RowInv'
             /\ k \in DOMAIN rows /\ x.status = rows[k].status
                  => \A i \in DOMAIN rows : rows'[i].status = rows[i].status
             /\ k \notin DOMAIN rows => \A i \in DOMAIN rows : rows'[i].status = rows[i].status
  <2>1. Written(k) /\ RowsStay /\ RowInv' /\ (k \in DOMAIN rows => rows'[k] = x)
    BY <1>2, UpdateWrites
  <2> QED
    BY <2>1 DEF Written
<1>3. k \in DOMAIN rows => GoodRow(rows[k])
  BY DEF RowInv
<1>4. CASE ResetRow(r)
  <2> DEFINE x == ResetForReprocessing(rows[k], req[r].prompt)
  <2>1. rows' = [rows EXCEPT ![k] = x]
    BY <1>1, <1>4 DEF ResetRow
  <2>2. k \in DOMAIN rows => /\ x.teacher = rows[k].teacher /\ x.from = rows[k].from
                             /\ x.fingerprint = rows[k].fingerprint
                             /\ GoodRow(x)
    BY <1>3 DEF ResetForReprocessing, GoodRow, Status
  <2> HIDE DEF x
  <2> QED
    BY <1>1, <1>2, <1>4, <2>1, <2>2
<1>5. CASE SaveClarification(r)
  <2> DEFINE x == UpdateClarificationState(rows[k], req[r].op = "skip")
  <2>1. rows' = [rows EXCEPT ![k] = x]
    BY <1>1, <1>5 DEF SaveClarification
  <2>2. k \in DOMAIN rows => /\ x.teacher = rows[k].teacher /\ x.from = rows[k].from
                             /\ x.fingerprint = rows[k].fingerprint
                             /\ GoodRow(x) /\ x.status = rows[k].status
    BY <1>3 DEF UpdateClarificationState, GoodRow
  <2> HIDE DEF x
  <2> QED
    BY <1>1, <1>2, <2>1, <2>2
<1>6. CASE MarkPending(r)
  <2> DEFINE x == UpdateGenerationJobStatus(rows[k], r, "pending")
  <2>1. rows' = [rows EXCEPT ![k] = x]
    BY <1>1, <1>6 DEF MarkPending
  <2>2. k \in DOMAIN rows => /\ x.teacher = rows[k].teacher /\ x.from = rows[k].from
                             /\ x.fingerprint = rows[k].fingerprint
                             /\ GoodRow(x) /\ x.status = rows[k].status
    BY <1>3 DEF UpdateGenerationJobStatus, GoodRow
  <2> HIDE DEF x
  <2> QED
    BY <1>1, <1>2, <2>1, <2>2
<1> QED
  BY <1>4, <1>5, <1>6

\* A worker ends the row of its job.
LEMMA WorkerWrites ==
  ASSUME RowsInv, RowInv, NEW q \in queue, WorkerRuns(q)
  PROVE  /\ Written(q[1]) /\ RowsStay /\ RowInv'
         /\ q[1] \in DOMAIN rows => IsTerminal(rows'[q[1]].status)
<1>1. PICK k : k = q[1]
  OBVIOUS
<1>2. CASE IsTerminal(rows[k].status)
  <2>1. rows' = rows
    BY <1>1, <1>2 DEF WorkerRuns
  <2> QED
    BY <1>1, <1>2, <2>1 DEF Written, RowsStay, RowInv
<1>3. CASE ~IsTerminal(rows[k].status)
  <2>1. PICK s \in {"completed", "failed"} :
          rows' = [rows EXCEPT ![k] = [rows[k] EXCEPT !.status = s, !.genStatus = s,
                                                      !.spec = (s = "completed")]]
    BY <1>1, <1>3 DEF WorkerRuns
  <2> DEFINE x == [rows[k] EXCEPT !.status = s, !.genStatus = s, !.spec = (s = "completed")]
  <2>2. rows' = [rows EXCEPT ![k] = x]
    BY <2>1
  <2>3. k \in DOMAIN rows => GoodRow(rows[k])
    BY DEF RowInv
  <2>4. k \in DOMAIN rows => /\ x.teacher = rows[k].teacher /\ x.from = rows[k].from
                             /\ x.fingerprint = rows[k].fingerprint
                             /\ GoodRow(x) /\ x.status = s
    BY <2>3 DEF GoodRow, Status, Terminal
  <2> HIDE DEF x
  <2>5. Written(k) /\ RowsStay /\ RowInv' /\ (k \in DOMAIN rows => rows'[k] = x)
    BY <2>2, <2>4, UpdateWrites
  <2> QED
    BY <1>1, <2>4, <2>5 DEF IsTerminal, Terminal
<1> QED
  BY <1>2, <1>3

--------------------------------------------------------------------------------
(* What a request is told.                                                 *)

\* The newest of the active duplicates is one of them.
LEMMA NewestIsOne ==
  ASSUME RowsInv, NEW r, ActiveDuplicates(r) # {}
  PROVE  Max(ActiveDuplicates(r)) \in ActiveDuplicates(r)
<1>1. PICK n, E : n = Len(rows) /\ E = ActiveDuplicates(r)
  OBVIOUS
<1>2. n \in Nat /\ E \subseteq 1 .. n
  BY <1>1 DEF RowsInv, ActiveDuplicates
<1> DEFINE D == {d \in Nat : \E i \in E : d = n - i}
<1>3. PICK e \in E : TRUE
  BY <1>1
<1>4. \A i \in E : i \in Nat /\ n - i \in Nat
  BY <1>2
<1>5. D \subseteq Nat /\ n - e \in D
  BY <1>3, <1>4
<1>6. PICK d \in D : \A x \in D : <<x, d>> \notin OpToRel(<, Nat)
  BY <1>5, NatLessThanWellFounded, WFMin
<1>7. PICK i \in E : d = n - i
  BY <1>6
<1>8. ASSUME NEW k \in E
      PROVE  i >= k
  <2>1. n - k \in D
    BY <1>4, <1>8
  <2>2. n - k \in Nat /\ n - i \in Nat /\ k \in Nat /\ i \in Nat
    BY <1>4, <1>7, <1>8
  <2>3. ~(n - k < n - i)
    BY <1>6, <1>7, <2>1, <2>2 DEF OpToRel
  <2> QED
    BY <1>2, <2>2, <2>3
<1>9. \E m \in ActiveDuplicates(r) : \A k \in ActiveDuplicates(r) : m >= k
  BY <1>1, <1>7, <1>8
<1> QED
  BY <1>9 DEF Max

\* Which words are not among them.
LEMMA Words ==
  /\ \A a \in {"none", "error", "notfound", "invalid", "limited", "broken"} : a \notin Told
  /\ \A l \in {"idle", "lookup", "insert", "retry", "clarify", "parent", "done"} :
       l \notin Working
BY DEF Told, Working, Status

\* A step of one request preserves ReqInv when it does for that request.
LEMMA ReqKeeps ==
  ASSUME ReqInv, RowsStay, NEW r \in Request, NEW l, NEW o, NEW i, NEW a, Becomes(r, l, o, i, a),
         l # "done" => a = "none",
         l \in {"parent", "copy", "regeneration", "submit"} => o = "regenerate",
         l \in Working \/ a \in Told => Own(r, i)',
         l = "retry" => KeyTaken(r)'
  PROVE  ReqInv'
<1>1. \A s \in Request, k \in DOMAIN rows : Own(s, k) => Own(s, k)'
  BY DEF Own, RowsStay
<1>2. ASSUME NEW s \in Request \ {r}
      PROVE  /\ req'[s].pc # "done" => req'[s].answer = "none"
             /\ req'[s].pc \in {"parent", "copy", "regeneration", "submit"}
                  => req'[s].op = "regenerate"
             /\ req'[s].pc \in Working => Own(s, req[s].id)'
             /\ req'[s].answer \in Told => Own(s, req[s].id)'
             /\ req'[s].pc = "retry" => KeyTaken(s)'
  <2>1. req'[s] = req[s] /\ FingerprintOf(s)' = FingerprintOf(s)
    BY <1>2 DEF Becomes, FingerprintOf, MakeRequestFingerprint
  <2>2. KeyTaken(s) => KeyTaken(s)'
    BY <2>1 DEF KeyTaken, RowsStay
  <2>3. Own(s, req[s].id) => Own(s, req[s].id)'
    BY <2>1 DEF Own, RowsStay
  <2> QED
    BY <2>1, <2>2, <2>3 DEF ReqInv
<1>3. /\ req'[r].pc # "done" => req'[r].answer = "none"
      /\ req'[r].pc \in {"parent", "copy", "regeneration", "submit"} => req'[r].op = "regenerate"
      /\ req'[r].pc \in Working => Own(r, req[r].id)'
      /\ req'[r].answer \in Told => Own(r, req[r].id)'
      /\ req'[r].pc = "retry" => KeyTaken(r)'
  BY DEF Becomes, Own
<1> QED
  BY <1>2, <1>3 DEF ReqInv

\* Looking a duplicate up, reusing it, or running into its key.
LEMMA ReqLookup ==
  ASSUME Shaped, RowsInv, RowInv, ReqInv, NEW r \in Request,
         LookupActive(r) \/ InsertConflict(r) \/ RetryLookup(r)
  PROVE  Shaped' /\ ReqInv'
<1>1. rows' = rows /\ RowsStay /\ req[r].answer = "none"
  BY DEF LookupActive, InsertConflict, RetryLookup, RowsStay, ReqInv
<1>2. CASE ActiveDuplicates(r) # {} /\ Reuse(r)
  <2>1. PICK l, i : /\ l \in {"fetch", "reset"} /\ i = Max(ActiveDuplicates(r))
                    /\ GotoWith(r, l, i)
    BY <1>2 DEF Reuse
  <2>2. Becomes(r, l, req[r].op, i, req[r].answer) /\ Shaped'
    BY <2>1, GotoBecomes
  <2>3. i \in DOMAIN rows /\ rows[i].teacher = TeacherOf[r]
    BY <1>2, <2>1, NewestIsOne DEF ActiveDuplicates
  <2>4. Own(r, i)'
    BY <1>1, <2>3 DEF Own
  <2> QED
    BY <1>1, <2>1, <2>2, <2>4, ReqKeeps, Words
<1>3. CASE Goto(r, "insert")
  <2>1. Becomes(r, "insert", req[r].op, req[r].id, req[r].answer) /\ Shaped'
    BY <1>3, GotoBecomes
  <2> QED
    BY <1>1, <2>1, ReqKeeps, Words
<1>4. CASE InsertConflict(r)
  <2>1. /\ Becomes(r, "retry", req[r].op, req[r].id, req[r].answer) /\ Shaped'
        /\ SameInput(r)
    BY <1>4, GotoBecomes DEF InsertConflict
  <2>2. FingerprintOf(r)' = FingerprintOf(r)
    BY <2>1 DEF SameInput, FingerprintOf, MakeRequestFingerprint
  <2>3. KeyTaken(r)'
    BY <1>1, <1>4, <2>2 DEF InsertConflict, KeyTaken
  <2> QED
    BY <1>1, <2>1, <2>3, ReqKeeps, Words
<1>5. CASE Answer(r, "error")
  <2>1. Becomes(r, "done", req[r].op, req[r].id, "error") /\ Shaped'
    BY <1>5, AnswerBecomes
  <2> QED
    BY <1>1, <2>1, ReqKeeps, Words
<1> QED
  BY <1>2, <1>3, <1>4, <1>5 DEF LookupActive, RetryLookup

\* A request is read.
LEMMA PostBecomes ==
  ASSUME Shaped, NEW r \in Request,
         PostCreate(r) \/ PostConfirm(r) \/ PostSkipClarification(r) \/ PostRegenerate(r)
  PROVE  /\ Shaped'
         /\ \E l, o, i : /\ Becomes(r, l, o, i, req[r].answer)
                         /\ l \in {"lookup", "clarify", "parent"}
                         /\ l = "parent" => o = "regenerate"
<1>1. DOMAIN req = Request /\ \A s \in Request : DOMAIN req[s] = Parts
  BY DEF Shaped
<1>2. CASE PostCreate(r)
  <2>1. PICK p, s, t :
          req' = [req EXCEPT ![r].pc = "lookup", ![r].op = "create",
                             ![r].prompt = p, ![r].subject = s, ![r].type = t]
    BY <1>2 DEF PostCreate
  <2>2. Becomes(r, "lookup", "create", req[r].id, req[r].answer) /\ Shaped'
    BY <1>1, <2>1 DEF Becomes, Shaped, Parts
  <2> QED
    BY <2>2
<1>3. CASE PostConfirm(r)
  <2>1. PICK i \in 0 .. Len(rows), p \in Text, t \in RawType, s \in Subject :
          req' = [req EXCEPT ![r].pc = "clarify", ![r].op = "confirm", ![r].id = i,
                             ![r].prompt = <<p>>, ![r].subject = s,
                             ![r].type = NormalizePreferredOutputType(t)]
    BY <1>3 DEF PostConfirm
  <2>2. Becomes(r, "clarify", "confirm", i, req[r].answer) /\ Shaped'
    BY <1>1, <2>1 DEF Becomes, Shaped, Parts
  <2> QED
    BY <2>2
<1>4. CASE PostSkipClarification(r)
  <2>1. PICK i :
          req' = [req EXCEPT ![r].pc = "clarify", ![r].op = "skip", ![r].id = i]
    BY <1>4 DEF PostSkipClarification
  <2>2. Becomes(r, "clarify", "skip", i, req[r].answer) /\ Shaped'
    BY <1>1, <2>1 DEF Becomes, Shaped, Parts
  <2> QED
    BY <2>2
<1>5. CASE PostRegenerate(r)
  <2>1. PICK i, p :
          req' = [req EXCEPT ![r].pc = "parent", ![r].op = "regenerate",
                             ![r].id = i, ![r].prompt = p]
    BY <1>5 DEF PostRegenerate
  <2>2. Becomes(r, "parent", "regenerate", i, req[r].answer) /\ Shaped'
    BY <1>1, <2>1 DEF Becomes, Shaped, Parts
  <2> QED
    BY <2>2
<1> QED
  BY <1>2, <1>3, <1>4, <1>5

\* show and job_status.
LEMMA GetBecomes ==
  ASSUME Shaped, NEW r \in Request, GetOne(r)
  PROVE  /\ Shaped'
         /\ \E i, a : /\ i \in DOMAIN rows
                      /\ Becomes(r, "done", "show", i, a)
                      /\ a = IF Own(r, i) THEN JobStatus(i) ELSE "notfound"
<1>1. PICK i, a :
        /\ i \in DOMAIN rows
        /\ a = IF Own(r, i) THEN JobStatus(i) ELSE "notfound"
        /\ req' = [req EXCEPT ![r].pc = "done", ![r].op = "show", ![r].id = i, ![r].answer = a]
  BY DEF GetOne
<1>2. Becomes(r, "done", "show", i, a) /\ Shaped'
  BY <1>1 DEF Becomes, Shaped, Parts
<1> QED
  BY <1>1, <1>2

\* A request arrives.
LEMMA ReqArrives ==
  ASSUME Shaped, ReqInv, NEW r \in Request, Arrive(r)
  PROVE  Shaped' /\ ReqInv'
<1>1. rows' = rows /\ RowsStay /\ req[r].pc = "idle" /\ req[r].answer = "none"
  BY DEF Arrive, PostCreate, RateLimited, PostConfirm, PostSkipClarification,
         PostRegenerate, GetOne, RowsStay, ReqInv
<1>2. CASE PostCreate(r) \/ PostConfirm(r) \/ PostSkipClarification(r) \/ PostRegenerate(r)
  <2>1. PICK l, o, i : /\ Becomes(r, l, o, i, "none") /\ Shaped'
                       /\ l \in {"lookup", "clarify", "parent"}
                       /\ l = "parent" => o = "regenerate"
    BY <1>1, <1>2, PostBecomes
  <2> QED
    BY <1>1, <2>1, ReqKeeps, Words
<1>3. CASE RateLimited(r)
  <2>1. Becomes(r, "done", req[r].op, req[r].id, "limited") /\ Shaped'
    BY <1>3, AnswerBecomes DEF RateLimited
  <2> QED
    BY <1>1, <2>1, ReqKeeps, Words
<1>4. CASE GetOne(r)
  <2>1. PICK i, a : /\ Becomes(r, "done", "show", i, a) /\ Shaped'
                    /\ a = IF Own(r, i) THEN JobStatus(i) ELSE "notfound"
    BY <1>4, GetBecomes
  <2>2. a \in Told => Own(r, i)'
    BY <1>1, <2>1, Words DEF Own
  <2> QED
    BY <1>1, <2>1, <2>2, ReqKeeps, Words
<1> QED
  BY <1>2, <1>3, <1>4 DEF Arrive

\* Every step of a request is its own.
LEMMA StepBecomes ==
  ASSUME Shaped, NEW r \in Request, Arrive(r) \/ RequestStep(r)
  PROVE  \E l, o, i, a : Becomes(r, l, o, i, a)
<1>1. (\E l, i : Goto(r, l) \/ GotoWith(r, l, i)) => \E l, o, i, a : Becomes(r, l, o, i, a)
  BY GotoBecomes
<1>2. (\E a : Answer(r, a)) => \E l, o, i, a : Becomes(r, l, o, i, a)
  BY AnswerBecomes
<1>3. ASSUME NEW l, NEW p, req' = [req EXCEPT ![r].pc = l, ![r].prompt = p]
      PROVE  Becomes(r, l, req[r].op, req[r].id, req[r].answer)
  BY <1>3 DEF Becomes, Shaped, Parts
<1>4. CopyParent(r) => Becomes(r, "regeneration", req[r].op, req[r].id, req[r].answer)
  BY DEF CopyParent, Becomes, Shaped, Parts
<1>5. Arrive(r) => \E l, o, i, a : Becomes(r, l, o, i, a)
  BY <1>2, PostBecomes, GetBecomes DEF Arrive, RateLimited
<1>6. LookupActive(r) \/ InsertRow(r) \/ InsertConflict(r) \/ RetryLookup(r) \/ FetchExisting(r)
        => \E l, o, i, a : Becomes(r, l, o, i, a)
  BY <1>1, <1>2 DEF LookupActive, InsertRow, InsertConflict, RetryLookup, FetchExisting, Reuse,
                    GotoWith
<1>7. TestConfirm(r) \/ TestSkip(r) \/ ResetRow(r) \/ SaveClarification(r)
        => \E l, o, i, a : Becomes(r, l, o, i, a)
  BY <1>1, <1>2, <1>3 DEF TestConfirm, TestSkip, ResetRow, SaveClarification
<1>8. MarkPending(r) \/ MarkFails(r) \/ EnqueueCreated(r) \/ EnqueueConfirmed(r)
           \/ EnqueueSkipped(r)
        => \E l, o, i, a : Becomes(r, l, o, i, a)
  BY <1>1, <1>2 DEF MarkPending, MarkFails, EnqueueCreated, EnqueueConfirmed, EnqueueSkipped,
                    Enqueue
<1>9. ReadParent(r) \/ InsertRegeneration(r) \/ SubmitRegeneration(r)
        => \E l, o, i, a : Becomes(r, l, o, i, a)
  BY <1>1, <1>2 DEF ReadParent, InsertRegeneration, SubmitRegeneration, GotoWith
<1> QED
  BY <1>4, <1>5, <1>6, <1>7, <1>8, <1>9 DEF RequestStep

\* The handlers that write no row.
LEMMA ReqTests ==
  ASSUME Shaped, ReqInv, NEW r \in Request,
         \/ FetchExisting(r) \/ TestConfirm(r) \/ TestSkip(r) \/ MarkFails(r)
         \/ EnqueueCreated(r) \/ EnqueueConfirmed(r) \/ EnqueueSkipped(r)
         \/ ReadParent(r) \/ CopyParent(r) \/ SubmitRegeneration(r)
  PROVE  Shaped' /\ ReqInv'
<1>1. rows' = rows /\ RowsStay /\ req[r].pc # "done" /\ req[r].answer = "none"
  BY DEF FetchExisting, TestConfirm, TestSkip, MarkFails, EnqueueCreated, EnqueueConfirmed,
         EnqueueSkipped, Enqueue, ReadParent, CopyParent, SubmitRegeneration, RowsStay, ReqInv
<1>2. PICK k : k = req[r].id
  OBVIOUS
<1>3. /\ Own(r, k) => Own(r, k)'
      /\ req[r].pc \in Working => Own(r, k)
      /\ req[r].pc \in {"parent", "copy", "regeneration", "submit"} => req[r].op = "regenerate"
  BY <1>1, <1>2 DEF Own, ReqInv
<1>4. ASSUME NEW a, Answer(r, a), a \in Told => Own(r, k)
      PROVE  Shaped' /\ ReqInv'
  <2>1. Becomes(r, "done", req[r].op, k, a) /\ Shaped'
    BY <1>2, <1>4, AnswerBecomes
  <2> QED
    BY <1>1, <1>3, <1>4, <2>1, ReqKeeps, Words
<1>5. ASSUME NEW l, Becomes(r, l, req[r].op, k, "none"), Shaped', l \notin {"done", "retry"},
             l \in {"parent", "copy", "regeneration", "submit"} => req[r].op = "regenerate",
             l \in Working => Own(r, k)
      PROVE  Shaped' /\ ReqInv'
  BY <1>1, <1>3, <1>5, ReqKeeps, Words
<1>6. ASSUME NEW l, Goto(r, l), l \notin {"done", "retry"},
             l \in {"parent", "copy", "regeneration", "submit"} => req[r].op = "regenerate",
             l \in Working => Own(r, k)
      PROVE  Shaped' /\ ReqInv'
  <2>1. Becomes(r, l, req[r].op, k, "none") /\ Shaped'
    BY <1>1, <1>2, <1>6, GotoBecomes
  <2> QED
    BY <1>5, <1>6, <2>1
<1>7. req[r].pc \in {"fetch", "mark", "enqueue", "copy", "submit"} => Own(r, k)
  BY <1>3 DEF Working
<1>8. CASE FetchExisting(r)
  BY <1>2, <1>4, <1>7, <1>8 DEF FetchExisting
<1>9. CASE TestConfirm(r)
  BY <1>2, <1>4, <1>6, <1>9, Words DEF TestConfirm
<1>10. CASE TestSkip(r)
  <2>1. CASE Own(r, k) /\ req' = [req EXCEPT ![r].pc = "reset",
                                             ![r].prompt = EnrichPrompt(rows[k].prompt)]
    <3>1. Becomes(r, "reset", req[r].op, k, "none") /\ Shaped'
      BY <1>1, <1>2, <2>1 DEF Becomes, Shaped, Parts
    <3> QED
      BY <1>5, <2>1, <3>1
  <2> QED
    BY <1>2, <1>4, <1>10, <2>1, Words DEF TestSkip
<1>11. CASE MarkFails(r)
  BY <1>3, <1>4, <1>6, <1>7, <1>11, Words DEF MarkFails
<1>12. CASE EnqueueCreated(r) \/ EnqueueConfirmed(r) \/ EnqueueSkipped(r)
  BY <1>4, <1>7, <1>12 DEF EnqueueCreated, EnqueueConfirmed, EnqueueSkipped, Enqueue
<1>13. CASE ReadParent(r)
  BY <1>2, <1>3, <1>4, <1>6, <1>13, Words DEF ReadParent
<1>14. CASE CopyParent(r)
  <2>1. Becomes(r, "regeneration", req[r].op, k, "none") /\ Shaped'
    BY <1>1, <1>2, <1>14 DEF CopyParent, Becomes, Shaped, Parts
  <2> QED
    BY <1>3, <1>5, <1>7, <1>14, <2>1 DEF CopyParent
<1>15. CASE SubmitRegeneration(r)
  BY <1>4, <1>7, <1>15 DEF SubmitRegeneration
<1> QED
  BY <1>8, <1>9, <1>10, <1>11, <1>12, <1>13, <1>14, <1>15

\* The handlers that write a row.
LEMMA ReqWrites ==
  ASSUME Shaped, RowsInv, RowInv, ReqInv, NEW r \in Request,
         \/ InsertRow(r) \/ InsertRegeneration(r)
         \/ ResetRow(r) \/ SaveClarification(r) \/ MarkPending(r)
  PROVE  Shaped' /\ ReqInv' /\ RowInv'
<1>1. req[r].pc # "done" /\ req[r].answer = "none"
  BY DEF InsertRow, InsertRegeneration, ResetRow, SaveClarification, MarkPending, ReqInv
<1>2. CASE ResetRow(r) \/ SaveClarification(r) \/ MarkPending(r)
  <2>1. PICK k, l : /\ k = req[r].id /\ Goto(r, l)
                    /\ l \in {"clarification", "mark", "submit", "enqueue"}
                    /\ l = "submit" => req[r].op = "regenerate"
    BY <1>2 DEF ResetRow, SaveClarification, MarkPending
  <2>2. Becomes(r, l, req[r].op, k, "none") /\ Shaped'
    BY <1>1, <2>1, GotoBecomes
  <2>3. RowsStay /\ RowInv'
    BY <1>2, HandlersWrite
  <2>4. Own(r, k)
    BY <1>2, <2>1 DEF ResetRow, SaveClarification, MarkPending, ReqInv, Working
  <2>5. Own(r, k)'
    BY <2>3, <2>4 DEF Own, RowsStay
  <2> QED
    BY <2>1, <2>2, <2>3, <2>5, ReqKeeps
<1>3. CASE InsertRow(r) \/ (InsertRegeneration(r) /\ ~KeyTaken(r))
  <2>1. PICK i, l, f : /\ i = Len(rows) + 1 /\ l \in {"mark", "reset"}
                       /\ req' = [req EXCEPT ![r].pc = l, ![r].id = i]
                       /\ rows' = Append(rows, Row(r, f))
    BY <1>3 DEF InsertRow, InsertRegeneration
  <2>2. Becomes(r, l, req[r].op, i, "none") /\ Shaped'
    BY <1>1, <2>1 DEF Becomes, Shaped, Parts
  <2>3. Inserted(r, f) /\ RowsStay /\ RowInv'
    BY <2>1, InsertAdds
  <2>4. Own(r, i)'
    BY <2>1, <2>3 DEF Own, Inserted
  <2> QED
    BY <2>1, <2>2, <2>3, <2>4, ReqKeeps
<1>4. CASE InsertRegeneration(r) /\ KeyTaken(r)
  <2>1. rows' = rows /\ RowsStay /\ Answer(r, "error")
    BY <1>4 DEF InsertRegeneration, RowsStay
  <2>2. Becomes(r, "done", req[r].op, req[r].id, "error") /\ Shaped'
    BY <2>1, AnswerBecomes
  <2>3. RowInv'
    BY <2>1 DEF RowInv
  <2> QED
    BY <2>1, <2>2, <2>3, ReqKeeps, Words
<1> QED
  BY <1>2, <1>3, <1>4

SubInv == KeyInv /\ Shaped /\ RowInv /\ ReqInv

\* Every step preserves SubInv.
LEMMA SubInvNext == SubInv /\ [Next]_vars => SubInv'
<1> SUFFICES ASSUME SubInv, [Next]_vars
             PROVE  SubInv'
  OBVIOUS
<1>1. KeyInv /\ RowsInv /\ Shaped /\ RowInv /\ ReqInv
  BY DEF SubInv, KeyInv
<1>2. rows' = rows => RowInv' /\ RowsStay
  BY <1>1 DEF RowInv, RowsStay
<1>3. ASSUME NEW r \in Request, Arrive(r)
      PROVE  SubInv'
  <2>1. rows' = rows
    BY <1>3 DEF Arrive, PostCreate, RateLimited, PostConfirm, PostSkipClarification,
                PostRegenerate, GetOne
  <2> QED
    BY <1>1, <1>2, <1>3, <2>1, SameKeeps, ReqArrives DEF SubInv
<1>4. ASSUME NEW r \in Request, RequestStep(r)
      PROVE  SubInv'
  <2>1. KeyInv'
    BY <1>1, <1>4, RequestKeeps
  <2>2. CASE LookupActive(r) \/ InsertConflict(r) \/ RetryLookup(r)
    <3>1. rows' = rows
      BY <2>2 DEF LookupActive, InsertConflict, RetryLookup
    <3> QED
      BY <1>1, <1>2, <2>1, <2>2, <3>1, ReqLookup DEF SubInv
  <2>3. CASE \/ FetchExisting(r) \/ TestConfirm(r) \/ TestSkip(r) \/ MarkFails(r)
             \/ EnqueueCreated(r) \/ EnqueueConfirmed(r) \/ EnqueueSkipped(r)
             \/ ReadParent(r) \/ CopyParent(r) \/ SubmitRegeneration(r)
    <3>1. rows' = rows
      BY <2>3 DEF FetchExisting, TestConfirm, TestSkip, MarkFails, EnqueueCreated,
                  EnqueueConfirmed, EnqueueSkipped, Enqueue, ReadParent, CopyParent,
                  SubmitRegeneration
    <3> QED
      BY <1>1, <1>2, <2>1, <2>3, <3>1, ReqTests DEF SubInv
  <2>4. CASE \/ InsertRow(r) \/ InsertRegeneration(r)
             \/ ResetRow(r) \/ SaveClarification(r) \/ MarkPending(r)
    BY <1>1, <2>1, <2>4, ReqWrites DEF SubInv
  <2> QED
    BY <1>4, <2>2, <2>3, <2>4 DEF RequestStep
<1>5. ASSUME NEW q \in queue, WorkerRuns(q)
      PROVE  SubInv'
  <2>1. RowsStay /\ RowInv' /\ KeyInv' /\ req' = req
    BY <1>1, <1>5, WorkerWrites, WorkerKeeps DEF WorkerRuns
  <2>2. Shaped'
    BY <1>1, <2>1 DEF Shaped
  <2>3. \A s \in Request : /\ Own(s, req[s].id) => Own(s, req[s].id)'
                           /\ KeyTaken(s) => KeyTaken(s)'
    BY <2>1 DEF Own, KeyTaken, RowsStay, FingerprintOf, MakeRequestFingerprint
  <2>4. ReqInv'
    BY <1>1, <2>1, <2>3 DEF ReqInv
  <2> QED
    BY <2>1, <2>2, <2>4 DEF SubInv
<1>6. CASE UNCHANGED vars
  <2>1. rows' = rows /\ req' = req
    BY <1>6 DEF vars
  <2>2. Shaped' /\ RowInv' /\ KeyInv'
    BY <1>1, <1>2, <2>1, SameKeeps DEF Shaped
  <2>3. ReqInv'
    BY <1>1, <2>1 DEF ReqInv, Own, KeyTaken, FingerprintOf, MakeRequestFingerprint
  <2> QED
    BY <2>2, <2>3 DEF SubInv
<1> QED
  BY <1>3, <1>4, <1>5, <1>6 DEF Next

\* SubInv holds in every reachable state.
LEMMA SubInvHolds == Spec => []SubInv
<1>1. Init => SubInv
  <2> SUFFICES ASSUME Init
               PROVE  SubInv
    OBVIOUS
  <2>1. KeyInv /\ RowInv
    BY DEF Init, KeyInv, RowsInv, KeysAreUnique, RowInv
  <2>2. Shaped
    BY DEF Init, Shaped, Parts
  <2>3. \A r \in Request : req[r].pc = "idle" /\ req[r].answer = "none"
    BY DEF Init
  <2>4. ReqInv
    BY <2>3, Words DEF ReqInv
  <2> QED
    BY <2>1, <2>2, <2>4 DEF SubInv
<1> QED
  BY <1>1, SubInvNext, PTL DEF Spec

\* create and confirm answer with a conflict only when the generation that holds the
\* key has ended, for any number of requests and rows: a request at its second lookup
\* has met the key, the key names the teacher, so the lookup finds the row if it is active.
THEOREM ConflictsAreOver == Spec => ConflictOnlyAfterEnd
<1> DEFINE Conflict(r) == req[r].answer # "error" /\ req'[r].answer = "error"
                            /\ req[r].op # "regenerate"
           Over(r) == \E i \in DOMAIN rows : /\ rows[i].fingerprint = FingerprintOf(r)
                                             /\ IsTerminal(rows[i].status)
<1>1. ASSUME SubInv, [Next]_vars, NEW r \in Request, Conflict(r)
      PROVE  Over(r)
  <2>1. RowsInv /\ Shaped /\ RowInv /\ ReqInv
    BY <1>1 DEF SubInv, KeyInv
  <2>2. ASSUME NEW s \in Request \ {r}, Arrive(s) \/ RequestStep(s)
        PROVE  req'[r] = req[r]
    BY <2>1, <2>2, StepBecomes DEF Becomes
  <2>3. ASSUME NEW a, Answer(r, a)
        PROVE  a = "error"
    BY <1>1, <2>1, <2>3, AnswerBecomes DEF Becomes
  <2>4. ~(\E l : Goto(r, l)) /\ ~(\E l, i : GotoWith(r, l, i))
    BY <1>1, <2>1, GotoBecomes DEF Becomes
  <2>5. CASE RetryLookup(r)
    <3>1. ActiveDuplicates(r) = {} /\ req[r].pc = "retry"
      BY <2>4, <2>5 DEF RetryLookup, Reuse
    <3>2. PICK i \in DOMAIN rows : rows[i].fingerprint = FingerprintOf(r)
      BY <2>1, <3>1 DEF ReqInv, KeyTaken
    <3>3. rows[i].teacher = TeacherOf[r]
      BY <2>1, <3>2 DEF RowInv, GoodRow, FingerprintOf, MakeRequestFingerprint
    <3> QED
      BY <3>1, <3>2, <3>3 DEF ActiveDuplicates
  <2>6. ~FetchExisting(r)
    BY <2>1, <2>3 DEF FetchExisting, ReqInv, Working
  <2>7. ~(TestConfirm(r) \/ TestSkip(r) \/ MarkFails(r) \/ EnqueueCreated(r)
           \/ EnqueueConfirmed(r) \/ EnqueueSkipped(r) \/ ReadParent(r) \/ CopyParent(r)
           \/ SubmitRegeneration(r) \/ InsertRegeneration(r))
    <3>1. ~TestConfirm(r) /\ ~MarkFails(r) /\ ~ReadParent(r) /\ ~SubmitRegeneration(r)
      BY <2>3, <2>4 DEF TestConfirm, MarkFails, ReadParent, SubmitRegeneration
    <3>2. ~EnqueueCreated(r) /\ ~EnqueueConfirmed(r) /\ ~EnqueueSkipped(r)
      BY <2>3 DEF EnqueueCreated, EnqueueConfirmed, EnqueueSkipped, Enqueue
    <3>3. ~CopyParent(r) /\ ~InsertRegeneration(r)
      BY <1>1, <2>1 DEF CopyParent, InsertRegeneration, ReqInv
    <3>4. ASSUME NEW p
          PROVE  req' # [req EXCEPT ![r].pc = "reset", ![r].prompt = p]
      BY <1>1, <2>1 DEF Shaped, Parts
    <3>5. ~TestSkip(r)
      BY <2>3, <3>4 DEF TestSkip
    <3> QED
      BY <3>1, <3>2, <3>3, <3>5
  <2>8. ~(LookupActive(r) \/ InsertConflict(r) \/ InsertRow(r) \/ ResetRow(r)
           \/ SaveClarification(r) \/ MarkPending(r))
    BY <1>1, <2>1, <2>4 DEF LookupActive, Reuse, InsertConflict, InsertRow, ResetRow,
       SaveClarification, MarkPending, Shaped, Parts
  <2>9. ~Arrive(r)
    <3>1. \A i \in DOMAIN rows : JobStatus(i) # "error"
      BY <2>1 DEF RowInv, GoodRow, JobStatus, Status, Terminal
    <3>2. ~GetOne(r)
      BY <1>1, <2>1, <3>1, GetBecomes DEF Becomes
    <3>3. ~RateLimited(r)
      BY <2>3 DEF RateLimited
    <3>4. ~(PostCreate(r) \/ PostConfirm(r) \/ PostSkipClarification(r) \/ PostRegenerate(r))
      BY <1>1, <2>1, PostBecomes DEF Becomes
    <3> QED
      BY <3>2, <3>3, <3>4 DEF Arrive
  <2>10. req'[r] # req[r]
    BY <1>1
  <2> QED
    BY <1>1, <2>2, <2>5, <2>6, <2>7, <2>8, <2>9, <2>10 DEF Next, RequestStep, WorkerRuns, vars
<1>2. SubInv /\ [Next]_vars
        => [\A r \in Request :
              (req[r].answer # "error" /\ req'[r].answer = "error" /\ req[r].op # "regenerate")
              => \E i \in DOMAIN rows : /\ rows[i].fingerprint = FingerprintOf(r)
                                        /\ IsTerminal(rows[i].status)]_vars
  BY <1>1
<1> QED
  BY <1>2, SubInvHolds, PTL DEF Spec, ConflictOnlyAfterEnd

\* What a request answers is about a row of its own teacher, for any number of teachers
\* and requests, reused, reset or regenerated: every handler has read the row under its
\* teacher's name, or inserted it, before it works on it, and rows do not change hands.
THEOREM OwnAnswers == Spec => []AnswersAreOwn
<1>1. SubInv => AnswersAreOwn
  BY DEF SubInv, ReqInv, AnswersAreOwn, Own
<1> QED
  BY <1>1, SubInvHolds, PTL

--------------------------------------------------------------------------------
(* Every active row has a job, or a request that gave up.                  *)

\* On the way to queue a job.
Bound == {"reset", "clarification", "mark", "enqueue", "submit"}

\* What a request leaves when it is no longer on its way.
Leaves(l, o, k, a) ==
  \/ l \in Bound
  \/ a \in {"broken", "accepted, not queued"}
  \/ a = "accepted" /\ o = "regenerate"
  \/ \E q \in queue' : q[1] = k

\* A step of a request leaves no active row alone.
LEMMA RunnerKeeps ==
  ASSUME ReqInv, ActiveRowHasARunner, NEW r \in Request, req[r].pc # "done",
         NEW l, NEW o, NEW k, NEW a, Becomes(r, l, o, k, a), queue \subseteq queue',
         req[r].pc \in Bound => k = req[r].id /\ Leaves(l, o, k, a),
         \A i \in DOMAIN rows' : ~IsTerminal(rows'[i].status)
           => \/ i \in DOMAIN rows /\ ~IsTerminal(rows[i].status)
              \/ i = k /\ l \in Bound
  PROVE  ActiveRowHasARunner'
<1> SUFFICES ASSUME NEW i \in DOMAIN rows', ~IsTerminal(rows'[i].status)
             PROVE  HasRunner(i)' \/ GivenUp(i)'
  BY DEF ActiveRowHasARunner
<1>1. CASE i = k /\ l \in Bound
  BY <1>1 DEF HasRunner, Bound, Becomes
<1>2. CASE i \in DOMAIN rows /\ ~IsTerminal(rows[i].status)
  <2>1. HasRunner(i) \/ GivenUp(i)
    BY <1>2 DEF ActiveRowHasARunner
  <2>2. CASE \E q \in queue : q[1] = i
    BY <2>2 DEF HasRunner
  <2>3. ASSUME NEW s \in Request \ {r}, req[s].id = i, req[s].pc \in Bound
        PROVE  HasRunner(i)'
    BY <2>3 DEF HasRunner, Becomes, Bound
  <2>4. CASE req[r].id = i /\ req[r].pc \in Bound
    <3>1. i = k /\ Leaves(l, o, k, a)
      BY <2>4
    <3>2. req'[r].id = i /\ req'[r].pc = l /\ req'[r].op = o /\ req'[r].answer = a
      BY <3>1 DEF Becomes
    <3> QED
      BY <3>1, <3>2 DEF Leaves, HasRunner, GivenUp, Bound
  <2>5. req[r].answer = "none"
    BY DEF ReqInv
  <2>6. CASE GivenUp(i)
    <3>1. PICK s \in Request :
            /\ req[s].id = i
            /\ \/ req[s].answer \in {"broken", "accepted, not queued"}
               \/ req[s].answer = "accepted" /\ req[s].op = "regenerate"
      BY <2>6 DEF GivenUp
    <3>2. s # r
      BY <2>5, <3>1
    <3>3. req'[s] = req[s]
      BY <3>2 DEF Becomes
    <3> QED
      BY <3>1, <3>3 DEF GivenUp
  <2> QED
    BY <2>1, <2>2, <2>3, <2>4, <2>6 DEF HasRunner, Bound
<1> QED
  BY <1>1, <1>2

\* The handlers.
LEMMA RunnerRequest ==
  ASSUME Shaped, RowsInv, RowInv, ReqInv, ActiveRowHasARunner, NEW r \in Request,
         Arrive(r) \/ RequestStep(r)
  PROVE  ActiveRowHasARunner'
<1>1. req[r].pc # "done" /\ queue \subseteq queue'
  BY DEF Arrive, PostCreate, RateLimited, PostConfirm, PostSkipClarification,
         PostRegenerate, GetOne, RequestStep, LookupActive, InsertRow, InsertConflict,
         RetryLookup, FetchExisting, TestConfirm, TestSkip, ResetRow, SaveClarification,
         MarkPending, MarkFails, EnqueueCreated, EnqueueConfirmed, EnqueueSkipped, Enqueue,
         ReadParent, CopyParent, InsertRegeneration, SubmitRegeneration
<1>2. CASE rows' = rows /\ req[r].pc \notin Bound
  <2>1. PICK l, o, i, a : Becomes(r, l, o, i, a)
    BY StepBecomes
  <2> QED
    BY <1>1, <1>2, <2>1, RunnerKeeps
<1>3. CASE InsertRow(r) \/ (InsertRegeneration(r) /\ ~KeyTaken(r))
  <2>1. PICK i, l, f : /\ i = Len(rows) + 1 /\ l \in {"mark", "reset"}
                       /\ GotoWith(r, l, i)
                       /\ rows' = Append(rows, Row(r, f))
                       /\ req[r].pc \notin Bound
    BY <1>3 DEF InsertRow, InsertRegeneration, GotoWith, Bound
  <2>2. Becomes(r, l, req[r].op, i, req[r].answer)
    BY <2>1, GotoBecomes
  <2>3. Inserted(r, f)
    BY <2>1, InsertAdds
  <2>4. \A k \in DOMAIN rows' : ~IsTerminal(rows'[k].status)
           => \/ k \in DOMAIN rows /\ ~IsTerminal(rows[k].status)
              \/ k = i /\ l \in Bound
    BY <2>1, <2>3 DEF Inserted, Bound
  <2> QED
    BY <1>1, <2>1, <2>2, <2>4, RunnerKeeps
<1>4. CASE ResetRow(r) \/ SaveClarification(r) \/ MarkPending(r)
  <2>1. PICK k, l : k = req[r].id /\ Goto(r, l) /\ l \in Bound
    BY <1>4 DEF ResetRow, SaveClarification, MarkPending, Bound
  <2>2. Becomes(r, l, req[r].op, k, req[r].answer)
    BY <2>1, GotoBecomes
  <2>3. Written(k)
    BY <1>4, <2>1, HandlersWrite
  <2>4. \A i \in DOMAIN rows' : ~IsTerminal(rows'[i].status)
           => \/ i \in DOMAIN rows /\ ~IsTerminal(rows[i].status)
              \/ i = k /\ l \in Bound
    BY <2>1, <2>3 DEF Written
  <2>5. Leaves(l, req[r].op, k, req[r].answer)
    BY <2>1 DEF Leaves
  <2> QED
    BY <1>1, <2>1, <2>2, <2>4, <2>5, RunnerKeeps
<1>5. CASE \/ MarkFails(r) \/ SubmitRegeneration(r)
           \/ EnqueueCreated(r) \/ EnqueueConfirmed(r) \/ EnqueueSkipped(r)
  <2>1. rows' = rows
    BY <1>5 DEF MarkFails, SubmitRegeneration, EnqueueCreated, EnqueueConfirmed, EnqueueSkipped,
                Enqueue
  <2>2. PICK k, o : k = req[r].id /\ o = req[r].op
    OBVIOUS
  <2>3. \/ Goto(r, "submit")
        \/ \E a : Answer(r, a) /\ Leaves("done", o, k, a)
    <3>1. CASE MarkFails(r)
      BY <3>1 DEF MarkFails, Leaves
    <3>2. CASE SubmitRegeneration(r)
      BY <2>2, <3>2 DEF SubmitRegeneration, Leaves, ReqInv
    <3>3. CASE Enqueue(r)
      <4>1. CASE queue' = queue \cup {<<k, r>>} /\ Answer(r, "accepted")
        <5>1. <<k, r>> \in queue' /\ <<k, r>>[1] = k
          BY <4>1
        <5> QED
          BY <4>1, <5>1 DEF Leaves
      <4> QED
        BY <2>2, <3>3, <4>1 DEF Enqueue, Leaves
    <3> QED
      BY <1>5, <3>1, <3>2, <3>3 DEF EnqueueCreated, EnqueueConfirmed, EnqueueSkipped
  <2>4. CASE Goto(r, "submit")
    <3>1. Becomes(r, "submit", o, k, req[r].answer)
      BY <2>2, <2>4, GotoBecomes
    <3>2. Leaves("submit", o, k, req[r].answer)
      BY DEF Leaves, Bound
    <3> QED
      BY <1>1, <2>1, <2>2, <3>1, <3>2, RunnerKeeps
  <2>5. ASSUME NEW a, Answer(r, a), Leaves("done", o, k, a)
        PROVE  ActiveRowHasARunner'
    <3>1. Becomes(r, "done", o, k, a)
      BY <2>2, <2>5, AnswerBecomes
    <3> QED
      BY <1>1, <2>1, <2>2, <2>5, <3>1, RunnerKeeps
  <2> QED
    BY <2>3, <2>4, <2>5
<1>6. Arrive(r) => rows' = rows /\ req[r].pc \notin Bound
  BY DEF Arrive, PostCreate, RateLimited, PostConfirm, PostSkipClarification,
         PostRegenerate, GetOne, Bound
<1>7. LookupActive(r) \/ InsertConflict(r) \/ RetryLookup(r) \/ FetchExisting(r) \/ TestConfirm(r)
        \/ TestSkip(r) \/ ReadParent(r) \/ CopyParent(r) \/ (InsertRegeneration(r) /\ KeyTaken(r))
      => rows' = rows /\ req[r].pc \notin Bound
  BY DEF LookupActive, InsertConflict, RetryLookup, FetchExisting, TestConfirm, TestSkip,
         ReadParent, CopyParent, InsertRegeneration, Bound
<1> QED
  BY <1>2, <1>3, <1>4, <1>5, <1>6, <1>7 DEF RequestStep

\* A generation that has not ended has a job queued or coming, or was given up by a
\* request whose mark or enqueue failed or that regenerated, for any number of requests:
\* whoever takes a job from the stream ends its row, and a reset after that brings its own.
THEOREM RowsHaveRunners == Spec => []ActiveRowHasARunner
<1>1. Init => ActiveRowHasARunner
  BY DEF Init, ActiveRowHasARunner
<1>2. SubInv /\ ActiveRowHasARunner /\ [Next]_vars => ActiveRowHasARunner'
  <2> SUFFICES ASSUME SubInv, ActiveRowHasARunner, [Next]_vars
               PROVE  ActiveRowHasARunner'
    OBVIOUS
  <2>1. Shaped /\ RowsInv /\ RowInv /\ ReqInv
    BY DEF SubInv, KeyInv
  <2>2. ASSUME NEW q \in queue, WorkerRuns(q)
        PROVE  ActiveRowHasARunner'
    <3>1. Written(q[1]) /\ (q[1] \in DOMAIN rows => IsTerminal(rows'[q[1]].status))
      BY <2>1, <2>2, WorkerWrites
    <3>2. queue' = queue \ {q} /\ req' = req
      BY <2>2 DEF WorkerRuns
    <3>3. ASSUME NEW i \in DOMAIN rows', ~IsTerminal(rows'[i].status)
          PROVE  HasRunner(i)' \/ GivenUp(i)'
      <4>1. i \in DOMAIN rows /\ i # q[1] /\ rows'[i] = rows[i]
        BY <3>1, <3>3 DEF Written
      <4>2. HasRunner(i) \/ GivenUp(i)
        BY <3>3, <4>1 DEF ActiveRowHasARunner
      <4> QED
        BY <3>2, <4>1, <4>2 DEF HasRunner, GivenUp
    <3> QED
      BY <3>3 DEF ActiveRowHasARunner
  <2>3. CASE UNCHANGED vars
    BY <2>3 DEF vars, ActiveRowHasARunner, HasRunner, GivenUp
  <2> QED
    BY <2>1, <2>2, <2>3, RunnerRequest DEF Next
<1> QED
  BY <1>1, <1>2, SubInvHolds, PTL DEF Spec

--------------------------------------------------------------------------------
(* Parents and the bound on the table.                                     *)

\* A row's parent is an older row of the same teacher.
FromInv ==
  \A i \in DOMAIN rows :
    /\ rows[i].from \in Nat /\ rows[i].from < i
    /\ rows[i].from # 0 => rows[rows[i].from].teacher = rows[i].teacher

Bounded == Len(rows) <= MaxRows

\* The rows after a step: the same ones, or one more whose parent is none or a row
\* of its teacher.
LEMMA RowsGrow ==
  ASSUME SubInv, [Next]_vars
  PROVE  \/ DOMAIN rows' = DOMAIN rows /\ RowsStay
         \/ /\ Len(rows) < MaxRows /\ RowsStay
            /\ \E r \in Request : \E f : Inserted(r, f) /\ (f = 0 \/ Own(r, f))
<1>1. RowsInv /\ Shaped /\ RowInv /\ ReqInv
  BY DEF SubInv, KeyInv
<1>2. CASE rows' = rows
  BY <1>2 DEF RowsStay
<1>3. ASSUME NEW r \in Request, ResetRow(r) \/ SaveClarification(r) \/ MarkPending(r)
      PROVE  DOMAIN rows' = DOMAIN rows /\ RowsStay
  BY <1>1, <1>3, HandlersWrite DEF Written
<1>4. ASSUME NEW r \in Request, InsertRow(r)
      PROVE  Len(rows) < MaxRows /\ RowsStay /\ Inserted(r, 0)
  BY <1>1, <1>4, InsertAdds DEF InsertRow
<1>5. ASSUME NEW r \in Request, InsertRegeneration(r), rows' # rows
      PROVE  Len(rows) < MaxRows /\ RowsStay /\ Inserted(r, req[r].id) /\ Own(r, req[r].id)
  <2>1. /\ req[r].pc = "regeneration" /\ Len(rows) < MaxRows
        /\ rows' = Append(rows, Row(r, req[r].id))
    BY <1>5 DEF InsertRegeneration
  <2>2. Own(r, req[r].id)
    BY <1>1, <2>1 DEF ReqInv, Working
  <2> QED
    BY <1>1, <2>1, <2>2, InsertAdds
<1>6. ASSUME NEW q \in queue, WorkerRuns(q)
      PROVE  DOMAIN rows' = DOMAIN rows /\ RowsStay
  BY <1>1, <1>6, WorkerWrites DEF Written
<1>7. ASSUME NEW r \in Request,
             \/ Arrive(r) \/ LookupActive(r) \/ InsertConflict(r) \/ RetryLookup(r)
             \/ FetchExisting(r) \/ TestConfirm(r) \/ TestSkip(r) \/ MarkFails(r)
             \/ EnqueueCreated(r) \/ EnqueueConfirmed(r) \/ EnqueueSkipped(r)
             \/ ReadParent(r) \/ CopyParent(r) \/ SubmitRegeneration(r)
      PROVE  rows' = rows
  BY <1>7 DEF Arrive, PostCreate, RateLimited, PostConfirm, PostSkipClarification,
     PostRegenerate, GetOne, LookupActive, InsertConflict, RetryLookup, FetchExisting,
     TestConfirm, TestSkip, MarkFails, EnqueueCreated, EnqueueConfirmed, EnqueueSkipped,
     Enqueue, ReadParent, CopyParent, SubmitRegeneration
<1>8. ASSUME NEW r \in Request, Arrive(r) \/ RequestStep(r), rows' # rows
      PROVE  \/ ResetRow(r) \/ SaveClarification(r) \/ MarkPending(r)
             \/ InsertRow(r) \/ InsertRegeneration(r)
  BY <1>7, <1>8 DEF RequestStep
<1> QED
  BY <1>2, <1>3, <1>4, <1>5, <1>6, <1>8 DEF Next, vars

\* An interval has one length.
LEMMA OneLength ==
  ASSUME NEW m \in Nat, NEW n \in Nat, 1 .. m = 1 .. n
  PROVE  m = n
<1>1. m # 0 => m \in 1 .. n
  OBVIOUS
<1>2. n # 0 => n \in 1 .. m
  OBVIOUS
<1> QED
  BY <1>1, <1>2

LEMMA FromInvNext ==
  ASSUME SubInv, FromInv, Bounded, [Next]_vars
  PROVE  FromInv' /\ Bounded'
<1>1. /\ Len(rows) \in Nat /\ DOMAIN rows = 1 .. Len(rows)
      /\ Len(rows') \in Nat /\ DOMAIN rows' = 1 .. Len(rows')
  <2>1. SubInv'
    BY SubInvNext
  <2>2. (\E S : rows \in Seq(S)) /\ (\E S : rows' \in Seq(S))
    BY <2>1 DEF SubInv, KeyInv, RowsInv
  <2> QED
    BY <2>2
<1>2. ASSUME RowsStay, NEW i \in DOMAIN rows
      PROVE  /\ rows'[i].from \in Nat /\ rows'[i].from < i
             /\ rows'[i].from # 0 => rows'[rows'[i].from].teacher = rows'[i].teacher
  <2>1. /\ rows'[i].from = rows[i].from /\ rows'[i].teacher = rows[i].teacher
        /\ rows[i].from \in Nat /\ rows[i].from < i
    BY <1>2 DEF RowsStay, FromInv
  <2>2. rows[i].from # 0 => rows[i].from \in DOMAIN rows
    BY <1>1, <2>1
  <2> QED
    BY <1>2, <2>1, <2>2 DEF RowsStay, FromInv
<1>3. CASE DOMAIN rows' = DOMAIN rows /\ RowsStay
  <2>1. Len(rows') = Len(rows)
    BY <1>1, <1>3, OneLength
  <2> QED
    BY <1>2, <1>3, <2>1 DEF FromInv, Bounded
<1>4. ASSUME Len(rows) < MaxRows, RowsStay, NEW r \in Request, NEW f, Inserted(r, f),
             f = 0 \/ Own(r, f)
      PROVE  FromInv' /\ Bounded'
  <2> DEFINE n == Len(rows) + 1
  <2>1. /\ DOMAIN rows' = DOMAIN rows \cup {n} /\ rows'[n].teacher = TeacherOf[r]
        /\ rows'[n].from = f
    BY <1>4 DEF Inserted
  <2>2. Len(rows') = n
    <3>1. 1 .. n = 1 .. Len(rows) \cup {n} /\ n \in Nat
      BY <1>1
    <3>2. 1 .. Len(rows') = 1 .. n
      BY <1>1, <2>1, <3>1
    <3> QED
      BY <1>1, <3>1, <3>2, OneLength
  <2>3. f \in Nat /\ f < n /\ (f # 0 => rows'[f].teacher = rows'[n].teacher)
    BY <1>1, <1>4, <2>1 DEF Own, RowsStay
  <2>4. FromInv'
    BY <1>2, <1>4, <2>1, <2>3 DEF FromInv
  <2> QED
    BY <1>1, <1>4, <2>2, <2>4, SubmissionAssumption DEF Bounded
<1> QED
  BY <1>3, <1>4, RowsGrow

LEMMA FromInvHolds == Spec => [](SubInv /\ FromInv /\ Bounded)
<1>1. Init => FromInv /\ Bounded
  BY SubmissionAssumption DEF Init, FromInv, Bounded
<1>2. SubInv /\ FromInv /\ Bounded /\ [Next]_vars => FromInv' /\ Bounded'
  BY FromInvNext
<1> QED
  BY <1>1, <1>2, SubInvHolds, PTL DEF Spec

--------------------------------------------------------------------------------
(* Lists.                                                                  *)

\* before[i] holds the elements that come before i in a strict total order.
Orders(S, before) ==
  /\ before \in [S -> SUBSET S]
  /\ \A i \in S : i \notin before[i]
  /\ \A i, j \in S : i \in before[j] => before[i] \subseteq before[j]
  /\ \A i, j \in S : i # j => i \in before[j] \/ j \in before[i]

\* In a finite, totally ordered set every place is taken, and by one element.
LEMMA Places ==
  ASSUME NEW S, IsFiniteSet(S), NEW before, Orders(S, before)
  PROVE  /\ Cardinality(S) \in Nat
         /\ \A i \in S : Cardinality(before[i]) \in 0 .. Cardinality(S) - 1
         /\ \A i, j \in S : i \in before[j] => Cardinality(before[i]) < Cardinality(before[j])
         /\ \A k \in 0 .. Cardinality(S) - 1 : \E i \in S : Cardinality(before[i]) = k
<1> DEFINE n == Cardinality(S)
           place == [i \in S |-> Cardinality(before[i])]
<1>1. n \in Nat
  BY FS_CardinalityType
<1>2. ASSUME NEW T, IsFiniteSet(T), NEW P \in SUBSET T, NEW x \in T, x \notin P
      PROVE  /\ Cardinality(P) \in Nat /\ Cardinality(T) \in Nat
             /\ Cardinality(P) < Cardinality(T)
  <2>1. IsFiniteSet(P) /\ Cardinality(P) <= Cardinality(T) /\ Cardinality(P) # Cardinality(T)
    BY <1>2, FS_Subset
  <2>2. Cardinality(P) \in Nat /\ Cardinality(T) \in Nat
    BY <1>2, <2>1, FS_CardinalityType
  <2> QED
    BY <2>1, <2>2
<1>3. \A i \in S : IsFiniteSet(before[i]) /\ before[i] \in SUBSET S /\ i \notin before[i]
  BY FS_Subset DEF Orders
<1>4. \A i \in S : Cardinality(before[i]) \in 0 .. n - 1
  BY <1>1, <1>2, <1>3
<1>5. ASSUME NEW i \in S, NEW j \in S, i \in before[j]
      PROVE  Cardinality(before[i]) < Cardinality(before[j])
  <2>1. before[i] \in SUBSET before[j] /\ i \notin before[i] /\ IsFiniteSet(before[j])
    BY <1>3, <1>5 DEF Orders
  <2> QED
    BY <1>2, <1>5, <2>1
<1>6. \A i, j \in S : i # j => place[i] # place[j]
  BY <1>4, <1>5 DEF Orders
<1>7. place \in Injection(S, 0 .. n - 1)
  <2>1. place \in [S -> 0 .. n - 1]
    BY <1>4
  <2> HIDE DEF place
  <2> QED
    BY <1>6, <2>1 DEF Injection, IsInjective
<1>8. IsFiniteSet(0 .. n - 1) /\ Cardinality(0 .. n - 1) = n
  <2>1. /\ IsFiniteSet(0 .. n - 1)
        /\ Cardinality(0 .. n - 1) = IF 0 > n - 1 THEN 0 ELSE n - 1 - 0 + 1
    <3>1. 0 \in Int /\ n - 1 \in Int
      BY <1>1
    <3> HIDE DEF n
    <3> QED
      BY <3>1, FS_Interval
  <2> QED
    BY <1>1, <2>1
<1>9. place \in Surjection(S, 0 .. n - 1)
  <2> HIDE DEF place
  <2>1. Cardinality(S) = Cardinality(0 .. n - 1)
    BY <1>8
  <2> QED
    BY <1>7, <1>8, <2>1, FS_Injection
<1>10. \A k \in 0 .. n - 1 : \E i \in S : place[i] = k
  <2> HIDE DEF place
  <2> QED
    BY <1>9 DEF Surjection
<1> QED
  BY <1>1, <1>4, <1>5, <1>10

\* The rows are numbered, and there are finitely many.
LEMMA RowsAre ==
  ASSUME SubInv
  PROVE  /\ Len(rows) \in Nat /\ DOMAIN rows = 1 .. Len(rows)
         /\ IsFiniteSet(DOMAIN rows) /\ Cardinality(DOMAIN rows) = Len(rows)
<1>1. \E S : rows \in Seq(S)
  BY DEF SubInv, KeyInv, RowsInv
<1>2. Len(rows) \in Nat /\ DOMAIN rows = 1 .. Len(rows)
  BY <1>1
<1>3. /\ IsFiniteSet(1 .. Len(rows))
      /\ Cardinality(1 .. Len(rows)) = IF 1 > Len(rows) THEN 0 ELSE Len(rows) - 1 + 1
  <2>1. 1 \in Int /\ Len(rows) \in Int
    BY <1>2
  <2> QED
    BY <2>1, FS_Interval
<1> QED
  BY <1>2, <1>3

Mine(t) == {i \in DOMAIN rows : rows[i].teacher = t}

\* How many of the teacher's rows are newer.
Newer(t, i) == Cardinality({j \in Mine(t) : j > i})

\* A list of rows, newest first and cut at a limit: element k has k - 1 newer ones.
LEMMA NewestFirst ==
  ASSUME SubInv, NEW t, NEW limit \in Nat
  PROVE  /\ Cardinality(Mine(t)) \in Nat /\ Cardinality(Mine(t)) <= Len(rows)
         /\ Len(FindRecentForTeacher(t, limit)) \in Nat
         /\ DOMAIN FindRecentForTeacher(t, limit) = 1 .. Len(FindRecentForTeacher(t, limit))
         /\ Len(FindRecentForTeacher(t, limit))
              = IF Cardinality(Mine(t)) < limit THEN Cardinality(Mine(t)) ELSE limit
         /\ \A k \in DOMAIN FindRecentForTeacher(t, limit) :
              /\ FindRecentForTeacher(t, limit)[k] \in Mine(t)
              /\ Newer(t, FindRecentForTeacher(t, limit)[k]) = k - 1
         /\ \A i \in Mine(t) : Newer(t, i) \in 0 .. Cardinality(Mine(t)) - 1
         /\ \A i, j \in Mine(t) : i > j <=> Newer(t, i) < Newer(t, j)
<1> DEFINE mine == {i \in DOMAIN rows : rows[i].teacher = t}
           list == FindRecentForTeacher(t, limit)
           newer(i) == Cardinality({j \in mine : j > i})
           before == [i \in mine |-> {j \in mine : j > i}]
           n == IF Cardinality(mine) < limit THEN Cardinality(mine) ELSE limit
<1>1. mine \in SUBSET DOMAIN rows /\ \A i \in mine : i \in Nat
  BY RowsAre
<1>2. IsFiniteSet(mine) /\ Cardinality(mine) <= Len(rows)
  BY <1>1, RowsAre, FS_Subset
<1>3. list = [k \in 1 .. n |-> CHOOSE i \in mine : newer(i) = k - 1]
  BY DEF FindRecentForTeacher
<1>4. \A i \in mine : newer(i) = Cardinality(before[i])
  OBVIOUS
<1>5. Orders(mine, before)
  <2> HIDE DEF mine
  <2> QED
    BY <1>1 DEF Orders
<1>6. \A i, j \in mine : i \in before[j] <=> i > j
  OBVIOUS
<1> HIDE DEF mine, newer, before, list
<1>7. /\ Cardinality(mine) \in Nat
      /\ \A i \in mine : newer(i) \in 0 .. Cardinality(mine) - 1
      /\ \A i, j \in mine : i > j => newer(i) < newer(j)
      /\ \A k \in 0 .. Cardinality(mine) - 1 : \E i \in mine : newer(i) = k
  <2>1. /\ Cardinality(mine) \in Nat
        /\ \A i \in mine : Cardinality(before[i]) \in 0 .. Cardinality(mine) - 1
        /\ \A i, j \in mine : i \in before[j] => Cardinality(before[i]) < Cardinality(before[j])
        /\ \A k \in 0 .. Cardinality(mine) - 1 : \E i \in mine : Cardinality(before[i]) = k
    BY <1>2, <1>5, Places
  <2> QED
    BY <2>1, <1>4, <1>6
<1>8. \A i, j \in mine : i > j <=> newer(i) < newer(j)
  BY <1>1, <1>7
<1>9. n \in Nat /\ n <= Cardinality(mine)
  BY <1>7
<1> HIDE DEF n
<1>10. Len(list) = n /\ DOMAIN list = 1 .. n
  BY <1>3, <1>9
<1>11. ASSUME NEW k \in 1 .. n
       PROVE  list[k] \in mine /\ newer(list[k]) = k - 1
  <2>1. k - 1 \in 0 .. Cardinality(mine) - 1
    BY <1>7, <1>9
  <2>2. \E i \in mine : newer(i) = k - 1
    BY <1>7, <2>1
  <2>3. list[k] = CHOOSE i \in mine : newer(i) = k - 1
    BY <1>3
  <2> QED
    BY <2>2, <2>3
<1>12. mine = Mine(t)
  BY DEF mine, Mine
<1>13. \A i : newer(i) = Newer(t, i)
  BY DEF mine, newer, Mine, Newer
<1>14. list = FindRecentForTeacher(t, limit)
  BY DEF list
<1> QED
  BY <1>2, <1>7, <1>8, <1>9, <1>10, <1>11, <1>12, <1>13, <1>14 DEF n

LEMMA ListsTrue ==
  ASSUME SubInv
  PROVE  ListsAreTrue
<1> SUFFICES ASSUME NEW t \in Range(TeacherOf), NEW limit \in 0 .. MaxRows
             PROVE  LET list == Index(t, limit)
                        mine == {i \in DOMAIN rows : rows[i].teacher = t}
                    IN  /\ \A k \in 1 .. Len(list) - 1 : list[k].id > list[k + 1].id
                        /\ \A i \in mine : \/ \E k \in DOMAIN list : list[k].id = i
                                           \/ /\ Len(list) = limit
                                              /\ \A k \in DOMAIN list : list[k].id > i
                        /\ \A k \in DOMAIN list :
                             /\ list[k].id \in mine
                             /\ list[k].relations.subject = rows[list[k].id].subject[1]
                             /\ list[k].relations.of
                                  \in {NoSubject, SubjectOfSub[rows[list[k].id].subject[2]]}
  BY DEF ListsAreTrue
<1> DEFINE mine == Mine(t)
           found == FindRecentForTeacher(t, limit)
           list == Index(t, limit)
           newer(i) == Newer(t, i)
           n == Len(found)
<1>1. /\ Cardinality(mine) \in Nat
      /\ n \in Nat /\ DOMAIN found = 1 .. n
      /\ n = IF Cardinality(mine) < limit THEN Cardinality(mine) ELSE limit
      /\ \A k \in 1 .. n : found[k] \in mine /\ newer(found[k]) = k - 1
      /\ \A i \in mine : newer(i) \in 0 .. Cardinality(mine) - 1
      /\ \A i, j \in mine : i > j <=> newer(i) < newer(j)
  <2>1. limit \in Nat
    BY SubmissionAssumption
  <2> QED
    BY <2>1, NewestFirst
<1>2. list = [k \in DOMAIN found |-> BuildResource(Range(found), found[k])]
  BY DEF Index
<1>3. \A i \in mine : i \in Nat
  BY RowsAre DEF Mine
<1> HIDE DEF mine, found, newer, list, n
<1>4. DOMAIN list = 1 .. n /\ Len(list) = n
  BY <1>1, <1>2
<1>5. ASSUME NEW k \in 1 .. n
      PROVE  /\ list[k].id = found[k]
             /\ list[k].relations = AttachRelations(Range(found), found[k])
  BY <1>1, <1>2 DEF BuildResource
<1>6. ASSUME NEW batch, NEW i
      PROVE  /\ AttachRelations(batch, i).subject = rows[i].subject[1]
             /\ AttachRelations(batch, i).of \in {NoSubject, SubjectOfSub[rows[i].subject[2]]}
  BY DEF AttachRelations
<1>7. ASSUME NEW k \in 1 .. n - 1
      PROVE  list[k].id > list[k + 1].id
  <2>1. k \in 1 .. n /\ k + 1 \in 1 .. n
    BY <1>1
  <2>2. newer(found[k]) = k - 1 /\ newer(found[k + 1]) = (k + 1) - 1
    BY <1>1, <2>1
  <2> QED
    BY <1>1, <1>5, <2>1, <2>2
<1>8. ASSUME NEW i \in mine
      PROVE  \/ \E k \in 1 .. n : list[k].id = i
             \/ n = limit /\ \A k \in 1 .. n : list[k].id > i
  <2>1. CASE newer(i) < n
    <3>1. newer(i) + 1 \in 1 .. n
      BY <1>1, <2>1
    <3> DEFINE k == newer(i) + 1
    <3>2. found[k] \in mine /\ newer(found[k]) = newer(i)
      BY <1>1, <3>1
    <3>3. found[k] = i
      BY <1>1, <1>3, <3>2
    <3> QED
      BY <1>5, <3>1, <3>3
  <2>2. CASE ~(newer(i) < n)
    <3>1. n = limit
      BY <1>1, <2>2
    <3>2. \A k \in 1 .. n : newer(found[k]) < newer(i) /\ found[k] \in mine
      BY <1>1, <2>2
    <3>3. \A k \in 1 .. n : list[k].id > i
      BY <1>1, <1>5, <3>2
    <3> QED
      BY <3>1, <3>3
  <2> QED
    BY <2>1, <2>2
<1>9. ASSUME NEW k \in 1 .. n
      PROVE  /\ list[k].id \in mine
             /\ list[k].relations.subject = rows[list[k].id].subject[1]
             /\ list[k].relations.of
                  \in {NoSubject, SubjectOfSub[rows[list[k].id].subject[2]]}
  BY <1>1, <1>5, <1>6
<1> QED
  BY <1>4, <1>7, <1>8, <1>9 DEF list, mine, Mine

\* A row that an answer tells of is in its teacher's list.
LEMMA AnswersAreListed ==
  ASSUME SubInv, Bounded, NEW r \in Request, req[r].answer \in Told
  PROVE  req[r].id \in Range(FindRecentForTeacher(TeacherOf[r], MaxRows))
<1> DEFINE t == TeacherOf[r]
           mine == Mine(t)
           found == FindRecentForTeacher(t, MaxRows)
           newer(i) == Newer(t, i)
           n == Cardinality(mine)
<1>1. req[r].id \in mine
  BY DEF SubInv, ReqInv, Own, Mine
<1>2. MaxRows \in Nat /\ Len(rows) \in Nat /\ Len(rows) <= MaxRows
  BY SubmissionAssumption, RowsAre DEF Bounded
<1>3. /\ n \in Nat /\ n <= Len(rows) /\ DOMAIN found = 1 .. Len(found)
      /\ Len(found) = IF n < MaxRows THEN n ELSE MaxRows
      /\ \A k \in DOMAIN found : found[k] \in mine /\ newer(found[k]) = k - 1
      /\ \A i \in mine : newer(i) \in 0 .. n - 1
      /\ \A i, j \in mine : i > j <=> newer(i) < newer(j)
  BY <1>2, NewestFirst
<1>4. \A i \in mine : i \in Nat
  BY RowsAre DEF Mine
<1> HIDE DEF mine, found, newer, n
<1>5. Len(found) = n
  BY <1>2, <1>3
<1> DEFINE k == newer(req[r].id) + 1
<1>6. k \in DOMAIN found
  BY <1>1, <1>3, <1>5
<1>7. found[k] \in mine /\ newer(found[k]) = newer(req[r].id)
  BY <1>1, <1>3, <1>6
<1>8. found[k] = req[r].id
  BY <1>1, <1>3, <1>4, <1>7
<1> HIDE DEF k
<1> QED
  BY <1>6, <1>8 DEF found, Range

--------------------------------------------------------------------------------
(* Chains.                                                                 *)

\* One step of the climb of find_chain, after s.
Climbed(id, n, s) ==
  IF n = 0 THEN <<id>>
  ELSE LET from == rows[Last(s)].from
       IN  IF from = 0 \/ n = ChainLimit THEN s ELSE Append(s, from)

\* up[n] is where the climb stands after n steps.
Climb(id, up) ==
  up = [n \in 0 .. ChainLimit |->
          IF n = 0 THEN <<id>>
          ELSE LET from == rows[Last(up[n - 1])].from
               IN  IF from = 0 \/ n = ChainLimit THEN up[n - 1] ELSE Append(up[n - 1], from)]

\* Induction, for a set of numbers.
LEMMA Induction ==
  ASSUME NEW G, 0 \in G, \A n \in Nat : n \in G => n + 1 \in G
  PROVE  \A n \in Nat : n \in G
<1> DEFINE D == Nat \ G
<1> SUFFICES ASSUME D # {}
             PROVE  FALSE
  OBVIOUS
<1>1. D \subseteq Nat
  OBVIOUS
<1> HIDE DEF D
<1>2. PICK d \in D : \A x \in D : <<x, d>> \notin OpToRel(<, Nat)
  BY <1>1, NatLessThanWellFounded, WFMin
<1>3. d \in Nat /\ d \notin G /\ d # 0
  BY <1>2 DEF D
<1>4. d - 1 \in Nat /\ d - 1 < d /\ (d - 1) + 1 = d
  BY <1>3
<1>5. d - 1 \notin D
  BY <1>2, <1>3, <1>4 DEF OpToRel
<1> QED
  BY <1>3, <1>4, <1>5 DEF D

\* The climb that Ancestors is defined by exists.
LEMMA ClimbExists ==
  ASSUME NEW id
  PROVE  \E up : Climb(id, up)
<1> DEFINE Solves(g, m) == \A n \in 0 .. m : g[n] = Climbed(id, n, g[n - 1])
           G == {m \in Nat : \E g : Solves(g, m)}
<1>1. 0 \in G
  <2> DEFINE g == [n \in {0} |-> <<id>>]
  <2>1. Solves(g, 0)
    BY DEF Climbed
  <2> QED
    BY <2>1
<1>2. ASSUME NEW m \in Nat, m \in G
      PROVE  m + 1 \in G
  <2>1. PICK g : Solves(g, m)
    BY <1>2
  <2> DEFINE h == [n \in 0 .. m + 1 |-> IF n = m + 1 THEN Climbed(id, m + 1, g[m]) ELSE g[n]]
  <2>2. h[m + 1] = Climbed(id, m + 1, g[m]) /\ \A n \in 0 .. m : h[n] = g[n]
    OBVIOUS
  <2> HIDE DEF h
  <2>3. ASSUME NEW n \in 0 .. m
        PROVE  h[n] = Climbed(id, n, h[n - 1])
    <3>1. CASE n = 0
      BY <2>1, <2>2, <3>1 DEF Climbed
    <3>2. CASE n # 0
      <4>1. n - 1 \in 0 .. m
        BY <3>2
      <4> QED
        BY <2>1, <2>2, <4>1
    <3> QED
      BY <3>1, <3>2
  <2>4. h[m + 1] = Climbed(id, m + 1, h[(m + 1) - 1])
    BY <2>2
  <2>5. Solves(h, m + 1)
    BY <2>3, <2>4
  <2> QED
    BY <2>5
<1> HIDE DEF G
<1>3. ChainLimit \in Nat /\ ChainLimit \in G
  BY <1>1, <1>2, Induction, SubmissionAssumption
<1>4. PICK g : Solves(g, ChainLimit)
  BY <1>3 DEF G
<1> DEFINE up == [n \in 0 .. ChainLimit |-> g[n]]
<1>5. \A n \in 0 .. ChainLimit : up[n] = g[n]
  OBVIOUS
<1>6. \A n \in 0 .. ChainLimit : n # 0 => n - 1 \in 0 .. ChainLimit
  BY <1>3
<1>7. \A n \in 0 .. ChainLimit : g[n] = IF n = 0 THEN <<id>>
          ELSE LET from == rows[Last(up[n - 1])].from
               IN  IF from = 0 \/ n = ChainLimit THEN up[n - 1] ELSE Append(up[n - 1], from)
  BY <1>4, <1>5, <1>6 DEF Climbed
<1>8. Climb(id, up)
  BY <1>7 DEF Climb
<1> QED
  BY <1>8

\* Ancestors reverses one such climb.
LEMMA AncestorsClimb ==
  ASSUME NEW id
  PROVE  \E up : Climb(id, up) /\ Ancestors(id) = Reverse(up[ChainLimit])
<1> DEFINE up == CHOOSE f : Climb(id, f)
<1>1. Climb(id, up)
  BY ClimbExists
<1>2. Ancestors(id) = Reverse(up[ChainLimit])
  BY DEF Ancestors, Climb
<1> HIDE DEF up
<1> QED
  BY <1>1, <1>2

\* A way from a row up its parents.
Path(id, s) ==
  /\ s \in Seq(DOMAIN rows) /\ Len(s) \in Nat \ {0} /\ s[1] = id
  /\ \A k \in 1 .. Len(s) - 1 : rows[s[k]].from = s[k + 1] /\ s[k + 1] < s[k]
  /\ \A k \in 1 .. Len(s) : rows[s[k]].teacher = rows[id].teacher

LEMMA PathGrows ==
  ASSUME SubInv, FromInv, NEW id, NEW s, Path(id, s), rows[Last(s)].from # 0
  PROVE  Path(id, Append(s, rows[Last(s)].from))
<1> DEFINE m == Len(s)
           f == rows[s[m]].from
           w == Append(s, f)
<1>1. /\ m \in Nat \ {0} /\ m \in 1 .. m /\ s[m] \in DOMAIN rows /\ Last(s) = s[m]
      /\ s \in Seq(DOMAIN rows)
  BY DEF Path, Last
<1>2. DOMAIN rows = 1 .. Len(rows) /\ Len(rows) \in Nat
  BY RowsAre
<1>3. f \in DOMAIN rows /\ f < s[m] /\ rows[f].teacher = rows[s[m]].teacher
  BY <1>1, <1>2 DEF FromInv
<1>4. /\ w \in Seq(DOMAIN rows) /\ Len(w) = m + 1 /\ w[m + 1] = f
      /\ \A k \in 1 .. m : w[k] = s[k]
  BY <1>1, <1>3
<1>5. rows[f].teacher = rows[id].teacher /\ s[1] = id
  BY <1>1, <1>3 DEF Path
<1>6. /\ \A k \in 1 .. m - 1 : rows[s[k]].from = s[k + 1] /\ s[k + 1] < s[k]
      /\ \A k \in 1 .. m : rows[s[k]].teacher = rows[id].teacher
  BY DEF Path
<1>7. w[m] = s[m] /\ rows[w[m]].from = f
  BY <1>1, <1>4
<1> HIDE DEF w, m, f
<1>8. ASSUME NEW k \in 1 .. (m + 1) - 1
      PROVE  rows[w[k]].from = w[k + 1] /\ w[k + 1] < w[k]
  <2>1. CASE k = m
    BY <1>1, <1>3, <1>4, <1>7, <2>1
  <2>2. CASE k # m
    <3>1. k \in 1 .. m /\ k + 1 \in 1 .. m /\ k \in 1 .. m - 1
      BY <1>1, <2>2
    <3> QED
      BY <1>4, <1>6, <3>1
  <2> QED
    BY <2>1, <2>2
<1>9. ASSUME NEW k \in 1 .. m + 1
      PROVE  rows[w[k]].teacher = rows[id].teacher
  <2>1. k = m + 1 \/ k \in 1 .. m
    BY <1>1
  <2> QED
    BY <1>4, <1>5, <1>6, <2>1
<1>10. w[1] = id
  BY <1>1, <1>4, <1>5
<1>11. Path(id, w)
  BY <1>1, <1>4, <1>8, <1>9, <1>10 DEF Path
<1> QED
  BY <1>1, <1>11 DEF w, f

\* What the climb has found after n steps, before the last.
Climbing(id, n, s) ==
  /\ Path(id, s) /\ Len(s) <= n + 1
  /\ Len(s) < n + 1 => rows[Last(s)].from = 0

LEMMA ClimbIsTrue ==
  ASSUME SubInv, FromInv, NEW id \in DOMAIN rows, NEW up, Climb(id, up)
  PROVE  /\ Path(id, up[ChainLimit]) /\ Len(up[ChainLimit]) <= ChainLimit
         /\ Len(up[ChainLimit]) < ChainLimit => rows[Last(up[ChainLimit])].from = 0
<1> DEFINE G == {n \in Nat : n < ChainLimit => Climbing(id, n, up[n])}
<1>1. ChainLimit \in Nat \ {0}
  BY SubmissionAssumption
<1>2. up[0] = <<id>>
  BY <1>1 DEF Climb
<1>3. ASSUME NEW n \in Nat, n < ChainLimit
      PROVE  up[n + 1] = IF rows[Last(up[n])].from = 0 \/ n + 1 = ChainLimit THEN up[n]
                         ELSE Append(up[n], rows[Last(up[n])].from)
  <2>1. n + 1 \in 0 .. ChainLimit /\ n + 1 # 0 /\ (n + 1) - 1 = n
    BY <1>1, <1>3
  <2> QED
    BY <2>1 DEF Climb
<1>4. 0 \in G
  <2>1. Len(up[0]) = 1 /\ Path(id, up[0])
    BY <1>2 DEF Path
  <2>2. Climbing(id, 0, up[0])
    BY <2>1 DEF Climbing
  <2> QED
    BY <2>2
<1>5. ASSUME NEW n \in Nat, n \in G
      PROVE  n + 1 \in G
  <2> SUFFICES ASSUME n + 1 < ChainLimit
               PROVE  Climbing(id, n + 1, up[n + 1])
    OBVIOUS
  <2>1. n < ChainLimit /\ n + 1 # ChainLimit /\ Climbing(id, n, up[n])
    BY <1>1, <1>5
  <2>2. Path(id, up[n]) /\ Len(up[n]) \in Nat \ {0}
    BY <2>1 DEF Climbing, Path
  <2>3. CASE rows[Last(up[n])].from = 0
    <3>1. up[n + 1] = up[n]
      BY <1>3, <2>1, <2>3
    <3>2. Len(up[n]) <= (n + 1) + 1
      BY <2>1, <2>2 DEF Climbing
    <3> QED
      BY <2>2, <2>3, <3>1, <3>2 DEF Climbing
  <2>4. CASE rows[Last(up[n])].from # 0
    <3>1. up[n + 1] = Append(up[n], rows[Last(up[n])].from)
      BY <1>3, <2>1, <2>4
    <3>2. Path(id, up[n + 1])
      BY <2>2, <2>4, <3>1, PathGrows
    <3>3. Len(up[n]) = n + 1
      BY <2>1, <2>2, <2>4 DEF Climbing
    <3>4. up[n] \in Seq(DOMAIN rows)
      BY <2>2 DEF Path
    <3>5. Len(up[n + 1]) = (n + 1) + 1
      BY <3>1, <3>3, <3>4
    <3> QED
      BY <3>2, <3>5 DEF Climbing
  <2> QED
    BY <2>3, <2>4
<1> HIDE DEF G
<1>6. ChainLimit - 1 \in Nat /\ ChainLimit - 1 < ChainLimit /\ (ChainLimit - 1) + 1 = ChainLimit
  BY <1>1
<1>7. ChainLimit - 1 \in G
  BY <1>4, <1>5, <1>6, Induction
<1>8. Climbing(id, ChainLimit - 1, up[ChainLimit - 1])
  BY <1>6, <1>7 DEF G
<1>9. up[ChainLimit] = up[ChainLimit - 1]
  BY <1>3, <1>6
<1> QED
  BY <1>6, <1>8, <1>9 DEF Climbing

\* Ancestors reverses a way up that ends at a row without a parent or at the limit.
LEMMA AncestorsAre ==
  ASSUME SubInv, FromInv, NEW id \in DOMAIN rows
  PROVE  \E s : /\ Path(id, s) /\ Len(s) <= ChainLimit
                /\ Len(s) < ChainLimit => rows[s[Len(s)]].from = 0
                /\ Len(Ancestors(id)) = Len(s) /\ DOMAIN Ancestors(id) = 1 .. Len(s)
                /\ \A k \in 1 .. Len(s) : Ancestors(id)[k] = s[(Len(s) - k) + 1]
<1>1. PICK up : Climb(id, up) /\ Ancestors(id) = Reverse(up[ChainLimit])
  BY AncestorsClimb
<1> DEFINE s == up[ChainLimit]
<1>2. /\ Path(id, s) /\ Len(s) <= ChainLimit
      /\ Len(s) < ChainLimit => rows[Last(s)].from = 0
  BY <1>1, ClimbIsTrue
<1>3. Len(s) \in Nat
  BY <1>2 DEF Path
<1> HIDE DEF s
<1>4. Ancestors(id) = [k \in 1 .. Len(s) |-> s[(Len(s) - k) + 1]]
  BY <1>1 DEF s, Reverse
<1>5. Len(Ancestors(id)) = Len(s)
  BY <1>3, <1>4
<1> QED
  BY <1>2, <1>4, <1>5 DEF Last

\* Every child of a row has it for its parent.
LEMMA ChildrenAre ==
  ASSUME SubInv, NEW id
  PROVE  \A k \in Range(Children(id)) : k \in DOMAIN rows /\ rows[k].from = id
<1> DEFINE born == {i \in DOMAIN rows : rows[i].from = id}
           older(i) == Cardinality({j \in born : j < i})
           before == [i \in born |-> {j \in born : j < i}]
           n == Cardinality(born)
           list == Children(id)
<1>1. born \in SUBSET DOMAIN rows /\ \A i \in born : i \in Nat
  BY RowsAre
<1>2. IsFiniteSet(born)
  BY <1>1, RowsAre, FS_Subset
<1>3. list = [k \in 1 .. n |-> CHOOSE i \in born : older(i) = k - 1]
  BY DEF Children
<1>4. \A i \in born : older(i) = Cardinality(before[i])
  OBVIOUS
<1>5. Orders(born, before)
  <2> HIDE DEF born
  <2> QED
    BY <1>1 DEF Orders
<1> HIDE DEF born, older, before, list
<1>6. n \in Nat /\ \A k \in 0 .. n - 1 : \E i \in born : older(i) = k
  <2>1. /\ Cardinality(born) \in Nat
        /\ \A k \in 0 .. Cardinality(born) - 1 : \E i \in born : Cardinality(before[i]) = k
    BY <1>2, <1>5, Places
  <2> QED
    BY <2>1, <1>4
<1> HIDE DEF n
<1>7. ASSUME NEW k \in 1 .. n
      PROVE  list[k] \in born
  <2>1. k - 1 \in 0 .. n - 1
    BY <1>6
  <2>2. \E i \in born : older(i) = k - 1
    BY <1>6, <2>1
  <2>3. list[k] = CHOOSE i \in born : older(i) = k - 1
    BY <1>3
  <2> QED
    BY <2>2, <2>3
<1>8. Range(list) \in SUBSET born
  BY <1>3, <1>7 DEF Range
<1> QED
  BY <1>8 DEF list, born

LEMMA ChainsTrue ==
  ASSUME SubInv, FromInv
  PROVE  ChainsAreTrue
<1>1. DOMAIN rows = 1 .. Len(rows) /\ Len(rows) \in Nat /\ ChainLimit \in Nat \ {0}
  BY RowsAre, SubmissionAssumption
<1> SUFFICES ASSUME NEW i \in DOMAIN rows
    PROVE  /\ Last(Ancestors(i)) = i
           /\ \A k \in 1 .. Len(Ancestors(i)) - 1 :
                /\ rows[Ancestors(i)[k + 1]].from = Ancestors(i)[k]
                /\ Ancestors(i)[k] < Ancestors(i)[k + 1]
           /\ \A k \in DOMAIN Ancestors(i) : rows[Ancestors(i)[k]].teacher = rows[i].teacher
           /\ Len(Ancestors(i)) < ChainLimit => rows[Ancestors(i)[1]].from = 0
           /\ ChainLimit > 1 => \A k \in Range(Children(i)) : i \in Range(Ancestors(k))
  BY DEF ChainsAreTrue, Chain
<1> DEFINE a == Ancestors(i)
<1>2. PICK s : /\ Path(i, s) /\ Len(s) <= ChainLimit
               /\ Len(s) < ChainLimit => rows[s[Len(s)]].from = 0
               /\ Len(a) = Len(s) /\ DOMAIN a = 1 .. Len(s)
               /\ \A k \in 1 .. Len(s) : a[k] = s[(Len(s) - k) + 1]
  BY AncestorsAre
<1>3. Len(s) \in Nat \ {0} /\ s[1] = i
  BY <1>2 DEF Path
<1> HIDE DEF a
<1>4. Last(a) = i
  <2>1. Len(s) \in 1 .. Len(s) /\ (Len(s) - Len(s)) + 1 = 1
    BY <1>3
  <2> QED
    BY <1>2, <1>3, <2>1 DEF Last
<1>5. ASSUME NEW k \in 1 .. Len(a) - 1
      PROVE  rows[a[k + 1]].from = a[k] /\ a[k] < a[k + 1]
  <2> DEFINE m == Len(s) - k
  <2>1. /\ k \in 1 .. Len(s) /\ k + 1 \in 1 .. Len(s) /\ m \in 1 .. Len(s) - 1
        /\ (Len(s) - (k + 1)) + 1 = m
    BY <1>2, <1>3
  <2>2. a[k + 1] = s[m] /\ a[k] = s[m + 1]
    BY <1>2, <2>1
  <2>3. rows[s[m]].from = s[m + 1] /\ s[m + 1] < s[m]
    BY <1>2, <2>1 DEF Path
  <2> QED
    BY <2>2, <2>3
<1>6. ASSUME NEW k \in DOMAIN a
      PROVE  rows[a[k]].teacher = rows[i].teacher
  <2>1. k \in 1 .. Len(s) /\ (Len(s) - k) + 1 \in 1 .. Len(s)
    BY <1>2, <1>3
  <2> QED
    BY <1>2, <2>1 DEF Path
<1>7. Len(a) < ChainLimit => rows[a[1]].from = 0
  <2>1. 1 \in 1 .. Len(s) /\ (Len(s) - 1) + 1 = Len(s)
    BY <1>3
  <2> QED
    BY <1>2, <2>1
<1>8. ASSUME ChainLimit > 1, NEW k \in Range(Children(i))
      PROVE  i \in Range(Ancestors(k))
  <2>1. k \in DOMAIN rows /\ rows[k].from = i
    BY ChildrenAre
  <2>2. PICK w : /\ Path(k, w) /\ Len(w) <= ChainLimit
                 /\ Len(w) < ChainLimit => rows[w[Len(w)]].from = 0
                 /\ Len(Ancestors(k)) = Len(w) /\ DOMAIN Ancestors(k) = 1 .. Len(w)
                 /\ \A j \in 1 .. Len(w) : Ancestors(k)[j] = w[(Len(w) - j) + 1]
    BY <2>1, AncestorsAre
  <2>3. Len(w) \in Nat \ {0} /\ w[1] = k
    BY <2>2 DEF Path
  <2>4. Len(w) # 1
    <3> SUFFICES ASSUME Len(w) = 1
                 PROVE  FALSE
      OBVIOUS
    <3>1. rows[w[1]].from = 0
      BY <1>1, <1>8, <2>2
    <3>2. i # 0
      BY <1>1
    <3> QED
      BY <2>1, <2>3, <3>1, <3>2
  <2>5. ASSUME NEW m \in Nat \ {0}, m # 1
        PROVE  1 \in 1 .. m - 1 /\ m - 1 \in 1 .. m /\ (m - (m - 1)) + 1 = 2
    <3>1. m \in Int /\ m > 1
      BY <2>5
    <3>2. m - 1 \in Int /\ 1 <= m - 1 /\ m - 1 <= m /\ (m - (m - 1)) + 1 = 2
      BY <3>1
    <3> QED
      BY <3>1, <3>2
  <2>6. w[1 + 1] = i
    BY <2>1, <2>2, <2>3, <2>4, <2>5 DEF Path
  <2>7. Len(w) - 1 \in DOMAIN Ancestors(k) /\ Ancestors(k)[Len(w) - 1] = w[2]
    BY <2>2, <2>3, <2>4, <2>5
  <2> QED
    BY <2>6, <2>7 DEF Range
<1> QED
  BY <1>4, <1>5, <1>6, <1>7, <1>8 DEF a

\* What a teacher is shown is true: answers are about the teacher's own rows and
\* index lists them; find_chain climbs from parent to parent and a child names its
\* parent; index has the newest rows, each with its subject.  The chains and the
\* lists are so in every state, not only when no request is under way.
THEOREM ReadsAreTrueThm == Spec => [](ReadsAreTrue /\ ChainsAreTrue /\ ListsAreTrue)
<1>1. SubInv /\ FromInv /\ Bounded => ReadsAreTrue /\ ChainsAreTrue /\ ListsAreTrue
  <2> SUFFICES ASSUME SubInv, FromInv, Bounded
               PROVE  ReadsAreTrue /\ ChainsAreTrue /\ ListsAreTrue
    OBVIOUS
  <2>1. AnswersAreOwn
    BY DEF AnswersAreOwn, SubInv, ReqInv, Own
  <2>2. \A r \in Request : req[r].answer \in Told
          => req[r].id \in Range(FindRecentForTeacher(TeacherOf[r], MaxRows))
    BY AnswersAreListed
  <2>3. ChainsAreTrue /\ ListsAreTrue
    BY ChainsTrue, ListsTrue
  <2> QED
    BY <2>1, <2>2, <2>3 DEF ReadsAreTrue
<1> QED
  BY <1>1, FromInvHolds, PTL
================================================================================
