------------------------------- MODULE Submission ------------------------------
(***************************************************************************)
(* The table media_generations as the teachers' REST requests see it:      *)
(* create, confirm, skip-clarification, regenerate and the reads, from     *)
(* src/orchestrator/submission.rs, src/api/rest/media_generations.rs,      *)
(* src/api/rest/clarification.rs and the repository they call.             *)
(*                                                                         *)
(* Workflow follows one row through all its statements; this module has    *)
(* many rows and follows how requests share them.  A statement (or a       *)
(* transaction whose statements nobody can come between) is one step.  The *)
(* worker is reduced to the only thing submissions can tell: a queued job  *)
(* brings a row that has not ended to an end.                              *)
(***************************************************************************)
EXTENDS Lifecycle, Sequences, FiniteSets, FiniteSetsExt, SequencesExt

CONSTANTS
  Request,      \* REST requests; a request names the one job it may create
  TeacherOf,    \* the principal of each request
  Text,         \* prompt texts
  Squish,       \* squish_and_lower of each text
  Tidy,         \* enrich_prompt of each text when there are no answers
  RawType,      \* preferred_output_type as sent, "none" when absent
  TrimLower,    \* trim().to_lowercase() of each raw type
  Subject,      \* subject_id and sub_subject_id of a request, as a pair
  SubjectOfSub, \* the subject of each sub-subject
  NoSubject,    \* NULL in subject_id and sub_subject_id
  NoJob,        \* NULL in generation_job_id
  MaxRows,      \* bound: rows of the table
  ChainLimit    \* the 50 of find_chain

ASSUME SubmissionAssumption ==
  /\ NoJob \notin Request
  /\ Squish \in [Text -> Text] /\ Tidy \in [Text -> Text]
  /\ MaxRows \in Nat /\ ChainLimit \in Nat \ {0}

VARIABLES
  rows,    \* media_generations in the order of created_at
  queue,   \* entries of the Redis stream: <<row, job>>
  req      \* where each request stands, its input and its answer

vars == <<rows, queue, req>>

AllowedOutputTypes == {"auto", "docx", "pdf", "pptx"}

NormalizePreferredOutputType(t) ==
  IF t # "none" /\ TrimLower[t] \in AllowedOutputTypes THEN TrimLower[t] ELSE "auto"

\* A prompt is a sequence of texts: a regeneration appends one to its parent's.
SquishAndLower(prompt) == [k \in DOMAIN prompt |-> Squish[prompt[k]]]

\* Trims the prompt and mends its punctuation.
EnrichPrompt(prompt) == [k \in DOMAIN prompt |-> Tidy[prompt[k]]]

MakeRequestFingerprint(teacher, prompt, type, subject) ==
  <<teacher, type, subject, SquishAndLower(prompt)>>

FingerprintOf(r) ==
  MakeRequestFingerprint(TeacherOf[r], req[r].prompt, req[r].type, req[r].subject)

Row(r, from) ==
  [teacher |-> TeacherOf[r], from |-> from, prompt |-> req[r].prompt,
   type |-> req[r].type, subject |-> req[r].subject, fingerprint |-> FingerprintOf(r),
   status |-> "queued", genStatus |-> "null", job |-> NoJob, spec |-> FALSE,
   clarified |-> "no"]

AnySubject == CHOOSE s \in Subject : TRUE

Init ==
  /\ rows = <<>>
  /\ queue = {}
  /\ req = [r \in Request |->
              [pc |-> "idle", op |-> "none", id |-> 0, prompt |-> <<>>,
               type |-> "auto", subject |-> AnySubject,
               answer |-> "none"]]

Goto(r, pc) == req' = [req EXCEPT ![r].pc = pc]

GotoWith(r, pc, id) == req' = [req EXCEPT ![r].pc = pc, ![r].id = id]

\* The handler returns; its local variables are gone.
Answer(r, a) ==
  req' = [req EXCEPT ![r] = [@ EXCEPT !.pc = "done", !.answer = a, !.prompt = <<>>,
                                      !.type = "auto", !.subject = AnySubject]]

--------------------------------------------------------------------------------
(* What a request asks for.                                                *)

PostCreate(r) ==
  /\ req[r].pc = "idle"
  /\ \E p \in Text, t \in RawType, s \in Subject :
       req' = [req EXCEPT ![r].pc = "lookup", ![r].op = "create",
                          ![r].prompt = <<p>>, ![r].subject = s,
                          ![r].type = NormalizePreferredOutputType(t)]
  /\ UNCHANGED <<rows, queue>>

\* The per-user limit of create and regenerate answers before anything is read.
RateLimited(r) ==
  /\ req[r].pc = "idle"
  /\ Answer(r, "limited")
  /\ UNCHANGED <<rows, queue>>

\* confirm names a generation by id (0: one that does not exist) and brings
\* the enriched prompt and the type picked in the answers.
PostConfirm(r) ==
  /\ req[r].pc = "idle"
  /\ \E i \in 0 .. Len(rows), p \in Text, t \in RawType, s \in Subject :
       req' = [req EXCEPT ![r].pc = "clarify", ![r].op = "confirm", ![r].id = i,
                          ![r].prompt = <<p>>, ![r].subject = s,
                          ![r].type = NormalizePreferredOutputType(t)]
  /\ UNCHANGED <<rows, queue>>

PostSkipClarification(r) ==
  /\ req[r].pc = "idle"
  /\ \E i \in DOMAIN rows :
       req' = [req EXCEPT ![r].pc = "clarify", ![r].op = "skip", ![r].id = i]
  /\ UNCHANGED <<rows, queue>>

PostRegenerate(r) ==
  /\ req[r].pc = "idle"
  /\ \E i \in DOMAIN rows, p \in Text :
       req' = [req EXCEPT ![r].pc = "parent", ![r].op = "regenerate",
                          ![r].id = i, ![r].prompt = <<p>>]
  /\ UNCHANGED <<rows, queue>>

--------------------------------------------------------------------------------
(* create_or_reuse.                                                        *)

ActiveDuplicates(r) ==
  {i \in DOMAIN rows : /\ rows[i].teacher = TeacherOf[r]
                       /\ rows[i].fingerprint = FingerprintOf(r)
                       /\ ~IsTerminal(rows[i].status)}

\* Reused: create goes on to fetch the row, confirm to reset it.
Reuse(r) ==
  GotoWith(r, IF req[r].op = "create" THEN "fetch" ELSE "reset",
           Max(ActiveDuplicates(r)))

\* SELECT ... ORDER BY created_at DESC LIMIT 1 FOR UPDATE.
LookupActive(r) ==
  /\ req[r].pc = "lookup"
  /\ IF ActiveDuplicates(r) # {} THEN Reuse(r) ELSE Goto(r, "insert")
  /\ UNCHANGED <<rows, queue>>

\* Mutant: there is no unique index.
MutantKeyTaken(r) == FALSE

\* The unique index on active_duplicate_key.  The key is the fingerprint, it is
\* set on every insert and no statement ever clears it.
KeyTaken(r) == \E i \in DOMAIN rows : rows[i].fingerprint = FingerprintOf(r)

InsertRow(r) ==
  /\ req[r].pc = "insert"
  /\ ~KeyTaken(r)
  /\ Len(rows) < MaxRows
  /\ rows' = Append(rows, Row(r, 0))
  /\ req' = [req EXCEPT ![r].pc = IF req[r].op = "create" THEN "mark" ELSE "reset",
                        ![r].id = Len(rows) + 1]
  /\ UNCHANGED queue

\* 23505: roll back and look again in a new transaction.
InsertConflict(r) ==
  /\ req[r].pc = "insert"
  /\ KeyTaken(r)
  /\ Goto(r, "retry")
  /\ UNCHANGED <<rows, queue>>

\* Mutant: the conflict is reported at once, without the second lookup.
MutantRetryLookup(r) ==
  /\ req[r].pc = "retry"
  /\ Answer(r, "error")
  /\ UNCHANGED <<rows, queue>>

RetryLookup(r) ==
  /\ req[r].pc = "retry"
  /\ IF ActiveDuplicates(r) # {} THEN Reuse(r) ELSE Answer(r, "error")
  /\ UNCHANGED <<rows, queue>>

--------------------------------------------------------------------------------
(* The handlers after the row is known.                                    *)

\* Mutant: the row is looked up by its id alone.
MutantOwn(r, i) == i \in DOMAIN rows

\* find_by_id_for_teacher.
Own(r, i) == i \in DOMAIN rows /\ rows[i].teacher = TeacherOf[r]

FetchExisting(r) ==
  /\ req[r].pc = "fetch"
  /\ Answer(r, IF Own(r, req[r].id) THEN "existing" ELSE "error")
  /\ UNCHANGED <<rows, queue>>

\* confirm reads the row it is told of; one it cannot find is created.
TestConfirm(r) ==
  LET i == req[r].id IN
  /\ req[r].pc = "clarify" /\ req[r].op = "confirm"
  /\ \/ ~Own(r, i) /\ Goto(r, "lookup")
     \/ Own(r, i) /\ IsTerminal(rows[i].status) /\ Answer(r, "existing")
     \/ Own(r, i) /\ ~IsTerminal(rows[i].status) /\ Goto(r, "reset")
  /\ UNCHANGED <<rows, queue>>

\* skip-clarification will write back the prompt it reads, tidied.
TestSkip(r) ==
  LET i == req[r].id IN
  /\ req[r].pc = "clarify" /\ req[r].op = "skip"
  /\ \/ ~Own(r, i) /\ Answer(r, "notfound")
     \/ Own(r, i) /\ IsTerminal(rows[i].status) /\ Answer(r, "existing")
     \/ /\ Own(r, i) /\ ~IsTerminal(rows[i].status)
        /\ req' = [req EXCEPT ![r].pc = "reset", ![r].prompt = EnrichPrompt(rows[i].prompt)]
  /\ UNCHANGED <<rows, queue>>

\* Whatever the status has become meanwhile.  The fingerprint stays that of the
\* first prompt.
ResetForReprocessing(row, prompt) ==
  [row EXCEPT !.prompt = prompt, !.status = "queued", !.genStatus = "null", !.spec = FALSE]

ResetRow(r) ==
  /\ req[r].pc = "reset"
  /\ rows' = [rows EXCEPT ![req[r].id] = ResetForReprocessing(@, req[r].prompt)]
  /\ Goto(r, "clarification")
  /\ UNCHANGED queue

UpdateClarificationState(row, skipped) ==
  [row EXCEPT !.clarified = IF skipped THEN "skipped" ELSE "answered"]

SaveClarification(r) ==
  /\ req[r].pc = "clarification"
  /\ rows' = [rows EXCEPT ![req[r].id] = UpdateClarificationState(@, req[r].op = "skip")]
  /\ Goto(r, "mark")
  /\ UNCHANGED queue

UpdateGenerationJobStatus(row, job, status) ==
  [row EXCEPT !.job = job, !.genStatus = status]

\* A fresh job id and 'pending'.
MarkPending(r) ==
  /\ req[r].pc = "mark"
  /\ rows' = [rows EXCEPT ![req[r].id] = UpdateGenerationJobStatus(@, r, "pending")]
  /\ Goto(r, IF req[r].op = "regenerate" THEN "submit" ELSE "enqueue")
  /\ UNCHANGED queue

\* The statement fails: an error for the client, except for a regeneration,
\* which only logs it.
MarkFails(r) ==
  /\ req[r].pc = "mark"
  /\ IF req[r].op = "regenerate" THEN Goto(r, "submit") ELSE Answer(r, "broken")
  /\ UNCHANGED <<rows, queue>>

\* Mutant: the job is marked in the row and never added to the stream.
MutantEnqueue(r) ==
  /\ req[r].pc = "enqueue"
  /\ Answer(r, "accepted")
  /\ UNCHANGED <<rows, queue>>

\* QueueService::enqueue.  When Redis is down or not configured the error is
\* only logged, and the answer is the same 202.
Enqueue(r) ==
  /\ req[r].pc = "enqueue"
  /\ \/ queue' = queue \cup {<<req[r].id, r>>} /\ Answer(r, "accepted")
     \/ queue' = queue /\ Answer(r, "accepted, not queued")
  /\ UNCHANGED rows

EnqueueCreated(r) == req[r].op = "create" /\ Enqueue(r)

EnqueueConfirmed(r) == req[r].op = "confirm" /\ Enqueue(r)

EnqueueSkipped(r) == req[r].op = "skip" /\ Enqueue(r)

--------------------------------------------------------------------------------
(* regenerate.                                                             *)

ReadParent(r) ==
  LET i == req[r].id IN
  /\ req[r].pc = "parent"
  /\ \/ ~Own(r, i) /\ Answer(r, "notfound")
     \/ Own(r, i) /\ ~IsTerminal(rows[i].status) /\ Answer(r, "invalid")
     \/ Own(r, i) /\ IsTerminal(rows[i].status) /\ Goto(r, "copy")
  /\ UNCHANGED <<rows, queue>>

\* create_regeneration reads the parent again and combines the two prompts.
CopyParent(r) ==
  LET parent == rows[req[r].id] IN
  /\ req[r].pc = "copy"
  /\ req' = [req EXCEPT ![r].pc = "regeneration", ![r].type = parent.type,
                        ![r].prompt = parent.prompt \o req[r].prompt,
                        ![r].subject = parent.subject]
  /\ UNCHANGED <<rows, queue>>

\* The INSERT ... SELECT; a conflict on the key is an error.
InsertRegeneration(r) ==
  /\ req[r].pc = "regeneration"
  /\ \/ /\ ~KeyTaken(r)
        /\ Len(rows) < MaxRows
        /\ rows' = Append(rows, Row(r, req[r].id))
        /\ req' = [req EXCEPT ![r].pc = "mark", ![r].id = Len(rows) + 1]
     \/ /\ KeyTaken(r)
        /\ Answer(r, "error")
        /\ UNCHANGED rows
  /\ UNCHANGED queue

\* submit_job loads generation_spec_payload first.  A new row has none, so the
\* call fails and is logged; only a spec that a worker wrote meanwhile is sent.
SubmitRegeneration(r) ==
  /\ req[r].pc = "submit"
  /\ Answer(r, IF rows[req[r].id].spec THEN "accepted" ELSE "accepted, not queued")
  /\ UNCHANGED <<rows, queue>>

--------------------------------------------------------------------------------
(* The reads.                                                              *)

\* job_status: generation_status, or the lifecycle status where it is NULL.
JobStatus(i) ==
  IF rows[i].genStatus # "null" THEN rows[i].genStatus ELSE rows[i].status

\* show and job_status.
GetOne(r) ==
  /\ req[r].pc = "idle"
  /\ \E i \in DOMAIN rows :
       req' = [req EXCEPT ![r].pc = "done", ![r].op = "show", ![r].id = i,
                          ![r].answer = IF Own(r, i) THEN JobStatus(i) ELSE "notfound"]
  /\ UNCHANGED <<rows, queue>>

\* index without parent_id: the newest rows of the teacher, newest first.
FindRecentForTeacher(t, limit) ==
  LET mine == {i \in DOMAIN rows : rows[i].teacher = t}
  IN  [k \in 1 .. (IF Cardinality(mine) < limit THEN Cardinality(mine) ELSE limit) |->
         CHOOSE i \in mine : Cardinality({j \in mine : j > i}) = k - 1]

\* find_chain walks generated_from_id for at most ChainLimit rows ...
Ancestors(id) ==
  LET up[n \in 0 .. ChainLimit] ==
        IF n = 0 THEN <<id>>
        ELSE LET from == rows[Last(up[n - 1])].from
             IN  IF from = 0 \/ n = ChainLimit THEN up[n - 1] ELSE Append(up[n - 1], from)
  IN  Reverse(up[ChainLimit])

\* ... and reads the direct children, oldest first.
Children(id) ==
  LET born == {i \in DOMAIN rows : rows[i].from = id}
  IN  [k \in 1 .. Cardinality(born) |->
         CHOOSE i \in born : Cardinality({j \in born : j < i}) = k - 1]

\* index with parent_id, whoever asks.
Chain(id) == [ancestors |-> Ancestors(id), children |-> Children(id)]

\* The subjects a batch of rows names: the only ones that are loaded for it.
FetchSubjects(batch) == {rows[i].subject[1] : i \in batch} \ {NoSubject}

\* The relations a row is shown with.  A sub-subject's own subject is taken from
\* what was loaded for the batch and is left blank otherwise.
AttachRelations(batch, i) ==
  LET sub == rows[i].subject[2]
  IN  [subject     |-> rows[i].subject[1],
       sub_subject |-> sub,
       of          |-> IF sub = NoSubject \/ SubjectOfSub[sub] \notin FetchSubjects(batch)
                       THEN NoSubject ELSE SubjectOfSub[sub]]

\* What a client sees of a row.
BuildResource(batch, i) ==
  [id |-> i, status |-> rows[i].status, prompt |-> rows[i].prompt, from |-> rows[i].from,
   relations |-> AttachRelations(batch, i)]

\* index without parent_id.
Index(t, limit) ==
  LET mine == FindRecentForTeacher(t, limit)
  IN  [k \in DOMAIN mine |-> BuildResource(Range(mine), mine[k])]

--------------------------------------------------------------------------------
(* A worker takes a job and works on its row to the end; a row that has    *)
(* ended is left alone.                                                    *)
WorkerRuns(q) ==
  /\ q \in queue
  /\ queue' = queue \ {q}
  /\ IF IsTerminal(rows[q[1]].status)
     THEN UNCHANGED rows
     ELSE \E s \in {"completed", "failed"} :
            rows' = [rows EXCEPT ![q[1]] = [@ EXCEPT !.status = s, !.genStatus = s,
                                                     !.spec = (s = "completed")]]
  /\ UNCHANGED req

RequestStep(r) ==
  \/ LookupActive(r) \/ InsertRow(r) \/ InsertConflict(r) \/ RetryLookup(r)
  \/ FetchExisting(r) \/ TestConfirm(r) \/ TestSkip(r) \/ ResetRow(r) \/ SaveClarification(r)
  \/ MarkPending(r) \/ MarkFails(r)
  \/ EnqueueCreated(r) \/ EnqueueConfirmed(r) \/ EnqueueSkipped(r)
  \/ ReadParent(r) \/ CopyParent(r) \/ InsertRegeneration(r) \/ SubmitRegeneration(r)

Arrive(r) ==
  \/ PostCreate(r) \/ RateLimited(r) \/ PostConfirm(r) \/ PostSkipClarification(r)
  \/ PostRegenerate(r) \/ GetOne(r)

Finished == queue = {} /\ \A r \in Request : req[r].pc = "done"

Next ==
  \/ \E r \in Request : Arrive(r) \/ RequestStep(r)
  \/ \E q \in queue : WorkerRuns(q)
  \/ Finished /\ UNCHANGED vars

Spec == Init /\ [][Next]_vars

--------------------------------------------------------------------------------
(* Properties.                                                             *)

\* Identical submissions that race share one generation: never two rows with
\* one fingerprint are active, however the duplicate test of create_or_reuse,
\* its INSERT, resets by confirm and ends by workers interleave.
OneActivePerFingerprint ==
  \A i, j \in DOMAIN rows :
    /\ i # j /\ rows[i].fingerprint = rows[j].fingerprint
    => IsTerminal(rows[i].status) \/ IsTerminal(rows[j].status)

\* create and confirm answer with a conflict only when the generation that
\* holds the key has ended (its active_duplicate_key is never cleared); while it
\* is active the second lookup of create_or_reuse finds it.
ConflictOnlyAfterEnd ==
  [][\A r \in Request :
       (req[r].answer # "error" /\ req'[r].answer = "error" /\ req[r].op # "regenerate")
       => \E i \in DOMAIN rows : /\ rows[i].fingerprint = FingerprintOf(r)
                                 /\ IsTerminal(rows[i].status)]_vars

\* The row will be worked on: a job for it is queued, or a request is on its
\* way to queue one.
HasRunner(i) ==
  \/ \E q \in queue : q[1] = i
  \/ \E r \in Request :
       req[r].id = i /\ req[r].pc \in {"reset", "clarification", "mark", "enqueue", "submit"}

\* A request left the row without a job: its mark or its enqueue failed, or it
\* was a regeneration, which is never enqueued.
GivenUp(i) ==
  \E r \in Request :
    /\ req[r].id = i
    /\ \/ req[r].answer \in {"broken", "accepted, not queued"}
       \/ req[r].answer = "accepted" /\ req[r].op = "regenerate"

\* A generation that has not ended has a job queued or coming, unless the
\* enqueue of create, confirm or skip-clarification failed (it is only logged)
\* or the row is a regeneration.
ActiveRowHasARunner ==
  \A i \in DOMAIN rows : ~IsTerminal(rows[i].status) => HasRunner(i) \/ GivenUp(i)

\* No request is under way.  What the lists show of a row and its place in them is
\* fixed by its insert, so it is enough to look at them then.
Quiet == \A r \in Request : req[r].pc \in {"idle", "done"}

\* find_chain lists a generation's ancestors oldest first, each the parent the next
\* was regenerated from, and ends with the generation itself.
ChainsAreTrue ==
  \A i \in DOMAIN rows :
    LET c == Chain(i)
        a == c.ancestors
    IN  /\ Last(a) = i
        /\ \A k \in 1 .. Len(a) - 1 : rows[a[k + 1]].from = a[k] /\ a[k] < a[k + 1]
        /\ \A k \in DOMAIN a : rows[a[k]].teacher = rows[i].teacher
        /\ Len(a) < ChainLimit => rows[a[1]].from = 0
        /\ ChainLimit > 1 => \A k \in Range(c.children) : i \in Range(Ancestors(k))

\* index lists the teacher's newest rows; a row is shown with its own subject in
\* every batch, and its sub-subject never under a wrong one.
ListsAreTrue ==
  \A t \in Range(TeacherOf), limit \in 0 .. MaxRows :
    LET list == Index(t, limit)
        mine == {i \in DOMAIN rows : rows[i].teacher = t}
    IN  /\ \A k \in 1 .. Len(list) - 1 : list[k].id > list[k + 1].id
        /\ \A i \in mine : \/ \E k \in DOMAIN list : list[k].id = i
                           \/ Len(list) = limit /\ \A k \in DOMAIN list : list[k].id > i
        /\ \A k \in DOMAIN list :
             /\ list[k].id \in mine
             /\ list[k].relations.subject = rows[list[k].id].subject[1]
             /\ list[k].relations.of \in {NoSubject, SubjectOfSub[rows[list[k].id].subject[2]]}

\* The answers that tell a client of a generation.
Told == {"accepted", "accepted, not queued", "existing"} \cup Status

\* A request answers with a row of its own teacher, also when it was reused, reset
\* or copied from a parent.
AnswersAreOwn ==
  \A r \in Request :
    req[r].answer \in Told
      => req[r].id \in DOMAIN rows /\ rows[req[r].id].teacher = TeacherOf[r]

\* What a teacher is shown is true.  Answers are about the teacher's own rows, and
\* index lists those rows.  Chains and lists are true of the rows.
ReadsAreTrue ==
  /\ AnswersAreOwn
  /\ \A r \in Request :
       req[r].answer \in Told
         => req[r].id \in Range(FindRecentForTeacher(TeacherOf[r], MaxRows))
  /\ Quiet => ChainsAreTrue /\ ListsAreTrue
================================================================================
