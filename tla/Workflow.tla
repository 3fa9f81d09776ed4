-------------------------------- MODULE Workflow -------------------------------
(***************************************************************************)
(* One row of media_generations and everything that works on it: the REST  *)
(* calls that queue it, the worker tasks that run WorkflowService::process *)
(* on it, the Python renderer, and the webhook requests that report the    *)
(* renderer's verdict.  Every SQL statement of these actors names the row  *)
(* by its id (or its job id), so generations do not interact here and one  *)
(* row stands for any.                                                     *)
(*                                                                         *)
(* A statement, a transaction or an external call is one step; between two *)
(* of them any other actor may move.  process() holds no lock across its   *)
(* statements, so most of its tests are stale by the time they are used.   *)
(*                                                                         *)
(* The queue is the abstract one of JobQueue: a job is waiting, taken by a *)
(* worker task, given back with its attempt counter raised, done, dead     *)
(* (dead-letter queue) or stranded.  StreamQueue shows that the Redis      *)
(* stream and the worker loop behave like that.                            *)
(***************************************************************************)
EXTENDS AuditTrail, FiniteSets

CONSTANTS
  Job,            \* job ids: one per REST call that queues the generation
  FirstJob,       \* the job id of the call that created the row
  NoJob,          \* NULL where a job id or a prompt is expected
  Handler,        \* webhook requests that can be in progress at a time
  MaxTries,       \* MAX_TRIES of the worker
  Permits,        \* tasks that can run at a time, over all workers
  MaxDeliveries,  \* bound: webhook requests the renderer sends in total
  Faults          \* whether requests and tasks may be cut off half-way

ASSUME WorkflowAssumption ==
  /\ FirstJob \in Job
  /\ NoJob \notin Job
  /\ MaxTries \in Nat \ {0}
  /\ Permits \in Nat
  /\ MaxDeliveries \in Nat
  /\ Faults \in BOOLEAN

VARIABLES
  status,       \* status: the lifecycle column
  audit,        \* orchestration_audit_payload
  genStatus,    \* generation_status: what clients poll
  jobId,        \* generation_job_id
  prompt,       \* raw_prompt, named by the REST call that wrote it
  interp,       \* interpretation_payload, named by the prompt it interprets
  draftSource,  \* decision_payload.content_draft.source
  spec,         \* generation_spec_payload (and resolved_output_type)
  response,     \* generator_service_response, named by the job it answers
  published,    \* topic_id, content_id, recommended_project_id are set
  delivery,     \* delivery_payload is set
  api,          \* where each REST call stands
  pc,           \* where each worker task stands, or the state of its job
  attempt,      \* the attempt field of each job's stream entry
  loc,          \* what each task holds in local variables
  render,       \* the renderer's view of each job
  hook,         \* where each webhook request stands, and its body
  deliveries    \* webhook requests sent so far

classVars == <<interp, draftSource, spec>>
rowVars   == <<status, audit, genStatus, jobId, prompt, classVars,
               response, published, delivery>>
taskVars  == <<pc, attempt, loc>>
hookVars  == <<hook, deliveries>>
vars      == <<rowVars, api, taskVars, render, hookVars>>

--------------------------------------------------------------------------------
\* A specification is built from an interpretation alone or from a draft; `of`
\* is the set of prompts its content comes from.
NoSpec == [kind |-> "none", of |-> {}]

Prompt == Job \cup {NoJob}

SpecPayload == [kind : {"none", "interpretation", "drafted"}, of : SUBSET Prompt]

Local == [interp : Prompt, read : Prompt, spec : SpecPayload]

NoLocal == [interp |-> NoJob, read |-> NoJob, spec |-> NoSpec]

\* The steps of process() in the order the code runs them.
ProcessPc ==
  {"initialize", "early",
   "ckInterpreting", "trInterpreting", "hasClassification", "interpret",
   "saveInterpretation", "resolve", "draft", "saveDraft", "resolveDraft",
   "ckClassified", "trClassified",
   "ckGenerating", "trGenerating", "loadSpec", "post", "setProcessing",
   "isProcessing",
   "hasEntities", "ckPublishing", "trPublishing", "publish",
   "hasDelivery", "compose", "ckCompleted", "trCompleted"}

\* The steps that call a service whose answer can be a permanent error: one
\* whose text is_retryable_error finds to be a validation failure.
ServicePc == {"saveInterpretation", "saveDraft", "post", "publish", "compose"}

ErrorPc == {"retryable", "permanent"}

ActivePc == ProcessPc \cup ErrorPc

JobPc == ActivePc \cup {"none", "waiting", "done", "dead", "stranded"}

Active(j) == pc[j] \in ActivePc

Hook == [at : {"idle", "response", "status"}, job : Prompt,
         outcome : {"none", "completed", "failed"}]

IdleHook == [at |-> "idle", job |-> NoJob, outcome |-> "none"]

TypeOK ==
  /\ status \in Status
  /\ audit \in Payload
  /\ genStatus \in {"null", "pending", "processing", "completed", "failed"}
  /\ jobId \in Prompt
  /\ prompt \in Job
  /\ interp \in Prompt
  /\ draftSource \in {"null", "interpretation_only", "provider"}
  /\ spec \in SpecPayload
  /\ response \in Prompt
  /\ published \in BOOLEAN
  /\ delivery \in BOOLEAN
  /\ api \in [Job -> {"idle", "reset", "pending", "enqueue", "end"}]
  /\ pc \in [Job -> JobPc]
  /\ attempt \in [Job -> 0..MaxTries]
  /\ loc \in [Job -> Local]
  /\ render \in [Job -> {"none", "running", "completed", "failed"}]
  /\ hook \in [Handler -> Hook]
  /\ deliveries \in 0..MaxDeliveries

\* create_or_reuse has just inserted the row; its caller goes on to MarkPending.
Init ==
  /\ status = "queued"
  /\ audit = NullPayload
  /\ genStatus = "null"
  /\ jobId = NoJob
  /\ prompt = FirstJob
  /\ interp = NoJob
  /\ draftSource = "null"
  /\ spec = NoSpec
  /\ response = NoJob
  /\ published = FALSE
  /\ delivery = FALSE
  /\ api = [j \in Job |-> IF j = FirstJob THEN "pending" ELSE "idle"]
  /\ pc = [j \in Job |-> "none"]
  /\ attempt = [j \in Job |-> 0]
  /\ loc = [j \in Job |-> NoLocal]
  /\ render = [j \in Job |-> "none"]
  /\ hook = [h \in Handler |-> IdleHook]
  /\ deliveries = 0

--------------------------------------------------------------------------------
\* The REST calls: create (from the INSERT on), confirm and skip_clarification.

ApiGoto(j, l) == api' = [api EXCEPT ![j] = l]

\* A terminal generation is returned as it is; any other one will be reset.
\* "already processing" is not tested.
ResetUnlessTerminal(j) ==
  /\ api[j] = "idle"
  /\ ApiGoto(j, IF IsTerminal(status) THEN "end" ELSE "reset")
  /\ UNCHANGED <<rowVars, taskVars, render, hookVars>>

\* confirm, with the prompt the teacher has agreed to.
Confirm(j) == ResetUnlessTerminal(j)

\* skip_clarification, with an enriched form of the prompt it has just read.
SkipClarification(j) == ResetUnlessTerminal(j)

\* Mutant: the old trail survives the reset.
ResetKeepingAudit(j) ==
  /\ api[j] = "reset"
  /\ status' = "queued"
  /\ genStatus' = "null"
  /\ prompt' = j
  /\ interp' = NoJob
  /\ draftSource' = "null"
  /\ spec' = NoSpec
  /\ response' = NoJob
  /\ delivery' = FALSE
  /\ ApiGoto(j, "pending")
  /\ UNCHANGED <<audit, jobId, published, taskVars, render, hookVars>>

\* reset_for_reprocessing: unconditional, keeps the publication entities and
\* the job id.
ResetForReprocessing(j) ==
  /\ api[j] = "reset"
  /\ status' = "queued"
  /\ audit' = NullPayload
  /\ genStatus' = "null"
  /\ prompt' = j
  /\ interp' = NoJob
  /\ draftSource' = "null"
  /\ spec' = NoSpec
  /\ response' = NoJob
  /\ delivery' = FALSE
  /\ ApiGoto(j, "pending")
  /\ UNCHANGED <<jobId, published, taskVars, render, hookVars>>

\* update_generation_job_status with a fresh job id.
MarkPending(j) ==
  /\ api[j] = "pending"
  /\ jobId' = j
  /\ genStatus' = "pending"
  /\ ApiGoto(j, "enqueue")
  /\ UNCHANGED <<status, audit, prompt, classVars, response, published,
                 delivery, taskVars, render, hookVars>>

\* enqueue: XADD with attempt 1.
Enqueue(j) ==
  /\ api[j] = "enqueue"
  /\ ApiGoto(j, "end")
  /\ pc' = [pc EXCEPT ![j] = "waiting"]
  /\ attempt' = [attempt EXCEPT ![j] = 1]
  /\ UNCHANGED <<rowVars, loc, render, hookVars>>

\* A statement fails and the call returns an error, the XADD fails and is only
\* logged, or the gateway stops.
CallCutOff(j) ==
  /\ Faults
  /\ api[j] \in {"reset", "pending", "enqueue"}
  /\ ApiGoto(j, "end")
  /\ UNCHANGED <<rowVars, taskVars, render, hookVars>>

--------------------------------------------------------------------------------
\* The worker's task around process().

Goto(j, l) == pc' = [pc EXCEPT ![j] = l]

Raise(j, class) == Goto(j, class)

OthersUnchanged == UNCHANGED <<api, attempt, render, hookVars>>

\* A worker takes the entry and a permit and calls process().
TakeJob(j) ==
  /\ pc[j] = "waiting"
  /\ Cardinality({k \in Job : Active(k)}) < Permits
  /\ Goto(j, "initialize")
  /\ loc' = [loc EXCEPT ![j] = NoLocal]
  /\ UNCHANGED <<rowVars, api, attempt, render, hookVars>>

\* Mutant: the job goes back with the attempt it came with.
RetrySameAttempt(j) ==
  /\ pc[j] = "retryable"
  /\ attempt[j] + 1 <= MaxTries
  /\ Goto(j, "waiting")
  /\ UNCHANGED <<rowVars, api, attempt, loc, render, hookVars>>

\* A retryable error with tries left: back off, then re-enqueue.
Retry(j) ==
  /\ pc[j] = "retryable"
  /\ attempt[j] + 1 <= MaxTries
  /\ Goto(j, "waiting")
  /\ attempt' = [attempt EXCEPT ![j] = @ + 1]
  /\ UNCHANGED <<rowVars, api, loc, render, hookVars>>

\* Mutant: a permanent error goes to the DLQ without mark_failed.
BuryWithoutMark(j) ==
  /\ \/ pc[j] = "permanent"
     \/ pc[j] = "retryable" /\ attempt[j] + 1 > MaxTries
  /\ Goto(j, "dead")
  /\ IF MarkFailedAllowed(status) /\ pc[j] = "retryable"
     THEN /\ status' = "failed"
          /\ genStatus' = "failed"
          /\ audit' = MarkFailedPayload(status, audit)
     ELSE UNCHANGED <<status, genStatus, audit>>
  /\ UNCHANGED <<jobId, prompt, classVars, response, published, delivery, loc>>
  /\ OthersUnchanged

\* send_to_dlq: mark_failed, whose refusal is ignored.
Bury(j) ==
  /\ \/ pc[j] = "permanent"
     \/ pc[j] = "retryable" /\ attempt[j] + 1 > MaxTries
  /\ Goto(j, "dead")
  /\ IF MarkFailedAllowed(status)
     THEN /\ status' = "failed"
          /\ genStatus' = "failed"
          /\ audit' = MarkFailedPayload(status, audit)
     ELSE UNCHANGED <<status, genStatus, audit>>
  /\ UNCHANGED <<jobId, prompt, classVars, response, published, delivery, loc>>
  /\ OthersUnchanged

\* The worker stops; the entry stays in the pending list and is never run again.
TaskCutOff(j) ==
  /\ Faults
  /\ Active(j)
  /\ Goto(j, "stranded")
  /\ UNCHANGED <<rowVars, loc>>
  /\ OthersUnchanged

\* A statement or a service call of process() fails.
StepFails(j, class) ==
  /\ pc[j] \in ProcessPc
  /\ class = "permanent" => pc[j] \in ServicePc
  /\ Raise(j, class)
  /\ UNCHANGED <<rowVars, loc>>
  /\ OthersUnchanged

--------------------------------------------------------------------------------
\* process(): statement by statement.

\* A SELECT whose only effect is the branch taken.
Test(j, at, condition, yes, no) ==
  /\ pc[j] = at
  /\ Goto(j, IF condition THEN yes ELSE no)
  /\ UNCHANGED <<rowVars, loc>>
  /\ OthersUnchanged

\* AuditTrailService::transition.
Transition(j, at, to, next) ==
  /\ pc[j] = at
  /\ IF TransitionAllowed(status, to)
     THEN /\ status' = to
          /\ audit' = TransitionPayload(status, audit, to)
          /\ Goto(j, next)
     ELSE /\ Raise(j, "retryable")
          /\ UNCHANGED <<status, audit>>
  /\ UNCHANGED <<genStatus, jobId, prompt, classVars, response, published,
                 delivery, loc>>
  /\ OthersUnchanged

InitializeAudit(j) ==
  /\ pc[j] = "initialize"
  /\ audit' = Initialize(audit)
  /\ Goto(j, "early")
  /\ UNCHANGED <<status, genStatus, jobId, prompt, classVars, response,
                 published, delivery, loc>>
  /\ OthersUnchanged

TestTerminal(j) == Test(j, "early", IsTerminal(status), "done", "ckInterpreting")

\* --- ensure_classified ---

TestBeforeInterpreting(j) ==
  Test(j, "ckInterpreting", StatusBefore(status, "interpreting"),
       "trInterpreting", "hasClassification")

EnterInterpreting(j) ==
  Transition(j, "trInterpreting", "interpreting", "hasClassification")

\* Mutant: any stored specification counts (the bug the code's comment tells of).
HasAnySpec == interp # NoJob /\ spec # NoSpec

HasClassification ==
  /\ interp # NoJob
  /\ spec # NoSpec
  /\ draftSource # "interpretation_only"

TestClassification(j) ==
  Test(j, "hasClassification", HasClassification, "ckClassified", "interpret")

\* InterpretStepAdapter::interpret reads raw_prompt, asks the model, and only
\* then writes the interpretation.
ReadPrompt(j) ==
  /\ pc[j] = "interpret"
  /\ loc' = [loc EXCEPT ![j].interp = prompt]
  /\ Goto(j, "saveInterpretation")
  /\ UNCHANGED rowVars
  /\ OthersUnchanged

SaveInterpretation(j) ==
  /\ pc[j] = "saveInterpretation"
  /\ interp' = loc[j].interp
  /\ Goto(j, "resolve")
  /\ UNCHANGED <<status, audit, genStatus, jobId, prompt, draftSource, spec,
                 response, published, delivery, loc>>
  /\ OthersUnchanged

\* DecisionService::resolve, from the interpretation the task holds and maybe a
\* draft: writes the decision and the specification together.
Resolve(j, at, source, newSpec, next) ==
  /\ pc[j] = at
  /\ draftSource' = source
  /\ spec' = newSpec
  /\ Goto(j, next)
  /\ UNCHANGED <<status, audit, genStatus, jobId, prompt, interp, response,
                 published, delivery, loc>>
  /\ OthersUnchanged

ResolveWithoutDraft(j) ==
  Resolve(j, "resolve", "interpretation_only",
          [kind |-> "interpretation", of |-> {loc[j].interp}], "draft")

\* DraftStepAdapter::draft reads the interpretation back from the row ...
ReadInterpretation(j) ==
  /\ pc[j] = "draft"
  /\ IF interp = NoJob
     THEN Raise(j, "retryable") /\ UNCHANGED loc
     ELSE Goto(j, "saveDraft") /\ loc' = [loc EXCEPT ![j].read = interp]
  /\ UNCHANGED rowVars
  /\ OthersUnchanged

\* ... and, when the model has answered, resolves with the draft in its
\* envelope, which names the source.
SaveDraft(j) ==
  Resolve(j, "saveDraft", "provider",
          [kind |-> "drafted", of |-> {loc[j].read}], "resolveDraft")

\* ensure_classified resolves once more, with the bare draft it was returned.
\* A bare draft has no "source", so the decision says interpretation_only.
ResolveWithDraft(j) ==
  Resolve(j, "resolveDraft", "interpretation_only",
          [kind |-> "drafted", of |-> {loc[j].interp, loc[j].read}],
          "ckClassified")

TestBeforeClassified(j) ==
  Test(j, "ckClassified", StatusBefore(status, "classified"),
       "trClassified", "ckGenerating")

EnterClassified(j) ==
  Transition(j, "trClassified", "classified", "ckGenerating")

\* --- ensure_generated ---

\* Mutant: a generation past the checkpoint is not posted again.
SkipGenerating(j) ==
  Test(j, "ckGenerating", StatusBefore(status, "generating"),
       "trGenerating", "isProcessing")

TestBeforeGenerating(j) ==
  Test(j, "ckGenerating", StatusBefore(status, "generating"),
       "trGenerating", "loadSpec")

EnterGenerating(j) ==
  Transition(j, "trGenerating", "generating", "loadSpec")

\* submit_job: load_spec, then the POST.
LoadSpec(j) ==
  /\ pc[j] = "loadSpec"
  /\ IF spec = NoSpec
     THEN Raise(j, "retryable") /\ UNCHANGED loc
     ELSE Goto(j, "post") /\ loc' = [loc EXCEPT ![j].spec = spec]
  /\ UNCHANGED rowVars
  /\ OthersUnchanged

\* The renderer takes the job; its answer may still be lost (a timeout or an
\* unreadable body), which process() reports as an error.
PostJob(j) ==
  /\ pc[j] = "post"
  /\ render' = [render EXCEPT ![j] = "running"]
  /\ \/ Goto(j, "setProcessing")
     \/ Raise(j, "retryable")
  /\ UNCHANGED <<rowVars, api, attempt, loc, hookVars>>

\* UPDATE ... SET generation_status = 'processing': no condition on the value
\* it overwrites.
SetProcessing(j) ==
  /\ pc[j] = "setProcessing"
  /\ genStatus' = "processing"
  /\ Goto(j, "isProcessing")
  /\ UNCHANGED <<status, audit, jobId, prompt, classVars, response, published,
                 delivery, loc>>
  /\ OthersUnchanged

TestProcessing(j) ==
  Test(j, "isProcessing", genStatus = "processing", "done", "hasEntities")

\* --- ensure_published ---

TestEntities(j) ==
  Test(j, "hasEntities", published, "ckPublishing", "publish")

TestBeforePublishing(j) ==
  Test(j, "ckPublishing", StatusBefore(status, "publishing"),
       "trPublishing", "hasDelivery")

EnterPublishing(j) ==
  Transition(j, "trPublishing", "publishing", "hasDelivery")

\* publish_inner is one transaction under the row lock; it does not touch the
\* status.
Publish(j) ==
  /\ pc[j] = "publish"
  /\ IF status \in {"completed", "cancelled"}
     THEN Goto(j, "hasDelivery") /\ UNCHANGED <<published, delivery>>
     ELSE IF response = NoJob
     THEN Raise(j, "retryable") /\ UNCHANGED <<published, delivery>>
     ELSE Goto(j, "hasDelivery") /\ published' = TRUE /\ delivery' = TRUE
  /\ UNCHANGED <<status, audit, genStatus, jobId, prompt, classVars, response,
                 loc>>
  /\ OthersUnchanged

\* --- ensure_completed ---

TestDelivery(j) == Test(j, "hasDelivery", delivery, "ckCompleted", "compose")

\* ComposeStepAdapter::compose decodes the UUID columns topic_id and content_id
\* as integers, which fails as soon as they are set.
Compose(j) ==
  /\ pc[j] = "compose"
  /\ IF published
     THEN Raise(j, "retryable") /\ UNCHANGED delivery
     ELSE Goto(j, "ckCompleted") /\ delivery' = TRUE
  /\ UNCHANGED <<status, audit, genStatus, jobId, prompt, classVars, response,
                 published, loc>>
  /\ OthersUnchanged

TestBeforeCompleted(j) ==
  Test(j, "ckCompleted", StatusBefore(status, "completed"),
       "trCompleted", "done")

EnterCompleted(j) == Transition(j, "trCompleted", "completed", "done")

--------------------------------------------------------------------------------
\* The Python renderer and the webhook endpoint it calls.

RenderEnds(j, outcome) ==
  /\ render[j] = "running"
  /\ render' = [render EXCEPT ![j] = outcome]
  /\ UNCHANGED <<rowVars, api, taskVars, hookVars>>

\* Mutant: the verdict is saved without the renderer's answer.
ReceiveVerdictOnly(h, j) ==
  /\ hook[h].at = "idle"
  /\ deliveries < MaxDeliveries
  /\ render[j] \in {"completed", "failed"}
  /\ deliveries' = deliveries + 1
  /\ IF jobId = j /\ genStatus \notin {"completed", "failed"}
     THEN hook' = [hook EXCEPT ![h] = [at |-> "status", job |-> j,
                                       outcome |-> render[j]]]
     ELSE UNCHANGED hook
  /\ UNCHANGED <<rowVars, api, taskVars, render>>

\* A request with the job's verdict arrives, perhaps not for the first time.
\* find_by_job_id and the duplicate test read the row once.
ReceiveWebhook(h, j) ==
  /\ hook[h].at = "idle"
  /\ deliveries < MaxDeliveries
  /\ render[j] \in {"completed", "failed"}
  /\ deliveries' = deliveries + 1
  /\ IF jobId = j /\ genStatus \notin {"completed", "failed"}
     THEN hook' = [hook EXCEPT ![h] =
                     [at |-> IF render[j] = "completed" THEN "response"
                                                        ELSE "status",
                      job |-> j, outcome |-> render[j]]]
     ELSE UNCHANGED hook
  /\ UNCHANGED <<rowVars, api, taskVars, render>>

\* update_s3_metadata and update_payloads.
SaveResponse(h) ==
  /\ hook[h].at = "response"
  /\ response' = hook[h].job
  /\ hook' = [hook EXCEPT ![h].at = "status"]
  /\ UNCHANGED <<status, audit, genStatus, jobId, prompt, classVars, published,
                 delivery, api, taskVars, render, deliveries>>

\* update_generation_job_status: the verdict, and the job id once more.
SaveVerdict(h) ==
  /\ hook[h].at = "status"
  /\ genStatus' = hook[h].outcome
  /\ jobId' = hook[h].job
  /\ hook' = [hook EXCEPT ![h] = IdleHook]
  /\ UNCHANGED <<status, audit, prompt, classVars, response, published,
                 delivery, api, taskVars, render, deliveries>>

WebhookCutOff(h) ==
  /\ Faults
  /\ hook[h].at # "idle"
  /\ hook' = [hook EXCEPT ![h] = IdleHook]
  /\ UNCHANGED <<rowVars, api, taskVars, render, deliveries>>

--------------------------------------------------------------------------------
CallStep(j) ==
  \/ ResetForReprocessing(j)
  \/ MarkPending(j)
  \/ Enqueue(j)

ProcessStep(j) ==
  \/ InitializeAudit(j)
  \/ TestTerminal(j)
  \/ TestBeforeInterpreting(j)
  \/ EnterInterpreting(j)
  \/ TestClassification(j)
  \/ ReadPrompt(j)
  \/ SaveInterpretation(j)
  \/ ResolveWithoutDraft(j)
  \/ ReadInterpretation(j)
  \/ SaveDraft(j)
  \/ ResolveWithDraft(j)
  \/ TestBeforeClassified(j)
  \/ EnterClassified(j)
  \/ TestBeforeGenerating(j)
  \/ EnterGenerating(j)
  \/ LoadSpec(j)
  \/ PostJob(j)
  \/ SetProcessing(j)
  \/ TestProcessing(j)
  \/ TestEntities(j)
  \/ TestBeforePublishing(j)
  \/ EnterPublishing(j)
  \/ Publish(j)
  \/ TestDelivery(j)
  \/ Compose(j)
  \/ TestBeforeCompleted(j)
  \/ EnterCompleted(j)

TaskStep(j) == TakeJob(j) \/ Retry(j) \/ Bury(j) \/ ProcessStep(j)

WebhookStep(h) == SaveResponse(h) \/ SaveVerdict(h)

\* Everyone is done: no call, task, render or request is left.
Settled ==
  /\ \A j \in Job : /\ api[j] = "end"
                    /\ pc[j] \in {"none", "done", "dead", "stranded"}
                    /\ render[j] # "running"
  /\ \A h \in Handler : hook[h].at = "idle"
  /\ UNCHANGED vars

Next ==
  \/ \E j \in Job :
       \/ Confirm(j)
       \/ SkipClarification(j)
       \/ CallStep(j)
       \/ CallCutOff(j)
       \/ TaskStep(j)
       \/ TaskCutOff(j)
       \/ \E class \in ErrorPc : StepFails(j, class)
       \/ \E outcome \in {"completed", "failed"} : RenderEnds(j, outcome)
  \/ \E h \in Handler :
       \/ \E j \in Job : ReceiveWebhook(h, j)
       \/ WebhookStep(h)
       \/ WebhookCutOff(h)
  \/ Settled

Spec == Init /\ [][Next]_vars

\* What the program itself keeps moving: a request that has started, a worker
\* with work, a task, a webhook request.  The renderer is assumed to finish the
\* jobs it accepted and to report them; nothing makes a client call confirm.
Fairness ==
  /\ \A j \in Job : /\ WF_vars(CallStep(j))
                    /\ WF_vars(TaskStep(j))
                    /\ WF_vars(\E o \in {"completed", "failed"} :
                                 RenderEnds(j, o))
  /\ \A h \in Handler : WF_vars(WebhookStep(h))
  /\ WF_vars(\E h \in Handler, j \in Job : ReceiveWebhook(h, j))

FairSpec == Spec /\ Fairness

--------------------------------------------------------------------------------
\* Properties.

\* Whatever the interleaving of tasks, resets and burials, the audit payload is
\* NULL only on a queued row and is otherwise the complete, legal path to the
\* status column: nobody writes the column without the trail, and a reset never
\* leaves a stale trail behind.
AuditMatchesStatus ==
  \/ audit = NullPayload /\ status = "queued"
  \/ IsPathTo(audit, status)

\* A step changes the lifecycle status along the matrix, or it is the reset of
\* reset_for_reprocessing, which also wipes the trail and everything classified.
StatusFollowsMatrix ==
  [][status' # status =>
       \/ CanTransition(status, status')
       \/ /\ status' = "queued"
          /\ audit' = NullPayload
          /\ spec' = NoSpec]_vars

\* process() never gets past "generating": nothing moves a generation to
\* "uploading" since the webhook replaced that step, so every later transition
\* is refused by the matrix and the generation can only fail.
NeverPastGenerating ==
  status \in {"queued", "interpreting", "classified", "generating", "failed"}

\* generation_status says "completed" only once the renderer's answer, which the
\* publication service reads, is on the row, and "processing" only once the
\* renderer has taken a job: the webhook writes its columns before the verdict,
\* ensure_generated posts before it updates.
GenStatusIsGrounded ==
  /\ genStatus = "completed" => response # NoJob
  /\ genStatus = "processing" => \E j \in Job : render[j] # "none"

\* When process() returns Ok and its job is acknowledged, the generation is over
\* or this very job has been posted to the renderer: no checkpoint, no column
\* another job of the row has written, lets a task finish without either.
DoneIsHandedOver ==
  [][\A j \in Job :
       pc[j] # "done" /\ pc'[j] = "done"
         => IsTerminal(status) \/ render[j] # "none"]_vars

\* A job in the dead-letter queue leaves its generation failed, for good: no
\* retry, late webhook or leftover task of the same row revives it.
DeadIsFailed ==
  \A j \in Job : pc[j] = "dead" => status = "failed"

\* The renderer is only ever sent a specification made from a draft, never the
\* interpretation-only one that resolve() stores half-way (the bug that
\* has_classification's comment describes).
DraftedSpecOnly ==
  \A j \in Job : pc[j] = "post" => loc[j].spec.kind = "drafted"

\* Every job that reaches the queue is eventually acknowledged, dead or, if its
\* worker stops, stranded: no step waits for ever and the retries run out.
JobsEnd ==
  \A j \in Job : pc[j] = "waiting" ~> pc[j] \in {"done", "dead", "stranded"}
================================================================================
