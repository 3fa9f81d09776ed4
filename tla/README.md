# Formal model of the klass gateway

The klass gateway (Rust, `src/src/`) takes a teacher's prompt over REST, asks back for what the
prompt leaves out, turns it into a specification with two LLM calls, has a Python service render
it, publishes the result, and shows it on a home page. This directory holds TLA+ models of that
system, TLC runs on small instances and TLAPS proofs. Paths below are relative to `src/src/`.

## Inventory

| Part | State | Operations | Talks to |
|---|---|---|---|
| Lifecycle (`orchestrator/lifecycle.rs`) | none: nine statuses and a matrix | `can_transition`, `status_before` | everything below |
| Audit trail (`orchestrator/audit_trail.rs`) | `status`, `orchestration_audit_payload` of a row | `initialize`, `transition`, `mark_failed`, each a transaction under the row lock | workflow, dead-letter queue |
| Workflow (`orchestrator/workflow.rs`, `llm/step_adapters.rs`) | the columns of one `media_generations` row | `process`: four checkpointed steps, statement by statement, no lock between them | LLM services, renderer, publication |
| Renderer client and webhook (`media_gen/python_client.rs`, `api/rest/media_webhook.rs`) | `generation_status`, `generation_job_id`, `generator_service_response` | `submit_job`; three updates per webhook request | the Python renderer (external) |
| Submission and its REST (`orchestrator/submission.rs`, `api/rest/media_generations.rs`, `db/repositories/media_generations.rs`) | rows, `request_fingerprint`, `active_duplicate_key`, the stream | `create`, `confirm`, `skip_clarification`, `regenerate`, `index`, `show`, the chain | PostgreSQL's unique index, the queue |
| Clarification (`api/rest/clarification.rs`, `llm/clarification.rs`, `standards/content_standards.rs`) | none: the client holds the prompt | preflight, gap analysis, questions, `enrich_prompt` | the interpretation provider |
| Contracts (`contracts/prompt_interpretation.rs`, `contracts/content_draft.rs`) | none | repair, decode, validate, fall back, plan mode | LLM services |
| Decision (`orchestrator/decision.rs`) | `interpretation_payload`, `decision_payload`, `generation_spec_payload` | `resolve`: scores, ranking, tie-break, the specification | workflow |
| Queue (`queue/redis_streams.rs`, `queue/worker.rs`, `queue/dead_letter.rs`, `main.rs`) | stream, consumer group, pending list, dead-letter stream, permits | enqueue, read, claim, run, retry, bury, revive; crash and restart | workflow |
| Circuit breaker (`queue/worker.rs`) | two atomics shared by the loop and its tasks | open, close, cool down | the worker loop |
| Publication and storage (`media_gen/publication.rs`, `storage/r2.rs`, upload handlers) | objects of the buckets; topics, contents, projects; an avatar URL | `publish` with compensation, upload, delete, the admin's form | object storage (external) |
| LLM services, cache, governance, providers (`llm/`, `cache/`, `governance/`, `providers/`) | `llm_cache_entries`, advisory locks, window buckets, the ledger, the router's failure counter | one call: limit, cache, lock or wait, provider, store, ledger, charge | PostgreSQL's sessions, OpenRouter (external) |
| Catalogue (`api/rest/admin/`, `api/rest/topics.rs`, `contents.rs`, `gallery.rs`, repositories) | topics, contents, projects, sections, settings, the activity log | create, update, publish, reorder, bulk update, delete, listings | home page |
| Recommendation (`recommendation/`, `api/rest/homepage_recommendations.rs`) | `system_recommendation_assignments` | the feed, its tracking, the distribution summary | catalogue, publication |
| Auth, marketplace, user and subject administration | tables, Redis counters | mostly single statements | - |

What is hard here: tasks of the same row run concurrently and test before they write; identical
submissions race to one unique index; the renderer's answer can arrive at any time, twice, or not
at all; every external call can succeed and still report failure; the queue is at-least-once with
retries as new entries; worker processes stop and are restarted; a breaker is shared without a
lock; limits are tested before and charged after a call; locks belong to sessions of a pool;
administrators write back what they read before others wrote; the feed is assembled from reads
that edits come between; and a provider may answer anything. What makes each part correct is in
the comment above each property and in the table of runs.

## Modules

The life of a generation:

* `Lifecycle`: the statuses, the matrix, `OrderIndex` and `StatusBefore` as constant operators.
* `AuditTrail` (extends `Lifecycle`): the payload of a row, reduced to `current_status` and
  `status_history`, and the three transactions as operators from the row read to the row written.
* `Workflow` (extends `AuditTrail`): one row and all who work on it. A job is one REST call that
  queues the row, so `Job` names at once the call (`api`), the worker task (`pc`, `attempt`,
  `loc`), the render (`render`) and the prompt the call wrote. Each SQL statement, transaction or
  external call of `process()` is an action; `StepFails` lets any of them fail, with the class
  `is_retryable_error` gives it. `ReceiveWebhook`, `SaveResponse` and `SaveVerdict` are the
  statements of `webhook_handler`. Generations do not share rows, so one row stands for all.
* `Submission` (extends `Lifecycle`): many rows and the requests that share them. `req[r].pc` is
  the statement a request is at; `LookupActive`, `InsertRow`, `InsertConflict` and `RetryLookup`
  are `create_or_reuse`; `TestConfirm`, `TestSkip`, `ResetRow`, `SaveClarification`,
  `MarkPending` and `Enqueue*` the handlers around it; `ReadParent`, `CopyParent`,
  `InsertRegeneration` and `SubmitRegeneration` regenerate. `Index`, `Chain` and
  `AttachRelations` are the reads. The worker is reduced to what submissions can tell: a queued
  job brings its row to an end.
* `JobQueue`: what the queue promises: a job is run at most `MaxTries` times per submission,
  never twice at once, and ends done, dead or stranded. `Workflow` treats the queue like this.
* `StreamQueue`: the Redis stream, its group and pending list, the worker loops and their tasks,
  the dead-letter queue, crashes, Redis and database errors, and the restart in `main.rs`.
  It implements `JobQueue` under the mapping `State`, `Tries` (the state of a job is that of its
  latest entry).
* `CircuitBreaker`: the breaker's atomics, load by load and store by store, with a clock.
* `LlmCall`: several calls of the interpret, draft and respond services at a time, against the
  tables, advisory locks and router they share. The services repeat the same code, so one
  module has all three; `Route` and `Bypass` are where they differ. A statement or a provider
  attempt is a step; a lock names the session that took it.

What the steps compute:

* `ContentStandards`: fields, requirements, detectors and the gap analysis. A prompt is a sequence
  of pieces, each known by the keywords, words and numbers the detectors find in it.
* `Clarification` (extends `ContentStandards`): preflight, the questions and their chips,
  `enrich_prompt`; the dialogue that goes round through them.
* `Contracts`: a provider's answer is the JSON shape under each field the code looks at; repair,
  decoding and validation are operators on these shapes, and so are the fallback and plan mode.
* `Decision`: keyword signals, scores in units of 0.0001, the ranking with its comparator and the
  tie-break, `BuildGenerationSpec`. The order in which a `HashMap` yields the formats is an
  argument (`HashOrders`).
* `Pipeline` (extends the four): dialogue, interpretation or fallback or cache hit, draft,
  decision, specification, one action each.

Around it:

* `Publication`: files, the rows that refer to them, and the requests that put them there or take
  them away. A row lock is held over uploads; inserts are seen at the commit; any external step
  fails, the answer to a commit may be lost, a call may be cut off.
* `Catalogue`: two administrators' requests, statement by statement, with the row locks of the
  transactions and PostgreSQL's choice of a victim; the listings and detail pages as operators.
* `Recommendation`: the feed request, one action per read, then selection, order and tracking;
  `SetPublish`, `UpdateTopic` and `ToggleActive` are administrators' edits between the reads.
  `topic` and `project` hold the columns that are edited, the others are read from the rows at the
  start. `Sorted` is the insertion sort that `sort_by` runs on up to 20 items; what it does to a
  longer list with a comparison that is no order is not specified (it may panic), so the
  properties of mixed feeds speak of feeds sorted like this.

`MCWorkflow`, `MCSubmission`, `MCStreamQueue`, `MCCircuitBreaker`, `MCLlmCall`, `MCPipeline`,
`MCPublication`, `MCCatalogue` and `MCRecommendation` are the modules TLC runs.
`WorkflowProofs`, `SubmissionProofs`, `StreamQueueProofs`, `LlmCallProofs`, `PipelineProofs`,
`PublicationProofs`, `CatalogueProofs` and `RecommendationProofs` hold the theorems; each extends
the module it is about (`WorkflowProofs` also `CircuitBreaker`).

Definitions marked "Mutant" are deliberately wrong variants of the definition that follows
them. No specification uses them: they are there to show that the properties can fail.

## Runs

| Run | Instance | Properties | Distinct states |
|---|---|---|---|
| `MCWorkflowOne` | one job, three tries, two webhook requests at a time, cut-offs | `NeverPastGenerating`, `GenStatusIsGrounded`, `DeadIsFailed`, `DraftedSpecOnly`, `JobsEnd` | 33,747 |
| `MCWorkflowTwo` | a create and a confirm of one row, one try each, their tasks at once | `AuditMatchesStatus`, `StatusFollowsMatrix`, `DoneIsHandedOver` | 298,841 |
| `MCSubmission` | three requests of two teachers, two spellings of a prompt, three rows | `OneActivePerFingerprint`, `ActiveRowHasARunner`, `ReadsAreTrue`, `ConflictOnlyAfterEnd` | 1,719,230 |
| `MCStreamQueueFaults` | one job, crashes, Redis and database errors, one manual revival | `OneLiveEntry`, `NothingVanishes`, `ImplementsJobQueue` | 19,818 |
| `MCStreamQueueLive` | two jobs, two workers, no faults | `JobsEnd` | 134,469 |
| `MCCircuitBreaker` | two tasks, a clock | `PauseIsBounded`, `CircuitCloses` | 55,899 |
| `MCLlmCallBudget` | three interpretations, two at a time, failing statements, two windows, a fallback provider | `OverrunIsBounded` | 432,767 |
| `MCLlmCallShared` | two deliveries and a draft on two sessions, all keys on one lock | `SharedAnswersAreGood`, `LedgerIsTrue`, `OpenCircuitStays`, `CallsEnd` | 70,098 |
| `MCPipeline` | 14 prompts of one or two phrases, two preferences, two rounds, answers and drafts with each defect | `WrittenAnswersSettle`, `RepairOnlyHelps`, `PlanModeIsStable`, `DecisionIsSettled`, `SpecIsRenderable` | 28,586 |
| `MCPublication` | two publishers of one generation, an avatar upload, and a form or a second avatar upload; one deletion, one cut-off | `RowsHaveTheirFiles`, `RefersToOnePublication`, `FailureLeavesOnlyTheThumbnail` | 1,239,114 |
| `MCCatalogue` | two admin requests of any kind on three topics, three contents, a project, two sections, two settings | `BulkIsAtomic`, `NoOrphans`, `AnswersAreHonest`, `ReadsAgree`, `ReorderPermutes` | 41,941 |
| `MCRecommendation` | two requests, two teachers and the guest, three topics, four projects, one edit between reads | `NothingTwiceNothingLost`, `FeedFitsTheTeacher`, `FeedIsInOrder`, `ServedIsRecorded` | 434,629 |

What they show:

* A generation's status moves only along the matrix or back to `queued` by a reset, and the audit
  trail is always the complete path to it, although every test and write of `process()` is a
  separate statement and two tasks and a reset interleave.
* A job is acknowledged only when its generation is over or the renderer was sent this very job;
  `generation_status` says completed or failed only when the renderer did; a dead job leaves its
  generation failed (with a single job of the row).
* Identical submissions share one generation, by the unique index and not by the lookup before it.
  Since the key is never cleared, a prompt whose generation has ended is refused with an error, and
  that is the only case. Every active row has a job, except those whose enqueue failed and was
  only logged and the regenerations.
* The stream, with its retries as new entries and its claims, never has two live entries of a
  job, and implements `JobQueue`, unless an administrator retries a second time a job whose
  dead-letter entry could not be deleted. What a stop or an error between `XACK` and `XADD` loses is
  exactly what the history variable `lost` names.
* A rate limit can be overrun, since it is tested before and charged after a call, but only by
  the calls that were under way: the excess is below the worker's concurrency. The property is
  about interpretations; an exhausted policy degrades deliveries and drafts but never stops them,
  so their counters have no bound.
* Fallback payloads and degraded answers are never served to another call. The anti-stampede
  lock leaks, yet every call ends, because the wait for it has a deadline.
* An answer that `enrich_prompt` writes settles the question it answers (some answers it does not
  write); repair never breaks a good answer and is idempotent; the decision does not
  depend on the hash order unless two scores are 0.0001 apart; whatever the providers say, the
  specification can be rendered.
* What can be opened exists in the store, a generation refers to one publication, and a failed
  one leaves at most its thumbnail; exceptions are a commit whose answer was lost, an admin's
  delete, and an avatar upload between its delete and its update.
* Reorder permutes, bulk updates are atomic, no content outlives its topic, the answer of an admin
  request tells what happened (only `toggle_active` may change a row and answer 404), and the
  listings and the detail pages agree.
* A feed has nothing twice and loses no admin upload although its reads see different moments;
  what was served is recorded, and the summary is true of the records.

## Bounds and fairness

Only jobs of the same row, requests with the same fingerprint, calls with the same key, policy or
lock, workers of the same stream and requests on the same rows interact, so two or three of each
show every pairwise interleaving; the third LLM call is what sees the counters two concurrent ones
left, the third submission is another teacher's. Three tries (`MAX_TRIES`) are used with one job,
so that the first, a middle and the last attempt differ; with two jobs one try each is enough for
what their tasks do to each other. Two webhook requests at a time are needed for a duplicate.
`MaxRequests` is 1 and `Threshold` 1 or 2, so that limits are reached with three calls.
`MaxTime`, `MaxSpawn` and `MaxFailures` leave room for two openings of the breaker, one of them
by a task older than a cooldown. `MaxWindow` is 1: a call begins in one window and is charged in
the next.

`MaxRows` is the number of submissions, so the bound never stops one; `ChainLimit` is 2 (50 in the
code), so that a chain of three rows is cut. `MaxRounds`, `MaxAnswers` and `MaxPieces` are 2: a
second preflight sees what the first one's answers wrote, and two answers can disturb each other.
The prompts and answers of `MCPipeline` have every defect alone and the ones that meet the prompt
together. `MaxRemoved` and `MaxCutOff` are 1, since one lost object or call already breaks what
can be broken. `MaxEdits` is 1: an edit between two reads; `StartActive` gives feeds with and
without admin uploads, and empty ones. The catalogue's start orders are those of an imported
table, since no code of the gateway sets an order other than 0.

Symmetry (of calls, requests and publishers that differ in nothing but their name)
is used in `MCLlmCallBudget`, `MCStreamQueueFaults`, `MCSubmission`, `MCPublication` and
`MCRecommendation`, which check no liveness. `MCPublication`, `MCCatalogue` and
`MCRecommendation` do not check for deadlock: their requests are made once and the system stops.

Larger instances were run once while the modules were written and passed as well: the workflow
with two jobs and two tries, the stream with two workers and all faults, the budget with two
sessions and without symmetry.

Fairness. `Workflow`: weak fairness of the REST call's, the task's and the webhook request's own
steps, of the renderer's end and of the delivery of its webhook: each is code that runs on its
own once started, with timeouts on what it waits for, and the renderer retries its callback. No
fairness on faults or on starting a call. `StreamQueue`: weak fairness of each worker's loop and
each task. `CircuitBreaker`: the loop, the tasks and the clock. `LlmCall`: weak fairness of the
steps of a call that has begun; provider attempts and the wait for the cache have timeouts.
`JobsEnd` of the workflow counts a stranded job (its worker stopped) as ended, since nothing
recovers it; for the same reason `MCStreamQueueLive` has no faults. The other modules state no
liveness: their requests run straight through.

`Workflow`, `StreamQueue`, `CircuitBreaker` (`BreakerTypeOK`) and `LlmCall` define a type invariant,
which is proved and in no run.

## Proofs

Eight modules hold theorems that TLAPS checks for every value of the constants. What they assume
of the constants are the named assumptions of the modules (`WorkflowAssumption`,
`StreamQueueAssumption` and so on: sets are finite, numbers are natural, NULL is no id, tables have
no row in common, a UUID names one thing), which TLC evaluates on every run. Two theorems need one more hypothesis,
`NoSecondRetry`, three need `OneJob`, one needs `ConsistentPayloads`, and the audit trail needs that
`HISTORY_LIMIT` is at least the nine entries a path can have (it is 50). The bounds that TLC needs
are arbitrary numbers in the proofs.

The life of a generation (`WorkflowProofs`, `SubmissionProofs`):

* `AuditMatchesStatusThm`. `AuditMatchesStatus` alone is not inductive: appending to a full
  history drops its first entry, and a trail of unknown length could be full. `AuditInv` adds
  that the history is no longer than `OrderIndex` of its last status plus one, which every
  legal move keeps because the matrix only goes up in that order. Lemmas about the operators
  (`Initialize`, a legal move and `mark_failed` keep a good trail) come first, then one step per
  action.
* `StatusFollowsMatrixThm`: every action that writes `status` goes through `TransitionAllowed`,
  `MarkFailedAllowed` or the reset.
* `NeverPastGeneratingThm`: the state set is closed, because `uploading` is entered by nothing.
* `TypeOKThm`, from `AuditInv` and `TypeInv`; the latter adds that a webhook request under way
  carries a verdict, without which `SaveVerdict` could write anything.
* `DoneIsHandedOverThm`, from `PostedInv`: a task past the POST has a render. The checkpoints are
  read from columns other tasks write, so the proof is about what each test lets pass.
* `GenStatusIsGroundedThm`, `DeadIsFailedThm` and `DraftedSpecOnlyThm`, with `OneJob`: one job of
  the row. With a second one they are false: its `reset_for_reprocessing` wipes the row the first
  still works on (see the divergences). `QueuedOnce` says that its call queues the job once and
  the worker begins after that, `VerdictInv` that "completed" is saved only behind a response and
  "processing" only behind a POST, `DraftInv` that a task which `ensure_classified` let pass finds
  a drafted specification, because what `resolve` stores half-way names the interpretation.
* `OneActivePerFingerprintThm`. Not inductive either: a row that ended may be brought back by
  `confirm`, and a second active row with its key would follow. `KeyInv` (`KeyInvThm`) says more,
  that no two rows have one key whether they ended or not; the two INSERTs keep it by the index,
  the three UPDATEs and the worker because they leave the key alone (`InsertKeeps`,
  `UpdateKeeps`). A change that cleared the key at the end of a generation would have to replace
  this argument.
* `ConflictsAreOver`, `OwnAnswers` and `RowsHaveRunners`, from `SubInv`: the rows have unique keys,
  the row a request is about is one it looked up or inserted (so of its teacher and fingerprint),
  and every active row is queued, awaited by a request that will enqueue it, or one of the named
  exceptions. `OwnAnswers` is the part of `ReadsAreTrue` about what a submission is answered
  with.
* `ReadsAreTrueThm`: lists and chains too. `FromInv` says that a row is generated from an older
  row of its teacher, so that a chain climbs downwards in the order of insertion and ends;
  `Bounded` that row numbers stay below the next one. The chain is a recursive function, shown
  to exist by induction over that order; a list is the rows by their place, the number of newer
  ones, and in a finite, totally ordered set each place is taken by one row (`Places`).

The queue and its breaker (`StreamQueueProofs`, `WorkflowProofs`):

* `QueueTypes`, from `TypeInv`, which adds that a task that will add its entry again has a try left.
* `OneLive`. `OneLiveEntry` speaks of the entries of a job; the invariant orders them. `PlaceInv`
  says that a delivered entry is at one place, in one worker's batch or one task, `OutcomeInv`
  that it is marked succeeded or buried exactly where its task is past that point, and `LastInv`
  that only the latest entry of a job may be unsettled, and that a job that can still be retried
  from the dead-letter queue has a latest entry that was buried and is settled.
* `Accounts`: `NothingVanishes` is kept action by action on top of `OutcomeInv`.
* `Refines`: `StreamQueue` implements `JobQueue`. `Mapped` computes the abstract state from the
  latest entry of each job, and each action is shown to be a step of one job (`MovesJob`), a
  fault that strands jobs (`StrandsJobs`), a new submission (`GrowsJob`) or a stutter.
* `NoSecondRetry` (`MaxRevives <= 1`, or no Redis errors): `retry_from_dlq` ignores the error of
  `XDEL` (`queue/dead_letter.rs:248`). The entry then stays in the dead-letter queue, and a second
  retry adds a second live entry of the job; with `MaxRevives` 2 and Redis faults TLC shows two
  tasks of one job. The hypothesis is used in that step only. `QueueTypes` and `Accounts` do not
  need the hypothesis.
* `PausesAreBounded` and `BreakerTypes`: `PauseInv` adds that the times tasks captured lie in the
  past, which is what bounds the opening they compute from them.

LLM calls (`LlmCallProofs`):

* `CallTypes`, from `TypeInv`, which adds that a held advisory lock has a positive count.
* `SharedAnswers` and `LedgerTrue`, from `AnswerInv`: what a call carries at each statement, from
  which follows what it may store and what its ledger row says.
* `CircuitHasNoWayBack`: an action property; only a provider's answer resets the counter.
* `OverrunBounded`. The counter alone is not inductive: `BudgetInv` says that the charges of a
  window plus the calls that passed the test and may still be charged to it stay below
  `MaxRequests + Permits`. A call that passes saw the counter below the limit, and the calls in
  between are fewer than the permits; the sum is over finite sets of calls.

What the steps compute (`PipelineProofs`), all from `PipelineInv`: past the interpretation there is a
payload of the decoded shape or the fallback of this prompt (`PayloadInv`), past the draft a
draft with blocks (`UsableInv`), past the decision a specification with both (`DecidedInv`). The
theorems speak of any number of prompts and answers; `AnswersAssumption` and `QuantityAssumption`
say of which shape these are.

* `RepairOnlyHelpsThm` and `PlanModeIsStableThm`: each step of the repair leaves a field that is as
  it should be alone, and no later step touches a field an earlier one looks at, so that a second
  repair changes nothing. The same argument, field by field, for plan mode.
* `DecisionIsSettledThm`: for any order of the `HashMap`. A score is a fold over signals, a maximum
  of finitely many numbers (`GreatestElement`); comparing scores and then names is a strict order,
  so that the best format is the same whichever comes first.
* `SpecIsRenderableThm`: case by case over where the interpretation came from.

Publication (`PublicationProofs`):

* `LinksHold` and `FailuresCleanUp`, from `FilesInv`: for each call, at each step, which of its
  objects are in the store (`CallsInv`), which rows refer to them (`RowsInv`), what an avatar
  upload has replaced (`AvatarInv`, `AvatarLinked`) and what a compensation still has to delete
  (`FailureInv`).
* `OnePublication`, from `RefersInv`: `publish` locks the row and replaces all its references in one
  transaction, and a delete clears references without adding any, so they have one source.

The catalogue (`CatalogueProofs`), all from one invariant `Inv`:

* `ContentsHaveTopics`: `GroupsLive` adds that the group of a live content is a topic, and
  `ReadInv` that an update remembers one.
* `AnswersHonest`: `AnswerInv` says what a request has changed and logged at each statement.
* `BulkUpdatesAreAtomic`: `BulkInv` says that a bulk update holds every row of its table but those
  it has not come to, `HeldBy` that it holds no other, so that the commit writes exactly a table.
  Uses that a request names each row once (`OrderIsComplete`).
* `ReordersPermute`: `MoveInv` says that reorder holds the row it moves, which keeps the order that
  was read, and at the swap the neighbour too; `Minds` that nobody else touches a held row. The
  counts follow from exchanging one element of a finite set (`Exchange`). That a live row was
  created (`Stamped`) rests on the existence of a maximum (`GreatestElement`), proved by taking a
  smallest subset without one.
* `ReadsTellOneStory`: `Dated` says that contents have different dates, `Meant` that a setting's text
  is its value in the one spelling. A listing's pages partition it because each row has one place under an order.

The feed (`RecommendationProofs`), from `FeedInv` (`FeedInvariant`): the feed of a request is the one
`BuildFeedSnapshot` makes of the context, projects and topics it read. What it says of these is
free of variables, so that no edit between the reads can disturb it; all the rest is about one
call of `build_feed_snapshot`.

* `NothingTwiceNothingLostThm`: a topic that a project stands for is suppressed,
  references of projects and ids differ; the sort only rearranges (`InsertArranges`).
* `FeedFitsTheTeacherThm`: `SelectionIs` says what each group means; the catalogue excludes what the
  teacher wrote about, so the groups do not overlap.
* `FeedIsInOrderThm`: `compare_items` is asymmetric, so an insertion leaves no two neighbours
  reversed, order or not. Admin uploads come first in the input and are sorted, by a transitive
  comparison, before a system item moves; without them the comparison is transitive throughout.
* `ServedIsRecordedThm`, from `RecordInv` (`RecordInvariant`). That what was shown is recorded is not
  inductive: while a request writes row by row, the rest of its feed is not. `Covered` says that each
  key of a feed is recorded or still to be, `TodoInv` that what is still to be comes from the feed,
  `RowTrue` that a row tells what some request served, under the key it served it. No action changes
  a feed, a user or a moment once it is set, so rows stay true next to other requests. The summary
  is then a matter of operators: each sub-subject has one best candidate, since comparing counts,
  times and references is a strict order (`CandidatesOrdered`, `BestAre`), and a sequence whose k-th
  element has k - 1 before it lists a finite, ordered set in its order (`InOrderIs`).
* `ConsistentPayloads`: a project's `source_payload` names the subject its sub-subject belongs to. The
  endpoints that write it take any JSON, so the code does not see to that; without it the rows of
  an item fall into several groups of `find_distribution_summary`, and the summary counts fewer
  teachers than were served. `RecordInvariant`, what rows and feeds have to do with each other,
  does not need it; only the summary does.

Only model-checked:

* every liveness property (`JobsEnd`, `CircuitCloses`, `CallsEnd`): outside what the prover does;
* `WrittenAnswersSettle`: the detectors pick pieces of a prompt by concrete tables of keywords with
  `SelectSeq`, whose recursive definition the provers do not see through.

## Divergences between the code and what is said of it

Met while modelling. None has a run of its own; where a property is named, it states what is
left of the claim, or has the exception.

The life of a generation:

* `ensure_generated` sets `generation_status` to `processing` after the POST with no condition on
  what it overwrites (`orchestrator/workflow.rs:380`), so the verdict of a webhook that arrives
  first is lost and a client polls for ever. `migrations/20260712000107_add_async_job_tracking.sql:5`
  says "(pending -> processing -> completed/failed) driven by Python Arq worker webhook callbacks".
* A task that read `raw_prompt` before the reset saves its interpretation after it
  (`llm/step_adapters.rs:133`); the confirmed job finds the row classified and renders the old
  prompt. `api/rest/clarification.rs:454` says "Clear all classification payloads (forces the
  worker to re-classify)".
* The consumer group is created at `$` (`queue/redis_streams.rs:65`), so what was enqueued before
  the first worker booted is never delivered; `api/rest/media_generations.rs:278` says "The
  worker will run the full LLM pipeline".
* `claim_pending` drops the reply of `XCLAIM` (`queue/worker.rs:456`) and only new entries are
  read, so an entry of a stopped worker changes owner for ever and is never run;
  `queue/worker.rs:9` says "`XCLAIM` after idle timeout 300s for recovery".
* `pg_try_advisory_lock` runs on whichever connection of the pool is free (`cache/mod.rs:316`); a
  second call that is lent the same session takes the lock again. `cache/mod.rs:312-313` says
  "only one concurrent request should call the LLM for a given cache key". A release on another
  session leaves the key locked until the pool replaces that connection, and until then each call
  with it waits ten seconds; half of all keys share lock 1 (`cache/mod.rs:144`); the cache is not
  looked into again once the lock is taken; a draft bypasses the cache but still waits for an
  entry that nobody stores.
* A generation whose rendering succeeded never ends: since the webhook replaced the synchronous
  call nothing moves it to `uploading`, although `orchestrator/workflow.rs:8` and `:10` describe
  the later steps (`NeverPastGenerating`).
* `orchestrator/workflow.rs:15` says finished steps are skipped, but the second `resolve()` gets
  the bare draft, which has no `source`, so `has_classification` is false and every retry
  interprets and drafts again.
* `circuit_open_until` is computed from the loop iteration that spawned the task
  (`queue/worker.rs:303`): after a task longer than the cooldown the circuit opens in the past,
  and the pause `queue/worker.rs:19-20` promises does not happen.
* Between the two `resolve()` calls (`orchestrator/workflow.rs:264`) a row has a specification
  without a draft, and with two tasks of one row the other may post it.
* `retry_from_dlq` ignores the error of `XDEL` (`queue/dead_letter.rs:248`), answers that it has
  deleted the entry and enqueues: a second retry then runs the job beside the first. The comment
  at `queue/dead_letter.rs:168` says "Delete the DLQ entry and re-enqueue".
* `retry_from_dlq` leaves the generation failed (`queue/dead_letter.rs:158-159`), so the revived
  job ends at the terminal test.
* A restarted embedded worker gets a new semaphore while old tasks run (`main.rs:94`).
* With several jobs of one row `generation_status` and the dead-letter mark of one job can
  describe another; `GenStatusIsGrounded` and `DeadIsFailed` are checked with a single job.
* The backoff is 10, 20, 40 seconds; `queue/worker.rs:14-15` says 10, 30, 90. The loop sleeps
  where `queue/worker.rs:141-142` says it does not.
* `orchestrator/lifecycle.rs:8` says any non-terminal state may be cancelled; the matrix does not
  let `publishing` be.
* The router's circuit has no cooldown: once open and with no call at the provider, it stays open
  until the process ends (`OpenCircuitStays`). `main.rs` configures no fallback provider.

Submission:

* `confirm` and `skip_clarification` test for a terminal status and reset in two statements
  (`api/rest/clarification.rs:411`): a generation that fails in between is brought back, and a
  skip writes back the prompt it read over that of a concurrent confirm.
* The fingerprint stays that of the first prompt after a confirm changes it.
* `active_duplicate_key` is never cleared, so a prompt whose generation has ended cannot be
  submitted again; a second regeneration with the same text is an internal error.
* A regeneration is never enqueued: `submit_job` finds no specification, which is only logged.
* The subject of a sub-subject is shown only when another row of the batch names it
  (`attach_relations`); `find_chain` is not scoped to a teacher.

Publication and storage:

* `media_gen/publication.rs:16` says uploads are compensated; thumbnails never are
  (`FailureLeavesOnlyTheThumbnail`). The renderer's thumbnail is uploaded as svg into a bucket
  that refuses svg (`media_gen/publication.rs:480`).
* `r2::delete` never reports an error. A commit whose answer was lost is compensated, although
  its rows stay. A date that does not parse fails the admin's form after the upload.
* The row lock is held over downloads and uploads; rows that are `failed` are published too; a
  published topic gets `ownership_status` `owned`, where readers look for `normalized`.
* The old avatar is deleted before the row is updated.

Catalogue:

* No code sets an `order` other than 0, so reordering rows the program created always answers that
  the row is at the edge; concurrent reorders may swap rows that are no longer neighbours.
* Updates write back every column they read; a project updated without `ends_at` gets
  `ends_at = starts_at`; `toggle_active` may change a row and answer 404; a failing activity log
  turns a committed change into a 500.
* Rows created at the same moment have no order, so they may show on two pages or on none; listings
  go newest first, the topic's page oldest first.

Clarification, contracts and decision:

* "kelas 10" to "kelas 12" are read as the first grade; one worksheet keyword alone gives no
  content type; `penilaian` is never detected; "0 slide" gives a specification of no units.
* Slide questions exceed the documented maximum of five, and a deck is never ready;
  `enrich_prompt` reads slides 1 to 20 only and drops the answers to several fields; it is called
  by `skip_clarification` only, with no answers, where its comment names confirm. The answer
  `docx` is dropped when the prompt says "lembar kerja", and asked for again.
* `preflight_with_interpretation` and `get_minimum_requirements` are called from tests only.
* `truncate_str` adds "..." beyond the limit it enforces
  (`contracts/prompt_interpretation.rs:1265`, `contracts/content_draft.rs:456`), so a field cut by
  repair fails validation; a blank `teacher_prompt` is repaired with itself and a string as
  `target_audience` not at all; two other contracts cut strings at a byte.
* The explanation of a tie says "PDF > DOCX > PPTX" while `type_priority` lets PPTX win; scores
  0.0001 apart make the comparison cyclic (`DecisionIsSettled` excludes them); a cache hit asks for
  the difficulty even when the prompt names it, and regenerates the plan mode that a fresh answer
  keeps.

Recommendation:

* A published generation never replaces its topic in the feed, although
  `recommendation/aggregation.rs:26-27` says so; it has no `source_payload`, so it is never
  eligible for a teacher with preferences, and its topic has no sub-subject and the user's id
  where activity is looked up by e-mail (`api/rest/homepage_recommendations.rs:429`).
* `compare_items` is not transitive when admin uploads mix with system items
  (`recommendation/aggregation.rs:796-830`); with more than 20 items the sort may panic.
  `FeedIsInOrder` states what is left.
* Tracking records items beyond the limit that was shown; `first_distributed_at` may be later than
  `last_distributed_at` with concurrent requests; a topic that moves to another sub-subject splits
  its teachers over two groups of the summary, which only tests call.

## Not modelled

* Authentication: tokens, sessions, password reset, the login limit. In the other modules a
  request carries its user. Seen in passing: the limit's INCR and EXPIRE are two commands, two
  refreshes of one token may both succeed, `register` looks up the e-mail as typed and inserts it
  trimmed.
* Freelancer matching and the marketplace: floating point scores and single-statement writes.
* Student progress, users and subjects in the administration: single statements on one table.
* `recommendation/taxonomy.rs` (keyword tables), the contracts of documents the program itself
  builds, question texts, chips and the suggested prompt: text no decision reads.
* HTTP, request signing and the provider clients' own retries: an attempt answers or fails.
* Start-up, configuration, seeds, health, `api/openapi.rs`; `record_attempt_failure` and other code
  without a caller.
* A process that stops in the middle of an LLM call: `Workflow` has it as a task that is cut off;
  in `LlmCall` the session closes, but the call's row in the ledger is not followed.
* `Workflow` does not look into an LLM call, `LlmCall` knows nothing of the row, and `Pipeline`
  computes without faults: they meet in the answers a call may give.

## Plan

1. Proofs: `WrittenAnswersSettle`, with the detectors written as sets of positions; a form of
   `GenStatusIsGrounded` that names the job it is about and holds for any number.
2. `Marketplace`: tasks, bids and assignment, freelancer matches; properties about assignment races.
3. `Auth`: issue, use, refresh and revocation of tokens.
4. An abstract specification of one LLM call (an answer that is fresh or shared, charged at most
   once), implemented by `LlmCall`.
