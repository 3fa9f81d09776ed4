----------------------------- MODULE WorkflowProofs ----------------------------
(***************************************************************************)
(* What holds of Workflow for every set of jobs and webhook requests and   *)
(* every number of tries, permits and deliveries, faults included; the     *)
(* three theorems with OneJob are about a generation that is queued once.  *)
(*                                                                         *)
(* The last section is about CircuitBreaker, the two atomics of the worker *)
(* that runs these jobs, for any number of tasks, any threshold, cooldown  *)
(* and length of time.                                                     *)
(***************************************************************************)
EXTENDS Workflow, CircuitBreaker, TLAPS

--------------------------------------------------------------------------------
\* The lifecycle matrix and the audit trail's transactions.

\* The path to a status, together with the bound on its length that keeps
\* AppendHistory from dropping entries.
GoodTrail(payload, s) ==
  /\ payload \in Payload
  /\ IsPathTo(payload, s)
  /\ Len(payload.history) <= OrderIndex[s] + 1

\* can_transition only ever leads to a later position of order_index, so no
\* chain of transitions is longer than the lifecycle has positions.
LEMMA TransitionClimbs ==
  ASSUME NEW from \in Status, NEW to, CanTransition(from, to)
  PROVE  /\ to \in Status
         /\ OrderIndex[from] \in 0..8
         /\ OrderIndex[to] \in 0..8
         /\ OrderIndex[from] < OrderIndex[to]
BY DEF CanTransition, NextStatuses, Status, OrderIndex

\* A terminal status has no successor.
LEMMA TerminalIsClosed ==
  ASSUME NEW from \in Terminal, NEW to
  PROVE  ~CanTransition(from, to)
BY DEF CanTransition, NextStatuses, Status, Terminal

\* The base payload is the trail of a queued generation.
LEMMA BaseIsGood == GoodTrail(BasePayload, "queued")
<1>1. BasePayload \in Payload
  BY DEF BasePayload, Payload, HistoryEntry, Status, NoStatus
<1>2. IsPathTo(BasePayload, "queued")
  BY DEF BasePayload, IsPathTo
<1>3. Len(BasePayload.history) <= OrderIndex["queued"] + 1
  BY DEF BasePayload, OrderIndex, Status
<1>4. QED
  BY <1>1, <1>2, <1>3 DEF GoodTrail

\* NULL is never mistaken for a trail.
LEMMA GoodIsNotNull ==
  ASSUME NEW p, NEW s, GoodTrail(p, s)
  PROVE  p # NullPayload /\ PayloadOrBase(p) = p
BY DEF GoodTrail, IsPathTo, NullPayload, PayloadOrBase

\* Recording a legal move extends the trail of the old status to one of the new.
LEMMA MovedIsGood ==
  ASSUME NEW p, NEW from \in Status, NEW to, GoodTrail(p, from),
         CanTransition(from, to)
  PROVE  GoodTrail(Moved(p, from, to), to)
<1> DEFINE h == p.history
           e == [from |-> from, to |-> to]
           g == Append(h, e)
           m == Moved(p, from, to)
<1>1. to \in Status /\ OrderIndex[from] \in 0..8 /\ OrderIndex[to] \in 0..8
      /\ OrderIndex[from] < OrderIndex[to]
  BY TransitionClimbs
<1>2. h \in Seq(HistoryEntry) /\ e \in HistoryEntry
  BY <1>1 DEF GoodTrail, Payload, HistoryEntry
<1>3. g \in Seq(HistoryEntry) /\ Len(g) = Len(h) + 1
  BY <1>2
<1>4. Len(g) <= OrderIndex[to] + 1 /\ Len(g) <= 9
  <2>1. Len(h) \in Nat /\ Len(h) <= OrderIndex[from] + 1
    BY <1>2 DEF GoodTrail
  <2>2. Len(g) = Len(h) + 1
    BY <1>3
  <2>3. ASSUME NEW k \in Nat, NEW a \in 0..8, NEW b \in 0..8, a < b, k <= a + 1
        PROVE  k + 1 <= b + 1 /\ k + 1 <= 9
    BY <2>3
  <2> HIDE DEF h, g
  <2> QED
    BY <1>1, <2>1, <2>2, <2>3
<1>5. AppendHistory(h, e) = g
  BY <1>3, <1>4, HistoryLimitAssumption DEF AppendHistory
<1>6. m = [current |-> to, history |-> g]
  BY <1>5 DEF Moved
<1>7. m \in Payload
  BY <1>1, <1>3, <1>6 DEF Payload
<1>8. /\ h # <<>> /\ Len(h) \in Nat /\ Len(h) >= 1
      /\ h[1] = [from |-> NoStatus, to |-> "queued"]
      /\ \A i \in 2..Len(h) : /\ h[i].from = h[i-1].to
                              /\ CanTransition(h[i].from, h[i].to)
      /\ h[Len(h)].to = from
  BY <1>2 DEF GoodTrail, IsPathTo
<1>9. /\ \A i \in 1..Len(h) : g[i] = h[i]
      /\ g[Len(h) + 1] = e
  BY <1>2
<1>10. g # <<>> /\ g[1] = [from |-> NoStatus, to |-> "queued"]
  BY <1>3, <1>8, <1>9
<1>11. ASSUME NEW i \in 2..Len(g)
       PROVE  g[i].from = g[i-1].to /\ CanTransition(g[i].from, g[i].to)
  <2>1. CASE i \in 2..Len(h)
    <3>1. g[i] = h[i] /\ g[i-1] = h[i-1]
      BY <2>1, <1>8, <1>9
    <3>2. QED
      BY <3>1, <2>1, <1>8
  <2>2. CASE i = Len(h) + 1
    <3>1. g[i] = e /\ g[i-1] = h[Len(h)]
      BY <2>2, <1>8, <1>9
    <3>2. h[Len(h)].to = from /\ e.from = from /\ e.to = to
      BY <1>8
    <3> HIDE DEF h, e, g
    <3>3. QED
      BY <3>1, <3>2
  <2>3. QED
    BY <2>1, <2>2, <1>3, <1>8
<1>12. g[Len(g)].to = to
  BY <1>3, <1>9
<1>13. IsPathTo(m, to)
  BY <1>6, <1>10, <1>11, <1>12 DEF IsPathTo
<1>14. QED
  BY <1>4, <1>6, <1>7, <1>13 DEF GoodTrail

--------------------------------------------------------------------------------
\* Who writes the audit columns.

\* Everything outside the audit transactions and the reset leaves the two audit
\* columns alone; this is the frame most steps share.
AuditFrame == UNCHANGED <<status, audit>>

\* The steps that do write them.
AuditStep(j) ==
  \/ ResetForReprocessing(j)
  \/ Bury(j)
  \/ InitializeAudit(j)
  \/ EnterInterpreting(j)
  \/ EnterClassified(j)
  \/ EnterGenerating(j)
  \/ EnterPublishing(j)
  \/ EnterCompleted(j)

\* No other step of any actor touches them.
LEMMA AuditFrameLemma ==
  ASSUME Next, ~\E j \in Job : AuditStep(j)
  PROVE  AuditFrame
<1>1. ASSUME NEW j \in Job, Confirm(j) \/ SkipClarification(j) \/ CallStep(j)
                            \/ CallCutOff(j)
      PROVE  AuditFrame
  <2>1. ~ResetForReprocessing(j)
    BY DEF AuditStep
  <2>2. QED
    BY <1>1, <2>1
    DEF Confirm, SkipClarification, ResetUnlessTerminal, CallStep, CallCutOff,
        MarkPending, Enqueue, rowVars, AuditFrame
<1>2. ASSUME NEW j \in Job, TakeJob(j) \/ Retry(j) \/ TaskCutOff(j)
                            \/ \E class \in ErrorPc : StepFails(j, class)
      PROVE  AuditFrame
  BY <1>2 DEF TakeJob, Retry, TaskCutOff, StepFails, rowVars, AuditFrame
<1>3. ASSUME NEW j \in Job, ProcessStep(j)
      PROVE  AuditFrame
  <2>1. ~AuditStep(j)
    OBVIOUS
  <2>2. QED
    BY <1>3, <2>1
    DEF AuditStep, ProcessStep, Test, Resolve, TestTerminal,
        TestBeforeInterpreting, TestClassification, ReadPrompt,
        SaveInterpretation, ResolveWithoutDraft, ReadInterpretation, SaveDraft,
        ResolveWithDraft, TestBeforeClassified, TestBeforeGenerating, LoadSpec,
        PostJob, SetProcessing, TestProcessing, TestEntities,
        TestBeforePublishing, Publish, TestDelivery, Compose,
        TestBeforeCompleted, rowVars, AuditFrame
<1>4. ASSUME NEW j \in Job,
             \E outcome \in {"completed", "failed"} : RenderEnds(j, outcome)
      PROVE  AuditFrame
  BY <1>4 DEF RenderEnds, rowVars, AuditFrame
<1>5. ASSUME NEW h \in Handler, \/ \E j \in Job : ReceiveWebhook(h, j)
                                \/ WebhookStep(h)
                                \/ WebhookCutOff(h)
      PROVE  AuditFrame
  BY <1>5 DEF ReceiveWebhook, WebhookStep, SaveResponse, SaveVerdict,
              WebhookCutOff, rowVars, AuditFrame
<1>6. CASE Settled
  BY <1>6 DEF Settled, vars, rowVars, AuditFrame
<1>7. ASSUME NEW j \in Job, Bury(j)
      PROVE  AuditFrame
  BY <1>7 DEF AuditStep
<1>8. QED
  BY <1>1, <1>2, <1>3, <1>4, <1>5, <1>6, <1>7 DEF Next, TaskStep

--------------------------------------------------------------------------------
\* The audit trail.

\* The inductive form of AuditMatchesStatus: the trail is also well-typed and no
\* longer than the status is far along.
AuditInv ==
  /\ status \in Status
  /\ \/ audit = NullPayload /\ status = "queued"
     \/ GoodTrail(audit, status)

\* Whatever payload a transaction starts from, filling in the base payload gives
\* the trail of the current status.
LEMMA PayloadOrBaseIsGood ==
  ASSUME AuditInv
  PROVE  GoodTrail(PayloadOrBase(audit), status)
<1>1. CASE audit = NullPayload /\ status = "queued"
  BY <1>1, BaseIsGood DEF PayloadOrBase
<1>2. CASE GoodTrail(audit, status)
  BY <1>2, GoodIsNotNull
<1>3. QED
  BY <1>1, <1>2 DEF AuditInv

\* Writing the status a trail already ends in into current_status changes
\* nothing.
LEMMA SameCurrent ==
  ASSUME NEW p, NEW s, GoodTrail(p, s)
  PROVE  [p EXCEPT !.current = s] = p
BY DEF GoodTrail, IsPathTo, Payload

\* AuditTrailService::transition, allowed or refused, keeps the trail good.
LEMMA TransitionKeepsAudit ==
  ASSUME AuditInv, NEW j, NEW at, NEW to, NEW next, Transition(j, at, to, next)
  PROVE  AuditInv'
<1>1. CASE ~TransitionAllowed(status, to)
  BY <1>1 DEF Transition, AuditInv
<1>2. CASE TransitionAllowed(status, to)
  <2>1. status' = to /\ audit' = TransitionPayload(status, audit, to)
    BY <1>2 DEF Transition
  <2>2. CASE status = to
    <3>1. audit' = [PayloadOrBase(audit) EXCEPT !.current = status]
      BY <2>1, <2>2 DEF TransitionPayload
    <3>2. GoodTrail(audit', status')
      BY <2>1, <2>2, <3>1, PayloadOrBaseIsGood, SameCurrent
    <3>3. QED
      BY <2>1, <2>2, <3>2 DEF AuditInv
  <2>3. CASE status # to /\ CanTransition(status, to)
    <3>1. audit' = Moved(PayloadOrBase(audit), status, to)
      BY <2>1, <2>3 DEF TransitionPayload
    <3>2. GoodTrail(audit', to)
      BY <2>3, <3>1, PayloadOrBaseIsGood, MovedIsGood DEF AuditInv
    <3>3. to \in Status
      BY <2>3, TransitionClimbs DEF AuditInv
    <3>4. QED
      BY <2>1, <3>2, <3>3 DEF AuditInv
  <2>4. QED
    BY <1>2, <2>2, <2>3 DEF TransitionAllowed
<1>3. QED
  BY <1>1, <1>2

\* So does mark_failed, also on a generation that has failed before.
LEMMA BuryKeepsAudit ==
  ASSUME AuditInv, NEW j, Bury(j)
  PROVE  AuditInv'
<1>1. CASE ~MarkFailedAllowed(status)
  BY <1>1 DEF Bury, AuditInv
<1>2. CASE MarkFailedAllowed(status)
  <2>1. status' = "failed" /\ audit' = MarkFailedPayload(status, audit)
    BY <1>2 DEF Bury
  <2>2. CASE CanTransition(status, "failed")
    <3>1. audit' = Moved(PayloadOrBase(audit), status, "failed")
      BY <2>1, <2>2 DEF MarkFailedPayload
    <3>2. GoodTrail(audit', "failed")
      BY <2>2, <3>1, PayloadOrBaseIsGood, MovedIsGood DEF AuditInv
    <3>3. QED
      BY <2>1, <3>2 DEF AuditInv, Status
  <2>3. CASE ~CanTransition(status, "failed")
    <3>1. status = "failed"
      BY <1>2, <2>3
      DEF AuditInv, MarkFailedAllowed, CanTransition, NextStatuses, Status
    <3>2. audit' = [PayloadOrBase(audit) EXCEPT !.current = status]
      BY <2>1, <2>3, <3>1 DEF MarkFailedPayload
    <3>3. GoodTrail(audit', status')
      BY <2>1, <3>1, <3>2, PayloadOrBaseIsGood, SameCurrent
    <3>4. QED
      BY <2>1, <3>1, <3>3 DEF AuditInv
  <2>4. QED
    BY <2>2, <2>3
<1>3. QED
  BY <1>1, <1>2

\* AuditInv is inductive.
LEMMA AuditInvStep ==
  ASSUME AuditInv, [Next]_vars
  PROVE  AuditInv'
<1>1. ASSUME AuditFrame
      PROVE  AuditInv'
  BY <1>1 DEF AuditFrame, AuditInv
<1>2. ASSUME NEW j \in Job, AuditStep(j)
      PROVE  AuditInv'
  <2>1. CASE ResetForReprocessing(j)
    BY <2>1 DEF ResetForReprocessing, AuditInv, Status
  <2>2. CASE Bury(j)
    BY <2>2, BuryKeepsAudit
  <2>3. CASE InitializeAudit(j)
    <3>1. GoodTrail(audit', status')
      BY <2>3, PayloadOrBaseIsGood DEF InitializeAudit, Initialize
    <3>2. QED
      BY <2>3, <3>1 DEF InitializeAudit, AuditInv
  <2>4. CASE EnterInterpreting(j)
    BY <2>4, TransitionKeepsAudit DEF EnterInterpreting
  <2>5. CASE EnterClassified(j)
    BY <2>5, TransitionKeepsAudit DEF EnterClassified
  <2>6. CASE EnterGenerating(j)
    BY <2>6, TransitionKeepsAudit DEF EnterGenerating
  <2>7. CASE EnterPublishing(j)
    BY <2>7, TransitionKeepsAudit DEF EnterPublishing
  <2>8. CASE EnterCompleted(j)
    BY <2>8, TransitionKeepsAudit DEF EnterCompleted
  <2>9. QED
    BY <1>2, <2>1, <2>2, <2>3, <2>4, <2>5, <2>6, <2>7, <2>8 DEF AuditStep
<1>3. CASE UNCHANGED vars
  BY <1>1, <1>3 DEF vars, rowVars, AuditFrame
<1>4. CASE Next
  BY <1>1, <1>2, <1>4, AuditFrameLemma
<1>5. QED
  BY <1>3, <1>4

\* For any number of concurrent tasks, resets, retries and cut-off steps, the
\* audit payload is NULL on a queued row or is the complete legal path to the
\* status column, as AuditTrailService's transactions mean it to be.
THEOREM AuditMatchesStatusThm == Spec => []AuditMatchesStatus
<1>1. Init => AuditInv
  BY DEF Init, AuditInv, Status
<1>2. AuditInv => AuditMatchesStatus
  BY DEF AuditInv, AuditMatchesStatus, GoodTrail
<1>3. AuditInv /\ [Next]_vars => AuditInv'
  BY AuditInvStep
<1>4. QED
  BY <1>1, <1>2, <1>3, PTL DEF Spec

--------------------------------------------------------------------------------
\* The status.

\* Every step that writes the status column without resetting the row goes
\* through the matrix, so for any number of concurrent tasks the status moves
\* along it or is reset together with the trail and the specification.
THEOREM StatusFollowsMatrixThm == Spec => StatusFollowsMatrix
<1> DEFINE Move == status' # status =>
                     \/ CanTransition(status, status')
                     \/ /\ status' = "queued"
                        /\ audit' = NullPayload
                        /\ spec' = NoSpec
<1>1. Init => AuditInv
  BY DEF Init, AuditInv, Status
<1>2. AuditInv /\ [Next]_vars => AuditInv'
  BY AuditInvStep
<1>3. AuditInv /\ [Next]_vars => [Move]_vars
  <2> SUFFICES ASSUME AuditInv, Next
               PROVE  Move
    OBVIOUS
  <2>1. ASSUME NEW j \in Job, NEW at, NEW to, NEW next,
               Transition(j, at, to, next)
        PROVE  Move
    BY <2>1 DEF Transition, TransitionAllowed
  <2>2. ASSUME NEW j \in Job, Bury(j)
        PROVE  Move
    BY <2>2 DEF Bury, MarkFailedAllowed, AuditInv, CanTransition, NextStatuses,
                Status
  <2>3. ASSUME NEW j \in Job, ResetForReprocessing(j)
        PROVE  Move
    BY <2>3 DEF ResetForReprocessing
  <2>4. ASSUME NEW j \in Job, AuditStep(j)
        PROVE  Move
    BY <2>1, <2>2, <2>3, <2>4
    DEF AuditStep, InitializeAudit, EnterInterpreting, EnterClassified,
        EnterGenerating, EnterPublishing, EnterCompleted
  <2>5. ASSUME AuditFrame
        PROVE  Move
    BY <2>5 DEF AuditFrame
  <2>6. QED
    BY <2>4, <2>5, AuditFrameLemma
<1>4. QED
  BY <1>1, <1>2, <1>3, PTL DEF Spec, StatusFollowsMatrix

\* publishing and completing are refused in every state the row reaches.
LEMMA NeverPastGeneratingStep ==
  ASSUME NeverPastGenerating, [Next]_vars
  PROVE  NeverPastGenerating'
<1>1. ASSUME NEW j \in Job, NEW at, NEW next, NEW to,
             to \in {"interpreting", "classified", "generating",
                     "publishing", "completed"},
             Transition(j, at, to, next)
      PROVE  NeverPastGenerating'
  <2>1. TransitionAllowed(status, to) => to \notin {"publishing", "completed"}
    BY DEF TransitionAllowed, NeverPastGenerating, CanTransition,
           NextStatuses, Status
  <2>2. QED
    BY <1>1, <2>1 DEF Transition, NeverPastGenerating
<1>2. ASSUME NEW j \in Job, AuditStep(j)
      PROVE  NeverPastGenerating'
  <2>1. CASE ResetForReprocessing(j) \/ Bury(j) \/ InitializeAudit(j)
    BY <2>1 DEF ResetForReprocessing, Bury, InitializeAudit,
                NeverPastGenerating
  <2>2. CASE EnterInterpreting(j)
    BY <1>1, <2>2 DEF EnterInterpreting
  <2>3. CASE EnterClassified(j)
    BY <1>1, <2>3 DEF EnterClassified
  <2>4. CASE EnterGenerating(j)
    BY <1>1, <2>4 DEF EnterGenerating
  <2>5. CASE EnterPublishing(j)
    BY <1>1, <2>5 DEF EnterPublishing
  <2>6. CASE EnterCompleted(j)
    BY <1>1, <2>6 DEF EnterCompleted
  <2>7. QED
    BY <1>2, <2>1, <2>2, <2>3, <2>4, <2>5, <2>6 DEF AuditStep
<1>3. ASSUME AuditFrame
      PROVE  NeverPastGenerating'
  BY <1>3 DEF AuditFrame, NeverPastGenerating
<1>4. CASE UNCHANGED vars
  BY <1>3, <1>4 DEF vars, rowVars, AuditFrame
<1>5. QED
  BY <1>2, <1>3, <1>4, AuditFrameLemma

\* No interleaving of tasks, resets and webhook requests takes a generation past
\* "generating": publishing and completing are only legal from states that
\* nothing enters any more.
THEOREM NeverPastGeneratingThm == Spec => []NeverPastGenerating
<1>1. Init => NeverPastGenerating
  BY DEF Init, NeverPastGenerating
<1>2. NeverPastGenerating /\ [Next]_vars => NeverPastGenerating'
  BY NeverPastGeneratingStep
<1>3. QED
  BY <1>1, <1>2, PTL DEF Spec
--------------------------------------------------------------------------------
\* Types.

\* TypeOK without the two audit columns, and with the fact SaveVerdict needs: a
\* webhook request under way carries a job and a verdict.
TypeInv ==
  /\ genStatus \in {"null", "pending", "processing", "completed", "failed"}
  /\ jobId \in Prompt
  /\ prompt \in Job
  /\ interp \in Prompt
  /\ draftSource \in {"null", "interpretation_only", "provider"}
  /\ spec \in SpecPayload
  /\ response \in Prompt
  /\ published \in BOOLEAN
  /\ delivery \in BOOLEAN
  /\ api \in [Job -> {"idle", "reset", "pending", "enqueue", "end"}]
  /\ pc \in [Job -> JobPc]
  /\ attempt \in [Job -> 0..MaxTries]
  /\ loc \in [Job -> Local]
  /\ render \in [Job -> {"none", "running", "completed", "failed"}]
  /\ hook \in [Handler -> Hook]
  /\ deliveries \in 0..MaxDeliveries
  /\ \A h \in Handler : hook[h].at # "idle" => hook[h].outcome # "none"

\* The shape every initial state has.
LEMMA TypeInvInit ==
  ASSUME Init
  PROVE  TypeInv
<1>1. NoSpec \in SpecPayload
  BY DEF NoSpec, SpecPayload
<1>2. NoLocal \in Local
  BY <1>1 DEF NoLocal, Local, Prompt
<1>3. IdleHook \in Hook /\ IdleHook.at = "idle"
  BY DEF IdleHook, Hook, Prompt
<1>4. published \in BOOLEAN /\ delivery \in BOOLEAN
  BY DEF Init
<1>5. /\ hook \in [Handler -> Hook]
      /\ \A h \in Handler : hook[h].at # "idle" => hook[h].outcome # "none"
  BY <1>3 DEF Init
<1>6. QED
  BY <1>1, <1>2, <1>4, <1>5, WorkflowAssumption
  DEF Init, TypeInv, Prompt, JobPc

\* The REST calls keep the types.
LEMMA CallKeepsTypes ==
  ASSUME TypeInv, NEW j \in Job,
         Confirm(j) \/ SkipClarification(j) \/ CallStep(j) \/ CallCutOff(j)
  PROVE  TypeInv'
<1>1. NoSpec \in SpecPayload
  BY DEF NoSpec, SpecPayload
<1>2. CASE Confirm(j) \/ SkipClarification(j) \/ CallCutOff(j)
  BY <1>2
  DEF Confirm, SkipClarification, ResetUnlessTerminal, CallCutOff, ApiGoto,
      rowVars, classVars, taskVars, hookVars, TypeInv
<1>3. CASE ResetForReprocessing(j)
  BY <1>1, <1>3
  DEF ResetForReprocessing, ApiGoto, taskVars, hookVars, Prompt, TypeInv
<1>4. CASE MarkPending(j)
  BY <1>4
  DEF MarkPending, ApiGoto, classVars, taskVars, hookVars, Prompt, TypeInv
<1>5. CASE Enqueue(j)
  BY <1>5, WorkflowAssumption
  DEF Enqueue, ApiGoto, rowVars, classVars, hookVars, JobPc, TypeInv
<1>6. QED
  BY <1>2, <1>3, <1>4, <1>5 DEF CallStep

\* So do the steps of the worker around process().
LEMMA WorkerKeepsTypes ==
  ASSUME TypeInv, NEW j \in Job,
         \/ TakeJob(j) \/ Retry(j) \/ Bury(j) \/ TaskCutOff(j)
         \/ \E class \in ErrorPc : StepFails(j, class)
  PROVE  TypeInv'
<1>1. NoLocal \in Local
  BY DEF NoLocal, Local, NoSpec, SpecPayload, Prompt
<1>2. CASE TakeJob(j)
  BY <1>1, <1>2
  DEF TakeJob, Goto, rowVars, classVars, hookVars, JobPc, ActivePc, ProcessPc,
      TypeInv
<1>3. CASE Retry(j)
  BY <1>3, WorkflowAssumption
  DEF Retry, Goto, rowVars, classVars, hookVars, JobPc, TypeInv
<1>4. CASE Bury(j)
  BY <1>4
  DEF Bury, Goto, OthersUnchanged, classVars, hookVars, JobPc, TypeInv
<1>5. CASE TaskCutOff(j)
  BY <1>5
  DEF TaskCutOff, Goto, OthersUnchanged, rowVars, classVars, hookVars, JobPc,
      TypeInv
<1>6. ASSUME NEW class \in ErrorPc, StepFails(j, class)
      PROVE  TypeInv'
  BY <1>6
  DEF StepFails, Raise, Goto, OthersUnchanged, rowVars, classVars, hookVars,
      JobPc, ActivePc, ErrorPc, TypeInv
<1>7. QED
  BY <1>2, <1>3, <1>4, <1>5, <1>6

\* So do the statements of process().
LEMMA ProcessKeepsTypes ==
  ASSUME TypeInv, NEW j \in Job, ProcessStep(j)
  PROVE  TypeInv'
<1>1. ASSUME NEW at, NEW condition, NEW yes \in JobPc, NEW no \in JobPc,
             Test(j, at, condition, yes, no)
      PROVE  TypeInv'
  BY <1>1
  DEF Test, Goto, OthersUnchanged, rowVars, classVars, hookVars, TypeInv
<1>2. ASSUME NEW at, NEW to, NEW next \in JobPc, Transition(j, at, to, next)
      PROVE  TypeInv'
  BY <1>2
  DEF Transition, Goto, Raise, OthersUnchanged, classVars, hookVars, JobPc,
      ActivePc, ErrorPc, TypeInv
<1>3. ASSUME NEW at, NEW source \in {"interpretation_only", "provider"},
             NEW newSpec \in SpecPayload, NEW next \in JobPc,
             Resolve(j, at, source, newSpec, next)
      PROVE  TypeInv'
  BY <1>3 DEF Resolve, Goto, OthersUnchanged, hookVars, TypeInv
<1>4. ProcessPc \subseteq JobPc /\ ErrorPc \subseteq JobPc /\ "done" \in JobPc
  BY DEF JobPc, ActivePc
<1>5. CASE \/ TestTerminal(j) \/ TestBeforeInterpreting(j)
           \/ TestClassification(j) \/ TestBeforeClassified(j)
           \/ TestBeforeGenerating(j) \/ TestProcessing(j) \/ TestEntities(j)
           \/ TestBeforePublishing(j) \/ TestDelivery(j)
           \/ TestBeforeCompleted(j)
  BY <1>1, <1>4, <1>5
  DEF TestTerminal, TestBeforeInterpreting, TestClassification,
      TestBeforeClassified, TestBeforeGenerating, TestProcessing, TestEntities,
      TestBeforePublishing, TestDelivery, TestBeforeCompleted, ProcessPc
<1>6. CASE \/ EnterInterpreting(j) \/ EnterClassified(j) \/ EnterGenerating(j)
           \/ EnterPublishing(j) \/ EnterCompleted(j)
  BY <1>2, <1>4, <1>6
  DEF EnterInterpreting, EnterClassified, EnterGenerating, EnterPublishing,
      EnterCompleted, ProcessPc
<1>7. CASE ResolveWithoutDraft(j) \/ SaveDraft(j) \/ ResolveWithDraft(j)
  <2>1. loc[j].interp \in Prompt /\ loc[j].read \in Prompt
    BY DEF TypeInv, Local
  <2>2. /\ [kind |-> "interpretation", of |-> {loc[j].interp}] \in SpecPayload
        /\ [kind |-> "drafted", of |-> {loc[j].read}] \in SpecPayload
        /\ [kind |-> "drafted", of |-> {loc[j].interp, loc[j].read}]
             \in SpecPayload
    BY <2>1 DEF SpecPayload
  <2>3. QED
    BY <1>3, <1>4, <1>7, <2>2
    DEF ResolveWithoutDraft, SaveDraft, ResolveWithDraft, ProcessPc
<1>8. CASE InitializeAudit(j)
  BY <1>4, <1>8
  DEF InitializeAudit, Goto, OthersUnchanged, classVars, hookVars, ProcessPc,
      TypeInv
<1>9. CASE ReadPrompt(j) \/ ReadInterpretation(j) \/ LoadSpec(j)
  <2>1. loc' \in [Job -> Local]
    <3>1. /\ loc \in [Job -> Local]
          /\ prompt \in Prompt /\ interp \in Prompt /\ spec \in SpecPayload
      BY DEF TypeInv, Prompt
    <3>2. loc[j] \in Local
      BY <3>1
    <3>3. /\ [loc[j] EXCEPT !.interp = prompt] \in Local
          /\ [loc[j] EXCEPT !.read = interp] \in Local
          /\ [loc[j] EXCEPT !.spec = spec] \in Local
      BY <3>1, <3>2 DEF Local
    <3>4. ASSUME NEW new \in Local
          PROVE  [loc EXCEPT ![j] = new] \in [Job -> Local]
      BY <3>1
    <3>5. \/ loc' = loc
          \/ loc' = [loc EXCEPT ![j] = [loc[j] EXCEPT !.interp = prompt]]
          \/ loc' = [loc EXCEPT ![j] = [loc[j] EXCEPT !.read = interp]]
          \/ loc' = [loc EXCEPT ![j] = [loc[j] EXCEPT !.spec = spec]]
      BY <1>9, <3>1 DEF ReadPrompt, ReadInterpretation, LoadSpec
    <3>6. QED
      BY <3>1, <3>3, <3>4, <3>5
  <2>2. pc' \in [Job -> JobPc]
    BY <1>4, <1>9
    DEF ReadPrompt, ReadInterpretation, LoadSpec, Goto, Raise, ProcessPc,
        ErrorPc, TypeInv
  <2>3. QED
    BY <1>9, <2>1, <2>2
    DEF ReadPrompt, ReadInterpretation, LoadSpec, OthersUnchanged, rowVars,
        classVars, hookVars, TypeInv
<1>10. CASE SaveInterpretation(j) \/ SetProcessing(j)
  BY <1>4, <1>10
  DEF SaveInterpretation, SetProcessing, Goto, OthersUnchanged, classVars,
      hookVars, ProcessPc, TypeInv, Local
<1>11. CASE PostJob(j)
  BY <1>4, <1>11
  DEF PostJob, Goto, Raise, rowVars, classVars, hookVars, ProcessPc, ErrorPc,
      TypeInv
<1>12. CASE Publish(j) \/ Compose(j)
  <2>1. published' \in BOOLEAN /\ delivery' \in BOOLEAN
    BY <1>12 DEF Publish, Compose, TypeInv
  <2>2. pc' \in [Job -> JobPc]
    BY <1>4, <1>12
    DEF Publish, Compose, Goto, Raise, ProcessPc, ErrorPc, TypeInv
  <2>3. QED
    BY <1>12, <2>1, <2>2
    DEF Publish, Compose, OthersUnchanged, classVars, hookVars, TypeInv
<1>13. QED
  BY <1>5, <1>6, <1>7, <1>8, <1>9, <1>10, <1>11, <1>12 DEF ProcessStep

\* So do the renderer and the webhook requests.
LEMMA RendererKeepsTypes ==
  ASSUME TypeInv,
         \/ \E j \in Job, outcome \in {"completed", "failed"} :
              RenderEnds(j, outcome)
         \/ \E h \in Handler, j \in Job : ReceiveWebhook(h, j)
         \/ \E h \in Handler : WebhookStep(h) \/ WebhookCutOff(h)
  PROVE  TypeInv'
<1>1. IdleHook \in Hook /\ IdleHook.at = "idle"
  BY DEF IdleHook, Hook, Prompt
<1>2. ASSUME NEW j \in Job, NEW outcome \in {"completed", "failed"},
             RenderEnds(j, outcome)
      PROVE  TypeInv'
  BY <1>2
  DEF RenderEnds, rowVars, classVars, taskVars, hookVars, TypeInv
<1>3. ASSUME NEW h \in Handler, NEW j \in Job, ReceiveWebhook(h, j)
      PROVE  TypeInv'
  <2>1. /\ hook' \in [Handler -> Hook]
        /\ \A g \in Handler : hook'[g].at # "idle" => hook'[g].outcome # "none"
    BY <1>3 DEF ReceiveWebhook, Hook, Prompt, TypeInv
  <2>2. deliveries' \in 0..MaxDeliveries
    BY <1>3, WorkflowAssumption DEF ReceiveWebhook, TypeInv
  <2>3. QED
    BY <1>3, <2>1, <2>2
    DEF ReceiveWebhook, rowVars, classVars, taskVars, TypeInv
<1>4. ASSUME NEW h \in Handler, WebhookStep(h) \/ WebhookCutOff(h)
      PROVE  TypeInv'
  <2>1. /\ hook' \in [Handler -> Hook]
        /\ \A g \in Handler : hook'[g].at # "idle" => hook'[g].outcome # "none"
    BY <1>1, <1>4
    DEF WebhookStep, SaveResponse, SaveVerdict, WebhookCutOff, Hook, TypeInv
  <2>2. /\ response' \in Prompt
        /\ jobId' \in Prompt
        /\ genStatus' \in {"null", "pending", "processing", "completed",
                           "failed"}
    BY <1>4
    DEF WebhookStep, SaveResponse, SaveVerdict, WebhookCutOff, rowVars, Hook,
        TypeInv
  <2>3. QED
    BY <1>4, <2>1, <2>2
    DEF WebhookStep, SaveResponse, SaveVerdict, WebhookCutOff, rowVars,
        classVars, taskVars, TypeInv
<1>5. QED
  BY <1>2, <1>3, <1>4

\* TypeInv is inductive.
LEMMA TypeInvStep ==
  ASSUME TypeInv, [Next]_vars
  PROVE  TypeInv'
<1>1. CASE UNCHANGED vars
  BY <1>1
  DEF vars, rowVars, classVars, taskVars, hookVars, TypeInv
<1>2. CASE Settled
  BY <1>1, <1>2 DEF Settled
<1>3. ASSUME NEW j \in Job,
             \/ Confirm(j) \/ SkipClarification(j) \/ CallStep(j)
             \/ CallCutOff(j)
      PROVE  TypeInv'
  BY <1>3, CallKeepsTypes
<1>4. ASSUME NEW j \in Job,
             \/ TaskStep(j) \/ TaskCutOff(j)
             \/ \E class \in ErrorPc : StepFails(j, class)
      PROVE  TypeInv'
  BY <1>4, WorkerKeepsTypes, ProcessKeepsTypes DEF TaskStep
<1>5. QED
  BY <1>1, <1>2, <1>3, <1>4, RendererKeepsTypes DEF Next

\* Every column, task, render and request stays within its type for every set
\* of jobs and requests: in particular no attempt counter passes MAX_TRIES and
\* no verdict is written that the renderer did not report.
THEOREM TypeOKThm == Spec => []TypeOK
<1>1. Init => AuditInv /\ TypeInv
  BY TypeInvInit DEF Init, AuditInv, Status
<1>2. AuditInv /\ TypeInv /\ [Next]_vars => (AuditInv /\ TypeInv)'
  BY AuditInvStep, TypeInvStep
<1>3. AuditInv /\ TypeInv => TypeOK
  <2>1. NullPayload \in Payload
    BY DEF NullPayload, Payload
  <2>2. QED
    BY <2>1 DEF AuditInv, GoodTrail, TypeInv, TypeOK
<1>4. QED
  BY <1>1, <1>2, <1>3, PTL DEF Spec
--------------------------------------------------------------------------------
\* What an acknowledged job has done.

\* The steps of process() behind the POST of submit_job.
PostedPc ==
  {"setProcessing", "isProcessing", "hasEntities", "ckPublishing",
   "trPublishing", "publish", "hasDelivery", "compose", "ckCompleted",
   "trCompleted"}

\* A task only gets there by posting, and what the renderer has of a job is
\* never taken back, whichever retry of the job posted it.
PostedInv == \A j \in Job : pc[j] \in PostedPc => render[j] # "none"

\* PostedInv is inductive, and a task reports success only from behind the POST
\* or at the terminal test.
LEMMA PostedInvStep ==
  ASSUME TypeInv, PostedInv, Next
  PROVE  /\ PostedInv'
         /\ \A j \in Job : pc[j] # "done" /\ pc'[j] = "done"
                            => IsTerminal(status) \/ render[j] # "none"
<1> DEFINE Goal == /\ PostedInv'
                   /\ \A j \in Job : pc[j] # "done" /\ pc'[j] = "done"
                            => IsTerminal(status) \/ render[j] # "none"
<1>1. ASSUME UNCHANGED <<pc, render>>
      PROVE  Goal
  BY <1>1 DEF PostedInv
<1>2. ASSUME NEW j \in Job, NEW l, UNCHANGED render, Goto(j, l),
             l \notin PostedPc \/ pc[j] \in PostedPc,
             l = "done" => IsTerminal(status) \/ pc[j] \in PostedPc
      PROVE  Goal
  BY <1>2 DEF Goto, PostedInv, TypeInv
<1>3. ASSUME NEW j \in Job, Confirm(j) \/ SkipClarification(j) \/ CallStep(j)
                            \/ CallCutOff(j)
      PROVE  Goal
  <2>1. CASE Enqueue(j)
    BY <1>2, <2>1 DEF Enqueue, Goto, PostedPc
  <2>2. CASE ~Enqueue(j)
    BY <1>1, <1>3, <2>2
    DEF Confirm, SkipClarification, ResetUnlessTerminal, CallStep, CallCutOff,
        ResetForReprocessing, MarkPending, taskVars
  <2>3. QED
    BY <2>1, <2>2
<1>4. ASSUME NEW j \in Job, TakeJob(j) \/ Retry(j) \/ Bury(j) \/ TaskCutOff(j)
      PROVE  Goal
  BY <1>2, <1>4
  DEF TakeJob, Retry, Bury, TaskCutOff, OthersUnchanged, PostedPc
<1>5. ASSUME NEW j \in Job, NEW class \in ErrorPc, StepFails(j, class)
      PROVE  Goal
  BY <1>2, <1>5 DEF StepFails, Raise, OthersUnchanged, ErrorPc, PostedPc
<1>6. ASSUME NEW j \in Job, ProcessStep(j)
      PROVE  Goal
  <2>1. ASSUME NEW at, NEW c, NEW yes, NEW no, Test(j, at, c, yes, no),
               at \in PostedPc \/ {yes, no} \cap (PostedPc \cup {"done"}) = {}
        PROVE  Goal
    BY <1>2, <2>1 DEF Test, OthersUnchanged
  <2>2. ASSUME NEW at, NEW to, NEW next, Transition(j, at, to, next),
               at \in PostedPc \/ next \notin PostedPc \cup {"done"}
        PROVE  Goal
    BY <1>2, <2>2 DEF Transition, Raise, OthersUnchanged, PostedPc
  <2>3. CASE \/ TestBeforeInterpreting(j) \/ TestClassification(j)
             \/ TestBeforeClassified(j) \/ TestBeforeGenerating(j)
             \/ TestProcessing(j) \/ TestEntities(j)
             \/ TestBeforePublishing(j) \/ TestDelivery(j)
             \/ TestBeforeCompleted(j)
    BY <2>1, <2>3
    DEF TestBeforeInterpreting, TestClassification, TestBeforeClassified,
        TestBeforeGenerating, TestProcessing, TestEntities,
        TestBeforePublishing, TestDelivery, TestBeforeCompleted, PostedPc
  <2>4. CASE TestTerminal(j)
    BY <1>2, <2>4 DEF TestTerminal, Test, OthersUnchanged, PostedPc
  <2>5. CASE \/ EnterInterpreting(j) \/ EnterClassified(j)
             \/ EnterGenerating(j) \/ EnterPublishing(j) \/ EnterCompleted(j)
    BY <2>2, <2>5
    DEF EnterInterpreting, EnterClassified, EnterGenerating, EnterPublishing,
        EnterCompleted, PostedPc
  <2>6. CASE \/ InitializeAudit(j) \/ ReadPrompt(j) \/ SaveInterpretation(j)
             \/ ReadInterpretation(j) \/ LoadSpec(j)
             \/ ResolveWithoutDraft(j) \/ SaveDraft(j) \/ ResolveWithDraft(j)
    BY <1>2, <2>6
    DEF InitializeAudit, ReadPrompt, SaveInterpretation, ReadInterpretation,
        LoadSpec, ResolveWithoutDraft, SaveDraft, ResolveWithDraft, Resolve,
        Raise, OthersUnchanged, PostedPc
  <2>7. CASE SetProcessing(j) \/ Publish(j) \/ Compose(j)
    BY <1>2, <2>7
    DEF SetProcessing, Publish, Compose, Raise, OthersUnchanged, PostedPc
  <2>8. CASE PostJob(j)
    BY <2>8 DEF PostJob, Goto, Raise, PostedInv, PostedPc, TypeInv
  <2>9. QED
    BY <1>6, <2>3, <2>4, <2>5, <2>6, <2>7, <2>8 DEF ProcessStep
<1>7. ASSUME NEW j \in Job, NEW outcome \in {"completed", "failed"},
             RenderEnds(j, outcome)
      PROVE  Goal
  BY <1>7 DEF RenderEnds, taskVars, PostedInv, TypeInv
<1>8. ASSUME NEW h \in Handler, \/ \E j \in Job : ReceiveWebhook(h, j)
                                \/ WebhookStep(h)
                                \/ WebhookCutOff(h)
      PROVE  Goal
  BY <1>1, <1>8
  DEF ReceiveWebhook, WebhookStep, SaveResponse, SaveVerdict, WebhookCutOff,
      taskVars
<1>9. CASE Settled
  BY <1>1, <1>9 DEF Settled, vars, taskVars
<1>10. QED
  BY <1>3, <1>4, <1>5, <1>6, <1>7, <1>8, <1>9 DEF Next, TaskStep

\* Whatever other jobs of the row do to its columns, a job is acknowledged only
\* when its generation is over or the renderer has been sent this very job: the
\* checkpoints of process() never let a task skip the POST.
THEOREM DoneIsHandedOverThm == Spec => DoneIsHandedOver
<1> DEFINE Handed == \A j \in Job : pc[j] # "done" /\ pc'[j] = "done"
                            => IsTerminal(status) \/ render[j] # "none"
<1>1. Init => TypeInv /\ PostedInv
  BY TypeInvInit DEF Init, PostedInv, PostedPc
<1>2. ASSUME TypeInv, PostedInv, [Next]_vars
      PROVE  TypeInv' /\ PostedInv' /\ [Handed]_vars
  <2>1. CASE UNCHANGED vars
    BY <1>2, <2>1, TypeInvStep DEF vars, taskVars, PostedInv
  <2>2. CASE Next
    BY <1>2, <2>2, TypeInvStep, PostedInvStep
  <2>3. QED
    BY <1>2, <2>1, <2>2
<1>3. QED
  BY <1>1, <1>2, PTL DEF Spec, DoneIsHandedOver

--------------------------------------------------------------------------------
\* A generation that is queued once: nobody calls confirm or skip_clarification,
\* so reset_for_reprocessing never wipes the row under a task or a request.  With
\* a second job it does, and none of the theorems below hold any more.

OneJob == Job = {FirstJob}

\* The call that created the row never resets it, and the task it queues starts
\* only when the call is over.
QueuedOnce ==
  /\ api[FirstJob] \in {"pending", "enqueue", "end"}
  /\ api[FirstJob] # "end" => pc[FirstJob] = "none"

\* The steps of the worker's task need the entry the call has queued.
LEMMA TaskIsQueued ==
  ASSUME OneJob, QueuedOnce, NEW j \in Job,
         \/ TaskStep(j) \/ TaskCutOff(j)
         \/ \E class \in ErrorPc : StepFails(j, class)
  PROVE  /\ j = FirstJob /\ api[j] = "end" /\ UNCHANGED <<api, hookVars>>
         /\ pc[j] \in ActivePc \cup {"waiting"}
<1>1. j = FirstJob
  BY DEF OneJob
<1>2. CASE TakeJob(j) \/ Retry(j) \/ Bury(j) \/ TaskCutOff(j)
  BY <1>1, <1>2
  DEF TakeJob, Retry, Bury, TaskCutOff, Active, ActivePc, ProcessPc, ErrorPc,
      OthersUnchanged, QueuedOnce
<1>3. CASE \E class \in ErrorPc : StepFails(j, class)
  BY <1>1, <1>3
  DEF StepFails, OthersUnchanged, ActivePc, ProcessPc, QueuedOnce
<1>4. CASE ProcessStep(j)
  <2>1. pc[j] \in ProcessPc /\ UNCHANGED <<api, hookVars>>
    BY <1>4
    DEF ProcessStep, Test, Resolve, Transition, InitializeAudit, TestTerminal,
        TestBeforeInterpreting, EnterInterpreting, TestClassification,
        ReadPrompt, SaveInterpretation, ResolveWithoutDraft,
        ReadInterpretation, SaveDraft, ResolveWithDraft, TestBeforeClassified,
        EnterClassified, TestBeforeGenerating, EnterGenerating, LoadSpec,
        PostJob, SetProcessing, TestProcessing, TestEntities,
        TestBeforePublishing, EnterPublishing, Publish, TestDelivery, Compose,
        TestBeforeCompleted, EnterCompleted, OthersUnchanged, ProcessPc
  <2>2. QED
    BY <1>1, <2>1 DEF QueuedOnce, ActivePc, ProcessPc
<1>5. QED
  BY <1>2, <1>3, <1>4 DEF TaskStep

\* So the row is never reset.
LEMMA QueuedOnceStep ==
  ASSUME OneJob, TypeInv, QueuedOnce, [Next]_vars
  PROVE  QueuedOnce'
<1>1. CASE UNCHANGED <<api, pc>>
  BY <1>1 DEF QueuedOnce
<1>2. ASSUME NEW j \in Job, Confirm(j) \/ SkipClarification(j) \/ CallStep(j)
                            \/ CallCutOff(j)
      PROVE  QueuedOnce'
  BY <1>2
  DEF OneJob, QueuedOnce, TypeInv, Confirm, SkipClarification, CallStep,
      ResetUnlessTerminal, ResetForReprocessing, MarkPending, Enqueue,
      CallCutOff, ApiGoto, taskVars
<1>3. ASSUME NEW j \in Job, \/ TaskStep(j) \/ TaskCutOff(j)
                            \/ \E class \in ErrorPc : StepFails(j, class)
      PROVE  QueuedOnce'
  BY <1>3, TaskIsQueued DEF QueuedOnce
<1>4. ASSUME NEW j \in Job,
             \E outcome \in {"completed", "failed"} : RenderEnds(j, outcome)
      PROVE  UNCHANGED <<api, pc>>
  BY <1>4 DEF RenderEnds, taskVars
<1>5. ASSUME NEW h \in Handler, \/ \E j \in Job : ReceiveWebhook(h, j)
                                \/ WebhookStep(h) \/ WebhookCutOff(h)
      PROVE  UNCHANGED <<api, pc>>
  BY <1>5 DEF ReceiveWebhook, WebhookStep, SaveResponse, SaveVerdict,
              WebhookCutOff, taskVars
<1>6. CASE UNCHANGED vars
  BY <1>1, <1>6 DEF vars, taskVars
<1>7. QED
  BY <1>1, <1>2, <1>3, <1>4, <1>5, <1>6 DEF Next, Settled

\* What a call can still do to the row.
LEMMA CallsOnce ==
  ASSUME OneJob, QueuedOnce, NEW j \in Job,
         Confirm(j) \/ SkipClarification(j) \/ CallStep(j) \/ CallCutOff(j)
  PROVE  \/ MarkPending(j)
         \/ Enqueue(j)
         \/ UNCHANGED <<rowVars, taskVars, render, hookVars>>
BY DEF OneJob, QueuedOnce, Confirm, SkipClarification, CallStep,
       ResetUnlessTerminal, ResetForReprocessing, CallCutOff

--------------------------------------------------------------------------------
\* The verdict is grounded.

\* A webhook request that is about to write "completed" has written the
\* renderer's answer before, and nobody takes it back.
VerdictInv ==
  /\ genStatus = "completed" => response # NoJob
  /\ genStatus = "processing" => \E j \in Job : render[j] # "none"
  /\ \A h \in Handler :
       /\ hook[h].at # "idle" => hook[h].job \in Job
       /\ hook[h].at = "status" /\ hook[h].outcome = "completed"
            => response # NoJob

\* The task's own steps write no other verdict than "processing", behind the
\* POST, and "failed".
LEMMA TaskKeepsVerdict ==
  ASSUME TypeInv, PostedInv, VerdictInv, NEW j \in Job,
         UNCHANGED hookVars,
         \/ TaskStep(j) \/ TaskCutOff(j)
         \/ \E class \in ErrorPc : StepFails(j, class)
  PROVE  VerdictInv'
<1>1. ASSUME UNCHANGED <<genStatus, response, render>>
      PROVE  VerdictInv'
  BY <1>1 DEF VerdictInv, hookVars
<1>2. CASE TakeJob(j) \/ Retry(j) \/ TaskCutOff(j)
           \/ \E class \in ErrorPc : StepFails(j, class)
  BY <1>1, <1>2
  DEF TakeJob, Retry, TaskCutOff, StepFails, OthersUnchanged, rowVars
<1>3. CASE Bury(j)
  BY <1>3 DEF Bury, OthersUnchanged, hookVars, VerdictInv
<1>4. CASE SetProcessing(j)
  <2>1. render[j] # "none"
    BY <1>4 DEF SetProcessing, PostedInv, PostedPc
  <2>2. QED
    BY <1>4, <2>1 DEF SetProcessing, OthersUnchanged, hookVars, VerdictInv
<1>5. CASE PostJob(j)
  <2>1. render'[j] # "none" /\ UNCHANGED <<genStatus, response, hook>>
    BY <1>5 DEF PostJob, TypeInv, rowVars, hookVars
  <2>2. QED
    BY <2>1 DEF VerdictInv
<1>6. CASE ProcessStep(j) /\ ~SetProcessing(j) /\ ~PostJob(j)
  BY <1>1, <1>6
  DEF ProcessStep, Test, Resolve, Transition, InitializeAudit, TestTerminal,
      TestBeforeInterpreting, EnterInterpreting, TestClassification,
      ReadPrompt, SaveInterpretation, ResolveWithoutDraft,
      ReadInterpretation, SaveDraft, ResolveWithDraft, TestBeforeClassified,
      EnterClassified, TestBeforeGenerating, EnterGenerating, LoadSpec,
      TestProcessing, TestEntities, TestBeforePublishing, EnterPublishing,
      Publish, TestDelivery, Compose, TestBeforeCompleted, EnterCompleted,
      OthersUnchanged, rowVars
<1>7. QED
  BY <1>2, <1>3, <1>4, <1>5, <1>6 DEF TaskStep

\* A webhook request writes the answer before the verdict.
LEMMA HookKeepsVerdict ==
  ASSUME TypeInv, VerdictInv, NEW h \in Handler,
         \/ \E j \in Job : ReceiveWebhook(h, j)
         \/ WebhookStep(h) \/ WebhookCutOff(h)
  PROVE  VerdictInv'
<1>1. ASSUME NEW j \in Job, ReceiveWebhook(h, j)
      PROVE  VerdictInv'
  BY <1>1 DEF ReceiveWebhook, rowVars, VerdictInv, TypeInv
<1>2. CASE SaveResponse(h)
  <2>1. hook[h].job \in Job
    BY <1>2 DEF SaveResponse, VerdictInv
  <2>2. response' # NoJob
    BY <1>2, <2>1, WorkflowAssumption DEF SaveResponse
  <2>3. \A g \in Handler : hook'[g].at # "idle" => hook'[g].job \in Job
    BY <1>2, <2>1 DEF SaveResponse, VerdictInv, TypeInv, Hook
  <2>4. QED
    BY <1>2, <2>2, <2>3 DEF SaveResponse, VerdictInv
<1>3. CASE SaveVerdict(h)
  <2>1. hook[h].outcome = "completed" => response # NoJob
    BY <1>3 DEF SaveVerdict, VerdictInv
  <2>2. hook[h].outcome # "processing"
    BY DEF TypeInv, Hook
  <2>3. QED
    BY <1>3, <2>1, <2>2 DEF SaveVerdict, VerdictInv, TypeInv, IdleHook
<1>4. CASE WebhookCutOff(h)
  BY <1>4 DEF WebhookCutOff, rowVars, VerdictInv, TypeInv, IdleHook
<1>5. QED
  BY <1>1, <1>2, <1>3, <1>4 DEF WebhookStep

\* VerdictInv is inductive.
LEMMA VerdictInvStep ==
  ASSUME OneJob, TypeInv, PostedInv, QueuedOnce, VerdictInv, [Next]_vars
  PROVE  VerdictInv'
<1>1. ASSUME UNCHANGED <<genStatus, response, render, hook>>
      PROVE  VerdictInv'
  BY <1>1 DEF VerdictInv
<1>2. ASSUME NEW j \in Job, Confirm(j) \/ SkipClarification(j) \/ CallStep(j)
                            \/ CallCutOff(j)
      PROVE  VerdictInv'
  <2>1. CASE MarkPending(j)
    BY <2>1 DEF MarkPending, hookVars, VerdictInv
  <2>2. CASE Enqueue(j) \/ UNCHANGED <<rowVars, taskVars, render, hookVars>>
    BY <1>1, <2>2 DEF Enqueue, rowVars, hookVars
  <2>3. QED
    BY <1>2, <2>1, <2>2, CallsOnce
<1>3. ASSUME NEW j \in Job, \/ TaskStep(j) \/ TaskCutOff(j)
                            \/ \E class \in ErrorPc : StepFails(j, class)
      PROVE  VerdictInv'
  BY <1>3, TaskIsQueued, TaskKeepsVerdict
<1>4. ASSUME NEW j \in Job, NEW outcome \in {"completed", "failed"},
             RenderEnds(j, outcome)
      PROVE  VerdictInv'
  <2>1. render'[j] # "none" /\ UNCHANGED <<genStatus, response, hook>>
    BY <1>4 DEF RenderEnds, TypeInv, rowVars, hookVars
  <2>2. QED
    BY <2>1 DEF VerdictInv
<1>5. ASSUME NEW h \in Handler, \/ \E j \in Job : ReceiveWebhook(h, j)
                                \/ WebhookStep(h) \/ WebhookCutOff(h)
      PROVE  VerdictInv'
  BY <1>5, HookKeepsVerdict
<1>6. CASE UNCHANGED vars
  BY <1>1, <1>6 DEF vars, rowVars, hookVars
<1>7. QED
  BY <1>2, <1>3, <1>4, <1>5, <1>6 DEF Next, Settled

\* PostedInv over stuttering steps too.
LEMMA PostedInvHolds ==
  ASSUME TypeInv, PostedInv, [Next]_vars
  PROVE  PostedInv'
<1>1. CASE UNCHANGED vars
  BY <1>1 DEF vars, taskVars, PostedInv
<1>2. QED
  BY <1>1, PostedInvStep

\* For a generation that is queued once, with any number of retries, of webhook
\* requests, repeated and concurrent, and of faults: generation_status says
\* "completed" only when the renderer's answer is on the row, and "processing"
\* only when the renderer has the job.
THEOREM GenStatusIsGroundedThm ==
  ASSUME OneJob
  PROVE  Spec => []GenStatusIsGrounded
<1>1. Init => TypeInv /\ PostedInv /\ QueuedOnce /\ VerdictInv
  <2> SUFFICES ASSUME Init
               PROVE  PostedInv /\ QueuedOnce /\ VerdictInv
    BY TypeInvInit
  <2>1. PostedInv /\ QueuedOnce
    BY WorkflowAssumption DEF Init, PostedInv, PostedPc, QueuedOnce
  <2>2. VerdictInv
    BY DEF Init, VerdictInv, IdleHook
  <2>3. QED
    BY <2>1, <2>2
<1>2. TypeInv /\ PostedInv /\ QueuedOnce /\ VerdictInv /\ [Next]_vars
        => (TypeInv /\ PostedInv /\ QueuedOnce /\ VerdictInv)'
  BY OneJob, TypeInvStep, PostedInvHolds, QueuedOnceStep, VerdictInvStep
<1>3. VerdictInv => GenStatusIsGrounded
  BY DEF VerdictInv, GenStatusIsGrounded
<1>4. QED
  BY <1>1, <1>2, <1>3, PTL DEF Spec

--------------------------------------------------------------------------------
\* Dead is failed.

\* mark_failed is refused only in states the row never reaches, and no step is
\* left to a task whose entry is in the dead-letter queue.
LEMMA DeadIsFailedStep ==
  ASSUME OneJob, TypeInv, NeverPastGenerating, QueuedOnce, DeadIsFailed,
         [Next]_vars
  PROVE  DeadIsFailed'
<1>1. ASSUME UNCHANGED <<status, pc>>
      PROVE  DeadIsFailed'
  BY <1>1 DEF DeadIsFailed
<1>2. ASSUME NEW j \in Job, Confirm(j) \/ SkipClarification(j) \/ CallStep(j)
                            \/ CallCutOff(j)
      PROVE  DeadIsFailed'
  <2>1. CASE MarkPending(j) \/ UNCHANGED <<rowVars, taskVars, render, hookVars>>
    BY <1>1, <2>1 DEF MarkPending, rowVars, taskVars
  <2>2. CASE Enqueue(j)
    BY <2>2 DEF Enqueue, OneJob, TypeInv, DeadIsFailed
  <2>3. QED
    BY <1>2, <2>1, <2>2, CallsOnce
<1>3. ASSUME NEW j \in Job, Bury(j)
      PROVE  DeadIsFailed'
  BY <1>3 DEF Bury, MarkFailedAllowed, NeverPastGenerating, DeadIsFailed
<1>4. ASSUME NEW j \in Job, ~Bury(j), \/ TaskStep(j) \/ TaskCutOff(j)
                            \/ \E class \in ErrorPc : StepFails(j, class)
      PROVE  DeadIsFailed'
  <2>1. j = FirstJob /\ \A i \in Job : i = j
    BY <1>4, TaskIsQueued DEF OneJob
  <2>2. pc'[j] # "dead"
    <3>1. CASE TakeJob(j) \/ Retry(j) \/ TaskCutOff(j)
               \/ \E class \in ErrorPc : StepFails(j, class)
      BY <3>1
      DEF TakeJob, Retry, TaskCutOff, StepFails, Raise, Goto, ErrorPc, TypeInv
    <3>2. CASE ProcessStep(j)
      BY <3>2
      DEF ProcessStep, Test, Resolve, Transition, InitializeAudit,
          TestTerminal, TestBeforeInterpreting, EnterInterpreting,
          TestClassification, ReadPrompt, SaveInterpretation,
          ResolveWithoutDraft, ReadInterpretation, SaveDraft,
          ResolveWithDraft, TestBeforeClassified, EnterClassified,
          TestBeforeGenerating, EnterGenerating, LoadSpec, PostJob,
          SetProcessing, TestProcessing, TestEntities, TestBeforePublishing,
          EnterPublishing, Publish, TestDelivery, Compose,
          TestBeforeCompleted, EnterCompleted, Raise, Goto, TypeInv
    <3>3. QED
      BY <1>4, <3>1, <3>2 DEF TaskStep
  <2>3. QED
    BY <2>1, <2>2 DEF DeadIsFailed
<1>5. ASSUME NEW j \in Job, NEW outcome \in {"completed", "failed"},
             RenderEnds(j, outcome)
      PROVE  UNCHANGED <<status, pc>>
  BY <1>5 DEF RenderEnds, rowVars, taskVars
<1>6. ASSUME NEW h \in Handler, \/ \E j \in Job : ReceiveWebhook(h, j)
                                \/ WebhookStep(h) \/ WebhookCutOff(h)
      PROVE  UNCHANGED <<status, pc>>
  BY <1>6 DEF ReceiveWebhook, WebhookStep, SaveResponse, SaveVerdict,
              WebhookCutOff, rowVars, taskVars
<1>7. CASE UNCHANGED vars
  BY <1>1, <1>7 DEF vars, rowVars, taskVars
<1>8. QED
  BY <1>1, <1>2, <1>3, <1>4, <1>5, <1>6, <1>7 DEF Next, Settled

\* For a generation that is queued once, a job in the dead-letter queue leaves it
\* failed for good, however many retries, verdicts and faults come before and
\* whichever webhook request comes after.
THEOREM DeadIsFailedThm ==
  ASSUME OneJob
  PROVE  Spec => []DeadIsFailed
<1>1. Init => TypeInv /\ NeverPastGenerating /\ QueuedOnce /\ DeadIsFailed
  <2> SUFFICES ASSUME Init
               PROVE  NeverPastGenerating /\ QueuedOnce /\ DeadIsFailed
    BY TypeInvInit
  <2>1. NeverPastGenerating
    BY DEF Init, NeverPastGenerating
  <2>2. QueuedOnce /\ DeadIsFailed
    BY WorkflowAssumption DEF Init, QueuedOnce, DeadIsFailed
  <2>3. QED
    BY <2>1, <2>2
<1>2. TypeInv /\ NeverPastGenerating /\ QueuedOnce /\ DeadIsFailed /\ [Next]_vars
        => (TypeInv /\ NeverPastGenerating /\ QueuedOnce /\ DeadIsFailed)'
  BY OneJob, TypeInvStep, NeverPastGeneratingStep, QueuedOnceStep,
     DeadIsFailedStep
<1>3. QED
  BY <1>1, <1>2, PTL DEF Spec

--------------------------------------------------------------------------------
\* What the renderer is sent.

\* The steps between the classification and the POST.
ClassifiedPc ==
  {"ckClassified", "trClassified", "ckGenerating", "trGenerating", "loadSpec"}

\* A task gets behind ensure_classified with a drafted specification on the row:
\* either it has resolved with a draft itself, or has_classification has found
\* one, which it does only when the stored decision names another source than
\* the interpretation; and the specification resolve() stores half-way always
\* goes with a decision that names the interpretation.
DraftInv ==
  /\ spec # NoSpec => spec.kind # "none"
  /\ spec.kind = "interpretation" => draftSource = "interpretation_only"
  /\ pc[FirstJob] \in ClassifiedPc => spec.kind = "drafted"
  /\ pc[FirstJob] = "post" => loc[FirstJob].spec.kind = "drafted"

\* DraftInv is inductive.
LEMMA DraftInvStep ==
  ASSUME OneJob, TypeInv, QueuedOnce, DraftInv, [Next]_vars
  PROVE  DraftInv'
<1>1. ASSUME UNCHANGED <<spec, draftSource, pc, loc>>
      PROVE  DraftInv'
  BY <1>1 DEF DraftInv
<1>2. ASSUME NEW l, UNCHANGED <<spec, draftSource>>, Goto(FirstJob, l),
             l \in ClassifiedPc => spec.kind = "drafted", l # "post"
      PROVE  DraftInv'
  BY <1>2, WorkflowAssumption DEF Goto, DraftInv, TypeInv
<1>3. ASSUME NEW j \in Job, Confirm(j) \/ SkipClarification(j) \/ CallStep(j)
                            \/ CallCutOff(j)
      PROVE  DraftInv'
  <2>1. CASE MarkPending(j) \/ UNCHANGED <<rowVars, taskVars, render, hookVars>>
    BY <1>1, <2>1 DEF MarkPending, rowVars, classVars, taskVars
  <2>2. CASE Enqueue(j)
    BY <1>2, <2>2 DEF Enqueue, Goto, OneJob, rowVars, classVars, ClassifiedPc
  <2>3. QED
    BY <1>3, <2>1, <2>2, CallsOnce
<1>4. ASSUME NEW j \in Job, TakeJob(j) \/ Retry(j) \/ Bury(j) \/ TaskCutOff(j)
      PROVE  DraftInv'
  BY <1>2, <1>4
  DEF TakeJob, Retry, Bury, TaskCutOff, OneJob, rowVars, classVars, ClassifiedPc
<1>5. ASSUME NEW j \in Job, NEW class \in ErrorPc, StepFails(j, class)
      PROVE  DraftInv'
  BY <1>2, <1>5
  DEF StepFails, Raise, OneJob, rowVars, classVars, ErrorPc, ClassifiedPc
<1>6. ASSUME NEW j \in Job, ProcessStep(j)
      PROVE  DraftInv'
  <2>1. j = FirstJob
    BY DEF OneJob
  <2>2. ASSUME NEW at, NEW c, NEW yes, NEW no, Test(FirstJob, at, c, yes, no),
               "post" \notin {yes, no},
               \/ at \in ClassifiedPc
               \/ {yes, no} \cap ClassifiedPc = {}
        PROVE  DraftInv'
    BY <1>2, <2>2 DEF Test, rowVars, classVars, DraftInv
  <2>3. ASSUME NEW at, NEW to, NEW next, Transition(FirstJob, at, to, next),
               next # "post", at \in ClassifiedPc \/ next \notin ClassifiedPc
        PROVE  DraftInv'
    <3>1. "retryable" \notin ClassifiedPc
      BY DEF ClassifiedPc
    <3>2. QED
      BY <1>2, <2>3, <3>1 DEF Transition, Raise, classVars, DraftInv
  <2>4. CASE \/ TestTerminal(j) \/ TestBeforeInterpreting(j)
             \/ TestBeforeClassified(j) \/ TestBeforeGenerating(j)
             \/ TestProcessing(j) \/ TestEntities(j)
             \/ TestBeforePublishing(j) \/ TestDelivery(j)
             \/ TestBeforeCompleted(j)
    BY <2>1, <2>2, <2>4
    DEF TestTerminal, TestBeforeInterpreting, TestBeforeClassified,
        TestBeforeGenerating, TestProcessing, TestEntities,
        TestBeforePublishing, TestDelivery, TestBeforeCompleted, ClassifiedPc
  <2>5. CASE TestClassification(j)
    <3>1. HasClassification => spec.kind = "drafted"
      BY DEF HasClassification, DraftInv, TypeInv, SpecPayload
    <3>2. QED
      BY <1>2, <2>1, <2>5, <3>1
      DEF TestClassification, Test, rowVars, classVars, ClassifiedPc
  <2>6. CASE \/ EnterInterpreting(j) \/ EnterClassified(j)
             \/ EnterGenerating(j) \/ EnterPublishing(j) \/ EnterCompleted(j)
    BY <2>1, <2>3, <2>6
    DEF EnterInterpreting, EnterClassified, EnterGenerating, EnterPublishing,
        EnterCompleted, ClassifiedPc
  <2>7. CASE \/ InitializeAudit(j) \/ ReadPrompt(j) \/ SaveInterpretation(j)
             \/ ReadInterpretation(j) \/ PostJob(j) \/ SetProcessing(j)
             \/ Publish(j) \/ Compose(j)
    BY <1>2, <2>1, <2>7
    DEF InitializeAudit, ReadPrompt, SaveInterpretation, ReadInterpretation,
        PostJob, SetProcessing, Publish, Compose, Raise, rowVars, classVars,
        ClassifiedPc
  <2>8. CASE ResolveWithoutDraft(j) \/ SaveDraft(j) \/ ResolveWithDraft(j)
    <3>1. ASSUME NEW at, NEW source, NEW kind, NEW of, NEW next,
                 Resolve(FirstJob, at, source, [kind |-> kind, of |-> of], next),
                 next # "post", kind # "none",
                 kind = "interpretation" => source = "interpretation_only",
                 next \in ClassifiedPc => kind = "drafted"
          PROVE  DraftInv'
      <4>1. pc'[FirstJob] = next
        BY <3>1, WorkflowAssumption DEF Resolve, Goto, TypeInv
      <4>2. spec'.kind = kind /\ draftSource' = source
        BY <3>1 DEF Resolve
      <4>3. QED
        BY <3>1, <4>1, <4>2 DEF DraftInv
    <3>2. QED
      BY <2>1, <2>8, <3>1
      DEF ResolveWithoutDraft, SaveDraft, ResolveWithDraft, ClassifiedPc
  <2>9. CASE LoadSpec(j)
    <3>1. CASE spec = NoSpec
      BY <1>2, <2>1, <2>9, <3>1
      DEF LoadSpec, Raise, rowVars, classVars, ClassifiedPc
    <3>2. CASE spec # NoSpec
      <4>1. spec.kind = "drafted" /\ UNCHANGED <<spec, draftSource>>
        BY <2>1, <2>9 DEF LoadSpec, DraftInv, ClassifiedPc, rowVars, classVars
      <4>2. /\ pc'[FirstJob] = "post"
            /\ loc' = [loc EXCEPT ![FirstJob] = [loc[FirstJob] EXCEPT !.spec = spec]]
        BY <2>1, <2>9, <3>2 DEF LoadSpec, Goto, TypeInv
      <4>3. loc'[FirstJob].spec = spec
        BY <2>1, <4>2 DEF TypeInv, Local
      <4>4. QED
        BY <4>1, <4>2, <4>3 DEF DraftInv, ClassifiedPc
    <3>3. QED
      BY <3>1, <3>2
  <2>10. QED
    BY <1>6, <2>4, <2>5, <2>6, <2>7, <2>8, <2>9 DEF ProcessStep
<1>7. ASSUME NEW j \in Job, NEW outcome \in {"completed", "failed"},
             RenderEnds(j, outcome)
      PROVE  UNCHANGED <<spec, draftSource, pc, loc>>
  BY <1>7 DEF RenderEnds, rowVars, classVars, taskVars
<1>8. ASSUME NEW h \in Handler, \/ \E j \in Job : ReceiveWebhook(h, j)
                                \/ WebhookStep(h) \/ WebhookCutOff(h)
      PROVE  UNCHANGED <<spec, draftSource, pc, loc>>
  BY <1>8 DEF ReceiveWebhook, WebhookStep, SaveResponse, SaveVerdict,
              WebhookCutOff, rowVars, classVars, taskVars
<1>9. CASE UNCHANGED vars
  BY <1>1, <1>9 DEF vars, rowVars, classVars, taskVars
<1>10. QED
  BY <1>1, <1>3, <1>4, <1>5, <1>6, <1>7, <1>8, <1>9 DEF Next, TaskStep, Settled

\* For a generation that is queued once, the renderer is only ever sent a
\* specification made from a draft, whichever step a retry finds the row at.
THEOREM DraftedSpecOnlyThm ==
  ASSUME OneJob
  PROVE  Spec => []DraftedSpecOnly
<1>1. Init => TypeInv /\ QueuedOnce /\ DraftInv
  <2> SUFFICES ASSUME Init
               PROVE  QueuedOnce /\ DraftInv
    BY TypeInvInit
  <2>1. QueuedOnce
    BY WorkflowAssumption DEF Init, QueuedOnce
  <2>2. DraftInv
    BY WorkflowAssumption DEF Init, DraftInv, NoSpec, ClassifiedPc
  <2>3. QED
    BY <2>1, <2>2
<1>2. TypeInv /\ QueuedOnce /\ DraftInv /\ [Next]_vars
        => (TypeInv /\ QueuedOnce /\ DraftInv)'
  BY OneJob, TypeInvStep, QueuedOnceStep, DraftInvStep
<1>3. DraftInv => DraftedSpecOnly
  BY OneJob DEF DraftInv, DraftedSpecOnly, OneJob
<1>4. QED
  BY <1>1, <1>2, <1>3, PTL DEF Spec

--------------------------------------------------------------------------------
\* The circuit breaker: the races on the two atomics never pause the worker for longer
\* than one cooldown.

\* Every now_epoch in use, the loop's and the ones its tasks captured, lies in the
\* past.  PauseIsBounded is not inductive without it: a task opens the circuit with
\* the time it captured, and not with the time of the store.
EpochsArePast ==
  /\ epoch <= now
  /\ \A t \in Task : started[t] <= now

PauseInv == BreakerTypeOK /\ EpochsArePast /\ PauseIsBounded

\* The first state satisfies the invariant.
LEMMA PauseInvInit == BreakerInit => PauseInv
BY CircuitBreakerAssumption
   DEF BreakerInit, PauseInv, BreakerTypeOK, EpochsArePast, PauseIsBounded

\* An iteration of the loop refreshes its now_epoch and only ever closes the circuit.
LEMMA PauseInvLoop ==
  ASSUME PauseInv, LoopStep
  PROVE  PauseInv'
<1> USE CircuitBreakerAssumption
    DEF PauseInv, BreakerTypeOK, EpochsArePast, PauseIsBounded, breaker
<1>1. CASE StartIteration
  BY <1>1 DEF StartIteration
<1>2. CASE ResetOpen
  BY <1>2 DEF ResetOpen
<1>3. CASE ResetFailures
  BY <1>3 DEF ResetFailures
<1>4. CASE EndIteration
  BY <1>4 DEF EndIteration
<1> QED
  BY <1>1, <1>2, <1>3, <1>4 DEF LoopStep

\* A task that is spawned captures the loop's now_epoch.
LEMMA PauseInvSpawn ==
  ASSUME PauseInv, NEW t \in Task, Spawn(t)
  PROVE  PauseInv'
BY CircuitBreakerAssumption
   DEF PauseInv, BreakerTypeOK, EpochsArePast, PauseIsBounded, breaker, Spawn

\* A task opens the circuit until one cooldown after the time it captured.
LEMMA PauseInvTask ==
  ASSUME PauseInv, NEW t \in Task, BreakerTaskStep(t)
  PROVE  PauseInv'
<1> USE CircuitBreakerAssumption
    DEF PauseInv, BreakerTypeOK, EpochsArePast, PauseIsBounded, breaker
<1>1. CASE Fail(t)
  BY <1>1 DEF Fail
<1>2. CASE OpenCircuit(t)
  BY <1>2 DEF OpenCircuit
<1>3. CASE Succeed(t)
  BY <1>3 DEF Succeed
<1>4. CASE CloseCircuit(t)
  BY <1>4 DEF CloseCircuit
<1> QED
  BY <1>1, <1>2, <1>3, <1>4 DEF BreakerTaskStep

\* Every step preserves the invariant.
LEMMA PauseInvNext == PauseInv /\ [BreakerNext]_breakerVars => PauseInv'
<1> SUFFICES ASSUME PauseInv, [BreakerNext]_breakerVars
             PROVE  PauseInv'
  OBVIOUS
<1>1. CASE Tick
  BY <1>1, CircuitBreakerAssumption
     DEF PauseInv, BreakerTypeOK, EpochsArePast, PauseIsBounded, breaker, Tick
<1>2. CASE UNCHANGED breakerVars
  BY <1>2 DEF PauseInv, BreakerTypeOK, EpochsArePast, PauseIsBounded, breakerVars, breaker
<1> QED
  BY <1>1, <1>2, PauseInvLoop, PauseInvSpawn, PauseInvTask DEF BreakerNext

\* However the loop and its tasks interleave their loads and stores of
\* consecutive_failures and circuit_open_until, and however stale the time a task
\* captured, an open circuit ends at most one cooldown from now.
THEOREM PausesAreBounded == BreakerSpec => []PauseIsBounded
<1>1. PauseInv => PauseIsBounded
  BY DEF PauseInv
<1> QED
  BY <1>1, PauseInvInit, PauseInvNext, PTL DEF BreakerSpec

\* The two atomics, the loop and the tasks keep their types; in particular no store
\* puts circuit_open_until out of the range the clock can reach.
THEOREM BreakerTypes == BreakerSpec => []BreakerTypeOK
<1>1. PauseInv => BreakerTypeOK
  BY DEF PauseInv
<1> QED
  BY <1>1, PauseInvInit, PauseInvNext, PTL DEF BreakerSpec
================================================================================
