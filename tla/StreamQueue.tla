------------------------------ MODULE StreamQueue ------------------------------
(***************************************************************************)
(* The job queue: the Redis stream klass:media-gen with its consumer group *)
(* (src/queue/redis_streams.rs), the worker loop and the tasks it spawns   *)
(* (src/queue/worker.rs), the dead-letter queue (src/queue/dead_letter.rs) *)
(* and the restart of a worker (src/main.rs).                              *)
(*                                                                         *)
(* A job is one enqueue call: a generation and its job id.  What process() *)
(* does is left to Workflow; here it ends in success, a retryable error or *)
(* a permanent one, except that it returns at once for a generation that   *)
(* is already marked failed.                                               *)
(*                                                                         *)
(* Entry ids are positions in the stream, which only grows: XACK removes   *)
(* an entry from the group's pending list, not from the stream.  Time is   *)
(* not modelled: a delay may be of any length.  CircuitBreaker has the     *)
(* clock.                                                                  *)
(***************************************************************************)
EXTENDS Naturals, Sequences, FiniteSets

CONSTANTS
  Job,          \* the jobs that may be enqueued
  Worker,       \* consumer names
  MaxTries,     \* MAX_TRIES
  BatchSize,    \* BATCH_SIZE
  Permits,      \* max_concurrency of one worker
  Threshold,    \* CIRCUIT_BREAKER_THRESHOLD
  MaxRevives,   \* bound: calls of retry_from_dlq
  Faults        \* the faults that may happen: a subset of FaultKinds

FaultKinds == {"crash",   \* a worker process stops
               "redis",   \* a Redis command or connection fails
               "db"}      \* mark_failed fails

ASSUME StreamQueueAssumption ==
  /\ MaxTries \in Nat \ {0}
  /\ BatchSize \in Nat \ {0}
  /\ Permits \in Nat
  /\ Threshold \in Nat
  /\ MaxRevives \in Nat
  /\ Faults \subseteq FaultKinds

VARIABLES
  stream,     \* every entry ever added
  grouped,    \* the consumer group exists
  cursor,     \* the group's last-delivered id
  origin,     \* the cursor the group was created with
  pel,        \* pending entries list: entry id -> consumer
  loop,       \* where each worker's event loop is
  batch,      \* entries the loop has read and not yet spawned
  fails,      \* consecutive_failures of each worker
  open,       \* circuit_open_until > 0 for each worker
  task,       \* running tasks: entry id -> worker and step
  failed,     \* generations whose status mark_failed has set
  dlq,        \* jobs with an entry in the dead-letter stream
  revives,    \* calls of retry_from_dlq so far
  succeeded,  \* history: entries for which process() returned Ok
  buried,     \* history: entries recorded in the DLQ or marked failed
  lost        \* history: entries acknowledged although nothing became of them

redisVars  == <<grouped, cursor, origin>>
loopVars   == <<loop, batch>>
breakVars  == <<fails, open>>
dlqVars    == <<failed, dlq, revives>>
histVars   == <<succeeded, buried, lost>>
vars == <<stream, redisVars, pel, loopVars, breakVars, task, dlqVars, histVars>>

--------------------------------------------------------------------------------
Entry == [job : Job, attempt : 1..MaxTries]

Ids == 1..Len(stream)

LoopPc == {"boot", "check", "claim", "read", "dispatch"}

\* Steps of a task after process(): acknowledge a success; bury in the DLQ,
\* mark failed, acknowledge; or back off, acknowledge, add again.
TaskPc == {"begin", "run", "ackOk", "dlqAdd", "mark", "ackDlq", "backoff", "readd"}

\* `own` tells whether the task shares its permit and its breaker with the
\* worker's present loop: a restarted embedded worker gets new ones.
Task == [by : Worker, at : TaskPc, own : BOOLEAN]

TypeOK ==
  /\ stream \in Seq(Entry)
  /\ grouped \in BOOLEAN
  /\ cursor \in 0..Len(stream)
  /\ origin \in 0..Len(stream)
  /\ DOMAIN pel \subseteq Ids
  /\ pel \in [DOMAIN pel -> Worker]
  /\ loop \in [Worker -> LoopPc]
  /\ batch \in [Worker -> SUBSET Ids]
  /\ fails \in [Worker -> Nat]
  /\ open \in [Worker -> BOOLEAN]
  /\ DOMAIN task \subseteq Ids
  /\ task \in [DOMAIN task -> Task]
  /\ failed \subseteq Job
  /\ dlq \subseteq Job
  /\ revives \in 0..MaxRevives
  /\ succeeded \subseteq Ids
  /\ buried \subseteq Ids
  /\ lost \subseteq Ids

Init ==
  /\ stream = <<>>
  /\ grouped = FALSE
  /\ cursor = 0
  /\ origin = 0
  /\ pel = <<>>
  /\ loop = [w \in Worker |-> "boot"]
  /\ batch = [w \in Worker |-> {}]
  /\ fails = [w \in Worker |-> 0]
  /\ open = [w \in Worker |-> FALSE]
  /\ task = <<>>
  /\ failed = {}
  /\ dlq = {}
  /\ revives = 0
  /\ succeeded = {}
  /\ buried = {}
  /\ lost = {}

--------------------------------------------------------------------------------
Drop(f, S) == [i \in DOMAIN f \ S |-> f[i]]

Assign(f, S, v) == [i \in DOMAIN f \cup S |-> IF i \in S THEN v ELSE f[i]]

Xadd(j, n) == stream' = Append(stream, [job |-> j, attempt |-> n])

Xack(i) == pel' = Drop(pel, {i})

EntriesOf(j) == {i \in Ids : stream[i].job = j}

\* QueueService::enqueue, called once per job by the REST handlers.
Enqueue(j) ==
  /\ EntriesOf(j) = {}
  /\ Xadd(j, 1)
  /\ UNCHANGED <<redisVars, pel, loopVars, breakVars, task, dlqVars, histVars>>

\* retry_from_dlq: XDEL of the job's DLQ entries, whose errors are ignored, then
\* enqueue with attempt 1.
RetryFromDlq(j) ==
  /\ j \in dlq
  /\ revives < MaxRevives
  /\ revives' = revives + 1
  /\ \/ dlq' = dlq \ {j}
     \/ "redis" \in Faults /\ UNCHANGED dlq
  /\ \/ Xadd(j, 1)
     \/ "redis" \in Faults /\ UNCHANGED stream
  /\ UNCHANGED <<redisVars, pel, loopVars, breakVars, task, failed, histVars>>

--------------------------------------------------------------------------------
\* The event loop of worker w.

LoopGoto(w, l) == loop' = [loop EXCEPT ![w] = l]

\* Mutant: every boot rewinds the group to the start of the stream.
BootFromStart(w) ==
  /\ loop[w] = "boot"
  /\ grouped' = TRUE
  /\ cursor' = 0 /\ origin' = 0
  /\ LoopGoto(w, "check")
  /\ UNCHANGED <<stream, pel, batch, breakVars, task, dlqVars, histVars>>

\* XGROUP CREATE ... $ MKSTREAM: a new group starts behind the last entry, an
\* existing one is left alone (BUSYGROUP).
Boot(w) ==
  /\ loop[w] = "boot"
  /\ grouped' = TRUE
  /\ IF grouped THEN UNCHANGED <<cursor, origin>>
     ELSE cursor' = Len(stream) /\ origin' = Len(stream)
  /\ LoopGoto(w, "check")
  /\ UNCHANGED <<stream, pel, batch, breakVars, task, dlqVars, histVars>>

\* The circuit is closed, or its cooldown is over and both counters are reset;
\* while it cools down the loop only sleeps.
CheckCircuit(w) ==
  /\ loop[w] = "check"
  /\ open' = [open EXCEPT ![w] = FALSE]
  /\ fails' = [fails EXCEPT ![w] = IF open[w] THEN 0 ELSE @]
  /\ LoopGoto(w, "claim")
  /\ UNCHANGED <<stream, redisVars, pel, batch, task, dlqVars, histVars>>

\* The oldest pending entries, as many as XPENDING is asked for.
FirstPending ==
  {i \in DOMAIN pel : Cardinality({k \in DOMAIN pel : k < i}) < BatchSize}

\* claim_pending: every sixth iteration the entries among FirstPending that have
\* been idle long enough become w's.  The reply of XCLAIM is thrown away: no
\* task is started for them.
ClaimPending(w) ==
  /\ loop[w] = "claim"
  /\ \E S \in SUBSET FirstPending : pel' = Assign(pel, S, w)
  /\ LoopGoto(w, "read")
  /\ UNCHANGED <<stream, redisVars, batch, breakVars, task, dlqVars, histVars>>

\* XREADGROUP ... >: the entries behind the cursor, none if it times out.
NextEntries ==
  {i \in Ids : cursor < i /\ i <= cursor + BatchSize}

\* Mutant: XREADGROUP with NOACK.
ReadWithoutPending(w) ==
  /\ loop[w] = "read"
  /\ batch' = [batch EXCEPT ![w] = NextEntries]
  /\ cursor' = cursor + Cardinality(NextEntries)
  /\ LoopGoto(w, "dispatch")
  /\ UNCHANGED <<stream, pel, grouped, origin, breakVars, task, dlqVars,
                 histVars>>

ReadMessages(w) ==
  /\ loop[w] = "read"
  /\ batch' = [batch EXCEPT ![w] = NextEntries]
  /\ pel' = Assign(pel, NextEntries, w)
  /\ cursor' = cursor + Cardinality(NextEntries)
  /\ LoopGoto(w, "dispatch")
  /\ UNCHANGED <<stream, grouped, origin, breakVars, task, dlqVars, histVars>>

OwnTasks(w) == {i \in DOMAIN task : task[i].by = w /\ task[i].own}

\* Entries are spawned in order, each when a permit is free.
SpawnTask(w, i) ==
  /\ loop[w] = "dispatch"
  /\ i \in batch[w]
  /\ \A k \in batch[w] : i <= k
  /\ Cardinality(OwnTasks(w)) < Permits
  /\ batch' = [batch EXCEPT ![w] = @ \ {i}]
  /\ task' = Assign(task, {i}, [by |-> w, at |-> "begin", own |-> TRUE])
  /\ UNCHANGED <<stream, redisVars, pel, loop, breakVars, dlqVars, histVars>>

EndOfBatch(w) ==
  /\ loop[w] = "dispatch"
  /\ batch[w] = {}
  /\ LoopGoto(w, "check")
  /\ UNCHANGED <<stream, redisVars, pel, batch, breakVars, task, dlqVars,
                 histVars>>

--------------------------------------------------------------------------------
\* The task of entry i.

At(i, l) == i \in DOMAIN task /\ task[i].at = l

TaskGoto(i, l) == task' = [task EXCEPT ![i].at = l]

EndTask(i) == task' = Drop(task, {i})

\* process() returns Ok at once for a generation in a terminal state.
BeginProcess(i) ==
  /\ At(i, "begin")
  /\ IF stream[i].job \in failed
     THEN /\ TaskGoto(i, "ackOk")
          /\ succeeded' = succeeded \cup {i}
     ELSE /\ TaskGoto(i, "run")
          /\ UNCHANGED succeeded
  /\ UNCHANGED <<stream, redisVars, pel, loopVars, breakVars, dlqVars, buried,
                 lost>>

ProcessOk(i) ==
  /\ At(i, "run")
  /\ TaskGoto(i, "ackOk")
  /\ succeeded' = succeeded \cup {i}
  /\ UNCHANGED <<stream, redisVars, pel, loopVars, breakVars, dlqVars, buried, lost>>

\* A permanent error, or a retryable one on the last try, counts towards the
\* breaker and goes to the DLQ; any other error backs off.
ProcessErr(i, permanent) ==
  LET w    == task[i].by
      bury == permanent \/ stream[i].attempt + 1 > MaxTries
      n    == fails[w] + 1
  IN  /\ At(i, "run")
      /\ TaskGoto(i, IF bury THEN "dlqAdd" ELSE "backoff")
      /\ IF bury /\ task[i].own
         THEN /\ fails' = [fails EXCEPT ![w] = n]
              /\ open' = [open EXCEPT ![w] = @ \/ n >= Threshold]
         ELSE UNCHANGED breakVars
      /\ UNCHANGED <<stream, redisVars, pel, loopVars, dlqVars, histVars>>

\* Mutant: the permit is not given back.
AckOkKeepingPermit(i) ==
  LET w == task[i].by
  IN  /\ At(i, "ackOk")
      /\ fails' = [fails EXCEPT ![w] = 0]
      /\ open' = [open EXCEPT ![w] = FALSE]
      /\ Xack(i)
      /\ UNCHANGED <<stream, redisVars, loopVars, task, dlqVars, histVars>>

\* Reset of the breaker and XACK after a success.
AckOk(i) ==
  LET w == task[i].by
  IN  /\ At(i, "ackOk")
      /\ IF task[i].own
         THEN /\ fails' = [fails EXCEPT ![w] = 0]
              /\ open' = [open EXCEPT ![w] = FALSE]
         ELSE UNCHANGED breakVars
      /\ \/ Xack(i)
         \/ "redis" \in Faults /\ UNCHANGED pel
      /\ EndTask(i)
      /\ UNCHANGED <<stream, redisVars, loopVars, dlqVars, histVars>>

\* send_to_dlq, first half: XADD to the dead-letter stream, errors are logged.
AddToDlq(i) ==
  /\ At(i, "dlqAdd")
  /\ \/ dlq' = dlq \cup {stream[i].job} /\ buried' = buried \cup {i}
     \/ "redis" \in Faults /\ UNCHANGED <<dlq, buried>>
  /\ TaskGoto(i, "mark")
  /\ UNCHANGED <<stream, redisVars, pel, loopVars, breakVars, failed, revives,
                 succeeded, lost>>

\* Second half: mark_failed, whose error is ignored.
MarkFailed(i) ==
  /\ At(i, "mark")
  /\ \/ failed' = failed \cup {stream[i].job} /\ buried' = buried \cup {i}
     \/ "db" \in Faults /\ UNCHANGED <<failed, buried>>
  /\ TaskGoto(i, "ackDlq")
  /\ UNCHANGED <<stream, redisVars, pel, loopVars, breakVars, dlq, revives, succeeded, lost>>

AckDlq(i) ==
  /\ At(i, "ackDlq")
  /\ \/ Xack(i) /\ lost' = lost \cup ({i} \ buried)
     \/ "redis" \in Faults /\ UNCHANGED <<pel, lost>>
  /\ EndTask(i)
  /\ UNCHANGED <<stream, redisVars, loopVars, breakVars, dlqVars, succeeded, buried>>

\* The backoff is over: XACK the entry ...
AckRetry(i) ==
  /\ At(i, "backoff")
  /\ \/ Xack(i) /\ TaskGoto(i, "readd")
     \/ "redis" \in Faults /\ UNCHANGED pel /\ TaskGoto(i, "readd")
     \/ "redis" \in Faults /\ UNCHANGED pel /\ EndTask(i)
  /\ UNCHANGED <<stream, redisVars, loopVars, breakVars, dlqVars, histVars>>

\* Mutant: the attempt is not raised.
AddAgainSameAttempt(i) ==
  /\ At(i, "readd")
  /\ Xadd(stream[i].job, stream[i].attempt)
  /\ EndTask(i)
  /\ UNCHANGED <<redisVars, pel, loopVars, breakVars, dlqVars, histVars>>

\* ... then XADD it again with the attempt raised, errors ignored.
AddAgain(i) ==
  /\ At(i, "readd")
  /\ \/ Xadd(stream[i].job, stream[i].attempt + 1) /\ UNCHANGED lost
     \/ /\ "redis" \in Faults
        /\ UNCHANGED stream
        /\ lost' = lost \cup ({i} \ DOMAIN pel)
  /\ EndTask(i)
  /\ UNCHANGED <<redisVars, pel, loopVars, breakVars, dlqVars, succeeded,
                 buried>>

--------------------------------------------------------------------------------
\* Faults.

Restart(w) ==
  /\ LoopGoto(w, "boot")
  /\ fails' = [fails EXCEPT ![w] = 0]
  /\ open' = [open EXCEPT ![w] = FALSE]

\* The process stops and a new one comes up: its batch and tasks are gone.
Crash(w) ==
  LET gone == {i \in DOMAIN task : task[i].by = w}
  IN  /\ "crash" \in Faults
      /\ Restart(w)
      /\ batch' = [batch EXCEPT ![w] = {}]
      /\ task' = Drop(task, gone)
      /\ lost' = lost \cup {i \in gone \ (DOMAIN pel \cup succeeded \cup buried) :
                              task[i].at = "readd"}
      /\ UNCHANGED <<stream, redisVars, pel, dlqVars, succeeded, buried>>

\* A Redis error ends run().  main restarts an embedded worker with a fresh
\* Worker, while the tasks already spawned go on with the old one's permits.
LoopFails(w) ==
  /\ "redis" \in Faults
  /\ loop[w] \in {"boot", "claim", "read"}
  /\ Restart(w)
  /\ task' = [i \in DOMAIN task |->
                [task[i] EXCEPT !.own = @ /\ task[i].by # w]]
  /\ UNCHANGED <<stream, redisVars, pel, batch, dlqVars, histVars>>

\* The same, with the reply of XREADGROUP lost on the way.
ReplyLost(w) ==
  /\ "redis" \in Faults
  /\ loop[w] = "read"
  /\ pel' = Assign(pel, NextEntries, w)
  /\ cursor' = cursor + Cardinality(NextEntries)
  /\ Restart(w)
  /\ task' = [i \in DOMAIN task |->
                [task[i] EXCEPT !.own = @ /\ task[i].by # w]]
  /\ UNCHANGED <<stream, grouped, origin, batch, dlqVars, histVars>>

--------------------------------------------------------------------------------
LoopStep(w) ==
  \/ Boot(w)
  \/ CheckCircuit(w)
  \/ ClaimPending(w)
  \/ ReadMessages(w)
  \/ \E i \in batch[w] : SpawnTask(w, i)
  \/ EndOfBatch(w)

TaskStep(i) ==
  \/ BeginProcess(i)
  \/ ProcessOk(i)
  \/ \E permanent \in BOOLEAN : ProcessErr(i, permanent)
  \/ AckOk(i)
  \/ AddToDlq(i)
  \/ MarkFailed(i)
  \/ AckDlq(i)
  \/ AckRetry(i)
  \/ AddAgain(i)

Fault(w) == Crash(w) \/ LoopFails(w) \/ ReplyLost(w)

Next ==
  \/ \E j \in Job : Enqueue(j) \/ RetryFromDlq(j)
  \/ \E w \in Worker : LoopStep(w) \/ Fault(w)
  \/ \E i \in DOMAIN task : TaskStep(i)

Spec == Init /\ [][Next]_vars

\* Every worker's loop and every task keep running; a cooldown ends.  The ids
\* are those a run can create.
MaxEntries == Cardinality(Job) * MaxTries + MaxRevives * MaxTries

Fairness ==
  /\ \A w \in Worker : WF_vars(LoopStep(w))
  /\ \A i \in 1..MaxEntries : WF_vars(TaskStep(i))

FairSpec == Spec /\ Fairness

--------------------------------------------------------------------------------
\* The jobs, as JobQueue sees them.

Latest(j) == CHOOSE i \in EntriesOf(j) : \A k \in EntriesOf(j) : k <= i

InBatch(i) == \E w \in Worker : i \in batch[w]

EntryState(i) ==
  IF i \in succeeded THEN "done"
  ELSE IF i \in buried THEN "dead"
  ELSE IF i \in DOMAIN task THEN "running"
  ELSE IF i > cursor \/ InBatch(i) THEN "waiting"
  ELSE "stranded"

State == [j \in Job |-> IF EntriesOf(j) = {} THEN "idle"
                                             ELSE EntryState(Latest(j))]

Tries == [j \in Job |-> IF EntriesOf(j) = {} THEN 0
                                             ELSE stream[Latest(j)].attempt]

Abstract == INSTANCE JobQueue WITH state <- State, tries <- Tries

--------------------------------------------------------------------------------
\* Properties.

\* The stream, the loop and its tasks implement the abstract queue: at most
\* MaxTries runs per submission, no job lost unless a fault strands it, no job
\* brought back unless an administrator does.  As for OneLiveEntry, a job whose
\* dead-letter entry could not be deleted must not be retried a second time.
ImplementsJobQueue == Abstract!Spec

\* An entry that may still cause a run of its job: undelivered, read, or held by
\* a task that is processing it or about to add it again.
Live(i) ==
  \/ i > cursor
  \/ InBatch(i)
  \/ i \in DOMAIN task /\ task[i].at \in {"begin", "run", "backoff", "readd"}

\* Two tasks never process the same job at the same time, although delivery is
\* at least once, entries change owner in XCLAIM and a retry is a second entry:
\* of the entries of a job at most one is live.  retry_from_dlq ignores the error of
\* XDEL, so it holds as long as an administrator does not retry again a job whose
\* entry was left behind (MaxRevives <= 1, or no Redis faults).
OneLiveEntry ==
  \A i, k \in Ids :
    stream[i].job = stream[k].job /\ Live(i) /\ Live(k) => i = k

\* An acknowledged entry has been dealt with: processed, buried, or added again.
\* The exceptions are the ones the history variable `lost` is given: a stop or a
\* failed XADD between XACK and XADD, and a DLQ step that failed twice.
NothingVanishes ==
  \A i \in 1..cursor :
    \/ i \in DOMAIN pel
    \/ i <= origin
    \/ At(i, "readd")
    \/ i \in succeeded \cup buried \cup lost
    \/ \E k \in EntriesOf(stream[i].job) : k > i

\* Without faults every job that is waiting in an existing group is processed to
\* the end or buried: retries run out, the breaker closes again, permits and
\* loops are not starved.
JobsEnd ==
  \A j \in Job : grouped /\ State[j] = "waiting" ~> State[j] \in {"done", "dead"}
================================================================================
