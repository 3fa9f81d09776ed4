--------------------------- MODULE StreamQueueProofs ---------------------------
(***************************************************************************)
(* For any number of jobs, workers, retries and faults: a job has at most  *)
(* one live entry, no entry vanishes, and the stream implements JobQueue.  *)
(***************************************************************************)
EXTENDS StreamQueue, FiniteSetTheorems, WellFoundedInduction, TLAPS

--------------------------------------------------------------------------------
(* The invariants.                                                         *)

\* A task that will add its entry again has a try left.
TriesLeft ==
  \A i \in DOMAIN task :
    task[i].at \in {"backoff", "readd"} => stream[i].attempt < MaxTries

TypeInv == TypeOK /\ TriesLeft

\* A delivered entry is at one place: in the batch of one worker, or in a task.
PlaceInv ==
  /\ \A i \in DOMAIN task : i <= cursor
  /\ \A w \in Worker : /\ \A i \in batch[w] : i <= cursor /\ i \notin DOMAIN task
                       /\ loop[w] # "dispatch" => batch[w] = {}
  /\ \A v, w \in Worker : v # w => batch[v] \cap batch[w] = {}

Undelivered(i) == i > cursor \/ InBatch(i)

\* What is recorded of an entry agrees with the step its task is at.
OutcomeInv ==
  /\ \A i \in DOMAIN task :
       /\ i \in succeeded <=> task[i].at = "ackOk"
       /\ task[i].at \notin {"mark", "ackDlq"} => i \notin buried
  /\ \A i \in Ids : Undelivered(i) => i \notin succeeded \cup buried
  /\ succeeded \cap buried = {}

\* A live entry, or one that is on its way to the dead-letter queue.
Unsettled(i) == Live(i) \/ At(i, "dlqAdd")

IsLast(i) == \A k \in Ids : stream[k].job = stream[i].job => k <= i

\* An unsettled entry is the last one of its job.  While the dead-letter queue may
\* still be used, a job in it has no unsettled entry: its last one was buried.
LastInv ==
  /\ \A i \in Ids : Unsettled(i) => IsLast(i)
  /\ revives < MaxRevives =>
       \A j \in dlq : \E i \in Ids : /\ stream[i].job = j
                                     /\ i \in buried
                                     /\ IsLast(i)
                                     /\ ~Unsettled(i)

--------------------------------------------------------------------------------
(* What the commands do.                                                   *)

\* The stream has one more entry.
Grown(j, n) ==
  /\ stream' \in Seq(Entry)
  /\ Len(stream') = Len(stream) + 1
  /\ \A i \in Ids : i \in Ids' /\ stream'[i] = stream[i]
  /\ \A i \in Ids' : i \in Ids \/ i = Len(stream) + 1
  /\ Len(stream) + 1 \in Ids' /\ Len(stream) + 1 \notin Ids
  /\ stream'[Len(stream) + 1].job = j
  /\ stream'[Len(stream) + 1].attempt = n

\* XADD.
LEMMA XaddGrows ==
  ASSUME TypeInv, NEW j \in Job, NEW n \in 1..MaxTries, Xadd(j, n)
  PROVE  Grown(j, n)
<1> DEFINE e == [job |-> j, attempt |-> n]
<1>1. e \in Entry /\ e.job = j /\ e.attempt = n
  BY DEF Entry
<1>2. stream \in Seq(Entry) /\ stream' = Append(stream, e)
  BY DEF TypeInv, TypeOK, Xadd
<1> HIDE DEF e
<1>3. /\ stream' \in Seq(Entry) /\ Len(stream) \in Nat /\ Len(stream') = Len(stream) + 1
      /\ \A i \in 1..Len(stream) : stream'[i] = stream[i]
      /\ stream'[Len(stream) + 1] = e
  BY <1>1, <1>2
<1> QED
  BY <1>1, <1>3 DEF Grown, Ids

\* XREADGROUP delivers what is behind the cursor, up to BATCH_SIZE entries, and puts
\* the cursor behind the last of them.
LEMMA Delivered ==
  ASSUME TypeInv
  PROVE  /\ NextEntries \subseteq Ids
         /\ cursor + Cardinality(NextEntries) \in 0..Len(stream)
         /\ cursor <= cursor + Cardinality(NextEntries)
         /\ \A i \in Ids : i <= cursor + Cardinality(NextEntries)
                             <=> i <= cursor \/ i \in NextEntries
         /\ \A i \in NextEntries : i > cursor
<1>1. /\ Len(stream) \in Nat /\ cursor \in 0..Len(stream)
      /\ BatchSize \in Nat /\ BatchSize > 0
  BY StreamQueueAssumption DEF TypeInv, TypeOK
<1> DEFINE last == IF cursor + BatchSize <= Len(stream) THEN cursor + BatchSize ELSE Len(stream)
<1>2. NextEntries = (cursor + 1)..last /\ last \in Nat /\ cursor <= last /\ last <= Len(stream)
  BY <1>1 DEF NextEntries, Ids
<1> HIDE DEF last
<1>3. Cardinality((cursor + 1)..last) = IF cursor + 1 > last THEN 0 ELSE last - (cursor + 1) + 1
  BY <1>1, <1>2, FS_Interval
<1>4. cursor + Cardinality(NextEntries) = last
  BY <1>1, <1>2, <1>3
<1> QED
  BY <1>1, <1>2, <1>4 DEF Ids

\* A task takes a step and stays.
TaskMoved(i, l) ==
  /\ DOMAIN task' = DOMAIN task
  /\ task'[i] = [task[i] EXCEPT !.at = l]
  /\ task' \in [DOMAIN task -> Task] /\ task'[i].at = l
  /\ \A k \in DOMAIN task \ {i} : task'[k] = task[k]

\* TaskGoto.
LEMMA GotoMoves ==
  ASSUME TypeInv, NEW i \in DOMAIN task, NEW l \in TaskPc, TaskGoto(i, l)
  PROVE  TaskMoved(i, l)
<1> DEFINE x == [task[i] EXCEPT !.at = l]
<1>1. task \in [DOMAIN task -> Task] /\ task[i] \in Task
  BY DEF TypeInv, TypeOK
<1>2. x \in Task /\ x.at = l
  BY <1>1 DEF Task
<1>3. task' = [task EXCEPT ![i] = x]
  BY DEF TaskGoto
<1> HIDE DEF x
<1>4. /\ DOMAIN task' = DOMAIN task /\ task' \in [DOMAIN task -> Task]
      /\ task'[i] = x /\ \A k \in DOMAIN task \ {i} : task'[k] = task[k]
  BY <1>1, <1>2, <1>3
<1> QED
  BY <1>2, <1>4 DEF TaskMoved, x

\* Entries leave the pending list and the tasks.
LEMMA DropIs ==
  ASSUME NEW f, NEW S
  PROVE  /\ DOMAIN Drop(f, S) = DOMAIN f \ S
         /\ \A i \in DOMAIN f \ S : Drop(f, S)[i] = f[i]
BY DEF Drop

\* Entries enter them, or change hands.
LEMMA AssignIs ==
  ASSUME NEW f, NEW S, NEW v
  PROVE  /\ DOMAIN Assign(f, S, v) = DOMAIN f \cup S
         /\ \A i \in S : Assign(f, S, v)[i] = v
         /\ \A i \in DOMAIN f \ S : Assign(f, S, v)[i] = f[i]
BY DEF Assign

\* Tasks lose their permit and breaker, no more.
Disowned(w) ==
  /\ DOMAIN task' = DOMAIN task
  /\ task' \in [DOMAIN task -> Task]
  /\ \A i \in DOMAIN task : /\ task'[i].at = task[i].at
                            /\ task'[i].by = task[i].by

\* The restart of an embedded worker.
LEMMA RestartDisowns ==
  ASSUME TypeInv, NEW w,
         task' = [i \in DOMAIN task |-> [task[i] EXCEPT !.own = @ /\ task[i].by # w]]
  PROVE  Disowned(w)
<1>1. ASSUME NEW i \in DOMAIN task
      PROVE  /\ task'[i] \in Task
             /\ task'[i].at = task[i].at
             /\ task'[i].by = task[i].by
  <2> DEFINE b == task[i].own /\ task[i].by # w
  <2>1. task'[i] = [task[i] EXCEPT !.own = b]
    OBVIOUS
  <2>2. task[i] \in Task /\ b \in BOOLEAN
    BY DEF TypeInv, TypeOK
  <2> HIDE DEF b
  <2> QED
    BY <2>1, <2>2 DEF Task
<1> QED
  BY <1>1 DEF Disowned

--------------------------------------------------------------------------------
(* Types.                                                                  *)

\* The first state has the types.
LEMMA TypeInvInit == Init => TypeInv
<1> SUFFICES ASSUME Init
             PROVE  TypeInv
  OBVIOUS
<1>1. /\ stream \in Seq(Entry) /\ Len(stream) = 0 /\ DOMAIN pel = {} /\ DOMAIN task = {}
  BY DEF Init
<1>2. pel \in [DOMAIN pel -> Worker] /\ task \in [DOMAIN task -> Task]
  BY <1>1 DEF Init
<1>3. /\ grouped \in BOOLEAN /\ cursor \in 0..Len(stream) /\ origin \in 0..Len(stream)
      /\ revives \in 0..MaxRevives
  <2>1. 0 \in 0..0 /\ 0 \in 0..MaxRevives
    BY StreamQueueAssumption
  <2> QED
    BY <1>1, <2>1 DEF Init
<1>4. /\ loop \in [Worker -> LoopPc] /\ fails \in [Worker -> Nat]
      /\ batch \in [Worker -> SUBSET Ids]
  BY DEF Init, LoopPc
<1>5. open \in [Worker -> BOOLEAN]
  BY DEF Init
<1> QED
  BY <1>1, <1>2, <1>3, <1>4, <1>5 DEF Init, TypeInv, TypeOK, TriesLeft

\* An XADD, of a new job or of a task that ends with it, preserves the types.
LEMMA GrownTypes ==
  ASSUME TypeInv, NEW j \in Job, NEW n \in 1..MaxTries, Grown(j, n),
         \/ task' = task
         \/ \E i : task' = Drop(task, {i}),
         dlq' \subseteq dlq, revives' \in 0..MaxRevives,
         UNCHANGED <<redisVars, pel, loopVars, breakVars, failed, histVars>>
  PROVE  TypeInv'
<1>1. /\ DOMAIN task' \subseteq DOMAIN task
      /\ task' \in [DOMAIN task' -> Task]
      /\ \A i \in DOMAIN task' : task'[i] = task[i]
  <2>1. task \in [DOMAIN task -> Task]
    BY DEF TypeInv, TypeOK
  <2> QED
    BY <2>1 DEF Drop
<1>2. stream' \in Seq(Entry) /\ Len(stream) \in Nat /\ Len(stream') = Len(stream) + 1
  BY DEF Grown, TypeInv, TypeOK
<1>3. Ids \subseteq Ids' /\ \A i \in Ids : stream'[i] = stream[i]
  BY DEF Grown
<1>4. /\ cursor' \in 0..Len(stream') /\ origin' \in 0..Len(stream')
      /\ grouped' \in BOOLEAN
  BY <1>2 DEF redisVars, TypeInv, TypeOK
<1>5. /\ DOMAIN pel' \subseteq Ids' /\ pel' \in [DOMAIN pel' -> Worker]
      /\ DOMAIN task' \subseteq Ids' /\ succeeded' \subseteq Ids'
      /\ buried' \subseteq Ids' /\ lost' \subseteq Ids'
  BY <1>1, <1>3 DEF histVars, TypeInv, TypeOK
<1>6. /\ loop' \in [Worker -> LoopPc] /\ batch' \in [Worker -> SUBSET Ids']
      /\ fails' \in [Worker -> Nat] /\ open' \in [Worker -> BOOLEAN]
      /\ failed' \subseteq Job /\ dlq' \subseteq Job
  BY <1>3 DEF loopVars, breakVars, TypeInv, TypeOK
<1>7. TriesLeft'
  BY <1>1, <1>3 DEF TriesLeft, TypeInv, TypeOK
<1> QED
  BY <1>1, <1>2, <1>4, <1>5, <1>6, <1>7 DEF TypeInv, TypeOK

\* enqueue and retry_from_dlq preserve the types.
LEMMA TypeInvQueue ==
  ASSUME TypeInv, NEW j \in Job, Enqueue(j) \/ RetryFromDlq(j)
  PROVE  TypeInv'
<1>1. 1 \in 1..MaxTries
  BY StreamQueueAssumption
<1>2. CASE Enqueue(j)
  <2>1. Grown(j, 1)
    BY <1>1, <1>2, XaddGrows DEF Enqueue
  <2>2. task' = task /\ dlq' \subseteq dlq /\ revives' \in 0..MaxRevives
    BY <1>2 DEF Enqueue, dlqVars, TypeInv, TypeOK
  <2> QED
    BY <1>1, <1>2, <2>1, <2>2, GrownTypes DEF Enqueue, dlqVars
<1>3. CASE RetryFromDlq(j)
  <2>1. task' = task /\ dlq' \subseteq dlq /\ revives' \in 0..MaxRevives
    BY <1>3, StreamQueueAssumption DEF RetryFromDlq, TypeInv, TypeOK
  <2>2. CASE Xadd(j, 1)
    <3>1. Grown(j, 1)
      BY <1>1, <2>2, XaddGrows
    <3> QED
      BY <1>1, <1>3, <2>1, <3>1, GrownTypes DEF RetryFromDlq
  <2>3. CASE UNCHANGED stream
    BY <1>3, <2>1, <2>3
       DEF RetryFromDlq, TypeInv, TypeOK, TriesLeft, Ids, redisVars, loopVars, breakVars,
           histVars
  <2> QED
    BY <1>3, <2>2, <2>3 DEF RetryFromDlq
<1> QED
  BY <1>2, <1>3

\* Steps that add nothing to the stream preserve the types when they preserve these.
LEMMA SameStreamTypes ==
  ASSUME TypeInv, stream' = stream,
         grouped' \in BOOLEAN, cursor' \in 0..Len(stream), origin' \in 0..Len(stream),
         DOMAIN pel' \subseteq Ids, pel' \in [DOMAIN pel' -> Worker],
         loop' \in [Worker -> LoopPc], batch' \in [Worker -> SUBSET Ids],
         fails' \in [Worker -> Nat], open' \in [Worker -> BOOLEAN],
         DOMAIN task' \subseteq Ids, task' \in [DOMAIN task' -> Task],
         failed' \subseteq Job, dlq' \subseteq Job, revives' = revives,
         succeeded' \subseteq Ids, buried' \subseteq Ids, lost' \subseteq Ids,
         \A i \in DOMAIN task' :
           task'[i].at \in {"backoff", "readd"} => stream[i].attempt < MaxTries
  PROVE  TypeInv'
BY DEF TypeInv, TypeOK, TriesLeft, Ids

\* The pending list keeps its type.
LEMMA PelTypes ==
  ASSUME TypeInv, NEW S \in SUBSET Ids, NEW w \in Worker,
         \/ pel' = pel \/ pel' = Drop(pel, S) \/ pel' = Assign(pel, S, w)
  PROVE  DOMAIN pel' \subseteq Ids /\ pel' \in [DOMAIN pel' -> Worker]
<1>1. DOMAIN pel \subseteq Ids /\ pel \in [DOMAIN pel -> Worker]
  BY DEF TypeInv, TypeOK
<1> QED
  BY <1>1 DEF Drop, Assign

\* The event loop preserves the types.
LEMMA TypeInvLoop ==
  ASSUME TypeInv, NEW w \in Worker, LoopStep(w)
  PROVE  TypeInv'
<1>1. /\ grouped \in BOOLEAN /\ cursor \in 0..Len(stream) /\ origin \in 0..Len(stream)
      /\ DOMAIN pel \subseteq Ids /\ pel \in [DOMAIN pel -> Worker]
      /\ loop \in [Worker -> LoopPc] /\ batch \in [Worker -> SUBSET Ids]
      /\ fails \in [Worker -> Nat] /\ open \in [Worker -> BOOLEAN]
      /\ DOMAIN task \subseteq Ids /\ task \in [DOMAIN task -> Task]
      /\ failed \subseteq Job /\ dlq \subseteq Job
      /\ succeeded \subseteq Ids /\ buried \subseteq Ids /\ lost \subseteq Ids
      /\ Len(stream) \in Nat
  BY DEF TypeInv, TypeOK
<1>2. \A i \in DOMAIN task :
        task[i].at \in {"backoff", "readd"} => stream[i].attempt < MaxTries
  BY DEF TypeInv, TriesLeft
<1>3. \A l \in LoopPc : [loop EXCEPT ![w] = l] \in [Worker -> LoopPc]
  BY <1>1
<1>4. {"check", "claim", "read", "dispatch"} \subseteq LoopPc
  BY DEF LoopPc
<1>5. CASE Boot(w)
  <2>1. /\ stream' = stream /\ grouped' = TRUE
        /\ cursor' = cursor \/ cursor' = Len(stream)
        /\ origin' = origin \/ origin' = Len(stream)
        /\ loop' = [loop EXCEPT ![w] = "check"]
        /\ UNCHANGED <<pel, batch, breakVars, task, dlqVars, histVars>>
    BY <1>5 DEF Boot, LoopGoto
  <2> QED
    BY <1>1, <1>2, <1>3, <1>4, <2>1, SameStreamTypes DEF breakVars, dlqVars, histVars
<1>6. CASE CheckCircuit(w)
  <2>1. fails' \in [Worker -> Nat]
    BY <1>1, <1>6 DEF CheckCircuit
  <2>2. open' \in [Worker -> BOOLEAN]
    BY <1>1, <1>6, Zenon DEF CheckCircuit
  <2> QED
    BY <1>1, <1>2, <1>3, <1>4, <1>6, <2>1, <2>2, SameStreamTypes
       DEF CheckCircuit, LoopGoto, redisVars, dlqVars, histVars
<1>7. CASE ClaimPending(w)
  <2>1. PICK S \in SUBSET FirstPending : pel' = Assign(pel, S, w)
    BY <1>7 DEF ClaimPending
  <2>2. S \in SUBSET Ids
    BY <1>1 DEF FirstPending
  <2>3. DOMAIN pel' \subseteq Ids /\ pel' \in [DOMAIN pel' -> Worker]
    BY <2>1, <2>2, PelTypes
  <2> QED
    BY <1>1, <1>2, <1>3, <1>4, <1>7, <2>3, SameStreamTypes
       DEF ClaimPending, LoopGoto, redisVars, breakVars, dlqVars, histVars
<1>8. CASE ReadMessages(w)
  <2>1. NextEntries \subseteq Ids /\ cursor' \in 0..Len(stream)
    BY <1>8, Delivered DEF ReadMessages
  <2>2. DOMAIN pel' \subseteq Ids /\ pel' \in [DOMAIN pel' -> Worker]
    BY <1>8, <2>1, PelTypes DEF ReadMessages
  <2>3. batch' \in [Worker -> SUBSET Ids]
    BY <1>1, <1>8, <2>1 DEF ReadMessages
  <2> QED
    BY <1>1, <1>2, <1>3, <1>4, <1>8, <2>1, <2>2, <2>3, SameStreamTypes
       DEF ReadMessages, LoopGoto, breakVars, dlqVars, histVars
<1>9. ASSUME NEW i \in batch[w], SpawnTask(w, i)
      PROVE  TypeInv'
  <2> DEFINE x == [by |-> w, at |-> "begin", own |-> TRUE]
  <2>1. x \in Task /\ x.at = "begin"
    BY DEF Task, TaskPc
  <2>2. /\ task' = Assign(task, {i}, x)
        /\ batch' = [batch EXCEPT ![w] = batch[w] \ {i}]
        /\ UNCHANGED <<stream, redisVars, pel, loop, breakVars, dlqVars, histVars>>
    BY <1>9 DEF SpawnTask
  <2> HIDE DEF x
  <2>3. i \in Ids
    BY <1>1
  <2>4. DOMAIN task' \subseteq Ids /\ task' \in [DOMAIN task' -> Task]
    BY <1>1, <2>1, <2>2, <2>3 DEF Assign
  <2>5. \A k \in DOMAIN task' :
          task'[k].at \in {"backoff", "readd"} => stream[k].attempt < MaxTries
    <3>1. \A k \in DOMAIN task' : k # i => k \in DOMAIN task /\ task'[k] = task[k]
      BY <2>2 DEF Assign
    <3>2. task'[i] = x
      BY <2>2 DEF Assign
    <3> QED
      BY <1>2, <2>1, <3>1, <3>2
  <2>6. batch' \in [Worker -> SUBSET Ids]
    <3>1. batch[w] \ {i} \in SUBSET Ids
      BY <1>1
    <3> QED
      BY <1>1, <2>2, <3>1
  <2> QED
    BY <1>1, <2>2, <2>4, <2>5, <2>6, SameStreamTypes
       DEF redisVars, breakVars, dlqVars, histVars
<1>10. CASE EndOfBatch(w)
  BY <1>1, <1>2, <1>3, <1>4, <1>10, SameStreamTypes
     DEF EndOfBatch, LoopGoto, redisVars, breakVars, dlqVars, histVars
<1> QED
  BY <1>5, <1>6, <1>7, <1>8, <1>9, <1>10 DEF LoopStep

\* A task's step moves it on or ends it.
LEMMA TaskTypes ==
  ASSUME TypeInv, NEW i \in DOMAIN task,
         \/ \E l \in TaskPc : TaskGoto(i, l) /\ (l \in {"backoff", "readd"}
                                                   => stream[i].attempt < MaxTries)
         \/ EndTask(i)
  PROVE  /\ DOMAIN task' \subseteq Ids /\ task' \in [DOMAIN task' -> Task]
         /\ \A k \in DOMAIN task' :
              task'[k].at \in {"backoff", "readd"} => stream[k].attempt < MaxTries
<1>1. /\ DOMAIN task \subseteq Ids /\ task \in [DOMAIN task -> Task]
      /\ \A k \in DOMAIN task :
           task[k].at \in {"backoff", "readd"} => stream[k].attempt < MaxTries
  BY DEF TypeInv, TypeOK, TriesLeft
<1>2. CASE EndTask(i)
  BY <1>1, <1>2 DEF EndTask, Drop
<1>3. ASSUME NEW l \in TaskPc, TaskGoto(i, l),
             l \in {"backoff", "readd"} => stream[i].attempt < MaxTries
      PROVE  /\ DOMAIN task' \subseteq Ids /\ task' \in [DOMAIN task' -> Task]
             /\ \A k \in DOMAIN task' :
                  task'[k].at \in {"backoff", "readd"} => stream[k].attempt < MaxTries
  <2>1. TaskMoved(i, l)
    BY <1>3, GotoMoves
  <2> QED
    BY <1>1, <1>3, <2>1 DEF TaskMoved
<1> QED
  BY <1>2, <1>3

\* A task has an entry of the stream.
LEMMA TaskEntry ==
  ASSUME TypeInv, NEW i \in DOMAIN task
  PROVE  /\ i \in Ids /\ task[i] \in Task /\ task[i].by \in Worker /\ task[i].at \in TaskPc
         /\ stream[i].job \in Job /\ stream[i].attempt \in 1..MaxTries
<1>1. /\ i \in Ids /\ task[i] \in Task /\ stream \in Seq(Entry)
  BY DEF TypeInv, TypeOK
<1>2. stream[i] \in Entry
  BY <1>1 DEF Ids
<1> QED
  BY <1>1, <1>2 DEF Entry, Task

\* The steps of a task preserve the types.
LEMMA TypeInvTask ==
  ASSUME TypeInv, NEW i \in DOMAIN task, TaskStep(i)
  PROVE  TypeInv'
<1> DEFINE TaskOK == /\ DOMAIN task' \subseteq Ids /\ task' \in [DOMAIN task' -> Task]
                     /\ \A k \in DOMAIN task' :
                          task'[k].at \in {"backoff", "readd"} => stream[k].attempt < MaxTries
<1>1. /\ grouped \in BOOLEAN /\ cursor \in 0..Len(stream) /\ origin \in 0..Len(stream)
      /\ DOMAIN pel \subseteq Ids /\ pel \in [DOMAIN pel -> Worker]
      /\ loop \in [Worker -> LoopPc] /\ batch \in [Worker -> SUBSET Ids]
      /\ fails \in [Worker -> Nat] /\ open \in [Worker -> BOOLEAN]
      /\ failed \subseteq Job /\ dlq \subseteq Job
      /\ succeeded \subseteq Ids /\ buried \subseteq Ids /\ lost \subseteq Ids
      /\ i \in Ids /\ task[i] \in Task
      /\ stream[i].job \in Job /\ stream[i].attempt \in 1..MaxTries /\ task[i].by \in Worker
  BY TaskEntry DEF TypeInv, TypeOK
<1>2. /\ {"run", "ackOk", "dlqAdd", "mark", "ackDlq", "backoff", "readd"} \subseteq TaskPc
      /\ task[i].at \in {"backoff", "readd"} => stream[i].attempt < MaxTries
      /\ MaxTries \in Nat /\ Threshold \in Nat
  BY StreamQueueAssumption DEF TaskPc, TypeInv, TriesLeft
<1>3. pel' = pel \/ Xack(i) => DOMAIN pel' \subseteq Ids /\ pel' \in [DOMAIN pel' -> Worker]
  <2>1. {i} \in SUBSET Ids
    BY <1>1
  <2> QED
    BY <1>1, <2>1, PelTypes DEF Xack
<1>4. CASE BeginProcess(i) \/ ProcessOk(i)
  <2>1. /\ succeeded' \subseteq Ids
        /\ UNCHANGED <<stream, redisVars, pel, loopVars, breakVars, dlqVars, buried, lost>>
    BY <1>1, <1>4 DEF BeginProcess, ProcessOk
  <2>2. TaskOK
    BY <1>2, <1>4, TaskTypes DEF BeginProcess, ProcessOk
  <2> HIDE DEF TaskOK
  <2> QED
    BY <1>1, <2>1, <2>2, SameStreamTypes DEF redisVars, loopVars, breakVars, dlqVars, TaskOK
<1>5. ASSUME NEW permanent \in BOOLEAN, ProcessErr(i, permanent)
      PROVE  TypeInv'
  <2> DEFINE bury == permanent \/ stream[i].attempt + 1 > MaxTries
             w == task[i].by
  <2>1. /\ TaskGoto(i, IF bury THEN "dlqAdd" ELSE "backoff")
        /\ \/ breakVars' = breakVars
           \/ /\ fails' = [fails EXCEPT ![w] = fails[w] + 1]
              /\ open' = [open EXCEPT ![w] = open[w] \/ fails[w] + 1 >= Threshold]
        /\ UNCHANGED <<stream, redisVars, pel, loopVars, dlqVars, histVars>>
    BY <1>5 DEF ProcessErr
  <2>2. ~bury => stream[i].attempt < MaxTries
    BY <1>1, <1>2
  <2> HIDE DEF bury
  <2>3. TaskOK
    BY <1>2, <2>1, <2>2, TaskTypes
  <2>4. fails' \in [Worker -> Nat]
    <3>1. fails' = fails \/ fails' = [fails EXCEPT ![w] = fails[w] + 1]
      BY ONLY <2>1 DEF breakVars
    <3>2. w \in Worker /\ fails[w] \in Nat
      BY <1>1
    <3> HIDE DEF w
    <3> QED
      BY <1>1, <3>1, <3>2
  <2>5. open' \in [Worker -> BOOLEAN]
    <3> DEFINE b == open[w] \/ fails[w] + 1 >= Threshold
    <3>1. b \in BOOLEAN
      OBVIOUS
    <3>2. open' = open \/ open' = [open EXCEPT ![w] = b]
      BY <2>1 DEF breakVars
    <3> HIDE DEF b, w
    <3> QED
      BY <1>1, <3>1, <3>2, Zenon
  <2> HIDE DEF TaskOK
  <2> QED
    BY <1>1, <2>1, <2>3, <2>4, <2>5, SameStreamTypes
       DEF redisVars, loopVars, dlqVars, histVars, TaskOK
<1>6. CASE AckOk(i)
  <2>1. /\ \/ breakVars' = breakVars
           \/ /\ fails' = [fails EXCEPT ![task[i].by] = 0]
              /\ open' = [open EXCEPT ![task[i].by] = FALSE]
        /\ pel' = pel \/ Xack(i)
        /\ EndTask(i)
        /\ UNCHANGED <<stream, redisVars, loopVars, dlqVars, histVars>>
    BY <1>6 DEF AckOk
  <2>2. TaskOK
    BY <2>1, TaskTypes
  <2>3. fails' \in [Worker -> Nat]
    <3>1. fails' = fails \/ fails' = [fails EXCEPT ![task[i].by] = 0]
      BY ONLY <2>1 DEF breakVars
    <3>2. fails \in [Worker -> Nat] /\ 0 \in Nat
      BY <1>1
    <3> QED
      BY ONLY <3>1, <3>2
  <2>4. open' \in [Worker -> BOOLEAN]
    BY <1>1, <2>1, Zenon DEF breakVars
  <2> HIDE DEF TaskOK
  <2> QED
    BY <1>1, <1>3, <2>1, <2>2, <2>3, <2>4, SameStreamTypes
       DEF redisVars, loopVars, dlqVars, histVars, TaskOK
<1>7. CASE AddToDlq(i)
  <2>1. /\ dlq' \subseteq Job /\ buried' \subseteq Ids
        /\ UNCHANGED <<stream, redisVars, pel, loopVars, breakVars, failed, revives,
                       succeeded, lost>>
    BY <1>1, <1>7 DEF AddToDlq
  <2>2. TaskOK
    BY <1>2, <1>7, TaskTypes DEF AddToDlq
  <2> HIDE DEF TaskOK
  <2> QED
    BY <1>1, <2>1, <2>2, SameStreamTypes DEF redisVars, loopVars, breakVars, TaskOK
<1>8. CASE MarkFailed(i)
  <2>1. /\ failed' \subseteq Job /\ buried' \subseteq Ids
        /\ UNCHANGED <<stream, redisVars, pel, loopVars, breakVars, dlq, revives,
                       succeeded, lost>>
    BY <1>1, <1>8 DEF MarkFailed
  <2>2. TaskOK
    BY <1>2, <1>8, TaskTypes DEF MarkFailed
  <2> HIDE DEF TaskOK
  <2> QED
    BY <1>1, <2>1, <2>2, SameStreamTypes DEF redisVars, loopVars, breakVars, TaskOK
<1>9. CASE AckDlq(i)
  <2>1. /\ pel' = pel \/ Xack(i)
        /\ lost' \subseteq Ids
        /\ UNCHANGED <<stream, redisVars, loopVars, breakVars, dlqVars, succeeded, buried>>
    BY <1>1, <1>9 DEF AckDlq
  <2>2. TaskOK
    BY <1>9, TaskTypes DEF AckDlq
  <2> HIDE DEF TaskOK
  <2> QED
    BY <1>1, <1>3, <2>1, <2>2, SameStreamTypes
       DEF redisVars, loopVars, breakVars, dlqVars, TaskOK
<1>10. CASE AckRetry(i)
  <2>1. /\ pel' = pel \/ Xack(i)
        /\ TaskGoto(i, "readd") \/ EndTask(i)
        /\ stream[i].attempt < MaxTries
        /\ UNCHANGED <<stream, redisVars, loopVars, breakVars, dlqVars, histVars>>
    BY <1>2, <1>10 DEF AckRetry, At
  <2>2. TaskOK
    BY <1>2, <2>1, TaskTypes
  <2> HIDE DEF TaskOK
  <2> QED
    BY <1>1, <1>3, <2>1, <2>2, SameStreamTypes
       DEF redisVars, loopVars, breakVars, dlqVars, histVars, TaskOK
<1>11. CASE AddAgain(i)
  <2>1. stream[i].attempt < MaxTries
    BY <1>2, <1>11 DEF AddAgain, At
  <2>2. stream[i].attempt + 1 \in 1..MaxTries
    BY <1>1, <1>2, <2>1
  <2>3. CASE Xadd(stream[i].job, stream[i].attempt + 1) /\ UNCHANGED lost
    <3>1. Grown(stream[i].job, stream[i].attempt + 1)
      BY <1>1, <2>2, <2>3, XaddGrows
    <3>2. /\ task' = Drop(task, {i}) /\ dlq' \subseteq dlq /\ revives' \in 0..MaxRevives
          /\ UNCHANGED <<redisVars, pel, loopVars, breakVars, failed, histVars>>
      BY <1>11, <2>3 DEF AddAgain, EndTask, dlqVars, histVars, TypeInv, TypeOK
    <3> QED
      BY <1>1, <2>2, <3>1, <3>2, GrownTypes
  <2>4. CASE UNCHANGED stream /\ lost' = lost \cup ({i} \ DOMAIN pel)
    <3>1. TaskOK
      BY <1>11, TaskTypes DEF AddAgain
    <3>2. lost' \subseteq Ids
      BY <1>1, <2>4
    <3> HIDE DEF TaskOK
    <3> QED
      BY <1>1, <1>11, <2>4, <3>1, <3>2, SameStreamTypes
         DEF AddAgain, redisVars, loopVars, breakVars, dlqVars, TaskOK
  <2> QED
    BY <1>11, <2>3, <2>4 DEF AddAgain
<1> QED
  BY <1>4, <1>5, <1>6, <1>7, <1>8, <1>9, <1>10, <1>11 DEF TaskStep

\* Stops, restarts and lost replies preserve the types.
LEMMA TypeInvFault ==
  ASSUME TypeInv, NEW w \in Worker, Fault(w)
  PROVE  TypeInv'
<1>1. /\ grouped \in BOOLEAN /\ cursor \in 0..Len(stream) /\ origin \in 0..Len(stream)
      /\ DOMAIN pel \subseteq Ids /\ pel \in [DOMAIN pel -> Worker]
      /\ loop \in [Worker -> LoopPc] /\ batch \in [Worker -> SUBSET Ids]
      /\ fails \in [Worker -> Nat] /\ open \in [Worker -> BOOLEAN]
      /\ DOMAIN task \subseteq Ids /\ task \in [DOMAIN task -> Task]
      /\ failed \subseteq Job /\ dlq \subseteq Job
      /\ succeeded \subseteq Ids /\ buried \subseteq Ids /\ lost \subseteq Ids
  BY DEF TypeInv, TypeOK
<1>2. \A i \in DOMAIN task :
        task[i].at \in {"backoff", "readd"} => stream[i].attempt < MaxTries
  BY DEF TypeInv, TriesLeft
<1>3. Restart(w)
  BY DEF Fault, Crash, LoopFails, ReplyLost
<1>4. loop' \in [Worker -> LoopPc] /\ fails' \in [Worker -> Nat]
  BY <1>1, <1>3 DEF Restart, LoopGoto, LoopPc
<1>5. open' \in [Worker -> BOOLEAN]
  BY <1>1, <1>3, Zenon DEF Restart
<1>6. CASE Crash(w)
  <2> DEFINE gone == {i \in DOMAIN task : task[i].by = w}
  <2>1. task' = Drop(task, gone)
    BY <1>6 DEF Crash
  <2>2. /\ DOMAIN task' \subseteq Ids /\ task' \in [DOMAIN task' -> Task]
        /\ \A i \in DOMAIN task' :
             task'[i].at \in {"backoff", "readd"} => stream[i].attempt < MaxTries
    BY <1>1, <1>2, <2>1 DEF Drop
  <2>3. batch' \in [Worker -> SUBSET Ids] /\ lost' \subseteq Ids
    BY <1>1, <1>6 DEF Crash
  <2> QED
    BY <1>1, <1>4, <1>5, <1>6, <2>2, <2>3, SameStreamTypes DEF Crash, redisVars, dlqVars
<1>7. CASE LoopFails(w) \/ ReplyLost(w)
  <2>1. Disowned(w)
    BY <1>7, RestartDisowns DEF LoopFails, ReplyLost
  <2>2. /\ DOMAIN task' \subseteq Ids /\ task' \in [DOMAIN task' -> Task]
        /\ \A i \in DOMAIN task' :
             task'[i].at \in {"backoff", "readd"} => stream[i].attempt < MaxTries
    BY <1>1, <1>2, <2>1 DEF Disowned
  <2>3. /\ cursor' \in 0..Len(stream)
        /\ DOMAIN pel' \subseteq Ids /\ pel' \in [DOMAIN pel' -> Worker]
    <3>1. CASE LoopFails(w)
      BY <1>1, <3>1 DEF LoopFails, redisVars
    <3>2. CASE ReplyLost(w)
      BY <3>2, Delivered, PelTypes DEF ReplyLost
    <3> QED
      BY <1>7, <3>1, <3>2
  <2>4. UNCHANGED <<stream, grouped, origin, batch, dlqVars, histVars>>
    BY <1>7 DEF LoopFails, ReplyLost, redisVars
  <2> QED
    BY <1>1, <1>4, <1>5, <2>2, <2>3, <2>4, SameStreamTypes DEF dlqVars, histVars
<1> QED
  BY <1>6, <1>7 DEF Fault

\* Every step preserves the types.
LEMMA TypeInvNext == TypeInv /\ [Next]_vars => TypeInv'
<1> SUFFICES ASSUME TypeInv, [Next]_vars
             PROVE  TypeInv'
  OBVIOUS
<1>1. CASE UNCHANGED vars
  BY <1>1 DEF vars, TypeInv, TypeOK, TriesLeft, Ids, redisVars, loopVars, breakVars,
              dlqVars, histVars
<1> QED
  BY <1>1, TypeInvQueue, TypeInvLoop, TypeInvTask, TypeInvFault DEF Next

\* The stream, the pending list, the tasks and the dead-letter queue keep their types;
\* in particular an entry never carries an attempt beyond MAX_TRIES.
THEOREM QueueTypes == Spec => []TypeOK
<1>1. TypeInv => TypeOK
  BY DEF TypeInv
<1> QED
  BY <1>1, TypeInvInit, TypeInvNext, PTL DEF Spec

--------------------------------------------------------------------------------
(* Where an entry is, and what became of it.                               *)

\* The first state satisfies the invariants: there is no entry.
LEMMA EntriesInit == Init => PlaceInv /\ OutcomeInv
<1> SUFFICES ASSUME Init
             PROVE  PlaceInv /\ OutcomeInv
  OBVIOUS
<1>1. DOMAIN task = {} /\ Ids = {}
  BY DEF Init, Ids
<1> QED
  BY <1>1 DEF Init, PlaceInv, OutcomeInv

\* The entries of tasks and batches are numbers up to the cursor.
LEMMA PlacedIds ==
  ASSUME TypeInv, PlaceInv
  PROVE  /\ \A i \in DOMAIN task : i \in Nat /\ i <= cursor /\ ~(i > cursor)
         /\ \A w \in Worker : \A i \in batch[w] :
              i \in Nat /\ i <= cursor /\ ~(i > cursor) /\ i \notin DOMAIN task
<1>1. cursor \in Nat
  BY DEF TypeInv, TypeOK
<1>2. /\ \A i \in DOMAIN task : i \in Nat
      /\ \A w \in Worker : \A i \in batch[w] : i \in Nat
  BY DEF TypeInv, TypeOK, Ids
<1> QED
  BY <1>1, <1>2 DEF PlaceInv

\* A step that puts no entry into a batch or a task preserves PlaceInv.
LEMMA PlaceKeeps ==
  ASSUME TypeInv, TypeInv', PlaceInv, cursor <= cursor', DOMAIN task' \subseteq DOMAIN task,
         \A w \in Worker : /\ batch'[w] \subseteq batch[w]
                           /\ loop'[w] # "dispatch" => batch'[w] = {}
  PROVE  PlaceInv'
<1>1. cursor \in Nat /\ cursor' \in Nat
  BY DEF TypeInv, TypeOK
<1>2. /\ \A i \in DOMAIN task : i \in Nat /\ i <= cursor
      /\ \A w \in Worker : \A i \in batch[w] : i \in Nat /\ i <= cursor /\ i \notin DOMAIN task
  BY PlacedIds
<1>3. \A i \in DOMAIN task' : i <= cursor'
  BY <1>1, <1>2
<1>4. \A w \in Worker : /\ \A i \in batch'[w] : i <= cursor' /\ i \notin DOMAIN task'
                        /\ loop'[w] # "dispatch" => batch'[w] = {}
  BY <1>1, <1>2
<1>5. \A v, w \in Worker : v # w => batch'[v] \cap batch'[w] = {}
  BY DEF PlaceInv
<1> QED
  BY <1>3, <1>4, <1>5 DEF PlaceInv

\* What the steps of the queue, the tasks and the faults have in common.
LEMMA NothingTaken ==
  ASSUME TypeInv, TypeInv', PlaceInv,
         \/ \E j \in Job : Enqueue(j) \/ RetryFromDlq(j)
         \/ \E i \in DOMAIN task : TaskStep(i)
         \/ \E w \in Worker : \/ Boot(w) \/ CheckCircuit(w) \/ ClaimPending(w)
                              \/ EndOfBatch(w) \/ Fault(w)
  PROVE  /\ cursor <= cursor' /\ DOMAIN task' \subseteq DOMAIN task
         /\ \A w \in Worker : /\ batch'[w] \subseteq batch[w]
                              /\ loop'[w] # "dispatch" => batch'[w] = {}
<1>1. /\ cursor \in 0..Len(stream) /\ Len(stream) \in Nat /\ cursor <= cursor
      /\ loop \in [Worker -> LoopPc] /\ batch \in [Worker -> SUBSET Ids]
      /\ \A w \in Worker : loop[w] # "dispatch" => batch[w] = {}
  BY DEF TypeInv, TypeOK, PlaceInv
<1>2. CASE cursor' = cursor /\ DOMAIN task' \subseteq DOMAIN task /\ loopVars' = loopVars
  BY <1>1, <1>2 DEF loopVars
<1>3. ASSUME NEW j \in Job, Enqueue(j) \/ RetryFromDlq(j)
      PROVE  cursor' = cursor /\ DOMAIN task' \subseteq DOMAIN task /\ loopVars' = loopVars
  BY <1>3 DEF Enqueue, RetryFromDlq, redisVars
<1>4. ASSUME NEW i \in DOMAIN task, TaskStep(i)
      PROVE  cursor' = cursor /\ DOMAIN task' \subseteq DOMAIN task /\ loopVars' = loopVars
  <2>1. (\E l : TaskGoto(i, l)) \/ EndTask(i)
    BY <1>4 DEF TaskStep, BeginProcess, ProcessOk, ProcessErr, AckOk, AddToDlq, MarkFailed,
                AckDlq, AckRetry, AddAgain
  <2>2. DOMAIN task' \subseteq DOMAIN task
    BY <2>1 DEF TaskGoto, EndTask, Drop
  <2>3. cursor' = cursor /\ loopVars' = loopVars
    BY <1>4 DEF TaskStep, BeginProcess, ProcessOk, ProcessErr, AckOk, AddToDlq, MarkFailed,
                AckDlq, AckRetry, AddAgain, redisVars
  <2> QED
    BY <2>2, <2>3
<1>5. ASSUME NEW w \in Worker, Boot(w) \/ CheckCircuit(w) \/ ClaimPending(w) \/ EndOfBatch(w)
      PROVE  /\ cursor <= cursor' /\ task' = task /\ batch' = batch /\ batch[w] = {}
             /\ \E l : loop' = [loop EXCEPT ![w] = l]
  BY <1>1, <1>5 DEF Boot, CheckCircuit, ClaimPending, EndOfBatch, LoopGoto, redisVars
<1>6. ASSUME NEW w \in Worker, Crash(w)
      PROVE  /\ cursor' = cursor /\ DOMAIN task' \subseteq DOMAIN task
             /\ batch' = [batch EXCEPT ![w] = {}]
             /\ \E l : loop' = [loop EXCEPT ![w] = l]
  BY <1>6 DEF Crash, Restart, LoopGoto, Drop, redisVars
<1>7. ASSUME NEW w \in Worker, LoopFails(w) \/ ReplyLost(w)
      PROVE  /\ cursor <= cursor' /\ DOMAIN task' \subseteq DOMAIN task
             /\ batch' = batch /\ batch[w] = {}
             /\ \E l : loop' = [loop EXCEPT ![w] = l]
  <2>1. cursor' = cursor \/ cursor' = cursor + Cardinality(NextEntries)
    BY <1>7 DEF LoopFails, ReplyLost, redisVars
  <2> QED
    BY <1>1, <1>7, <2>1, Delivered DEF LoopFails, ReplyLost, Restart, LoopGoto
<1> QED
  BY <1>1, <1>2, <1>3, <1>4, <1>5, <1>6, <1>7 DEF Fault

\* Every step preserves PlaceInv: XREADGROUP delivers an entry to one worker only, and
\* a task takes its entry out of the batch.
LEMMA PlaceInvNext ==
  ASSUME TypeInv, TypeInv', PlaceInv, [Next]_vars
  PROVE  PlaceInv'
<1>1. /\ cursor \in Nat /\ cursor' \in Nat /\ Ids \subseteq Nat
      /\ loop \in [Worker -> LoopPc] /\ batch \in [Worker -> SUBSET Ids]
      /\ DOMAIN task \subseteq Ids
  BY DEF TypeInv, TypeOK, Ids
<1>2. ASSUME NEW w \in Worker, ReadMessages(w)
      PROVE  PlaceInv'
  <2>1. /\ batch' = [batch EXCEPT ![w] = NextEntries] /\ task' = task
        /\ loop' = [loop EXCEPT ![w] = "dispatch"]
        /\ cursor' = cursor + Cardinality(NextEntries)
    BY <1>2 DEF ReadMessages, LoopGoto
  <2>2. /\ \A i \in NextEntries : i \in Ids /\ i > cursor /\ i <= cursor'
        /\ cursor <= cursor'
    BY <2>1, Delivered
  <2>3. \A i \in DOMAIN task' : i <= cursor'
    BY <1>1, <2>1, <2>2, PlacedIds
  <2>4. \A v \in Worker :
          /\ \A i \in batch[v] : i <= cursor /\ i \in Nat /\ ~(i > cursor) /\ i \notin DOMAIN task
          /\ loop[v] # "dispatch" => batch[v] = {}
    BY PlacedIds DEF PlaceInv
  <2>5. \A v \in Worker : /\ \A i \in batch'[v] : i <= cursor' /\ i \notin DOMAIN task'
                          /\ loop'[v] # "dispatch" => batch'[v] = {}
    <3> SUFFICES ASSUME NEW v \in Worker
                 PROVE  /\ \A i \in batch'[v] : i <= cursor' /\ i \notin DOMAIN task'
                        /\ loop'[v] # "dispatch" => batch'[v] = {}
      OBVIOUS
    <3>1. CASE v = w
      <4>1. batch'[v] = NextEntries /\ loop'[v] = "dispatch"
        BY <1>1, <2>1, <3>1
      <4>2. \A i \in DOMAIN task : ~(i > cursor)
        BY PlacedIds
      <4> QED
        BY <2>1, <2>2, <4>1, <4>2
    <3>2. CASE v # w
      <4>1. batch'[v] = batch[v] /\ loop'[v] = loop[v]
        BY <1>1, <2>1, <3>2
      <4> QED
        BY <1>1, <2>1, <2>2, <2>4, <4>1
    <3> QED
      BY <3>1, <3>2
  <2>6. \A u, v \in Worker : u # v => batch'[u] \cap batch'[v] = {}
    <3>1. \A v \in Worker : batch[v] \cap NextEntries = {}
      BY <2>2, <2>4
    <3>2. \A u, v \in Worker : u # v => batch[u] \cap batch[v] = {}
      BY DEF PlaceInv
    <3>3. \A v \in Worker : batch'[v] = IF v = w THEN NextEntries ELSE batch[v]
      BY <1>1, <2>1
    <3> QED
      BY <3>1, <3>2, <3>3
  <2> QED
    BY <2>3, <2>5, <2>6 DEF PlaceInv
<1>3. ASSUME NEW w \in Worker, NEW i \in batch[w], SpawnTask(w, i)
      PROVE  PlaceInv'
  <2>1. /\ batch' = [batch EXCEPT ![w] = batch[w] \ {i}]
        /\ DOMAIN task' = DOMAIN task \cup {i}
        /\ loop[w] = "dispatch" /\ loop' = loop /\ cursor' = cursor
    BY <1>3 DEF SpawnTask, Assign, redisVars
  <2>2. i <= cursor
    BY DEF PlaceInv
  <2>3. /\ \A v \in Worker : batch'[v] \subseteq batch[v] /\ i \notin batch'[v]
        /\ \A v \in Worker \ {w} : batch'[v] = batch[v]
    BY <1>1, <2>1 DEF PlaceInv
  <2>4. \A k \in DOMAIN task' : k <= cursor'
    BY <2>1, <2>2 DEF PlaceInv
  <2>5. \A v \in Worker : /\ \A k \in batch'[v] : k <= cursor' /\ k \notin DOMAIN task'
                          /\ loop'[v] # "dispatch" => batch'[v] = {}
    BY <2>1, <2>3 DEF PlaceInv
  <2>6. \A u, v \in Worker : u # v => batch'[u] \cap batch'[v] = {}
    BY <2>3 DEF PlaceInv
  <2> QED
    BY <2>4, <2>5, <2>6 DEF PlaceInv
<1>4. CASE UNCHANGED vars
  BY <1>4 DEF vars, PlaceInv, redisVars, loopVars
<1> QED
  BY <1>2, <1>3, <1>4, NothingTaken, PlaceKeeps DEF Next, LoopStep

Goes(i, from, to) == task[i].at \in from /\ TaskMoved(i, to)

Ends(i, from) == task[i].at = from /\ task' = Drop(task, {i})

\* The steps of a task: where it is, where it goes, and what it leaves behind.
Shape(i) ==
  \/ /\ Goes(i, {"begin"}, "run") \/ Goes(i, {"run"}, "dlqAdd") \/ Goes(i, {"run"}, "backoff")
     /\ UNCHANGED <<stream, pel, dlq, succeeded, buried, lost>>
  \/ /\ Goes(i, {"begin", "run"}, "ackOk")
     /\ succeeded' = succeeded \cup {i}
     /\ UNCHANGED <<stream, pel, dlq, buried, lost>>
  \/ /\ Ends(i, "ackOk")
     /\ pel' = pel \/ Xack(i)
     /\ UNCHANGED <<stream, dlq, succeeded, buried, lost>>
  \/ /\ Goes(i, {"dlqAdd"}, "mark")
     /\ \/ dlq' = dlq \cup {stream[i].job} /\ buried' = buried \cup {i}
        \/ dlq' = dlq /\ buried' = buried
     /\ UNCHANGED <<stream, pel, succeeded, lost>>
  \/ /\ Goes(i, {"mark"}, "ackDlq")
     /\ buried' = buried \cup {i} \/ buried' = buried
     /\ UNCHANGED <<stream, pel, dlq, succeeded, lost>>
  \/ /\ Ends(i, "ackDlq")
     /\ \/ Xack(i) /\ lost' = lost \cup ({i} \ buried)
        \/ pel' = pel /\ lost' = lost
     /\ UNCHANGED <<stream, dlq, succeeded, buried>>
  \/ /\ \/ Goes(i, {"backoff"}, "readd") /\ (pel' = pel \/ Xack(i))
        \/ Ends(i, "backoff") /\ pel' = pel
     /\ UNCHANGED <<stream, dlq, succeeded, buried, lost>>
  \/ /\ Ends(i, "readd")
     /\ \/ Grown(stream[i].job, stream[i].attempt + 1) /\ lost' = lost
        \/ stream' = stream /\ lost' = lost \cup ({i} \ DOMAIN pel)
     /\ UNCHANGED <<pel, dlq, succeeded, buried>>

\* These are all the steps of a task; the cursor, the batches and the count of
\* revivals are not its business.
LEMMA TaskShape ==
  ASSUME TypeInv, NEW i \in DOMAIN task, TaskStep(i)
  PROVE  Shape(i) /\ UNCHANGED <<redisVars, loopVars, revives>>
<1>1. \A l \in TaskPc : TaskGoto(i, l) => TaskMoved(i, l)
  BY GotoMoves
<1>2. {"run", "ackOk", "dlqAdd", "mark", "ackDlq", "backoff", "readd"} \subseteq TaskPc
  BY DEF TaskPc
<1>3. CASE BeginProcess(i)
  BY <1>1, <1>2, <1>3 DEF BeginProcess, At, Shape, Goes, dlqVars
<1>4. CASE ProcessOk(i)
  BY <1>1, <1>2, <1>4 DEF ProcessOk, At, Shape, Goes, dlqVars
<1>5. ASSUME NEW permanent \in BOOLEAN, ProcessErr(i, permanent)
      PROVE  Shape(i) /\ UNCHANGED <<redisVars, loopVars, revives>>
  <2>1. /\ task[i].at = "run"
        /\ TaskGoto(i, "dlqAdd") \/ TaskGoto(i, "backoff")
        /\ UNCHANGED <<stream, redisVars, pel, loopVars, dlqVars, histVars>>
    BY ONLY <1>5 DEF ProcessErr, At
  <2> QED
    BY <1>1, <1>2, <2>1 DEF Shape, Goes, dlqVars, histVars
<1>6. CASE AckOk(i)
  BY <1>6 DEF AckOk, At, EndTask, Shape, Ends, dlqVars, histVars
<1>7. CASE AddToDlq(i)
  BY <1>1, <1>2, <1>7 DEF AddToDlq, At, Shape, Goes
<1>8. CASE MarkFailed(i)
  BY <1>1, <1>2, <1>8 DEF MarkFailed, At, Shape, Goes
<1>9. CASE AckDlq(i)
  BY <1>9 DEF AckDlq, At, EndTask, Shape, Ends, dlqVars
<1>10. CASE AckRetry(i)
  BY <1>1, <1>2, <1>10 DEF AckRetry, At, EndTask, Shape, Goes, Ends, dlqVars, histVars
<1>11. CASE AddAgain(i)
  <2>1. task[i].at = "readd" /\ stream[i].attempt < MaxTries
    BY <1>11 DEF AddAgain, At, TypeInv, TriesLeft
  <2>2. stream[i].job \in Job /\ stream[i].attempt + 1 \in 1..MaxTries
    BY <2>1, TaskEntry, StreamQueueAssumption
  <2>3. Xadd(stream[i].job, stream[i].attempt + 1)
          => Grown(stream[i].job, stream[i].attempt + 1)
    BY <2>2, XaddGrows
  <2> QED
    BY <1>11, <2>1, <2>3 DEF AddAgain, EndTask, Shape, Ends, dlqVars
<1> QED
  BY <1>3, <1>4, <1>5, <1>6, <1>7, <1>8, <1>9, <1>10, <1>11 DEF TaskStep

\* The steps at which a task's entry is unsettled.
Active == {"begin", "run", "backoff", "readd", "dlqAdd"}

\* Such an entry, one of a batch and one that was never read: no other is unsettled.
LEMMA UnsettledIs ==
  ASSUME NEW i
  PROVE  /\ Unsettled(i) <=> Undelivered(i) \/ (i \in DOMAIN task /\ task[i].at \in Active)
         /\ Unsettled(i)' <=> Undelivered(i)' \/ (i \in DOMAIN task' /\ task'[i].at \in Active)
BY DEF Unsettled, Live, Undelivered, At, Active

\* Entries only move forward: no entry comes back into a batch or a task.
Onward ==
  /\ \A i \in Ids : Undelivered(i)' => Undelivered(i)
  /\ \A i \in DOMAIN task' :
       \/ i \in DOMAIN task /\ (task'[i].at \in Active => task[i].at \in Active)
       \/ Undelivered(i) /\ task'[i].at = "begin"

\* An entry is undelivered no more than before, when nothing is put into a batch.
LEMMA LessUndelivered ==
  ASSUME TypeInv, TypeInv', cursor <= cursor',
         \A w \in Worker : batch'[w] \subseteq batch[w]
  PROVE  \A i \in Ids : Undelivered(i)' => Undelivered(i)
<1>1. cursor \in Nat /\ cursor' \in Nat /\ \A i \in Ids : i \in Nat
  BY DEF TypeInv, TypeOK, Ids
<1>2. \A i \in Ids : i > cursor' => i > cursor
  BY <1>1
<1> QED
  BY <1>2 DEF Undelivered, InBatch

\* The steps that are not a task's leave the tasks where they are, or end them.
LEMMA IdleTasks ==
  ASSUME TypeInv,
         \/ \E j \in Job : Enqueue(j) \/ RetryFromDlq(j)
         \/ \E w \in Worker : \/ Boot(w) \/ CheckCircuit(w) \/ ClaimPending(w)
                              \/ ReadMessages(w) \/ EndOfBatch(w) \/ Fault(w)
  PROVE  \A k \in DOMAIN task' : k \in DOMAIN task /\ task'[k].at = task[k].at
<1>1. ASSUME NEW j \in Job, Enqueue(j) \/ RetryFromDlq(j)
      PROVE  task' = task
  BY <1>1 DEF Enqueue, RetryFromDlq
<1>2. ASSUME NEW w \in Worker, \/ Boot(w) \/ CheckCircuit(w) \/ ClaimPending(w)
                               \/ ReadMessages(w) \/ EndOfBatch(w)
      PROVE  task' = task
  BY <1>2 DEF Boot, CheckCircuit, ClaimPending, ReadMessages, EndOfBatch
<1>3. ASSUME NEW w \in Worker, Crash(w)
      PROVE  \A k \in DOMAIN task' : k \in DOMAIN task /\ task'[k].at = task[k].at
  BY <1>3 DEF Crash, Drop
<1>4. ASSUME NEW w \in Worker, LoopFails(w) \/ ReplyLost(w)
      PROVE  \A k \in DOMAIN task' : k \in DOMAIN task /\ task'[k].at = task[k].at
  BY <1>4, RestartDisowns DEF LoopFails, ReplyLost, Disowned
<1> QED
  BY <1>1, <1>2, <1>3, <1>4 DEF Fault

\* Every step goes onward.
LEMMA StepsGoOnward ==
  ASSUME TypeInv, TypeInv', PlaceInv, [Next]_vars
  PROVE  Onward
<1>1. CASE \/ \E j \in Job : Enqueue(j) \/ RetryFromDlq(j)
           \/ \E i \in DOMAIN task : TaskStep(i)
           \/ \E w \in Worker : \/ Boot(w) \/ CheckCircuit(w) \/ ClaimPending(w)
                                \/ EndOfBatch(w) \/ Fault(w)
  <2>1. /\ cursor <= cursor' /\ DOMAIN task' \subseteq DOMAIN task
        /\ \A w \in Worker : batch'[w] \subseteq batch[w]
    BY <1>1, NothingTaken
  <2>2. \A i \in Ids : Undelivered(i)' => Undelivered(i)
    BY <2>1, LessUndelivered
  <2>3. ASSUME NEW k \in DOMAIN task'
        PROVE  task'[k].at \in Active => task[k].at \in Active
    <3>1. ASSUME NEW i \in DOMAIN task, TaskStep(i)
          PROVE  task'[k].at \in Active => task[k].at \in Active
      <4>1. Shape(i)
        BY <3>1, TaskShape
      <4>2. CASE task' = Drop(task, {i})
        BY <2>3, <4>2 DEF Drop
      <4>3. ASSUME NEW l, TaskMoved(i, l), l \in Active => task[i].at \in Active
            PROVE  task'[k].at \in Active => task[k].at \in Active
        BY <2>3, <4>3 DEF TaskMoved
      <4> QED
        BY <4>1, <4>2, <4>3 DEF Shape, Goes, Ends, Active
    <3> QED
      BY <1>1, <2>3, <3>1, IdleTasks
  <2> QED
    BY <2>1, <2>2, <2>3 DEF Onward
<1>2. ASSUME NEW w \in Worker, ReadMessages(w)
      PROVE  Onward
  <2>1. /\ batch' = [batch EXCEPT ![w] = NextEntries] /\ task' = task
        /\ cursor' = cursor + Cardinality(NextEntries)
        /\ batch \in [Worker -> SUBSET Ids]
        /\ cursor \in Nat /\ cursor' \in Nat /\ \A i \in Ids : i \in Nat
    BY <1>2 DEF ReadMessages, TypeInv, TypeOK, Ids
  <2>2. cursor <= cursor' /\ \A i \in NextEntries : i > cursor
    BY <2>1, Delivered
  <2>3. \A i \in Ids : i > cursor' => i > cursor
    BY <2>1, <2>2
  <2>4. \A i \in Ids : InBatch(i)' => InBatch(i) \/ i > cursor
    BY <2>1, <2>2 DEF InBatch
  <2> QED
    BY <2>1, <2>3, <2>4 DEF Onward, Undelivered
<1>3. ASSUME NEW w \in Worker, NEW i \in batch[w], SpawnTask(w, i)
      PROVE  Onward
  <2>1. /\ batch' = [batch EXCEPT ![w] = batch[w] \ {i}]
        /\ task' = Assign(task, {i}, [by |-> w, at |-> "begin", own |-> TRUE])
        /\ cursor' = cursor /\ batch \in [Worker -> SUBSET Ids]
    BY <1>3 DEF SpawnTask, redisVars, TypeInv, TypeOK
  <2>2. \A k \in Ids : Undelivered(k)' => Undelivered(k)
    BY <2>1 DEF Undelivered, InBatch
  <2>3. /\ task'[i].at = "begin"
        /\ \A k \in DOMAIN task' : k # i => k \in DOMAIN task /\ task'[k] = task[k]
    BY <2>1 DEF Assign
  <2>4. Undelivered(i)
    BY DEF Undelivered, InBatch
  <2> QED
    BY <2>2, <2>3, <2>4 DEF Onward
<1>4. CASE UNCHANGED vars
  BY <1>4 DEF vars, Onward, Undelivered, InBatch, redisVars, loopVars
<1> QED
  BY <1>1, <1>2, <1>3, <1>4 DEF Next, LoopStep

\* A step that records nothing preserves OutcomeInv.
LEMMA OutcomeKeeps ==
  ASSUME TypeInv, OutcomeInv, Onward, succeeded' = succeeded, buried' = buried,
         \A k \in DOMAIN task' :
           \/ /\ k \in DOMAIN task
              /\ task'[k].at = "ackOk" <=> task[k].at = "ackOk"
              /\ task[k].at \in {"mark", "ackDlq"} => task'[k].at \in {"mark", "ackDlq"}
           \/ k \in Ids /\ Undelivered(k) /\ task'[k].at = "begin"
  PROVE  OutcomeInv'
<1>1. succeeded \subseteq Ids /\ buried \subseteq Ids
  BY DEF TypeInv, TypeOK
<1>2. ASSUME NEW k \in DOMAIN task'
      PROVE  /\ k \in succeeded <=> task'[k].at = "ackOk"
             /\ task'[k].at \notin {"mark", "ackDlq"} => k \notin buried
  BY <1>2 DEF OutcomeInv
<1>3. ASSUME NEW k \in Ids', Undelivered(k)'
      PROVE  k \notin succeeded \cup buried
  BY <1>1, <1>3 DEF Onward, OutcomeInv
<1>4. succeeded \cap buried = {}
  BY DEF OutcomeInv
<1> QED
  BY <1>2, <1>3, <1>4 DEF OutcomeInv

\* A task's step records what it goes on to say of its entry.
LEMMA OutcomeTask ==
  ASSUME TypeInv, PlaceInv, OutcomeInv, Onward, NEW i \in DOMAIN task, Shape(i),
         UNCHANGED <<redisVars, loopVars>>
  PROVE  OutcomeInv'
<1>1. i \in Ids /\ ~Undelivered(i)
  BY TaskEntry, PlacedIds DEF Undelivered, InBatch
<1>2. CASE task' = Drop(task, {i}) /\ succeeded' = succeeded /\ buried' = buried
  <2>1. \A k \in DOMAIN task' : k \in DOMAIN task /\ task'[k] = task[k]
    BY <1>2 DEF Drop
  <2> QED
    BY <1>2, <2>1, OutcomeKeeps
<1>3. ASSUME NEW l, TaskMoved(i, l), l # "ackOk", task[i].at # "ackOk",
             task[i].at \in {"mark", "ackDlq"} => l \in {"mark", "ackDlq"},
             succeeded' = succeeded, buried' = buried
      PROVE  OutcomeInv'
  BY <1>3, OutcomeKeeps DEF TaskMoved
<1>4. CASE /\ Goes(i, {"begin", "run"}, "ackOk")
           /\ succeeded' = succeeded \cup {i} /\ buried' = buried /\ stream' = stream
  <2>1. \A k \in DOMAIN task' : /\ k \in DOMAIN task
                                /\ k # i => task'[k] = task[k]
                                /\ k = i => task'[k].at = "ackOk"
    BY <1>4 DEF Goes, TaskMoved
  <2>2. i \notin buried
    BY <1>4 DEF Goes, OutcomeInv
  <2>3. \A k \in DOMAIN task' : /\ k \in succeeded' <=> task'[k].at = "ackOk"
                                /\ task'[k].at \notin {"mark", "ackDlq"} => k \notin buried'
    BY <1>4, <2>1, <2>2 DEF OutcomeInv
  <2>4. \A k \in Ids' : Undelivered(k)' => k \notin succeeded' \cup buried'
    BY <1>1, <1>4 DEF Ids, Onward, OutcomeInv
  <2> QED
    BY <1>4, <2>2, <2>3, <2>4 DEF OutcomeInv
<1>5. CASE /\ Goes(i, {"dlqAdd"}, "mark") \/ Goes(i, {"mark"}, "ackDlq")
           /\ succeeded' = succeeded /\ buried' = buried \cup {i} /\ stream' = stream
  <2>1. \A k \in DOMAIN task' : /\ k \in DOMAIN task
                                /\ k # i => task'[k] = task[k]
                                /\ k = i => task'[k].at \in {"mark", "ackDlq"}
    BY <1>5 DEF Goes, TaskMoved
  <2>2. i \notin succeeded
    BY <1>5 DEF Goes, OutcomeInv
  <2>3. \A k \in DOMAIN task' : /\ k \in succeeded' <=> task'[k].at = "ackOk"
                                /\ task'[k].at \notin {"mark", "ackDlq"} => k \notin buried'
    BY <1>5, <2>1, <2>2 DEF OutcomeInv
  <2>4. \A k \in Ids' : Undelivered(k)' => k \notin succeeded' \cup buried'
    BY <1>1, <1>5 DEF Ids, Onward, OutcomeInv
  <2> QED
    BY <1>5, <2>2, <2>3, <2>4 DEF OutcomeInv
<1> QED
  BY <1>2, <1>3, <1>4, <1>5 DEF Shape, Goes, Ends

\* Every step preserves OutcomeInv.
LEMMA OutcomeInvNext ==
  ASSUME TypeInv, TypeInv', PlaceInv, OutcomeInv, [Next]_vars
  PROVE  OutcomeInv'
<1>1. Onward
  BY StepsGoOnward
<1>2. CASE \/ \E j \in Job : Enqueue(j) \/ RetryFromDlq(j)
           \/ \E w \in Worker : \/ Boot(w) \/ CheckCircuit(w) \/ ClaimPending(w)
                                \/ ReadMessages(w) \/ EndOfBatch(w) \/ Fault(w)
  <2>1. succeeded' = succeeded /\ buried' = buried
    BY <1>2 DEF Enqueue, RetryFromDlq, Boot, CheckCircuit, ClaimPending, ReadMessages,
                EndOfBatch, Fault, Crash, LoopFails, ReplyLost, histVars
  <2>2. \A k \in DOMAIN task' : k \in DOMAIN task /\ task'[k].at = task[k].at
    BY <1>2, IdleTasks
  <2> QED
    BY <1>1, <2>1, <2>2, OutcomeKeeps
<1>3. ASSUME NEW w \in Worker, NEW i \in batch[w], SpawnTask(w, i)
      PROVE  OutcomeInv'
  <2>1. /\ task' = Assign(task, {i}, [by |-> w, at |-> "begin", own |-> TRUE])
        /\ succeeded' = succeeded /\ buried' = buried
    BY <1>3 DEF SpawnTask, histVars
  <2>2. /\ task'[i].at = "begin"
        /\ \A k \in DOMAIN task' : k # i => k \in DOMAIN task /\ task'[k] = task[k]
    BY <2>1 DEF Assign
  <2>3. Undelivered(i) /\ i \in Ids
    BY DEF Undelivered, InBatch, TypeInv, TypeOK
  <2> QED
    BY <1>1, <2>1, <2>2, <2>3, OutcomeKeeps
<1>4. ASSUME NEW i \in DOMAIN task, TaskStep(i)
      PROVE  OutcomeInv'
  BY <1>1, <1>4, TaskShape, OutcomeTask
<1>5. CASE UNCHANGED vars
  BY <1>1, <1>5, OutcomeKeeps DEF vars, histVars
<1> QED
  BY <1>2, <1>3, <1>4, <1>5 DEF Next, LoopStep

--------------------------------------------------------------------------------
(* One live entry.                                                         *)

\* retry_from_dlq ignores the error of XDEL.  An entry that stays in the dead-letter
\* queue could be retried once more while the first retry is under way, so this is
\* about one retry, or about retries whose XDEL does not fail.
NoSecondRetry == MaxRevives <= 1 \/ "redis" \notin Faults

\* The first state satisfies LastInv.
LEMMA LastInvInit == Init => LastInv
<1> SUFFICES ASSUME Init
             PROVE  LastInv
  OBVIOUS
<1>1. Ids = {}
  BY DEF Init, Ids
<1> QED
  BY <1>1 DEF Init, LastInv

\* An entry becomes unsettled only by XADD.
LEMMA NoneUnsettled ==
  ASSUME Onward
  PROVE  \A i \in Ids : Unsettled(i)' => Unsettled(i)
BY UnsettledIs DEF Onward, Active

\* The last entry of a job is the only one.
LEMMA LastIsUnique ==
  ASSUME TypeInv, NEW i \in Ids, NEW k \in Ids, stream[i].job = stream[k].job,
         IsLast(i), IsLast(k)
  PROVE  i = k
<1>1. i <= k /\ k <= i
  BY DEF IsLast
<1>2. i \in Nat /\ k \in Nat
  BY DEF Ids
<1> QED
  BY <1>1, <1>2

\* A step that adds no entry, buries nothing new and revives nothing preserves LastInv.
LEMMA LastKeeps ==
  ASSUME LastInv, Onward, stream' = stream, dlq' \subseteq dlq, buried \subseteq buried',
         revives' < MaxRevives => revives < MaxRevives
  PROVE  LastInv'
<1>1. Ids' = Ids /\ \A i \in Ids : IsLast(i)' <=> IsLast(i)
  BY DEF Ids, IsLast
<1>2. \A i \in Ids' : Unsettled(i)' => IsLast(i)'
  BY <1>1, NoneUnsettled DEF LastInv
<1>3. ASSUME revives' < MaxRevives, NEW j \in dlq'
      PROVE  \E i \in Ids' : /\ stream'[i].job = j
                             /\ i \in buried'
                             /\ IsLast(i)'
                             /\ ~Unsettled(i)'
  <2>1. PICK i \in Ids : stream[i].job = j /\ i \in buried /\ IsLast(i) /\ ~Unsettled(i)
    BY <1>3 DEF LastInv
  <2> QED
    BY <1>1, <2>1, NoneUnsettled
<1> QED
  BY <1>2, <1>3 DEF LastInv

\* A new entry may be added for a job that has no unsettled one and is no longer in
\* the dead-letter queue.
LEMMA LastGrows ==
  ASSUME TypeInv, LastInv, Onward, NEW j, NEW n, Grown(j, n),
         \A k \in Ids : stream[k].job = j => ~Unsettled(k)',
         dlq' \subseteq dlq, buried' = buried,
         revives' < MaxRevives => revives < MaxRevives /\ j \notin dlq'
  PROVE  LastInv'
<1>0. PICK new : new = Len(stream) + 1
  OBVIOUS
<1>1. /\ \A i \in Ids : i \in Nat /\ i <= new
      /\ new \in Nat /\ new <= new
  BY <1>0 DEF TypeInv, TypeOK, Ids
<1>2. /\ \A i \in Ids : i \in Ids' /\ stream'[i] = stream[i]
      /\ \A i \in Ids' : i \in Ids \/ i = new
      /\ stream'[new].job = j
  BY <1>0 DEF Grown
<1>3. \A i \in Ids : stream[i].job # j /\ IsLast(i) => IsLast(i)'
  BY <1>2 DEF IsLast
<1>4. IsLast(new)'
  BY <1>1, <1>2 DEF IsLast
<1>5. \A i \in Ids' : Unsettled(i)' => IsLast(i)'
  BY <1>2, <1>3, <1>4, NoneUnsettled DEF LastInv
<1>6. ASSUME revives' < MaxRevives, NEW d \in dlq'
      PROVE  \E i \in Ids' : /\ stream'[i].job = d
                             /\ i \in buried'
                             /\ IsLast(i)'
                             /\ ~Unsettled(i)'
  <2>1. PICK i \in Ids : stream[i].job = d /\ i \in buried /\ IsLast(i) /\ ~Unsettled(i)
    BY <1>6 DEF LastInv
  <2>2. d # j
    BY <1>6
  <2> QED
    BY <1>2, <1>3, <2>1, <2>2, NoneUnsettled
<1> QED
  BY <1>5, <1>6 DEF LastInv

\* enqueue is called once per job, retry_from_dlq for a job whose last entry is buried.
LEMMA LastQueue ==
  ASSUME NoSecondRetry, TypeInv, LastInv, Onward, NEW j \in Job, Enqueue(j) \/ RetryFromDlq(j)
  PROVE  LastInv'
<1>1. 1 \in 1..MaxTries /\ MaxRevives \in Nat /\ revives \in Nat
  BY StreamQueueAssumption DEF TypeInv, TypeOK
<1>2. CASE Enqueue(j)
  <2>1. Grown(j, 1) /\ dlq' = dlq /\ buried' = buried /\ revives' = revives
    BY <1>1, <1>2, XaddGrows DEF Enqueue, dlqVars, histVars
  <2>2. \A k \in Ids : stream[k].job # j
    BY <1>2 DEF Enqueue, EntriesOf
  <2>3. revives < MaxRevives => j \notin dlq
    BY <2>2 DEF LastInv
  <2> QED
    BY <2>1, <2>2, <2>3, LastGrows
<1>3. CASE RetryFromDlq(j)
  <2>1. /\ j \in dlq /\ revives < MaxRevives /\ revives' = revives + 1 /\ buried' = buried
        /\ dlq' \subseteq dlq
        /\ dlq' = dlq \ {j} \/ "redis" \in Faults
        /\ Xadd(j, 1) \/ stream' = stream
    BY <1>3 DEF RetryFromDlq, histVars
  <2>2. revives' < MaxRevives => revives < MaxRevives /\ j \notin dlq'
    BY <1>1, <2>1 DEF NoSecondRetry
  <2>3. CASE stream' = stream
    BY <2>1, <2>2, <2>3, LastKeeps
  <2>4. CASE Xadd(j, 1)
    <3>1. Grown(j, 1)
      BY <1>1, <2>4, XaddGrows
    <3>2. PICK i \in Ids : stream[i].job = j /\ IsLast(i) /\ ~Unsettled(i)
      BY <2>1 DEF LastInv
    <3>3. \A k \in Ids : stream[k].job = j => ~Unsettled(k)'
      BY <3>2, LastIsUnique, NoneUnsettled DEF LastInv
    <3> QED
      BY <2>1, <2>2, <3>1, <3>3, LastGrows
  <2> QED
    BY <2>1, <2>3, <2>4
<1> QED
  BY <1>2, <1>3

\* A task adds again an entry that was the job's last, and buries the last.
LEMMA LastTask ==
  ASSUME TypeInv, PlaceInv, LastInv, Onward, NEW i \in DOMAIN task, Shape(i),
         UNCHANGED <<redisVars, loopVars, revives>>
  PROVE  LastInv'
<1>1. i \in Ids /\ ~Undelivered(i)
  BY TaskEntry, PlacedIds DEF Undelivered, InBatch
<1>2. ~Undelivered(i)'
  BY <1>1 DEF Undelivered, InBatch, redisVars, loopVars
<1>3. task[i].at \in Active => IsLast(i) /\ Unsettled(i)
  BY <1>1, UnsettledIs DEF LastInv
<1>4. CASE stream' = stream /\ dlq' = dlq /\ buried \subseteq buried'
  BY <1>4, LastKeeps
<1>5. CASE /\ Goes(i, {"dlqAdd"}, "mark") /\ stream' = stream
           /\ dlq' = dlq \cup {stream[i].job} /\ buried' = buried \cup {i}
  <2>1. IsLast(i) /\ ~Unsettled(i)'
    BY <1>2, <1>3, <1>5, UnsettledIs DEF Goes, TaskMoved, Active
  <2>2. Ids' = Ids /\ \A k \in Ids : IsLast(k)' <=> IsLast(k)
    BY <1>5 DEF Ids, IsLast
  <2>3. \A k \in Ids' : Unsettled(k)' => IsLast(k)'
    BY <2>2, NoneUnsettled DEF LastInv
  <2>4. ASSUME revives' < MaxRevives, NEW j \in dlq'
        PROVE  \E k \in Ids' : /\ stream'[k].job = j
                               /\ k \in buried'
                               /\ IsLast(k)'
                               /\ ~Unsettled(k)'
    <3>1. CASE j = stream[i].job
      BY <1>1, <1>5, <2>1, <2>2, <3>1
    <3>2. CASE j # stream[i].job
      <4>1. PICK k \in Ids : stream[k].job = j /\ k \in buried /\ IsLast(k) /\ ~Unsettled(k)
        BY <1>5, <2>4, <3>2 DEF LastInv
      <4> QED
        BY <1>5, <2>2, <4>1, NoneUnsettled
    <3> QED
      BY <3>1, <3>2
  <2> QED
    BY <2>3, <2>4 DEF LastInv
<1>6. CASE /\ Ends(i, "readd") /\ dlq' = dlq /\ buried' = buried
           /\ Grown(stream[i].job, stream[i].attempt + 1)
  <2>1. ~Unsettled(i)'
    BY <1>2, <1>6, UnsettledIs DEF Ends, Drop
  <2>2. IsLast(i) /\ Unsettled(i)
    BY <1>3, <1>6 DEF Ends, Active
  <2>3. ASSUME NEW k \in Ids, stream[k].job = stream[i].job
        PROVE  ~Unsettled(k)'
    BY <1>1, <2>1, <2>2, <2>3, LastIsUnique, NoneUnsettled DEF LastInv
  <2>4. revives < MaxRevives => stream[i].job \notin dlq
    BY <1>1, <2>2, LastIsUnique DEF LastInv
  <2> QED
    BY <1>6, <2>3, <2>4, LastGrows
<1> QED
  BY <1>4, <1>5, <1>6 DEF Shape

\* Every step preserves LastInv.
LEMMA LastInvNext ==
  ASSUME NoSecondRetry, TypeInv, TypeInv', PlaceInv, LastInv, [Next]_vars
  PROVE  LastInv'
<1>1. Onward
  BY StepsGoOnward
<1>2. ASSUME NEW j \in Job, Enqueue(j) \/ RetryFromDlq(j)
      PROVE  LastInv'
  BY <1>1, <1>2, LastQueue
<1>3. ASSUME NEW w \in Worker, LoopStep(w) \/ Fault(w)
      PROVE  stream' = stream /\ dlq' = dlq /\ buried' = buried /\ revives' = revives
  BY <1>3 DEF LoopStep, Boot, CheckCircuit, ClaimPending, ReadMessages, SpawnTask, EndOfBatch,
              Fault, Crash, LoopFails, ReplyLost, dlqVars, histVars
<1>4. ASSUME NEW i \in DOMAIN task, TaskStep(i)
      PROVE  LastInv'
  BY <1>1, <1>4, TaskShape, LastTask
<1>5. CASE UNCHANGED vars
  BY <1>1, <1>5, LastKeeps DEF vars, dlqVars, histVars
<1> QED
  BY <1>1, <1>2, <1>3, <1>4, <1>5, LastKeeps DEF Next

\* The four invariants hold in every reachable state.
LEMMA QueueHolds ==
  ASSUME NoSecondRetry
  PROVE  Spec => [](TypeInv /\ PlaceInv /\ OutcomeInv /\ LastInv)
<1>1. Init => TypeInv /\ PlaceInv /\ OutcomeInv /\ LastInv
  BY TypeInvInit, EntriesInit, LastInvInit
<1>2. TypeInv /\ PlaceInv /\ OutcomeInv /\ LastInv /\ [Next]_vars
        => (TypeInv /\ PlaceInv /\ OutcomeInv /\ LastInv)'
  BY TypeInvNext, PlaceInvNext, OutcomeInvNext, LastInvNext
<1> QED
  BY <1>1, <1>2, PTL DEF Spec

\* Two tasks never process the same job at the same time, for any number of jobs and
\* workers, whatever stops, fails or is claimed: delivery hands an entry to one
\* worker, a retry adds an entry only when the old one is over, and an administrator
\* retries only what has been buried.
THEOREM OneLive == ASSUME NoSecondRetry PROVE Spec => []OneLiveEntry
<1>1. TypeInv /\ LastInv => OneLiveEntry
  <2> SUFFICES ASSUME TypeInv, LastInv, NEW i \in Ids, NEW k \in Ids,
                      stream[i].job = stream[k].job, Live(i), Live(k)
               PROVE  i = k
    BY DEF OneLiveEntry
  <2>1. IsLast(i) /\ IsLast(k)
    BY DEF LastInv, Unsettled
  <2> QED
    BY <2>1, LastIsUnique
<1> QED
  BY <1>1, QueueHolds, PTL

--------------------------------------------------------------------------------
(* No entry vanishes.                                                      *)

Later(i) == \E k \in EntriesOf(stream[i].job) : k > i

\* What NothingVanishes says of one entry.
Accounted(i) ==
  \/ i \in DOMAIN pel
  \/ i <= origin
  \/ At(i, "readd")
  \/ i \in succeeded \cup buried \cup lost
  \/ Later(i)

\* A step that adds no entry loses none, if what it removes from the pending list and
\* from the tasks about to add again is recorded, and what it delivers is pending.
LEMMA AccountKeeps ==
  ASSUME TypeInv, TypeInv', NothingVanishes, stream' = stream,
         \A i \in DOMAIN pel : Accounted(i)',
         \A i \in DOMAIN task : task[i].at = "readd" => Accounted(i)',
         origin <= origin',
         succeeded \subseteq succeeded', buried \subseteq buried', lost \subseteq lost',
         \A i \in Ids : i > cursor /\ i <= cursor' => Accounted(i)'
  PROVE  NothingVanishes'
<1>1. /\ origin \in Nat /\ origin' \in Nat /\ cursor \in Nat /\ cursor' \in Nat
      /\ Len(stream) \in Nat /\ cursor' <= Len(stream) /\ \A i \in 1..cursor' : i \in Nat
  BY DEF TypeInv, TypeOK
<1>2. ASSUME NEW i \in 1..cursor'
      PROVE  Accounted(i)'
  <2>1. i \in Ids
    BY <1>1 DEF Ids
  <2>2. CASE i \in 1..cursor
    <3>1. Accounted(i)
      BY <2>2 DEF NothingVanishes, Accounted, Later
    <3>2. Later(i) => Later(i)'
      BY DEF Later, EntriesOf, Ids
    <3>3. i <= origin => i <= origin'
      BY <1>1
    <3> QED
      BY <3>1, <3>2, <3>3 DEF Accounted, At
  <2>3. CASE i \notin 1..cursor
    <3>1. i > cursor /\ i <= cursor'
      BY <1>1, <2>3
    <3> QED
      BY <2>1, <3>1
  <2> QED
    BY <2>2, <2>3
<1> QED
  BY <1>2 DEF NothingVanishes, Accounted, Later

\* An XADD accounts for the entry it replaces.
LEMMA AccountGrows ==
  ASSUME TypeInv, TypeInv', PlaceInv, NothingVanishes, NEW j, NEW n, Grown(j, n),
         pel' = pel, origin' = origin, cursor' = cursor,
         \A i \in DOMAIN task : task[i].at = "readd" => Accounted(i)',
         UNCHANGED <<succeeded, buried, lost>>
  PROVE  NothingVanishes'
<1>1. ASSUME NEW i \in 1..cursor
      PROVE  Accounted(i)'
  <2>1. i \in Ids
    BY <1>1 DEF TypeInv, TypeOK, Ids
  <2>2. Accounted(i)
    BY <1>1 DEF NothingVanishes, Accounted, Later
  <2>3. Later(i) => Later(i)'
    BY <2>1 DEF Later, EntriesOf, Grown
  <2> QED
    BY <2>2, <2>3 DEF Accounted, At
<1> QED
  BY <1>1 DEF NothingVanishes, Accounted, Later

\* A task's entry is accounted for when the task ends: it was processed or buried, or
\* its successor has been added, or its loss is recorded.
LEMMA AccountTask ==
  ASSUME TypeInv, TypeInv', PlaceInv, OutcomeInv, NothingVanishes, NEW i \in DOMAIN task,
         Shape(i), UNCHANGED <<redisVars, loopVars>>
  PROVE  NothingVanishes'
<1>1. origin \in Nat /\ cursor \in Nat /\ i \in Ids /\ \A k \in Ids : k \in Nat
  BY TaskEntry DEF TypeInv, TypeOK, Ids
<1>2. origin' = origin /\ cursor' = cursor
  BY DEF redisVars
<1>3. /\ origin <= origin'
      /\ \A k \in Ids : k > cursor /\ k <= cursor' => Accounted(k)'
  BY <1>1, <1>2
<1>4. \A k \in DOMAIN pel : pel' = pel \/ (Xack(i) /\ k # i) => k \in DOMAIN pel'
  BY DEF Xack, Drop
<1>5. \A k \in DOMAIN task \ {i} : k \in DOMAIN task' /\ task'[k] = task[k]
  BY DEF Shape, Goes, Ends, TaskMoved, Drop
<1>6. \A k \in DOMAIN task \ {i} : task[k].at = "readd" => Accounted(k)'
  BY <1>5 DEF Accounted, At
<1>7. /\ succeeded \subseteq succeeded' /\ buried \subseteq buried' /\ lost \subseteq lost'
      /\ pel' = pel \/ Xack(i)
  BY DEF Shape
<1>8. \A k \in DOMAIN pel \ {i} : Accounted(k)'
  BY <1>4, <1>7 DEF Accounted
<1>9. CASE stream' = stream /\ Accounted(i)'
  BY <1>3, <1>6, <1>7, <1>8, <1>9, AccountKeeps
<1>10. CASE stream' = stream /\ pel' = pel /\ task[i].at # "readd"
  <2>1. i \in DOMAIN pel => Accounted(i)'
    BY <1>10 DEF Accounted
  <2> QED
    BY <1>3, <1>6, <1>7, <1>8, <1>10, <2>1, AccountKeeps
<1>11. CASE Ends(i, "ackOk") /\ succeeded' = succeeded /\ stream' = stream
  <2>1. i \in succeeded
    BY <1>11 DEF Ends, OutcomeInv
  <2> QED
    BY <1>9, <1>11, <2>1 DEF Accounted
<1>12. CASE Ends(i, "ackDlq") /\ lost' = lost \cup ({i} \ buried) /\ stream' = stream
  BY <1>7, <1>9, <1>12 DEF Accounted
<1>13. CASE Goes(i, {"backoff"}, "readd") /\ stream' = stream
  BY <1>9, <1>13 DEF Accounted, At, Goes, TaskMoved
<1>14. CASE Ends(i, "readd") /\ stream' = stream /\ lost' = lost \cup ({i} \ DOMAIN pel) /\ pel' = pel
  BY <1>9, <1>14 DEF Accounted
<1>15. CASE /\ Ends(i, "readd") /\ Grown(stream[i].job, stream[i].attempt + 1)
            /\ UNCHANGED <<pel, succeeded, buried, lost>>
  <2>1. Later(i)'
    <3>1. /\ Len(stream) + 1 \in Ids' /\ stream'[Len(stream) + 1].job = stream[i].job
          /\ stream'[i] = stream[i]
      BY <1>1, <1>15 DEF Grown
    <3>2. Len(stream) + 1 > i
      BY <1>1 DEF Ids, TypeInv, TypeOK
    <3> QED
      BY <3>1, <3>2 DEF Later, EntriesOf
  <2> QED
    BY <1>2, <1>6, <1>15, <2>1, AccountGrows DEF Accounted
<1> QED
  BY <1>10, <1>11, <1>12, <1>13, <1>14, <1>15 DEF Shape, Goes, Ends

\* What becomes pending, or stays so, is accounted for.
LEMMA AccountLoop ==
  ASSUME TypeInv, TypeInv', PlaceInv, NothingVanishes, NEW w \in Worker, LoopStep(w) \/ Fault(w)
  PROVE  NothingVanishes'
<1>1. /\ stream' = stream /\ succeeded' = succeeded /\ buried' = buried /\ lost \subseteq lost'
      /\ cursor \in Nat /\ origin \in Nat /\ Len(stream) \in Nat /\ origin <= Len(stream)
      /\ \A i \in Ids : i \in Nat /\ i <= Len(stream)
  <2>1. /\ stream' = stream /\ succeeded' = succeeded /\ buried' = buried
        /\ lost \subseteq lost'
    BY DEF LoopStep, Boot, CheckCircuit, ClaimPending, ReadMessages, SpawnTask, EndOfBatch,
           Fault, Crash, LoopFails, ReplyLost, histVars
  <2>2. /\ cursor \in Nat /\ origin \in Nat /\ Len(stream) \in Nat /\ origin <= Len(stream)
        /\ \A i \in Ids : i \in Nat /\ i <= Len(stream)
    BY DEF TypeInv, TypeOK, Ids
  <2> QED
    BY <2>1, <2>2
<1>2. CASE /\ DOMAIN pel \subseteq DOMAIN pel' /\ origin <= origin'
           /\ \A i \in DOMAIN task : task[i].at = "readd" => Accounted(i)'
           /\ \A i \in Ids : i > cursor /\ i <= cursor' => i \in DOMAIN pel' \/ i <= origin'
  BY <1>1, <1>2, AccountKeeps DEF Accounted
<1>3. CASE \/ Boot(w) \/ CheckCircuit(w) \/ ClaimPending(w) \/ ReadMessages(w) \/ EndOfBatch(w)
           \/ LoopFails(w) \/ ReplyLost(w)
  <2>1. \A i \in DOMAIN task : task[i].at = "readd" => Accounted(i)'
    <3>1. Boot(w) \/ CheckCircuit(w) \/ ClaimPending(w) \/ ReadMessages(w) \/ EndOfBatch(w)
            => task' = task
      BY DEF Boot, CheckCircuit, ClaimPending, ReadMessages, EndOfBatch
    <3>2. LoopFails(w) \/ ReplyLost(w) => Disowned(w)
      BY RestartDisowns DEF LoopFails, ReplyLost
    <3> QED
      BY <1>3, <3>1, <3>2 DEF Accounted, At, Disowned
  <2>2. CASE Boot(w)
    <3>1. /\ \/ cursor' = cursor /\ origin' = origin
             \/ cursor' = Len(stream) /\ origin' = Len(stream)
          /\ pel' = pel
      BY <2>2 DEF Boot
    <3> QED
      BY <1>1, <1>2, <2>1, <3>1
  <2>3. CASE ReadMessages(w) \/ ReplyLost(w)
    <3>1. /\ cursor' = cursor + Cardinality(NextEntries) /\ origin' = origin
          /\ DOMAIN pel' = DOMAIN pel \cup NextEntries
      BY <2>3 DEF ReadMessages, ReplyLost, Assign
    <3>2. \A i \in Ids : i > cursor /\ i <= cursor' => i \in NextEntries
      BY <1>1, <3>1, Delivered
    <3> QED
      BY <1>1, <1>2, <2>1, <3>1, <3>2
  <2>4. CASE CheckCircuit(w) \/ ClaimPending(w) \/ EndOfBatch(w) \/ LoopFails(w)
    <3>1. cursor' = cursor /\ origin' = origin /\ DOMAIN pel \subseteq DOMAIN pel'
      BY <2>4 DEF CheckCircuit, ClaimPending, EndOfBatch, LoopFails, Assign, redisVars
    <3> QED
      BY <1>1, <1>2, <2>1, <3>1
  <2> QED
    BY <1>3, <2>2, <2>3, <2>4
<1>4. ASSUME NEW i \in batch[w], SpawnTask(w, i)
      PROVE  NothingVanishes'
  <2>1. /\ DOMAIN task' = DOMAIN task \cup {i} /\ cursor' = cursor /\ origin' = origin /\ pel' = pel
        /\ \A k \in DOMAIN task \ {i} : task'[k] = task[k]
    BY <1>4 DEF SpawnTask, Assign, redisVars
  <2>2. i \notin DOMAIN task
    BY DEF PlaceInv
  <2>3. \A k \in DOMAIN task : task[k].at = "readd" => Accounted(k)'
    BY <2>1, <2>2 DEF Accounted, At
  <2> QED
    BY <1>1, <1>2, <2>1, <2>3
<1>5. CASE Crash(w)
  <2>1. /\ cursor' = cursor /\ origin' = origin /\ pel' = pel
        /\ \A k \in DOMAIN task : task[k].by # w => k \in DOMAIN task' /\ task'[k] = task[k]
        /\ \A k \in DOMAIN task : task[k].by = w /\ task[k].at = "readd"
             => k \in lost' \cup DOMAIN pel \cup succeeded \cup buried
    BY <1>5 DEF Crash, Drop, redisVars
  <2>2. \A k \in DOMAIN task : task[k].at = "readd" => Accounted(k)'
    BY <1>1, <2>1 DEF Accounted, At
  <2> QED
    BY <1>1, <1>2, <2>1, <2>2
<1> QED
  BY <1>3, <1>4, <1>5 DEF LoopStep, Fault

\* Every step keeps every delivered entry accounted for.
LEMMA NothingVanishesNext ==
  ASSUME TypeInv, TypeInv', PlaceInv, OutcomeInv, NothingVanishes, [Next]_vars
  PROVE  NothingVanishes'
<1>1. ASSUME NEW j \in Job, Enqueue(j) \/ RetryFromDlq(j)
      PROVE  NothingVanishes'
  <2>1. UNCHANGED <<pel, origin, cursor, task, succeeded, buried, lost>>
    BY <1>1 DEF Enqueue, RetryFromDlq, redisVars, histVars
  <2>2. \A i \in DOMAIN pel : Accounted(i)'
    BY <2>1 DEF Accounted
  <2>3. \A i \in DOMAIN task : task[i].at = "readd" => Accounted(i)'
    BY <2>1 DEF Accounted, At
  <2>4. CASE stream' = stream
    <3>1. origin \in Nat /\ cursor \in Nat /\ \A i \in Ids : i \in Nat
      BY DEF TypeInv, TypeOK, Ids
    <3>2. origin <= origin' /\ \A i \in Ids : ~(i > cursor /\ i <= cursor')
      BY <2>1, <3>1
    <3> QED
      BY <2>1, <2>2, <2>3, <2>4, <3>2, AccountKeeps
  <2>5. CASE Xadd(j, 1)
    <3>1. Grown(j, 1)
      BY <2>5, XaddGrows, StreamQueueAssumption
    <3> QED
      BY <2>1, <2>3, <3>1, AccountGrows
  <2> QED
    BY <1>1, <2>4, <2>5 DEF Enqueue, RetryFromDlq
<1>2. CASE UNCHANGED vars
  BY <1>2 DEF vars, NothingVanishes, At, EntriesOf, Ids, redisVars, histVars
<1> QED
  BY <1>1, <1>2, TaskShape, AccountTask, AccountLoop DEF Next

\* Whatever stops or fails, an entry that was delivered is pending, was processed,
\* buried or added again, or is one of those the code is known to lose.
THEOREM Accounts == Spec => []NothingVanishes
<1>1. Init => TypeInv /\ PlaceInv /\ OutcomeInv /\ NothingVanishes
  <2>1. Init => NothingVanishes
    BY DEF Init, NothingVanishes
  <2> QED
    BY <2>1, TypeInvInit, EntriesInit
<1>2. TypeInv /\ PlaceInv /\ OutcomeInv /\ NothingVanishes /\ [Next]_vars
        => (TypeInv /\ PlaceInv /\ OutcomeInv /\ NothingVanishes)'
  BY TypeInvNext, PlaceInvNext, OutcomeInvNext, NothingVanishesNext
<1> QED
  BY <1>1, <1>2, PTL DEF Spec

--------------------------------------------------------------------------------
(* The stream implements JobQueue.                                         *)

\* A bounded set of numbers that is not empty has a greatest element.
LEMMA GreatestExists ==
  ASSUME NEW n \in Nat, NEW E \in SUBSET (1..n), E # {}
  PROVE  \E i \in E : \A k \in E : k <= i
<1> DEFINE D == {d \in Nat : \E i \in E : d = n - i}
<1>1. PICK e \in E : TRUE
  OBVIOUS
<1>2. \A i \in E : i \in Nat /\ n - i \in Nat
  OBVIOUS
<1>3. D \subseteq Nat /\ n - e \in D
  BY <1>1, <1>2
<1>4. PICK d \in D : \A x \in D : <<x, d>> \notin OpToRel(<, Nat)
  BY <1>3, NatLessThanWellFounded, WFMin
<1>5. PICK i \in E : d = n - i
  BY <1>4
<1>6. ASSUME NEW k \in E
      PROVE  k <= i
  <2>1. n - k \in D
    BY <1>2, <1>6
  <2>2. n - k \in Nat /\ n - i \in Nat /\ k \in Nat /\ i \in Nat
    BY <1>2, <1>6
  <2>3. ~(n - k < n - i)
    BY <1>4, <1>5, <2>1, <2>2 DEF OpToRel
  <2> QED
    BY <2>2, <2>3
<1> QED
  BY <1>6

\* The greatest element is what CHOOSE gives.
LEMMA GreatestIs ==
  ASSUME NEW E \in SUBSET Nat, NEW i \in E, \A k \in E : k <= i
  PROVE  (CHOOSE m \in E : \A k \in E : k <= m) = i
<1>1. PICK c : c = CHOOSE m \in E : \A k \in E : k <= m
  OBVIOUS
<1>2. c \in E /\ \A k \in E : k <= c
  BY <1>1
<1>3. c \in Nat /\ i \in Nat /\ c <= i /\ i <= c
  BY <1>2
<1> QED
  BY <1>1, <1>3

\* i is the last entry of job j.
LastOf(i, j) == i \in Ids /\ stream[i].job = j /\ IsLast(i)

\* The state and the tries of a job are those of its last entry.
Mapped(j) ==
  /\ EntriesOf(j) = {} => State[j] = "idle" /\ Tries[j] = 0
  /\ EntriesOf(j) # {} => \E i : LastOf(i, j)
  /\ \A i : LastOf(i, j) => State[j] = EntryState(i) /\ Tries[j] = stream[i].attempt

\* The mapping, before a step.
LEMMA MappedNow ==
  ASSUME TypeInv, NEW j \in Job
  PROVE  Mapped(j)
<1>1. Len(stream) \in Nat /\ EntriesOf(j) \in SUBSET (1..Len(stream)) /\ EntriesOf(j) \in SUBSET Nat
  BY DEF TypeInv, TypeOK, EntriesOf, Ids
<1>2. EntriesOf(j) # {} => \E i \in EntriesOf(j) : \A k \in EntriesOf(j) : k <= i
  BY <1>1, GreatestExists
<1>3. ASSUME NEW i
      PROVE  LastOf(i, j) <=> i \in EntriesOf(j) /\ \A k \in EntriesOf(j) : k <= i
  BY DEF LastOf, EntriesOf, IsLast
<1>4. ASSUME NEW i, LastOf(i, j)
      PROVE  Latest(j) = i /\ EntriesOf(j) # {}
  BY <1>1, <1>3, <1>4, GreatestIs DEF Latest
<1>5. /\ State[j] = IF EntriesOf(j) = {} THEN "idle" ELSE EntryState(Latest(j))
      /\ Tries[j] = IF EntriesOf(j) = {} THEN 0 ELSE stream[Latest(j)].attempt
  BY DEF State, Tries
<1> QED
  BY <1>2, <1>3, <1>4, <1>5 DEF Mapped

\* The mapping, after it.
LEMMA MappedThen ==
  ASSUME TypeInv', NEW j \in Job
  PROVE  Mapped(j)'
<1>1. /\ Len(stream') \in Nat /\ EntriesOf(j)' \in SUBSET (1..Len(stream'))
      /\ EntriesOf(j)' \in SUBSET Nat
  BY DEF TypeInv, TypeOK, EntriesOf, Ids
<1>2. EntriesOf(j)' # {} => \E i \in EntriesOf(j)' : \A k \in EntriesOf(j)' : k <= i
  BY <1>1, GreatestExists
<1>3. ASSUME NEW i
      PROVE  LastOf(i, j)' <=> i \in EntriesOf(j)' /\ \A k \in EntriesOf(j)' : k <= i
  BY DEF LastOf, EntriesOf, IsLast
<1>4. ASSUME NEW i, LastOf(i, j)'
      PROVE  Latest(j)' = i /\ EntriesOf(j)' # {}
  BY <1>1, <1>3, <1>4, GreatestIs DEF Latest
<1>5. /\ State'[j] = IF EntriesOf(j)' = {} THEN "idle" ELSE EntryState(Latest(j))'
      /\ Tries'[j] = IF EntriesOf(j)' = {} THEN 0 ELSE stream'[Latest(j)'].attempt
  BY DEF State, Tries
<1>6. \A i : LastOf(i, j)' => State'[j] = EntryState(i)' /\ Tries'[j] = stream'[i].attempt
  <2> SUFFICES ASSUME NEW i, LastOf(i, j)'
               PROVE  State'[j] = EntryState(i)' /\ Tries'[j] = stream'[i].attempt
    OBVIOUS
  <2>1. EntryState(Latest(j))' = EntryState(i)'
    BY <1>4 DEF EntryState, InBatch
  <2> QED
    BY <1>4, <1>5, <2>1
<1> QED
  BY <1>2, <1>3, <1>5, <1>6 DEF Mapped

\* The mapping gives functions on the jobs.
LEMMA MappedFunctions ==
  /\ State = [j \in Job |-> State[j]] /\ State' = [j \in Job |-> State'[j]]
  /\ Tries = [j \in Job |-> Tries[j]] /\ Tries' = [j \in Job |-> Tries'[j]]
BY DEF State, Tries

\* A function that differs in one place.
LEMMA OneChange ==
  ASSUME NEW f, NEW g, NEW a \in Job, NEW x,
         f = [j \in Job |-> f[j]], g = [j \in Job |-> g[j]],
         g[a] = x, \A j \in Job \ {a} : g[j] = f[j]
  PROVE  g = [f EXCEPT ![a] = x]
<1>1. DOMAIN g = Job /\ DOMAIN f = Job
  OBVIOUS
<1>2. [f EXCEPT ![a] = x] = [j \in Job |-> IF j = a THEN x ELSE f[j]]
  BY <1>1
<1>3. g = [j \in Job |-> IF j = a THEN x ELSE f[j]]
  OBVIOUS
<1> QED
  BY <1>2, <1>3

\* The last entries stay what they are when the stream does not change.
LEMMA SameLast ==
  ASSUME TypeInv, TypeInv', stream' = stream, NEW j \in Job
  PROVE  /\ \A i : LastOf(i, j)' <=> LastOf(i, j)
         /\ EntriesOf(j)' = EntriesOf(j) /\ Tries'[j] = Tries[j]
         /\ EntriesOf(j) = {} => State'[j] = State[j]
<1>1. Mapped(j) /\ Mapped(j)'
  BY MappedNow, MappedThen
<1>2. (\A i : LastOf(i, j)' <=> LastOf(i, j)) /\ EntriesOf(j)' = EntriesOf(j)
  BY DEF LastOf, IsLast, Ids, EntriesOf
<1> QED
  BY <1>1, <1>2 DEF Mapped

\* A step after which entries are where they were or, having waited or run, are
\* nowhere, strands the jobs they are the last entries of.
LEMMA StrandsJobs ==
  ASSUME TypeInv, TypeInv', stream' = stream,
         \A i \in Ids : \/ EntryState(i)' = EntryState(i)
                        \/ /\ EntryState(i) \in {"waiting", "running"}
                           /\ EntryState(i)' = "stranded"
  PROVE  \E S \in SUBSET Job : Abstract!Strand(S)
<1>1. ASSUME NEW j \in Job
      PROVE  /\ Tries'[j] = Tries[j]
             /\ \/ State'[j] = State[j]
                \/ State[j] \in {"waiting", "running"} /\ State'[j] = "stranded"
  <2>1. Mapped(j) /\ Mapped(j)'
    BY <1>1, MappedNow, MappedThen
  <2>2. \A i : LastOf(i, j)' <=> LastOf(i, j)
    BY <1>1, SameLast
  <2>3. Tries'[j] = Tries[j] /\ (EntriesOf(j) = {} => State'[j] = State[j])
    BY <1>1, SameLast
  <2>4. ASSUME NEW i, LastOf(i, j)
        PROVE  \/ State'[j] = State[j]
               \/ State[j] \in {"waiting", "running"} /\ State'[j] = "stranded"
    <3>1. i \in Ids /\ LastOf(i, j)'
      BY <2>2, <2>4 DEF LastOf
    <3>2. State[j] = EntryState(i) /\ State'[j] = EntryState(i)'
      BY <2>1, <2>4, <3>1 DEF Mapped
    <3> QED
      BY <3>1, <3>2
  <2> QED
    BY <2>1, <2>3, <2>4 DEF Mapped
<1> DEFINE S == {j \in Job : State'[j] # State[j]}
<1>2. \A j \in S : State[j] \in {"waiting", "running"}
  BY <1>1
<1>3. State' = [j \in Job |-> IF j \in S THEN "stranded" ELSE State[j]]
  <2>1. \A j \in Job : State'[j] = IF j \in S THEN "stranded" ELSE State[j]
    BY <1>1
  <2> HIDE DEF S
  <2> QED
    BY <2>1, MappedFunctions
<1>4. Tries' = Tries
  BY <1>1, MappedFunctions
<1>5. S \in SUBSET Job
  OBVIOUS
<1> HIDE DEF S
<1> QED
  BY <1>2, <1>3, <1>4, <1>5 DEF Abstract!Strand

\* An entry has a job and an attempt.
LEMMA EntryTypes ==
  ASSUME TypeInv, NEW i \in Ids
  PROVE  stream[i].job \in Job /\ stream[i].attempt \in 1..MaxTries
<1>1. stream[i] \in Entry
  BY DEF TypeInv, TypeOK, Ids
<1> QED
  BY <1>1 DEF Entry

\* A step that changes one entry moves its job, if it is the last one.
LEMMA MovesJob ==
  ASSUME TypeInv, TypeInv', stream' = stream, NEW i \in Ids,
         \A k \in Ids \ {i} : EntryState(k)' = EntryState(k)
  PROVE  \/ State' = State /\ Tries' = Tries
         \/ \E j \in Job : /\ State[j] = EntryState(i)
                           /\ State' = [State EXCEPT ![j] = EntryState(i)']
                           /\ Tries' = Tries
                           /\ LastOf(i, j)
<1>1. PICK j \in Job : j = stream[i].job
  BY EntryTypes
<1>2. \A a \in Job : Mapped(a) /\ Mapped(a)'
  BY MappedNow, MappedThen
<1>3. \A a \in Job : /\ \A k : LastOf(k, a)' <=> LastOf(k, a)
                     /\ Tries'[a] = Tries[a]
                     /\ EntriesOf(a) = {} => State'[a] = State[a]
  BY SameLast
<1>4. Tries' = Tries
  BY <1>3, MappedFunctions
<1>5. ASSUME NEW a \in Job, ~LastOf(i, a)
      PROVE  State'[a] = State[a]
  <2>1. CASE EntriesOf(a) = {}
    BY <1>3, <2>1
  <2>2. CASE EntriesOf(a) # {}
    <3>1. PICK k : LastOf(k, a)
      BY <1>2, <2>2 DEF Mapped
    <3>2. k \in Ids \ {i} /\ LastOf(k, a)'
      BY <1>3, <1>5, <3>1 DEF LastOf
    <3>3. State[a] = EntryState(k) /\ State'[a] = EntryState(k)'
      BY <1>2, <3>1, <3>2 DEF Mapped
    <3> QED
      BY <3>2, <3>3
  <2> QED
    BY <2>1, <2>2
<1>6. \A a \in Job \ {j} : ~LastOf(i, a)
  BY <1>1 DEF LastOf
<1>7. CASE ~LastOf(i, j)
  <2>1. \A a \in Job : State'[a] = State[a]
    BY <1>5, <1>6, <1>7
  <2> QED
    BY <1>4, <2>1, MappedFunctions
<1>8. CASE LastOf(i, j)
  <2>1. State[j] = EntryState(i) /\ State'[j] = EntryState(i)'
    BY <1>2, <1>3, <1>8 DEF Mapped
  <2>2. State' = [State EXCEPT ![j] = EntryState(i)']
    BY <1>5, <1>6, <2>1, MappedFunctions, OneChange
  <2> QED
    BY <1>4, <1>8, <2>1, <2>2
<1> QED
  BY <1>7, <1>8

\* XADD makes the new entry the last of its job, waiting behind the cursor.
LEMMA GrowsJob ==
  ASSUME TypeInv, TypeInv', NEW j \in Job, NEW n, Grown(j, n),
         DOMAIN task' \subseteq DOMAIN task,
         \A k \in DOMAIN task : stream[k].job # j => k \in DOMAIN task',
         UNCHANGED <<cursor, batch, succeeded, buried>>
  PROVE  /\ State' = [State EXCEPT ![j] = "waiting"]
         /\ Tries' = [Tries EXCEPT ![j] = n]
<1>0. PICK new : new = Len(stream) + 1
  OBVIOUS
<1>1. /\ \A i \in Ids : i \in Nat /\ i <= new
      /\ new \in Nat /\ new <= new /\ new > cursor
  BY <1>0 DEF TypeInv, TypeOK, Ids
<1>2. /\ \A i \in Ids : i \in Ids' /\ stream'[i] = stream[i]
      /\ \A i \in Ids' : i \in Ids \/ i = new
      /\ stream'[new].job = j /\ stream'[new].attempt = n
      /\ new \in Ids' /\ new \notin Ids
  BY <1>0 DEF Grown
<1>3. new \notin DOMAIN task' /\ new \notin succeeded /\ new \notin buried
  BY <1>2 DEF TypeInv, TypeOK
<1>4. EntryState(new)' = "waiting"
  BY <1>1, <1>3 DEF EntryState
<1>5. LastOf(new, j)'
  BY <1>1, <1>2 DEF LastOf, IsLast
<1>6. \A a \in Job : Mapped(a) /\ Mapped(a)'
  BY MappedNow, MappedThen
<1>7. State'[j] = "waiting" /\ Tries'[j] = n
  BY <1>2, <1>4, <1>5, <1>6 DEF Mapped
<1>8. ASSUME NEW a \in Job \ {j}
      PROVE  State'[a] = State[a] /\ Tries'[a] = Tries[a]
  <2>1. EntriesOf(a)' = EntriesOf(a)
    BY <1>2, <1>8 DEF EntriesOf
  <2>2. \A i : LastOf(i, a) => LastOf(i, a)'
    BY <1>2, <1>8 DEF LastOf, IsLast
  <2>3. ASSUME NEW i, LastOf(i, a)
        PROVE  EntryState(i)' = EntryState(i) /\ stream'[i] = stream[i]
    <3>1. i \in Ids /\ stream[i].job # j
      BY <1>8, <2>3 DEF LastOf
    <3>2. i \in DOMAIN task' <=> i \in DOMAIN task
      BY <3>1
    <3> QED
      BY <1>2, <3>1, <3>2 DEF EntryState, InBatch
  <2>4. CASE EntriesOf(a) = {}
    BY <1>6, <2>1, <2>4 DEF Mapped
  <2>5. CASE EntriesOf(a) # {}
    <3>1. PICK i : LastOf(i, a)
      BY <1>6, <2>5 DEF Mapped
    <3>2. /\ State[a] = EntryState(i) /\ State'[a] = EntryState(i)'
          /\ Tries[a] = stream[i].attempt /\ Tries'[a] = stream'[i].attempt
      BY <1>6, <2>2, <3>1 DEF Mapped
    <3> QED
      BY <2>3, <3>1, <3>2
  <2> QED
    BY <2>4, <2>5
<1> QED
  BY <1>7, <1>8, MappedFunctions, OneChange

\* Entries do not change, or are stranded, when nothing is recorded and no task begins.
LEMMA StrandsEntries ==
  ASSUME TypeInv, PlaceInv, Onward, stream' = stream,
         DOMAIN task' \subseteq DOMAIN task, succeeded' = succeeded, buried' = buried
  PROVE  \A i \in Ids : \/ EntryState(i)' = EntryState(i)
                        \/ /\ EntryState(i) \in {"waiting", "running"}
                           /\ EntryState(i)' = "stranded"
<1>1. \A i \in DOMAIN task : ~Undelivered(i)
  BY PlacedIds DEF Undelivered, InBatch
<1>2. \A i \in Ids : Undelivered(i)' => Undelivered(i)
  BY DEF Onward
<1>3. ASSUME NEW i
      PROVE  EntryState(i) = IF i \in succeeded THEN "done"
                             ELSE IF i \in buried THEN "dead"
                             ELSE IF i \in DOMAIN task THEN "running"
                             ELSE IF Undelivered(i) THEN "waiting" ELSE "stranded"
  BY DEF EntryState, Undelivered
<1>4. ASSUME NEW i
      PROVE  EntryState(i)' = IF i \in succeeded' THEN "done"
                              ELSE IF i \in buried' THEN "dead"
                              ELSE IF i \in DOMAIN task' THEN "running"
                              ELSE IF Undelivered(i)' THEN "waiting" ELSE "stranded"
  BY DEF EntryState, Undelivered
<1> QED
  BY <1>1, <1>2, <1>3, <1>4

\* enqueue submits a job, retry_from_dlq revives a dead one.
LEMMA QueueRefines ==
  ASSUME NoSecondRetry, TypeInv, TypeInv', PlaceInv, OutcomeInv, LastInv, Onward, NEW j \in Job,
         Enqueue(j) \/ RetryFromDlq(j)
  PROVE  Abstract!Next
<1>1. /\ 1 \in 1..MaxTries
      /\ UNCHANGED <<task, cursor, batch, succeeded, buried>>
  BY StreamQueueAssumption DEF Enqueue, RetryFromDlq, redisVars, loopVars, histVars
<1>2. Mapped(j)
  BY MappedNow
<1>3. CASE Xadd(j, 1)
  <2>1. Grown(j, 1)
    BY <1>1, <1>3, XaddGrows
  <2>2. /\ State' = [State EXCEPT ![j] = "waiting"]
        /\ Tries' = [Tries EXCEPT ![j] = 1]
    BY <1>1, <2>1, GrowsJob
  <2>3. CASE Enqueue(j)
    <3>1. State[j] = "idle"
      BY <1>2, <2>3 DEF Enqueue, Mapped
    <3>2. Abstract!Submit(j)
      BY <2>2, <3>1 DEF Abstract!Submit
    <3> QED
      BY <3>2 DEF Abstract!Next
  <2>4. CASE RetryFromDlq(j)
    <3>1. j \in dlq /\ revives < MaxRevives
      BY <2>4 DEF RetryFromDlq
    <3>2. PICK i \in Ids : stream[i].job = j /\ i \in buried /\ IsLast(i)
      BY <3>1 DEF LastInv
    <3>3. LastOf(i, j) /\ EntryState(i) = "dead"
      BY <3>2 DEF LastOf, EntryState, OutcomeInv
    <3>4. State[j] = "dead"
      BY <1>2, <3>3 DEF Mapped
    <3>5. Abstract!Revive(j)
      BY <2>2, <3>4 DEF Abstract!Revive
    <3> QED
      BY <3>5 DEF Abstract!Next
  <2> QED
    BY <2>3, <2>4
<1>4. CASE stream' = stream
  BY <1>1, <1>4, StrandsEntries, StrandsJobs DEF Abstract!Next
<1> QED
  BY <1>3, <1>4 DEF Enqueue, RetryFromDlq

\* A task's step finishes, buries or retries its job, or strands it.
LEMMA TaskRefines ==
  ASSUME TypeInv, TypeInv', PlaceInv, OutcomeInv, LastInv, Onward, NEW i \in DOMAIN task, Shape(i),
         UNCHANGED <<redisVars, loopVars>>
  PROVE  Abstract!Next \/ UNCHANGED <<State, Tries>>
<1>1. /\ i \in Ids /\ stream[i].job \in Job /\ stream[i].attempt \in Nat /\ MaxTries \in Nat
      /\ task[i].at \in {"backoff", "readd"} => stream[i].attempt < MaxTries
  BY TaskEntry, StreamQueueAssumption DEF TypeInv, TriesLeft
<1>2. UNCHANGED <<cursor, batch>>
  BY DEF redisVars, loopVars
<1>3. CASE stream' = stream /\ DOMAIN task' \subseteq DOMAIN task
           /\ succeeded' = succeeded /\ buried' = buried
  BY <1>3, StrandsEntries, StrandsJobs DEF Abstract!Next
<1>4. CASE /\ stream' = stream /\ DOMAIN task' = DOMAIN task /\ i \notin buried
           /\ task[i].at # "ackOk"
           /\ succeeded' = succeeded \cup {i} /\ buried' = buried
  <2>1. EntryState(i) = "running" /\ EntryState(i)' = "done"
    BY <1>4 DEF EntryState, OutcomeInv
  <2>2. \A k \in Ids \ {i} : EntryState(k)' = EntryState(k)
    BY <1>2, <1>4 DEF EntryState, InBatch
  <2>3. CASE UNCHANGED <<State, Tries>>
    BY <2>3
  <2>4. ASSUME NEW j \in Job, State[j] = EntryState(i),
               State' = [State EXCEPT ![j] = EntryState(i)'], Tries' = Tries
        PROVE  Abstract!Next
    <3>1. Abstract!Move(j, "running", "done")
      BY <2>1, <2>4 DEF Abstract!Move
    <3> QED
      BY <3>1 DEF Abstract!Next
  <2> QED
    BY <1>1, <1>4, <2>2, <2>3, <2>4, MovesJob
<1>5. CASE /\ stream' = stream /\ DOMAIN task' = DOMAIN task
           /\ task[i].at # "ackOk"
           /\ succeeded' = succeeded /\ buried' = buried \cup {i}
  <2>1. EntryState(i) \in {"running", "dead"} /\ EntryState(i)' = "dead"
    BY <1>5 DEF EntryState, OutcomeInv
  <2>2. \A k \in Ids \ {i} : EntryState(k)' = EntryState(k)
    BY <1>2, <1>5 DEF EntryState, InBatch
  <2>3. CASE UNCHANGED <<State, Tries>>
    BY <2>3
  <2>4. ASSUME NEW j \in Job, State[j] = EntryState(i),
               State' = [State EXCEPT ![j] = EntryState(i)'], Tries' = Tries
        PROVE  Abstract!Next \/ UNCHANGED <<State, Tries>>
    <3>1. CASE EntryState(i) = "running"
      <4>1. Abstract!Move(j, "running", "dead")
        BY <2>1, <2>4, <3>1 DEF Abstract!Move
      <4> QED
        BY <4>1 DEF Abstract!Next
    <3>2. CASE EntryState(i) = "dead"
      <4>1. State'[j] = State[j] /\ \A a \in Job \ {j} : State'[a] = State[a]
        BY <2>1, <2>4, <3>2, MappedFunctions
      <4> QED
        BY <2>4, <4>1, MappedFunctions
    <3> QED
      BY <2>1, <3>1, <3>2
  <2> QED
    BY <1>1, <1>5, <2>2, <2>3, <2>4, MovesJob
<1>6. CASE /\ Ends(i, "readd") /\ Grown(stream[i].job, stream[i].attempt + 1)
           /\ succeeded' = succeeded /\ buried' = buried
  <2>1. PICK j \in Job : j = stream[i].job
    BY <1>1
  <2>2. task[i].at = "readd" /\ DOMAIN task' = DOMAIN task \ {i}
    BY <1>6 DEF Ends, Drop
  <2>3. \A k \in DOMAIN task : stream[k].job # j => k \in DOMAIN task'
    BY <2>1, <2>2
  <2>4. /\ State' = [State EXCEPT ![j] = "waiting"]
        /\ Tries' = [Tries EXCEPT ![j] = stream[i].attempt + 1]
    BY <1>2, <1>6, <2>1, <2>2, <2>3, GrowsJob
  <2>5. LastOf(i, j)
    BY <1>1, <2>1, <2>2 DEF LastOf, LastInv, Unsettled, Live
  <2>6. EntryState(i) = "running"
    BY <2>2 DEF EntryState, OutcomeInv
  <2>7. State[j] = "running" /\ Tries[j] = stream[i].attempt /\ Tries[j] < MaxTries
    BY <1>1, <2>2, <2>5, <2>6, MappedNow DEF Mapped
  <2>8. Abstract!Retry(j)
    BY <2>4, <2>7 DEF Abstract!Retry
  <2> QED
    BY <2>8 DEF Abstract!Next
<1>7. \A l : TaskMoved(i, l) => DOMAIN task' = DOMAIN task
  BY DEF TaskMoved
<1>8. task' = Drop(task, {i}) => DOMAIN task' \subseteq DOMAIN task
  BY DEF Drop
<1>9. task[i].at \notin {"mark", "ackDlq"} => i \notin buried
  BY DEF OutcomeInv
<1> QED
  BY <1>3, <1>4, <1>5, <1>6, <1>7, <1>8, <1>9 DEF Shape, Goes, Ends

\* The loop starts the run of a waiting job; all else it does, and the faults, change
\* no job or strand some.
LEMMA LoopRefines ==
  ASSUME TypeInv, TypeInv', PlaceInv, OutcomeInv, Onward, NEW w \in Worker,
         LoopStep(w) \/ Fault(w)
  PROVE  Abstract!Next \/ UNCHANGED <<State, Tries>>
<1>1. stream' = stream /\ succeeded' = succeeded /\ buried' = buried
  BY DEF LoopStep, Boot, CheckCircuit, ClaimPending, ReadMessages, SpawnTask, EndOfBatch,
         Fault, Crash, LoopFails, ReplyLost, histVars
<1>2. CASE \/ Boot(w) \/ CheckCircuit(w) \/ ClaimPending(w) \/ ReadMessages(w)
           \/ EndOfBatch(w) \/ Fault(w)
  <2>1. DOMAIN task' \subseteq DOMAIN task
    BY <1>2, IdleTasks
  <2> QED
    BY <1>1, <2>1, StrandsEntries, StrandsJobs DEF Abstract!Next
<1>3. ASSUME NEW i \in batch[w], SpawnTask(w, i)
      PROVE  Abstract!Next \/ UNCHANGED <<State, Tries>>
  <2>1. /\ DOMAIN task' = DOMAIN task \cup {i} /\ cursor' = cursor
        /\ batch' = [batch EXCEPT ![w] = batch[w] \ {i}] /\ batch \in [Worker -> SUBSET Ids]
    BY <1>3 DEF SpawnTask, Assign, redisVars, TypeInv, TypeOK
  <2>2. i \in Ids /\ InBatch(i) /\ i \notin DOMAIN task /\ i \notin succeeded \cup buried
    BY <2>1 DEF PlaceInv, OutcomeInv, Undelivered, InBatch
  <2>3. EntryState(i) = "waiting" /\ EntryState(i)' = "running"
    BY <1>1, <2>1, <2>2 DEF EntryState
  <2>4. ASSUME NEW k \in Ids \ {i}
        PROVE  EntryState(k)' = EntryState(k)
    <3>1. InBatch(k)' <=> InBatch(k)
      BY <2>1, <2>4 DEF InBatch
    <3> QED
      BY <1>1, <2>1, <2>4, <3>1 DEF EntryState
  <2>5. CASE UNCHANGED <<State, Tries>>
    BY <2>5
  <2>6. ASSUME NEW j \in Job, State[j] = EntryState(i),
               State' = [State EXCEPT ![j] = EntryState(i)'], Tries' = Tries
        PROVE  Abstract!Next
    <3>1. Abstract!Move(j, "waiting", "running")
      BY <2>3, <2>6 DEF Abstract!Move
    <3> QED
      BY <3>1 DEF Abstract!Next
  <2> QED
    BY <1>1, <2>2, <2>4, <2>5, <2>6, MovesJob
<1> QED
  BY <1>2, <1>3 DEF LoopStep

\* Every step of the queue is a step of JobQueue, or none.
LEMMA StepRefines ==
  ASSUME NoSecondRetry, TypeInv, TypeInv', PlaceInv, OutcomeInv, LastInv, [Next]_vars
  PROVE  [Abstract!Next]_<<State, Tries>>
<1>1. Onward
  BY StepsGoOnward
<1>2. CASE UNCHANGED vars
  <2>1. State' = State /\ Tries' = Tries
    BY <1>2 DEF vars, redisVars, loopVars, histVars, State, Tries, EntryState, EntriesOf,
                Latest, InBatch, Ids
  <2> QED
    BY <2>1
<1> QED
  BY <1>1, <1>2, QueueRefines, TaskShape, TaskRefines, LoopRefines DEF Next

\* The stream with its consumer group, worker loops, tasks, dead-letter queue and
\* faults implements JobQueue, for any number of jobs and workers: at most MAX_TRIES
\* runs per submission, never two at once, nothing brought back but by an administrator.
THEOREM Refines == ASSUME NoSecondRetry PROVE Spec => ImplementsJobQueue
<1>1. Init => Abstract!Init
  <2> SUFFICES ASSUME Init
               PROVE  Abstract!Init
    OBVIOUS
  <2>1. \A j \in Job : EntriesOf(j) = {}
    BY DEF Init, EntriesOf, Ids
  <2>2. State = [j \in Job |-> "idle"] /\ Tries = [j \in Job |-> 0]
    BY <2>1 DEF State, Tries
  <2> QED
    BY <2>2 DEF Abstract!Init
<1>2. TypeInv /\ PlaceInv /\ OutcomeInv /\ LastInv
        /\ (TypeInv /\ PlaceInv /\ OutcomeInv /\ LastInv)' /\ [Next]_vars
          => [Abstract!Next]_<<State, Tries>>
  BY StepRefines
<1> QED
  BY <1>1, <1>2, QueueHolds, PTL DEF Spec, ImplementsJobQueue, Abstract!Spec
================================================================================
