---------------------------- MODULE CircuitBreaker -----------------------------
(***************************************************************************)
(* The circuit breaker of one worker, from src/queue/worker.rs: two        *)
(* atomics, consecutive_failures and circuit_open_until, shared without a  *)
(* lock by the event loop and the tasks it spawns.  Each load and store is *)
(* a step.  A task keeps the now_epoch of the loop iteration that spawned  *)
(* it and computes the end of a cooldown from it.                          *)
(*                                                                         *)
(* StreamQueue has what the tasks do to the stream; here a task ends in a  *)
(* success or in a failure that counts.                                    *)
(***************************************************************************)
EXTENDS Naturals

CONSTANTS
  Task,        \* tasks that can be in flight at a time
  Threshold,   \* CIRCUIT_BREAKER_THRESHOLD
  Cooldown,    \* CIRCUIT_BREAKER_COOLDOWN_SECS, in clock ticks
  MaxTime,     \* bound: the clock stops here
  MaxSpawn,    \* bound: the last time at which a task is spawned
  MaxFailures  \* bound: failures counted without a reset in between

ASSUME CircuitBreakerAssumption ==
  /\ Threshold \in Nat \ {0}
  /\ Cooldown \in Nat \ {0}
  /\ MaxTime \in Nat
  /\ MaxSpawn \in Nat
  /\ MaxFailures \in Nat
  /\ MaxSpawn + Cooldown <= MaxTime

VARIABLES
  now,         \* the wall clock
  failures,    \* consecutive_failures
  openUntil,   \* circuit_open_until; 0 is closed
  loop,        \* where the event loop is
  epoch,       \* now_epoch of its current iteration
  task,        \* where each task is
  started      \* now_epoch captured by each task

breaker == <<failures, openUntil>>
breakerVars == <<now, breaker, loop, epoch, task, started>>

BreakerTypeOK ==
  /\ now \in 1..MaxTime
  /\ failures \in 0..MaxFailures
  /\ openUntil \in 0..(MaxTime + Cooldown)
  /\ loop \in {"top", "resetOpen", "resetFailures", "read"}
  /\ epoch \in 1..MaxTime
  /\ task \in [Task -> {"idle", "run", "open", "close"}]
  /\ started \in [Task -> 1..MaxTime]

\* The clock starts at 1: epoch seconds are never 0, which means closed.
BreakerInit ==
  /\ now = 1
  /\ failures = 0
  /\ openUntil = 0
  /\ loop = "top"
  /\ epoch = 1
  /\ task = [t \in Task |-> "idle"]
  /\ started = [t \in Task |-> 1]

--------------------------------------------------------------------------------
\* The loop.

\* Mutant: an open circuit is never found to have cooled down.
StartIterationStuck ==
  /\ loop = "top"
  /\ epoch' = now
  /\ loop' = IF openUntil = 0 THEN "read" ELSE "top"
  /\ UNCHANGED <<now, breaker, task, started>>

\* now_epoch is taken and circuit_open_until loaded; an open circuit makes the
\* loop sleep and start over.
StartIteration ==
  /\ loop = "top"
  /\ epoch' = now
  /\ loop' = IF openUntil = 0 THEN "read"
             ELSE IF now < openUntil THEN "top"
             ELSE "resetOpen"
  /\ UNCHANGED <<now, breaker, task, started>>

\* The cooldown is over: two stores.
ResetOpen ==
  /\ loop = "resetOpen"
  /\ openUntil' = 0
  /\ loop' = "resetFailures"
  /\ UNCHANGED <<now, failures, epoch, task, started>>

ResetFailures ==
  /\ loop = "resetFailures"
  /\ failures' = 0
  /\ loop' = "read"
  /\ UNCHANGED <<now, openUntil, epoch, task, started>>

\* A message that was read is spawned.
Spawn(t) ==
  /\ loop = "read"
  /\ task[t] = "idle"
  /\ now <= MaxSpawn
  /\ task' = [task EXCEPT ![t] = "run"]
  /\ started' = [started EXCEPT ![t] = epoch]
  /\ UNCHANGED <<now, breaker, loop, epoch>>

EndIteration ==
  /\ loop = "read"
  /\ loop' = "top"
  /\ UNCHANGED <<now, breaker, epoch, task, started>>

--------------------------------------------------------------------------------
\* A task.

\* consecutive_failures.fetch_add(1) + 1, and the test of the threshold.
Fail(t) ==
  /\ task[t] = "run"
  /\ failures < MaxFailures
  /\ failures' = failures + 1
  /\ task' = [task EXCEPT ![t] = IF failures + 1 >= Threshold THEN "open"
                                                              ELSE "idle"]
  /\ UNCHANGED <<now, openUntil, loop, epoch, started>>

\* Mutant: the cooldown is added to the one in force.
ExtendCircuit(t) ==
  /\ task[t] = "open"
  /\ openUntil' = openUntil + started[t] + Cooldown
  /\ task' = [task EXCEPT ![t] = "idle"]
  /\ UNCHANGED <<now, failures, loop, epoch, started>>

OpenCircuit(t) ==
  /\ task[t] = "open"
  /\ openUntil' = started[t] + Cooldown
  /\ task' = [task EXCEPT ![t] = "idle"]
  /\ UNCHANGED <<now, failures, loop, epoch, started>>

Succeed(t) ==
  /\ task[t] = "run"
  /\ failures' = 0
  /\ task' = [task EXCEPT ![t] = "close"]
  /\ UNCHANGED <<now, openUntil, loop, epoch, started>>

CloseCircuit(t) ==
  /\ task[t] = "close"
  /\ openUntil' = 0
  /\ task' = [task EXCEPT ![t] = "idle"]
  /\ UNCHANGED <<now, failures, loop, epoch, started>>

Tick ==
  /\ now < MaxTime
  /\ now' = now + 1
  /\ UNCHANGED <<breaker, loop, epoch, task, started>>

--------------------------------------------------------------------------------
LoopStep == StartIteration \/ ResetOpen \/ ResetFailures \/ EndIteration

BreakerTaskStep(t) == Fail(t) \/ OpenCircuit(t) \/ Succeed(t) \/ CloseCircuit(t)

BreakerNext ==
  \/ LoopStep
  \/ \E t \in Task : Spawn(t) \/ BreakerTaskStep(t)
  \/ Tick

BreakerSpec == BreakerInit /\ [][BreakerNext]_breakerVars

\* The loop and the tasks run on, and time passes.
BreakerFairSpec ==
  /\ BreakerSpec
  /\ WF_breakerVars(LoopStep)
  /\ \A t \in Task : WF_breakerVars(BreakerTaskStep(t))
  /\ WF_breakerVars(Tick)

--------------------------------------------------------------------------------
\* Properties.

\* An open circuit never keeps the worker away for longer than one cooldown from
\* now: no race of tasks and loop pushes circuit_open_until further out.
PauseIsBounded == openUntil <= now + Cooldown

\* The circuit does not stay open: whoever opened it, with whatever stale time,
\* the loop or a success resets it.
CircuitCloses == openUntil > 0 ~> openUntil = 0
================================================================================
