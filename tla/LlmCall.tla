--------------------------------- MODULE LlmCall -------------------------------
(***************************************************************************)
(* The three LLM services (interpret, draft, respond) share one protocol:  *)
(* check the rate-limit policies, look into the response cache, try an     *)
(* advisory lock or wait for whoever holds it, call the provider through   *)
(* the router, store, book the call in the ledger and charge the policies. *)
(* This module runs several such calls at a time against the tables, the   *)
(* advisory locks and the router they share.                               *)
(*                                                                         *)
(* A statement or a provider attempt is one step.  Every statement runs on *)
(* whichever connection of the pool is free, which matters for advisory    *)
(* locks: PostgreSQL keeps them per session, so `lock` names the session.  *)
(*                                                                         *)
(* A response is named by the call that got it from the provider; `good`   *)
(* is the set of calls whose response passed the contract.  Token counts,  *)
(* latencies and texts are left out, and all windows have the same length. *)
(***************************************************************************)
EXTENDS Integers, FiniteSets

CONSTANTS
  Call,          \* calls of the services
  NoCall,        \* no cached response
  Service,       \* the service of each call: "interpret", "draft", "respond"
  KeyOf,         \* build_cache_key of each call's input
  LockOf,        \* build_lock_id of each key (a hash: keys may share one)
  Session,       \* connections of the pool
  NoSession,
  NPolicies,     \* llm_rate_limit_policies, numbered in the query's order
  PolicyRoute,   \* their routes: "all", "interpret" or "respond"
  MaxRequests,   \* max_requests of each
  MaxCost,       \* max_estimated_cost_usd of each
  Projected,     \* the cost preflight_check projects for a call
  Cost,          \* what each call turns out to cost
  MaxAttempts,   \* max_attempts of the router's RetryConfig
  NProviders,    \* 1, or 2 with a fallback provider
  Threshold,     \* circuit_breaker_threshold
  Permits,       \* calls at a time: the worker's semaphore
  MaxWindow,     \* bound: windows that begin
  Faults         \* whether statements may fail

Policy == 1..NPolicies
Key    == {KeyOf[c] : c \in Call}
Window == 0..MaxWindow

ASSUME LlmCallAssumption ==
  /\ IsFiniteSet(Call)
  /\ NoCall \notin Call
  /\ NoSession \notin Session
  /\ Service \in [Call -> {"interpret", "draft", "respond"}]
  /\ NPolicies \in Nat
  /\ PolicyRoute \in [Policy -> {"all", "interpret", "respond"}]
  /\ MaxRequests \in [Policy -> Nat]
  /\ MaxCost \in [Policy -> Nat]
  /\ Projected \in Nat
  /\ Cost \in [Call -> Nat]
  /\ MaxAttempts \in Nat \ {0}
  /\ NProviders \in 1..2
  /\ Threshold \in Nat \ {0}
  /\ Permits \in Nat \ {0}
  /\ MaxWindow \in Nat
  /\ Faults \in BOOLEAN

VARIABLES
  at,        \* where each call stands
  win,       \* the window of preflight_check's `now`
  todo,      \* the policies its current loop has left
  caching,   \* should_cache
  held,      \* lock_acquired
  provider,  \* the provider the router is trying, and ...
  tries,     \* ... the attempt it is at
  answer,    \* whose response the call returns
  good,      \* calls whose own response passed decode_and_validate
  cached,    \* llm_cache_entries: whose response each key holds, unexpired
  lock,      \* advisory locks: the session that holds it, and how often
  ledger,    \* llm_request_ledger: the call and its status
  bucket,    \* llm_rate_limit_buckets, by policy and window
  failures,  \* consecutive_failures of the router
  window     \* the window the clock is in

localVars  == <<win, todo, caching, held, provider, tries, answer, good>>
budgetVars == <<bucket, window>>
vars       == <<at, localVars, cached, lock, ledger, budgetVars, failures>>

--------------------------------------------------------------------------------
\* DRAFT_ROUTE is "respond".
Route(c) == IF Service[c] = "interpret" THEN "interpret" ELSE "respond"

\* The only caller of draft() sets bypass_cache.
Bypass(c) == Service[c] = "draft"

\* find_applicable.
Applicable(c) == {p \in Policy : PolicyRoute[p] \in {"all", Route(c)}}

First(policies) == CHOOSE p \in policies : \A q \in policies : p <= q

Ended == {"ok", "error", "denied"}

InFlight == {c \in Call : at[c] \notin Ended \cup {"idle"}}

At == {"idle", "check", "deny", "lookup", "lock", "wait", "recordHit",
       "circuit", "provider", "store", "recordUse", "usage", "recordFailure",
       "release"} \cup Ended

EmptyBucket == [requests |-> 0, cost |-> 0, denied |-> 0]

FreeLock == [holder |-> NoSession, depth |-> 0]

TypeOK ==
  /\ at \in [Call -> At]
  /\ win \in [Call -> Window]
  /\ todo \in [Call -> SUBSET Policy]
  /\ caching \in [Call -> BOOLEAN]
  /\ held \in [Call -> BOOLEAN]
  /\ provider \in [Call -> 1..NProviders]
  /\ tries \in [Call -> 0..MaxAttempts]
  /\ answer \in [Call -> Call \cup {NoCall}]
  /\ good \subseteq Call
  /\ cached \in [Key -> Call \cup {NoCall}]
  /\ lock \in [{LockOf[k] : k \in Key} ->
                 [holder : Session \cup {NoSession}, depth : Nat]]
  /\ ledger \subseteq Call \X {"hit", "miss", "bypass", "failed"}
  /\ bucket \in [Policy -> [Window -> [requests : Nat, cost : Nat,
                                       denied : Nat]]]
  /\ failures \in Nat
  /\ window \in Window

Init ==
  /\ at = [c \in Call |-> "idle"]
  /\ win = [c \in Call |-> 0]
  /\ todo = [c \in Call |-> {}]
  /\ caching = [c \in Call |-> FALSE]
  /\ held = [c \in Call |-> FALSE]
  /\ provider = [c \in Call |-> 1]
  /\ tries = [c \in Call |-> 0]
  /\ answer = [c \in Call |-> NoCall]
  /\ good = {}
  /\ cached = [k \in Key |-> NoCall]
  /\ lock = [l \in {LockOf[k] : k \in Key} |-> FreeLock]
  /\ ledger = {}
  /\ bucket = [p \in Policy |-> [w \in Window |-> EmptyBucket]]
  /\ failures = 0
  /\ window = 0

Goto(c, l) == at' = [at EXCEPT ![c] = l]

--------------------------------------------------------------------------------
\* preflight_check.

AfterPreflight(c) == IF Bypass(c) THEN "lock" ELSE "lookup"

\* The call begins: `now` is read and the policies are fetched.
Begin(c) ==
  /\ at[c] = "idle"
  /\ Cardinality(InFlight) < Permits
  /\ win' = [win EXCEPT ![c] = window]
  /\ todo' = [todo EXCEPT ![c] = Applicable(c)]
  /\ caching' = [caching EXCEPT ![c] = ~Bypass(c)]
  /\ Goto(c, IF Applicable(c) = {} THEN AfterPreflight(c) ELSE "check")
  /\ UNCHANGED <<held, provider, tries, answer, good, cached, lock, ledger,
                 budgetVars, failures>>

\* Mutant: the limit itself still counts as free.
ExhaustedLate(p, w) ==
  \/ bucket[p][w].requests > MaxRequests[p]
  \/ bucket[p][w].cost + Projected > MaxCost[p]

Exhausted(p, w) ==
  \/ bucket[p][w].requests + 1 > MaxRequests[p]
  \/ bucket[p][w].cost + Projected > MaxCost[p]

\* One turn of the loop: the upsert that adds nothing reads the counters.
CheckBucket(c) ==
  /\ at[c] = "check"
  /\ LET p    == First(todo[c])
         rest == todo[c] \ {p}
     IN  IF Exhausted(p, win[c])
         THEN Goto(c, "deny") /\ UNCHANGED todo
         ELSE /\ todo' = [todo EXCEPT ![c] = rest]
              /\ Goto(c, IF rest = {} THEN AfterPreflight(c) ELSE "check")
  /\ UNCHANGED <<win, caching, held, provider, tries, answer, good, cached, lock,
                 ledger, budgetVars, failures>>

\* record_denial; then exhausted_decision: interpret is denied, the others are
\* degraded to a call without cache and lock.
RecordDenial(c) ==
  /\ at[c] = "deny"
  /\ bucket' = [bucket EXCEPT ![First(todo[c])][win[c]].denied = @ + 1]
  /\ IF Route(c) = "interpret"
     THEN Goto(c, "denied") /\ UNCHANGED caching
     ELSE Goto(c, "circuit") /\ caching' = [caching EXCEPT ![c] = FALSE]
  /\ UNCHANGED <<win, todo, held, provider, tries, answer, good, cached, lock,
                 ledger, failures, window>>

--------------------------------------------------------------------------------
\* The cache and its lock.

Lookup(c) ==
  /\ at[c] = "lookup"
  /\ answer' = [answer EXCEPT ![c] = cached[KeyOf[c]]]
  /\ Goto(c, IF cached[KeyOf[c]] # NoCall THEN "recordHit" ELSE "lock")
  /\ UNCHANGED <<win, todo, caching, held, provider, tries, good, cached, lock,
                 ledger, budgetVars, failures>>

\* pg_try_advisory_lock on session s: free, or already held by that session.
TryAcquireLock(c, s) ==
  /\ at[c] = "lock"
  /\ LET l == LockOf[KeyOf[c]]
     IN  IF lock[l].holder \in {NoSession, s}
         THEN /\ lock' = [lock EXCEPT ![l] = [holder |-> s, depth |-> @.depth + 1]]
              /\ held' = [held EXCEPT ![c] = TRUE]
              /\ Goto(c, "circuit")
         ELSE /\ Goto(c, "wait")
              /\ UNCHANGED <<lock, held>>
  /\ UNCHANGED <<win, todo, caching, provider, tries, answer, good, cached,
                 ledger, budgetVars, failures>>

\* wait_for_entry: a poll that finds an entry, or one that finds none after the
\* deadline.
WaitFinds(c) ==
  /\ at[c] = "wait"
  /\ cached[KeyOf[c]] # NoCall
  /\ answer' = [answer EXCEPT ![c] = cached[KeyOf[c]]]
  /\ Goto(c, "recordHit")
  /\ UNCHANGED <<win, todo, caching, held, provider, tries, good, cached, lock,
                 ledger, budgetVars, failures>>

\* Mutant: a waiter only gives up when the lock is free.
WaitTimesOutWhenFree(c) ==
  /\ at[c] = "wait"
  /\ cached[KeyOf[c]] = NoCall
  /\ lock[LockOf[KeyOf[c]]].depth = 0
  /\ Goto(c, "circuit")
  /\ UNCHANGED <<localVars, cached, lock, ledger, budgetVars, failures>>

WaitTimesOut(c) ==
  /\ at[c] = "wait"
  /\ cached[KeyOf[c]] = NoCall
  /\ Goto(c, "circuit")
  /\ UNCHANGED <<localVars, cached, lock, ledger, budgetVars, failures>>

\* Mutant: the call goes on after booking the hit.
RecordHitAndGoOn(c) ==
  /\ at[c] = "recordHit"
  /\ Goto(c, "lock")
  /\ ledger' = ledger \cup {<<c, "hit">>}
  /\ UNCHANGED <<localVars, cached, lock, budgetVars, failures>>

\* record_completed with CacheStatus::Hit; its error is ignored.
RecordHit(c) ==
  /\ at[c] = "recordHit"
  /\ Goto(c, "ok")
  /\ \/ ledger' = ledger \cup {<<c, "hit">>}
     \/ Faults /\ UNCHANGED ledger
  /\ UNCHANGED <<localVars, cached, lock, budgetVars, failures>>

--------------------------------------------------------------------------------
\* The router.

\* The router's loop variables are gone when it returns.
LeaveRouter(c) ==
  /\ provider' = [provider EXCEPT ![c] = 1]
  /\ tries' = [tries EXCEPT ![c] = 0]

IsCircuitOpen == failures >= Threshold

\* Mutant: a call is let through an open circuit when nobody else is there.
EnterRouterProbing(c) ==
  /\ at[c] = "circuit"
  /\ IF IsCircuitOpen /\ \E d \in Call : at[d] = "provider"
     THEN Goto(c, "recordFailure") /\ UNCHANGED <<provider, tries>>
     ELSE /\ Goto(c, "provider")
          /\ provider' = [provider EXCEPT ![c] = 1]
          /\ tries' = [tries EXCEPT ![c] = 1]
  /\ UNCHANGED <<win, todo, caching, held, answer, good, cached, lock, ledger,
                 budgetVars, failures>>

EnterRouter(c) ==
  /\ at[c] = "circuit"
  /\ IF IsCircuitOpen
     THEN Goto(c, "recordFailure") /\ UNCHANGED <<provider, tries>>
     ELSE /\ Goto(c, "provider")
          /\ provider' = [provider EXCEPT ![c] = 1]
          /\ tries' = [tries EXCEPT ![c] = 1]
  /\ UNCHANGED <<win, todo, caching, held, answer, good, cached, lock, ledger,
                 budgetVars, failures>>

\* Mutant: the fallback payload is cached as well.
ProviderAnswersCached(c, valid) ==
  /\ at[c] = "provider"
  /\ failures' = 0
  /\ answer' = [answer EXCEPT ![c] = c]
  /\ good' = IF valid THEN good \cup {c} ELSE good
  /\ Goto(c, IF caching[c] THEN "store" ELSE "recordUse")
  /\ LeaveRouter(c)
  /\ UNCHANGED <<win, todo, caching, held, cached, lock, ledger, budgetVars>>

\* A provider answers: the counter is reset and the response decoded; a response
\* that breaks the contract is replaced by the fallback payload.
ProviderAnswers(c, valid) ==
  /\ at[c] = "provider"
  /\ failures' = 0
  /\ answer' = [answer EXCEPT ![c] = c]
  /\ good' = IF valid THEN good \cup {c} ELSE good
  /\ Goto(c, IF caching[c] /\ valid THEN "store" ELSE "recordUse")
  /\ LeaveRouter(c)
  /\ UNCHANGED <<win, todo, caching, held, cached, lock, ledger, budgetVars>>

\* An attempt fails.  A configuration error ends the attempts of a provider; the
\* primary's failure is counted before the fallback is tried.
AttemptFails(c, retryable) ==
  /\ at[c] = "provider"
  /\ IF retryable /\ tries[c] < MaxAttempts
     THEN /\ tries' = [tries EXCEPT ![c] = @ + 1]
          /\ UNCHANGED <<at, provider, failures>>
     ELSE /\ failures' = IF provider[c] = 1 THEN failures + 1 ELSE failures
          /\ IF provider[c] < NProviders
             THEN /\ provider' = [provider EXCEPT ![c] = @ + 1]
                  /\ tries' = [tries EXCEPT ![c] = 1]
                  /\ UNCHANGED at
             ELSE Goto(c, "recordFailure") /\ LeaveRouter(c)
  /\ UNCHANGED <<win, todo, caching, held, answer, good, cached, lock, ledger,
                 budgetVars>>

--------------------------------------------------------------------------------
\* After the provider.

\* store: an upsert, whose error is only logged.
Store(c) ==
  /\ at[c] = "store"
  /\ Goto(c, "recordUse")
  /\ \/ cached' = [cached EXCEPT ![KeyOf[c]] = c]
     \/ Faults /\ UNCHANGED cached
  /\ UNCHANGED <<localVars, lock, ledger, budgetVars, failures>>

Leave(c) ==
  IF held[c] THEN "release" ELSE IF answer[c] # NoCall THEN "ok" ELSE "error"

\* record_completed, then find_applicable for the charges.
RecordUse(c) ==
  /\ at[c] = "recordUse"
  /\ \/ ledger' = ledger \cup {<<c, IF c \in good THEN "miss" ELSE "bypass">>}
     \/ Faults /\ UNCHANGED ledger
  /\ \/ /\ todo' = [todo EXCEPT ![c] = Applicable(c)]
        /\ Goto(c, IF Applicable(c) = {} THEN Leave(c) ELSE "usage")
     \/ /\ Faults
        /\ todo' = [todo EXCEPT ![c] = {}]
        /\ Goto(c, Leave(c))
  /\ UNCHANGED <<win, caching, held, provider, tries, answer, good, cached, lock,
                 budgetVars, failures>>

\* record_usage for one policy, in the window the clock is in by now.
RecordUsage(c) ==
  /\ at[c] = "usage"
  /\ LET p    == First(todo[c])
         rest == todo[c] \ {p}
     IN  /\ todo' = [todo EXCEPT ![c] = rest]
         /\ Goto(c, IF rest = {} THEN Leave(c) ELSE "usage")
         /\ \/ bucket' = [bucket EXCEPT ![p][window].requests = @ + 1,
                                        ![p][window].cost = @ + Cost[c]]
            \/ Faults /\ UNCHANGED bucket
  /\ UNCHANGED <<win, caching, held, provider, tries, answer, good, cached, lock,
                 ledger, failures, window>>

\* record_failure.
RecordFailure(c) ==
  /\ at[c] = "recordFailure"
  /\ Goto(c, Leave(c))
  /\ \/ ledger' = ledger \cup {<<c, "failed">>}
     \/ Faults /\ UNCHANGED ledger
  /\ UNCHANGED <<localVars, cached, lock, budgetVars, failures>>

\* pg_advisory_unlock on session s: does nothing, without an error, when another
\* session holds the lock.  An error is only logged.
ReleaseLock(c, s) ==
  /\ at[c] = "release"
  /\ held' = [held EXCEPT ![c] = FALSE]
  /\ Goto(c, IF answer[c] # NoCall THEN "ok" ELSE "error")
  /\ LET l == LockOf[KeyOf[c]]
     IN  \/ IF lock[l].holder = s
            THEN lock' = [lock EXCEPT ![l] =
                            IF @.depth = 1 THEN FreeLock
                            ELSE [holder |-> s, depth |-> @.depth - 1]]
            ELSE UNCHANGED lock
         \/ Faults /\ UNCHANGED lock
  /\ UNCHANGED <<win, todo, caching, provider, tries, answer, good, cached,
                 ledger, budgetVars, failures>>

\* A statement whose error the service returns.
StatementFails(c) ==
  /\ Faults
  /\ at[c] \in {"check", "deny", "lookup", "lock", "wait"}
  /\ Goto(c, "error")
  /\ UNCHANGED <<localVars, cached, lock, ledger, budgetVars, failures>>

--------------------------------------------------------------------------------
\* Time: an entry's TTL ends, a window ends, the pool replaces a connection.

EntryExpires(k) ==
  /\ cached[k] # NoCall
  /\ cached' = [cached EXCEPT ![k] = NoCall]
  /\ UNCHANGED <<at, localVars, lock, ledger, budgetVars, failures>>

NewWindow ==
  /\ window < MaxWindow
  /\ window' = window + 1
  /\ UNCHANGED <<at, localVars, cached, lock, ledger, bucket, failures>>

SessionCloses(s) ==
  /\ \E l \in DOMAIN lock : lock[l].holder = s
  /\ lock' = [l \in DOMAIN lock |->
                IF lock[l].holder = s THEN FreeLock ELSE lock[l]]
  /\ UNCHANGED <<at, localVars, cached, ledger, budgetVars, failures>>

--------------------------------------------------------------------------------
CallStep(c) ==
  \/ CheckBucket(c)
  \/ RecordDenial(c)
  \/ Lookup(c)
  \/ \E s \in Session : TryAcquireLock(c, s)
  \/ WaitFinds(c)
  \/ WaitTimesOut(c)
  \/ RecordHit(c)
  \/ EnterRouter(c)
  \/ \E valid \in BOOLEAN : ProviderAnswers(c, valid)
  \/ \E retryable \in BOOLEAN : AttemptFails(c, retryable)
  \/ Store(c)
  \/ RecordUse(c)
  \/ RecordUsage(c)
  \/ RecordFailure(c)
  \/ \E s \in Session : ReleaseLock(c, s)

Settled ==
  /\ \A c \in Call : at[c] \in Ended
  /\ UNCHANGED vars

Next ==
  \/ \E c \in Call : Begin(c) \/ CallStep(c) \/ StatementFails(c)
  \/ \E k \in Key : EntryExpires(k)
  \/ NewWindow
  \/ \E s \in Session : SessionCloses(s)
  \/ Settled

Spec == Init /\ [][Next]_vars

\* A call that has begun goes on: statements and attempts have timeouts.
Fairness == \A c \in Call : WF_vars(CallStep(c))

FairSpec == Spec /\ Fairness

--------------------------------------------------------------------------------
\* Properties.

\* What one call leaves for others is a response of the provider that passed the
\* contract, asked with the same key: a fallback payload, or the response of a
\* degraded or cache-bypassing call, is never served to another call, however
\* stores, waits and expiries interleave.
SharedAnswersAreGood ==
  /\ \A k \in Key :
       cached[k] # NoCall => /\ cached[k] \in good
                             /\ KeyOf[cached[k]] = k
                             /\ caching[cached[k]]
  /\ \A c \in Call :
       answer[c] \notin {c, NoCall} => /\ answer[c] \in good
                                       /\ KeyOf[answer[c]] = KeyOf[c]

\* preflight_check and record_usage are separate statements, in maybe different
\* windows, so a limit can be overrun, but only by the calls that were under way
\* at the time: the excess stays below the number of permits.
OverrunIsBounded ==
  \A p \in Policy :
    PolicyRoute[p] = "interpret" /\ MaxRequests[p] > 0
      => \A w \in Window : bucket[p][w].requests < MaxRequests[p] + Permits

\* Every call has at most one row in the ledger, the row tells where its answer
\* came from, and a call that paid for a response is never booked as a hit.
LedgerIsTrue ==
  \A e \in ledger :
    LET c == e[1]
    IN  /\ \A f \in ledger : f[1] = c => f = e
        /\ CASE e[2] = "hit"    -> answer[c] \notin {c, NoCall}
             [] e[2] = "miss"   -> answer[c] = c /\ c \in good
             [] e[2] = "bypass" -> answer[c] = c /\ c \notin good
             [] e[2] = "failed" -> answer[c] = NoCall

Unreached == \A c \in Call : at[c] # "provider"

\* An open circuit has no way back: once the counter has reached the threshold
\* and the calls that were already at the provider are over, the router never
\* calls the provider again, whatever time passes.
OpenCircuitStays ==
  [][IsCircuitOpen /\ Unreached => IsCircuitOpen' /\ Unreached']_vars

\* Every call that begins ends: a lock that was left behind by a release on
\* another session delays the waiters but blocks none of them.
CallsEnd ==
  \A c \in Call : at[c] \notin Ended \cup {"idle"} ~> at[c] \in Ended
================================================================================
