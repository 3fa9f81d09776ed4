----------------------------- MODULE LlmCallProofs -----------------------------
(***************************************************************************)
(* For any number of calls, sessions, keys, policies and windows: what     *)
(* calls share is good, what they book is true, and a rate limit is        *)
(* overrun by less than the number of permits.                             *)
(***************************************************************************)
EXTENDS LlmCall, FiniteSetTheorems, WellFoundedInduction, TLAPS

--------------------------------------------------------------------------------
(* Types.                                                                  *)

Counters == [requests : Nat, cost : Nat, denied : Nat]

Buckets == [Policy -> [Window -> Counters]]

\* A denial and a charge change one counter, or two, of a bucket.
LEMMA CountersAdd ==
  ASSUME NEW x \in Counters, NEW n \in Nat
  PROVE  /\ [x EXCEPT !.denied = @ + 1] \in Counters
         /\ [x EXCEPT !.denied = @ + 1].requests = x.requests
         /\ [x EXCEPT !.requests = @ + 1] \in Counters
         /\ [x EXCEPT !.requests = @ + 1].requests = x.requests + 1
         /\ [x EXCEPT !.cost = @ + n] \in Counters
         /\ [x EXCEPT !.cost = @ + n].requests = x.requests
BY DEF Counters

Replaced(b, p, w, x) == [b EXCEPT ![p] = [b[p] EXCEPT ![w] = x]]

\* One bucket is replaced.
LEMMA BucketUpdate ==
  ASSUME NEW b \in Buckets, NEW p, NEW w \in Window, NEW x,
         p \in Policy => x \in Counters
  PROVE  /\ Replaced(b, p, w, x) \in Buckets
         /\ \A q \in Policy, v \in Window :
              Replaced(b, p, w, x)[q][v] = IF q = p /\ v = w THEN x ELSE b[q][v]
<1> DEFINE row == [b[p] EXCEPT ![w] = x]
           d == Replaced(b, p, w, x)
<1>1. ASSUME p \in Policy
      PROVE  /\ row \in [Window -> Counters]
             /\ \A v \in Window : row[v] = IF v = w THEN x ELSE b[p][v]
  <2>1. b[p] \in [Window -> Counters] /\ x \in Counters
    BY <1>1 DEF Buckets
  <2> QED
    BY <2>1
<1>2. d = [b EXCEPT ![p] = row]
  BY DEF Replaced
<1> HIDE DEF row, d
<1>3. d \in Buckets
  BY <1>1, <1>2 DEF Buckets
<1>4. ASSUME NEW q \in Policy, NEW v \in Window
      PROVE  d[q][v] = IF q = p /\ v = w THEN x ELSE b[q][v]
  <2>1. d[q] = IF q = p THEN row ELSE b[q]
    BY <1>2 DEF Buckets
  <2> QED
    BY <1>1, <2>1
<1> QED
  BY <1>3, <1>4 DEF d

\* record_denial leaves the requests alone.
LEMMA DenialEffect ==
  ASSUME bucket \in Buckets, NEW p, NEW w \in Window,
         bucket' = [bucket EXCEPT ![p][w].denied = @ + 1]
  PROVE  /\ bucket' \in Buckets
         /\ \A q \in Policy, v \in Window : bucket'[q][v].requests = bucket[q][v].requests
<1> DEFINE x == [bucket[p][w] EXCEPT !.denied = @ + 1]
<1>1. ASSUME p \in Policy
      PROVE  x \in Counters /\ x.requests = bucket[p][w].requests
  <2>1. bucket[p][w] \in Counters
    BY <1>1 DEF Buckets
  <2> QED
    BY <2>1, CountersAdd
<1>2. bucket' = Replaced(bucket, p, w, x)
  BY DEF Replaced
<1> HIDE DEF x
<1> DEFINE d == Replaced(bucket, p, w, x)
<1>3. /\ d \in Buckets
      /\ \A q \in Policy, v \in Window :
           d[q][v] = IF q = p /\ v = w THEN x ELSE bucket[q][v]
  BY <1>1, BucketUpdate
<1> HIDE DEF d
<1>4. ASSUME NEW q \in Policy, NEW v \in Window
      PROVE  d[q][v].requests = bucket[q][v].requests
  BY <1>1, <1>3
<1>5. bucket' = d
  BY ONLY <1>2 DEF d
<1> QED
  BY ONLY <1>3, <1>4, <1>5

\* record_usage adds one request to one bucket.
Charged(b, p, w, n) == [b EXCEPT ![p][w].requests = @ + 1, ![p][w].cost = @ + n]

\* It adds none to any other.
LEMMA ChargeEffect ==
  ASSUME bucket \in Buckets, NEW p, NEW w \in Window, NEW n \in Nat,
         bucket' = Charged(bucket, p, w, n)
  PROVE  /\ bucket' \in Buckets
         /\ \A q \in Policy, v \in Window :
              bucket'[q][v].requests = IF q = p /\ v = w THEN bucket[q][v].requests + 1
                                                         ELSE bucket[q][v].requests
<1> DEFINE x == [bucket[p][w] EXCEPT !.requests = @ + 1]
           b == Replaced(bucket, p, w, x)
           y == [b[p][w] EXCEPT !.cost = @ + n]
<1>1. ASSUME p \in Policy
      PROVE  x \in Counters /\ x.requests = bucket[p][w].requests + 1
  <2>1. bucket[p][w] \in Counters
    BY <1>1 DEF Buckets
  <2> QED
    BY <2>1, CountersAdd
<1>2. bucket' = Replaced(b, p, w, y)
  BY DEF Replaced, Charged
<1> HIDE DEF x
<1>3. /\ b \in Buckets
      /\ \A q \in Policy, v \in Window :
           b[q][v] = IF q = p /\ v = w THEN x ELSE bucket[q][v]
  BY <1>1, BucketUpdate
<1> HIDE DEF b
<1>4. ASSUME p \in Policy
      PROVE  y \in Counters /\ y.requests = bucket[p][w].requests + 1
  <2>1. b[p][w] = x
    BY <1>3, <1>4
  <2> QED
    BY <1>1, <1>4, <2>1, CountersAdd
<1> HIDE DEF y
<1> DEFINE d == Replaced(b, p, w, y)
<1>5. /\ d \in Buckets
      /\ \A q \in Policy, v \in Window :
           d[q][v] = IF q = p /\ v = w THEN y ELSE b[q][v]
  BY <1>3, <1>4, BucketUpdate
<1> HIDE DEF d
<1>6. ASSUME NEW q \in Policy, NEW v \in Window
      PROVE  d[q][v].requests = IF q = p /\ v = w THEN bucket[q][v].requests + 1
                                                  ELSE bucket[q][v].requests
  BY <1>3, <1>4, <1>5
<1>7. bucket' = d
  BY ONLY <1>2 DEF d
<1> QED
  BY ONLY <1>5, <1>6, <1>7

\* A lock that a session holds has been taken at least once: pg_advisory_unlock
\* never takes the count below zero.
HeldLocksCount == \A l \in DOMAIN lock : lock[l].holder # NoSession => lock[l].depth > 0

TypeInv == TypeOK /\ HeldLocksCount

\* The first state has the types.
LEMMA TypeInvInit == Init => TypeInv
BY LlmCallAssumption
   DEF Init, TypeInv, TypeOK, HeldLocksCount, At, EmptyBucket, FreeLock, Window

\* preflight_check, the cache and its lock preserve the types.
LEMMA TypeInvBefore ==
  ASSUME TypeInv, NEW c \in Call,
         \/ Begin(c) \/ CheckBucket(c) \/ RecordDenial(c) \/ Lookup(c) \/ WaitFinds(c)
         \/ WaitTimesOut(c) \/ RecordHit(c) \/ StatementFails(c)
  PROVE  TypeInv'
<1> USE LlmCallAssumption DEF TypeInv, TypeOK, HeldLocksCount, At, Ended, Goto,
                              AfterPreflight, budgetVars, localVars
<1>1. CASE Begin(c)
  BY <1>1 DEF Begin, Applicable
<1>2. CASE CheckBucket(c)
  <2> DEFINE p == First(todo[c])
  <2>1. /\ \/ todo' = todo
           \/ todo' = [todo EXCEPT ![c] = todo[c] \ {p}]
        /\ \E l \in {"deny", "lock", "lookup", "check"} : at' = [at EXCEPT ![c] = l]
        /\ UNCHANGED <<win, caching, held, provider, tries, answer, good, cached, lock,
                       ledger, budgetVars, failures>>
    BY <1>2 DEF CheckBucket
  <2> HIDE DEF p
  <2>2. todo' \in [Call -> SUBSET Policy]
    <3>1. todo[c] \ {p} \in SUBSET Policy
      OBVIOUS
    <3> QED
      BY <2>1, <3>1
  <2>3. at' \in [Call -> At]
    BY <2>1
  <2> QED
    BY <2>1, <2>2, <2>3
<1>3. CASE RecordDenial(c)
  <2> DEFINE p == First(todo[c])
  <2>1. /\ bucket' = [bucket EXCEPT ![p][win[c]].denied = @ + 1]
        /\ \E l \in {"denied", "circuit"} : at' = [at EXCEPT ![c] = l]
        /\ caching' = caching \/ caching' = [caching EXCEPT ![c] = FALSE]
        /\ UNCHANGED <<win, todo, held, provider, tries, answer, good, cached, lock,
                       ledger, failures, window>>
    BY <1>3 DEF RecordDenial
  <2> HIDE DEF p
  <2>2. bucket \in Buckets /\ win[c] \in Window
    BY DEF Buckets, Counters
  <2>3. bucket' \in Buckets
    BY <2>1, <2>2, DenialEffect
  <2>4. at' \in [Call -> At]
    BY <2>1
  <2>5. caching' \in [Call -> BOOLEAN]
    BY <2>1, Zenon
  <2> QED
    BY <2>1, <2>3, <2>4, <2>5 DEF Buckets, Counters
<1>4. CASE Lookup(c)
  BY <1>4 DEF Lookup, Key
<1>5. CASE WaitFinds(c)
  BY <1>5 DEF WaitFinds, Key
<1>6. CASE WaitTimesOut(c)
  BY <1>6 DEF WaitTimesOut
<1>7. CASE RecordHit(c)
  BY <1>7 DEF RecordHit
<1>8. CASE StatementFails(c)
  BY <1>8 DEF StatementFails
<1> QED
  BY <1>1, <1>2, <1>3, <1>4, <1>5, <1>6, <1>7, <1>8

\* The router and what follows it preserve the types.
LEMMA TypeInvAfter ==
  ASSUME TypeInv, NEW c \in Call,
         \/ EnterRouter(c) \/ \E valid \in BOOLEAN : ProviderAnswers(c, valid)
         \/ \E retryable \in BOOLEAN : AttemptFails(c, retryable)
         \/ Store(c) \/ RecordUse(c) \/ RecordUsage(c) \/ RecordFailure(c)
  PROVE  TypeInv'
<1> USE LlmCallAssumption DEF TypeInv, TypeOK, HeldLocksCount, At, Ended, Goto,
                              LeaveRouter, Leave, budgetVars, localVars
<1>9. /\ at \in [Call -> At] /\ tries \in [Call -> 0..MaxAttempts]
      /\ provider \in [Call -> 1..NProviders] /\ failures \in Nat
  OBVIOUS
<1>10. /\ 1 \in 1..NProviders /\ 0 \in 0..MaxAttempts /\ 1 \in 0..MaxAttempts
       /\ tries[c] < MaxAttempts => tries[c] + 1 \in 0..MaxAttempts
       /\ provider[c] < NProviders => provider[c] + 1 \in 1..NProviders
  OBVIOUS
<1>1. CASE EnterRouter(c)
  <2>1. /\ provider' = provider \/ provider' = [provider EXCEPT ![c] = 1]
        /\ tries' = tries \/ tries' = [tries EXCEPT ![c] = 1]
        /\ \E l \in {"provider", "recordFailure"} : at' = [at EXCEPT ![c] = l]
        /\ UNCHANGED <<win, todo, caching, held, answer, good, cached, lock, ledger,
                       budgetVars, failures>>
    BY ONLY <1>1 DEF EnterRouter, Goto
  <2>2. provider' \in [Call -> 1..NProviders]
    BY ONLY <1>10, <2>1, <1>9
  <2>3. tries' \in [Call -> 0..MaxAttempts]
    BY ONLY <1>10, <2>1, <1>9
  <2>4. at' \in [Call -> At]
    BY ONLY <2>1, <1>9 DEF At
  <2> QED
    BY <2>1, <2>2, <2>3, <2>4
<1>2. ASSUME NEW valid \in BOOLEAN, ProviderAnswers(c, valid)
      PROVE  TypeInv'
  BY <1>2 DEF ProviderAnswers
<1>3. ASSUME NEW retryable \in BOOLEAN, AttemptFails(c, retryable)
      PROVE  TypeInv'
  <2>1. /\ \/ tries[c] < MaxAttempts /\ tries' = [tries EXCEPT ![c] = tries[c] + 1]
           \/ \E n \in {0, 1} : tries' = [tries EXCEPT ![c] = n]
        /\ \/ provider[c] < NProviders /\ provider' = [provider EXCEPT ![c] = provider[c] + 1]
           \/ provider' = provider
           \/ provider' = [provider EXCEPT ![c] = 1]
        /\ at' = at \/ at' = [at EXCEPT ![c] = "recordFailure"]
        /\ failures' = failures \/ failures' = failures + 1
        /\ UNCHANGED <<win, todo, caching, held, answer, good, cached, lock, ledger,
                       budgetVars>>
    BY ONLY <1>3 DEF AttemptFails, Goto, LeaveRouter
  <2>2. tries' \in [Call -> 0..MaxAttempts]
    BY ONLY <1>10, <2>1, <1>9
  <2>3. provider' \in [Call -> 1..NProviders]
    BY ONLY <1>10, <2>1, <1>9
  <2>4. at' \in [Call -> At]
    BY ONLY <2>1, <1>9 DEF At
  <2>5. failures' \in Nat
    BY ONLY <2>1, <1>9
  <2> QED
    BY <2>1, <2>2, <2>3, <2>4, <2>5
<1>4. CASE Store(c)
  <2>1. /\ cached' = cached \/ cached' = [cached EXCEPT ![KeyOf[c]] = c]
        /\ at' = [at EXCEPT ![c] = "recordUse"]
        /\ UNCHANGED <<localVars, lock, ledger, budgetVars, failures>>
    BY ONLY <1>4 DEF Store, Goto
  <2>2. cached' \in [Key -> Call \cup {NoCall}]
    BY <2>1
  <2>3. at' \in [Call -> At]
    BY ONLY <2>1, <1>9 DEF At
  <2> QED
    BY <2>1, <2>2, <2>3
<1>5. CASE RecordUse(c)
  <2>1. /\ \E e \in {"miss", "bypass"} :
             ledger' = ledger \cup {<<c, e>>} \/ ledger' = ledger
        /\ \E S \in SUBSET Policy : todo' = [todo EXCEPT ![c] = S]
        /\ \E l \in {"release", "ok", "error", "usage"} : at' = [at EXCEPT ![c] = l]
        /\ UNCHANGED <<win, caching, held, provider, tries, answer, good, cached, lock,
                       budgetVars, failures>>
    BY <1>5 DEF RecordUse, Applicable
  <2>2. ledger' \subseteq Call \X {"hit", "miss", "bypass", "failed"}
    BY <2>1
  <2>3. todo' \in [Call -> SUBSET Policy] /\ at' \in [Call -> At]
    BY <2>1
  <2> QED
    BY <2>1, <2>2, <2>3
<1>6. CASE RecordUsage(c)
  <2> DEFINE p == First(todo[c])
  <2>1. /\ todo' = [todo EXCEPT ![c] = todo[c] \ {p}]
        /\ \E l \in {"release", "ok", "error", "usage"} : at' = [at EXCEPT ![c] = l]
        /\ \/ bucket' = Charged(bucket, p, window, Cost[c])
           \/ bucket' = bucket
        /\ UNCHANGED <<win, caching, held, provider, tries, answer, good, cached, lock,
                       ledger, failures, window>>
    BY <1>6 DEF RecordUsage, Charged
  <2> HIDE DEF p
  <2>2. bucket \in Buckets /\ window \in Window /\ Cost[c] \in Nat
    BY DEF Buckets, Counters
  <2>3. bucket' \in Buckets
    <3>1. CASE bucket' = bucket
      BY <2>2, <3>1
    <3>2. CASE bucket' = Charged(bucket, p, window, Cost[c])
      BY ONLY <2>2, <3>2, ChargeEffect
    <3> QED
      BY <2>1, <3>1, <3>2
  <2>4. todo' \in [Call -> SUBSET Policy]
    <3>1. todo[c] \ {p} \in SUBSET Policy
      OBVIOUS
    <3> QED
      BY <2>1, <3>1
  <2>5. at' \in [Call -> At]
    BY <2>1
  <2> QED
    BY <2>1, <2>3, <2>4, <2>5 DEF Buckets, Counters
<1>7. CASE RecordFailure(c)
  BY <1>7 DEF RecordFailure
<1> QED
  BY <1>1, <1>2, <1>3, <1>4, <1>5, <1>6, <1>7

LockRecord == [holder : Session \cup {NoSession}, depth : Nat]

\* One lock is replaced by a well-formed one, or none is.
LEMMA LockUpdate ==
  ASSUME TypeInv, NEW l, NEW x, lock' = lock \/ lock' = [lock EXCEPT ![l] = x],
         x \in LockRecord, x.holder # NoSession => x.depth > 0
  PROVE  lock' \in [{LockOf[k] : k \in Key} -> LockRecord] /\ HeldLocksCount'
<1>1. lock \in [{LockOf[k] : k \in Key} -> LockRecord]
  BY DEF TypeInv, TypeOK, LockRecord
<1>2. lock' \in [{LockOf[k] : k \in Key} -> LockRecord]
  BY <1>1
<1>3. \A m \in DOMAIN lock : lock'[m] = lock[m] \/ lock'[m] = x
  BY <1>1
<1> QED
  BY <1>1, <1>2, <1>3 DEF TypeInv, HeldLocksCount

\* The advisory locks stay well-formed, whichever session a statement runs on.
LEMMA TypeInvLocks ==
  ASSUME TypeInv, NEW s \in Session,
         \/ \E c \in Call : TryAcquireLock(c, s) \/ ReleaseLock(c, s)
         \/ SessionCloses(s)
  PROVE  TypeInv'
<1>1. lock \in [{LockOf[k] : k \in Key} -> LockRecord]
  BY DEF TypeInv, TypeOK, LockRecord
<1>2. ASSUME NEW c \in Call
      PROVE  lock[LockOf[KeyOf[c]]] \in LockRecord
  BY <1>1 DEF Key
<1>3. ASSUME NEW c \in Call, TryAcquireLock(c, s)
      PROVE  TypeInv'
  <2> DEFINE l == LockOf[KeyOf[c]]
             x == [holder |-> s, depth |-> lock[l].depth + 1]
  <2>1. /\ lock' = lock \/ lock' = [lock EXCEPT ![l] = x]
        /\ held' = held \/ held' = [held EXCEPT ![c] = TRUE]
        /\ \E m \in {"circuit", "wait"} : at' = [at EXCEPT ![c] = m]
        /\ UNCHANGED <<win, todo, caching, provider, tries, answer, good, cached,
                       ledger, budgetVars, failures>>
    BY <1>3 DEF TryAcquireLock, Goto
  <2>2. x \in LockRecord /\ x.depth > 0
    BY <1>2 DEF LockRecord
  <2> HIDE DEF l, x
  <2>3. lock' \in [{LockOf[k] : k \in Key} -> LockRecord] /\ HeldLocksCount'
    BY <2>1, <2>2, LockUpdate
  <2>4. held' \in [Call -> BOOLEAN]
    BY <2>1, Zenon DEF TypeInv, TypeOK
  <2>5. at' \in [Call -> At]
    BY <2>1 DEF TypeInv, TypeOK, At
  <2> QED
    BY <2>1, <2>3, <2>4, <2>5 DEF TypeInv, TypeOK, LockRecord, budgetVars
<1>4. ASSUME NEW c \in Call, ReleaseLock(c, s)
      PROVE  TypeInv'
  <2> DEFINE l == LockOf[KeyOf[c]]
             x == IF lock[l].depth = 1 THEN FreeLock
                                       ELSE [holder |-> s, depth |-> lock[l].depth - 1]
  <2> DEFINE m == IF answer[c] # NoCall THEN "ok" ELSE "error"
  <2>1. /\ held' = [held EXCEPT ![c] = FALSE]
        /\ at' = [at EXCEPT ![c] = m]
        /\ UNCHANGED <<win, todo, caching, provider, tries, answer, good, cached,
                       ledger, budgetVars, failures>>
    BY <1>4 DEF ReleaseLock, Goto
  <2>5. lock' = lock \/ (lock[l].holder = s /\ lock' = [lock EXCEPT ![l] = x])
    BY <1>4 DEF ReleaseLock
  <2>2. lock' \in [{LockOf[k] : k \in Key} -> LockRecord] /\ HeldLocksCount'
    <3>1. CASE lock' = lock
      BY <1>1, <3>1 DEF TypeInv, HeldLocksCount
    <3>2. CASE lock[l].holder = s /\ lock' = [lock EXCEPT ![l] = x]
      <4>1. lock[l] \in LockRecord /\ lock[l].depth > 0
        BY <1>1, <1>2, <3>2, LlmCallAssumption DEF TypeInv, HeldLocksCount, Key
      <4>2. x \in LockRecord /\ (x.holder # NoSession => x.depth > 0)
        BY <4>1 DEF LockRecord, FreeLock
      <4> HIDE DEF l, x
      <4> QED
        BY <3>2, <4>2, LockUpdate
    <3> QED
      BY <2>5, <3>1, <3>2
  <2>3. held' \in [Call -> BOOLEAN]
    BY <2>1, Zenon DEF TypeInv, TypeOK
  <2>4. at' \in [Call -> At]
    BY <2>1 DEF TypeInv, TypeOK, At, Ended
  <2> QED
    BY <2>1, <2>2, <2>3, <2>4 DEF TypeInv, TypeOK, LockRecord, budgetVars
<1>5. CASE SessionCloses(s)
  BY <1>5, LlmCallAssumption
     DEF SessionCloses, TypeInv, TypeOK, HeldLocksCount, FreeLock, budgetVars, localVars
<1> QED
  BY <1>3, <1>4, <1>5

\* Every step preserves the types.
LEMMA TypeInvNext == TypeInv /\ [Next]_vars => TypeInv'
<1> SUFFICES ASSUME TypeInv, [Next]_vars
             PROVE  TypeInv'
  OBVIOUS
<1> USE LlmCallAssumption DEF TypeInv, TypeOK, HeldLocksCount, budgetVars, localVars
<1>1. ASSUME NEW k \in Key, EntryExpires(k)
      PROVE  TypeInv'
  BY <1>1 DEF EntryExpires
<1>2. CASE NewWindow
  <2>1. window' \in Window
    BY <1>2 DEF NewWindow, Window
  <2> QED
    BY <1>2, <2>1 DEF NewWindow
<1>3. CASE UNCHANGED vars
  BY <1>3 DEF vars
<1> QED
  BY <1>1, <1>2, <1>3, TypeInvBefore, TypeInvAfter, TypeInvLocks
     DEF Next, CallStep, Settled

\* at, answers, caching and the ledger keep their types, and so does the set of locks.
THEOREM CallTypes == Spec => []TypeOK
<1>1. TypeInv => TypeOK
  BY DEF TypeInv
<1> QED
  BY <1>1, TypeInvInit, TypeInvNext, PTL DEF Spec

--------------------------------------------------------------------------------
(* Answers and the ledger.                                                 *)

\* Where a call has no answer yet, or none any more to come.
Unanswered == {"idle", "check", "deny", "lookup", "lock", "wait", "circuit", "provider",
               "recordFailure", "denied"}

\* Where a call may have its row in the ledger.
Booked == {"usage", "release", "ok", "error"}

\* What a call's position says about its answer.
PlaceInv(c) ==
  /\ at[c] \in Unanswered => answer[c] = NoCall
  /\ at[c] = "recordHit" => answer[c] \notin {c, NoCall}
  /\ at[c] \in {"store", "recordUse", "usage"} => answer[c] = c
  /\ at[c] = "store" => c \in good /\ caching[c]
  /\ c \in good => answer[c] = c

RowIsTrue(c, status) ==
  /\ status = "hit" => answer[c] \notin {c, NoCall}
  /\ status = "miss" => answer[c] = c /\ c \in good
  /\ status = "bypass" => answer[c] = c /\ c \notin good
  /\ status = "failed" => answer[c] = NoCall

\* SharedAnswersAreGood and LedgerIsTrue are not inductive by themselves: they need
\* to know what is decided where, and that a row is only written on leaving the
\* places that decide.
AnswerInv ==
  /\ \A c \in Call : PlaceInv(c)
  /\ SharedAnswersAreGood
  /\ \A c \in Call, status \in {"hit", "miss", "bypass", "failed"} :
       <<c, status>> \in ledger => /\ at[c] \in Booked
                                   /\ RowIsTrue(c, status)
                                   /\ \A other : <<c, other>> \in ledger => other = status

\* The first state satisfies the invariant.
LEMMA AnswerInvInit == Init => AnswerInv
BY LlmCallAssumption
   DEF Init, AnswerInv, PlaceInv, SharedAnswersAreGood, Unanswered, Booked

\* A step of call c: nobody else moves, its answer and its response are settled where
\* they may be, what it stores is its own good response, and it books at most one row,
\* which is true.
StepOf(c) ==
  /\ \A d \in Call \ {c} :
       at'[d] = at[d] /\ answer'[d] = answer[d] /\ caching'[d] = caching[d]
  /\ \A d \in Call \ {c} : d \in good' <=> d \in good
  /\ c \in good => c \in good' /\ caching'[c] = caching[c]
  /\ PlaceInv(c)'
  /\ answer'[c] = answer[c] \/ answer'[c] \in {c, NoCall, cached[KeyOf[c]]}
  /\ \/ cached' = cached
     \/ cached' = [cached EXCEPT ![KeyOf[c]] = c] /\ c \in good /\ caching[c]
  /\ \/ /\ ledger' = ledger
        /\ at[c] \in Booked
             => /\ at'[c] \in Booked /\ answer'[c] = answer[c]
                /\ c \in good' <=> c \in good
     \/ \E status \in {"hit", "miss", "bypass", "failed"} :
          /\ ledger' = ledger \cup {<<c, status>>}
          /\ at[c] \notin Booked /\ at'[c] \in Booked
          /\ RowIsTrue(c, status)'

\* Such a step preserves the invariant.
LEMMA StepKeeps ==
  ASSUME TypeInv, TypeInv', AnswerInv, NEW c \in Call, StepOf(c)
  PROVE  AnswerInv'
<1>1. \A d \in Call : PlaceInv(d)'
  <2>1. ASSUME NEW d \in Call, d # c
        PROVE  PlaceInv(d)'
    BY <2>1 DEF AnswerInv, StepOf, PlaceInv
  <2> QED
    BY <2>1 DEF StepOf
<1>2. \A d \in good : d \in good'
  BY DEF StepOf, TypeInv, TypeOK
<1>3. KeyOf[c] \in Key
  BY DEF Key
<1>4. ASSUME NEW k \in Key, cached'[k] # NoCall
      PROVE  cached'[k] \in good' /\ KeyOf[cached'[k]] = k /\ caching'[cached'[k]]
  <2>1. CASE cached'[k] = cached[k]
    <3>1. cached[k] \in good /\ KeyOf[cached[k]] = k /\ caching[cached[k]]
      BY <1>4, <2>1 DEF AnswerInv, SharedAnswersAreGood
    <3>2. cached[k] \in Call
      BY <3>1 DEF TypeInv, TypeOK
    <3>3. caching'[cached[k]] = caching[cached[k]]
      BY <3>1, <3>2 DEF StepOf
    <3> QED
      BY <1>2, <2>1, <3>1, <3>3
  <2>2. CASE cached'[k] # cached[k]
    <3>1. cached'[k] = c /\ k = KeyOf[c] /\ c \in good /\ caching[c]
      BY <1>3, <2>2 DEF StepOf, TypeInv, TypeOK
    <3> QED
      BY <1>2, <3>1 DEF StepOf
  <2> QED
    BY <2>1, <2>2
<1>5. ASSUME NEW d \in Call, answer'[d] \notin {d, NoCall}
      PROVE  answer'[d] \in good' /\ KeyOf[answer'[d]] = KeyOf[d]
  <2>1. CASE answer'[d] = answer[d]
    BY <1>2, <1>5, <2>1 DEF AnswerInv, SharedAnswersAreGood
  <2>2. CASE d = c /\ answer'[d] = cached[KeyOf[c]]
    BY <1>2, <1>3, <1>5, <2>2 DEF AnswerInv, SharedAnswersAreGood
  <2> QED
    BY <1>5, <2>1, <2>2 DEF StepOf
<1>6. ASSUME NEW d \in Call, NEW status \in {"hit", "miss", "bypass", "failed"},
             <<d, status>> \in ledger'
      PROVE  /\ at'[d] \in Booked /\ RowIsTrue(d, status)'
             /\ \A other : <<d, other>> \in ledger' => other = status
  <2>1. CASE d # c
    <3>1. \A other : <<d, other>> \in ledger' <=> <<d, other>> \in ledger
      BY <2>1 DEF StepOf
    <3>2. /\ at[d] \in Booked /\ RowIsTrue(d, status)
          /\ \A other : <<d, other>> \in ledger => other = status
      BY <1>6, <3>1 DEF AnswerInv
    <3> QED
      BY <2>1, <3>1, <3>2 DEF StepOf, RowIsTrue
  <2>2. CASE d = c /\ ledger' = ledger
    <3>1. /\ at[c] \in Booked /\ RowIsTrue(c, status)
          /\ \A other : <<c, other>> \in ledger => other = status
      BY <1>6, <2>2 DEF AnswerInv
    <3>2. at'[c] \in Booked /\ answer'[c] = answer[c] /\ (c \in good' <=> c \in good)
      BY <2>2, <3>1 DEF StepOf
    <3> QED
      BY <2>2, <3>1, <3>2 DEF RowIsTrue
  <2>3. CASE d = c /\ ledger' # ledger
    <3>1. PICK new \in {"hit", "miss", "bypass", "failed"} :
            /\ ledger' = ledger \cup {<<c, new>>}
            /\ at[c] \notin Booked /\ at'[c] \in Booked
            /\ RowIsTrue(c, new)'
      BY <2>3 DEF StepOf
    <3>2. \A other : <<c, other>> \notin ledger
      BY <3>1 DEF AnswerInv, TypeInv, TypeOK
    <3> QED
      BY <1>6, <2>3, <3>1, <3>2
  <2> QED
    BY <2>1, <2>2, <2>3
<1> QED
  BY <1>1, <1>4, <1>5, <1>6 DEF AnswerInv, SharedAnswersAreGood

\* The variables that the invariant is about are functions of the calls and the keys.
LEMMA CallFunctions ==
  ASSUME TypeInv
  PROVE  /\ at \in [Call -> At] /\ answer \in [Call -> Call \cup {NoCall}]
         /\ caching \in [Call -> BOOLEAN] /\ cached \in [Key -> Call \cup {NoCall}]
         /\ good \subseteq Call /\ NoCall \notin Call
BY LlmCallAssumption DEF TypeInv, TypeOK

\* A call without an answer moves, and may change its mind about the cache.
LEMMA UnansweredMoves ==
  ASSUME TypeInv, TypeInv', AnswerInv, NEW c \in Call, at[c] \in Unanswered,
         NEW l \in Unanswered \cup {"error"}, at' = [at EXCEPT ![c] = l],
         answer' = answer, good' = good, cached' = cached, ledger' = ledger,
         caching' = caching \/ \E b : caching' = [caching EXCEPT ![c] = b]
  PROVE  AnswerInv'
<1>1. PlaceInv(c)
  BY DEF AnswerInv
<1>2. at'[c] = l /\ \A d \in Call \ {c} : at'[d] = at[d] /\ caching'[d] = caching[d]
  BY CallFunctions
<1>3. c \notin good
  BY <1>1, CallFunctions DEF PlaceInv
<1>4. PlaceInv(c)'
  BY <1>1, <1>2, <1>3 DEF PlaceInv, Unanswered
<1>5. at[c] \notin Booked
  BY DEF Unanswered, Booked
<1>6. StepOf(c)
  BY <1>2, <1>3, <1>4, <1>5 DEF StepOf
<1> QED
  BY <1>6, StepKeeps

\* preflight_check, the lock, the wait and the router's failures decide no answer.
LEMMA AnswerInvBefore ==
  ASSUME TypeInv, TypeInv', AnswerInv, NEW c \in Call,
         \/ Begin(c) \/ CheckBucket(c) \/ RecordDenial(c)
         \/ \E s \in Session : TryAcquireLock(c, s)
         \/ WaitTimesOut(c) \/ StatementFails(c) \/ EnterRouter(c)
         \/ \E retryable \in BOOLEAN : AttemptFails(c, retryable)
  PROVE  AnswerInv'
<1>1. at[c] \in Unanswered
  BY DEF Begin, CheckBucket, RecordDenial, TryAcquireLock, WaitTimesOut, StatementFails,
         EnterRouter, AttemptFails, Unanswered
<1>2. /\ answer' = answer /\ good' = good /\ cached' = cached /\ ledger' = ledger
      /\ caching' = caching \/ \E b : caching' = [caching EXCEPT ![c] = b]
  BY DEF Begin, CheckBucket, RecordDenial, TryAcquireLock, WaitTimesOut, StatementFails,
         EnterRouter, AttemptFails, localVars
<1>3. \E l \in Unanswered \cup {"error"} : at' = [at EXCEPT ![c] = l]
  <2> USE DEF Goto, Unanswered
  <2>1. CASE Begin(c) \/ CheckBucket(c)
    BY <2>1 DEF Begin, CheckBucket, AfterPreflight
  <2>2. CASE RecordDenial(c) \/ \E s \in Session : TryAcquireLock(c, s)
    BY <2>2 DEF RecordDenial, TryAcquireLock
  <2>3. CASE WaitTimesOut(c) \/ StatementFails(c) \/ EnterRouter(c)
    BY <2>3 DEF WaitTimesOut, StatementFails, EnterRouter
  <2>4. CASE \E retryable \in BOOLEAN : AttemptFails(c, retryable)
    <3>1. at' = at \/ at' = [at EXCEPT ![c] = "recordFailure"]
      BY <2>4 DEF AttemptFails
    <3>2. at = [at EXCEPT ![c] = at[c]]
      BY CallFunctions
    <3> QED
      BY <1>1, <3>1, <3>2
  <2> QED
    BY <2>1, <2>2, <2>3, <2>4
<1> QED
  BY <1>1, <1>2, <1>3, UnansweredMoves

\* The cache answers: never with the response of the very call that asks.
LEMMA AnswerInvCache ==
  ASSUME TypeInv, TypeInv', AnswerInv, NEW c \in Call, Lookup(c) \/ WaitFinds(c)
  PROVE  AnswerInv'
<1>1. /\ at[c] \in {"lookup", "wait"}
      /\ good' = good /\ cached' = cached /\ ledger' = ledger /\ caching' = caching
      /\ answer' = [answer EXCEPT ![c] = cached[KeyOf[c]]]
      /\ at' = [at EXCEPT ![c] = IF cached[KeyOf[c]] # NoCall THEN "recordHit" ELSE "lock"]
  BY DEF Lookup, WaitFinds, Goto
<1>2. PlaceInv(c) /\ KeyOf[c] \in Key
  BY DEF AnswerInv, Key
<1>3. c \notin good
  BY <1>1, <1>2, CallFunctions DEF PlaceInv, Unanswered
<1>4. cached[KeyOf[c]] # c
  BY <1>2, <1>3, CallFunctions DEF AnswerInv, SharedAnswersAreGood
<1>5. /\ answer'[c] = cached[KeyOf[c]]
      /\ at'[c] = IF cached[KeyOf[c]] # NoCall THEN "recordHit" ELSE "lock"
      /\ \A d \in Call \ {c} : at'[d] = at[d] /\ answer'[d] = answer[d]
  BY <1>1, CallFunctions
<1>6. PlaceInv(c)'
  BY <1>1, <1>3, <1>4, <1>5 DEF PlaceInv, Unanswered
<1>7. StepOf(c)
  BY <1>1, <1>3, <1>5, <1>6 DEF StepOf, Booked
<1> QED
  BY <1>7, StepKeeps

\* A provider answers, and only a response that passed the contract goes to the store.
LEMMA AnswerInvProvider ==
  ASSUME TypeInv, TypeInv', AnswerInv, NEW c \in Call, NEW valid \in BOOLEAN,
         ProviderAnswers(c, valid)
  PROVE  AnswerInv'
<1>1. /\ at[c] = "provider"
      /\ cached' = cached /\ ledger' = ledger /\ caching' = caching
      /\ answer' = [answer EXCEPT ![c] = c]
      /\ at' = [at EXCEPT ![c] = IF caching[c] /\ valid THEN "store" ELSE "recordUse"]
      /\ good' = IF valid THEN good \cup {c} ELSE good
  BY DEF ProviderAnswers, Goto
<1>2. c \notin good
  BY <1>1, CallFunctions DEF AnswerInv, PlaceInv, Unanswered
<1>3. /\ answer'[c] = c
      /\ at'[c] = IF caching[c] /\ valid THEN "store" ELSE "recordUse"
      /\ \A d \in Call \ {c} : at'[d] = at[d] /\ answer'[d] = answer[d]
  BY <1>1, CallFunctions
<1>4. PlaceInv(c)'
  BY <1>1, <1>3 DEF PlaceInv, Unanswered
<1>5. StepOf(c)
  BY <1>1, <1>2, <1>3, <1>4 DEF StepOf, Booked
<1> QED
  BY <1>5, StepKeeps

\* Storing, booking, charging and releasing change no answer; a row is booked once.
LEMMA AnswerInvAfter ==
  ASSUME TypeInv, TypeInv', AnswerInv, NEW c \in Call,
         \/ Store(c) \/ RecordHit(c) \/ RecordUse(c) \/ RecordUsage(c) \/ RecordFailure(c)
         \/ \E s \in Session : ReleaseLock(c, s)
  PROVE  AnswerInv'
<1>1. PlaceInv(c)
  BY DEF AnswerInv
<1>2. answer' = answer /\ good' = good /\ caching' = caching
  BY DEF Store, RecordHit, RecordUse, RecordUsage, RecordFailure, ReleaseLock, localVars
<1>3. ASSUME NEW l, at' = [at EXCEPT ![c] = l]
      PROVE  at'[c] = l /\ \A d \in Call \ {c} : at'[d] = at[d]
  BY <1>3, CallFunctions
<1>4. CASE Store(c)
  <2>1. /\ at[c] = "store" /\ at' = [at EXCEPT ![c] = "recordUse"] /\ ledger' = ledger
        /\ cached' = cached \/ cached' = [cached EXCEPT ![KeyOf[c]] = c]
    BY <1>4 DEF Store, Goto
  <2>2. at'[c] = "recordUse" /\ \A d \in Call \ {c} : at'[d] = at[d]
    BY <1>3, <2>1
  <2>3. PlaceInv(c)'
    BY <1>1, <1>2, <2>1, <2>2 DEF PlaceInv, Unanswered
  <2>4. StepOf(c)
    BY <1>1, <1>2, <2>1, <2>2, <2>3 DEF StepOf, PlaceInv, Booked
  <2> QED
    BY <2>4, StepKeeps
<1>5. ASSUME NEW l \in Booked, at' = [at EXCEPT ![c] = l], cached' = cached,
             l = "usage" => at[c] \in {"recordUse", "usage"},
             at[c] \in {"recordHit", "recordUse", "usage", "recordFailure", "release"},
             \/ ledger' = ledger
             \/ \E status \in {"hit", "miss", "bypass", "failed"} :
                  ledger' = ledger \cup {<<c, status>>} /\ at[c] \notin Booked
                  /\ RowIsTrue(c, status)
      PROVE  AnswerInv'
  <2>1. at'[c] = l /\ \A d \in Call \ {c} : at'[d] = at[d]
    BY <1>3, <1>5
  <2>2. PlaceInv(c)'
    BY <1>1, <1>2, <1>5, <2>1 DEF PlaceInv, Unanswered, Booked
  <2>3. StepOf(c)
    BY <1>2, <1>5, <2>1, <2>2 DEF StepOf, RowIsTrue
  <2> QED
    BY <2>3, StepKeeps
<1>6. CASE RecordHit(c)
  <2>1. /\ at[c] = "recordHit" /\ at' = [at EXCEPT ![c] = "ok"] /\ cached' = cached
        /\ ledger' = ledger \/ ledger' = ledger \cup {<<c, "hit">>}
    BY <1>6 DEF RecordHit, Goto
  <2>2. RowIsTrue(c, "hit")
    BY <1>1, <2>1 DEF PlaceInv, RowIsTrue
  <2> QED
    BY <1>5, <2>1, <2>2 DEF Booked
<1>7. CASE RecordUse(c)
  <2> DEFINE status == IF c \in good THEN "miss" ELSE "bypass"
  <2>1. /\ at[c] = "recordUse" /\ cached' = cached
        /\ ledger' = ledger \/ ledger' = ledger \cup {<<c, status>>}
        /\ \E l \in Booked : at' = [at EXCEPT ![c] = l]
    BY <1>7 DEF RecordUse, Goto, Leave, Booked
  <2>2. RowIsTrue(c, status) /\ status \in {"miss", "bypass"}
    BY <1>1, <2>1 DEF PlaceInv, RowIsTrue
  <2> HIDE DEF status
  <2> QED
    BY <1>5, <2>1, <2>2 DEF Booked
<1>8. CASE RecordUsage(c) \/ \E s \in Session : ReleaseLock(c, s)
  <2>1. /\ at[c] \in {"usage", "release"} /\ cached' = cached /\ ledger' = ledger
        /\ \E l \in Booked : at' = [at EXCEPT ![c] = l] /\ (l = "usage" => at[c] = "usage")
    BY <1>8 DEF RecordUsage, ReleaseLock, Goto, Leave, Booked
  <2> QED
    BY <1>5, <2>1
<1>9. CASE RecordFailure(c)
  <2>1. /\ at[c] = "recordFailure" /\ cached' = cached
        /\ ledger' = ledger \/ ledger' = ledger \cup {<<c, "failed">>}
        /\ at' = [at EXCEPT ![c] = Leave(c)]
    BY <1>9 DEF RecordFailure, Goto
  <2>3. Leave(c) \in Booked \ {"usage"}
    BY DEF Leave, Booked
  <2>2. RowIsTrue(c, "failed")
    BY <1>1, <2>1 DEF PlaceInv, RowIsTrue, Unanswered
  <2> QED
    BY <1>5, <2>1, <2>2, <2>3 DEF Booked
<1> QED
  BY <1>4, <1>6, <1>7, <1>8, <1>9

\* Every step preserves the invariant.
LEMMA AnswerInvNext == TypeInv /\ TypeInv' /\ AnswerInv /\ [Next]_vars => AnswerInv'
<1> SUFFICES ASSUME TypeInv, TypeInv', AnswerInv, [Next]_vars
             PROVE  AnswerInv'
  OBVIOUS
<1>1. ASSUME NEW k \in Key, EntryExpires(k)
      PROVE  AnswerInv'
  <2>1. /\ UNCHANGED <<at, answer, good, caching, ledger>>
        /\ \A j \in Key : cached'[j] = cached[j] \/ cached'[j] = NoCall
    BY <1>1, CallFunctions DEF EntryExpires, localVars
  <2> QED
    BY <2>1 DEF AnswerInv, PlaceInv, SharedAnswersAreGood, RowIsTrue
<1>2. CASE UNCHANGED <<at, answer, good, caching, ledger, cached>>
  BY <1>2 DEF AnswerInv, PlaceInv, SharedAnswersAreGood, RowIsTrue
<1>3. CASE NewWindow \/ \E s \in Session : SessionCloses(s)
  BY <1>2, <1>3 DEF NewWindow, SessionCloses, localVars
<1>4. CASE UNCHANGED vars
  BY <1>2, <1>4 DEF vars, localVars
<1>5. ASSUME NEW c \in Call, Begin(c) \/ CallStep(c) \/ StatementFails(c)
      PROVE  AnswerInv'
  BY <1>5, AnswerInvBefore, AnswerInvCache, AnswerInvProvider, AnswerInvAfter DEF CallStep
<1> QED
  BY <1>1, <1>3, <1>4, <1>5 DEF Next, Settled

\* The types and the answers together.
LEMMA AnswersHold == Spec => [](TypeInv /\ AnswerInv)
BY TypeInvInit, TypeInvNext, AnswerInvInit, AnswerInvNext, PTL DEF Spec

\* Whatever calls, waits, stores and expiries interleave, the cache and the calls it
\* answered hold only responses that passed the contract and were asked for with the
\* same key by a call that was to be cached.
THEOREM SharedAnswers == Spec => []SharedAnswersAreGood
<1>1. AnswerInv => SharedAnswersAreGood
  BY DEF AnswerInv
<1> QED
  BY <1>1, AnswersHold, PTL

\* Every call has at most one row in llm_request_ledger, and the row says truly where
\* its answer came from.
THEOREM LedgerTrue == Spec => []LedgerIsTrue
<1>1. TypeInv /\ AnswerInv => LedgerIsTrue
  <2> SUFFICES ASSUME TypeInv, AnswerInv, NEW e \in ledger
               PROVE  /\ \A f \in ledger : f[1] = e[1] => f = e
                      /\ CASE e[2] = "hit"    -> answer[e[1]] \notin {e[1], NoCall}
                           [] e[2] = "miss"   -> answer[e[1]] = e[1] /\ e[1] \in good
                           [] e[2] = "bypass" -> answer[e[1]] = e[1] /\ e[1] \notin good
                           [] e[2] = "failed" -> answer[e[1]] = NoCall
    BY DEF LedgerIsTrue
  <2>1. \A f \in ledger : /\ f = <<f[1], f[2]>> /\ f[1] \in Call
                          /\ f[2] \in {"hit", "miss", "bypass", "failed"}
    BY DEF TypeInv, TypeOK
  <2>2. RowIsTrue(e[1], e[2]) /\ \A other : <<e[1], other>> \in ledger => other = e[2]
    BY <2>1 DEF AnswerInv
  <2>3. ASSUME NEW f \in ledger, f[1] = e[1]
        PROVE  f = e
    BY <2>1, <2>2, <2>3
  <2> QED
    BY <2>1, <2>2, <2>3 DEF RowIsTrue
<1> QED
  BY <1>1, AnswersHold, PTL

--------------------------------------------------------------------------------
(* The router's circuit.                                                   *)

\* Only a call that is at the provider can close the circuit, and only a closed
\* circuit lets a call get there: an open one that nobody is behind stays open.
LEMMA OpenCircuitStep ==
  ASSUME TypeInv, [Next]_vars, IsCircuitOpen, Unreached
  PROVE  IsCircuitOpen' /\ Unreached'
<1>1. ASSUME NEW c \in Call, Begin(c) \/ CallStep(c) \/ StatementFails(c)
      PROVE  failures' = failures /\ at'[c] # "provider"
                                  /\ \A d \in Call \ {c} : at'[d] = at[d]
  <2>1. at \in [Call -> At] /\ at[c] # "provider"
    BY CallFunctions DEF Unreached
  <2>2. /\ failures' = failures
        /\ \E l : l # "provider" /\ at' = [at EXCEPT ![c] = l]
    <3>1. CASE Begin(c) \/ CheckBucket(c) \/ RecordDenial(c) \/ Lookup(c) \/ StatementFails(c)
      BY <3>1 DEF Begin, CheckBucket, RecordDenial, Lookup, StatementFails, Goto, AfterPreflight
    <3>2. CASE \/ WaitFinds(c) \/ WaitTimesOut(c) \/ RecordHit(c)
               \/ \E s \in Session : TryAcquireLock(c, s)
      BY <3>2 DEF WaitFinds, WaitTimesOut, RecordHit, TryAcquireLock, Goto
    <3>3. CASE EnterRouter(c)
      BY <3>3 DEF EnterRouter, Goto
    <3>4. CASE Store(c) \/ RecordUse(c) \/ RecordUsage(c) \/ RecordFailure(c)
      BY <3>4 DEF Store, RecordUse, RecordUsage, RecordFailure, Goto, Leave
    <3>5. CASE \E s \in Session : ReleaseLock(c, s)
      BY <3>5 DEF ReleaseLock, Goto
    <3> QED
      BY <1>1, <2>1, <3>1, <3>2, <3>3, <3>4, <3>5 DEF CallStep, ProviderAnswers, AttemptFails
  <2> QED
    BY <2>1, <2>2
<1>2. CASE failures' = failures /\ at' = at
  BY <1>2 DEF IsCircuitOpen, Unreached
<1>3. ASSUME NEW k \in Key, EntryExpires(k)
      PROVE  failures' = failures /\ at' = at
  BY <1>3 DEF EntryExpires
<1>4. CASE NewWindow \/ (\E s \in Session : SessionCloses(s)) \/ UNCHANGED vars
  BY <1>2, <1>4 DEF NewWindow, SessionCloses, vars
<1> QED
  BY <1>1, <1>2, <1>3, <1>4 DEF Next, Settled, IsCircuitOpen, Unreached

\* Once consecutive_failures has reached the threshold and the calls that were already
\* at the provider are over, the router never calls a provider again: nothing but a
\* provider's answer resets the counter, and an open circuit keeps everyone from it.
THEOREM CircuitHasNoWayBack == Spec => OpenCircuitStays
<1>1. TypeInv /\ [Next]_vars => [IsCircuitOpen /\ Unreached => IsCircuitOpen' /\ Unreached']_vars
  BY OpenCircuitStep
<1> QED
  BY <1>1, TypeInvInit, TypeInvNext, PTL DEF Spec, OpenCircuitStays

--------------------------------------------------------------------------------
(* The overrun of a rate limit.                                            *)

\* The first of a set of policies is one of them.
LEMMA FirstIsMember ==
  ASSUME NEW S \in SUBSET Policy, S # {}
  PROVE  First(S) \in S
<1> DEFINE Less == {x \in Nat \X Nat : x[1] < x[2]}
<1>1. S \subseteq Nat
  BY LlmCallAssumption DEF Policy
<1>2. IsWellFoundedOn(Less, Nat)
  BY NatLessThanWellFounded DEF OpToRel
<1> HIDE DEF Less
<1>3. PICK p \in S : \A q \in S : ~(<<q, p>> \in Less)
  BY <1>1, <1>2, WFMin
<1>4. ASSUME NEW q \in S
      PROVE  p <= q
  <2>1. p \in Nat /\ q \in Nat /\ ~(<<q, p>> \in Less)
    BY <1>1, <1>3
  <2> QED
    BY <2>1 DEF Less
<1> QED
  BY <1>4 DEF First

\* The policies whose overrun is bounded: those that deny the calls beyond the limit.
Limited == {p \in Policy : PolicyRoute[p] = "interpret" /\ MaxRequests[p] > 0}

Requests(p, w) == bucket[p][w].requests

\* Between a passed preflight_check and the charge.
Passed == {"lookup", "lock", "wait", "circuit", "provider", "store", "recordUse"}

\* The calls that may still charge policy p in the current window: the ones that
\* passed its check and were not charged yet, and the ones that are about to be
\* checked against the counters of an earlier window.
MayCharge(p, c) ==
  /\ p \in Applicable(c)
  /\ \/ at[c] \in Passed
     \/ at[c] = "check" /\ (p \notin todo[c] \/ win[c] < window)
     \/ at[c] = "usage" /\ p \in todo[c]

Uncharged(p) == {c \in Call : MayCharge(p, c)}

\* What has been charged and what may still be charged stay together within the
\* bound: a call passes the check only below the limit, and at most the permitted
\* number of calls is under way at that time.  A new window starts from zero.
BudgetInv ==
  /\ Cardinality(InFlight) <= Permits
  /\ \A c \in Call : /\ win[c] <= window
                     /\ todo[c] \subseteq Applicable(c)
                     /\ at[c] = "usage" => todo[c] # {}
  /\ \A p \in Limited : \A w \in Window : w > window => Requests(p, w) = 0
  /\ \A p \in Limited :
       Requests(p, window) + Cardinality(Uncharged(p)) < MaxRequests[p] + Permits
  /\ OverrunIsBounded

\* The sets of calls that are counted are finite, and who may charge is under way.
LEMMA Counted ==
  ASSUME NEW p \in Limited
  PROVE  /\ IsFiniteSet(InFlight) /\ IsFiniteSet(InFlight')
         /\ IsFiniteSet(Uncharged(p)) /\ IsFiniteSet(Uncharged(p)')
         /\ Cardinality(Uncharged(p)) \in Nat /\ Cardinality(Uncharged(p)') \in Nat
         /\ Cardinality(InFlight) \in Nat /\ Cardinality(InFlight') \in Nat
         /\ Cardinality(Uncharged(p)) <= Cardinality(InFlight)
         /\ Cardinality(Uncharged(p)') <= Cardinality(InFlight')
<1>1. /\ InFlight \in SUBSET Call /\ InFlight' \in SUBSET Call
      /\ Uncharged(p) \in SUBSET InFlight /\ Uncharged(p)' \in SUBSET InFlight'
  BY DEF InFlight, Uncharged, MayCharge, Passed, Ended
<1>2. IsFiniteSet(InFlight) /\ IsFiniteSet(InFlight')
  BY <1>1, FS_Subset, LlmCallAssumption
<1> QED
  BY <1>1, <1>2, FS_Subset, FS_CardinalityType

\* The first state satisfies the invariant.
LEMMA BudgetInvInit == Init => BudgetInv
<1> SUFFICES ASSUME Init
             PROVE  BudgetInv
  OBVIOUS
<1>1. InFlight = {} /\ \A p : Uncharged(p) = {}
  BY DEF Init, InFlight, Uncharged, MayCharge, Passed, Ended
<1>2. \A p \in Policy, w \in Window : Requests(p, w) = 0
  BY DEF Init, Requests, EmptyBucket
<1>3. window \in Window /\ 0 \in Window
  BY LlmCallAssumption DEF Init, Window
<1>4. OverrunIsBounded
  BY <1>2, LlmCallAssumption DEF OverrunIsBounded, Requests
<1>5. Permits \in Nat \ {0} /\ \A p \in Limited : p \in Policy /\ MaxRequests[p] \in Nat
  BY LlmCallAssumption DEF Limited
<1>6. Cardinality({}) = 0
  BY FS_EmptySet
<1>7. Cardinality(InFlight) <= Permits
  BY <1>1, <1>5, <1>6
<1>8. \A c \in Call : /\ win[c] <= window /\ todo[c] \subseteq Applicable(c)
                      /\ at[c] = "usage" => todo[c] # {}
  BY DEF Init
<1>9. \A p \in Limited :
        Requests(p, window) + Cardinality(Uncharged(p)) < MaxRequests[p] + Permits
  <2> SUFFICES ASSUME NEW p \in Limited
               PROVE  Requests(p, window) + Cardinality(Uncharged(p)) < MaxRequests[p] + Permits
    OBVIOUS
  <2>1. Requests(p, window) = 0 /\ Uncharged(p) = {} /\ MaxRequests[p] \in Nat
    BY <1>1, <1>2, <1>3, <1>5
  <2> QED
    BY <1>5, <1>6, <2>1
<1>10. \A p \in Limited : \A w \in Window : w > window => Requests(p, w) = 0
  BY <1>2, <1>5
<1> QED
  BY <1>4, <1>7, <1>8, <1>9, <1>10 DEF BudgetInv

\* A step of one call that charges nothing preserves the invariant, if the call comes
\* to be one that may charge only while the limit is not reached.
LEMMA UnchargedStep ==
  ASSUME TypeInv, TypeInv', BudgetInv, NEW c \in Call,
         \A d \in Call \ {c} : at'[d] = at[d] /\ todo'[d] = todo[d] /\ win'[d] = win[d],
         window' = window,
         \A p \in Policy, w \in Window : Requests(p, w)' = Requests(p, w),
         Cardinality(InFlight') <= Permits,
         win'[c] <= window, todo'[c] \subseteq Applicable(c),
         at'[c] = "usage" => todo'[c] # {},
         \A p \in Limited : MayCharge(p, c)' => \/ MayCharge(p, c)
                                                \/ Requests(p, window) + 1 <= MaxRequests[p]
  PROVE  BudgetInv'
<1>1. \A p \in Limited : /\ p \in Policy /\ MaxRequests[p] \in Nat /\ window \in Window
                         /\ \A w \in Window : Requests(p, w) \in Nat
  BY LlmCallAssumption DEF Limited, TypeInv, TypeOK, Requests
<1>2. ASSUME NEW p \in Limited
      PROVE  Requests(p, window) + Cardinality(Uncharged(p)') < MaxRequests[p] + Permits
  <2>1. Permits \in Nat
    BY LlmCallAssumption
  <2>2. CASE Requests(p, window) + 1 <= MaxRequests[p]
    BY <1>1, <2>1, <2>2, Counted
  <2>3. CASE MayCharge(p, c)' => MayCharge(p, c)
    <3>1. \A d \in Call \ {c} : MayCharge(p, d)' <=> MayCharge(p, d)
      BY DEF MayCharge, Applicable, Route
    <3>2. Uncharged(p)' \in SUBSET Uncharged(p)
      BY <2>3, <3>1 DEF Uncharged
    <3>3. Cardinality(Uncharged(p)') <= Cardinality(Uncharged(p))
      BY <3>2, Counted, FS_Subset
    <3> QED
      BY <1>1, <2>1, <3>3, Counted DEF BudgetInv
  <2> QED
    BY <2>2, <2>3
<1>3. OverrunIsBounded'
  BY DEF BudgetInv, OverrunIsBounded, Requests
<1>4. \A p \in Limited : \A w \in Window : w > window' => Requests(p, w)' = 0
  BY <1>1 DEF BudgetInv
<1>5. \A d \in Call : /\ win'[d] <= window'
                      /\ todo'[d] \subseteq Applicable(d)
                      /\ at'[d] = "usage" => todo'[d] # {}
  BY DEF BudgetInv
<1>6. \A p \in Limited : Requests(p, window)' = Requests(p, window)
  BY <1>1 DEF Requests
<1> QED
  BY <1>2, <1>3, <1>4, <1>5, <1>6 DEF BudgetInv

\* A move that leaves the loops, the window and the charges alone, of a call that was
\* under way: it passes no check by it.
Move(c) ==
  /\ c \in InFlight
  /\ \/ at' = at
     \/ \E l \in At : /\ at' = [at EXCEPT ![c] = l]
                      /\ l \notin {"check", "usage"}
                      /\ l \in Passed => \/ at[c] \in Passed
                                         \/ Route(c) # "interpret"
  /\ todo' = todo /\ win' = win /\ window' = window
  /\ \A p \in Policy, w \in Window : bucket'[p][w].requests = bucket[p][w].requests

\* The number of calls under way does not grow when one of them moves on.
LEMMA StillUnderWay ==
  ASSUME BudgetInv, NEW c \in InFlight, \A d \in Call \ {c} : at'[d] = at[d]
  PROVE  Cardinality(InFlight') <= Permits
<1>1. InFlight' \in SUBSET InFlight /\ InFlight \in SUBSET Call
  BY DEF InFlight
<1>2. IsFiniteSet(InFlight)
  BY <1>1, FS_Subset, LlmCallAssumption
<1>3. /\ Cardinality(InFlight') <= Cardinality(InFlight)
      /\ Cardinality(InFlight') \in Nat /\ Cardinality(InFlight) \in Nat
  BY <1>1, <1>2, FS_Subset, FS_CardinalityType
<1> QED
  BY <1>3, LlmCallAssumption DEF BudgetInv

\* A limited policy applies to the calls of interpret alone.
LEMMA LimitedRoute ==
  ASSUME NEW c \in Call, NEW p \in Limited, p \in Applicable(c)
  PROVE  Route(c) = "interpret"
BY DEF Limited, Applicable, Route

\* Such a move preserves the invariant.
LEMMA MoveKeeps ==
  ASSUME TypeInv, TypeInv', BudgetInv, NEW c \in Call, Move(c)
  PROVE  BudgetInv'
<1>1. at \in [Call -> At] /\ \A d \in Call \ {c} : at'[d] = at[d]
  BY DEF Move, TypeInv, TypeOK
<1>2. Cardinality(InFlight') <= Permits
  BY <1>1, StillUnderWay DEF Move
<1>3. ASSUME NEW p \in Limited, MayCharge(p, c)'
      PROVE  MayCharge(p, c)
  <2>1. p \in Applicable(c) /\ Route(c) = "interpret"
    BY <1>3, LimitedRoute DEF MayCharge, Applicable, Route
  <2>2. todo'[c] = todo[c] /\ win'[c] = win[c] /\ window' = window
    BY DEF Move
  <2>3. CASE at' = at
    BY <1>3, <2>1, <2>2, <2>3 DEF MayCharge
  <2>4. ASSUME NEW l \in At, at' = [at EXCEPT ![c] = l], l \notin {"check", "usage"},
               l \in Passed => at[c] \in Passed \/ Route(c) # "interpret"
        PROVE  MayCharge(p, c)
    <3>1. at'[c] = l
      BY <1>1, <2>4
    <3> QED
      BY <1>3, <2>1, <2>4, <3>1 DEF MayCharge
  <2> QED
    BY <2>3, <2>4 DEF Move
<1>4. /\ win'[c] <= window /\ todo'[c] \subseteq Applicable(c)
      /\ at'[c] = "usage" => todo'[c] # {}
  BY <1>1 DEF Move, BudgetInv
<1>5. \A p \in Policy, w \in Window : Requests(p, w)' = Requests(p, w)
  BY DEF Move, Requests
<1> QED
  BY <1>1, <1>2, <1>3, <1>4, <1>5, UnchargedStep DEF Move

\* What the steps that neither check nor charge have in common.
LEMMA Moves ==
  ASSUME TypeInv, NEW c \in Call,
         \/ RecordDenial(c) \/ Lookup(c) \/ WaitFinds(c) \/ WaitTimesOut(c)
         \/ RecordHit(c) \/ EnterRouter(c) \/ Store(c) \/ RecordFailure(c)
         \/ StatementFails(c)
         \/ \E s \in Session : TryAcquireLock(c, s) \/ ReleaseLock(c, s)
         \/ \E b \in BOOLEAN : ProviderAnswers(c, b) \/ AttemptFails(c, b)
  PROVE  Move(c)
<1>1. at \in [Call -> At]
  BY DEF TypeInv, TypeOK
<1>2. CASE RecordDenial(c)
  <2> DEFINE p == First(todo[c])
  <2>1. /\ bucket' = [bucket EXCEPT ![p][win[c]].denied = @ + 1]
        /\ at[c] = "deny"
        /\ \E l \in At : /\ at' = [at EXCEPT ![c] = l]
                         /\ l \notin {"check", "usage"}
                         /\ l \in Passed => Route(c) # "interpret"
        /\ todo' = todo /\ win' = win /\ window' = window
    BY <1>2 DEF RecordDenial, Goto, At, Passed, Ended
  <2> HIDE DEF p
  <2>2. bucket \in Buckets /\ win[c] \in Window
    BY DEF TypeInv, TypeOK, Buckets, Counters
  <2>3. \A q \in Policy, v \in Window : bucket'[q][v].requests = bucket[q][v].requests
    BY <2>1, <2>2, DenialEffect
  <2> QED
    BY <2>1, <2>3 DEF Move, InFlight, Ended
<1>3. CASE Lookup(c) \/ WaitFinds(c) \/ WaitTimesOut(c) \/ RecordHit(c) \/ StatementFails(c)
  <2>1. /\ at[c] \notin Ended \cup {"idle"}
        /\ \E l \in At : /\ at' = [at EXCEPT ![c] = l]
                         /\ l \notin {"check", "usage"}
                         /\ l \in Passed => at[c] \in Passed
        /\ todo' = todo /\ win' = win /\ window' = window /\ bucket' = bucket
    BY <1>3 DEF Lookup, WaitFinds, WaitTimesOut, RecordHit, StatementFails, Goto, At,
                Passed, Ended, localVars, budgetVars
  <2> QED
    BY <2>1 DEF Move, InFlight
<1>4. CASE EnterRouter(c) \/ Store(c) \/ RecordFailure(c)
  <2>1. /\ at[c] \notin Ended \cup {"idle"}
        /\ \E l \in At : /\ at' = [at EXCEPT ![c] = l]
                         /\ l \notin {"check", "usage"}
                         /\ l \in Passed => at[c] \in Passed
        /\ todo' = todo /\ win' = win /\ window' = window /\ bucket' = bucket
    BY <1>4 DEF EnterRouter, Store, RecordFailure, Leave, Goto, At, Passed, Ended,
                localVars, budgetVars
  <2> QED
    BY <2>1 DEF Move, InFlight
<1>5. ASSUME NEW s \in Session, TryAcquireLock(c, s) \/ ReleaseLock(c, s)
      PROVE  Move(c)
  <2>1. /\ at[c] \notin Ended \cup {"idle"}
        /\ \E l \in At : /\ at' = [at EXCEPT ![c] = l]
                         /\ l \notin {"check", "usage"}
                         /\ l \in Passed => at[c] \in Passed
        /\ todo' = todo /\ win' = win /\ window' = window /\ bucket' = bucket
    BY <1>5 DEF TryAcquireLock, ReleaseLock, Goto, At, Passed, Ended, budgetVars
  <2> QED
    BY <2>1 DEF Move, InFlight
<1>6. ASSUME NEW b \in BOOLEAN, ProviderAnswers(c, b) \/ AttemptFails(c, b)
      PROVE  Move(c)
  <2>1. /\ at[c] \notin Ended \cup {"idle"}
        /\ \/ at' = at
           \/ \E l \in At : /\ at' = [at EXCEPT ![c] = l]
                            /\ l \notin {"check", "usage"}
                            /\ l \in Passed => at[c] \in Passed
        /\ todo' = todo /\ win' = win /\ window' = window /\ bucket' = bucket
    BY <1>6 DEF ProviderAnswers, AttemptFails, Goto, At, Passed, Ended, budgetVars
  <2> QED
    BY <2>1 DEF Move, InFlight
<1> QED
  BY <1>2, <1>3, <1>4, <1>5, <1>6

\* A call begins: one more is under way, and it has passed no check yet, or no policy
\* applies to it.
LEMMA BeginKeeps ==
  ASSUME TypeInv, TypeInv', BudgetInv, NEW c \in Call, Begin(c)
  PROVE  BudgetInv'
<1>1. /\ at[c] = "idle"
      /\ Cardinality(InFlight) < Permits
      /\ win' = [win EXCEPT ![c] = window]
      /\ todo' = [todo EXCEPT ![c] = Applicable(c)]
      /\ \E l : /\ at' = [at EXCEPT ![c] = l]
                /\ l # "usage"
                /\ l \in Passed => Applicable(c) = {}
      /\ bucket' = bucket /\ window' = window
  <2> DEFINE l == IF Applicable(c) = {} THEN AfterPreflight(c) ELSE "check"
  <2>1. /\ l # "usage"
        /\ l \in Passed => Applicable(c) = {}
    BY DEF AfterPreflight, Passed
  <2>2. /\ at[c] = "idle"
        /\ Cardinality(InFlight) < Permits
        /\ win' = [win EXCEPT ![c] = window]
        /\ todo' = [todo EXCEPT ![c] = Applicable(c)]
        /\ at' = [at EXCEPT ![c] = l]
        /\ bucket' = bucket /\ window' = window
    BY DEF Begin, Goto, budgetVars
  <2> HIDE DEF l
  <2> QED
    BY <2>1, <2>2
<1>2. /\ at \in [Call -> At] /\ todo \in [Call -> SUBSET Policy]
      /\ win \in [Call -> Window] /\ window \in Window
  BY DEF TypeInv, TypeOK
<1>3. /\ \A d \in Call \ {c} : at'[d] = at[d] /\ todo'[d] = todo[d] /\ win'[d] = win[d]
      /\ win'[c] = window /\ todo'[c] = Applicable(c)
      /\ at'[c] # "usage" /\ (at'[c] \in Passed => Applicable(c) = {})
  BY <1>1, <1>2
<1>4. window <= window /\ ~(window < window)
  BY <1>2, LlmCallAssumption DEF Window
<1>5. Cardinality(InFlight') <= Permits
  <2>1. InFlight' \in SUBSET (InFlight \cup {c}) /\ InFlight \in SUBSET Call
    BY <1>3 DEF InFlight
  <2>2. IsFiniteSet(InFlight)
    BY <2>1, FS_Subset, LlmCallAssumption
  <2>3. c \notin InFlight
    BY <1>1 DEF InFlight
  <2>4. /\ IsFiniteSet(InFlight \cup {c})
        /\ Cardinality(InFlight \cup {c}) = Cardinality(InFlight) + 1
    BY <2>2, <2>3, FS_AddElement
  <2>5. /\ Cardinality(InFlight') <= Cardinality(InFlight \cup {c})
        /\ Cardinality(InFlight') \in Nat /\ Cardinality(InFlight) \in Nat
    BY <2>1, <2>2, <2>4, FS_Subset, FS_CardinalityType
  <2> QED
    BY <1>1, <2>4, <2>5, LlmCallAssumption
<1>6. ASSUME NEW p \in Limited
      PROVE  ~MayCharge(p, c)'
  <2>1. p \in Applicable(c)' <=> p \in Applicable(c)
    BY DEF Applicable, Route
  <2> QED
    BY <1>1, <1>3, <1>4, <2>1 DEF MayCharge
<1>7. \A p \in Policy, w \in Window : Requests(p, w)' = Requests(p, w)
  BY <1>1 DEF Requests
<1> QED
  BY <1>1, <1>3, <1>4, <1>5, <1>6, <1>7, UnchargedStep

\* A turn of preflight_check's loop: the call passes a policy's check only below the
\* limit of the window it looks at.
LEMMA CheckKeeps ==
  ASSUME TypeInv, TypeInv', BudgetInv, NEW c \in Call, CheckBucket(c)
  PROVE  BudgetInv'
<1> DEFINE first == First(todo[c])
<1>1. /\ at[c] = "check"
      /\ \/ at' = [at EXCEPT ![c] = "deny"] /\ todo' = todo
         \/ /\ ~Exhausted(first, win[c])
            /\ todo' = [todo EXCEPT ![c] = todo[c] \ {first}]
            /\ \E l : /\ at' = [at EXCEPT ![c] = l]
                      /\ l # "usage"
                      /\ l \in Passed => todo[c] \ {first} = {}
      /\ win' = win /\ bucket' = bucket /\ window' = window
  BY DEF CheckBucket, Goto, AfterPreflight, Passed, budgetVars
<1> HIDE DEF first
<1>2. /\ at \in [Call -> At] /\ todo \in [Call -> SUBSET Policy]
      /\ win \in [Call -> Window] /\ window \in Window
  BY DEF TypeInv, TypeOK
<1>3. \A d \in Call \ {c} : at'[d] = at[d] /\ todo'[d] = todo[d] /\ win'[d] = win[d]
  BY <1>1, <1>2
<1>4. Cardinality(InFlight') <= Permits
  BY <1>1, <1>3, StillUnderWay DEF InFlight, Ended
<1>5. /\ win'[c] <= window /\ todo'[c] \subseteq Applicable(c)
      /\ at'[c] = "usage" => todo'[c] # {}
  BY <1>1, <1>2 DEF BudgetInv
<1>6. ASSUME NEW p \in Limited, MayCharge(p, c)', ~MayCharge(p, c)
      PROVE  Requests(p, window) + 1 <= MaxRequests[p]
  <2>1. p \in Applicable(c) /\ p \in todo[c] /\ ~(win[c] < window)
    BY <1>1, <1>6 DEF MayCharge, Applicable, Route
  <2>2. win[c] = window
    BY <1>2, <2>1, LlmCallAssumption DEF BudgetInv, Window
  <2>3. at'[c] # "deny" /\ at'[c] # "usage"
    BY <1>1, <1>2, <1>6 DEF MayCharge, Passed
  <2>4. /\ ~Exhausted(first, win[c])
        /\ todo'[c] = todo[c] \ {first}
        /\ at'[c] \in Passed => todo[c] \ {first} = {}
    BY <1>1, <1>2, <2>3
  <2>5. p = first
    <3>1. CASE at'[c] \in Passed
      BY <2>1, <2>4, <3>1
    <3>2. CASE at'[c] = "check"
      BY <1>1, <1>6, <2>1, <2>2, <2>4, <3>2 DEF MayCharge, Passed
    <3> QED
      BY <1>6, <2>3, <3>1, <3>2 DEF MayCharge
  <2>6. MaxRequests[p] \in Nat /\ Requests(p, window) \in Nat
    BY <1>2, LlmCallAssumption DEF Limited, TypeInv, TypeOK, Requests
  <2>7. ~(Requests(p, window) + 1 > MaxRequests[p])
    BY <2>2, <2>4, <2>5 DEF Exhausted, Requests
  <2> QED
    BY <2>6, <2>7
<1>7. \A p \in Policy, w \in Window : Requests(p, w)' = Requests(p, w)
  BY <1>1 DEF Requests
<1> QED
  BY <1>1, <1>3, <1>4, <1>5, <1>6, <1>7, UnchargedStep

\* record_completed, before the charges: the call that may charge still may.
LEMMA UseKeeps ==
  ASSUME TypeInv, TypeInv', BudgetInv, NEW c \in Call, RecordUse(c)
  PROVE  BudgetInv'
<1>1. /\ at[c] = "recordUse"
      /\ \E S \in SUBSET Applicable(c) : todo' = [todo EXCEPT ![c] = S]
      /\ \E l : /\ at' = [at EXCEPT ![c] = l]
                /\ l = "usage" => todo'[c] # {}
      /\ win' = win /\ bucket' = bucket /\ window' = window
  <2>1. todo \in [Call -> SUBSET Policy]
    BY DEF TypeInv, TypeOK
  <2> QED
    BY <2>1 DEF RecordUse, Goto, Leave, budgetVars
<1>2. /\ at \in [Call -> At] /\ todo \in [Call -> SUBSET Policy]
      /\ win \in [Call -> Window] /\ window \in Window
  BY DEF TypeInv, TypeOK
<1>3. \A d \in Call \ {c} : at'[d] = at[d] /\ todo'[d] = todo[d] /\ win'[d] = win[d]
  BY <1>1, <1>2
<1>4. Cardinality(InFlight') <= Permits
  BY <1>1, <1>3, StillUnderWay DEF InFlight, Ended
<1>5. /\ win'[c] <= window /\ todo'[c] \subseteq Applicable(c)
      /\ at'[c] = "usage" => todo'[c] # {}
  BY <1>1, <1>2 DEF BudgetInv
<1>6. \A p \in Limited : MayCharge(p, c)' => MayCharge(p, c)
  BY <1>1 DEF MayCharge, Passed, Applicable, Route
<1>7. \A p \in Policy, w \in Window : Requests(p, w)' = Requests(p, w)
  BY <1>1 DEF Requests
<1> QED
  BY <1>1, <1>3, <1>4, <1>5, <1>6, <1>7, UnchargedStep

\* record_usage: what the call charges to a policy, or fails to charge, it no longer
\* may charge.
LEMMA UsageKeeps ==
  ASSUME TypeInv, TypeInv', BudgetInv, NEW c \in Call, RecordUsage(c)
  PROVE  BudgetInv'
<1> DEFINE first == First(todo[c])
<1>1. /\ at[c] = "usage"
      /\ todo' = [todo EXCEPT ![c] = todo[c] \ {first}]
      /\ \E l : /\ at' = [at EXCEPT ![c] = l]
                /\ l \notin Passed \cup {"check"}
                /\ l = "usage" => todo[c] \ {first} # {}
      /\ \/ bucket' = Charged(bucket, first, window, Cost[c])
         \/ bucket' = bucket
      /\ win' = win /\ window' = window
  <2> DEFINE l == IF todo[c] \ {first} = {} THEN Leave(c) ELSE "usage"
  <2>1. /\ l \notin Passed \cup {"check"}
        /\ l = "usage" => todo[c] \ {first} # {}
    BY DEF Leave, Passed
  <2>2. /\ at[c] = "usage"
        /\ todo' = [todo EXCEPT ![c] = todo[c] \ {first}]
        /\ at' = [at EXCEPT ![c] = l]
        /\ \/ bucket' = Charged(bucket, first, window, Cost[c])
           \/ bucket' = bucket
        /\ win' = win /\ window' = window
    BY DEF RecordUsage, Goto, Charged
  <2> HIDE DEF l, first
  <2> QED
    BY <2>1, <2>2
<1>2. /\ at \in [Call -> At] /\ todo \in [Call -> SUBSET Policy]
      /\ win \in [Call -> Window] /\ window \in Window /\ bucket \in Buckets
  BY DEF TypeInv, TypeOK, Buckets, Counters
<1>3. first \in todo[c] /\ first \in Policy
  <2>1. todo[c] \in SUBSET Policy /\ todo[c] # {}
    BY <1>1, <1>2 DEF BudgetInv
  <2> QED
    BY <2>1, FirstIsMember
<1> HIDE DEF first
<1>4. /\ \A d \in Call \ {c} : at'[d] = at[d] /\ todo'[d] = todo[d] /\ win'[d] = win[d]
      /\ todo'[c] = todo[c] \ {first} /\ at'[c] \notin Passed \cup {"check"}
      /\ at'[c] = "usage" => todo'[c] # {}
      /\ win'[c] = win[c]
  BY <1>1, <1>2
<1>5. Cardinality(InFlight') <= Permits
  BY <1>1, <1>4, StillUnderWay DEF InFlight, Ended
<1>6. /\ win'[c] <= window /\ todo'[c] \subseteq Applicable(c)
      /\ at'[c] = "usage" => todo'[c] # {}
  BY <1>4 DEF BudgetInv
<1>7. \A p : MayCharge(p, c)' => MayCharge(p, c) /\ p # first
  BY <1>1, <1>4 DEF MayCharge, Applicable, Route
<1>8. CASE bucket' = bucket
  <2>1. \A p \in Policy, w \in Window : Requests(p, w)' = Requests(p, w)
    BY <1>8 DEF Requests
  <2> QED
    BY <1>1, <1>4, <1>5, <1>6, <1>7, <2>1, UnchargedStep
<1>9. CASE bucket' = Charged(bucket, first, window, Cost[c])
  <2>1. \A q \in Policy, v \in Window :
          Requests(q, v)' = IF q = first /\ v = window THEN Requests(q, v) + 1
                                                       ELSE Requests(q, v)
    <3>1. bucket \in Buckets /\ window \in Window /\ Cost[c] \in Nat
      BY <1>2, LlmCallAssumption
    <3>2. \A q \in Policy, v \in Window :
            bucket'[q][v].requests = IF q = first /\ v = window THEN bucket[q][v].requests + 1
                                                                ELSE bucket[q][v].requests
      BY ONLY <1>9, <3>1, ChargeEffect
    <3>3. \A q, v : Requests(q, v)' = bucket'[q][v].requests
      BY DEF Requests
    <3> QED
      BY <3>2, <3>3 DEF Requests
  <2>2. \A p \in Limited : /\ p \in Policy /\ MaxRequests[p] \in Nat
                           /\ \A w \in Window : Requests(p, w) \in Nat
    BY LlmCallAssumption DEF Limited, TypeInv, TypeOK, Requests
  <2>3. ASSUME NEW p \in Limited
        PROVE  Requests(p, window)' + Cardinality(Uncharged(p)') < MaxRequests[p] + Permits
    <3>1. \A d \in Call \ {c} : MayCharge(p, d)' <=> MayCharge(p, d)
      BY <1>1, <1>4 DEF MayCharge, Applicable, Route
    <3>2. Uncharged(p)' \in SUBSET Uncharged(p)
      BY <1>7, <3>1 DEF Uncharged
    <3>3. CASE p # first
      <4>1. Cardinality(Uncharged(p)') <= Cardinality(Uncharged(p))
        BY <3>2, Counted, FS_Subset
      <4>2. Requests(p, window)' = Requests(p, window)
        BY <1>1, <1>2, <2>1, <2>2, <3>3 DEF Requests
      <4> QED
        BY <1>2, <2>2, <4>1, <4>2, Counted, LlmCallAssumption DEF BudgetInv
    <3>4. CASE p = first
      <4>1. c \in Uncharged(p)
        BY <1>1, <1>3, <3>4 DEF Uncharged, MayCharge, BudgetInv
      <4>2. Uncharged(p)' \in SUBSET (Uncharged(p) \ {c})
        BY <1>7, <3>2, <3>4 DEF Uncharged
      <4>3. /\ IsFiniteSet(Uncharged(p) \ {c})
            /\ Cardinality(Uncharged(p) \ {c}) = Cardinality(Uncharged(p)) - 1
        BY <4>1, Counted, FS_RemoveElement
      <4>4. Cardinality(Uncharged(p)') <= Cardinality(Uncharged(p)) - 1
        BY <4>2, <4>3, FS_Subset
      <4>5. Requests(p, window)' = Requests(p, window) + 1
        BY <1>1, <1>2, <2>1, <2>2, <3>4 DEF Requests
      <4> QED
        BY <1>2, <2>2, <4>4, <4>5, Counted, LlmCallAssumption DEF BudgetInv
    <3> QED
      BY <3>3, <3>4
  <2>4. \A d \in Call : /\ win'[d] <= window'
                        /\ todo'[d] \subseteq Applicable(d)
                        /\ at'[d] = "usage" => todo'[d] # {}
    BY <1>1, <1>4, <1>6 DEF BudgetInv
  <2>5. ASSUME NEW p \in Limited, NEW w \in Window, w > window'
        PROVE  Requests(p, w)' = 0
    <3>1. w # window
      BY <1>1, <1>2, <2>5, LlmCallAssumption DEF Window
    <3> QED
      BY <1>1, <2>1, <2>2, <2>5, <3>1 DEF BudgetInv
  <2>6. ASSUME NEW p \in Limited, NEW w \in Window
        PROVE  bucket'[p][w].requests < MaxRequests[p] + Permits
    <3>1. CASE w = window
      <4>1. Requests(p, window)' = bucket'[p][w].requests
        BY <1>1, <3>1 DEF Requests
      <4>2. Requests(p, window)' \in Nat
        BY <1>1, <1>2, <2>1, <2>2 DEF Requests
      <4> QED
        BY <2>2, <2>3, <4>1, <4>2, Counted, LlmCallAssumption
    <3>2. CASE w # window
      BY <2>1, <2>2, <3>2 DEF BudgetInv, OverrunIsBounded, Limited, Requests
    <3> QED
      BY <3>1, <3>2
  <2>7. OverrunIsBounded'
    BY <2>6 DEF OverrunIsBounded, Limited
  <2>8. \A p \in Limited :
          Requests(p, window)' + Cardinality(Uncharged(p)') < MaxRequests[p] + Permits
    BY <2>3
  <2> QED
    BY <1>5, <2>4, <2>5, <2>7, <2>8 DEF BudgetInv
<1> QED
  BY <1>1, <1>8, <1>9

\* A window begins: its buckets are empty, and at most the calls that are under way
\* may charge them.
LEMMA NewWindowKeeps ==
  ASSUME TypeInv, BudgetInv, NewWindow
  PROVE  BudgetInv'
<1>1. /\ window' = window + 1
      /\ at' = at /\ todo' = todo /\ win' = win /\ bucket' = bucket
  BY DEF NewWindow, localVars
<1>2. /\ window \in Window /\ window' \in Window /\ Window \in SUBSET Nat
      /\ \A c \in Call : win[c] \in Nat
  BY <1>1, LlmCallAssumption DEF TypeInv, TypeOK, NewWindow, Window
<1>3. InFlight' = InFlight
  BY <1>1 DEF InFlight
<1>4. \A c \in Call : /\ win'[c] <= window'
                      /\ todo'[c] \subseteq Applicable(c)
                      /\ at'[c] = "usage" => todo'[c] # {}
  BY <1>1, <1>2 DEF BudgetInv
<1>5. ASSUME NEW p \in Limited, NEW w \in Window, w > window'
      PROVE  Requests(p, w)' = 0
  BY <1>1, <1>2, <1>5 DEF BudgetInv, Requests
<1>6. ASSUME NEW p \in Limited
      PROVE  Requests(p, window)' + Cardinality(Uncharged(p)') < MaxRequests[p] + Permits
  <2>1. Requests(p, window)' = 0
    BY <1>1, <1>2 DEF BudgetInv, Requests
  <2>2. Cardinality(Uncharged(p)') <= Permits
    BY <1>3, Counted, LlmCallAssumption DEF BudgetInv
  <2>3. MaxRequests[p] \in Nat /\ MaxRequests[p] > 0
    BY LlmCallAssumption DEF Limited
  <2> QED
    BY <2>1, <2>2, <2>3, Counted, LlmCallAssumption
<1>7. OverrunIsBounded'
  BY <1>1 DEF BudgetInv, OverrunIsBounded
<1>8. Cardinality(InFlight') <= Permits
  BY <1>3 DEF BudgetInv
<1>9. \A p \in Limited :
        Requests(p, window)' + Cardinality(Uncharged(p)') < MaxRequests[p] + Permits
  BY <1>6
<1> QED
  BY <1>4, <1>5, <1>7, <1>8, <1>9 DEF BudgetInv

\* Every step preserves the invariant.
LEMMA BudgetInvNext ==
  ASSUME TypeInv, BudgetInv, [Next]_vars
  PROVE  BudgetInv'
<1>1. TypeInv'
  BY TypeInvNext
<1>2. ASSUME NEW c \in Call, Begin(c) \/ CallStep(c) \/ StatementFails(c)
      PROVE  BudgetInv'
  BY <1>1, <1>2, BeginKeeps, CheckKeeps, UseKeeps, UsageKeeps, Moves, MoveKeeps DEF CallStep
<1>3. CASE UNCHANGED <<at, todo, win, bucket, window>>
  <2>1. InFlight' = InFlight
    BY <1>3 DEF InFlight
  <2>2. ASSUME NEW p \in Limited
        PROVE  /\ Uncharged(p)' = Uncharged(p)
               /\ \A w \in Window : Requests(p, w)' = Requests(p, w)
               /\ Requests(p, window)' = Requests(p, window)
    BY <1>3 DEF Uncharged, MayCharge, Applicable, Route, Requests
  <2>3. OverrunIsBounded'
    BY <1>3 DEF BudgetInv, OverrunIsBounded
  <2> QED
    BY <1>3, <2>1, <2>2, <2>3 DEF BudgetInv, Applicable, Route
<1>4. ASSUME NEW k \in Key, EntryExpires(k)
      PROVE  BudgetInv'
  BY <1>3, <1>4 DEF EntryExpires, localVars, budgetVars
<1>5. ASSUME NEW s \in Session, SessionCloses(s)
      PROVE  BudgetInv'
  BY <1>3, <1>5 DEF SessionCloses, localVars, budgetVars
<1>6. CASE Settled \/ UNCHANGED vars
  BY <1>3, <1>6 DEF Settled, vars, localVars, budgetVars
<1> QED
  BY <1>2, <1>4, <1>5, <1>6, NewWindowKeeps DEF Next

\* However the checks and the charges of the calls interleave, within a window and
\* across windows, the policies that deny are overrun by less than the number of
\* calls the semaphore permits at a time.
THEOREM OverrunBounded == Spec => []OverrunIsBounded
<1>1. Init => TypeInv /\ BudgetInv
  BY TypeInvInit, BudgetInvInit
<1>2. TypeInv /\ BudgetInv /\ [Next]_vars => (TypeInv /\ BudgetInv)'
  BY TypeInvNext, BudgetInvNext
<1>3. BudgetInv => OverrunIsBounded
  BY DEF BudgetInv
<1> QED
  BY <1>1, <1>2, <1>3, PTL DEF Spec
================================================================================
