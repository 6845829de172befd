----------------------------- MODULE ModelCalls -----------------------------
(***************************************************************************)
(* Questions put to language models (MigrationEngine._call_model): threads *)
(* reserve budget, wait for the adapter's rate limiter, ask, retry, fall   *)
(* back to the next candidate, settle what the answer cost, and record     *)
(* every attempt.  The counters are shared and live in memory; they reach  *)
(* the execution row when run() returns, and are lost in a crash.          *)
(*                                                                         *)
(* Time is relative: slot, until and next count down to the moment they    *)
(* name.  Limiters belong to the Engine, and every run() has a new one.    *)
(***************************************************************************)
EXTENDS Integers, Sequences, FiniteSets

CONSTANTS
    Questions,    \* semantic steps that have to ask
    Workers,      \* threads of the pool
    Adapters,     \* adapter names
    Candidates,   \* the policy's adapter and its fallbacks, in order
    Registered,   \* adapters that are configured
    Permitted,    \* Permitted[q]: those whose provider q's context policy accepts
    MaxAttempts,  \* retry.max_attempts
    RetrySchema,  \* retry.retry_schema_failures
    Errors,       \* Errors[a]: kinds of failure an attempt with adapter a may meet
    Costs,        \* what an answer may cost
    MaxCost,      \* the most it may
    Budget,       \* the cap in money
    MaxCalls,     \* the cap in model calls
    Interval,     \* seconds between two requests of an adapter, 0 for no limit
    MaxRuns,      \* bound: calls of run() and resume() together
    MaxCrashes    \* bound: process crashes

Indices == 1 .. Len(Candidates)
Kinds == {"transport", "schema", "unsupported", "bug"}
States == {"waiting", "choose", "asleep", "stamping", "calling", "returned", "recorded",
           "answered", "failed", "blocked"}
InFlight == {"choose", "asleep", "stamping", "calling", "returned", "recorded"}
Terminal == {"answered", "failed", "blocked"}

ASSUME PolicyAssumption ==
    /\ Candidates \in Seq(Adapters)
    /\ Registered \subseteq Adapters
    /\ Permitted \in [Questions -> SUBSET Adapters]
    /\ MaxAttempts \in Nat
    /\ RetrySchema \in BOOLEAN
    /\ Errors \in [Adapters -> SUBSET Kinds]
ASSUME BudgetAssumption ==
    /\ Budget \in Nat \ {0} /\ MaxCalls \in Nat /\ MaxCost \in Nat
    /\ Costs \subseteq 0 .. MaxCost
ASSUME PoolAssumption ==
    /\ IsFiniteSet(Questions)
    /\ Workers \in Nat \ {0} /\ Interval \in Nat /\ MaxRuns \in Nat /\ MaxCrashes \in Nat

VARIABLES
    row,       \* spent_usd and model_calls of the execution row
    state,     \* where each question stands; "answered" is a row of the cache
    up,        \* a run() is in progress
    spent, calls, \* _spent and _calls, under the budget lock
    cand,      \* the candidate a question is at
    attempt,   \* attempts made with that candidate
    slot,      \* time until an adapter's _next_at
    until,     \* time until a sleeping thread wakes
    next,      \* the _next_at a thread has worked out and not stored yet
    \* History and bounds.
    billed,    \* what the answers cost, whatever the program remembers
    requests,  \* requests of this run, per question and candidate
    rows,      \* attempt rows of this run, per question and candidate
    met,       \* the last failure a question met with each candidate
    cool,      \* time until Interval has passed since a question was last let through
    torn,      \* adapters on whose limiter a thread's store was or will be overwritten
    runs, crashes

budget == <<row, spent, calls, billed>>
limiter == <<slot, until, next, cool, torn>>
trace == <<requests, rows, met>>
bounds == <<runs, crashes>>
vars == <<budget, state, up, cand, attempt, limiter, trace, bounds>>

NoRequests == [q \in Questions |-> [i \in Indices |-> 0]]
Running == {q \in Questions : state[q] \in InFlight}
Adapter(q) == Candidates[cand[q]]

Init ==
    /\ row = [spent |-> 0, calls |-> 0]
    /\ state = [q \in Questions |-> "waiting"]
    /\ up = FALSE
    /\ spent = 0 /\ calls = 0 /\ billed = 0
    /\ cand = [q \in Questions |-> 1]
    /\ attempt = [q \in Questions |-> 0]
    /\ slot = [a \in Adapters |-> 0]
    /\ until = [q \in Questions |-> 0]
    /\ next = [q \in Questions |-> 0]
    /\ cool = [q \in Questions |-> [a \in Adapters |-> 0]]
    /\ torn = {}
    /\ requests = NoRequests
    /\ rows = NoRequests
    /\ met = [q \in Questions |-> [i \in Indices |-> "none"]]
    /\ runs = 0 /\ crashes = 0

-----------------------------------------------------------------------------
\* A new Engine: nobody sleeps, and every adapter is free at once.
NewLimiters ==
    /\ slot' = [a \in Adapters |-> 0]
    /\ until' = [q \in Questions |-> 0]
    /\ next' = [q \in Questions |-> 0]
    /\ cool' = [q \in Questions |-> [a \in Adapters |-> 0]]
    /\ torn' = {}

\* Every question not in the cache is asked again; the counters are loaded.
Begin ==
    /\ ~up
    /\ runs < MaxRuns
    /\ up' = TRUE
    /\ runs' = runs + 1
    /\ spent' = row.spent
    /\ calls' = row.calls
    /\ state' = [q \in Questions |-> IF state[q] = "answered" THEN "answered" ELSE "waiting"]
    /\ cand' = [q \in Questions |-> 1]
    /\ attempt' = [q \in Questions |-> 0]
    /\ requests' = NoRequests
    /\ rows' = NoRequests
    /\ met' = [q \in Questions |-> [i \in Indices |-> "none"]]
    /\ NewLimiters
    /\ UNCHANGED <<row, billed, crashes>>

\* Mutant: a run in which a question failed leaves the row as it was.
End_Clean ==
    /\ up
    /\ \A q \in Questions : state[q] \in Terminal
    /\ up' = FALSE
    /\ row' = IF \E q \in Questions : state[q] = "failed"
              THEN row ELSE [spent |-> spent, calls |-> calls]
    /\ UNCHANGED <<spent, calls, billed, state, cand, attempt, limiter, trace, bounds>>
\* run() returns and writes the counters to the execution row.
End ==
    /\ up
    /\ \A q \in Questions : state[q] \in Terminal
    /\ up' = FALSE
    /\ row' = [spent |-> spent, calls |-> calls]
    /\ UNCHANGED <<spent, calls, billed, state, cand, attempt, limiter, trace, bounds>>

\* The threads, the counters and the limiters are gone, the cache is not.
Crash ==
    /\ up
    /\ crashes < MaxCrashes
    /\ crashes' = crashes + 1
    /\ up' = FALSE
    /\ state' = [q \in Questions |-> IF state[q] \in InFlight THEN "waiting" ELSE state[q]]
    /\ NewLimiters
    /\ UNCHANGED <<budget, cand, attempt, trace, runs>>

\* Mutant: without the max() of acquire a slot nobody took falls into the past.
Less_Past(n) == n - 1
\* max(nowt, _next_at), seen from now.
Less(n) == IF n > 0 THEN n - 1 ELSE 0

\* A second passes.
Tick ==
    /\ \/ \E a \in Adapters : slot[a] > 0
       \/ \E q \in Questions : until[q] > 0 \/ next[q] > 0
    /\ slot' = [a \in Adapters |-> Less(slot[a])]
    /\ until' = [q \in Questions |-> Less(until[q])]
    /\ next' = [q \in Questions |-> Less(next[q])]
    /\ cool' = [q \in Questions |-> [a \in Adapters |-> Less(cool[q][a])]]
    /\ UNCHANGED <<budget, state, up, cand, attempt, torn, trace, bounds>>

-----------------------------------------------------------------------------
Move(q, where) == state' = [state EXCEPT ![q] = where]

\* Mutants: a cap is compared with <=.
WithinCaps_Late == spent <= Budget /\ calls < MaxCalls
WithinCaps_Calls == spent < Budget /\ calls <= MaxCalls
\* _reserve_budget, under the lock.
WithinCaps == spent < Budget /\ calls < MaxCalls

Reserve(q) ==
    /\ up
    /\ state[q] = "waiting"
    /\ Cardinality(Running) < Workers
    /\ WithinCaps
    /\ calls' = calls + 1
    /\ Move(q, "choose")
    /\ UNCHANGED <<row, spent, billed, up, cand, attempt, limiter, trace, bounds>>

\* Mutant: at the cap on money a question waits instead.
Refuse_Waits(q) ==
    /\ up
    /\ state[q] = "waiting"
    /\ Cardinality(Running) < Workers
    /\ calls >= MaxCalls
    /\ Move(q, "blocked")
    /\ UNCHANGED <<budget, up, cand, attempt, limiter, trace, bounds>>

\* BudgetExceededError: the step is blocked.
Refuse(q) ==
    /\ up
    /\ state[q] = "waiting"
    /\ Cardinality(Running) < Workers
    /\ ~WithinCaps
    /\ Move(q, "blocked")
    /\ UNCHANGED <<budget, up, cand, attempt, limiter, trace, bounds>>

Choosing(q) == up /\ state[q] = "choose" /\ cand[q] \in Indices
Usable(q) == Adapter(q) \in Registered /\ attempt[q] < MaxAttempts

NextCandidate(q) ==
    /\ cand' = [cand EXCEPT ![q] = @ + 1]
    /\ attempt' = [attempt EXCEPT ![q] = 0]

\* The adapter is not configured, or the policy allows no attempt.
Pass(q) ==
    /\ Choosing(q)
    /\ ~Usable(q)
    /\ Adapter(q) \in Registered => Adapter(q) \in Permitted[q]
    /\ NextCandidate(q)
    /\ UNCHANGED <<budget, state, up, limiter, trace, bounds>>

\* check_provider raises: the question is blocked, no fallback is tried.
Forbid(q) ==
    /\ Choosing(q)
    /\ Adapter(q) \in Registered \ Permitted[q]
    /\ Move(q, "blocked")
    /\ UNCHANGED <<budget, up, cand, attempt, limiter, trace, bounds>>

\* RateLimiter.acquire: how long to sleep.
ReadSlot(q) ==
    /\ Choosing(q)
    /\ Usable(q)
    /\ Adapter(q) \in Permitted[q]
    /\ until' = [until EXCEPT ![q] = slot[Adapter(q)]]
    /\ Move(q, "asleep")
    /\ UNCHANGED <<budget, up, cand, attempt, slot, next, cool, torn, trace, bounds>>

\* Mutant: a thread that did not have to wait leaves the slot as it is.
NextSlot_Idle(a) == IF slot[a] = 0 THEN 0 ELSE slot[a] + Interval
\* max(nowt, _next_at) + interval.
NextSlot(a) == slot[a] + Interval

\* Others about to store what they read of the limiter q is at.
Stamping(q) == {p \in Questions \ {q} : state[p] = "stamping" /\ Adapter(p) = Adapter(q)}

\* Awake: the thread is let through now, and reads the limiter again.
StampSlot(q) ==
    /\ up
    /\ state[q] = "asleep"
    /\ until[q] = 0
    /\ next' = [next EXCEPT ![q] = NextSlot(Adapter(q))]
    /\ cool' = [cool EXCEPT ![q][Adapter(q)] = Interval]
    /\ torn' = IF Stamping(q) = {} THEN torn ELSE torn \cup {Adapter(q)}
    /\ Move(q, "stamping")
    /\ UNCHANGED <<budget, up, cand, attempt, slot, until, trace, bounds>>

\* It stores what it worked out, whatever was stored since, and asks.
TakeSlot(q) ==
    /\ up
    /\ state[q] = "stamping"
    /\ slot' = [slot EXCEPT ![Adapter(q)] = next[q]]
    /\ next' = [next EXCEPT ![q] = 0]
    /\ attempt' = [attempt EXCEPT ![q] = @ + 1]
    /\ requests' = [requests EXCEPT ![q][cand[q]] = @ + 1]
    /\ Move(q, "calling")
    /\ UNCHANGED <<budget, up, cand, until, cool, torn, rows, met, bounds>>

Retryable(error) == error = "transport" \/ (error = "schema" /\ RetrySchema)
\* Mutant: a schema failure is never retried.
Retries_Transport(q, error) == error = "transport" /\ attempt[q] < MaxAttempts
Retries(q, error) == Retryable(error) /\ attempt[q] < MaxAttempts

\* Mutant: an unexpected exception of the adapter leaves no attempt row.
FailureRow_Known(q, error) ==
    IF error = "bug" THEN rows ELSE [rows EXCEPT ![q][cand[q]] = @ + 1]
\* _record_attempt of a failure.
FailureRow(q, error) == [rows EXCEPT ![q][cand[q]] = @ + 1]

\* The attempt fails: its row, then again, or on to the next candidate.
FailAttempt(q) ==
    /\ up
    /\ state[q] = "calling"
    /\ \E error \in Errors[Adapter(q)] :
        /\ rows' = FailureRow(q, error)
        /\ met' = [met EXCEPT ![q][cand[q]] = error]
        /\ IF Retries(q, error) THEN UNCHANGED <<cand, attempt>> ELSE NextCandidate(q)
    /\ Move(q, "choose")
    /\ UNCHANGED <<budget, up, limiter, requests, bounds>>

\* An answer: what it cost is settled under the lock.
Answer(q) ==
    \E cost \in Costs :
        /\ up
        /\ state[q] = "calling"
        /\ spent' = spent + cost
        /\ billed' = billed + cost
        /\ Move(q, "returned")
        /\ UNCHANGED <<row, calls, up, cand, attempt, limiter, trace, bounds>>

RecordAnswer(q) ==
    /\ up
    /\ state[q] = "returned"
    /\ rows' = [rows EXCEPT ![q][cand[q]] = @ + 1]
    /\ Move(q, "recorded")
    /\ UNCHANGED <<budget, up, cand, attempt, limiter, requests, met, bounds>>

\* cache_put, back in _ask.
Keep(q) ==
    /\ up
    /\ state[q] = "recorded"
    /\ Move(q, "answered")
    /\ UNCHANGED <<budget, up, cand, attempt, limiter, trace, bounds>>

\* No candidate is left: the step fails.
GiveUp(q) ==
    /\ up
    /\ state[q] = "choose"
    /\ cand[q] \notin Indices
    /\ Move(q, "failed")
    /\ UNCHANGED <<budget, up, cand, attempt, limiter, trace, bounds>>

-----------------------------------------------------------------------------
Ask(q) ==
    \/ Reserve(q) \/ Refuse(q) \/ Pass(q) \/ Forbid(q) \/ ReadSlot(q) \/ StampSlot(q)
    \/ TakeSlot(q) \/ FailAttempt(q) \/ Answer(q) \/ RecordAnswer(q) \/ Keep(q) \/ GiveUp(q)

Next == Begin \/ End \/ Crash \/ Tick \/ \E q \in Questions : Ask(q)

\* Threads go on, adapters time out, and time passes.
Fairness == WF_vars(End) /\ WF_vars(Tick) /\ \A q \in Questions : WF_vars(Ask(q))

Spec == Init /\ [][Next]_vars /\ Fairness

=============================================================================
