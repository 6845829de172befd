------------------------ MODULE ModelCallsProperties ------------------------
(* What asking promises: the caps, the attempts, the limiter.               *)
EXTENDS ModelCalls

\* Every variable keeps to its set.
TypeOK ==
    /\ row \in [spent : Nat, calls : Nat]
    /\ state \in [Questions -> States]
    /\ up \in BOOLEAN
    /\ spent \in Nat /\ calls \in Nat /\ billed \in Nat
    /\ cand \in [Questions -> 1 .. Len(Candidates) + 1]
    /\ attempt \in [Questions -> 0 .. MaxAttempts]
    /\ slot \in [Adapters -> Nat]
    /\ until \in [Questions -> Nat]
    /\ next \in [Questions -> Nat]
    /\ cool \in [Questions -> [Adapters -> Nat]]
    /\ torn \subseteq Adapters
    /\ requests \in [Questions -> [Indices -> Nat]]
    /\ rows \in [Questions -> [Indices -> Nat]]
    /\ met \in [Questions -> [Indices -> Kinds \cup {"none"}]]
    /\ runs \in 0 .. MaxRuns /\ crashes \in 0 .. MaxCrashes

\* FR-EXE-010: once the cap is reached no question is admitted, so what a run
\* knows to have spent exceeds it by less than one answer per thread.
OvershootBounded == spent < Budget + Workers * MaxCost

\* The cap on model calls counts questions; with the retry policy it bounds the
\* requests of a run as well.
CapBoundsRequests ==
    /\ calls <= MaxCalls
    /\ Cardinality({q \in Questions : \E i \in Indices : requests[q][i] > 0}) <= calls
    /\ \A q \in Questions : \A i \in Indices : requests[q][i] <= MaxAttempts

\* FR-LLM-005: every attempt of this run that has come to an end has its row.
EveryAttemptLeavesARow ==
    up => \A q \in Questions : \A i \in Indices :
        requests[q][i] = rows[q][i]
            + (IF state[q] \in {"calling", "returned"} /\ cand[q] = i THEN 1 ELSE 0)

\* A question fails only when every configured candidate was asked as often as
\* the retry policy allows, or met a failure that is not retried.
FailedMeansTried ==
    \A q \in Questions : state[q] = "failed" =>
        \A i \in Indices : Candidates[i] \in Registered =>
            \/ requests[q][i] = MaxAttempts
            \/ met[q][i] \in Kinds /\ ~Retryable(met[q][i])

\* As long as no thread overwrote another's store, the limiter lets a question
\* through to one adapter at least an interval after it last did, although several
\* threads may be woken for one slot.
OwnRequestsSpaced ==
    \A q \in Questions :
        state[q] = "asleep" /\ Adapter(q) \notin torn => until[q] >= cool[q][Adapter(q)]

\* Budgets span resumes: until a process crashes, what an execution counts
\* against its cap is what its answers have cost, in whichever run they came.
MoneyIsCounted ==
    crashes = 0 => billed = (IF up THEN spent ELSE row.spent)

\* What makes these inductive.  A request is made for a candidate, with attempts
\* left; an answer that may still come is paid for in advance; the slot of an
\* adapter is never before the end of a question's own interval; and candidates
\* are left behind only when they are exhausted.
Placed == \A q \in Questions :
    /\ state[q] \in {"asleep", "stamping"} => cand[q] \in Indices /\ attempt[q] < MaxAttempts
    /\ state[q] \in {"calling", "returned"} => cand[q] \in Indices
Unsettled == {q \in Questions : state[q] \in {"choose", "asleep", "stamping", "calling"}}
Reserved ==
    /\ spent + MaxCost * Cardinality(Unsettled) < Budget + Workers * MaxCost
    /\ row.spent < Budget + Workers * MaxCost
OvershootInv == TypeOK /\ Placed /\ Reserved

\* On a limiter that is not torn one thread at most is about to store; what it
\* will store is no earlier than what it replaces, and covers its own interval.
StampsAt(q, a) == state[q] = "stamping" /\ Adapter(q) = a
OneStamps == \A p, q \in Questions : \A a \in Adapters \ torn :
    StampsAt(p, a) /\ StampsAt(q, a) => p = q
SlotCovers == \A q \in Questions : \A a \in Adapters \ torn :
    IF StampsAt(q, a) THEN slot[a] <= next[q] /\ cool[q][a] <= next[q]
    ELSE cool[q][a] <= slot[a]
SpacedInv == TypeOK /\ Placed /\ OneStamps /\ SlotCovers /\ OwnRequestsSpaced

Exhausted(q, i) ==
    Candidates[i] \in Registered =>
        \/ requests[q][i] = MaxAttempts
        \/ met[q][i] \in Kinds /\ ~Retryable(met[q][i])
Fresh(q) == cand[q] = 1 /\ attempt[q] = 0 /\ \A i \in Indices : requests[q][i] = 0
Pursued(q) ==
    /\ \A i \in Indices : i < cand[q] => Exhausted(q, i)
    /\ \A i \in Indices : i = cand[q] => requests[q][i] = attempt[q]
    /\ \A i \in Indices : i > cand[q] => requests[q][i] = 0
Pursuit == \A q \in Questions :
    /\ up /\ state[q] = "waiting" => Fresh(q)
    /\ up /\ state[q] \in InFlight => Pursued(q)
TriedInv == TypeOK /\ Placed /\ Pursuit /\ FailedMeansTried

\* Every question the run has is answered, given up or refused, unless the
\* process stops first.
EveryQuestionEnds ==
    \A q \in Questions : (up /\ state[q] = "waiting") ~> (~up \/ state[q] \in Terminal)
=============================================================================
