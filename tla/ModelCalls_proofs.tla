------------------------- MODULE ModelCalls_proofs -------------------------
(* Proofs about asking: types, the overshoot of the cap, the limiter, and   *)
(* what a failed question has been through.                                 *)
EXTENDS ModelCallsProperties, FiniteSetTheorems, TLAPS

-----------------------------------------------------------------------------
(* Types.                                                                   *)

\* A request is made for a candidate of the policy.
LEMMA CandidateType ==
    ASSUME NEW i \in Indices
    PROVE  Candidates[i] \in Adapters
  BY PolicyAssumption DEF Indices

LEMMA NoRequestsType == NoRequests \in [Questions -> [Indices -> Nat]]
  BY DEF NoRequests

LEMMA NextCandidateType ==
    ASSUME TypeOK, NEW q \in Questions, cand[q] \in Indices, NextCandidate(q)
    PROVE  /\ cand' \in [Questions -> 1 .. Len(Candidates) + 1]
           /\ attempt' \in [Questions -> 0 .. MaxAttempts]
           /\ \A p \in Questions : p # q => cand'[p] = cand[p] /\ attempt'[p] = attempt[p]
<1>1. Len(Candidates) \in Nat /\ MaxAttempts \in Nat
  BY PolicyAssumption
<1>2. cand[q] + 1 \in 1 .. Len(Candidates) + 1 /\ 0 \in 0 .. MaxAttempts
  BY <1>1 DEF Indices
<1> QED BY <1>2 DEF TypeOK, NextCandidate

\* A step of one question, wherever it stands, keeps the types and the places.
LEMMA AskType ==
    ASSUME TypeOK, Placed, NEW q \in Questions, Ask(q)
    PROVE  TypeOK' /\ Placed'
<1> USE DEF TypeOK, Placed, Indices, States, budget, limiter, trace, bounds, Move
<1> Len(Candidates) \in Nat
  BY PolicyAssumption
<1>1. CASE Reserve(q)
  BY <1>1 DEF Reserve
<1>2. CASE Refuse(q)
  BY <1>2 DEF Refuse
<1>3. CASE Pass(q)
  <2>1. /\ cand' \in [Questions -> 1 .. Len(Candidates) + 1]
        /\ attempt' \in [Questions -> 0 .. MaxAttempts]
        /\ \A p \in Questions : p # q => cand'[p] = cand[p] /\ attempt'[p] = attempt[p]
    BY <1>3, NextCandidateType DEF Pass, Choosing
  <2>2. UNCHANGED state /\ state[q] = "choose"
    BY <1>3 DEF Pass, Choosing
  <2>3. Placed'
    BY <2>1, <2>2
  <2> QED BY <1>3, <2>1, <2>3 DEF Pass
<1>4. CASE Forbid(q)
  BY <1>4 DEF Forbid, Choosing
<1>5. CASE ReadSlot(q)
  <2>1. slot[Adapter(q)] \in Nat
    BY <1>5, CandidateType DEF ReadSlot, Choosing, Adapter
  <2> QED BY <1>5, <2>1, PolicyAssumption DEF ReadSlot, Choosing, Usable
<1>6. CASE TakeSlot(q)
  <2>1. Adapter(q) \in Adapters
    BY <1>6, CandidateType DEF TakeSlot, Adapter
  <2>2. slot' \in [Adapters -> Nat] /\ next' \in [Questions -> Nat]
    BY <1>6, <2>1 DEF TakeSlot
  <2>3. attempt' \in [Questions -> 0 .. MaxAttempts]
    <3>1. attempt[q] + 1 \in 0 .. MaxAttempts
      <4>1. MaxAttempts \in Nat
        BY PolicyAssumption
      <4>2. attempt[q] \in 0 .. MaxAttempts /\ attempt[q] < MaxAttempts
        BY <1>6 DEF TakeSlot
      <4> QED BY ONLY <4>1, <4>2
    <3> QED BY <1>6, <3>1 DEF TakeSlot
  <2>4. requests' \in [Questions -> [Indices -> Nat]]
    BY <1>6 DEF TakeSlot
  <2> QED BY <1>6, <2>2, <2>3, <2>4 DEF TakeSlot
<1>7. CASE FailAttempt(q)
  <2>1. cand[q] \in Indices
    BY <1>7 DEF FailAttempt
  <2>2. PICK error \in Errors[Adapter(q)] :
            /\ rows' = FailureRow(q, error)
            /\ met' = [met EXCEPT ![q][cand[q]] = error]
            /\ IF Retries(q, error) THEN UNCHANGED <<cand, attempt>> ELSE NextCandidate(q)
    BY <1>7 DEF FailAttempt
  <2>3. error \in Kinds
    BY <2>1, CandidateType, PolicyAssumption DEF Adapter
  <2>4. rows' \in [Questions -> [Indices -> Nat]]
    BY <2>1, <2>2 DEF FailureRow
  <2>5. met' \in [Questions -> [Indices -> Kinds \cup {"none"}]]
    BY <2>1, <2>2, <2>3
  <2>6. cand' \in [Questions -> 1 .. Len(Candidates) + 1]
        /\ attempt' \in [Questions -> 0 .. MaxAttempts]
        /\ \A p \in Questions : p # q => cand'[p] = cand[p] /\ attempt'[p] = attempt[p]
    BY <2>1, <2>2, NextCandidateType
  <2> QED BY <1>7, <2>4, <2>5, <2>6 DEF FailAttempt
<1>8. CASE Answer(q)
  <2>1. spent' \in Nat /\ billed' \in Nat
    BY <1>8, BudgetAssumption DEF Answer
  <2>2. state' = [state EXCEPT ![q] = "returned"] /\ state[q] = "calling"
    BY <1>8 DEF Answer
  <2>3. UNCHANGED <<row, calls, up, cand, attempt, limiter, trace, bounds>>
    BY <1>8 DEF Answer
  <2> QED BY <2>1, <2>2, <2>3
<1>9. CASE RecordAnswer(q)
  <2>1. rows' \in [Questions -> [Indices -> Nat]]
    BY <1>9 DEF RecordAnswer
  <2> QED BY <1>9, <2>1 DEF RecordAnswer
<1>10. CASE Keep(q)
  BY <1>10 DEF Keep
<1>11. CASE GiveUp(q)
  BY <1>11 DEF GiveUp
<1>12. CASE StampSlot(q)
  <2>1. Adapter(q) \in Adapters
    BY <1>12, CandidateType DEF StampSlot, Adapter
  <2>2. next' \in [Questions -> Nat] /\ cool' \in [Questions -> [Adapters -> Nat]]
    BY <1>12, <2>1, PoolAssumption DEF StampSlot, NextSlot
  <2>3. torn' \subseteq Adapters
    BY <1>12, <2>1 DEF StampSlot
  <2> QED BY <1>12, <2>2, <2>3 DEF StampSlot
<1> QED
  BY <1>1, <1>2, <1>3, <1>4, <1>5, <1>6, <1>7, <1>8, <1>9, <1>10, <1>11, <1>12 DEF Ask

LEMMA TypeInit == Init => TypeOK /\ Placed
<1> Len(Candidates) \in Nat
  BY PolicyAssumption
<1> SUFFICES ASSUME Init PROVE TypeOK /\ Placed
  OBVIOUS
<1> USE DEF Init
<1>1. state \in [Questions -> States] /\ Placed
  BY DEF States, Placed
<1>2. /\ cand \in [Questions -> 1 .. Len(Candidates) + 1]
      /\ attempt \in [Questions -> 0 .. MaxAttempts]
  BY PolicyAssumption
<1>3. /\ slot \in [Adapters -> Nat] /\ until \in [Questions -> Nat]
      /\ next \in [Questions -> Nat] /\ cool \in [Questions -> [Adapters -> Nat]]
      /\ torn \subseteq Adapters
  OBVIOUS
<1>4. requests \in [Questions -> [Indices -> Nat]] /\ rows \in [Questions -> [Indices -> Nat]]
  BY NoRequestsType
<1>5. met \in [Questions -> [Indices -> Kinds \cup {"none"}]]
  OBVIOUS
<1>6. runs \in 0 .. MaxRuns /\ crashes \in 0 .. MaxCrashes
  BY PoolAssumption
<1> QED BY <1>1, <1>2, <1>3, <1>4, <1>5, <1>6 DEF TypeOK

LEMMA TypeStep == TypeOK /\ Placed /\ [Next]_vars => TypeOK' /\ Placed'
<1> SUFFICES ASSUME TypeOK, Placed, [Next]_vars
             PROVE  TypeOK' /\ Placed'
  OBVIOUS
<1> USE DEF TypeOK, Placed, States, budget, limiter, trace, bounds
<1> Len(Candidates) \in Nat
  BY PolicyAssumption
<1>1. CASE Begin
  <2>1. state' \in [Questions -> States]
        /\ \A q \in Questions : state'[q] \in {"answered", "waiting"}
    BY <1>1 DEF Begin
  <2>2. /\ slot' \in [Adapters -> Nat] /\ until' \in [Questions -> Nat]
        /\ next' \in [Questions -> Nat] /\ cool' \in [Questions -> [Adapters -> Nat]]
        /\ torn' \subseteq Adapters
    BY <1>1 DEF Begin, NewLimiters
  <2> QED BY <1>1, <2>1, <2>2, NoRequestsType, PolicyAssumption, PoolAssumption DEF Begin
<1>2. CASE End
  BY <1>2 DEF End
<1>3. CASE Crash
  <2>1. state' \in [Questions -> States]
        /\ \A q \in Questions : state'[q] \notin InFlight
    BY <1>3 DEF Crash, InFlight
  <2>2. Placed'
    BY <2>1 DEF InFlight
  <2>3. /\ slot' \in [Adapters -> Nat] /\ until' \in [Questions -> Nat]
        /\ next' \in [Questions -> Nat] /\ cool' \in [Questions -> [Adapters -> Nat]]
        /\ torn' \subseteq Adapters
    BY <1>3 DEF Crash, NewLimiters
  <2>4. crashes' \in 0 .. MaxCrashes
    <3>1. crashes' = crashes + 1 /\ crashes < MaxCrashes
      BY <1>3 DEF Crash
    <3>2. MaxCrashes \in Nat
      BY PoolAssumption
    <3>3. crashes \in 0 .. MaxCrashes
      OBVIOUS
    <3> QED BY ONLY <3>1, <3>2, <3>3
  <2>5. up' = FALSE /\ UNCHANGED <<budget, cand, attempt, trace, runs>>
    BY <1>3 DEF Crash
  <2> QED BY <2>1, <2>2, <2>3, <2>4, <2>5
<1>4. CASE Tick
  <2>1. \A n \in Nat : Less(n) \in Nat
    BY DEF Less
  <2>2. /\ slot' \in [Adapters -> Nat] /\ until' \in [Questions -> Nat]
        /\ next' \in [Questions -> Nat] /\ cool' \in [Questions -> [Adapters -> Nat]]
    BY <1>4, <2>1 DEF Tick
  <2> QED BY <1>4, <2>2 DEF Tick
<1>5. CASE \E q \in Questions : Ask(q)
  BY <1>5, AskType
<1>6. CASE UNCHANGED vars
  BY <1>6 DEF vars
<1> QED BY <1>1, <1>2, <1>3, <1>4, <1>5, <1>6 DEF Next

\* Every variable keeps to its set, for any policy, pool and limits.
THEOREM CallsTypeCorrect == Spec => [](TypeOK /\ Placed)
<1>1. Init => TypeOK /\ Placed
  BY TypeInit
<1>2. (TypeOK /\ Placed) /\ [Next]_vars => (TypeOK /\ Placed)'
  BY TypeStep
<1> QED BY <1>1, <1>2, PTL DEF Spec

-----------------------------------------------------------------------------
(* The limiter.  Its clock hands go down together, so what covered an       *)
(* interval goes on covering it; a thread that reads the limiter while no   *)
(* other is about to store works out a slot behind everyone's interval.     *)

LEMMA LessIsMonotone ==
    ASSUME NEW m \in Nat, NEW n \in Nat, m <= n
    PROVE  Less(m) <= Less(n)
  BY DEF Less

\* A question that stands at an adapter stands at one of the policy's.
LEMMA AdapterType ==
    ASSUME Placed, NEW q \in Questions, state[q] \in {"asleep", "stamping"}
    PROVE  Adapter(q) \in Adapters
  BY CandidateType DEF Placed, Adapter

\* A step of a question that is at no limiter, before it and after it.
LEMMA ElsewhereKeeps ==
    ASSUME SpacedInv, NEW q \in Questions, UNCHANGED <<slot, until, next, cool, torn>>,
           state[q] \notin {"asleep", "stamping"}, state'[q] \notin {"asleep", "stamping"},
           \A p \in Questions : p # q => state'[p] = state[p] /\ cand'[p] = cand[p]
    PROVE  OneStamps' /\ SlotCovers' /\ OwnRequestsSpaced'
<1>1. \A p \in Questions : \A a \in Adapters : StampsAt(p, a)' <=> StampsAt(p, a)
  BY DEF StampsAt, Adapter
<1>2. OneStamps' /\ SlotCovers'
  BY <1>1 DEF SpacedInv, OneStamps, SlotCovers
<1>3. \A p \in Questions : state'[p] = "asleep" => state[p] = "asleep" /\ Adapter(p)' = Adapter(p)
  BY DEF Adapter
<1> QED BY <1>2, <1>3 DEF SpacedInv, OwnRequestsSpaced

LEMMA TickSpaces ==
    ASSUME SpacedInv, Tick
    PROVE  OneStamps' /\ SlotCovers' /\ OwnRequestsSpaced'
<1>1. /\ \A a \in Adapters : slot'[a] = Less(slot[a]) /\ slot[a] \in Nat
      /\ \A q \in Questions : /\ until'[q] = Less(until[q]) /\ until[q] \in Nat
                              /\ next'[q] = Less(next[q]) /\ next[q] \in Nat
      /\ \A q \in Questions : \A a \in Adapters :
            cool'[q][a] = Less(cool[q][a]) /\ cool[q][a] \in Nat
      /\ UNCHANGED <<state, cand, torn>>
  BY DEF Tick, SpacedInv, TypeOK
<1>2. \A q \in Questions : \A a \in Adapters : StampsAt(q, a)' <=> StampsAt(q, a)
  BY <1>1 DEF StampsAt, Adapter
<1>3. OneStamps'
  BY <1>1, <1>2 DEF SpacedInv, OneStamps
<1>4. ASSUME NEW q \in Questions, NEW a \in Adapters \ torn, StampsAt(q, a)
      PROVE  slot'[a] <= next'[q] /\ cool'[q][a] <= next'[q]
  <2>1. slot[a] <= next[q] /\ cool[q][a] <= next[q]
    BY <1>4 DEF SpacedInv, SlotCovers
  <2> QED BY <1>1, <2>1, LessIsMonotone
<1>5. ASSUME NEW q \in Questions, NEW a \in Adapters \ torn, ~StampsAt(q, a)
      PROVE  cool'[q][a] <= slot'[a]
  <2>1. cool[q][a] <= slot[a]
    BY <1>5 DEF SpacedInv, SlotCovers
  <2> QED BY <1>1, <2>1, LessIsMonotone
<1>6. SlotCovers'
  BY <1>1, <1>2, <1>4, <1>5 DEF SlotCovers
<1>7. ASSUME NEW q \in Questions, state'[q] = "asleep", Adapter(q)' \notin torn'
      PROVE  until'[q] >= cool'[q][Adapter(q)']
  <2>1. state[q] = "asleep" /\ Adapter(q)' = Adapter(q) /\ Adapter(q) \in Adapters
    BY <1>1, <1>7, AdapterType DEF Adapter, SpacedInv
  <2>2. cool[q][Adapter(q)] <= until[q]
    BY <1>1, <1>7, <2>1 DEF SpacedInv, OwnRequestsSpaced
  <2>3. cool'[q][Adapter(q)] <= until'[q]
    BY <1>1, <2>1, <2>2, LessIsMonotone
  <2>4. cool'[q][Adapter(q)] \in Nat /\ until'[q] \in Nat
    BY <1>1, <2>1 DEF Less
  <2> QED BY <2>1, <2>3, <2>4
<1> QED BY <1>3, <1>6, <1>7 DEF OwnRequestsSpaced

LEMMA ReadSpaces ==
    ASSUME SpacedInv, NEW q \in Questions, ReadSlot(q)
    PROVE  OneStamps' /\ SlotCovers' /\ OwnRequestsSpaced'
<1>1. /\ state[q] = "choose" /\ state' = [state EXCEPT ![q] = "asleep"]
      /\ until' = [until EXCEPT ![q] = slot[Adapter(q)]]
      /\ UNCHANGED <<cand, slot, next, cool, torn>>
  BY DEF ReadSlot, Choosing, Move
<1>2. Adapter(q) \in Adapters
  BY CandidateType DEF ReadSlot, Choosing, Adapter
<1>3. \A p \in Questions : \A a \in Adapters : StampsAt(p, a)' <=> StampsAt(p, a)
  BY <1>1 DEF StampsAt, Adapter, SpacedInv, TypeOK
<1>4. OneStamps' /\ SlotCovers'
  BY <1>1, <1>3 DEF SpacedInv, OneStamps, SlotCovers
<1>5. Adapter(q) \notin torn => cool[q][Adapter(q)] <= slot[Adapter(q)]
  BY <1>1, <1>2 DEF SpacedInv, SlotCovers, StampsAt
<1>6. ASSUME NEW p \in Questions, state'[p] = "asleep", Adapter(p)' \notin torn'
      PROVE  until'[p] >= cool'[p][Adapter(p)']
  <2>1. Adapter(p)' = Adapter(p)
    BY <1>1 DEF Adapter
  <2>2. CASE p = q
    <3>1. until'[q] = slot[Adapter(q)] /\ slot[Adapter(q)] \in Nat /\ cool[q][Adapter(q)] \in Nat
      BY <1>1, <1>2 DEF SpacedInv, TypeOK
    <3> QED BY <1>1, <1>5, <1>6, <2>1, <2>2, <3>1
  <2>3. CASE p # q
    <3>1. state[p] = "asleep" /\ until'[p] = until[p]
      BY <1>1, <1>6, <2>3 DEF SpacedInv, TypeOK
    <3> QED BY <1>1, <1>6, <2>1, <3>1 DEF SpacedInv, OwnRequestsSpaced
  <2> QED BY <2>2, <2>3
<1> QED BY <1>4, <1>6 DEF OwnRequestsSpaced

LEMMA StampSpaces ==
    ASSUME SpacedInv, NEW q \in Questions, StampSlot(q)
    PROVE  OneStamps' /\ SlotCovers' /\ OwnRequestsSpaced'
<1> DEFINE at == Adapter(q)
<1>1. /\ state[q] = "asleep" /\ state' = [state EXCEPT ![q] = "stamping"]
      /\ next' = [next EXCEPT ![q] = slot[at] + Interval]
      /\ cool' = [cool EXCEPT ![q][at] = Interval]
      /\ UNCHANGED <<cand, slot, until>>
  BY DEF StampSlot, NextSlot, Move
<1>2. at \in Adapters /\ Interval \in Nat /\ slot[at] \in Nat
  BY <1>1, AdapterType, PoolAssumption DEF SpacedInv, TypeOK
<1>3. /\ torn \subseteq torn'
      /\ at \notin torn' => \A p \in Questions \ {q} : ~StampsAt(p, at)
  BY <1>2 DEF StampSlot, Stamping, StampsAt
<1>4. \A p \in Questions : \A a \in Adapters :
          StampsAt(p, a)' <=> IF p = q THEN a = at ELSE StampsAt(p, a)
  BY <1>1 DEF StampsAt, Adapter, SpacedInv, TypeOK
<1> HIDE DEF at
<1>5. OneStamps'
  <2> SUFFICES ASSUME NEW p \in Questions, NEW r \in Questions, NEW a \in Adapters \ torn',
                      StampsAt(p, a)', StampsAt(r, a)', p # r
               PROVE  FALSE
    BY DEF OneStamps
  <2>1. CASE p # q /\ r # q
    BY <1>3, <1>4, <2>1 DEF SpacedInv, OneStamps
  <2>2. CASE p = q \/ r = q
    BY <1>3, <1>4, <2>2
  <2> QED BY <2>1, <2>2
<1>6. ASSUME NEW p \in Questions, NEW a \in Adapters \ torn'
      PROVE  IF StampsAt(p, a)' THEN slot'[a] <= next'[p] /\ cool'[p][a] <= next'[p]
             ELSE cool'[p][a] <= slot'[a]
  <2>1. IF StampsAt(p, a) THEN slot[a] <= next[p] /\ cool[p][a] <= next[p]
        ELSE cool[p][a] <= slot[a]
    BY <1>3 DEF SpacedInv, SlotCovers
  <2>2. CASE p # q
    <3>1. next'[p] = next[p] /\ cool'[p] = cool[p]
      BY <1>1, <2>2 DEF SpacedInv, TypeOK
    <3> QED BY <1>1, <1>4, <2>1, <2>2, <3>1
  <2>3. CASE p = q /\ a = at
    <3>1. next'[q] = slot[at] + Interval /\ cool'[q][at] = Interval
      BY <1>1, <1>2 DEF SpacedInv, TypeOK
    <3> QED BY <1>1, <1>2, <1>4, <2>3, <3>1
  <2>4. CASE p = q /\ a # at
    <3>1. cool'[q][a] = cool[q][a]
      BY <1>1, <2>4 DEF SpacedInv, TypeOK
    <3>2. ~StampsAt(q, a)
      BY <1>1 DEF StampsAt
    <3> QED BY <1>1, <1>4, <2>1, <2>4, <3>1, <3>2
  <2> QED BY <2>2, <2>3, <2>4
<1>7. SlotCovers'
  BY <1>6 DEF SlotCovers
<1>8. ASSUME NEW p \in Questions, state'[p] = "asleep", Adapter(p)' \notin torn'
      PROVE  until'[p] >= cool'[p][Adapter(p)']
  <2>1. p # q /\ state[p] = "asleep" /\ Adapter(p)' = Adapter(p) /\ cool'[p] = cool[p]
    BY <1>1, <1>8 DEF Adapter, SpacedInv, TypeOK
  <2> QED BY <1>1, <1>3, <1>8, <2>1 DEF SpacedInv, OwnRequestsSpaced
<1> QED BY <1>5, <1>7, <1>8 DEF OwnRequestsSpaced

LEMMA TakeSpaces ==
    ASSUME SpacedInv, NEW q \in Questions, TakeSlot(q)
    PROVE  OneStamps' /\ SlotCovers' /\ OwnRequestsSpaced'
<1> DEFINE at == Adapter(q)
<1>1. /\ state[q] = "stamping" /\ state' = [state EXCEPT ![q] = "calling"]
      /\ slot' = [slot EXCEPT ![at] = next[q]]
      /\ next' = [next EXCEPT ![q] = 0]
      /\ UNCHANGED <<cand, until, cool, torn>>
  BY DEF TakeSlot, Move
<1>2. at \in Adapters /\ slot[at] \in Nat /\ next[q] \in Nat
  BY <1>1, AdapterType DEF SpacedInv, TypeOK
<1>3. /\ StampsAt(q, at) /\ \A a \in Adapters : StampsAt(q, a) => a = at
      /\ \A p \in Questions : \A a \in Adapters : StampsAt(p, a)' <=> p # q /\ StampsAt(p, a)
  BY <1>1 DEF StampsAt, Adapter, SpacedInv, TypeOK
<1> HIDE DEF at
<1>4. OneStamps'
  BY <1>1, <1>3 DEF SpacedInv, OneStamps
<1>5. ASSUME NEW p \in Questions, NEW a \in Adapters \ torn
      PROVE  IF StampsAt(p, a)' THEN slot'[a] <= next'[p] /\ cool'[p][a] <= next'[p]
             ELSE cool'[p][a] <= slot'[a]
  <2>1. IF StampsAt(p, a) THEN slot[a] <= next[p] /\ cool[p][a] <= next[p]
        ELSE cool[p][a] <= slot[a]
    BY DEF SpacedInv, SlotCovers
  <2>2. CASE a # at
    <3>1. slot'[a] = slot[a] /\ (p # q => next'[p] = next[p])
      BY <1>1, <2>2 DEF SpacedInv, TypeOK
    <3> QED BY <1>1, <1>3, <2>1, <2>2, <3>1
  <2>3. CASE a = at
    <3>1. slot[at] <= next[q] /\ cool[q][at] <= next[q] /\ slot'[at] = next[q]
      BY <1>1, <1>2, <1>3, <2>3 DEF SpacedInv, SlotCovers, TypeOK
    <3>2. ~StampsAt(p, a)'
      BY <1>2, <1>3, <2>3 DEF SpacedInv, OneStamps
    <3>3. p = q \/ cool[p][at] <= slot[at]
      BY <1>2, <1>3, <2>1, <2>3 DEF SpacedInv, OneStamps
    <3>4. cool[p][at] \in Nat
      BY <1>2 DEF SpacedInv, TypeOK
    <3> QED BY <1>1, <1>2, <2>3, <3>1, <3>2, <3>3, <3>4
  <2> QED BY <2>2, <2>3
<1>6. SlotCovers'
  BY <1>1, <1>5 DEF SlotCovers
<1>7. \A p \in Questions : state'[p] = "asleep" => state[p] = "asleep" /\ Adapter(p)' = Adapter(p)
  BY <1>1 DEF Adapter, SpacedInv, TypeOK
<1> QED BY <1>1, <1>4, <1>6, <1>7 DEF SpacedInv, OwnRequestsSpaced

LEMMA SpacedStep == SpacedInv /\ [Next]_vars => SpacedInv'
<1> SUFFICES ASSUME SpacedInv, [Next]_vars
             PROVE  SpacedInv'
  OBVIOUS
<1>1. TypeOK' /\ Placed'
  BY TypeStep DEF SpacedInv
<1> SUFFICES OneStamps' /\ SlotCovers' /\ OwnRequestsSpaced'
  BY <1>1 DEF SpacedInv
<1>2. CASE Begin \/ Crash
  <2>1. NewLimiters
    BY <1>2 DEF Begin, Crash
  <2>2. \A q \in Questions : state'[q] \notin {"asleep", "stamping"}
    BY <1>2 DEF Begin, Crash, InFlight
  <2>3. \A q \in Questions : \A a \in Adapters : ~StampsAt(q, a)'
    BY <2>2 DEF StampsAt
  <2> QED BY <2>1, <2>2, <2>3 DEF NewLimiters, OneStamps, SlotCovers, OwnRequestsSpaced
<1>3. CASE End \/ UNCHANGED vars
  <2>1. UNCHANGED <<state, cand, slot, until, next, cool, torn>>
    BY <1>3 DEF End, vars, limiter
  <2> QED BY <2>1 DEF SpacedInv, OneStamps, SlotCovers, StampsAt, OwnRequestsSpaced, Adapter
<1>4. CASE Tick
  BY <1>4, TickSpaces
<1>5. ASSUME NEW q \in Questions, Ask(q)
      PROVE  OneStamps' /\ SlotCovers' /\ OwnRequestsSpaced'
  <2>1. CASE ReadSlot(q) \/ StampSlot(q) \/ TakeSlot(q)
    BY <2>1, ReadSpaces, StampSpaces, TakeSpaces
  <2>2. CASE \/ Reserve(q) \/ Refuse(q) \/ Pass(q) \/ Forbid(q) \/ FailAttempt(q)
             \/ Answer(q) \/ RecordAnswer(q) \/ Keep(q) \/ GiveUp(q)
    <3>1. /\ UNCHANGED <<slot, until, next, cool, torn>>
          /\ state[q] \notin {"asleep", "stamping"} /\ state'[q] \notin {"asleep", "stamping"}
      BY <2>2 DEF Reserve, Refuse, Pass, Forbid, FailAttempt, Answer, RecordAnswer, Keep, GiveUp,
                  Choosing, Move, limiter, SpacedInv, TypeOK
    <3>2. \A p \in Questions : p # q => state'[p] = state[p] /\ cand'[p] = cand[p]
      BY <2>2 DEF Reserve, Refuse, Pass, Forbid, FailAttempt, Answer, RecordAnswer, Keep, GiveUp,
                  NextCandidate, Move, SpacedInv, TypeOK
    <3> QED BY <3>1, <3>2, ElsewhereKeeps
  <2> QED BY <1>5, <2>1, <2>2 DEF Ask
<1> QED BY <1>2, <1>3, <1>4, <1>5 DEF Next

LEMMA SpacedInit == Init => SpacedInv
  BY TypeInit DEF Init, SpacedInv, OneStamps, SlotCovers, StampsAt, OwnRequestsSpaced

\* However many threads are woken for one slot: as long as none overwrites another's
\* store, a question is let through to an adapter an interval after it last was.
THEOREM RequestsAreSpaced == Spec => []OwnRequestsSpaced
<1>1. SpacedInv => OwnRequestsSpaced
  BY DEF SpacedInv
<1> QED BY <1>1, SpacedInit, SpacedStep, PTL DEF Spec

-----------------------------------------------------------------------------
(* The overshoot of the cap.                                                *)

LEMMA Product ==
    ASSUME NEW c \in Nat, NEW m \in Nat, NEW n \in Nat, m <= n
    PROVE  c * m \in Nat /\ c * m <= c * n /\ c * (m + 1) = c * m + c
<1>1. c * m \in Nat /\ c * n \in Nat /\ c * (m + 1) = c * m + c
  BY SMT
<1>2. c * m <= c * n
  <2>1. PICK d \in Nat : n = m + d
    <3>1. n - m \in Nat /\ n = m + (n - m)
      OBVIOUS
    <3> QED BY <3>1
  <2>2. c * n = c * m + c * d /\ c * d \in Nat
    BY <2>1, SMT
  <2> QED BY <1>1, <2>2
<1> QED BY <1>1, <1>2

LEMMA UnsettledFinite ==
    /\ IsFiniteSet(Unsettled) /\ Cardinality(Unsettled) \in Nat
    /\ IsFiniteSet(Running) /\ Cardinality(Running) \in Nat
    /\ Cardinality(Unsettled) <= Cardinality(Running)
<1>1. Unsettled \subseteq Running /\ Running \subseteq Questions
  BY DEF Unsettled, Running, InFlight
<1>2. IsFiniteSet(Running) /\ IsFiniteSet(Unsettled)
  BY <1>1, PoolAssumption, FS_Subset
<1> QED BY <1>1, <1>2, FS_Subset, FS_CardinalityType

\* A step that admits no question and pays for none keeps what is reserved.
LEMMA ReservedKeeps ==
    ASSUME OvershootInv, UNCHANGED <<row, spent>>, Unsettled' \subseteq Unsettled
    PROVE  Reserved'
<1> DEFINE n == Cardinality(Unsettled)
           k == Cardinality(Unsettled')
<1>1. k \in Nat /\ n \in Nat /\ k <= n
  BY UnsettledFinite, FS_Subset, FS_CardinalityType
<1>2. MaxCost \in Nat /\ Budget \in Nat /\ Workers \in Nat
  BY BudgetAssumption, PoolAssumption
<1>3. MaxCost * k \in Nat /\ MaxCost * n \in Nat /\ MaxCost * k <= MaxCost * n
      /\ MaxCost * Workers \in Nat
  BY <1>1, <1>2, Product
<1>4. Cardinality(Unsettled)' = k
  OBVIOUS
<1> HIDE DEF n, k
<1>5. spent + MaxCost * n < Budget + Workers * MaxCost /\ spent \in Nat
  BY DEF OvershootInv, Reserved, TypeOK, n
<1>6. Workers * MaxCost \in Nat
  BY <1>2
<1>7. spent + MaxCost * k < Budget + Workers * MaxCost
  BY <1>2, <1>3, <1>5, <1>6
<1> QED BY <1>4, <1>7 DEF OvershootInv, Reserved

LEMMA ReserveStep ==
    ASSUME OvershootInv, NEW q \in Questions, Reserve(q)
    PROVE  Reserved'
<1> DEFINE n == Cardinality(Unsettled)
<1>1. n \in Nat /\ n + 1 <= Workers /\ Workers \in Nat
  BY UnsettledFinite, PoolAssumption DEF Reserve
<1>2. Unsettled' = Unsettled \cup {q} /\ q \notin Unsettled
  BY DEF Reserve, Move, Unsettled, OvershootInv, TypeOK
<1>3. Cardinality(Unsettled)' = n + 1
  BY <1>2, UnsettledFinite, FS_AddElement
<1>4. MaxCost \in Nat /\ Budget \in Nat
  BY BudgetAssumption
<1> HIDE DEF n
<1>5. MaxCost * (n + 1) \in Nat /\ MaxCost * (n + 1) <= MaxCost * Workers
  BY <1>1, <1>4, Product
<1>6. MaxCost * Workers = Workers * MaxCost /\ Workers * MaxCost \in Nat
  BY <1>1, <1>4
<1>7. spent < Budget /\ spent \in Nat /\ UNCHANGED <<row, spent>>
  BY DEF Reserve, WithinCaps, OvershootInv, TypeOK
<1>8. spent + MaxCost * (n + 1) < Budget + Workers * MaxCost
  BY <1>4, <1>5, <1>6, <1>7
<1> QED BY <1>3, <1>7, <1>8 DEF OvershootInv, Reserved

LEMMA AnswerStep ==
    ASSUME OvershootInv, NEW q \in Questions, Answer(q)
    PROVE  Reserved'
<1> DEFINE n == Cardinality(Unsettled)
           k == Cardinality(Unsettled')
<1>1. Unsettled = Unsettled' \cup {q} /\ q \notin Unsettled'
  BY DEF Answer, Move, Unsettled, OvershootInv, TypeOK
<1>2. IsFiniteSet(Unsettled')
  BY <1>1, UnsettledFinite, FS_Subset
<1>3. k \in Nat /\ n = k + 1 /\ Cardinality(Unsettled)' = k
  BY <1>1, <1>2, FS_AddElement, FS_CardinalityType
<1>4. MaxCost \in Nat /\ Budget \in Nat /\ Workers \in Nat
  BY BudgetAssumption, PoolAssumption
<1> HIDE DEF n, k
<1>5. MaxCost * n = MaxCost * k + MaxCost /\ MaxCost * k \in Nat
  BY <1>3, <1>4, Product
<1>6. PICK cost \in Costs : spent' = spent + cost
  BY DEF Answer
<1>7. cost \in Nat /\ cost <= MaxCost /\ spent \in Nat
  BY <1>4, BudgetAssumption DEF OvershootInv, TypeOK
<1>8. spent + MaxCost * n < Budget + Workers * MaxCost
  BY DEF OvershootInv, Reserved, n
<1>9. Workers * MaxCost \in Nat
  BY <1>4
<1>10. spent' + MaxCost * k < Budget + Workers * MaxCost
  BY <1>4, <1>5, <1>6, <1>7, <1>8, <1>9
<1>11. row' = row
  BY DEF Answer
<1> QED BY <1>3, <1>10, <1>11 DEF OvershootInv, Reserved

LEMMA OvershootBound ==
    ASSUME OvershootInv
    PROVE  spent < Budget + Workers * MaxCost
<1>1. MaxCost \in Nat /\ Budget \in Nat /\ Workers \in Nat
  BY BudgetAssumption, PoolAssumption
<1>2. MaxCost * Cardinality(Unsettled) \in Nat
  BY <1>1, UnsettledFinite, Product
<1>3. Workers * MaxCost \in Nat
  BY <1>1
<1> QED BY <1>1, <1>2, <1>3 DEF OvershootInv, Reserved, TypeOK

LEMMA OvershootStep == OvershootInv /\ [Next]_vars => OvershootInv'
<1> SUFFICES ASSUME OvershootInv, [Next]_vars
             PROVE  OvershootInv'
  OBVIOUS
<1>1. TypeOK' /\ Placed'
  BY TypeStep DEF OvershootInv
<1> SUFFICES Reserved'
  BY <1>1 DEF OvershootInv
<1>2. CASE Begin
  <2>1. Unsettled' = {}
    BY <1>2 DEF Begin, Unsettled
  <2>2. Cardinality(Unsettled)' = 0
    BY <2>1, FS_EmptySet
  <2>3. spent' = row.spent /\ row' = row /\ row.spent < Budget + Workers * MaxCost
        /\ row.spent \in Nat
    BY <1>2 DEF Begin, OvershootInv, Reserved, TypeOK
  <2>4. MaxCost * 0 = 0
    BY BudgetAssumption
  <2>5. row.spent + 0 = row.spent
    BY <2>3
  <2> QED BY <2>2, <2>3, <2>4, <2>5 DEF Reserved
<1>3. CASE End
  <2>1. Unsettled' = Unsettled /\ spent' = spent /\ row'.spent = spent
    BY <1>3 DEF End, Unsettled
  <2>2. Cardinality(Unsettled)' = Cardinality(Unsettled)
    BY <2>1
  <2> QED BY <2>1, <2>2, OvershootBound DEF OvershootInv, Reserved
<1>4. CASE Crash
  <2>1. UNCHANGED <<row, spent>> /\ Unsettled' \subseteq Unsettled
    BY <1>4 DEF Crash, budget, Unsettled, InFlight
  <2> QED BY <2>1, ReservedKeeps
<1>5. CASE Tick \/ UNCHANGED vars
  <2>1. UNCHANGED <<row, spent>> /\ Unsettled' \subseteq Unsettled
    BY <1>5 DEF Tick, vars, budget, Unsettled
  <2> QED BY <2>1, ReservedKeeps
<1>6. ASSUME NEW q \in Questions, Ask(q)
      PROVE  Reserved'
  <2>1. CASE Reserve(q)
    BY <2>1, ReserveStep
  <2>2. CASE Answer(q)
    BY <2>2, AnswerStep
  <2>3. CASE \/ Refuse(q) \/ Pass(q) \/ Forbid(q) \/ ReadSlot(q) \/ StampSlot(q)
             \/ TakeSlot(q)
             \/ FailAttempt(q) \/ RecordAnswer(q) \/ Keep(q) \/ GiveUp(q)
    <3>1. UNCHANGED <<row, spent>>
      BY <2>3 DEF Refuse, Pass, Forbid, ReadSlot, StampSlot, TakeSlot, FailAttempt,
                  RecordAnswer, Keep, GiveUp, budget
    <3>2. Unsettled' \subseteq Unsettled
      BY <2>3 DEF Refuse, Pass, Forbid, ReadSlot, StampSlot, TakeSlot, FailAttempt,
                  RecordAnswer, Keep, GiveUp, Choosing, Move, Unsettled, OvershootInv, TypeOK
    <3> QED BY <3>1, <3>2, ReservedKeeps
  <2> QED BY <1>6, <2>1, <2>2, <2>3 DEF Ask
<1> QED BY <1>2, <1>3, <1>4, <1>5, <1>6 DEF Next

LEMMA OvershootInit == Init => OvershootInv
<1> SUFFICES ASSUME Init PROVE OvershootInv
  OBVIOUS
<1>1. Unsettled = {}
  BY DEF Init, Unsettled
<1>2. Cardinality(Unsettled) = 0
  BY <1>1, FS_EmptySet
<1>3. spent = 0 /\ row.spent = 0
  BY DEF Init
<1>4. MaxCost * 0 = 0 /\ Workers * MaxCost \in Nat /\ Budget \in Nat /\ Budget > 0
  BY BudgetAssumption, PoolAssumption
<1>5. 0 < Budget + Workers * MaxCost
  BY <1>4
<1> QED BY <1>2, <1>3, <1>4, <1>5, TypeInit DEF OvershootInv, Reserved

\* Whatever the number of threads and questions, and whatever answers cost, the
\* money a run knows of exceeds the cap by less than one answer per thread.
THEOREM OvershootIsBounded == Spec => []OvershootBounded
<1>1. OvershootInv => OvershootBounded
  BY OvershootBound DEF OvershootBounded
<1> QED BY <1>1, OvershootInit, OvershootStep, PTL DEF Spec

-----------------------------------------------------------------------------
(* What a failed question has been through.                                 *)

\* Leaving a candidate behind: it is exhausted, and the next one is untouched.
LEMMA MovesOn ==
    ASSUME TriedInv, NEW q \in Questions, NEW c \in Indices, c = cand[q], Pursued(q),
           NextCandidate(q), requests' = requests,
           \A i \in Indices : i # cand[q] => met'[q][i] = met[q][i],
           Exhausted(q, c)'
    PROVE  Pursued(q)'
<1>1. cand'[q] = cand[q] + 1 /\ attempt'[q] = 0
  BY DEF NextCandidate, TriedInv, TypeOK
<1>2. Indices \subseteq Nat /\ cand[q] \in Nat
  BY PolicyAssumption DEF Indices
<1>3. ASSUME NEW i \in Indices, i < cand'[q]
      PROVE  Exhausted(q, i)'
  <2>1. CASE i = cand[q]
    <3>1. i = c
      BY <2>1
    <3> QED BY <3>1
  <2>2. CASE i # cand[q]
    <3>1. i \in Nat /\ cand[q] \in Nat /\ i < cand[q] + 1
      BY <1>1, <1>2, <1>3
    <3>2. i < cand[q]
      BY ONLY <2>2, <3>1
    <3> QED BY <2>2, <3>2 DEF Pursued, Exhausted
  <2> QED BY <2>1, <2>2
<1>4. ASSUME NEW i \in Indices, i >= cand'[q]
      PROVE  requests'[q][i] = 0
  <2>1. i \in Nat /\ cand[q] \in Nat /\ i >= cand[q] + 1
    BY <1>1, <1>2, <1>4
  <2>2. i > cand[q]
    BY ONLY <2>1
  <2> QED BY <2>2 DEF Pursued
<1>5. \A i \in Indices : (i = cand'[q] => i >= cand'[q]) /\ (i > cand'[q] => i >= cand'[q])
  BY <1>1, <1>2
<1> QED BY <1>1, <1>3, <1>4, <1>5 DEF Pursued

LEMMA TriedStep == TriedInv /\ [Next]_vars => TriedInv'
<1> SUFFICES ASSUME TriedInv, [Next]_vars
             PROVE  TriedInv'
  OBVIOUS
<1>1. TypeOK' /\ Placed'
  BY TypeStep DEF TriedInv
<1> SUFFICES Pursuit' /\ FailedMeansTried'
  BY <1>1 DEF TriedInv
<1> USE DEF Pursuit
<1>2. CASE Begin
  <2>1. \A q \in Questions : state'[q] \in {"answered", "waiting"} /\ Fresh(q)'
    BY <1>2 DEF Begin, Fresh, NoRequests, Indices
  <2> QED BY <2>1 DEF FailedMeansTried, InFlight
<1>3. CASE End \/ Tick \/ UNCHANGED vars
  <2>1. UNCHANGED <<state, cand, attempt, trace>> /\ (up' => up)
    BY <1>3 DEF End, Tick, vars
  <2> QED BY <2>1 DEF TriedInv, FailedMeansTried, Fresh, Pursued, Exhausted, trace
<1>4. CASE Crash
  <2>1. UNCHANGED trace /\ ~up' /\ \A q \in Questions : state'[q] = "failed" => state[q] = "failed"
    BY <1>4 DEF Crash, TriedInv, TypeOK
  <2> QED BY <2>1 DEF TriedInv, FailedMeansTried, trace
<1>5. ASSUME NEW q \in Questions, Ask(q)
      PROVE  Pursuit' /\ FailedMeansTried'
  <2>1. /\ up /\ up'
        /\ \A p \in Questions : p # q =>
              /\ state'[p] = state[p] /\ cand'[p] = cand[p] /\ attempt'[p] = attempt[p]
              /\ requests'[p] = requests[p] /\ met'[p] = met[p]
    BY <1>5 DEF Ask, Reserve, Refuse, Pass, Forbid, ReadSlot, StampSlot, TakeSlot, FailAttempt,
                Answer, RecordAnswer, Keep, GiveUp, Choosing, Move, NextCandidate, trace,
                TriedInv, TypeOK
  <2>2. ASSUME NEW p \in Questions, p # q
        PROVE  /\ state'[p] = "waiting" => Fresh(p)'
               /\ state'[p] \in InFlight => Pursued(p)'
               /\ state'[p] = "failed" => \A i \in Indices : Exhausted(p, i)'
    BY <2>1, <2>2 DEF TriedInv, FailedMeansTried, Fresh, Pursued, Exhausted
  <2>3. /\ state'[q] = "waiting" => Fresh(q)'
        /\ state'[q] \in InFlight => Pursued(q)'
        /\ state'[q] = "failed" => \A i \in Indices : Exhausted(q, i)'
    <3> USE DEF Move
    <3>1. CASE Reserve(q)
      <4>1. Fresh(q) /\ state'[q] = "choose" /\ UNCHANGED <<cand, attempt, trace>>
        BY <3>1 DEF Reserve, TriedInv, TypeOK
      <4>2. \A i \in Indices : ~(i < 1) /\ i \in Nat
        BY PolicyAssumption DEF Indices
      <4>3. Pursued(q)'
        BY <4>1, <4>2 DEF Fresh, Pursued, trace
      <4> QED BY <4>1, <4>3
    <3>2. CASE Refuse(q) \/ Forbid(q) \/ Keep(q)
      BY <3>2 DEF Refuse, Forbid, Keep, Choosing, InFlight, TriedInv, TypeOK
    <3>3. CASE ReadSlot(q) \/ StampSlot(q) \/ Answer(q) \/ RecordAnswer(q)
      <4>1. /\ state[q] \in InFlight /\ state'[q] \in InFlight
            /\ state'[q] \notin {"waiting", "failed"}
            /\ UNCHANGED <<cand, attempt, requests, met>>
        BY <3>3 DEF ReadSlot, StampSlot, Answer, RecordAnswer, Choosing, InFlight, trace,
                    TriedInv, TypeOK
      <4> QED BY <2>1, <4>1 DEF TriedInv, Pursued, Exhausted
    <3>4. CASE Pass(q)
      <4>1. /\ state[q] = "choose" /\ state'[q] = "choose" /\ cand[q] \in Indices
            /\ NextCandidate(q) /\ UNCHANGED <<requests, met>> /\ ~Usable(q) /\ Pursued(q)
        BY <2>1, <3>4 DEF Pass, Choosing, trace, InFlight, TriedInv
      <4>2. requests[q][cand[q]] = attempt[q]
        BY <4>1 DEF Pursued
      <4>3. Candidates[cand[q]] \in Registered => requests[q][cand[q]] = MaxAttempts
        BY <4>1, <4>2, PolicyAssumption DEF Usable, Adapter, TriedInv, TypeOK
      <4>4. ASSUME NEW c \in Indices, c = cand[q]
            PROVE  Exhausted(q, c)'
        BY <4>1, <4>3, <4>4 DEF Exhausted
      <4>5. Pursued(q)'
        BY <4>1, <4>4, MovesOn
      <4> QED BY <4>1, <4>5
    <3>5. CASE TakeSlot(q)
      <4>1. /\ state'[q] = "calling" /\ cand' = cand /\ met' = met /\ Pursued(q)
            /\ cand[q] \in Indices
            /\ attempt'[q] = attempt[q] + 1
            /\ requests'[q] = [requests[q] EXCEPT ![cand[q]] = @ + 1]
        BY <2>1, <3>5 DEF TakeSlot, InFlight, TriedInv, TypeOK, Placed
      <4>2. requests[q] \in [Indices -> Nat]
        BY DEF TriedInv, TypeOK
      <4>3. \A i \in Indices : /\ i < cand[q] => i # cand[q]
                               /\ i > cand[q] => i # cand[q]
        BY <4>1, PolicyAssumption DEF Indices
      <4>4. Pursued(q)'
        BY <4>1, <4>2, <4>3 DEF Pursued, Exhausted
      <4> QED BY <4>1, <4>4
    <3>6. CASE FailAttempt(q)
      <4>1. /\ state[q] = "calling" /\ state'[q] = "choose" /\ cand[q] \in Indices
            /\ requests' = requests /\ Pursued(q)
        BY <2>1, <3>6 DEF FailAttempt, InFlight, TriedInv, TypeOK, Placed
      <4>2. PICK error \in Errors[Adapter(q)] :
                /\ met' = [met EXCEPT ![q][cand[q]] = error]
                /\ IF Retries(q, error) THEN UNCHANGED <<cand, attempt>> ELSE NextCandidate(q)
        BY <3>6 DEF FailAttempt
      <4>3. error \in Kinds
        BY <4>1, CandidateType, PolicyAssumption DEF Adapter
      <4>4. met'[q][cand[q]] = error /\ \A i \in Indices : i # cand[q] => met'[q][i] = met[q][i]
        BY <4>1, <4>2 DEF TriedInv, TypeOK
      <4>5. CASE Retries(q, error)
        <5>1. UNCHANGED <<cand, attempt>>
          BY <4>2, <4>5
        <5>2. \A i \in Indices : i < cand[q] => i # cand[q]
          BY <4>1, PolicyAssumption DEF Indices
        <5>3. Pursued(q)'
          BY <4>1, <4>4, <5>1, <5>2 DEF Pursued, Exhausted
        <5> QED BY <4>1, <5>3
      <4>6. CASE ~Retries(q, error)
        <5>1. NextCandidate(q)
          BY <4>2, <4>6
        <5>2. requests[q][cand[q]] = attempt[q]
          BY <4>1 DEF Pursued
        <5>3. requests[q][cand[q]] = MaxAttempts \/ ~Retryable(error)
          BY <4>6, <5>2, PolicyAssumption DEF Retries, TriedInv, TypeOK
        <5>4. ASSUME NEW c \in Indices, c = cand[q]
              PROVE  Exhausted(q, c)'
          BY <4>1, <4>3, <4>4, <5>3, <5>4 DEF Exhausted
        <5>5. Pursued(q)'
          BY <4>1, <4>4, <5>1, <5>4, MovesOn
        <5> QED BY <4>1, <5>5
      <4> QED BY <4>5, <4>6
    <3>7. CASE GiveUp(q)
      <4>1. /\ state'[q] = "failed" /\ cand[q] \notin Indices /\ Pursued(q)
            /\ UNCHANGED <<cand, attempt, requests, met>>
        BY <2>1, <3>7 DEF GiveUp, InFlight, trace, TriedInv, TypeOK
      <4>2. \A i \in Indices : i < cand[q]
        BY <4>1, PolicyAssumption DEF Indices, TriedInv, TypeOK
      <4>3. \A i \in Indices : Exhausted(q, i)'
        BY <4>1, <4>2 DEF Pursued, Exhausted
      <4> QED BY <4>1, <4>3 DEF InFlight
    <3> QED BY <1>5, <3>1, <3>2, <3>3, <3>4, <3>5, <3>6, <3>7 DEF Ask
  <2>4. \A p \in Questions : /\ state'[p] = "waiting" => Fresh(p)'
                             /\ state'[p] \in InFlight => Pursued(p)'
                             /\ state'[p] = "failed" => \A i \in Indices : Exhausted(p, i)'
    BY <2>2, <2>3
  <2> QED BY <2>4 DEF FailedMeansTried, Exhausted
<1> QED BY <1>2, <1>3, <1>4, <1>5 DEF Next

LEMMA TriedInit == Init => TriedInv
  BY TypeInit DEF Init, TriedInv, Pursuit, FailedMeansTried

\* A question fails only when every configured candidate was asked as often as the
\* retry policy allows or met a failure that is not retried, whatever the policy.
THEOREM FailureIsEarned == Spec => []FailedMeansTried
<1>1. TriedInv => FailedMeansTried
  BY DEF TriedInv
<1> QED BY <1>1, TriedInit, TriedStep, PTL DEF Spec

-----------------------------------------------------------------------------
(* The books.                                                               *)

\* Only a crash, which is counted, parts the counters from the bill.
CountedInv == TypeOK /\ Placed /\ MoneyIsCounted

LEMMA CountedStep == CountedInv /\ [Next]_vars => CountedInv'
<1> SUFFICES ASSUME CountedInv, [Next]_vars
             PROVE  CountedInv'
  OBVIOUS
<1>1. TypeOK' /\ Placed'
  BY TypeStep DEF CountedInv
<1> SUFFICES MoneyIsCounted'
  BY <1>1 DEF CountedInv
<1> USE DEF MoneyIsCounted, CountedInv, budget, bounds
<1>2. CASE Begin
  BY <1>2 DEF Begin
<1>3. CASE End
  BY <1>3 DEF End
<1>4. CASE Crash
  <2>1. crashes \in Nat /\ crashes' = crashes + 1
    BY <1>4, PoolAssumption DEF Crash, TypeOK
  <2> QED BY <2>1
<1>5. CASE Tick \/ UNCHANGED vars
  BY <1>5 DEF Tick, vars
<1>6. ASSUME NEW q \in Questions, Ask(q)
      PROVE  MoneyIsCounted'
  <2>1. CASE Answer(q)
    BY <2>1 DEF Answer
  <2>2. CASE \/ Reserve(q) \/ Refuse(q) \/ Pass(q) \/ Forbid(q) \/ ReadSlot(q) \/ StampSlot(q)
             \/ TakeSlot(q)
             \/ FailAttempt(q) \/ RecordAnswer(q) \/ Keep(q) \/ GiveUp(q)
    BY <2>2 DEF Reserve, Refuse, Pass, Forbid, ReadSlot, StampSlot, TakeSlot, FailAttempt,
                RecordAnswer, Keep, GiveUp
  <2> QED BY <1>6, <2>1, <2>2 DEF Ask
<1> QED BY <1>2, <1>3, <1>4, <1>5, <1>6 DEF Next

\* Until a process crashes, an execution counts against its cap exactly what its
\* answers have cost, however many runs and threads they came in.
THEOREM MoneyIsAllCounted == Spec => []MoneyIsCounted
<1>1. Init => CountedInv
  BY TypeInit DEF Init, CountedInv, MoneyIsCounted
<1>2. CountedInv => MoneyIsCounted
  BY DEF CountedInv
<1> QED BY <1>1, <1>2, CountedStep, PTL DEF Spec

-----------------------------------------------------------------------------
(* The attempt rows.                                                        *)

\* An attempt under way, or one that was answered, is the one without a row.
Due(q, i) == IF state[q] \in {"calling", "returned"} /\ cand[q] = i THEN 1 ELSE 0
RowsInv == TypeOK /\ Placed /\ EveryAttemptLeavesARow

LEMMA RowsStep == RowsInv /\ [Next]_vars => RowsInv'
<1> SUFFICES ASSUME RowsInv, [Next]_vars
             PROVE  RowsInv'
  OBVIOUS
<1>1. TypeOK' /\ Placed'
  BY TypeStep DEF RowsInv
<1> SUFFICES EveryAttemptLeavesARow'
  BY <1>1 DEF RowsInv
<1> USE DEF RowsInv, EveryAttemptLeavesARow, trace
<1>2. CASE Begin
  <2>1. /\ \A q \in Questions : state'[q] \in {"answered", "waiting"}
        /\ \A q \in Questions : \A i \in Indices : requests'[q][i] = 0 /\ rows'[q][i] = 0
    BY <1>2 DEF Begin, NoRequests
  <2> QED BY <2>1
<1>3. CASE End \/ Crash
  BY <1>3 DEF End, Crash
<1>4. CASE Tick \/ UNCHANGED vars
  BY <1>4 DEF Tick, vars
<1>5. ASSUME NEW q \in Questions, Ask(q)
      PROVE  EveryAttemptLeavesARow'
  <2>1. /\ up
        /\ \A p \in Questions \ {q} :
              /\ state'[p] = state[p] /\ cand'[p] = cand[p]
              /\ requests'[p] = requests[p] /\ rows'[p] = rows[p]
    BY <1>5 DEF Ask, Reserve, Refuse, Pass, Forbid, ReadSlot, StampSlot, TakeSlot, FailAttempt,
                Answer, RecordAnswer, Keep, GiveUp, Choosing, Move, NextCandidate, TypeOK,
                FailureRow
  <2>2. requests[q] \in [Indices -> Nat] /\ rows[q] \in [Indices -> Nat]
    BY DEF TypeOK
  <2>3. \A i \in Indices : requests'[q][i] = rows'[q][i] + Due(q, i)'
    <3> USE DEF Move
    <3>1. CASE Reserve(q) \/ Refuse(q) \/ Pass(q) \/ Forbid(q) \/ ReadSlot(q)
               \/ StampSlot(q) \/ Keep(q) \/ GiveUp(q)
      <4>1. /\ UNCHANGED <<requests, rows>>
            /\ state[q] \notin {"calling", "returned"} /\ state'[q] \notin {"calling", "returned"}
        BY <3>1 DEF Reserve, Refuse, Pass, Forbid, ReadSlot, StampSlot, Keep, GiveUp, Choosing,
                    TypeOK
      <4> QED BY <2>1, <4>1 DEF Due
    <3>2. CASE TakeSlot(q)
      <4>1. /\ state[q] = "stamping" /\ state'[q] = "calling" /\ UNCHANGED <<rows, cand>>
            /\ requests'[q] = [requests[q] EXCEPT ![cand[q]] = @ + 1] /\ cand[q] \in Indices
        BY <3>2 DEF TakeSlot, TypeOK, Placed
      <4> QED BY <2>1, <2>2, <4>1 DEF Due
    <3>3. CASE FailAttempt(q)
      <4>1. /\ state[q] = "calling" /\ state'[q] = "choose" /\ UNCHANGED requests
            /\ rows'[q] = [rows[q] EXCEPT ![cand[q]] = @ + 1] /\ cand[q] \in Indices
        BY <3>3 DEF FailAttempt, FailureRow, TypeOK, Placed
      <4> QED BY <2>1, <2>2, <4>1 DEF Due
    <3>4. CASE Answer(q)
      <4>1. /\ state[q] = "calling" /\ state'[q] = "returned" /\ UNCHANGED <<requests, rows, cand>>
        BY <3>4 DEF Answer, TypeOK
      <4> QED BY <2>1, <4>1 DEF Due
    <3>5. CASE RecordAnswer(q)
      <4>1. /\ state[q] = "returned" /\ state'[q] = "recorded" /\ UNCHANGED <<requests, cand>>
            /\ rows'[q] = [rows[q] EXCEPT ![cand[q]] = @ + 1] /\ cand[q] \in Indices
        BY <3>5 DEF RecordAnswer, TypeOK, Placed
      <4> QED BY <2>1, <2>2, <4>1 DEF Due
    <3> QED BY <1>5, <3>1, <3>2, <3>3, <3>4, <3>5 DEF Ask
  <2> QED BY <2>1, <2>3 DEF Due
<1> QED BY <1>2, <1>3, <1>4, <1>5 DEF Next

\* FR-LLM-005: whatever an attempt ends in, it has its row, under any retry policy,
\* list of candidates and interleaving of the threads.
THEOREM AttemptsHaveRows == Spec => []EveryAttemptLeavesARow
<1>1. Init => RowsInv
  BY TypeInit DEF Init, RowsInv, EveryAttemptLeavesARow
<1>2. RowsInv => EveryAttemptLeavesARow
  BY DEF RowsInv
<1> QED BY <1>1, <1>2, RowsStep, PTL DEF Spec

-----------------------------------------------------------------------------
(* The cap on calls.                                                        *)

\* Those that have taken a call from the cap in this run, and may yet use it.
Admitted == {q \in Questions : state[q] \in InFlight \/ \E i \in Indices : requests[q][i] > 0}
CapInv ==
    /\ TriedInv /\ CapBoundsRequests
    /\ row.calls <= MaxCalls /\ Cardinality(Admitted) <= calls

LEMMA AdmittedFinite ==
    ASSUME NEW S, S \subseteq Questions
    PROVE  IsFiniteSet(S) /\ Cardinality(S) \in Nat
  BY PoolAssumption, FS_Subset, FS_CardinalityType

\* Nobody is admitted, and no call is taken.
LEMMA AdmittedKeeps ==
    ASSUME CapInv, UNCHANGED calls, Admitted' \subseteq Admitted
    PROVE  Cardinality(Admitted') <= calls'
<1>1. Admitted \subseteq Questions /\ Admitted' \subseteq Questions
  BY DEF Admitted
<1>2. IsFiniteSet(Admitted) /\ Cardinality(Admitted) \in Nat /\ Cardinality(Admitted') \in Nat
  BY <1>1, AdmittedFinite
<1>3. Cardinality(Admitted') <= Cardinality(Admitted)
  BY <1>2, FS_Subset
<1>4. calls \in Nat /\ Cardinality(Admitted) <= calls
  BY DEF CapInv, TriedInv, TypeOK
<1> QED BY <1>2, <1>3, <1>4

\* Fewer are asked about than were admitted.
LEMMA AskedAdmitted ==
    ASSUME NEW Among, Among \subseteq Questions, NEW Asked, Asked \subseteq Among,
           NEW n \in Nat, Cardinality(Among) <= n
    PROVE  Cardinality(Asked) <= n
<1>1. /\ IsFiniteSet(Among) /\ Cardinality(Among) \in Nat /\ Cardinality(Asked) \in Nat
  BY AdmittedFinite
<1>2. Cardinality(Asked) <= Cardinality(Among)
  BY <1>1, FS_Subset
<1> QED BY <1>1, <1>2

LEMMA CapStep == CapInv /\ [Next]_vars => CapInv'
<1> SUFFICES ASSUME CapInv, [Next]_vars
             PROVE  CapInv'
  OBVIOUS
<1>1. TriedInv' /\ TypeOK'
  BY TriedStep DEF CapInv, TriedInv
<1>2. MaxCalls \in Nat /\ MaxAttempts \in Nat
  BY BudgetAssumption, PolicyAssumption
<1> DEFINE Attempts == \A q \in Questions : \A i \in Indices : requests[q][i] <= MaxAttempts
           Caps == calls <= MaxCalls /\ row.calls <= MaxCalls
<1>3. Attempts /\ Caps
  BY DEF CapInv, CapBoundsRequests
<1>4. Attempts' /\ Caps' /\ Cardinality(Admitted') <= calls'
  <2>1. CASE Begin
    <3>1. /\ \A q \in Questions : state'[q] \notin InFlight
          /\ \A q \in Questions : \A i \in Indices : requests'[q][i] = 0
          /\ calls' = row.calls /\ row' = row
      BY <2>1 DEF Begin, NoRequests, InFlight
    <3>2. Admitted' = {}
      BY <3>1 DEF Admitted
    <3>3. Cardinality(Admitted') = 0 /\ row.calls \in Nat
      BY <3>2, FS_EmptySet DEF CapInv, TriedInv, TypeOK
    <3> QED BY <1>2, <1>3, <3>1, <3>3
  <2>2. CASE End \/ Crash \/ Tick \/ UNCHANGED vars
    <3>1. /\ UNCHANGED <<calls, requests>> /\ row'.calls \in {row.calls, calls}
          /\ \A q \in Questions : state'[q] \in InFlight => state[q] \in InFlight
      BY <2>2 DEF End, Crash, Tick, vars, budget, trace, InFlight, CapInv, TriedInv, TypeOK
    <3>2. Admitted' \subseteq Admitted
      BY <3>1 DEF Admitted
    <3> QED BY <1>3, <3>1, <3>2, AdmittedKeeps
  <2>3. ASSUME NEW q \in Questions, Ask(q)
        PROVE  Attempts' /\ Caps' /\ Cardinality(Admitted') <= calls'
    <3>1. CASE Reserve(q)
      <4>1. /\ calls < MaxCalls /\ calls' = calls + 1 /\ UNCHANGED <<row, requests>>
            /\ \A p \in Questions \ {q} : state'[p] = state[p]
        BY <3>1 DEF Reserve, WithinCaps, Move, trace, CapInv, TriedInv, TypeOK
      <4>2. Admitted' \subseteq Admitted \cup {q} /\ Admitted \subseteq Questions
        BY <4>1 DEF Admitted
      <4>3. /\ IsFiniteSet(Admitted) /\ Cardinality(Admitted) \in Nat
            /\ IsFiniteSet(Admitted \cup {q}) /\ Cardinality(Admitted \cup {q}) \in Nat
            /\ Cardinality(Admitted') \in Nat
        BY <4>2, AdmittedFinite
      <4>4. /\ Cardinality(Admitted') <= Cardinality(Admitted \cup {q})
            /\ Cardinality(Admitted \cup {q}) <= Cardinality(Admitted) + 1
        BY <4>2, <4>3, FS_Subset, FS_AddElement
      <4>5. calls \in Nat /\ Cardinality(Admitted) <= calls
        BY DEF CapInv, TriedInv, TypeOK
      <4>6. Cardinality(Admitted') <= calls'
        BY <4>1, <4>3, <4>4, <4>5
      <4> QED BY <1>2, <1>3, <4>1, <4>5, <4>6
    <3>2. CASE TakeSlot(q)
      <4>1. /\ UNCHANGED <<row, calls>> /\ state[q] \in InFlight
            /\ cand[q] \in Indices /\ attempt[q] < MaxAttempts /\ attempt[q] \in Nat
            /\ requests[q] \in [Indices -> Nat] /\ requests[q][cand[q]] = attempt[q]
            /\ requests'[q] = [requests[q] EXCEPT ![cand[q]] = @ + 1]
            /\ \A p \in Questions \ {q} : state'[p] = state[p] /\ requests'[p] = requests[p]
        BY <1>2, <3>2 DEF TakeSlot, Move, budget, InFlight, CapInv, TriedInv, TypeOK, Placed,
                          Pursuit, Pursued
      <4>2. Attempts'
        BY <1>2, <1>3, <4>1
      <4>3. Admitted' \subseteq Admitted
        BY <4>1 DEF Admitted
      <4> QED BY <1>3, <4>1, <4>2, <4>3, AdmittedKeeps
    <3>3. CASE \/ Refuse(q) \/ Pass(q) \/ Forbid(q) \/ ReadSlot(q) \/ StampSlot(q) \/ FailAttempt(q)
               \/ Answer(q) \/ RecordAnswer(q) \/ Keep(q) \/ GiveUp(q)
      <4>1. /\ UNCHANGED <<row, calls, requests>>
            /\ \A p \in Questions : state'[p] \in InFlight => state[p] \in InFlight
        BY <3>3 DEF Refuse, Pass, Forbid, ReadSlot, StampSlot, FailAttempt, Answer, RecordAnswer,
                    Keep, GiveUp, Choosing, Move, budget, trace, InFlight, CapInv, TriedInv, TypeOK
      <4>2. Admitted' \subseteq Admitted
        BY <4>1 DEF Admitted
      <4> QED BY <1>3, <4>1, <4>2, AdmittedKeeps
    <3> QED BY <2>3, <3>1, <3>2, <3>3 DEF Ask
  <2> QED BY <2>1, <2>2, <2>3 DEF Next
<1>5. Cardinality({q \in Questions : \E i \in Indices : requests'[q][i] > 0}) <= calls'
  <2>1. /\ Admitted' \subseteq Questions
        /\ {q \in Questions : \E i \in Indices : requests'[q][i] > 0} \subseteq Admitted'
    BY DEF Admitted
  <2>2. calls' \in Nat /\ Cardinality(Admitted') <= calls'
    BY <1>1, <1>4 DEF TypeOK
  <2> QED BY <2>1, <2>2, AskedAdmitted
<1> QED BY <1>1, <1>4, <1>5 DEF CapInv, CapBoundsRequests

\* The cap on calls is a cap on questions, and with the retry policy it bounds the
\* requests of every run, for any number of threads, runs and crashes.
THEOREM RequestsAreCapped == Spec => []CapBoundsRequests
<1>1. Init => CapInv
  <2> SUFFICES ASSUME Init PROVE CapInv
    OBVIOUS
  <2>1. Admitted = {} /\ {q \in Questions : \E i \in Indices : requests[q][i] > 0} = {}
    BY DEF Init, Admitted, NoRequests, InFlight
  <2>2. Cardinality({}) = 0
    BY FS_EmptySet
  <2>3. MaxCalls \in Nat /\ MaxAttempts \in Nat
    BY BudgetAssumption, PolicyAssumption
  <2>4. calls = 0 /\ row.calls = 0 /\ TriedInv
    BY TriedInit DEF Init
  <2>5. \A q \in Questions : \A i \in Indices : requests[q][i] <= MaxAttempts
    BY <2>3 DEF Init, NoRequests
  <2>6. Cardinality(Admitted) <= calls
    BY <2>1, <2>2, <2>4
  <2>7. CapBoundsRequests
    BY <2>1, <2>2, <2>3, <2>4, <2>5 DEF CapBoundsRequests
  <2> QED BY <2>3, <2>4, <2>6, <2>7 DEF CapInv
<1>2. CapInv => CapBoundsRequests
  BY DEF CapInv
<1> QED BY <1>1, <1>2, CapStep, PTL DEF Spec
=============================================================================
