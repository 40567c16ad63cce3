------------------------- MODULE MetaHarnessProofs -------------------------
(***************************************************************************)
(* What is proved of MetaHarness for every catalogue, request, budget and  *)
(* number of harnesses, wherever its calls fail: its types and the         *)
(* invariants BudgetsHold, RunsOnce and SessionIsTrue.                     *)
(***************************************************************************)
EXTENDS MetaHarness, SequenceTheorems, FiniteSetTheorems, WellFoundedInduction, TLAPS

-----------------------------------------------------------------------------
(* The inductive invariant.                                                 *)
Final == {"passed", "failed", "skipped"}

Status(i) == plan.steps[i].status

(* A call works on its own step: those before are settled, those after      *)
(* untouched.                                                               *)
StepsFit ==
  at # "idle" =>
    /\ self \in Harnesses /\ session[self].used /\ next >= 1
    /\ \A i \in DOMAIN plan.steps :
         /\ i < next => Status(i) \in Final
         /\ i > next => Status(i) = "pending"
    /\ at \in {"check", "run", "observe"} => next \in DOMAIN plan.steps
    /\ at \in {"loop", "check", "skip"} /\ next \in DOMAIN plan.steps => Status(next) = "pending"
    /\ at = "run" => Status(next) = "running"
    /\ at = "observe" => Status(next) \in {"passed", "failed"}

(* What was started, in the order of the plan.                              *)
RanFits ==
  /\ \A i, j \in DOMAIN ran : i < j => ran[i] < ran[j]
  /\ \A k \in DOMAIN plan.steps :
       k \in Range(ran) <=> Status(k) \in {"running", "passed", "failed"}
  /\ at \in {"run", "observe"} => ran # <<>> /\ ran[Len(ran)] = next

(* The guard of a call has counted what was started and has ended.          *)
Failed == {i \in DOMAIN ran : plan.steps[ran[i]].status = "failed"}
Ended == IF at = "run" THEN Len(ran) - 1 ELSE Len(ran)
Signature(i) == <<plan.steps[ran[i]].agent, plan.steps[ran[i]].error>>

CountsFit ==
  at # "idle" =>
    /\ guard.iterations = Ended /\ guard.calls = Ended
    /\ guard.stale = Cardinality(Failed)
    /\ at = "run" => guard.stale < limits.stale

Futile(i) ==
  \A j \in i..(i + limits.failures - 1) :
    plan.steps[ran[j]].status = "failed" /\ Signature(i) = Signature(j)
Bounded ==
  /\ Len(ran) <= limits.iterations /\ Len(ran) <= limits.calls
  /\ Cardinality(Failed) <= limits.stale
  /\ \A i \in 1..(Len(ran) - limits.failures) : ~Futile(i)

(* It remembers the last failures, as many as there were in a row or as may *)
(* be alike.                                                                *)
StreakFits ==
  at # "idle" =>
    LET k == Len(guard.failures)
    IN  /\ k <= limits.failures /\ k <= Ended
        /\ \A j \in 1..k : /\ plan.steps[ran[Ended - k + j]].status = "failed"
                           /\ guard.failures[j] = Signature(Ended - k + j)
        /\ k < limits.failures /\ k < Ended => plan.steps[ran[Ended - k]].status # "failed"

(* What a session tells: nothing before its call, then each settled step.   *)
ToldSoFar == IF at = "observe" THEN next ELSE next - 1

SessionsFit ==
  /\ \A h \in Harnesses : ~session[h].used => session[h] = NewSession
  /\ at # "idle" =>
       /\ ~session[self].done
       /\ session[self].results = [i \in 1..ToldSoFar |-> Result(plan.steps[i])]
       /\ ToldSoFar >= 1 => file[self].results = session[self].results
  /\ \A h \in Harnesses : file[h].done =>
       /\ file[h].results = Told(plan.steps)
       /\ \A i \in DOMAIN plan.steps : Status(i) \in Final
       /\ at # "idle" => plan.steps = <<>>

HarnessInv ==
  TypeOK /\ StepsFit /\ RanFits /\ CountsFit /\ Bounded /\ StreakFits /\ SessionsFit

-----------------------------------------------------------------------------
(* Induction over the numbers, from the theorems about well-founded sets.   *)
LEMMA LeastNumber ==
  ASSUME NEW T \in SUBSET Nat, T # {}
  PROVE  \E n \in T : \A k \in T : n <= k
<1> DEFINE R == OpToRel(<, Nat)
<1>1. IsWellFoundedOn(R, Nat)
  BY NatLessThanWellFounded
<1>2. PICK n \in T : \A k \in T : <<k, n>> \notin R
  BY <1>1, WFMin, Zenon
<1>3. ASSUME NEW k \in T, k < n PROVE FALSE
  <2>1. k \in Nat /\ n \in Nat /\ <<k, n>>[1] < <<k, n>>[2] /\ <<k, n>> \in Nat \X Nat
    BY <1>3
  <2>2. <<k, n>> \in R
    BY <2>1, Zenon DEF OpToRel
  <2>3. QED  BY <1>2, <2>2
<1>4. \A k \in T : k \in Nat /\ n \in Nat /\ ~(k < n)
  BY <1>3
<1>5. \A k \in T : n <= k
  BY <1>4
<1>6. QED  BY <1>5

LEMMA Induction ==
  ASSUME NEW S \in SUBSET Nat, 0 \in S, \A n \in S : n + 1 \in S
  PROVE  S = Nat
<1>1. ASSUME Nat \ S # {} PROVE FALSE
  <2>1. PICK n \in Nat \ S : \A k \in Nat \ S : n <= k
    BY <1>1, LeastNumber, Zenon
  <2>2. n # 0 /\ n - 1 \in Nat /\ ~(n <= n - 1)
    BY <2>1
  <2>3. n - 1 \in S /\ n = (n - 1) + 1
    BY <2>1, <2>2
  <2>4. QED  BY <2>1, <2>3
<1>2. QED  BY <1>1

-----------------------------------------------------------------------------
(* plan: the loop over the names of a request.                              *)
Blank == [steps |-> <<>>, seen |-> {}]

LEMMA LoopExists ==
  ASSUME NEW request, NEW last \in Nat
  PROVE  \E p : p = [n \in 0..last |-> IF n = 0 THEN Blank ELSE WithAgent(p[n - 1], request[n])]
<1> DEFINE F(p, m) == [n \in 0..m |-> IF n = 0 THEN Blank ELSE WithAgent(p[n - 1], request[n])]
           S == {m \in Nat : \E p : p = F(p, m)}
<1>1. 0 \in S
  <2> DEFINE p == [n \in 0..0 |-> Blank]
  <2>1. \A n \in 0..0 : n = 0
    OBVIOUS
  <2>2. p = F(p, 0)
    BY <2>1, Zenon
  <2>3. QED  BY <2>2
<1>2. ASSUME NEW m \in S PROVE m + 1 \in S
  <2>1. m \in Nat
    OBVIOUS
  <2>2. PICK p : p = F(p, m)
    OBVIOUS
  <2> DEFINE q == [n \in 0..(m + 1) |-> IF n = m + 1 THEN WithAgent(p[m], request[m + 1]) ELSE p[n]]
  <2>3. ASSUME NEW n \in 0..(m + 1)
        PROVE  q[n] = IF n = 0 THEN Blank ELSE WithAgent(q[n - 1], request[n])
    <3>1. CASE n = m + 1
      <4>1. n # 0 /\ n - 1 = m /\ m \in 0..(m + 1) /\ m # m + 1
        BY <2>1, <3>1
      <4>2. q[n - 1] = p[m] /\ q[n] = WithAgent(p[m], request[m + 1])
        BY <3>1, <4>1, Zenon
      <4>3. QED  BY <3>1, <4>1, <4>2, Zenon
    <3>2. CASE n # m + 1
      <4>1. n \in 0..m /\ (n # 0 => n - 1 \in 0..(m + 1) /\ n - 1 # m + 1)
        BY <2>1, <3>2
      <4>2. q[n] = p[n] /\ (n # 0 => q[n - 1] = p[n - 1])
        BY <3>2, <4>1, Zenon
      <4>3. p[n] = IF n = 0 THEN Blank ELSE WithAgent(p[n - 1], request[n])
        BY <2>2, <4>1, Zenon
      <4>4. QED  BY <4>2, <4>3, Zenon
    <3>3. QED  BY <3>1, <3>2
  <2>4. q = F(q, m + 1)
    BY <2>3, Zenon
  <2>5. m + 1 \in Nat
    BY <2>1
  <2>6. QED  BY <2>4, <2>5, Zenon
<1>3. S = Nat
  BY <1>1, <1>2, Induction
<1>4. QED  BY <1>3

(* What the loop has planned when it has read n names.                      *)
LEMMA PlannedIs ==
  ASSUME NEW request, Len(request) \in Nat
  PROVE  /\ Planned(request)[0] = Blank
         /\ \A n \in 1..Len(request) :
              Planned(request)[n] = WithAgent(Planned(request)[n - 1], request[n])
<1> DEFINE last == Len(request)
           p == Planned(request)
<1>1. p = [n \in 0..last |-> IF n = 0 THEN Blank ELSE WithAgent(p[n - 1], request[n])]
  BY LoopExists, Zenon DEF Planned, Blank
<1> HIDE DEF p
<1>2. 0 \in 0..last /\ \A n \in 1..last : n \in 0..last /\ n # 0
  OBVIOUS
<1>3. QED  BY <1>1, <1>2, Zenon DEF p

(* The steps of a plan have their types and are all still to be done.       *)
StepType == [agent: Agents, requires: SUBSET DOMAIN Catalog, status: Statuses, error: Errors \cup {None}]
Untouched == [agent: Agents, requires: SUBSET DOMAIN Catalog, status: {"pending"}, error: {None}]

LEMMA Enumerated ==
  ASSUME NEW S, IsFiniteSet(S)
  PROVE  SetToSeq(S) \in Seq(S)
<1>1. Cardinality(S) \in Nat /\ ExistsBijection(1..Cardinality(S), S)
  BY FS_CardinalityType
<1>2. PICK f \in [1..Cardinality(S) -> S] : IsInjective(f)
  BY <1>1 DEF ExistsBijection, Bijection, Injection, IsInjective
<1>3. SetToSeq(S) \in [1..Cardinality(S) -> S]
  BY <1>2, Zenon DEF SetToSeq
<1>4. QED  BY <1>1, <1>3, SeqDef

LEMMA NamesTyped ==
  ASSUME NEW request \in Requests, Gated(request) => Placeable(request)
  PROVE  /\ Len(Staged(request)) \in Nat
         /\ \A n \in 1..Len(Staged(request)) : Staged(request)[n] \in Agents
<1> DEFINE N == Range(request) \cup {"migration_audit"}
           audit == "migration_audit"
<1>1. request \in Seq(N)
  BY HarnessAssumption, SeqMonotonic
<1>2. Staged(request) \in Seq(N)
  <2>1. CASE Staged(request) = request
    BY <1>1, <2>1
  <2>2. CASE Staged(request) # request
    <3> DEFINE v == CHOOSE v \in Position(request, "validator") : TRUE
    <3>1. Staged(request) = InsertAt(request, v, audit) /\ Position(request, "validator") # {}
      BY <2>2, Zenon DEF Staged, Gated
    <3>2. v \in DOMAIN request
      BY <3>1, Zenon DEF Position
    <3> HIDE DEF v
    <3>3. Len(request) \in Nat /\ v \in 1..Len(request) /\ \A i \in 1..Len(request) : request[i] \in N
      BY <1>1, <3>2, LenProperties, ElementOfSeq
    <3>4. v - 1 \in Int /\ v \in Int /\ Len(request) \in Int /\ audit \in N
          /\ (\A i \in 1..(v - 1) : request[i] \in N) /\ (\A i \in v..Len(request) : request[i] \in N)
      BY <3>3
    <3>5. SubSeq(request, 1, v - 1) \in Seq(N) /\ SubSeq(request, v, Len(request)) \in Seq(N)
      BY <3>4, SubSeqProperties
    <3>6. <<audit>> \in Seq(N)
      BY <3>4
    <3> HIDE DEF N
    <3>7. SubSeq(request, 1, v - 1) \o <<audit>> \in Seq(N)
      BY <3>5, <3>6, ConcatProperties
    <3>8. QED  BY <3>1, <3>5, <3>7, ConcatProperties DEF InsertAt
  <2>3. QED  BY <2>1, <2>2
<1> HIDE DEF N
<1>3. Len(Staged(request)) \in Nat /\ DOMAIN Staged(request) = 1..Len(Staged(request))
  BY <1>2, LenProperties
<1>4. Range(Staged(request)) \subseteq Agents
  BY DEF Agents
<1>5. QED  BY <1>3, <1>4 DEF Range

LEMMA WithAgentTyped ==
  ASSUME NEW planned, planned.steps \in Seq(Untouched), NEW name \in Agents
  PROVE  WithAgent(planned, name).steps \in Seq(Untouched)
<1> DEFINE key == CHOOSE k \in Keys(name) : TRUE
           missing == SetToSeq(Catalog[key].requires \ planned.seen)
           required == [i \in DOMAIN missing |-> StepOf(missing[i])]
<1>1. Bare(name) \in Untouched
  BY DEF Bare, Untouched
<1>2. CASE Keys(name) = {}
  <2>1. WithAgent(planned, name) = [planned EXCEPT !.steps = Append(planned.steps, Bare(name))]
    BY <1>2, Zenon DEF WithAgent
  <2>2. Append(planned.steps, Bare(name)) \in Seq(Untouched)
    BY <1>1, AppendProperties
  <2>3. QED  BY <2>1, <2>2
<1>3. CASE Keys(name) # {}
  <2>1. key \in DOMAIN Catalog
    BY <1>3, Zenon DEF Keys
  <2>2. \A k \in DOMAIN Catalog : StepOf(k) \in Untouched
    <3>1. TAKE k \in DOMAIN Catalog
    <3>2. Catalog[k].name \in Agents /\ Catalog[k].requires \subseteq DOMAIN Catalog
      BY HarnessAssumption DEF Agents
    <3>3. QED  BY <3>2 DEF StepOf, Bare, Untouched
  <2> HIDE DEF key
  <2>3. missing \in Seq(DOMAIN Catalog)
    <3>1. IsFiniteSet(Catalog[key].requires) /\ Catalog[key].requires \subseteq DOMAIN Catalog
      BY <2>1, HarnessAssumption
    <3>2. IsFiniteSet(Catalog[key].requires \ planned.seen)
      BY <3>1, FS_Subset
    <3>3. missing \in Seq(Catalog[key].requires \ planned.seen)
      BY <3>2, Enumerated
    <3>4. QED  BY <3>1, <3>3, SeqMonotonic
  <2> HIDE DEF missing
  <2>4. required \in Seq(Untouched)
    <3>1. Len(missing) \in Nat /\ DOMAIN missing = 1..Len(missing) /\ missing \in [1..Len(missing) -> DOMAIN Catalog]
      BY <2>3, LenProperties
    <3>2. required \in [1..Len(missing) -> Untouched]
      BY <2>2, <3>1
    <3>3. QED  BY <3>1, <3>2, SeqDef
  <2>5. <<StepOf(key)>> \in Seq(Untouched)
    BY <2>1, <2>2
  <2> HIDE DEF required
  <2>6. planned.steps \o required \o <<StepOf(key)>> \in Seq(Untouched)
    BY <2>4, <2>5, ConcatProperties
  <2>7. WithAgent(planned, name).steps = planned.steps \o required \o <<StepOf(key)>>
    BY <1>3 DEF WithAgent, key, missing, required
  <2>8. QED  BY <2>6, <2>7
<1>4. QED  BY <1>2, <1>3

LEMMA StepsTyped ==
  ASSUME NEW request \in Requests, Gated(request) => Placeable(request)
  PROVE  Steps(request) \in Seq(Untouched)
<1> DEFINE names == Staged(request)
           p == Planned(names)
           S == {n \in Nat : n <= Len(names) => p[n].steps \in Seq(Untouched)}
<1>1. Len(names) \in Nat /\ \A n \in 1..Len(names) : names[n] \in Agents
  BY NamesTyped
<1> HIDE DEF names
<1>2. p[0] = Blank /\ \A n \in 1..Len(names) : p[n] = WithAgent(p[n - 1], names[n])
  BY <1>1, PlannedIs
<1> HIDE DEF p
<1>3. 0 \in S
  <2>1. p[0].steps = <<>> /\ <<>> \in Seq(Untouched)
    BY <1>2, EmptySeq DEF Blank
  <2>2. 0 \in Nat /\ p[0].steps \in Seq(Untouched)
    BY <2>1
  <2>3. QED  BY <2>2, Zenon
<1>4. ASSUME NEW n \in S PROVE n + 1 \in S
  <2>1. n \in Nat
    OBVIOUS
  <2>2. ASSUME n + 1 <= Len(names) PROVE p[n + 1].steps \in Seq(Untouched)
    <3>1. n + 1 \in 1..Len(names) /\ (n + 1) - 1 = n /\ n <= Len(names)
      BY <1>1, <2>1, <2>2
    <3>2. p[n + 1] = WithAgent(p[n], names[n + 1]) /\ names[n + 1] \in Agents
      BY <1>1, <1>2, <3>1
    <3>3. p[n].steps \in Seq(Untouched)
      BY <3>1
    <3>4. QED  BY <3>2, <3>3, WithAgentTyped
  <2>3. QED  BY <2>1, <2>2
<1>5. S = Nat
  BY <1>3, <1>4, Induction
<1>6. Len(names) <= Len(names)
  BY <1>1
<1>7. QED  BY <1>1, <1>5, <1>6 DEF Steps, names, p

-----------------------------------------------------------------------------
(* What an action does to the plan, to the sessions and to the counts.      *)
LEMMA Typed ==
  ASSUME TypeOK
  PROVE  /\ plan.steps \in Seq(StepType) /\ plan.approval \in BOOLEAN
         /\ Len(plan.steps) \in Nat /\ DOMAIN plan.steps = 1..Len(plan.steps)
         /\ \A i \in DOMAIN plan.steps : plan.steps[i] \in StepType
         /\ next \in Nat /\ next <= Len(plan.steps) + 1
         /\ ran \in Seq(DOMAIN plan.steps) /\ Len(ran) \in Nat /\ DOMAIN ran = 1..Len(ran)
         /\ \A i \in DOMAIN ran : ran[i] \in DOMAIN plan.steps
         /\ limits \in Limits /\ limits.failures \in Nat /\ limits.failures >= 2
         /\ limits.iterations \in Nat /\ limits.calls \in Nat /\ limits.stale \in Nat
<1>1. plan.steps \in Seq(StepType) /\ plan.approval \in BOOLEAN /\ next \in 0..(Len(plan.steps) + 1)
      /\ ran \in Seq(DOMAIN plan.steps) /\ limits \in Limits
  BY DEF TypeOK, StepType
<1>2. Len(plan.steps) \in Nat /\ DOMAIN plan.steps = 1..Len(plan.steps)
      /\ \A i \in DOMAIN plan.steps : plan.steps[i] \in StepType
  BY <1>1, LenProperties, ElementOfSeq
<1>3. Len(ran) \in Nat /\ DOMAIN ran = 1..Len(ran) /\ \A i \in DOMAIN ran : ran[i] \in DOMAIN plan.steps
  BY <1>1, LenProperties, ElementOfSeq
<1>4. limits.failures \in Nat \ {0, 1} /\ limits.iterations \in Nat \ {0} /\ limits.calls \in Nat
      /\ limits.stale \in Nat \ {0}
  BY <1>1, HarnessAssumption
<1>5. next \in Nat /\ next <= Len(plan.steps) + 1
  BY <1>1, <1>2
<1>6. limits.failures \in Nat /\ limits.failures >= 2 /\ limits.iterations \in Nat /\ limits.stale \in Nat
  BY <1>4
<1>7. QED  BY <1>1, <1>2, <1>3, <1>4, <1>5, <1>6, Zenon

LEMMA PlanMoves ==
  ASSUME TypeOK, next \in DOMAIN plan.steps, NEW step \in StepType,
         plan' = [plan EXCEPT !.steps[next] = step]
  PROVE  /\ plan' \in [steps: Seq(StepType), approval: BOOLEAN]
         /\ plan'.steps \in Seq(StepType) /\ Len(plan'.steps) = Len(plan.steps)
         /\ DOMAIN plan'.steps = DOMAIN plan.steps /\ plan'.steps[next] = step
         /\ \A i \in DOMAIN plan.steps : i # next => plan'.steps[i] = plan.steps[i]
<1> DEFINE moved == [plan.steps EXCEPT ![next] = step]
<1>1. plan \in [steps: Seq(StepType), approval: BOOLEAN] /\ next \in 1..Len(plan.steps)
  BY Typed DEF TypeOK, StepType
<1>2. /\ moved \in Seq(StepType) /\ Len(moved) = Len(plan.steps) /\ DOMAIN moved = DOMAIN plan.steps
      /\ moved[next] = step
      /\ \A i \in DOMAIN plan.steps : i # next => moved[i] = plan.steps[i]
  BY <1>1, Typed, ExceptSeq
<1>3. plan' = [plan EXCEPT !.steps = moved]
  OBVIOUS
<1> HIDE DEF moved
<1>4. plan'.steps = moved /\ plan' \in [steps: Seq(StepType), approval: BOOLEAN]
  BY <1>1, <1>2, <1>3
<1>5. QED  BY <1>2, <1>4

LEMMA SavesIs ==
  ASSUME TypeOK, self \in Harnesses, NEW s \in Sessions, NEW then, Saves(s, then)
  PROVE  /\ session' \in [Harnesses -> Sessions] /\ file' \in [Harnesses -> Sessions]
         /\ session'[self] = s
         /\ \A h \in Harnesses : h # self => session'[h] = session[h] /\ file'[h] = file[h]
         /\ \/ at' = then /\ file'[self] = s
            \/ at' = "idle" /\ (file'[self].done => file'[self] = file[self])
<1>1. session \in [Harnesses -> Sessions] /\ file \in [Harnesses -> Sessions]
  BY DEF TypeOK
<1>2. Torn \in Sessions /\ ~Torn.done
  <2>1. NewSession \in Sessions
    <3>1. <<>> \in Seq([agent: Agents, status: Statuses])
      BY EmptySeq
    <3>2. QED  BY <3>1 DEF NewSession, Sessions
  <2>2. QED  BY <2>1 DEF Torn, NewSession, Sessions
<1>3. session' = [session EXCEPT ![self] = s]
  BY DEF Saves
<1>4. PICK left \in {s, file[self], Torn} :
        /\ file' = [file EXCEPT ![self] = left]
        /\ \/ at' = then /\ left = s
           \/ at' = "idle" /\ left \in {file[self], Torn}
  BY DEF Saves
<1> HIDE DEF Sessions, Torn
<1>5. file'[self] = left /\ left \in Sessions
  BY <1>1, <1>2, <1>4
<1>6. QED  BY <1>1, <1>2, <1>3, <1>4, <1>5

(* As long as the steps that were started are what they were, so are the    *)
(* counts.                                                                  *)
SameStarted ==
  /\ ran' = ran /\ limits' = limits
  /\ \A i \in DOMAIN ran : plan'.steps[ran[i]] = plan.steps[ran[i]]
SameCounts ==
  at' # "idle" =>
    /\ at # "idle" /\ (at' = "run" <=> at = "run")
    /\ guard'.iterations = guard.iterations /\ guard'.calls = guard.calls
    /\ guard'.stale = guard.stale /\ guard'.failures = guard.failures

LEMMA CountsKept ==
  ASSUME TypeOK, Bounded, CountsFit, StreakFits, SameStarted, SameCounts
  PROVE  Bounded' /\ CountsFit' /\ StreakFits'
<1>1. Failed' = Failed
  BY DEF Failed, SameStarted
<1>2. Bounded'
  <2>1. \A i \in 1..(Len(ran) - limits.failures), j \in DOMAIN ran :
          i \in DOMAIN ran /\ Signature(i)' = Signature(i) /\ Signature(j)' = Signature(j)
    <3>1. \A i \in 1..(Len(ran) - limits.failures) : i \in DOMAIN ran
      BY Typed
    <3>2. QED  BY <3>1, Zenon DEF Signature, SameStarted
  <2>2. ASSUME NEW i \in 1..(Len(ran) - limits.failures), Futile(i)' PROVE Futile(i)
    <3>1. ASSUME NEW j \in i..(i + limits.failures - 1)
          PROVE  plan.steps[ran[j]].status = "failed" /\ Signature(i) = Signature(j)
      <4>1. j \in DOMAIN ran
        BY Typed
      <4>2. plan'.steps[ran'[j]].status = "failed" /\ Signature(i)' = Signature(j)'
        BY <2>2 DEF Futile, SameStarted
      <4>3. QED  BY <2>1, <4>1, <4>2 DEF SameStarted
    <3>2. QED  BY <3>1 DEF Futile
  <2>3. QED  BY <1>1, <2>2 DEF Bounded, SameStarted
<1>3. CASE at' = "idle"
  BY <1>2, <1>3 DEF CountsFit, StreakFits
<1>4. CASE at' # "idle"
  <2>1. Ended' = Ended /\ at # "idle" /\ (at' = "run" => at = "run") /\ limits' = limits
    BY <1>4 DEF Ended, SameCounts, SameStarted
  <2>2. CountsFit'
    BY <1>1, <1>4, <2>1 DEF CountsFit, SameCounts
  <2>3. StreakFits'
    <3> DEFINE k == Len(guard.failures)
    <3>1. /\ k <= limits.failures /\ k <= Ended
          /\ \A j \in 1..k : /\ plan.steps[ran[Ended - k + j]].status = "failed"
                             /\ guard.failures[j] = Signature(Ended - k + j)
          /\ k < limits.failures /\ k < Ended => plan.steps[ran[Ended - k]].status # "failed"
      BY <2>1 DEF StreakFits
    <3>2. k \in Nat /\ Ended \in Int /\ Ended <= Len(ran)
      BY Typed DEF TypeOK, Ended
    <3>3. guard'.failures = guard.failures
      BY <1>4 DEF SameCounts
    <3> HIDE DEF k
    <3>4. \A j \in 1..k : Ended - k + j \in DOMAIN ran
      BY <3>1, <3>2, Typed
    <3>5. k < Ended => Ended - k \in DOMAIN ran
      BY <3>1, <3>2, Typed
    <3>6. \A i \in DOMAIN ran : plan'.steps[ran'[i]] = plan.steps[ran[i]] /\ Signature(i)' = Signature(i)
      BY DEF SameStarted, Signature
    <3>7. QED  BY <2>1, <3>1, <3>3, <3>4, <3>5, <3>6 DEF StreakFits, k
  <2>4. QED  BY <1>2, <2>2, <2>3
<1>5. QED  BY <1>3, <1>4

(* The same for what was started.                                           *)
LEMMA RanKept ==
  ASSUME TypeOK, RanFits, ran' = ran, DOMAIN plan'.steps = DOMAIN plan.steps,
         \A k \in DOMAIN plan.steps :
           plan'.steps[k].status \in {"running", "passed", "failed"}
             <=> plan.steps[k].status \in {"running", "passed", "failed"},
         at' \in {"run", "observe"} => at \in {"run", "observe"} /\ next' = next
  PROVE  RanFits'
  BY DEF RanFits, Status

-----------------------------------------------------------------------------
(* The steps of a call.                                                     *)
LEMMA CallFacts ==
  ASSUME HarnessInv, at # "idle"
  PROVE  /\ TypeOK /\ self \in Harnesses /\ next >= 1 /\ next \in Nat
         /\ session[self] \in Sessions /\ session[self].used /\ ~session[self].done
         /\ session[self].results = [i \in 1..ToldSoFar |-> Result(plan.steps[i])]
         /\ session[self].results \in Seq([agent: Agents, status: Statuses])
         /\ next \in DOMAIN plan.steps => \A h \in Harnesses : ~file[h].done
<1>1. TypeOK /\ self \in Harnesses /\ next >= 1 /\ session[self].used /\ ~session[self].done
      /\ session[self].results = [i \in 1..ToldSoFar |-> Result(plan.steps[i])]
  BY DEF HarnessInv, StepsFit, SessionsFit
<1>2. session[self] \in Sessions
  BY <1>1 DEF TypeOK
<1>3. session[self].results \in Seq([agent: Agents, status: Statuses])
  BY <1>2 DEF Sessions
<1>4. next \in DOMAIN plan.steps => plan.steps # <<>>
  OBVIOUS
<1>5. next \in DOMAIN plan.steps => \A h \in Harnesses : ~file[h].done
  BY <1>4 DEF HarnessInv, SessionsFit
<1>6. QED  BY <1>1, <1>2, <1>3, <1>5, Typed

(* A step is settled and told.                                              *)
LEMMA RecordsIs ==
  ASSUME HarnessInv, at # "idle", at # "observe", next \in DOMAIN plan.steps,
         NEW step \in StepType, step.status \in Final, NEW then, Records(step, then),
         \/ then = "observe" /\ next' = next
         \/ then \in {"loop", "skip"} /\ next' = next + 1,
         self' = self
  PROVE  /\ plan' \in [steps: Seq(StepType), approval: BOOLEAN]
         /\ DOMAIN plan'.steps = DOMAIN plan.steps /\ Len(plan'.steps) = Len(plan.steps)
         /\ plan'.steps[next] = step
         /\ \A i \in DOMAIN plan.steps : i # next => plan'.steps[i] = plan.steps[i]
         /\ at' \in {"idle", then}
         /\ session' \in [Harnesses -> Sessions] /\ file' \in [Harnesses -> Sessions]
         /\ session'[self].used
         /\ SessionsFit'
<1> DEFINE told == Append(session[self].results, Result(step))
           s == [session[self] EXCEPT !.results = told]
<1>1. plan' = [plan EXCEPT !.steps[next] = step] /\ Saves(s, then)
  BY DEF Records
<1>2. /\ plan' \in [steps: Seq(StepType), approval: BOOLEAN] /\ Len(plan'.steps) = Len(plan.steps)
      /\ DOMAIN plan'.steps = DOMAIN plan.steps /\ plan'.steps[next] = step
      /\ \A i \in DOMAIN plan.steps : i # next => plan'.steps[i] = plan.steps[i]
  BY <1>1, PlanMoves, CallFacts
<1>3. Result(step) \in [agent: Agents, status: Statuses]
  BY DEF Result, StepType
<1>4. told \in Seq([agent: Agents, status: Statuses])
      /\ Len(told) = Len(session[self].results) + 1
      /\ told[Len(told)] = Result(step)
      /\ \A i \in 1..Len(session[self].results) : told[i] = session[self].results[i]
  BY <1>3, CallFacts, AppendProperties
<1>5. told = [i \in 1..next |-> Result(plan'.steps[i])]
  <2>1. /\ session[self].results = [i \in 1..(next - 1) |-> Result(plan.steps[i])]
        /\ next \in Nat /\ next >= 1
    BY CallFacts DEF ToldSoFar
  <2>2. Len(session[self].results) = next - 1
    BY <2>1, CallFacts, LenProperties
  <2>3. Len(told) = next /\ DOMAIN told = 1..next
    BY <1>4, <2>1, <2>2, LenProperties
  <2>4. told[next] = Result(plan'.steps[next])
    BY <1>2, <1>4, <2>3
  <2>5. ASSUME NEW i \in 1..next, i # next PROVE told[i] = Result(plan'.steps[i])
    <3>1. i \in 1..(next - 1) /\ i \in DOMAIN plan.steps
      BY <2>1, <2>5, CallFacts, Typed
    <3>2. told[i] = Result(plan.steps[i])
      BY <1>4, <2>1, <2>2, <3>1
    <3>3. QED  BY <1>2, <2>5, <3>1, <3>2
  <2>6. \A i \in 1..next : told[i] = Result(plan'.steps[i])
    BY <2>4, <2>5
  <2>7. QED  BY <1>4, <2>3, <2>6
<1>6. s \in Sessions /\ s.used /\ ~s.done /\ s.results = told
  <2> HIDE DEF told
  <2>1. session[self] \in Sessions /\ session[self].used /\ ~session[self].done
    BY CallFacts
  <2>2. QED  BY <1>4, <2>1 DEF Sessions
<1> HIDE DEF told, s
<1>7. /\ session' \in [Harnesses -> Sessions] /\ file' \in [Harnesses -> Sessions]
      /\ session'[self] = s
      /\ \A h \in Harnesses : h # self => session'[h] = session[h] /\ file'[h] = file[h]
      /\ \/ at' = then /\ file'[self] = s
         \/ at' = "idle" /\ (file'[self].done => file'[self] = file[self])
  BY <1>1, <1>6, CallFacts, SavesIs
<1>8. \A h \in Harnesses : ~file'[h].done
  BY <1>6, <1>7, CallFacts
<1>9. \A h \in Harnesses : ~session'[h].used => session'[h] = NewSession
  BY <1>6, <1>7 DEF HarnessInv, SessionsFit
<1>10. at' # "idle" => ToldSoFar' = next
  <2>1. next \in Nat /\ (next + 1) - 1 = next
    BY CallFacts
  <2>2. QED  BY <1>7, <2>1 DEF ToldSoFar
<1>11. at' # "idle" =>
         /\ ~session'[self'].done
         /\ session'[self'].results = [i \in 1..ToldSoFar' |-> Result(plan'.steps[i])]
         /\ file'[self'].results = session'[self'].results
  BY <1>5, <1>6, <1>7, <1>10
<1>12. SessionsFit'
  BY <1>8, <1>9, <1>11 DEF SessionsFit
<1>13. QED  BY <1>2, <1>6, <1>7, <1>12

(* A step is skipped.                                                       *)
LEMMA SkipHolds ==
  ASSUME HarnessInv, at \in {"loop", "skip"}, NEW then \in {"loop", "skip"},
         next \in DOMAIN plan.steps, Records(Skipped(plan.steps[next]), then), next' = next + 1,
         gates' \in [Harnesses -> [approval: BOOLEAN, executed: Nat]],
         UNCHANGED <<limits, self, guard, ran>>
  PROVE  HarnessInv'
<1> DEFINE step == Skipped(plan.steps[next])
<1>1. step \in StepType /\ step.status = "skipped"
  <2>1. plan.steps[next] \in StepType
    BY Typed DEF HarnessInv
  <2>2. QED  BY <2>1 DEF Skipped, StepType, Statuses
<1> HIDE DEF step
<1>2. /\ plan' \in [steps: Seq(StepType), approval: BOOLEAN]
      /\ DOMAIN plan'.steps = DOMAIN plan.steps /\ Len(plan'.steps) = Len(plan.steps)
      /\ plan'.steps[next] = step
      /\ \A i \in DOMAIN plan.steps : i # next => plan'.steps[i] = plan.steps[i]
      /\ at' \in {"idle", then}
      /\ session' \in [Harnesses -> Sessions] /\ file' \in [Harnesses -> Sessions]
      /\ session'[self].used
      /\ SessionsFit'
  <2>1. at # "idle" /\ at # "observe" /\ step.status \in Final
    BY <1>1 DEF Final
  <2>2. Records(step, then)
    BY DEF step
  <2>3. QED  BY <1>1, <2>1, <2>2, RecordsIs
<1>3. /\ TypeOK /\ StepsFit /\ RanFits /\ CountsFit /\ Bounded /\ StreakFits
      /\ plan.steps[next].status = "pending"
      /\ \A i \in DOMAIN plan.steps :
           /\ i < next => plan.steps[i].status \in Final
           /\ i > next => plan.steps[i].status = "pending"
  BY DEF HarnessInv, StepsFit, Status
<1>4. next \in Nat /\ next <= Len(plan.steps) /\ next >= 1
  BY <1>3, Typed, CallFacts
<1>5. TypeOK'
  <2>1. next' \in 0..(Len(plan'.steps) + 1)
    BY <1>2, <1>3, <1>4, Typed
  <2>2. at' \in {"idle", "loop", "check", "run", "observe", "skip"}
    BY <1>2
  <2>3. ran' \in Seq(DOMAIN plan'.steps)
    BY <1>2, <1>3, Typed
  <2>4. QED  BY <1>2, <1>3, <2>1, <2>2, <2>3 DEF TypeOK, StepType
<1>6. StepsFit'
  <2>1. ASSUME NEW i \in DOMAIN plan'.steps
        PROVE  /\ i < next + 1 => plan'.steps[i].status \in Final
               /\ i > next + 1 => plan'.steps[i].status = "pending"
               /\ i = next + 1 => plan'.steps[i].status = "pending"
    <3>1. i \in DOMAIN plan.steps /\ i \in Nat
      BY <1>2, <1>3, Typed
    <3>2. CASE i = next
      BY <1>1, <1>2, <1>4, <3>2 DEF Final
    <3>3. CASE i < next
      <4>1. i # next /\ i < next + 1 /\ ~(i > next + 1) /\ i # next + 1
        BY <1>4, <3>1, <3>3
      <4>2. plan'.steps[i] = plan.steps[i] /\ plan.steps[i].status \in Final
        BY <1>2, <1>3, <3>1, <3>3, <4>1, Zenon
      <4>3. QED  BY <4>1, <4>2
    <3>4. CASE i > next
      <4>0. i # next
        BY <1>4, <3>1, <3>4
      <4>1. plan'.steps[i] = plan.steps[i] /\ plan.steps[i].status = "pending"
        BY <1>2, <1>3, <3>1, <3>4, <4>0, Zenon
      <4>2. QED  BY <1>4, <3>1, <3>4, <4>1
    <3>5. QED  BY <1>4, <3>1, <3>2, <3>3, <3>4
  <2>2. self' \in Harnesses /\ session'[self'].used /\ next' >= 1
    BY <1>2, <1>4, CallFacts
  <2>3. QED  BY <1>2, <2>1, <2>2 DEF StepsFit, Status
<1>7. next \notin Range(ran)
  BY <1>3 DEF RanFits, Status
<1>8. \A i \in DOMAIN ran : ran[i] # next /\ ran[i] \in DOMAIN plan.steps
  BY <1>3, <1>7, Typed DEF Range
<1>9. SameStarted /\ SameCounts
  BY <1>2, <1>8 DEF SameStarted, SameCounts
<1>10. Bounded' /\ CountsFit' /\ StreakFits'
  BY <1>3, <1>9, CountsKept
<1>11. RanFits'
  BY <1>1, <1>2, <1>3, RanKept
<1>12. QED  BY <1>2, <1>5, <1>6, <1>10, <1>11 DEF HarnessInv

LEMMA StartHolds ==
  ASSUME HarnessInv, NEW h \in Harnesses, Execute(h)
  PROVE  HarnessInv'
<1>1. /\ at = "idle" /\ ~session[h].used /\ at' = "loop" /\ self' = h /\ next' = 1 /\ guard' = NewGuard
      /\ \A i \in DOMAIN plan.steps : plan.steps[i].status = "pending"
      /\ session' = [session EXCEPT ![h].used = TRUE]
      /\ UNCHANGED <<limits, plan, gates, file, ran>>
  BY DEF Execute
<1>2. TypeOK /\ RanFits /\ Bounded /\ SessionsFit
  BY DEF HarnessInv
<1>3. DOMAIN ran = {} /\ Len(ran) = 0 /\ ran = <<>>
  <2>1. \A i \in DOMAIN ran : ran[i] \in Range(ran) /\ ran[i] \in DOMAIN plan.steps
    BY <1>2, Typed DEF Range
  <2>2. \A i \in DOMAIN ran : FALSE
    BY <1>1, <1>2, <2>1 DEF RanFits, Status
  <2>3. ran \in Seq(DOMAIN plan.steps) /\ DOMAIN ran = {}
    BY <1>2, <2>2, Typed
  <2>4. ~(1 \in 1..Len(ran))
    BY <1>2, <2>3, Typed
  <2>5. Len(ran) = 0
    BY <1>2, <2>4, Typed
  <2>6. QED  BY <2>3, <2>5, EmptySeq
<1>4. session[h] = NewSession /\ session \in [Harnesses -> Sessions]
  BY <1>1, <1>2 DEF SessionsFit, TypeOK
<1>5. /\ session'[h] = [NewSession EXCEPT !.used = TRUE]
      /\ \A k \in Harnesses : k # h => session'[k] = session[k]
  BY <1>1, <1>4
<1>6. [NewSession EXCEPT !.used = TRUE] \in Sessions
  <2>1. <<>> \in Seq([agent: Agents, status: Statuses])
    BY EmptySeq
  <2>2. QED  BY <2>1 DEF NewSession, Sessions
<1>7. session' \in [Harnesses -> Sessions]
  BY <1>1, <1>4, <1>5, <1>6
<1>8. TypeOK'
  <2>1. <<>> \in Seq(Agents \X Errors)
    BY EmptySeq
  <2>2. guard' \in Guards
    BY <1>1, <2>1 DEF NewGuard, Guards
  <2>3. 1 \in 0..(Len(plan.steps) + 1)
    BY <1>2, Typed
  <2>4. at' \in {"idle", "loop", "check", "run", "observe", "skip"} /\ self' \in Harnesses \cup {None}
    BY <1>1
  <2>6. next' \in 0..(Len(plan'.steps) + 1)
    BY <1>1, <2>3
  <2>7. limits' \in Limits /\ ran' \in Seq(DOMAIN plan'.steps) /\ file' \in [Harnesses -> Sessions]
        /\ gates' \in [Harnesses -> [approval: BOOLEAN, executed: Nat]]
    BY <1>1, <1>2 DEF TypeOK
  <2>8. plan' \in [steps: Seq([agent: Agents, requires: SUBSET DOMAIN Catalog, status: Statuses,
                           error: Errors \cup {None}]), approval: BOOLEAN]
    BY <1>1, <1>2 DEF TypeOK
  <2>9. QED  BY <1>7, <2>2, <2>4, <2>6, <2>7, <2>8 DEF TypeOK
<1>9. StepsFit'
  <2>1. \A i \in DOMAIN plan.steps : ~(i < 1)
    BY <1>2, Typed
  <2>2. session'[h].used
    BY <1>5 DEF NewSession
  <2>3. QED  BY <1>1, <2>1, <2>2 DEF StepsFit, Status
<1>10. RanFits'
  BY <1>1, <1>2, RanKept
<1>11. Ended' = 0 /\ Len(ran') = 0
  BY <1>1, <1>3 DEF Ended
<1>12. CountsFit'
  <2>1. Failed' = {} /\ Cardinality({}) = 0
    BY <1>1, <1>3, FS_EmptySet DEF Failed
  <2>2. QED  BY <1>1, <1>11, <2>1 DEF CountsFit, NewGuard
<1>13. StreakFits'
  <2>1. Len(guard'.failures) = 0
    BY <1>1 DEF NewGuard
  <2>2. 0 <= limits'.failures /\ \A j \in 1..0 : FALSE
    BY <1>1, <1>2, Typed
  <2>3. QED  BY <1>11, <2>1, <2>2 DEF StreakFits
<1>14. Bounded'
  <2>1. limits' = limits /\ ran' = ran /\ plan' = plan
    BY <1>1
  <2>2. QED  BY <1>2, <2>1 DEF Bounded, Failed, Futile, Signature
<1>15. SessionsFit'
  <2>1. \A k \in Harnesses : ~session'[k].used => session'[k] = NewSession
    BY <1>2, <1>5 DEF SessionsFit, NewSession
  <2>2. ToldSoFar' = 0
    BY <1>1 DEF ToldSoFar
  <2>3. session'[h].results = <<>> /\ ~session'[h].done
    BY <1>5 DEF NewSession
  <2>4. <<>> = [i \in 1..0 |-> Result(plan'.steps[i])]
    OBVIOUS
  <2>5. ASSUME NEW k \in Harnesses, file[k].done PROVE plan.steps = <<>>
    <3>1. DOMAIN plan.steps = {}
      BY <1>1, <1>2, <2>5 DEF SessionsFit, Status, Final
    <3>2. plan.steps \in Seq(StepType) /\ Len(plan.steps) = 0
      <4>1. ~(1 \in 1..Len(plan.steps)) /\ Len(plan.steps) \in Nat /\ plan.steps \in Seq(StepType)
        BY <1>2, <3>1, Typed
      <4>2. QED  BY <4>1
    <3>3. QED  BY <3>2, EmptySeq
  <2>6. \A k \in Harnesses : file'[k].done =>
          /\ file'[k].results = Told(plan'.steps)
          /\ \A i \in DOMAIN plan'.steps : Status(i)' \in Final
          /\ plan'.steps = <<>>
    BY <1>1, <1>2, <2>5 DEF SessionsFit, Told, Status
  <2>7. /\ ~session'[self'].done
        /\ session'[self'].results = [i \in 1..ToldSoFar' |-> Result(plan'.steps[i])]
        /\ ~(ToldSoFar' >= 1)
    BY <1>1, <2>2, <2>3, <2>4
  <2>8. QED  BY <2>1, <2>6, <2>7 DEF SessionsFit
<1>16. QED  BY <1>8, <1>9, <1>10, <1>12, <1>13, <1>14, <1>15 DEF HarnessInv

LEMMA SkipUnmetHolds ==
  ASSUME HarnessInv, SkipUnmet
  PROVE  HarnessInv'
<1>1. /\ at = "loop" /\ next \in DOMAIN plan.steps /\ Records(Skipped(plan.steps[next]), "loop")
      /\ next' = next + 1 /\ UNCHANGED <<limits, self, guard, gates, ran>>
  BY DEF SkipUnmet, InLoop
<1>2. gates' \in [Harnesses -> [approval: BOOLEAN, executed: Nat]]
  BY <1>1 DEF HarnessInv, TypeOK
<1>3. QED  BY <1>1, <1>2, SkipHolds

LEMMA SkipRestHolds ==
  ASSUME HarnessInv, SkipRest
  PROVE  HarnessInv'
<1>1. /\ at = "skip" /\ next \in DOMAIN plan.steps /\ Records(Skipped(plan.steps[next]), "skip")
      /\ next' = next + 1 /\ UNCHANGED <<limits, self, guard, gates, ran>>
  BY DEF SkipRest
<1>2. gates' \in [Harnesses -> [approval: BOOLEAN, executed: Nat]]
  BY <1>1 DEF HarnessInv, TypeOK
<1>3. QED  BY <1>1, <1>2, SkipHolds

(* The plan, what was started and the sessions stay; the call moves.        *)
LEMMA QuietHolds ==
  ASSUME HarnessInv, UNCHANGED <<limits, plan, self, ran>>,
         at # "idle", SameCounts,
         guard' \in Guards,
         gates' \in [Harnesses -> [approval: BOOLEAN, executed: Nat]],
         session' \in [Harnesses -> Sessions], file' \in [Harnesses -> Sessions],
         SessionsFit', session'[self].used,
         \/ at' = at /\ next' = next
         \/ at' = "idle" /\ next' \in {next, next + 1} /\ (next' = next + 1 => at = "observe")
         \/ at = "loop" /\ at' \in {"check", "skip"} /\ next' = next /\ next \in DOMAIN plan.steps
         \/ at = "check" /\ at' = "skip" /\ next' = next
         \/ at = "observe" /\ at' \in {"loop", "skip"} /\ next' = next + 1
  PROVE  HarnessInv'
<1>1. TypeOK /\ StepsFit /\ RanFits /\ CountsFit /\ Bounded /\ StreakFits
  BY DEF HarnessInv
<1>2. /\ self \in Harnesses /\ next >= 1 /\ next \in Nat /\ next <= Len(plan.steps) + 1
      /\ at = "observe" => next \in DOMAIN plan.steps /\ plan.steps[next].status \in {"passed", "failed"}
      /\ at \in {"loop", "check", "skip"} /\ next \in DOMAIN plan.steps => plan.steps[next].status = "pending"
      /\ at = "check" => next \in DOMAIN plan.steps
      /\ \A i \in DOMAIN plan.steps :
           /\ i < next => plan.steps[i].status \in Final
           /\ i > next => plan.steps[i].status = "pending"
      /\ DOMAIN plan.steps = 1..Len(plan.steps) /\ Len(plan.steps) \in Nat
  BY <1>1, Typed, CallFacts DEF StepsFit, Status
<1>3. next' = next \/ (at = "observe" /\ next' = next + 1)
  OBVIOUS
<1>4. TypeOK'
  <2>1. next' \in 0..(Len(plan.steps) + 1)
    BY <1>2, <1>3
  <2>2. at' \in {"idle", "loop", "check", "run", "observe", "skip"}
    BY <1>1 DEF TypeOK
  <2>3. QED  BY <1>1, <2>1, <2>2 DEF TypeOK
<1>5. StepsFit'
  <2>1. CASE next' = next
    <3>1. at' # "idle" => 
            \/ at' = at
            \/ at' \in {"check", "skip"} /\ next \in DOMAIN plan.steps /\ at \in {"loop", "check"}
      <4>1. next + 1 # next
        BY <1>2
      <4>2. ~(at = "observe" /\ next' = next + 1) /\ ~(next' = next + 1)
        BY <2>1, <4>1
      <4>3. CASE at' = at
        BY <4>3, Zenon
      <4>4. CASE at' # at
        BY <1>2, <4>2, <4>4
      <4>5. QED  BY <4>3, <4>4
    <3>2. QED  BY <1>1, <1>2, <2>1, <3>1 DEF StepsFit, Status
  <2>2. CASE at = "observe" /\ next' = next + 1
    <3>1. \A i \in DOMAIN plan.steps : (i < next + 1 <=> i < next \/ i = next)
            /\ (i > next + 1 => i > next) /\ next + 1 > next
      BY <1>2
    <3>2. \A i \in DOMAIN plan.steps :
            /\ i < next + 1 => plan.steps[i].status \in Final
            /\ i > next + 1 => plan.steps[i].status = "pending"
      BY <1>2, <2>2, <3>1 DEF Final
    <3>3. next + 1 \in DOMAIN plan.steps => plan.steps[next + 1].status = "pending"
      BY <1>2, <3>1
    <3>4. at' \in {"idle", "loop", "skip"} /\ next + 1 >= 1
      BY <1>2, <2>2
    <3>5. QED  BY <1>2, <2>2, <3>2, <3>3, <3>4 DEF StepsFit, Status
  <2>3. QED  BY <1>3, <2>1, <2>2
<1>6. SameStarted
  BY DEF SameStarted
<1>7. Bounded' /\ CountsFit' /\ StreakFits'
  BY <1>1, <1>6, CountsKept
<1>8. RanFits'
  BY <1>1, RanKept
<1>9. QED  BY <1>4, <1>5, <1>7, <1>8 DEF HarnessInv

(* Every session stays what it is, or the step's own part of it is saved.   *)
LEMMA SessionsKept ==
  ASSUME SessionsFit, TypeOK, at # "idle", UNCHANGED <<plan, session, file, self>>,
         at' # "idle" => ToldSoFar' = ToldSoFar
  PROVE  SessionsFit' /\ session' \in [Harnesses -> Sessions] /\ file' \in [Harnesses -> Sessions]
<1>1. session' \in [Harnesses -> Sessions] /\ file' \in [Harnesses -> Sessions]
  BY DEF TypeOK
<1>2. /\ \A h \in Harnesses : ~session'[h].used => session'[h] = NewSession
      /\ \A h \in Harnesses : file'[h].done =>
           /\ file'[h].results = Told(plan'.steps)
           /\ \A i \in DOMAIN plan'.steps : Status(i)' \in Final
           /\ at' # "idle" => plan'.steps = <<>>
  BY DEF SessionsFit, Told, Status
<1>3. at' # "idle" =>
       /\ ~session'[self'].done
       /\ session'[self'].results = [i \in 1..ToldSoFar' |-> Result(plan'.steps[i])]
       /\ (ToldSoFar' >= 1 => file'[self'].results = session'[self'].results)
  BY DEF SessionsFit
<1>4. QED  BY <1>1, <1>2, <1>3 DEF SessionsFit

(* Nothing but the place of the call changes.                               *)
LEMMA MoveHolds ==
  ASSUME HarnessInv, UNCHANGED <<limits, plan, self, ran, guard, session, file>>, at # "idle",
         gates' \in [Harnesses -> [approval: BOOLEAN, executed: Nat]],
         \/ at' = "idle" /\ next' = next
         \/ at = "loop" /\ at' = "check" /\ next' = next /\ next \in DOMAIN plan.steps
         \/ at = "observe" /\ at' = "loop" /\ next' = next + 1
  PROVE  HarnessInv'
<1>1. TypeOK /\ SessionsFit /\ next \in Nat /\ session[self].used
  BY CallFacts DEF HarnessInv
<1>2. at' # "idle" => ToldSoFar' = ToldSoFar
  BY <1>1 DEF ToldSoFar
<1>3. SessionsFit' /\ session' \in [Harnesses -> Sessions] /\ file' \in [Harnesses -> Sessions]
  BY <1>1, <1>2, SessionsKept
<1>4. SameCounts
  BY DEF SameCounts
<1>5. guard' \in Guards
  BY <1>1 DEF TypeOK
<1>6. session'[self].used
  BY <1>1
<1>7. \/ at' = "idle" /\ next' \in {next, next + 1} /\ (next' = next + 1 => at = "observe")
      \/ at = "loop" /\ at' \in {"check", "skip"} /\ next' = next /\ next \in DOMAIN plan.steps
      \/ at = "observe" /\ at' \in {"loop", "skip"} /\ next' = next + 1
  <2>1. next + 1 # next
    BY <1>1
  <2>2. QED  BY <2>1
<1>8. QED  BY <1>3, <1>4, <1>5, <1>6, <1>7, QuietHolds

LEMMA GateHolds ==
  ASSUME HarnessInv, Gate
  PROVE  HarnessInv'
<1>1. /\ at = "loop" /\ next \in DOMAIN plan.steps /\ UNCHANGED <<limits, self, guard, ran>>
      /\ gates' = [gates EXCEPT ![self].executed = gates[self].executed + 1]
  BY DEF Gate, InLoop
<1>2. TypeOK /\ self \in Harnesses
  BY <1>1, CallFacts
<1>3. gates' \in [Harnesses -> [approval: BOOLEAN, executed: Nat]]
  <2>1. gates \in [Harnesses -> [approval: BOOLEAN, executed: Nat]]
    BY <1>2 DEF TypeOK
  <2>2. gates[self].executed + 1 \in Nat
    BY <1>2, <2>1
  <2>3. QED  BY <1>1, <1>2, <2>1, <2>2
<1>4. CASE Records(Skipped(plan.steps[next]), "loop") /\ next' = next + 1
  BY <1>1, <1>3, <1>4, SkipHolds
<1>5. CASE at' = "check" /\ UNCHANGED <<plan, session, file, next>>
  BY <1>1, <1>3, <1>5, MoveHolds
<1>6. QED  BY <1>4, <1>5 DEF Gate

LEMMA CannotRunHolds ==
  ASSUME HarnessInv, CannotRun
  PROVE  HarnessInv'
<1>1. /\ at = "run" /\ at' = "idle"
      /\ UNCHANGED <<limits, plan, self, next, guard, gates, session, file, ran>>
  BY DEF CannotRun
<1>2. gates' \in [Harnesses -> [approval: BOOLEAN, executed: Nat]]
  BY <1>1 DEF HarnessInv, TypeOK
<1>3. QED  BY <1>1, <1>2, MoveHolds

LEMMA GoOnHolds ==
  ASSUME HarnessInv, GoOn
  PROVE  HarnessInv'
<1>1. /\ at = "observe" /\ at' = "loop" /\ next' = next + 1
      /\ UNCHANGED <<limits, plan, self, guard, gates, session, file, ran>>
  BY DEF GoOn
<1>2. gates' \in [Harnesses -> [approval: BOOLEAN, executed: Nat]]
  BY <1>1 DEF HarnessInv, TypeOK
<1>3. QED  BY <1>1, <1>2, MoveHolds

LEMMA ExpireHolds ==
  ASSUME HarnessInv, Expire
  PROVE  HarnessInv'
<1>1. /\ at # "idle" /\ guard' = [guard EXCEPT !.late = TRUE]
      /\ UNCHANGED <<limits, plan, at, self, next, gates, session, file, ran>>
  BY DEF Expire
<1>2. TypeOK /\ SessionsFit /\ session[self].used
  BY <1>1, CallFacts DEF HarnessInv
<1>3. SessionsFit' /\ session' \in [Harnesses -> Sessions] /\ file' \in [Harnesses -> Sessions]
  BY <1>1, <1>2, SessionsKept DEF ToldSoFar
<1>4. /\ guard'.iterations = guard.iterations /\ guard'.calls = guard.calls
      /\ guard'.stale = guard.stale /\ guard'.failures = guard.failures /\ guard' \in Guards
  <2>1. guard \in Guards
    BY <1>2 DEF TypeOK
  <2>2. QED  BY <1>1, <2>1 DEF Guards
<1>5. SameCounts
  BY <1>1, <1>4 DEF SameCounts
<1>6. gates' \in [Harnesses -> [approval: BOOLEAN, executed: Nat]] /\ session'[self].used
  BY <1>1, <1>2 DEF TypeOK
<1>7. QED  BY <1>1, <1>3, <1>4, <1>5, <1>6, QuietHolds

(* SAFE-EXIT ends the run: the decision is saved.                           *)
LEMMA StopHolds ==
  ASSUME HarnessInv, Stop
  PROVE  HarnessInv'
<1> DEFINE s == [session[self] EXCEPT !.decision = "UNCERTAIN"]
<1>1. /\ at \in {"loop", "check", "observe"} /\ (at \in {"loop", "check"} => next \in DOMAIN plan.steps)
      /\ Saves(s, "skip") /\ next' = IF at = "observe" THEN next + 1 ELSE next
      /\ UNCHANGED <<limits, plan, self, guard, gates, ran>>
  <2>1. at = "check" => next \in DOMAIN plan.steps
    BY DEF HarnessInv, StepsFit
  <2>2. QED  BY <2>1 DEF Stop, Ready, InLoop
<1>2. /\ TypeOK /\ self \in Harnesses /\ next \in Nat /\ session[self] \in Sessions
      /\ session[self].used /\ ~session[self].done
      /\ session[self].results = [i \in 1..ToldSoFar |-> Result(plan.steps[i])]
  BY <1>1, CallFacts
<1>3. s \in Sessions /\ s.used /\ ~s.done /\ s.results = session[self].results
  BY <1>2 DEF Sessions
<1> HIDE DEF s
<1>4. /\ session' \in [Harnesses -> Sessions] /\ file' \in [Harnesses -> Sessions]
      /\ session'[self] = s
      /\ \A h \in Harnesses : h # self => session'[h] = session[h] /\ file'[h] = file[h]
      /\ \/ at' = "skip" /\ file'[self] = s
         \/ at' = "idle" /\ (file'[self].done => file'[self] = file[self])
  BY <1>1, <1>2, <1>3, SavesIs
<1>5. next \in DOMAIN plan.steps
  BY <1>1 DEF HarnessInv, StepsFit
<1>6. \A h \in Harnesses : ~file[h].done
  BY <1>1, <1>5, CallFacts
<1>7. \A h \in Harnesses : ~file'[h].done
  BY <1>3, <1>4, <1>6
<1>8. \A h \in Harnesses : ~session'[h].used => session'[h] = NewSession
  BY <1>3, <1>4 DEF HarnessInv, SessionsFit
<1>9. at' # "idle" => ToldSoFar' = ToldSoFar
  BY <1>1, <1>2, <1>4 DEF ToldSoFar
<1>10. at' # "idle" =>
         /\ ~session'[self'].done
         /\ session'[self'].results = [i \in 1..ToldSoFar' |-> Result(plan'.steps[i])]
         /\ file'[self'].results = session'[self'].results
  BY <1>1, <1>2, <1>3, <1>4, <1>9
<1>11. SessionsFit'
  BY <1>7, <1>8, <1>10 DEF SessionsFit
<1>12. SameCounts
  BY <1>1, <1>4 DEF SameCounts
<1>13. guard' \in Guards /\ gates' \in [Harnesses -> [approval: BOOLEAN, executed: Nat]]
  BY <1>1, <1>2 DEF TypeOK
<1>14. session'[self].used
  BY <1>3, <1>4
<1>15. \/ at' = "idle" /\ next' \in {next, next + 1} /\ (next' = next + 1 => at = "observe")
       \/ at = "loop" /\ at' \in {"check", "skip"} /\ next' = next /\ next \in DOMAIN plan.steps
       \/ at = "check" /\ at' = "skip" /\ next' = next
       \/ at = "observe" /\ at' \in {"loop", "skip"} /\ next' = next + 1
  <2>1. next + 1 # next
    BY <1>2
  <2>2. CASE at = "observe"
    BY <1>1, <1>4, <2>2
  <2>3. CASE at # "observe"
    BY <1>1, <1>4, <1>5, <2>1, <2>3
  <2>4. QED  BY <2>2, <2>3
<1>16. QED  BY <1>1, <1>4, <1>11, <1>12, <1>13, <1>14, <1>15, QuietHolds

(* The call ends: the session is complete.                                  *)
LEMMA EndHolds ==
  ASSUME HarnessInv, End
  PROVE  HarnessInv'
<1> DEFINE s == [session[self] EXCEPT !.done = TRUE]
<1>1. /\ at \in {"loop", "skip"} /\ next \notin DOMAIN plan.steps
      /\ Saves(s, "idle") /\ UNCHANGED <<limits, plan, self, next, guard, gates, ran>>
  BY DEF End
<1>2. /\ TypeOK /\ self \in Harnesses /\ next \in Nat /\ next >= 1 /\ session[self] \in Sessions
      /\ session[self].used
      /\ session[self].results = [i \in 1..ToldSoFar |-> Result(plan.steps[i])]
  BY <1>1, CallFacts
<1>3. s \in Sessions /\ s.used /\ s.done /\ s.results = session[self].results
  BY <1>2 DEF Sessions
<1> HIDE DEF s
<1>4. /\ session' \in [Harnesses -> Sessions] /\ file' \in [Harnesses -> Sessions]
      /\ session'[self] = s /\ at' = "idle"
      /\ \A h \in Harnesses : h # self => session'[h] = session[h] /\ file'[h] = file[h]
      /\ \/ file'[self] = s
         \/ file'[self].done => file'[self] = file[self]
  BY <1>1, <1>2, <1>3, SavesIs
<1>5. /\ DOMAIN plan.steps = 1..Len(plan.steps) /\ Len(plan.steps) \in Nat
      /\ next <= Len(plan.steps) + 1
      /\ \A i \in DOMAIN plan.steps : i < next => plan.steps[i].status \in Final
  BY <1>1, <1>2, Typed DEF HarnessInv, StepsFit, Status
<1>6. ToldSoFar = Len(plan.steps) /\ \A i \in DOMAIN plan.steps : i < next
  BY <1>1, <1>2, <1>5 DEF ToldSoFar
<1>7. s.results = Told(plan.steps) /\ \A i \in DOMAIN plan.steps : plan.steps[i].status \in Final
  BY <1>2, <1>3, <1>5, <1>6 DEF Told
<1>8. ASSUME NEW h \in Harnesses, file'[h].done
      PROVE  file'[h].results = Told(plan.steps) /\ \A i \in DOMAIN plan.steps : plan.steps[i].status \in Final
  <2>1. CASE file'[h] = s
    BY <1>7, <2>1
  <2>2. CASE file'[h] = file[h]
    BY <1>8, <2>2 DEF HarnessInv, SessionsFit, Status
  <2>3. QED  BY <1>4, <1>8, <2>1, <2>2
<1>9. \A h \in Harnesses : ~session'[h].used => session'[h] = NewSession
  BY <1>3, <1>4 DEF HarnessInv, SessionsFit
<1>10. SessionsFit'
  BY <1>1, <1>4, <1>8, <1>9 DEF SessionsFit, Status, Told
<1>11. guard' \in Guards /\ gates' \in [Harnesses -> [approval: BOOLEAN, executed: Nat]]
  BY <1>1, <1>2 DEF TypeOK
<1>12. SameCounts /\ session'[self].used
  BY <1>3, <1>4 DEF SameCounts
<1>13. next' \in {next, next + 1} /\ (next' = next + 1 => at = "observe")
  BY <1>1, <1>2
<1>14. QED  BY <1>1, <1>4, <1>10, <1>11, <1>12, <1>13, QuietHolds

(* The check lets a command start: its budgets are not used up, and the last *)
(* failures are not all alike.                                              *)
LEMMA Admits ==
  ASSUME HarnessInv, at # "idle", at # "run", ~Exhausted(guard)
  PROVE  /\ Len(ran) + 1 <= limits.iterations /\ Len(ran) + 1 <= limits.calls
         /\ guard.stale < limits.stale
         /\ Len(ran) + 1 - limits.failures >= 1 => ~Futile(Len(ran) + 1 - limits.failures)
<1> DEFINE F == limits.failures
           k == Len(guard.failures)
           L == Len(ran)
           f == guard.failures
<1>1. TypeOK /\ CountsFit /\ StreakFits
  BY DEF HarnessInv
<1>2. /\ F \in Nat /\ F >= 2 /\ L \in Nat /\ Ended = L
      /\ limits.iterations \in Nat /\ limits.calls \in Nat /\ limits.stale \in Nat
  BY <1>1, Typed DEF Ended
<1>3. f \in Seq(Agents \X Errors) /\ k \in Nat /\ DOMAIN f = 1..k /\ guard.stale \in Nat
  <2>1. guard \in Guards
    BY <1>1 DEF TypeOK
  <2>2. f \in Seq(Agents \X Errors) /\ guard.stale \in Nat
    BY <2>1 DEF Guards
  <2>3. QED  BY <2>2, LenProperties
<1>4. /\ guard.iterations = L /\ guard.calls = L
      /\ k <= F /\ k <= L
      /\ \A j \in 1..k : plan.steps[ran[L - k + j]].status = "failed" /\ f[j] = Signature(L - k + j)
      /\ k < F /\ k < L => plan.steps[ran[L - k]].status # "failed"
  BY <1>1, <1>2 DEF CountsFit, StreakFits
<1>5. /\ L + 1 <= limits.iterations /\ L + 1 <= limits.calls /\ guard.stale < limits.stale
      /\ ~(k = F /\ Cardinality(Range(f)) = 1)
  BY <1>2, <1>3, <1>4 DEF Exhausted
<1> HIDE DEF F, k, L, f
<1>6. ASSUME L + 1 - F >= 1, Futile(L + 1 - F) PROVE FALSE
  <2>1. L + 1 - F + F - 1 = L
    BY <1>2
  <2>2. \A j \in (L + 1 - F)..L :
          plan.steps[ran[j]].status = "failed" /\ Signature(L + 1 - F) = Signature(j)
    BY <1>6, <2>1 DEF Futile, F
  <2>3. k = F
    <3>1. ASSUME k < F PROVE FALSE
      <4>1. L - k \in (L + 1 - F)..L /\ k < L
        BY <1>2, <1>3, <1>6, <3>1
      <4>2. QED  BY <1>4, <2>2, <3>1, <4>1
    <3>2. QED  BY <1>2, <1>3, <1>4, <3>1
  <2>4. ASSUME NEW j \in 1..k PROVE f[j] = Signature(L + 1 - F)
    <3>1. L - k + j \in (L + 1 - F)..L
      BY <1>2, <1>3, <1>6, <2>3
    <3>2. QED  BY <1>4, <2>2, <3>1
  <2>5. 1 \in 1..k
    BY <1>2, <1>3, <2>3
  <2>6. Range(f) = {Signature(L + 1 - F)}
    BY <1>3, <2>4, <2>5 DEF Range
  <2>7. Cardinality({Signature(L + 1 - F)}) = 1
    BY FS_Singleton
  <2>8. QED  BY <1>5, <2>3, <2>6, <2>7
<1>7. QED  BY <1>5, <1>6 DEF F, L

(* What was started lies before the step of the call.                       *)
LEMMA StartedBefore ==
  ASSUME HarnessInv, at # "idle", NEW i \in DOMAIN ran
  PROVE  ran[i] \in DOMAIN plan.steps /\ ran[i] \in Nat /\ ran[i] <= next
         /\ (next \in DOMAIN plan.steps /\ plan.steps[next].status = "pending" => ran[i] < next)
<1>1. TypeOK /\ StepsFit /\ RanFits /\ next \in Nat
  BY CallFacts DEF HarnessInv
<1>2. ran[i] \in DOMAIN plan.steps /\ ran[i] \in Nat /\ ran[i] \in Range(ran)
  BY <1>1, Typed DEF Range
<1>3. plan.steps[ran[i]].status # "pending"
  BY <1>1, <1>2 DEF RanFits, Status
<1>4. ~(ran[i] > next)
  BY <1>1, <1>2, <1>3 DEF StepsFit, Status
<1>5. QED  BY <1>1, <1>2, <1>3, <1>4

LEMMA DispatchHolds ==
  ASSUME HarnessInv, Dispatch
  PROVE  HarnessInv'
<1> DEFINE step == [plan.steps[next] EXCEPT !.status = "running"]
           L == Len(ran)
           F == limits.failures
<1>1. /\ at \in {"loop", "check"} /\ next \in DOMAIN plan.steps /\ ~Exhausted(guard)
      /\ at' = "run" /\ plan' = [plan EXCEPT !.steps[next].status = "running"]
      /\ ran' = Append(ran, next)
      /\ UNCHANGED <<limits, self, next, guard, gates, session, file>>
  <2>1. at = "check" => next \in DOMAIN plan.steps
    BY DEF HarnessInv, StepsFit
  <2>2. QED  BY <2>1 DEF Dispatch, Ready, InLoop
<1>2. /\ TypeOK /\ StepsFit /\ RanFits /\ CountsFit /\ Bounded /\ StreakFits /\ SessionsFit
      /\ self \in Harnesses /\ session[self].used /\ next \in Nat /\ next >= 1
      /\ \A h \in Harnesses : ~file[h].done
  BY <1>1, CallFacts DEF HarnessInv
<1>3. /\ plan.steps[next].status = "pending"
      /\ \A i \in DOMAIN plan.steps :
           /\ i < next => plan.steps[i].status \in Final
           /\ i > next => plan.steps[i].status = "pending"
  BY <1>1, <1>2 DEF StepsFit, Status
<1>4. step \in StepType /\ step.status = "running"
  <2>1. plan.steps[next] \in StepType
    BY <1>1, <1>2, Typed
  <2>2. QED  BY <2>1 DEF StepType, Statuses
<1>5. plan' = [plan EXCEPT !.steps[next] = step]
  BY <1>1
<1> HIDE DEF step
<1>6. /\ plan' \in [steps: Seq(StepType), approval: BOOLEAN] /\ Len(plan'.steps) = Len(plan.steps)
      /\ DOMAIN plan'.steps = DOMAIN plan.steps /\ plan'.steps[next] = step
      /\ \A i \in DOMAIN plan.steps : i # next => plan'.steps[i] = plan.steps[i]
  BY <1>1, <1>2, <1>4, <1>5, PlanMoves
<1>7. /\ ran' \in Seq(DOMAIN plan.steps) /\ L \in Nat /\ Len(ran') = L + 1 /\ DOMAIN ran = 1..L
      /\ DOMAIN ran' = 1..(L + 1) /\ ran'[L + 1] = next /\ \A i \in 1..L : ran'[i] = ran[i]
  <2>1. ran \in Seq(DOMAIN plan.steps) /\ L \in Nat /\ DOMAIN ran = 1..L
    BY <1>2, Typed
  <2>2. /\ ran' \in Seq(DOMAIN plan.steps) /\ Len(ran') = L + 1 /\ ran'[L + 1] = next
        /\ \A i \in 1..L : ran'[i] = ran[i]
    BY <1>1, <2>1, AppendProperties
  <2>3. QED  BY <2>1, <2>2, LenProperties
<1>8. \A i \in 1..L : ran[i] \in DOMAIN plan.steps /\ ran[i] \in Nat /\ ran[i] < next
  BY <1>1, <1>3, <1>7, StartedBefore
<1>9. \A i \in 1..L : plan'.steps[ran'[i]] = plan.steps[ran[i]] /\ Signature(i)' = Signature(i)
  <2>1. \A i \in 1..L : plan'.steps[ran'[i]] = plan.steps[ran[i]]
    <3>1. TAKE i \in 1..L
    <3>2. ran'[i] = ran[i] /\ ran[i] # next /\ ran[i] \in DOMAIN plan.steps
      BY <1>2, <1>7, <1>8
    <3>3. QED  BY <1>6, <3>2
  <2>2. QED  BY <2>1 DEF Signature
<1>10. /\ L + 1 <= limits.iterations /\ L + 1 <= limits.calls /\ guard.stale < limits.stale
       /\ L + 1 - F >= 1 => ~Futile(L + 1 - F)
  BY <1>1, Admits
<1>11. F \in Nat /\ F >= 2
  BY <1>2, Typed
<1> HIDE DEF L, F
<1>12. TypeOK'
  <2>1. next' \in 0..(Len(plan'.steps) + 1)
    BY <1>1, <1>2, <1>6, Typed
  <2>2. at' \in {"idle", "loop", "check", "run", "observe", "skip"} /\ ran' \in Seq(DOMAIN plan'.steps)
    BY <1>1, <1>6, <1>7
  <2>3. QED  BY <1>1, <1>2, <1>6, <2>1, <2>2 DEF TypeOK, StepType
<1>13. StepsFit'
  <2>1. ASSUME NEW i \in DOMAIN plan'.steps
        PROVE  /\ i < next => plan'.steps[i].status \in Final
               /\ i > next => plan'.steps[i].status = "pending"
    <3>1. i \in DOMAIN plan.steps /\ (i < next \/ i > next => i # next)
      BY <1>2, <1>6, Typed
    <3>2. QED  BY <1>3, <1>6, <3>1
  <2>2. QED  BY <1>1, <1>2, <1>4, <1>6, <2>1 DEF StepsFit, Status
<1>14. RanFits'
  <2>1. ASSUME NEW i \in DOMAIN ran', NEW j \in DOMAIN ran', i < j PROVE ran'[i] < ran'[j]
    <3>1. i \in 1..L /\ (j \in 1..L \/ j = L + 1)
      BY <1>7, <2>1
    <3>2. CASE j = L + 1
      BY <1>7, <1>8, <3>1, <3>2
    <3>3. CASE j \in 1..L
      BY <1>2, <1>7, <2>1, <3>1, <3>3 DEF RanFits
    <3>4. QED  BY <3>1, <3>2, <3>3
  <2>2. Range(ran') = Range(ran) \cup {next}
    <3>1. L + 1 \in 1..(L + 1) /\ \A i \in 1..(L + 1) : i \in 1..L \/ i = L + 1
      BY <1>7
    <3>2. \A i \in 1..L : i \in 1..(L + 1)
      BY <1>7
    <3>3. QED  BY <1>7, <3>1, <3>2 DEF Range
  <2>3. ASSUME NEW n \in DOMAIN plan'.steps
        PROVE  n \in Range(ran') <=> plan'.steps[n].status \in {"running", "passed", "failed"}
    <3>1. CASE n = next
      BY <1>4, <1>6, <2>2, <3>1
    <3>2. CASE n # next
      BY <1>2, <1>6, <2>2, <3>2 DEF RanFits, Status
    <3>3. QED  BY <3>1, <3>2
  <2>4. ran' # <<>> /\ ran'[Len(ran')] = next'
    BY <1>1, <1>7
  <2>5. QED  BY <2>1, <2>3, <2>4 DEF RanFits, Status
<1>15. Failed' = Failed
  <2>1. plan'.steps[ran'[L + 1]].status # "failed"
    BY <1>4, <1>6, <1>7
  <2>2. \A i \in 1..(L + 1) : i \in 1..L \/ i = L + 1
    BY <1>7
  <2>3. \A i \in 1..L : i \in 1..(L + 1)
    BY <1>7
  <2>4. QED  BY <1>7, <1>9, <2>1, <2>2, <2>3 DEF Failed
<1>16. Ended' = L /\ Ended = L
  <2>1. Ended' = Len(ran') - 1 /\ Ended = Len(ran)
    BY <1>1 DEF Ended
  <2>2. QED  BY <1>7, <2>1 DEF L
<1>17. Bounded'
  <2>1. Len(ran') <= limits'.iterations /\ Len(ran') <= limits'.calls /\ Cardinality(Failed') <= limits'.stale
    BY <1>1, <1>2, <1>7, <1>10, <1>15 DEF Bounded
  <2>2. ASSUME NEW i \in 1..(L + 1 - F), Futile(i)' PROVE FALSE
    <3>1. /\ \A j \in i..(i + F - 1) : j \in 1..L
          /\ i \in 1..L
      BY <1>7, <1>11
    <3>2. limits' = limits
      BY <1>1
    <3>3. Futile(i)
      BY <1>9, <2>2, <3>1, <3>2 DEF Futile, F
    <3>4. CASE i = L + 1 - F
      <4>1. L + 1 - F >= 1
        BY <1>7, <1>11, <3>4
      <4>2. QED  BY <1>10, <3>3, <3>4, <4>1
    <3>5. CASE i # L + 1 - F
      <4>1. i \in 1..(L - F)
        BY <1>7, <1>11, <3>5
      <4>2. QED  BY <1>2, <3>3, <4>1 DEF Bounded, F, L
    <3>6. QED  BY <3>4, <3>5
  <2>3. limits' = limits
    BY <1>1
  <2>4. \A i \in 1..(Len(ran') - limits'.failures) : ~Futile(i)'
    <3>1. limits'.failures = F
      BY <2>3, Zenon DEF F
    <3>2. Len(ran') = L + 1
      BY <1>7, Zenon
    <3> DEFINE longer == Len(ran')
               most == limits'.failures
    <3>3. longer = L + 1 /\ most = F
      BY <3>1, <3>2, Zenon
    <3> HIDE DEF longer, most
    <3>4. longer - most = L + 1 - F
      BY <1>7, <1>11, <3>3
    <3>5. \A i \in 1..(longer - most) : ~Futile(i)'
      BY <2>2, <3>4, Zenon
    <3>6. QED  BY <3>5, Zenon DEF longer, most
  <2>5. QED  BY <2>1, <2>4 DEF Bounded
<1>18. CountsFit'
  BY <1>1, <1>2, <1>10, <1>15, <1>16 DEF CountsFit
<1>19. StreakFits'
  <2> DEFINE k == Len(guard.failures)
  <2>1. /\ k <= F /\ k <= L
        /\ \A j \in 1..k : plan.steps[ran[L - k + j]].status = "failed" /\ guard.failures[j] = Signature(L - k + j)
        /\ k < F /\ k < L => plan.steps[ran[L - k]].status # "failed"
    BY <1>1, <1>2, <1>16 DEF StreakFits, F
  <2>2. k \in Nat
    <3>1. guard.failures \in Seq(Agents \X Errors)
      BY <1>2 DEF TypeOK, Guards
    <3>2. QED  BY <3>1, LenProperties
  <2>3. guard' = guard /\ limits' = limits
    BY <1>1
  <2> HIDE DEF k
  <2>4. \A j \in 1..k : L - k + j \in 1..L
    BY <1>7, <2>1, <2>2
  <2>5. k < L => L - k \in 1..L
    BY <1>7, <2>2
  <2>6. QED  BY <1>9, <1>16, <2>1, <2>3, <2>4, <2>5 DEF StreakFits, F, k
<1>20. SessionsFit'
  <2>1. ToldSoFar' = next - 1 /\ ToldSoFar = next - 1
    BY <1>1 DEF ToldSoFar
  <2>2. \A i \in 1..(next - 1) : plan'.steps[i] = plan.steps[i]
    <3>1. \A i \in 1..(next - 1) : i \in DOMAIN plan.steps /\ i # next
      BY <1>2, Typed
    <3>2. QED  BY <1>6, <3>1
  <2>3. [i \in 1..(next - 1) |-> Result(plan'.steps[i])] = [i \in 1..(next - 1) |-> Result(plan.steps[i])]
    BY <2>2
  <2>4. session' = session /\ file' = file /\ self' = self
    BY <1>1
  <2>5. QED  BY <1>1, <1>2, <2>1, <2>3, <2>4 DEF SessionsFit
<1>21. QED  BY <1>12, <1>13, <1>14, <1>17, <1>18, <1>19, <1>20 DEF HarnessInv

(* What observe makes of a failure: the last ones are remembered.           *)
LEMMA Remembers ==
  ASSUME TypeOK, NEW agent \in Agents, NEW error \in Errors, error # None,
         Len(guard.failures) <= limits.failures
  PROVE  LET k == Len(guard.failures)
             f == Observed(guard, agent, error).failures
         IN  /\ f \in Seq(Agents \X Errors)
             /\ k < limits.failures =>
                  /\ Len(f) = k + 1 /\ f[k + 1] = <<agent, error>>
                  /\ \A j \in 1..k : f[j] = guard.failures[j]
             /\ k = limits.failures =>
                  /\ Len(f) = k /\ f[k] = <<agent, error>>
                  /\ \A j \in 1..(k - 1) : f[j] = guard.failures[j + 1]
<1> DEFINE k == Len(guard.failures)
           F == limits.failures
           f == Observed(guard, agent, error).failures
           recent == Append(guard.failures, <<agent, error>>)
           S == Agents \X Errors
<1>1. guard.failures \in Seq(S) /\ k \in Nat /\ F \in Nat /\ F >= 2 /\ guard \in Guards
  <2>1. guard \in Guards /\ guard.failures \in Seq(S)
    BY DEF TypeOK, Guards
  <2>2. QED  BY <2>1, LenProperties, Typed
<1>2. /\ recent \in Seq(S) /\ Len(recent) = k + 1 /\ recent[k + 1] = <<agent, error>>
      /\ \A j \in 1..k : recent[j] = guard.failures[j]
  <2>1. <<agent, error>> \in S
    OBVIOUS
  <2>2. QED  BY <1>1, <2>1, AppendProperties
<1>3. f = SubSeq(recent, IF Len(recent) > F THEN 2 ELSE 1, Len(recent))
  BY <1>1 DEF Observed, Guards
<1> HIDE DEF recent, S, f
<1>4. \A j \in 1..(k + 1) : recent[j] \in S
  BY <1>2, ElementOfSeq
<1>5. CASE k < F
  <2>1. f = SubSeq(recent, 1, k + 1)
    <3>1. ~(Len(recent) > F)
      BY <1>1, <1>2, <1>5
    <3>2. QED  BY <1>2, <1>3, <3>1
  <2>2. 1 \in Int /\ k + 1 \in Int /\ 1 <= k + 1 /\ (k + 1) - 1 + 1 = k + 1
    BY <1>1
  <2>3. f \in Seq(S) /\ Len(f) = k + 1 /\ \A j \in 1..(k + 1) : f[j] = recent[1 + j - 1]
    BY <1>4, <2>1, <2>2, SubSeqProperties
  <2>4. \A j \in 1..(k + 1) : f[j] = recent[j]
    BY <1>1, <2>3
  <2>5. k + 1 \in 1..(k + 1) /\ \A j \in 1..k : j \in 1..(k + 1)
    BY <1>1
  <2>6. k # F
    BY <1>1, <1>5
  <2>7. QED  BY <1>2, <2>3, <2>4, <2>5, <2>6, Zenon DEF f, S
<1>6. CASE k = F
  <2>1. f = SubSeq(recent, 2, k + 1)
    BY <1>1, <1>2, <1>3, <1>6
  <2>2. /\ 2 \in Int /\ k + 1 \in Int /\ 2 <= k + 1 /\ (k + 1) - 2 + 1 = k
        /\ \A j \in 2..(k + 1) : j \in 1..(k + 1)
    BY <1>1, <1>6
  <2>3. f \in Seq(S) /\ Len(f) = k /\ \A j \in 1..k : f[j] = recent[2 + j - 1]
    BY <1>4, <2>1, <2>2, SubSeqProperties
  <2>4. \A j \in 1..k : f[j] = recent[j + 1]
    <3>1. \A j \in 1..k : 2 + j - 1 = j + 1
      BY <1>1
    <3>2. QED  BY <2>3, <3>1
  <2>5. k \in 1..k /\ \A j \in 1..(k - 1) : j \in 1..k /\ j + 1 \in 1..k
    BY <1>1, <1>6
  <2>6. ~(k < F)
    BY <1>1, <1>6
  <2>7. QED  BY <1>2, <2>3, <2>4, <2>5, <2>6, Zenon DEF f, S
<1>7. QED  BY <1>1, <1>5, <1>6

(* Its counters.                                                            *)
Counts(g, i, c) == [g EXCEPT !.iterations = i, !.calls = c]
Fails(g, n, f) == [g EXCEPT !.stale = n, !.failures = f]

LEMMA FailureIs ==
  ASSUME NEW g \in Guards, NEW n \in Nat, NEW f \in Seq(Agents \X Errors)
  PROVE  /\ Fails(g, n, f) \in Guards /\ Fails(g, n, f).stale = n /\ Fails(g, n, f).failures = f
         /\ Fails(g, n, f).iterations = g.iterations /\ Fails(g, n, f).calls = g.calls
BY DEF Guards, Fails

LEMMA ConcludeHolds ==
  ASSUME HarnessInv, Conclude
  PROVE  HarnessInv'
<1>1. /\ at = "run" /\ UNCHANGED <<limits, self, next, gates, ran>>
      /\ next \in DOMAIN plan.steps /\ plan.steps[next].status = "running"
  BY DEF Conclude, HarnessInv, StepsFit, Status
<1>2. PICK error \in Errors \cup {None} :
        LET step == [plan.steps[next] EXCEPT !.status = IF error = None THEN "passed" ELSE "failed", !.error = error]
        IN  Records(step, "observe") /\ guard' = Observed(guard, step.agent, error)
  BY DEF Conclude
<1> DEFINE step == [plan.steps[next] EXCEPT !.status = IF error = None THEN "passed" ELSE "failed", !.error = error]
           L == Len(ran)
           F == limits.failures
           NewSignature(i) == <<plan'.steps[ran'[i]].agent, plan'.steps[ran'[i]].error>>
<1>3. Records(step, "observe") /\ guard' = Observed(guard, step.agent, error)
  BY <1>2
<1>4. /\ TypeOK /\ StepsFit /\ RanFits /\ CountsFit /\ Bounded /\ StreakFits
      /\ self \in Harnesses /\ next \in Nat /\ next >= 1
  BY <1>1, CallFacts DEF HarnessInv
<1>5. /\ step \in StepType /\ step.status \in {"passed", "failed"} /\ step.agent \in Agents
      /\ step.error = error /\ (step.status = "failed" <=> error # None)
  <2>1. plan.steps[next] \in StepType
    BY <1>1, <1>4, Typed
  <2>2. QED  BY <2>1 DEF StepType, Statuses
<1> HIDE DEF step
<1>6. /\ plan' \in [steps: Seq(StepType), approval: BOOLEAN]
      /\ DOMAIN plan'.steps = DOMAIN plan.steps /\ Len(plan'.steps) = Len(plan.steps)
      /\ plan'.steps[next] = step
      /\ \A i \in DOMAIN plan.steps : i # next => plan'.steps[i] = plan.steps[i]
      /\ at' \in {"idle", "observe"}
      /\ session' \in [Harnesses -> Sessions] /\ file' \in [Harnesses -> Sessions]
      /\ session'[self].used
      /\ SessionsFit'
  BY <1>1, <1>3, <1>5, RecordsIs DEF Final
<1>7. /\ L \in Nat /\ DOMAIN ran = 1..L /\ L >= 1 /\ ran[L] = next /\ Ended = L - 1
      /\ F \in Nat /\ F >= 2
  <2>1. ran # <<>> /\ ran[L] = next /\ ran \in Seq(DOMAIN plan.steps)
    BY <1>1, <1>4, Typed DEF RanFits
  <2>2. L \in Nat \ {0}
    BY <2>1, EmptySeq
  <2>3. QED  BY <1>1, <1>4, <2>1, <2>2, Typed DEF Ended
<1>8. \A i \in 1..(L - 1) : i \in DOMAIN ran /\ ran[i] \in DOMAIN plan.steps /\ ran[i] # next
  <2>1. TAKE i \in 1..(L - 1)
  <2>2. i \in DOMAIN ran /\ L \in DOMAIN ran /\ i < L
    BY <1>7
  <2>3. ran[i] < ran[L] /\ ran[i] \in DOMAIN plan.steps /\ ran[i] \in Nat
    BY <1>1, <1>4, <2>2, StartedBefore DEF RanFits
  <2>4. QED  BY <1>4, <1>7, <2>2, <2>3
<1>9. \A i \in 1..(L - 1) : plan'.steps[ran'[i]] = plan.steps[ran[i]] /\ NewSignature(i) = Signature(i)
  <2>1. \A i \in 1..(L - 1) : plan'.steps[ran'[i]] = plan.steps[ran[i]]
    BY <1>1, <1>6, <1>8
  <2>2. QED  BY <2>1 DEF Signature
<1>10. /\ plan'.steps[ran'[L]] = step /\ plan.steps[ran[L]].status = "running"
       /\ NewSignature(L) = <<step.agent, error>>
  BY <1>1, <1>5, <1>6, <1>7 DEF Signature
<1> HIDE DEF L, F, NewSignature
<1>11. guard \in Guards /\ guard.failures \in Seq(Agents \X Errors) /\ Len(guard.failures) \in Nat
  <2>1. guard \in Guards /\ guard.failures \in Seq(Agents \X Errors)
    BY <1>4 DEF TypeOK, Guards
  <2>2. QED  BY <2>1, LenProperties
<1>12. /\ guard.iterations = L - 1 /\ guard.calls = L - 1 /\ guard.stale = Cardinality(Failed)
       /\ guard.stale < limits.stale
       /\ Len(guard.failures) <= F /\ Len(guard.failures) <= L - 1
       /\ \A j \in 1..Len(guard.failures) :
            /\ plan.steps[ran[L - 1 - Len(guard.failures) + j]].status = "failed"
            /\ guard.failures[j] = Signature(L - 1 - Len(guard.failures) + j)
       /\ Len(guard.failures) < F /\ Len(guard.failures) < L - 1 =>
            plan.steps[ran[L - 1 - Len(guard.failures)]].status # "failed"
  BY <1>1, <1>4, <1>7 DEF CountsFit, StreakFits, F
<1>13. error # None => LET k == Len(guard.failures)
                           f == guard'.failures
                       IN  /\ f \in Seq(Agents \X Errors)
                           /\ k < F => /\ Len(f) = k + 1 /\ f[k + 1] = <<step.agent, error>>
                                       /\ \A j \in 1..k : f[j] = guard.failures[j]
                           /\ k = F => /\ Len(f) = k /\ f[k] = <<step.agent, error>>
                                       /\ \A j \in 1..(k - 1) : f[j] = guard.failures[j + 1]
  <2>1. ASSUME error # None PROVE error \in Errors
    BY <2>1
  <2>2. QED  BY <1>3, <1>4, <1>5, <1>12, <2>1, Remembers DEF F
<1>14. /\ guard' \in Guards
       /\ guard'.iterations = L /\ guard'.calls = L
       /\ error = None => guard'.failures = <<>> /\ guard'.stale = guard.stale
       /\ error # None => guard'.stale = guard.stale + 1
  <2> DEFINE more == guard.iterations + 1
             called == guard.calls + 1
             stale == guard.stale + 1
             counted == Counts(guard, more, called)
  <2>1. more \in Nat /\ called \in Nat /\ stale \in Nat
    BY <1>11 DEF Guards
  <2>2. more = L /\ called = L
    BY <1>7, <1>12
  <2>3. guard' = Observed(guard, step.agent, error)
    BY <1>3
  <2>4. error = None => guard' = [counted EXCEPT !.failures = <<>>]
    BY <2>3 DEF Observed, Counts
  <2>5. error # None => \E f : guard' = [counted EXCEPT !.stale = counted.stale + 1, !.failures = f]
    BY <2>3 DEF Observed, Counts
  <2> HIDE DEF more, called, stale, counted
  <2>6. counted \in Guards /\ counted.stale = guard.stale /\ counted.iterations = more /\ counted.calls = called
    BY <1>11, <2>1 DEF counted, Counts, Guards
  <2>7. CASE error = None
    <3>1. <<>> \in Seq(Agents \X Errors)
      BY EmptySeq
    <3>2. guard' = [counted EXCEPT !.failures = <<>>]
      BY <2>4, <2>7
    <3>3. /\ guard' \in Guards /\ guard'.failures = <<>> /\ guard'.stale = counted.stale
          /\ guard'.iterations = counted.iterations /\ guard'.calls = counted.calls
      BY <2>6, <3>1, <3>2 DEF Guards
    <3>4. QED  BY <2>2, <2>6, <2>7, <3>3
  <2>8. CASE error # None
    <3>1. PICK f : guard' = [counted EXCEPT !.stale = counted.stale + 1, !.failures = f]
      BY <2>5, <2>8
    <3>2. guard' = Fails(counted, stale, f)
      BY <2>6, <3>1 DEF Fails, stale
    <3>3. f = guard'.failures
      BY <2>6, <3>1 DEF Guards
    <3>4. f \in Seq(Agents \X Errors)
      BY <1>13, <2>8, <3>3
    <3> HIDE DEF stale
    <3>5. /\ guard' \in Guards /\ guard'.stale = stale
          /\ guard'.iterations = counted.iterations /\ guard'.calls = counted.calls
      BY <2>1, <2>6, <3>2, <3>4, FailureIs
    <3>6. QED  BY <2>2, <2>6, <2>8, <3>5 DEF stale
  <2>9. QED  BY <2>7, <2>8
<1>15. TypeOK'
  <2>1. next' \in 0..(Len(plan'.steps) + 1) /\ ran' \in Seq(DOMAIN plan'.steps)
    BY <1>1, <1>4, <1>6, Typed
  <2>2. at' \in {"idle", "loop", "check", "run", "observe", "skip"}
    BY <1>6
  <2>3. QED  BY <1>1, <1>4, <1>6, <1>14, <2>1, <2>2 DEF TypeOK, StepType
<1>16. StepsFit'
  <2>1. \A i \in DOMAIN plan.steps :
          /\ i < next => plan.steps[i].status \in Final /\ i # next
          /\ i > next => plan.steps[i].status = "pending" /\ i # next
    BY <1>1, <1>4, Typed DEF StepsFit, Status
  <2>2. \A i \in DOMAIN plan'.steps :
          /\ i < next => plan'.steps[i].status \in Final
          /\ i > next => plan'.steps[i].status = "pending"
    BY <1>6, <2>1
  <2>3. QED  BY <1>1, <1>4, <1>5, <1>6, <2>2 DEF StepsFit, Status
<1>17. RanFits'
  <2>1. \A n \in DOMAIN plan.steps :
          plan'.steps[n].status \in {"running", "passed", "failed"}
            <=> plan.steps[n].status \in {"running", "passed", "failed"}
    BY <1>1, <1>5, <1>6
  <2>2. QED  BY <1>1, <1>4, <1>6, <2>1, RanKept
<1>18. \A i \in DOMAIN ran : i \in 1..(L - 1) \/ i = L
  BY <1>7
<1>19. \A i \in 1..(L - 1) : i \in DOMAIN ran /\ i # L
  BY <1>7
<1>20. /\ Cardinality(Failed') = IF error = None THEN Cardinality(Failed) ELSE Cardinality(Failed) + 1
       /\ Cardinality(Failed) \in Nat
  <2>1. Failed \subseteq 1..(L - 1) /\ L \notin Failed
    BY <1>10, <1>18, <1>19 DEF Failed
  <2>2. IsFiniteSet(Failed) /\ Cardinality(Failed) \in Nat
    <3>1. IsFiniteSet(1..(L - 1))
      BY <1>7, FS_Interval
    <3>2. QED  BY <2>1, <3>1, FS_Subset, FS_CardinalityType
  <2>3. L \in DOMAIN ran /\ DOMAIN ran' = DOMAIN ran
    BY <1>1, <1>7 DEF L
  <2>4. CASE error = None
    <3>1. Failed' = Failed
      BY <1>5, <1>9, <1>10, <1>18, <1>19, <2>1, <2>3, <2>4 DEF Failed
    <3>2. QED  BY <2>2, <2>4, <3>1
  <2>5. CASE error # None
    <3>1. Failed' = Failed \cup {L}
      BY <1>5, <1>9, <1>10, <1>18, <1>19, <2>1, <2>3, <2>5 DEF Failed
    <3>2. QED  BY <2>1, <2>2, <2>5, <3>1, FS_AddElement
  <2>6. QED  BY <2>4, <2>5
<1>21. Bounded'
  <2>1. limits' = limits /\ ran' = ran /\ limits.stale \in Nat
    BY <1>1, <1>4, Typed
  <2>2. Cardinality(Failed') <= limits'.stale
    BY <1>12, <1>20, <2>1
  <2>3. ASSUME NEW i \in 1..(L - F), Futile(i)' PROVE FALSE
    <3>0. \A j \in i..(i + F - 1) : plan'.steps[ran'[j]].status = "failed" /\ NewSignature(i) = NewSignature(j)
      BY <2>1, <2>3 DEF Futile, Signature, NewSignature, F
    <3>1. /\ i \in 1..(L - 1)
          /\ \A j \in i..(i + F - 1) : j \in 1..(L - 1)
      BY <1>7
    <3>2. Futile(i)
      BY <1>9, <3>0, <3>1 DEF Futile, F
    <3>3. QED  BY <1>4, <3>2 DEF Bounded, F, L
  <2>4. Len(ran') <= limits'.iterations /\ Len(ran') <= limits'.calls
    BY <1>4, <2>1 DEF Bounded
  <2>5. \A i \in 1..(Len(ran') - limits'.failures) : ~Futile(i)'
    BY <2>1, <2>3, Zenon DEF L, F
  <2>6. QED  BY <2>2, <2>4, <2>5 DEF Bounded
<1>22. at' # "idle" => Ended' = L
  BY <1>1, <1>6 DEF Ended, L
<1>23. CountsFit'
  BY <1>6, <1>12, <1>14, <1>20, <1>22 DEF CountsFit
<1>24. StreakFits'
  <2> DEFINE k == Len(guard.failures)
             f == guard'.failures
             n == Len(f)
  <2>1. limits' = limits /\ k \in Nat
    BY <1>1, <1>11
  <2>2. ASSUME n \in Nat, n <= F, n <= L,
               \A j \in 1..n : plan'.steps[ran'[L - n + j]].status = "failed" /\ f[j] = NewSignature(L - n + j),
               n < F /\ n < L => plan'.steps[ran'[L - n]].status # "failed"
        PROVE  StreakFits'
    BY <1>22, <2>1, <2>2 DEF StreakFits, Signature, NewSignature, F
  <2>3. CASE error = None
    <3>1. n = 0 /\ L - 0 = L /\ (\A j \in 1..0 : FALSE) /\ 0 <= F /\ 0 <= L
      BY <1>7, <1>14, <2>3, EmptySeq
    <3>2. plan'.steps[ran'[L]].status # "failed"
      BY <1>5, <1>10, <2>3
    <3>3. QED  BY <2>2, <3>1, <3>2
  <2>4. CASE error # None /\ k < F
    <3>1. n = k + 1 /\ f[k + 1] = <<step.agent, error>> /\ \A j \in 1..k : f[j] = guard.failures[j]
      BY <1>13, <2>4
    <3>2. n \in Nat /\ n <= F /\ n <= L
      BY <1>7, <1>12, <2>1, <2>4, <3>1
    <3> HIDE DEF f, n, k
    <3>3. ASSUME NEW j \in 1..n
          PROVE  plan'.steps[ran'[L - n + j]].status = "failed" /\ f[j] = NewSignature(L - n + j)
      <4>1. CASE j = k + 1
        <5>1. L - n + j = L
          BY <1>7, <2>1, <3>1, <4>1
        <5>2. QED  BY <1>5, <1>10, <2>4, <3>1, <4>1, <5>1
      <4>2. CASE j # k + 1
        <5>1. j \in 1..k /\ L - n + j = L - 1 - k + j /\ L - n + j \in 1..(L - 1)
          <6>1. n = k + 1 /\ j \in 1..n /\ L \in Nat
            BY <1>7, <3>1, Zenon
          <6>2. QED  BY <2>1, <3>2, <4>2, <6>1
        <5>2. f[j] = Signature(L - n + j) /\ plan.steps[ran[L - n + j]].status = "failed"
          BY <1>12, <3>1, <5>1 DEF k
        <5>3. QED  BY <1>9, <5>1, <5>2
      <4>3. QED  BY <4>1, <4>2
    <3>4. ASSUME n < F, n < L PROVE plan'.steps[ran'[L - n]].status # "failed"
      <4>1. k < L - 1 /\ L - n = L - 1 - k /\ L - n \in 1..(L - 1)
        BY <1>7, <2>1, <3>1, <3>2, <3>4
      <4>2. plan.steps[ran[L - n]].status # "failed"
        BY <1>12, <2>4, <4>1 DEF k
      <4>3. QED  BY <1>9, <4>1, <4>2
    <3>5. QED  BY <2>2, <3>2, <3>3, <3>4 DEF f, n
  <2>5. CASE error # None /\ k = F
    <3>1. n = k /\ f[k] = <<step.agent, error>> /\ \A j \in 1..(k - 1) : f[j] = guard.failures[j + 1]
      BY <1>13, <2>5
    <3>2. n \in Nat /\ n <= F /\ n <= L
      BY <1>7, <1>12, <2>1, <2>5, <3>1
    <3> HIDE DEF f, n, k
    <3>3. ASSUME NEW j \in 1..n
          PROVE  plan'.steps[ran'[L - n + j]].status = "failed" /\ f[j] = NewSignature(L - n + j)
      <4>1. CASE j = k
        <5>1. L - n + j = L
          BY <1>7, <2>1, <3>1, <4>1
        <5>2. QED  BY <1>5, <1>10, <2>5, <3>1, <4>1, <5>1
      <4>2. CASE j # k
        <5>1. /\ j \in 1..(k - 1) /\ j + 1 \in 1..k
              /\ L - n + j = L - 1 - k + (j + 1) /\ L - n + j \in 1..(L - 1)
          BY <1>7, <1>12, <2>1, <3>1, <3>2, <4>2 DEF k
        <5>2. f[j] = Signature(L - n + j) /\ plan.steps[ran[L - n + j]].status = "failed"
          BY <1>12, <3>1, <5>1 DEF k
        <5>3. QED  BY <1>9, <5>1, <5>2
      <4>3. QED  BY <4>1, <4>2
    <3>4. ~(n < F)
      BY <1>7, <2>5, <3>1
    <3>5. QED  BY <2>2, <3>2, <3>3, <3>4 DEF f, n
  <2>6. k < F \/ k = F
    BY <1>7, <1>12, <2>1
  <2>7. QED  BY <2>3, <2>4, <2>5, <2>6
<1>25. QED  BY <1>6, <1>15, <1>16, <1>17, <1>21, <1>23, <1>24 DEF HarnessInv

-----------------------------------------------------------------------------
(* The theorems.                                                            *)
LEMMA HarnessStarts ==
  ASSUME Init
  PROVE  HarnessInv
<1>1. PICK request \in Requests, approval \in BOOLEAN :
        /\ Gated(request) => Placeable(request)
        /\ plan = [steps |-> Steps(request), approval |-> approval]
  BY DEF Init
<1>2. /\ limits \in Limits /\ at = "idle" /\ self = None /\ next = 0 /\ guard = NewGuard
      /\ gates \in [Harnesses -> [approval: BOOLEAN, executed: {0}]]
      /\ session = [h \in Harnesses |-> NewSession] /\ file = [h \in Harnesses |-> Torn] /\ ran = <<>>
  BY DEF Init
<1>3. plan.steps \in Seq(Untouched) /\ plan.approval \in BOOLEAN
  BY <1>1, StepsTyped
<1>4. plan.steps \in Seq(StepType)
  <2>1. Untouched \subseteq StepType
    BY DEF Untouched, StepType, Statuses
  <2>2. QED  BY <1>3, <2>1, SeqMonotonic
<1>5. \A i \in DOMAIN plan.steps : plan.steps[i].status = "pending"
  <2>1. TAKE i \in DOMAIN plan.steps
  <2>2. plan.steps[i] \in Untouched
    BY <1>3, LenProperties, ElementOfSeq
  <2>3. QED  BY <2>2 DEF Untouched
<1>6. /\ Len(plan.steps) \in Nat /\ ran \in Seq(DOMAIN plan.steps) /\ Len(ran) = 0 /\ DOMAIN ran = {}
  <2>1. Len(plan.steps) \in Nat
    BY <1>4, LenProperties
  <2>2. ran \in Seq(DOMAIN plan.steps) /\ Len(ran) = 0
    BY <1>2, EmptySeq
  <2>3. DOMAIN ran = 1..0
    BY <2>2, LenProperties
  <2>4. QED  BY <2>1, <2>2, <2>3
<1>7. NewSession \in Sessions /\ Torn \in Sessions /\ ~Torn.done
  <2>1. <<>> \in Seq([agent: Agents, status: Statuses])
    BY EmptySeq
  <2>2. NewSession \in Sessions
    BY <2>1 DEF NewSession, Sessions
  <2>3. QED  BY <2>2 DEF NewSession, Torn, Sessions
<1>8. TypeOK
  <2>1. plan \in [steps: Seq(StepType), approval: BOOLEAN]
    BY <1>1, <1>3, <1>4
  <2>2. guard \in Guards
    <3>1. <<>> \in Seq(Agents \X Errors)
      BY EmptySeq
    <3>2. QED  BY <1>2, <3>1 DEF NewGuard, Guards
  <2>3. next \in 0..(Len(plan.steps) + 1)
    BY <1>2, <1>6
  <2>4. /\ gates \in [Harnesses -> [approval: BOOLEAN, executed: Nat]]
        /\ session \in [Harnesses -> Sessions] /\ file \in [Harnesses -> Sessions]
    BY <1>2, <1>7
  <2>5. QED  BY <1>2, <1>6, <2>1, <2>2, <2>3, <2>4 DEF TypeOK, StepType
<1>9. StepsFit /\ CountsFit /\ StreakFits
  BY <1>2 DEF StepsFit, CountsFit, StreakFits
<1>10. RanFits
  BY <1>2, <1>5, <1>6 DEF RanFits, Status, Range
<1>11. Bounded
  <2>1. /\ limits.failures \in Nat /\ limits.failures >= 2
        /\ limits.iterations \in Nat /\ limits.calls \in Nat /\ limits.stale \in Nat
    BY <1>8, Typed
  <2>2. Failed = {} /\ Cardinality({}) = 0
    BY <1>6, FS_EmptySet DEF Failed
  <2>3. \A i \in 1..(Len(ran) - limits.failures) : FALSE
    BY <1>6, <2>1
  <2>4. QED  BY <1>6, <2>1, <2>2, <2>3 DEF Bounded
<1>12. SessionsFit
  BY <1>2, <1>7 DEF SessionsFit
<1>13. QED  BY <1>8, <1>9, <1>10, <1>11, <1>12 DEF HarnessInv

LEMMA HarnessSteps ==
  ASSUME HarnessInv, [Next]_vars
  PROVE  HarnessInv'
<1>1. CASE \E h \in Harnesses : Execute(h)
  BY <1>1, StartHolds
<1>2. CASE SkipUnmet
  BY <1>2, SkipUnmetHolds
<1>3. CASE Gate
  BY <1>3, GateHolds
<1>4. CASE Dispatch
  BY <1>4, DispatchHolds
<1>5. CASE Conclude
  BY <1>5, ConcludeHolds
<1>6. CASE CannotRun
  BY <1>6, CannotRunHolds
<1>7. CASE GoOn
  BY <1>7, GoOnHolds
<1>8. CASE Stop
  BY <1>8, StopHolds
<1>9. CASE SkipRest
  BY <1>9, SkipRestHolds
<1>10. CASE End
  BY <1>10, EndHolds
<1>11. CASE Expire
  BY <1>11, ExpireHolds
<1>12. CASE UNCHANGED vars
  <2>1. /\ limits' = limits /\ plan' = plan /\ at' = at /\ self' = self /\ next' = next
        /\ guard' = guard /\ gates' = gates /\ session' = session /\ file' = file /\ ran' = ran
    BY <1>12 DEF vars
  <2>2. Failed' = Failed /\ Ended' = Ended /\ ToldSoFar' = ToldSoFar
    BY <2>1 DEF Failed, Ended, ToldSoFar
  <2>3. \A i : Signature(i)' = Signature(i) /\ Status(i)' = Status(i)
    BY <2>1 DEF Signature, Status
  <2>4. TypeOK' /\ StepsFit' /\ RanFits' /\ CountsFit'
    <3>1. TypeOK'
      BY <2>1 DEF HarnessInv, TypeOK
    <3>2. StepsFit'
      BY <2>1 DEF HarnessInv, StepsFit, Status
    <3>3. RanFits'
      BY <2>1 DEF HarnessInv, RanFits, Status
    <3>4. CountsFit'
      BY <2>1, <2>2 DEF HarnessInv, CountsFit
    <3>5. QED  BY <3>1, <3>2, <3>3, <3>4
  <2>5. Bounded'
    <3>1. \A i : Futile(i)' <=> Futile(i)
      BY <2>1 DEF Futile, Signature
    <3>2. QED  BY <2>1, <2>2, <3>1 DEF HarnessInv, Bounded
  <2>6. StreakFits'
    BY <2>1, <2>2, <2>3 DEF HarnessInv, StreakFits
  <2>7. SessionsFit'
    BY <2>1, <2>2 DEF HarnessInv, SessionsFit, Status, Told
  <2>8. QED  BY <2>4, <2>5, <2>6, <2>7 DEF HarnessInv
<1>13. QED
  BY <1>1, <1>2, <1>3, <1>4, <1>5, <1>6, <1>7, <1>8, <1>9, <1>10, <1>11, <1>12 DEF Next, Call

(* The parts of the inductive invariant hold always.                        *)
THEOREM HarnessStaysSound == Spec => []HarnessInv
<1>1. Init => HarnessInv
  BY HarnessStarts
<1>2. HarnessInv /\ [Next]_vars => HarnessInv'
  BY HarnessSteps
<1>3. QED  BY <1>1, <1>2, PTL DEF Spec

(* Whatever is asked for, plan makes typed steps of it and every variable   *)
(* keeps its type.                                                          *)
THEOREM HarnessTypeCorrect == Spec => []TypeOK
<1>1. HarnessInv => TypeOK
  BY DEF HarnessInv
<1>2. QED  BY <1>1, HarnessStaysSound, PTL

(* No run starts more commands than its budgets, fails more often than may  *)
(* pass without progress, or goes on after the same failure came too often. *)
THEOREM BudgetsAlwaysHold == Spec => []BudgetsHold
<1>1. ASSUME HarnessInv PROVE BudgetsHold
  BY <1>1 DEF HarnessInv, Bounded, BudgetsHold, Failed, Futile, Signature
<1>2. HarnessInv => BudgetsHold
  BY <1>1
<1>3. QED  BY <1>2, HarnessStaysSound, PTL

(* No command of a plan is ever started twice, whichever harness is given   *)
(* the plan and wherever a call failed.                                     *)
THEOREM CommandsRunOnce == Spec => []RunsOnce
<1>1. ASSUME HarnessInv PROVE RunsOnce
  <2>1. TypeOK /\ \A i, j \in DOMAIN ran : i < j => ran[i] < ran[j]
    BY <1>1 DEF HarnessInv, RanFits
  <2>2. \A i \in DOMAIN ran : i \in Nat /\ ran[i] \in Nat
    BY <2>1, Typed
  <2>3. ASSUME NEW i \in DOMAIN ran, NEW j \in DOMAIN ran, ran[i] = ran[j] PROVE i = j
    BY <2>1, <2>2, <2>3
  <2>4. QED  BY <2>3 DEF RunsOnce, IsInjective
<1>2. HarnessInv => RunsOnce
  BY <1>1
<1>3. QED  BY <1>2, HarnessStaysSound, PTL

(* The session on disk tells what happened, while a call works and when it  *)
(* has ended.                                                               *)
THEOREM SessionIsAlwaysTrue == Spec => []SessionIsTrue
<1>1. ASSUME HarnessInv PROVE SessionIsTrue
  <2>1. TypeOK /\ SessionsFit /\ RanFits
    BY <1>1 DEF HarnessInv
  <2>2. ASSUME at \in {"loop", "check", "run", "skip"}, next > 1
        PROVE  file[self].results = Told(SubSeq(plan.steps, 1, next - 1))
    <3>1. next \in Nat /\ next <= Len(plan.steps) + 1 /\ DOMAIN plan.steps = 1..Len(plan.steps)
          /\ Len(plan.steps) \in Nat /\ \A i \in 1..(next - 1) : plan.steps[i] \in StepType
      BY <2>1, <2>2, Typed
    <3>2. file[self].results = [i \in 1..(next - 1) |-> Result(plan.steps[i])]
      <4>1. ToldSoFar = next - 1 /\ next - 1 >= 1 /\ at # "idle"
        BY <2>2, <3>1 DEF ToldSoFar
      <4>2. QED  BY <2>1, <4>1 DEF SessionsFit
    <3> DEFINE before == SubSeq(plan.steps, 1, next - 1)
    <3>3. before \in Seq(StepType) /\ Len(before) = next - 1
          /\ \A i \in 1..(next - 1) : before[i] = plan.steps[i]
      <4>1. /\ 1 \in Int /\ next - 1 \in Int /\ 1 <= next - 1 /\ (next - 1) - 1 + 1 = next - 1
            /\ \A i \in 1..(next - 1) : 1 + i - 1 = i
        BY <2>2, <3>1
      <4>2. /\ before \in Seq(StepType) /\ Len(before) = next - 1
            /\ \A i \in 1..(next - 1) : before[i] = plan.steps[1 + i - 1]
        BY <3>1, <4>1, SubSeqProperties
      <4>3. QED  BY <4>1, <4>2
    <3>4. DOMAIN before = 1..(next - 1)
      BY <3>3, LenProperties
    <3> HIDE DEF before
    <3>5. Told(before) = [i \in 1..(next - 1) |-> Result(plan.steps[i])]
      BY <3>3, <3>4 DEF Told
    <3>6. QED  BY <3>2, <3>5 DEF before
  <2>3. ASSUME NEW h \in Harnesses, file[h].done
        PROVE  /\ file[h].results = Told(plan.steps)
               /\ \A i \in DOMAIN plan.steps :
                    plan.steps[i].status \in {"passed", "failed"} <=> i \in Range(ran)
    <3>1. /\ file[h].results = Told(plan.steps)
          /\ \A i \in DOMAIN plan.steps : plan.steps[i].status \in Final
      BY <2>1, <2>3 DEF SessionsFit, Status
    <3>2. \A i \in DOMAIN plan.steps :
            i \in Range(ran) <=> plan.steps[i].status \in {"running", "passed", "failed"}
      BY <2>1 DEF RanFits, Status
    <3>3. QED  BY <3>1, <3>2 DEF Final
  <2>4. QED  BY <2>2, <2>3 DEF SessionIsTrue
<1>2. HarnessInv => SessionIsTrue
  BY <1>1
<1>3. QED  BY <1>2, HarnessStaysSound, PTL
=============================================================================
