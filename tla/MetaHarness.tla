----------------------------- MODULE MetaHarness -----------------------------
(***************************************************************************)
(* The orchestrator of skills as agents (skills/meta_harness): plan()      *)
(* turns a request into steps, execute() runs them one by one under the    *)
(* governance's gate (governance.py) and the budgets of SAFE-EXIT          *)
(* (skills/safe_exit/core.py), and the session (session.py) is rewritten   *)
(* on disk after each of them.                                             *)
(*                                                                         *)
(* Several harnesses of one program may be given one plan, one after the   *)
(* other; each call may fail in the middle, because a command cannot be    *)
(* run at all or because the session cannot be written.                    *)
(*                                                                         *)
(* A name stands for its normal form (case, quotes, spaces and hyphens).   *)
(* Not modelled: the words of outputs and reasons, durations, plans that   *)
(* are edited by hand, and two sessions created in the same second, which  *)
(* share their file.                                                       *)
(*                                                                         *)
(* A definition named after another one with a suffix is a wrong version   *)
(* of it, used only to see that the properties notice.                     *)
(***************************************************************************)
EXTENDS Integers, Sequences, FiniteSets, SequencesExt

CONSTANTS
  Harnesses,    \* MetaHarness objects
  Catalog,      \* _AGENT_CATALOG: key -> the name it is shown under, the keys it requires
  Requests,     \* sequences of names a caller may ask for
  Limits,       \* SafeExitConfigs in use
  Destructive,  \* names of steps whose command holds a destructive keyword
  MaxSteps,     \* Governance.max_steps
  Errors,       \* exit codes and first lines of errors
  None

ASSUME HarnessAssumption ==
  /\ \A c \in Limits :
       c.iterations \in Nat \ {0} /\ c.calls \in Nat /\ c.failures \in Nat \ {0, 1} /\ c.stale \in Nat \ {0}
  /\ MaxSteps \in Nat
  /\ \A key \in DOMAIN Catalog :
       Catalog[key].requires \subseteq DOMAIN Catalog /\ IsFiniteSet(Catalog[key].requires)
  /\ \A request \in Requests : request \in Seq(Range(request))
  /\ None \notin Harnesses

VARIABLES
  limits,   \* safe_exit_config
  plan,     \* the plan: its steps and approval_required
  at,       \* "idle" when no call of execute works, else its program point
  self,     \* the harness of that call
  next,     \* the loop's step
  guard,    \* its SafeExitGuard
  gates,    \* harness -> require_approval, steps_executed
  session,  \* harness -> its session in memory
  file,     \* harness -> the session on disk
  ran       \* steps in the order their commands were started (history)

vars == <<limits, plan, at, self, next, guard, gates, session, file, ran>>

-----------------------------------------------------------------------------
(* MetaHarness.plan. *)

\* _resolve_agent, by key or by the name shown.
Keys(name) == {key \in DOMAIN Catalog : key = name \/ Catalog[key].name = name}

Bare(name) == [agent |-> name, requires |-> {}, status |-> "pending", error |-> None]
StepOf(key) == [Bare(Catalog[key].name) EXCEPT !.requires = Catalog[key].requires]

\* insert_migration_audit_stage refuses what it cannot place the audit in.
Position(request, name) == {i \in DOMAIN request : request[i] = name}
Gated(request) == Position(request, "builder") # {} /\ Position(request, "validator") # {}
Placeable(request) ==
  /\ Cardinality(Position(request, "builder")) = 1
  /\ Cardinality(Position(request, "validator")) = 1
  /\ Cardinality(Position(request, "migration_audit")) <= 1
  /\ \A b \in Position(request, "builder"), v \in Position(request, "validator") :
       b < v /\ \A a \in Position(request, "migration_audit") : b < a /\ a < v
Staged(request) ==
  IF Gated(request) /\ Position(request, "migration_audit") = {}
    THEN InsertAt(request, CHOOSE v \in Position(request, "validator") : TRUE, "migration_audit")
    ELSE request

\* A requirement no earlier step of the request brought is inserted, its own are not.
WithAgent(planned, name) ==
  LET key == CHOOSE k \in Keys(name) : TRUE
      missing == SetToSeq(Catalog[key].requires \ planned.seen)
  IN  IF Keys(name) = {}
        THEN [planned EXCEPT !.steps = Append(@, Bare(name))]
        ELSE [steps |-> planned.steps \o [i \in DOMAIN missing |-> StepOf(missing[i])] \o <<StepOf(key)>>,
              seen |-> planned.seen \cup Catalog[key].requires \cup {name}]

\* What is planned when the first n names of a request were read.
Planned(request) ==
  LET planned[n \in 0..Len(request)] ==
        IF n = 0 THEN [steps |-> <<>>, seen |-> {}] ELSE WithAgent(planned[n - 1], request[n])
  IN  planned
Steps(request) == Planned(Staged(request))[Len(Staged(request))].steps

-----------------------------------------------------------------------------
(* SafeExitGuard. *)

NewGuard == [iterations |-> 0, calls |-> 0, stale |-> 0, failures |-> <<>>, late |-> FALSE]

\* check
Exhausted(g) ==
  \/ g.iterations >= limits.iterations
  \/ g.calls >= limits.calls
  \/ g.late
  \/ Len(g.failures) = limits.failures /\ Cardinality(Range(g.failures)) = 1
  \/ g.stale >= limits.stale

\* observe, for a command of an agent that succeeded (None) or failed.
ObservedIfFailed(g, agent, error) ==
  IF error = None
    THEN [g EXCEPT !.failures = <<>>]
    ELSE [g EXCEPT !.iterations = @ + 1, !.calls = @ + 1, !.stale = @ + 1,
                   !.failures = Append(@, <<agent, error>>)]
Observed(g, agent, error) ==
  LET recent == Append(g.failures, <<agent, error>>)
      first == IF Len(recent) > limits.failures THEN 2 ELSE 1
      counted == [g EXCEPT !.iterations = @ + 1, !.calls = @ + 1]
  IN  IF error = None
        THEN [counted EXCEPT !.failures = <<>>]
        ELSE [counted EXCEPT !.stale = @ + 1, !.failures = SubSeq(recent, first, Len(recent))]

-----------------------------------------------------------------------------
(* MetaHarness.execute. *)

NewSession == [used |-> FALSE, results |-> <<>>, decision |-> "CONTINUE", done |-> FALSE]
\* What is on disk before the first save, or after one that failed half-way.
Torn == [NewSession EXCEPT !.decision = "TORN"]

Init ==
  /\ limits \in Limits
  /\ \E request \in Requests, approval \in BOOLEAN :
       /\ Gated(request) => Placeable(request)
       /\ plan = [steps |-> Steps(request), approval |-> approval]
  /\ at = "idle" /\ self = None /\ next = 0 /\ guard = NewGuard
  /\ gates \in [Harnesses -> [approval: BOOLEAN, executed: {0}]]
  /\ session = [h \in Harnesses |-> NewSession]
  /\ file = [h \in Harnesses |-> Torn]
  /\ ran = <<>>

Result(step) == [agent |-> step.agent, status |-> step.status]

\* The session is rewritten, or the call ends in the middle with an exception.
Saves(s, then) ==
  /\ session' = [session EXCEPT ![self] = s]
  /\ \/ file' = [file EXCEPT ![self] = s] /\ at' = then
     \/ \E left \in {file[self], Torn} : file' = [file EXCEPT ![self] = left] /\ at' = "idle"

\* add_result
Records(step, then) ==
  /\ plan' = [plan EXCEPT !.steps[next] = step]
  /\ Saves([session[self] EXCEPT !.results = Append(@, Result(step))], then)

SkippedAsBlocked(step) == [step EXCEPT !.status = "blocked"]
Skipped(step) == [step EXCEPT !.status = "skipped"]

\* A session or a plan that was used is refused.
ExecuteAgain(h) ==
  /\ at = "idle" /\ ~session[h].used
  /\ at' = "loop" /\ self' = h /\ next' = 1 /\ guard' = NewGuard
  /\ session' = [session EXCEPT ![h].used = TRUE]
  /\ UNCHANGED <<limits, plan, gates, file, ran>>
Execute(h) ==
  /\ at = "idle" /\ ~session[h].used
  /\ \A i \in DOMAIN plan.steps : plan.steps[i].status = "pending"
  /\ at' = "loop" /\ self' = h /\ next' = 1 /\ guard' = NewGuard
  /\ session' = [session EXCEPT ![h].used = TRUE]
  /\ UNCHANGED <<limits, plan, gates, file, ran>>

InLoop == at = "loop" /\ next \in DOMAIN plan.steps

\* Requirements are keys, steps are known by the names shown.
Met(step) ==
  \A dep \in step.requires :
    \E i \in 1..(next - 1) : plan.steps[i].agent = dep /\ plan.steps[i].status = "passed"

SkipUnmet ==
  /\ InLoop /\ ~Met(plan.steps[next])
  /\ Records(Skipped(plan.steps[next]), "loop")
  /\ next' = next + 1
  /\ UNCHANGED <<limits, self, guard, gates, ran>>

\* Governance.check counts the steps it is asked about, only for such plans.
Blocked(step) ==
  \/ gates[self].executed + 1 > MaxSteps
  \/ step.agent \in Destructive
  \/ gates[self].approval

Gate ==
  /\ InLoop /\ Met(plan.steps[next]) /\ plan.approval
  /\ gates' = [gates EXCEPT ![self].executed = @ + 1]
  /\ IF Blocked(plan.steps[next])
       THEN Records(Skipped(plan.steps[next]), "loop") /\ next' = next + 1
       ELSE at' = "check" /\ UNCHANGED <<plan, session, file, next>>
  /\ UNCHANGED <<limits, self, guard, ran>>

Ready == at = "check" \/ (InLoop /\ Met(plan.steps[next]) /\ ~plan.approval)

\* The check before a command; the command starts.
Dispatch ==
  /\ Ready /\ ~Exhausted(guard)
  /\ at' = "run" /\ plan' = [plan EXCEPT !.steps[next].status = "running"]
  /\ ran' = Append(ran, next)
  /\ UNCHANGED <<limits, self, next, guard, gates, session, file>>

\* Its outcome: it may also be that it could not be run at all.
Conclude ==
  /\ at = "run"
  /\ \E error \in Errors \cup {None} :
       LET step == [plan.steps[next] EXCEPT !.status = IF error = None THEN "passed" ELSE "failed", !.error = error]
       IN  /\ Records(step, "observe")
           /\ guard' = Observed(guard, step.agent, error)
  /\ UNCHANGED <<limits, self, next, gates, ran>>

CannotRun ==
  /\ at = "run"
  /\ at' = "idle"
  /\ UNCHANGED <<limits, plan, self, next, guard, gates, session, file, ran>>

GoOn ==
  /\ at = "observe" /\ ~Exhausted(guard)
  /\ at' = "loop" /\ next' = next + 1
  /\ UNCHANGED <<limits, plan, self, guard, gates, session, file, ran>>

\* terminate_uncertain, from either check; then _skip_remaining_after_safe_exit.
Stop ==
  /\ Ready \/ at = "observe"
  /\ Exhausted(guard)
  /\ Saves([session[self] EXCEPT !.decision = "UNCERTAIN"], "skip")
  /\ next' = IF at = "observe" THEN next + 1 ELSE next
  /\ UNCHANGED <<limits, plan, self, guard, gates, ran>>

SkipRestSilently ==
  /\ at = "skip" /\ next \in DOMAIN plan.steps
  /\ plan' = [plan EXCEPT !.steps[next] = Skipped(plan.steps[next])]
  /\ next' = next + 1
  /\ UNCHANGED <<limits, at, self, guard, gates, session, file, ran>>
SkipRest ==
  /\ at = "skip" /\ next \in DOMAIN plan.steps
  /\ Records(Skipped(plan.steps[next]), "skip")
  /\ next' = next + 1
  /\ UNCHANGED <<limits, self, guard, gates, ran>>

End ==
  /\ at \in {"loop", "skip"} /\ next \notin DOMAIN plan.steps
  /\ Saves([session[self] EXCEPT !.done = TRUE], "idle")
  /\ UNCHANGED <<limits, plan, self, next, guard, gates, ran>>

\* The wall-clock budget runs out, whatever the call is doing.
Expire ==
  /\ at # "idle" /\ ~guard.late
  /\ guard' = [guard EXCEPT !.late = TRUE]
  /\ UNCHANGED <<limits, plan, at, self, next, gates, session, file, ran>>

Call == SkipUnmet \/ Gate \/ Dispatch \/ Conclude \/ CannotRun \/ GoOn \/ Stop \/ SkipRest \/ End

Next == (\E h \in Harnesses : Execute(h)) \/ Call \/ Expire

Spec == Init /\ [][Next]_vars

-----------------------------------------------------------------------------
Statuses == {"pending", "running", "passed", "failed", "skipped"}
Agents == {Catalog[key].name : key \in DOMAIN Catalog} \cup UNION {Range(Staged(r)) : r \in Requests}
Sessions == [used: BOOLEAN, results: Seq([agent: Agents, status: Statuses]),
             decision: {"CONTINUE", "UNCERTAIN", "TORN"}, done: BOOLEAN]

Guards == [iterations: Nat, calls: Nat, stale: Nat, failures: Seq(Agents \X Errors), late: BOOLEAN]

(* Every variable has its type; only a call that works has a step.          *)
TypeOK ==
  /\ limits \in Limits
  /\ plan \in [steps: Seq([agent: Agents, requires: SUBSET DOMAIN Catalog, status: Statuses,
                           error: Errors \cup {None}]), approval: BOOLEAN]
  /\ at \in {"idle", "loop", "check", "run", "observe", "skip"}
  /\ self \in Harnesses \cup {None}
  /\ next \in 0..(Len(plan.steps) + 1)
  /\ guard \in Guards
  /\ gates \in [Harnesses -> [approval: BOOLEAN, executed: Nat]]
  /\ session \in [Harnesses -> Sessions] /\ file \in [Harnesses -> Sessions]
  /\ ran \in Seq(DOMAIN plan.steps)

(* What SAFE-EXIT promises of a whole run: no more commands than either     *)
(* budget, no more failures than may pass without progress, and none after  *)
(* the same failure came too often in a row.                                *)
BudgetsHold ==
  LET failed == {i \in DOMAIN ran : plan.steps[ran[i]].status = "failed"}
      same(i, j) == plan.steps[ran[i]].agent = plan.steps[ran[j]].agent
                    /\ plan.steps[ran[i]].error = plan.steps[ran[j]].error
      futile(i) == \A j \in i..(i + limits.failures - 1) : plan.steps[ran[j]].status = "failed" /\ same(i, j)
  IN  /\ Len(ran) <= limits.iterations /\ Len(ran) <= limits.calls
      /\ Cardinality(failed) <= limits.stale
      /\ \A i \in 1..(Len(ran) - limits.failures) : ~futile(i)

(* "A session/plan can execute only once": whatever calls failed in the     *)
(* middle, no command of a plan is started twice.                           *)
RunsOnce == IsInjective(ran)

(* The session tells what happened: while a call works, every step before   *)
(* its own is on disk with its outcome, in order; when it has ended all are,*)
(* and everything that ran is told even if the run was stopped.             *)
Told(steps) == [i \in DOMAIN steps |-> Result(steps[i])]
SessionIsTrue ==
  /\ at \in {"loop", "check", "run", "skip"} /\ next > 1 =>
       file[self].results = Told(SubSeq(plan.steps, 1, next - 1))
  /\ \A h \in Harnesses : file[h].done =>
       /\ file[h].results = Told(plan.steps)
       /\ \A i \in DOMAIN plan.steps :
            plan.steps[i].status \in {"passed", "failed"} <=> i \in Range(ran)

(* "Validates dependencies and orders steps correctly." (plan's             *)
(* documentation): when nothing fails, is blocked or stopped, every step of *)
(* the plan runs.                                                           *)
PlansCanPass ==
  \A h \in Harnesses :
    session[h].done /\ session[h].decision = "CONTINUE" /\ ~plan.approval
      /\ (\A i \in DOMAIN plan.steps : plan.steps[i].status # "failed")
      => \A i \in DOMAIN plan.steps : plan.steps[i].status = "passed"
=============================================================================
