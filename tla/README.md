# TLA+ models of Botte Secrète

Botte Secrète is a collection of about a hundred Python "skills" (command-line
tools for coding agents) and a few programs that live longer than one command.
This directory holds TLA+ modules of the parts that keep state across steps,
processes and crashes, the TLC configurations that check them on small
instances, and TLAPS proofs about them for every instance.

    tlasany M.tla                            parse a module
    tlc -workers 2 -config X.cfg M           model-check module M
    tlapm M.tla                              check the proofs of module M

`PROJECT.json` is the index: components, runs, the source lines each definition
stands for, the hazards and the properties that cover them, the wrong versions
that show each property can fail, the findings and the theorems.

## 1. The system

### Parts that keep state (what this project is about)

**Odin queue** (`scripts/odin_queue`, about 1000 lines with its page). One
supervisor process takes missions over HTTP, keeps them in a spool journalled
to one JSON file, and hands at most `--max-running` of them at once to a Codex
app-server it talks to over a pipe.

| part | state | operations | who calls it |
| --- | --- | --- | --- |
| `state.py` `Queue` | the list of jobs, `paused`, the last commit, `storage_failed`, the journal file | `submit`, `claim`, `attach`, `event`, `cancel`, `confirm_stopped`, `pause`, and recovery at construction | every thread, under `Queue.lock` |
| `state.py` `SupervisorLock` | an OS lock on a file | held while the process lives | `main` |
| `server.py` `Service`, `Handler` | a dispatcher thread, an HTTP thread per request | dispatch, POST routes | the owner's browser and clients |
| `codex.py` `Rpc` | calls that wait for a response, `closed` | `call`, `send`, the reader thread | the engine |
| `codex.py` `CodexEngine` | `ready`, `requests`, `early_completions`, `closed_turns` | `start` (a thread per job), `cancel`, `answer`, `_message`, `_disconnected` | dispatcher, HTTP threads, the reader |
| Codex app-server (external) | discussions, turns, pending requests | `thread/start`, `turn/start`, `turn/interrupt`, notifications | the engine |

The behaviours that are hard: four kinds of threads that each release the lock
between reading a job and acting on it; completions that overtake the answer
to `turn/start`; requests whose fate is unknown after a timeout, a lost pipe or
a crash; journal writes that fail in the middle of a transition; restarts with
another limit. What makes the queue correct: no mission is started twice, a
turn that may run always holds a slot, jobs that hold slots never share a
directory tree or a discussion, nothing the owner must decide is hidden, and
what cannot be known is shown as such and never guessed.

**Verified plans** (`skills/conductor/verified.py`, 452 lines, with
`executor.py` and `atomic_json.py`). A call runs the commands of an explicit
plan in order, after checking what each needs, and keeps one row of evidence per
step in a checkpoint file. Its state is that file, a lock file next to it, the
rows in memory and the project's own files. It may be interrupted, killed or
resumed, and several processes may be given one checkpoint. Hard: what a killed
call has left running, whether a command may be run again, and evidence that
went stale. Correct: no command runs twice; what is reported was seen; nothing is
rehabilitated.

**Shared memory** (`skills/memory_hub/shared_service.py`, `store.py`). SQLite
tables of entries, revisions and receipts, written by several agents through
one HTTP service or in-process, and copied and put back by an operator
(`recovery.py`). Operations: capture, checkpoint, correct, review, forget,
recall, history, scribe, wiki; backup and restore. Hard: requests that arrive
late, twice, or again after their answer was lost; two writers with one expected
version; a copy that arrives after a forget; a backup older than a forget.
Correct: a request has one effect and its author can always learn which; no
change overwrites one its author had not read; only reviewed words of the user
are given as context; a quarantined entry is never promoted; a forgotten one
leaves nothing and never comes back.

**Runtime runs** (`skills/llm_backends/runtime.py` over `runtime_io.py`).
`execute` asks engines for each cell of a run, writes what it has into a new
directory before it asks for the next one, and ends with a report and an outbox;
`capture` sends the outbox to the shared memory. Its state is the
files of one directory, a call in progress, and what the memory holds. Hard: a
kill or a failed write between a request and its row; an answer of the memory
that is lost, a request that arrives late, and a second process that captures the
same run meanwhile. Correct: no cell is paid twice; what is on disk never says
more than what happened; the memory holds one observation, of the right owner.

**Needle 2 router** (`skills/tool_router/needle2_adapter.py`,
`needle2_worker.py`). Threads share one worker process behind two pipes. Lines
carry no identifier, the engine in the worker may hang, print, raise or die, and
a wait ends in a timeout. State: the lock, the process, its catalog, the pipes.
Correct: an answer is about the query it is returned for, no worker is left
behind, every call returns a proposal or an abstention.

**Meta harness** (`skills/meta_harness`, with `skills/safe_exit/core.py` and
`skills/migration_audit/stage.py`). A request becomes a plan of steps, run one by
one under a gate and several budgets, with a session file rewritten after each.
Hard: budgets that run out on the same step, a session that cannot be
written after a command ran, a plan that is given to execute again. Correct: no
command twice, no budget exceeded, a session that tells what happened.

**Loops** (`loop_optimizer`, `control_loop`): small files of state, one process,
rules about when to keep a change. **Caches** (`response_cache`, `agent_cache`, `cache`): files
by digest with an age limit. **Cluster** (`cluster`, `fleet`): health and
dispatch of model servers with timeouts. **Events** (`events`, `webhooks`): an
append-only log. **Plugin installer** (`plugins`): copies with a rollback.

### Parts that keep none

The other routers, compression, solvers, audits, measures, documentation tools and the
small neural networks compute an answer from their inputs. There is no
behaviour of states to check; they are listed in `PROJECT.json` with the reason.
Where a component is a whole directory, `PROJECT.json` names the main file of each skill.
`agents/`, `configs/`, `references/`, `examples/`, `distribution/` and `docs/`
hold prose, configuration and examples.

## 2. The modules

| module | models | role |
| --- | --- | --- |
| `SlotLedger` | what the queue promises: a mission waits, holds one of N slots once, is over | abstract specification |
| `OdinQueue` | `state.py`: the spool and its callers at their most general | detailed specification; implements `SlotLedger` |
| `OdinQueueProofs` | theorems about `OdinQueue` | proofs |
| `AppServer` | the Codex app-server, its pipe and what may go wrong | environment (external) |
| `OdinCodex` | `codex.py` and `server.py` around the spool, with `AppServer` | composition; implements `OdinQueue!Spec` |
| `OdinCodexProofs` | theorems about `OdinCodex`: the refinement of the spool | proofs |
| `OdinTurnsProofs` | theorems about `OdinCodex` and `AppServer`: turns hold slots, slots have turns, questions are shown, the buttons of the page work | proofs |
| `MCOdinQueue`, `MCOdinCodex` | values of the constants | model checking |
| `VerifiedPlan` | `verified.py`: calls, checkpoint, lock, commands | specification |
| `VerifiedPlanProofs` | theorems about `VerifiedPlan` | proofs |
| `MCVerifiedPlan` | values of the constants | model checking |
| `SharedMemory` | `shared_service.py` over `store.py`, `recovery.py`: the transactions of one project's database | specification |
| `SharedMemoryProofs` | theorems about `SharedMemory` | proofs |
| `RuntimeRuns` | `runtime.py`: `execute` and `capture`, over `SharedMemory` | composition; its memory implements `SharedMemory!Spec` |
| `RuntimeRunsProofs` | theorems about `RuntimeRuns`, over those of `SharedMemoryProofs` | proofs |
| `NeedleRouter` | `needle2_adapter.py` and the worker behind its pipes | specification |
| `NeedleRouterProofs` | theorems about `NeedleRouter` | proofs |
| `MetaHarness` | `orchestrator.py`, `governance.py`, `session.py`, `safe_exit/core.py`, `stage.py` | specification |
| `MetaHarnessProofs` | theorems about `MetaHarness` | proofs |
| `MCSharedMemory`, `MCRuntimeRuns`, `MCNeedleRouter`, `MCMetaHarness` | values of the constants | model checking |

A definition named after another one with a suffix (`RecoveredReplays`) is a
wrong version of it: no specification uses it, `PROJECT.json` ("mutants") says
which property notices it.

### OdinQueue and the code

| code | model |
| --- | --- |
| `Queue.data`, `_committed_data`, the file, `storage_failed` | `data`, `committed`, `disk`, `storage_failed` |
| a job's status, thread, turn, pending requests, cwd, dedupe key | the fields of `Job`; its identifier is its position |
| `_commit` | `Commit` = `WriteOk` or `WriteFails`; a failed write restores the last commit and sets `storage_failed` |
| `submit`, `claim`, `attach`, `event`, `cancel`, `confirm_stopped`, `pause` | `Submit`, `Claim`, `AttachThread`/`AttachTurn`, `Event...`, `Cancel`, `ConfirmStopped`, `Pause` |
| `claim` skips jobs whose directory vanished, failing each in a commit of its own | `Dropped`, and `ClaimRaises` for a write that fails after earlier ones stood |
| `overlaps` on resolved paths | `Overlaps` on sequences of path components |
| process end, `Queue.__init__` under the lock | `Crash`, `Restart` |

Each public method holds `Queue.lock`, so a call is one action. `Claim` reads
the directories once per candidate: the set `missing` is chosen anew at every
claim. A crash inside a call leaves the file as one of the two outcomes of a
commit, so `Crash` between calls covers it. `claimed` is a history variable.

In this module the engine is at its most general: any report on any job that
left the queue, in any order. That makes the invariants independent of what
the engine does; `OdinCodex` then shows the real engine stays inside it.

### OdinCodex and the code

A step ends where the code releases a lock, waits, or goes on to read what
another thread writes. `task[0]` is the reader thread, `task[i]` the starter of
job i, `stopper[i]` the HTTP thread that interrupts it, `dispatcher` the loop of
`Service._dispatch`. A place such as `"checkTurn"` is a program point of
`CodexEngine.start` or `_message`; `task[x].job` is the copy of the job the code
looked up and keeps using. `AppServer` keeps the requests under way (`inbox`),
the messages it sent (`wire`, in order), and its turns; the turn that serves call
i is turn i. A turn may ask one question (`question`): of a method the engine supports
or of another one, with the decisions it offers. The engine keeps every question and
the journal shows it; `Buttons` are what the page (`ui.js`) makes of it, `Accepted` is
what `answer` checks: the job waits for a decision, the method is supported, the decision
is offered. The owner confirms the truth: `OwnerConfirms` is enabled only once
the turn is over and cannot start any more, which is what the page asks of the
owner. The account check, refusals, timeouts, death of the app-server and of
the supervisor are in `Faults`, so a run names what may go wrong in it.

### VerifiedPlan and the code

`holds` are the declared checks (postconditions, required inputs, sources) that
pass on the files now; `exec[e]` is the call process e is in: its program point
`pc`, rows, step, exit code. An action goes from one write of the checkpoint to
the next; checks read just before a write are one reading. `Begin`/`Leave` are
the lock file, `Load`/`Refuse` the validation of the checkpoint, `Reuse`,
`Pass`, `Start` the three things done with a step, `Launch`, `GivesUp`,
`ChildEnds`, `Conclude` the command, `Interrupt`, `Quit`, `Kill` the three ways a
call ends early. `FilesChange` and `ChildEnds` may happen at any moment,
`RemoveLock` is the manual removal of an orphaned lock, which the document
allows once the work is known to be inactive (`children = {}`). `launched`,
`proved` and `sure` are history.

### SharedMemory and the code

| code | model |
| --- | --- |
| tables `memory_entries`, `memory_quarantine`, `shared_vectors`, `shared_revisions`, `shared_requests`, `shared_tombstones` | the fields `trusted`, `quarantine`, `vectors`, `revisions`, `receipts`, `tombstones` of `db` |
| `call` with a capture or checkpoint, `correct`, `review`, `forget` | `Capture`, `Correct`, `Review`, `Forget` |
| the head of `_write`: tombstone, receipt, rights, version | `IsNew`, `MayChange`; a copy of a request is answered with `Replays` |
| `_build_entry`, `store.store`, `_snapshot`, the vector, the receipt | `Built`, `Sourced`, `Storable`, `Stored`, `Snapped`, `Vectors`, `Receipt`, in `Write` |
| `_candidates` for recall, scribe and wiki | `Context` |
| `backup_project`, `restore_project` | `Backup`, `Restore` |
| the writing calls of the service, those of the operator included | `Serves`; with the operator's copies, `Next` |

A writing call is one `BEGIN IMMEDIATE` transaction, so it is one action; a
refused call, a busy database, a crash before the commit and a replayed receipt
leave the database as it was and are stutters. What makes the system concurrent
is the time between an agent's reading and its call: `Request.saw` is any entry
the key ever held, and the database sees only its version. `past` (every entry
there ever was) and `applied` (the calls whose effect the database carries) are
history; a restore takes `applied` back with the rows, because the effects that
came after the backup are gone. A text stands for a whole record, its source and
its vector. `Backup` and `Restore` are atomic: the first uses SQLite's backup,
the second writes a new directory while the writers are stopped, which the
document requires and the code cannot enforce.

### RuntimeRuns and the code

`work[d]` is the call of `execute` on directory d: where it is (`at`), the
adapter and the shape of the run, the profiles tried for the current cell, and
the rows it has in memory. `disk[d]` are the files: `state` of `state.json`, the
frozen input, `observations.json` (`rows`), `output.private.json` (`outputs`),
report, outbox and receipt. Every write is a step of its own that may fail
(`Writes`); an exception goes to `Handle`, whose write may fail too; `Killed` may
come anywhere. `Ask` and `Infer` are the two ends of a request to an engine:
between them the process may be killed. `asked` is history.

`Send` checks what `capture` checks and puts the request on the
`wire`; `Served` is the service answering somebody who waits, `Late` serving the
same request when nobody does; `GivesUp` is a refusal, a lost answer and a kill.
The service is `SharedMemory`'s `Capture` itself, and `Operates` is everything else
it allows: corrections, reviews and forgets of others, backups and restores.

### NeedleRouter and the code

`holder` is `_lock`, `process` and `catalog` are the router's fields, `call[c]` is
the call of thread c: its point in `route`, its query (numbered, so that a query
and an answer can be told apart, which the lines cannot), the tools it offers.
`worker[w]` is a process with its two pipes. `Start`, `Send`, `Hear` and `Timeout`
are `_start`, `_send` and `_receive`; an exception in any of them is `Fails`, which
stops the process and releases the lock. The engine may print at any moment (`Noise`),
a line that does not decode or a JSON object. The first is a failure; the second
passes `_receive`, and if a query waits, `Hear` takes it for the response, abstains and
keeps the worker, as the code does: the response that follows stays in the pipe and the
next query with this catalog gets it. `misled` records that a worker was read in this way.
An object that is itself a well-formed answer is not modelled. `_send` to a dead or blocked worker ends
in `Raised`, not in an abstention: closing the stream in the handler raises
again (finding 3). `Timeout` is enabled as soon as there is no line, because
a deadline may pass at any moment; the reading thread's delay is inside it.

### MetaHarness and the code

`plan` is made in `Init` by `Steps`, with the loop over the request as the recursive
function `Planned`; `at` is the program point of the only call of `execute` that works, `self` its harness, `guard` its
`TurnExitGuard`. `SkipUnmet`, `Gate`, `Dispatch`, `Conclude`, `GoOn`, `Stop`,
`SkipRest`, `End` are the branches of the loop; `Saves` rewrites the session or
fails, leaving the old file or a torn one, and then the call ends with an
exception. `CannotRun` is a command that cannot be started at all. `Expire` is the
wall clock. A name stands for its normal form, which is what both sides compare.

## 3. What the runs check

| run | instance | distinct states | question |
| --- | --- | --- | --- |
| `spool` | 2 keys, 2 separate directories, an existing and a new discussion, 2 turns, 1 request, capacity 1 or 2, failing writes, crashes | 745,328 | do the spool's promises survive every order of calls, failure and crash, and does it implement `SlotLedger`? |
| `supervisor_one` | 1 job, every fault, every owner action, failing journal, a question with one button or of a method not supported | 977,128 | in every order of the threads: turns hold slots, slots have turns, buttons work, questions are shown, and the supervisor refines `OdinQueue!Spec` |
| `supervisor_live` | 2 jobs in one directory or in two, completions that name their discussion told early or late, one turn that may ask a question with a button, refusals, the app-server dies at any moment, fair threads | 202,992 | does every job end when the server lives, and is every job that held a slot reported when it does not? |
| `plan_steps` | 2 processes, 4 steps: one gated, one with two dependencies, one that cannot run; files that change, writes that fail, kills, orphaned locks | 106,904 | every property of the executor, with dependencies that break between two calls, and that a call that is not killed returns |
| `memory_key` | 3 agents, 3 request identifiers, 1 key, 3 texts, up to 5 versions | 28,068 | the properties of the life of one entry, without restores |
| `runtime` | 1 run of up to 2 cells, 2 processes that capture, an operator, 2 keys, up to 2 versions, backups and restores at any time | 503,094 | is work asked once and kept, is the observation bound to its run, and what do lost and late requests, forgets and old backups do to the memory? |
| `router` | 2 threads, 3 calls, 2 tools, changing catalogs, every fault of the worker, lines and JSON objects of the engine's own | 584,527 | can answers be mixed up otherwise than by an object taken for a response, workers be left behind, or calls never end? |
| `harness` | 2 harnesses, 5 requests (required, gated and destructive steps, equal failures), 4 mixes of budgets | 126,612 | do the budgets and the session hold together when several budgets bind at once and a write fails? |
| `resumed_discussion`, `bare_completion`, `router_dead`, `harness_plan` | smallest instances | violations | the four findings below |

### Properties

*Spool*: `JournalIsMemory` (memory, rollback image and file agree whenever the
process runs), `NoReplay` (what would be offered again was never handed out),
`SlotsAreSound` (the slots held are within the limits, in separate trees, in
separate discussions), `FailureStopsAdmission`, `KeepsLedger` (refinement).
*Supervisor*: `TurnsHoldSlots`, `SlotsHaveTurns`, `ButtonsWork`,
`AskingIsShown`, `EveryJobEnds`, `LossIsReported`, and `Spec` of `OdinQueue` as a
property of `SupervisorSpec`.
*Plans*: `NeverRepeated`, `ReportIsFresh`, `ReportIsClosed`,
`NeverRehabilitated`, `EveryCallReturns`.
*Shared memory*: `NoLostUpdate`, `ContextIsReviewed`, `QuarantineIsFinal`,
`TablesAgree` on `ServiceSpec`; `AtMostOnce`, `RetryIsAnswered`,
`ForgottenStaysForgotten` under the runs, with restores.
*Runs*: `AskedOnce`, `WorkIsPreserved`, `StatusIsEarned`, `ObservationIsBound`.
*Router*: `AnswersTheQuery`, `OneWorker`, `EveryRouteReturns`.
*Harness*: `BudgetsHold`, `RunsOnce`, `SessionIsTrue`.

### Bounds and why they are enough

Two jobs are the fewest that can conflict; that the limits hold for more is proved,
not model-checked. Two discussions (one
that exists and one that is opened) cover naming and opening. One request per
turn and one turn per start is what the model of the app-server hands out. `Questions`
are one question that offers only "accept" and, in `supervisor_one`, one of a method that
is not supported; `Askers` bounds the turns that may ask. A
capacity of 2 against `MaxCapacity` 2 with a restart at 1 covers the shrinking
limit. `EarlyLimit` is the 100 of `early_completions`, small enough in
`bare_completion` and `supervisor_one` to fill it. Two processes are enough to race
for one lock file; the proofs remove the bound. Steps of a plan interact only
through dependencies, of which `plan_steps` has every arrangement up to two deep.
`memory_key` follows one entry. Five versions (`MaxVersion`) are a capture, a
correction and its two reviews, and what ends it. The three agents are an operator
with every right, a user's client and a worker; the three texts differ in source,
vector and visibility. Rows of two keys meet only in a request identifier: in
`runtime` the identifier of the run is a key of its own and another one may be used
by the operator on either. Two cells are the fewest that have a "next" one
(`MaxCells`), and with one cell a chain of two profiles is tried; runs share
nothing but the memory, so there is one. Three calls to the router are one that
fails, one that may hear what was meant for it, and one after a new catalog;
`MaxLines` bounds only what a noisy engine prints unasked. The mixes of budgets in
`harness` let each budget be the first to bind, zero calls included. Symmetry is
declared on keys, on identifiers and on processes. It goes with liveness in one run,
`supervisor_live`, on the keys: neither its two properties nor the fairness names a key
or tells two keys apart, so no permutation of the keys changes what they say of a
behaviour. Without the symmetry the same instance has 405,964 states and passes too.

`CHECK_DEADLOCK FALSE` is in the configurations of `OdinCodex` and
`VerifiedPlan` because these systems stop: all jobs over and a supervisor that
nobody restarts, or all calls idle with an orphaned lock and no files left to
change. It is in those of `SharedMemory`, `RuntimeRuns` and `NeedleRouter` because a
finite set of identifiers, runs or calls is used up, and in those of
`MetaHarness` because a plan that ran cannot run again. `OdinQueue` can always
restart or pause, and is checked for deadlock.

### Fairness and why the code justifies it

`OdinCodex!Fairness`: weak fairness of each thread (dispatcher, reader,
starters, interrupters) — each is an OS thread in a loop or a straight line,
and `Queue.lock` is held only for bounded work; weak fairness of the app-server
while it lives, of turns that stop after it died, and of the owner, who presses some
button of a pending request: without that a job waits for ever by design, and so does
one whose question has no button, which is why `supervisor_live` has none of these.
Nothing is assumed of cancellations, confirmations or pauses. The dispatcher needs no
signal: its wait for one ends after 0.3 s (`server.py:41`), so it looks again by itself
and no lost wake-up can be at stake. `VerifiedPlan!FairSpec`: weak fairness
of a process's own steps, `GivesUp` included, because `subprocess.run(timeout=)`
returns. That a command ends is not assumed. `NeedleRouter!FairSpec`: weak fairness
of the steps of each calling thread, because every wait in them has a deadline;
nothing is assumed of the worker. A thread that waits for the lock is served
although the fairness is weak, since in the instance other calls are used up.

## 4. What is proved

`OdinQueueProofs` (for every set of keys, directories, discussions, turns and
requests, every limit, with or without failing writes):
`TypeCorrect` (`TypeOK`), `JournalAlwaysMemory` (`JournalIsMemory`),
`NeverReplayed` (`NoReplay`), `ActiveAlwaysCompatible` (`ActiveAreCompatible`),
`CapacityAlwaysRespected` (`CapacityRespected`), `SlotsAlwaysSound` (`SlotsAreSound`),
`LifecycleHolds` (`Lifecycle`), `PendingAlwaysMatches` (`PendingMatchesStatus`),
`OpenAlwaysBounded` (`OpenBounded`), `FailureAlwaysStopsAdmission` and
`LedgerAlwaysKept`: the spool implements `SlotLedger`.

The inductive invariant `SpoolInv` adds to the types: memory, rollback image and
file agree while the process runs (so that a property of the file can be argued
about `data`); the slots held are pairwise compatible and within the limits; and
every job ever handed out is in the list and not queued. Its preservation goes
through one lemma, `StepWrites`: whatever a step does, the journal stays as it
is or becomes one image that keeps or loses slots (`QuietStep`), grants one slot
(`GrantStep`), or is what a restart makes of it (`Recovered`). Compatibility is
preserved by a grant because `claim` compares with every active job, and by a late
attachment because the discussion is the one the job named or one that no job has.
`ThreadsAssumption`, `TurnsAssumption` and `LimitsAssumption` are what is
assumed of the constants; `OpenedFor`, that the app-server does not open a discussion
twice, is an assumption on the environment.

`OdinCodexProofs` and `OdinTurnsProofs` (for any number of jobs, every fault and
every order of the threads, when no submission names a discussion to resume,
`Named = {}`): `SupervisorKeepsSpec`, `SupervisorAlwaysTyped`,
`TurnsAlwaysHoldSlots`, `TurnsAlwaysFitTheSlots`, `ButtonsAlwaysWork` (`ButtonsWork`),
`SlotsAlwaysHaveTurns`, `AskingAlwaysShown`. The refinement needs to know that
whatever a thread, a pipe or the engine has at hand speaks of a job that was handed
out (`Known`), and that a job has no other discussion and no other turn than its own
(`OwnNames`): `SupervisorInv` says so by the place of each thread (`PlaceFits`). Every
step is then a step of the spool (`QueueStep`), and the theorems of
`OdinQueueProofs` hold of the supervisor. For the turns, `TurnsInv` follows a start
along its places: before it asks for a turn there is none and the job holds a slot,
or the connection is closed and it will never ask (`NotStarted`); the answer it waits
for is the answer to what it asked last (`AnswersFit`), so that a refusal is only
taken for the end of a start that started nothing; and news of a turn is true of it
(`Tells`), so that only a turn that ended gives its slot back. One thread moves at a
time (`ThreadStep`), the app-server moves none (`ServerStep`), a crash and a restart
replace them all (`NewThreadsHold`). With a discussion to resume the same statement is
false of the code: finding 1, run `resumed_discussion`.

For the requests, `PendingInv` says that what a job shows as pending is its own request,
and that the engine holds it or the reader has taken it out and is on its way to
removing it from the journal; an approval the reader has saved under the lock is still
saved when it asks the journal to show it, unless the job is over, and then the journal
refuses; a turn is only added to `closed_turns` when its job is over. It needs no
assumption on what the server sends. `ButtonsWork` follows with the status: requests
are kept by jobs that wait or are being interrupted (`PendingMatchesStatus`), and a
button stands for a supported method and a decision it offers. Two things it does
not say, because they are false of the code: a job that is being interrupted keeps
its buttons on the page while `answer` refuses them, and a question of another method is
shown without a button until its turn is interrupted.

For the slots and the questions, `NewsInv` says where the news is, while the process,
its journal and the app-server serve. What is no longer looked at is over: the turns in
`closed_turns`, in `early_completions`, in the hands of a starter or of a reader that
found no job (`TurnsAreOver`). A running job without a turn has a starter
(`StartsGoOn`). The end of a turn is on the wire or with a thread that will handle it
(`EndsAreTold`). A question is on the wire, being handled, shown, or its answer or
refusal is under way (`AsksAreTold`). A turn that began is of a job whose discussion is
attached (`TurnBegun`), which is why `active_for` finds the job of a completion that
names its discussion (`EndFindsJob`): the step that fails for a completion without
`threadId`. Hence the hypothesis `"bare" \notin Emits` of `SlotsAlwaysHaveTurns` and
`AskingAlwaysShown`; without it the first is false of the code: finding 2, run
`bare_completion`. A crash, a dead app-server or a failed write are steps of the proofs:
they end `Serving`, and a restart finds no job running and no thread at work.

Besides the assumptions above the theorems of the two modules
rest on `IdsAssumption`, `EarlyAssumption`, `EmitsAssumption` and `QuestionsAssumption`, and on what
`AppServer` assumes: a request is answered once, and an owner confirms a stop only
when the turn is over.

`VerifiedPlanProofs` (for every plan, any number of processes, any files):
`PlanTypeCorrect`, `CommandsNeverRepeated`, `StartsAreRecorded`,
`CommandsWorkAlone`, `DependenciesComeFirst`, `ReportsAreFresh`, `ReportsAreClosed`,
`CheckpointsCanResume`, `OutcomesAreKept`. The inductive invariant `PlanInv`
says that at most one call is not idle, that it holds the lock, and that the rows
it has in memory are the rows of the file (or there is no file and nothing was
started). Every fact about the rows one call writes is then a fact about the
file, and a step that is not marked as started was never launched. The proofs
rest on `PlanAssumption` (dependencies point backwards, as `validate_plan`
checks), `NoneAssumption`, and on `RemoveLock` waiting for the command to end.

`SharedMemoryProofs` (for any actors, rights, identifiers, keys and texts, with
backups and restores): `MemoryTypeCorrect`, `RowsAreInOneTable`,
`RequestsTakeEffectOnce`, `RetriesAreAnswered`, `QuarantineLasts`,
`HistoriesAreComplete`, `VectorsStayCurrent`, `ForgettingIsComplete`,
`TablesAlwaysAgree`, `NothingIsInvented`, `ForgettingIsForEver`; and `UpdatesAreNotLost` and
`ContextAlwaysReviewed` of `ServiceSpec`, where nothing is restored. The
inductive invariant `MemoryInv` says that a database is sound with the calls it
carries (`Sound`): the row of a key is in one table and ends a history that has
each version once, every call that took effect has its receipt and its revision
unless its key was forgotten, and a tombstone leaves nothing else. It must hold of
the last backup too, for a restore makes it the database again, less what was
forgotten: `Erased` keeps soundness, and `Forget` is the same operator with one
key. `UpdatesAreNotLost` needs `LineInv` besides: every entry there ever was is in
the history of its key, so an expected version names what its author had read.
`ContextAlwaysReviewed` rests on `VouchedInv`: a row out of quarantine has among its
calls those its status asks for, and since no update is lost, what a reviewer had
read when it approved is the text the row still has.
`RetriesAreAnswered` is why the receipt must be looked up before the version.
`NothingIsInvented` holds with restores too: every row and receipt of the database and
of the backup speaks of an entry its key once had (`past`), for a restore
only brings back what a backup held, less what was forgotten.

After a restore versions are handed out again, and an agent that read before it
may name with an old version a text it never saw. The code has no guard against
that, the document leaves it to the operator, and `NoLostUpdate` and
`ContextIsReviewed` are claimed only without restores (`ServiceSpec`).

`RuntimeRunsProofs` (for any runs, number of cells, processes that capture and
operators): `RuntimeTypeCorrect`, `QuestionsAskedOnce`, `CompletedWorkIsKept`,
`StatusIsAlwaysEarned`, `MemoryIsServed`, `ServiceKeepsItsPromises` and
`ObservationsStayBound`. The inductive
invariant `RunInv` is `MemoryInv`, and for each run `RunSound`, a relation between
its call, its files and what it asked for: what was asked lies before the cell and
profile that come next, and the files are those of the place the call is at
(`FilesFollow`). It is proved one write at a time (`WrittenRun`), then lifted to the
steps of a run. `MemoryIsServed` says that every step of the composition is a
step of `SharedMemory` or leaves it alone, so the theorems about the memory hold
under runs without being proved again (`ServiceKeepsItsPromises`). A receipt may be
written into a directory only after its call began, which is why `CapturesSound` is
part of the invariant. `ObservationsStayBound` needs three facts more (`BoundInv`):
every entry there ever was under the key of a run is a quarantined observation of the
identity in the run's outbox, a capture on its way or at work was made by that
identity, and a receipt in a directory is of a first version there was. The outbox is written once and its
owner with it (`OutboxStays`), a change keeps owner and quarantine
(`ChangeKeepsBound`), and a restore brings back nothing that never was
(`NothingIsInvented`). They rest on `RuntimeAssumption`.

`NeedleRouterProofs` (for any callers, tools and catalogs, any number of calls,
whatever the engine does): `RouterTypeCorrect`, `AnswersAlwaysFit` and
`NoWorkerLeftBehind`. The difficulty is that lines carry no identifier. The inductive
invariant `RouterInv` says what the pipes of the only worker may hold, by the place of
the call that holds the lock: nothing it could go on with before it is told a
catalog (`Fresh`), at most one `ready` while it loads (`Starting`), and from then on
only responses for the tools it was started with (`Kept`, the part that holds whatever
was printed). While no object of the engine's was taken for a response, nothing
that could be taken for an answer waits before a query (`Clean`), and at most one
response, about this query, afterwards (`OneAnswer`); `Waiting` and `Answering` put the
two parts together. So `AnswersAlwaysFit` says of every proposal that it is for the catalog that was
offered, and that it is about the query that was asked unless its worker was `misled`. A worker that is not the one the router knows has
stopped, so a failure that does not stop it would break the invariant at the next
call. It rests on `RouterAssumption`.

`MetaHarnessProofs` (for every catalogue, request, budget, gate and number of
harnesses, wherever a call fails): `HarnessTypeCorrect`, `BudgetsAlwaysHold`,
`CommandsRunOnce`, `SessionIsAlwaysTrue`. The inductive invariant `HarnessInv` says
that a call works on its own step, with the steps before it settled and those after it
untouched (`StepsFit`), that `ran` is increasing in the order of the plan and names
exactly the steps that are not pending or skipped (`RanFits`), and what the guard knows:
it has counted every command that ended (`CountsFit`), and the failures it remembers are
the last ones in a row, as many as there were or as may be alike (`StreakFits`). The
budgets follow at the only step that starts a command (`Admits`); `BudgetsHold` speaks
of what ran, not of the guard's counters, so a counter that is not kept would
break it. `SessionsFit` follows the session: nothing before its call, each settled step
after. A session is marked done only with every step final, after which no call of
this plan can start unless the plan is empty. That `plan` makes typed steps of any
request (`StepsTyped`) is an induction over its names: `LeastNumber` and `Induction` are
drawn from the theorems about well-founded sets that take no operator (`WFMin`,
`NatLessThanWellFounded`), and `LoopExists` shows that the recursive function exists.
They rest on `HarnessAssumption`.

Every invariant and every action property of the passing runs is stated by a theorem.
Left to TLC: liveness (`EveryJobEnds`, `LossIsReported`, `EveryCallReturns`,
`EveryRouteReturns`), since fairness and ENABLED are beyond the prover. The theorems
about `OdinCodex` say nothing of submissions that resume a discussion, and the last two
nothing of completions without `threadId`: there the runs of the findings show what
the code does.

## 5. Findings

1. `codex.py:156` — a resumed discussion. `active_for` matches a job by its
   discussion while it has no turn yet. When a second job resumes the discussion
   of a first one whose owner confirmed it stopped, or that ended, a late
   completion of the first turn that carries that discussion is taken for the
   second job's, which is completed while its own turn is about to start: the turn then runs
   without a slot (run `resumed_discussion`). `docs/integrations/odin-codex-queue.md:47`
   promises otherwise.
2. `codex.py:202` — a lost early completion. A completion without `threadId`
   is looked up before the answer to `turn/start`, then stored in
   `early_completions` after the starter has read it: nobody reads it again and
   the slot is kept for ever (run `bare_completion`). The comment at
   `codex.py:199` says such completions are kept for the starter.

3. `needle2_adapter.py:141` — an exception out of the router. When the worker died or
   does not read, `_send` fails with the line still in the stream's buffer; the
   handler of the error calls `_stop`, whose `stream.close()` writes it again and
   raises `BrokenPipeError` out of `route()`, past the abstention (run
   `router_dead`). `base.py:53` says "Return a safe route or an explicit
   abstention; never execute a tool."
4. `orchestrator.py:233` — a step that can never run. The catalogue's key `dartagnan`
   names its agent `d'artagnan`, and `test` requires the key: `build_plan` finds it
   by key, `execute` looks for a passed step by name, so `test` is skipped in every
   quick-fix and full plan (run `harness_plan`). `orchestrator.py:159` says
   "Validates dependencies and orders steps correctly."

## 6. What is not modelled

Of the queue: the simulation engine, the page, tokens, CSRF and host checks,
titles, prompts, results, timestamps, the size limits of texts. Of verified
plans: previews (`dry_run`) and runs without a checkpoint (they share no state),
refused arguments, fingerprints (the plan of a checkpoint never changes in the
model), the 32 MiB limit of the file, and grandchildren that outlive a killed
command. Of the shared memory: the HTTP transport and tokens, validation, sizes, expiry,
tags, ranking, the moment of a checkpoint as different from a capture, and the
older local calls of `store.py` (`transition`, `delete`, `prune_expired`), which
`docs/shared-memory.md:79` asks not to use on a shared directory. Of the runtime
runs: what the checks of a configuration refuse, prompts, contexts and texts of
answers, the comparison of profiles, and a configuration or directory edited since
the run. Of the router: a worker that survives its kill, and an exception raised
from outside into a thread that waits (an interrupt from the keyboard). Of the meta
harness: two sessions created within one second (they share a file name), the
promotion of variants, and plans edited by hand.

Known and left out: the lock file a killed call of a plan leaves (by design;
removing it is `RemoveLock`), a thread that cannot be created for a claimed job, two
HTTP threads that answer one approval, a connection that ends while the engine is
being constructed, so that `ready` stays set after `_disconnected` cleared it
(`codex.py:119`; a start then fails on the closed connection), and a power cut after the
rename of the journal, whose directory is not synced (`state.py:109`): `Crash` ends a
process, not the machine. Hazards without a property are in `PROJECT.json` with the
reason: a directory that is removed or retargeted while its job waits, a queued job that
others overtake for ever, an object that the native engine prints while a query of the
router runs, and versions given again after a restore.

Most of the repository's lines are in components that are functions of their input:
scores and rankings, compression, audits, solvers, neural networks, displays,
adapters to other programs. They have no states between calls, no concurrency
and no protocol; models of them would restate their code. `PROJECT.json` lists each with
its reason. What remains of the stateful ones (loops, caches, events, plugins, the
cluster) is one process that rewrites one file per call.

## 7. Plan

1. *(done)* `OdinQueue`, `SlotLedger`, its runs and proofs, the refinement proved.
2. *(done)* `OdinCodex` with `AppServer`: interleavings, faults, liveness,
   refinement of the spool.
3. *(done)* `VerifiedPlan`, its runs and proofs.
4. *(done)* `SharedMemory`, its runs and proofs.
5. *(done)* `RuntimeRuns` composed with `SharedMemory`; its proofs.
6. *(done)* `NeedleRouter` and `MetaHarness` with their proofs.
7. *(done)* `OdinCodexProofs` and `OdinTurnsProofs`: refinement, types, turns, requests
   and questions when no discussion is resumed.
8. *(left)* The theorems about `OdinCodex` for resumed discussions, for what holds there
   in spite of finding 1.
9. *(left)* An abstract register per key that `SharedMemory` implements; an install of
   a plugin that fails half-way; the loops of `loop_optimizer`.
