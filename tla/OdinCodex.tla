------------------------------ MODULE OdinCodex ------------------------------
(***************************************************************************)
(* The supervisor of the Odin queue around the spool: CodexEngine and Rpc  *)
(* (scripts/odin_queue/codex.py), the dispatcher and the HTTP handlers     *)
(* (scripts/odin_queue/server.py), and the Codex app-server they talk to.  *)
(*                                                                         *)
(* The threads of the process: the dispatcher, the reader of the           *)
(* app-server's output (task 0), a starter for each claimed job (task i)   *)
(* and an HTTP thread for each interrupted job.  A step ends where the     *)
(* code releases a lock, waits, or goes on to read what another thread     *)
(* writes.                                                                 *)
(*                                                                         *)
(* A job that names no discussion is given discussion i.  The text of the  *)
(* agent and the items it works on are left out.                           *)
(***************************************************************************)
EXTENDS OdinQueue, AppServer

CONSTANTS
  Named,      \* discussions that submissions ask to resume
  OwnerDoes,  \* what the owner does beside submitting: "pause", "cancel",
              \*   "confirm", "answer"
  EarlyLimit  \* early_completions takes no more than this many (100)

ASSUME IdsAssumption ==
  /\ IsFiniteSet(Keys) /\ Ids = 1 .. Cardinality(Keys)
  /\ Ids \subseteq Turns \cap Requests /\ Ids \subseteq Threads \ KnownThreads
ASSUME EarlyAssumption == EarlyLimit \in Nat \ {0}

VARIABLES
  dispatcher,  \* the place of Service._dispatch
  task,        \* [0 .. N -> place, message and job at hand of the reader and starters]
  stopper,     \* [Ids -> place and turn of the HTTP thread that interrupts the job]
  engine,      \* the attributes of CodexEngine and Rpc that several threads share
  sweep        \* the jobs _disconnected has still to report

engineVars == <<dispatcher, task, stopper, engine, sweep>>
vars == <<queueVars, engineVars, serverVars>>

Disconnected == engine.closed \/ ~server

(* A task goes to rest at a place, or goes on with its message and job.     *)
Nothing == [kind |-> "none", turn |-> 0]
Rest(place) == [at |-> place, message |-> Nothing, job |-> 0]
At(x, place) == task[x].at = place
Goes(x, place) == task' = [task EXCEPT ![x] = Rest(place)]
GoesOn(x, place) == task' = [task EXCEPT ![x].at = place]
Handles(x, message) == task' = [task EXCEPT ![x] = [Rest("message") EXCEPT !.message = message]]
Finishes(x) == Goes(x, IF x = 0 THEN "idle" ELSE "done")

(* A call on the queue by a task.  QueuePersistenceError ends a starter,    *)
(* which stops the engine, and as an OSError ends the reader.               *)
Calls(x, Call, raised, Return) ==
  /\ Call
  /\ IF ~raised THEN Return /\ UNCHANGED engine
     ELSE IF x = 0 THEN Goes(0, "eof") /\ UNCHANGED engine
     ELSE Goes(x, "done") /\ engine' = [engine EXCEPT !.ready = FALSE]

Reports(x, i, Call, Return) == Calls(x, Call, storage_failed' /\ ~Ignored(i), Return)

Stopper(place) == [at |-> place, turn |-> None]

ThreadOf(i) == IF data.jobs[i].thread = None THEN i ELSE data.jobs[i].thread

(* active_for: the first job that holds a slot and has this turn, or has    *)
(* this discussion and no turn yet; 0 when there is none.                   *)
MatchingTurn(thread, t) == {i \in Active(data) : data.jobs[i].turn = t}
Matching(thread, t) ==
  {i \in Active(data) :
     \/ data.jobs[i].turn = t
     \/ thread # None /\ data.jobs[i].thread = thread /\ data.jobs[i].turn = None}

ActiveFor(message) ==
  LET found == Matching(IF message.kind = "bare" THEN None ELSE ThreadOf(message.turn),
                        message.turn)
  IN  IF found = {} THEN 0 ELSE CHOOSE i \in found : \A k \in found : i <= k

(* Turns known to be over when the engine starts.                           *)
ClosedAtStartWithNone(q) == {q.jobs[i].turn : i \in DOMAIN q.jobs \ Active(q)}
ClosedAtStart(q) == {q.jobs[i].turn : i \in DOMAIN q.jobs \ Active(q)} \ {None}

FreshEngine(q) ==
  [ready |-> TRUE, closed |-> FALSE, early |-> {}, requests |-> {},
   closed_turns |-> ClosedAtStart(q)]

ThreadsEnd(place) ==
  /\ dispatcher' = place
  /\ task' = [x \in {0} \cup Ids |-> Rest("idle")]
  /\ stopper' = [i \in Ids |-> Stopper("idle")]
  /\ sweep' = {} /\ wire' = <<>>

SupervisorInit ==
  /\ Init
  /\ dispatcher = "top"
  /\ task = [x \in {0} \cup Ids |-> Rest("idle")]
  /\ stopper = [i \in Ids |-> Stopper("idle")]
  /\ engine = FreshEngine(data) /\ sweep = {}
  /\ AppServerInit

-----------------------------------------------------------------------------
(* Service._dispatch: wait for the engine, then claim until nothing is left *)
(* to start.  A failing journal ends the thread.                            *)
DispatchTop ==
  /\ dispatcher = "top"
  /\ \/ storage_failed /\ dispatcher' = "stopped"
     \/ ~storage_failed /\ engine.ready /\ dispatcher' = "claim"
  /\ UNCHANGED <<queueVars, task, stopper, engine, sweep, serverVars>>

Claims(none) ==
  \/ /\ \E i \in DOMAIN data.jobs : ClaimReturns(i, {}) /\ Goes(i, "check")
     /\ UNCHANGED dispatcher
  \/ ClaimReturnsNothing({}) /\ dispatcher' = none /\ UNCHANGED task
  \/ ClaimRaises({}) /\ dispatcher' = "stopped" /\ UNCHANGED task

DispatchClaimWith(none) ==
  /\ dispatcher = "claim"
  /\ IF ~storage_failed /\ Admits(data) THEN Claims(none)
     ELSE /\ dispatcher' = IF storage_failed THEN "stopped" ELSE none
          /\ UNCHANGED <<memory, claimed, task>>
  /\ UNCHANGED <<up, capacity, stopper, engine, sweep, serverVars>>

DispatchClaimOnce == DispatchClaimWith("stopped")
DispatchClaim == DispatchClaimWith("top")

-----------------------------------------------------------------------------
(* CodexEngine.start                                                        *)
StarterOnly ==
  UNCHANGED <<up, capacity, claimed, dispatcher, stopper, sweep, server, turn, question, wire>>

(* ensure_available, then the account is read through the connection and    *)
(* must be the expected one; or ensure_available alone.                     *)
StartCheck(i, at, next) ==
  /\ At(i, at)
  /\ \/ storage_failed /\ Calls(i, TRUE, TRUE, TRUE)
     \/ /\ ~storage_failed
        /\ \/ at = "check" /\ Disconnected /\ Goes(i, "lost")
           \/ at = "check" /\ "account" \in Faults /\ Goes(i, "failed")
           \/ (at = "check" => ~Disconnected) /\ Goes(i, next)
        /\ UNCHANGED engine
  /\ UNCHANGED <<memory, inbox>> /\ StarterOnly

(* A request is sent on a connection that may have closed since.            *)
StartSend(i, at, request, next) ==
  /\ At(i, at)
  /\ IF Disconnected THEN Goes(i, "lost") /\ UNCHANGED inbox
                     ELSE Goes(i, next) /\ inbox' = inbox \cup {<<request, i, i>>}
  /\ UNCHANGED <<memory, engine>> /\ StarterOnly

StartTimeoutFails(i) ==
  /\ "timeout" \in Faults /\ (At(i, "waitThread") \/ At(i, "waitTurn"))
  /\ Goes(i, "failed")
  /\ UNCHANGED <<memory, engine, inbox>> /\ StarterOnly
StartTimeout(i) ==
  /\ "timeout" \in Faults
  /\ At(i, "waitThread") \/ At(i, "waitTurn")
  /\ Goes(i, "lost")
  /\ UNCHANGED <<memory, engine, inbox>> /\ StarterOnly

StartAttach(i, at, Attach, next) ==
  /\ At(i, at)
  /\ Calls(i, Attach, storage_failed', Goes(i, next))
  /\ UNCHANGED inbox /\ StarterOnly

(* A completion that came before the turn was known is taken out, to be     *)
(* handled by this thread as the reader would.                              *)
StartPopEarly(i) ==
  /\ At(i, "popEarly")
  /\ LET found == {m \in engine.early : m.turn = i}
     IN  /\ engine' = [engine EXCEPT !.early = @ \ found]
         /\ IF found = {} THEN Goes(i, "done") ELSE \E m \in found : Handles(i, m)
  /\ UNCHANGED <<memory, inbox>> /\ StarterOnly

(* The exception handlers: an error answer fails the job, anything else     *)
(* leaves it to be verified.                                                *)
StartExcepts(i, at, Event_) ==
  /\ At(i, at)
  /\ Reports(i, i, Event_, Goes(i, "done"))
  /\ UNCHANGED inbox /\ StarterOnly

Start(i) ==
  \/ StartCheck(i, "check", "sendThread")
  \/ StartSend(i, "sendThread", "thread", "waitThread")
  \/ StartAttach(i, "attachThread", AttachThread(i, ThreadOf(i)), "checkTurn")
  \/ StartCheck(i, "checkTurn", "sendTurn")
  \/ StartSend(i, "sendTurn", "turn", "waitTurn")
  \/ StartAttach(i, "attachTurn", AttachTurn(i, i), "popEarly")
  \/ StartPopEarly(i)
  \/ StartExcepts(i, "failed", EventComplete(i, "failed"))
  \/ StartExcepts(i, "lost", EventUnknown(i))

-----------------------------------------------------------------------------
(* Rpc._read: the response of a call that still waits wakes its thread, any *)
(* other is dropped; what is not a response goes to _message.               *)
ReaderOnly == UNCHANGED <<up, capacity, claimed, dispatcher, server, turn, question>>

(* Where the calling thread goes on: nowhere, unless it waits for this.     *)
Resumed(m) ==
  CASE m.kind = "threadOk" /\ At(m.turn, "waitThread") -> "attachThread"
    [] m.kind = "turnOk" /\ At(m.turn, "waitTurn") -> "attachTurn"
    [] m.kind = "startNo" /\ task[m.turn].at \in {"waitThread", "waitTurn"} -> "failed"
    [] OTHER -> task[m.turn].at

Released(m) ==
  IF m.kind \in {"stopOk", "stopNo"} /\ stopper[m.turn].at = "wait"
  THEN Stopper(IF m.kind = "stopOk" THEN "idle" ELSE "lost")
  ELSE stopper[m.turn]

Read ==
  /\ At(0, "idle") /\ wire # <<>>
  /\ wire' = Tail(wire)
  /\ LET m == Head(wire)
     IN  IF m.kind \in Emits \cup {"resolved"}
         THEN Handles(0, m) /\ UNCHANGED stopper
         ELSE /\ GoesOn(m.turn, Resumed(m))
              /\ stopper' = [stopper EXCEPT ![m.turn] = Released(m)]
  /\ UNCHANGED <<memory, engine, sweep, inbox>> /\ ReaderOnly

(* CodexEngine._message, by the reader or by a starter with an early        *)
(* completion.  A message of a closed turn is refused or dropped; else the  *)
(* job is looked up, once: the copy is used until the message is handled.   *)
Refuses(m) ==
  IF Disconnected THEN Goes(0, "eof") /\ UNCHANGED inbox
                  ELSE Goes(0, "idle") /\ inbox' = inbox \cup {<<"deny", 0, m.turn>>}

Knows(x, job, place) ==
  task' = [task EXCEPT ![x].job = job, ![x].at = place] /\ UNCHANGED inbox

Finds(x, m, job) ==
  IF m.kind # "approval" THEN Knows(x, job, "completion")
  ELSE IF job = 0 \/ data.jobs[job].turn \notin {None, m.turn} THEN Refuses(m)
  ELSE Knows(x, job, IF data.jobs[job].turn = None THEN "save new" ELSE "save")

LookUp(x) ==
  /\ At(x, "message")
  /\ LET m == task[x].message
     IN  IF m.kind = "resolved" THEN GoesOn(x, "resolve") /\ UNCHANGED inbox
         ELSE IF m.turn \notin engine.closed_turns THEN Finds(x, m, ActiveFor(m))
         ELSE IF m.kind = "approval" THEN Refuses(m)
         ELSE Finishes(x) /\ UNCHANGED inbox
  /\ UNCHANGED <<memory, stopper, engine, sweep, wire>> /\ ReaderOnly

Keeps(m) ==
  engine' = [engine EXCEPT !.early = IF Cardinality(@) < EarlyLimit THEN @ \cup {m} ELSE @]

Completion(x) ==
  /\ At(x, "completion")
  /\ LET m == task[x].message
         job == task[x].job
     IN  IF job = 0 THEN Keeps(m) /\ Finishes(x) /\ UNCHANGED memory
         ELSE IF m.kind = "odd" THEN Reports(x, job, EventUnknown(job), Finishes(x))
         ELSE Reports(x, job, EventComplete(job, "completed"), GoesOn(x, "close"))
  /\ UNCHANGED <<stopper, sweep, inbox, wire>> /\ ReaderOnly

CloseTurn(x) ==
  /\ At(x, "close")
  /\ engine' = [engine EXCEPT !.closed_turns = @ \cup {task[x].message.turn},
                              !.requests = {r \in @ : r[1] # task[x].job}]
  /\ Finishes(x)
  /\ UNCHANGED <<memory, stopper, sweep, inbox, wire>> /\ ReaderOnly

(* A request is kept under its identifier with what it asks (question),     *)
(* supported or not; its turn is attached when the job had none, then the   *)
(* job waits for the owner.                                                 *)
SaveRequest ==
  /\ At(0, "save") \/ At(0, "save new")
  /\ LET request == task[0].message.turn
     IN  engine' = [engine EXCEPT !.requests =
           {r \in @ : r[2] # request} \cup {<<task[0].job, request>>}]
  /\ GoesOn(0, IF At(0, "save") THEN "approve" ELSE "attach")
  /\ UNCHANGED <<memory, stopper, sweep, inbox, wire>> /\ ReaderOnly

AttachTo(next) ==
  /\ At(0, "attach")
  /\ Calls(0, AttachTurn(task[0].job, task[0].message.turn), storage_failed', next)
  /\ UNCHANGED <<stopper, sweep, inbox, wire>> /\ ReaderOnly
AttachOnly == AttachTo(Finishes(0))
Attach == AttachTo(GoesOn(0, "approve"))

Approve ==
  /\ LET job == task[0].job
         request == task[0].message.turn
     IN  \/ At(0, "approve") /\ Reports(0, job, EventApproval(job, request), Finishes(0))
         \/ At(0, "resolved") /\ Reports(0, job, EventResolved(job, request), Finishes(0))
  /\ UNCHANGED <<stopper, sweep, inbox, wire>> /\ ReaderOnly

PopResolvedWith(next) ==
  /\ At(0, "resolve")
  /\ LET saved == {r \in engine.requests : r[2] = task[0].message.turn}
     IN  /\ engine' = [engine EXCEPT !.requests = @ \ saved]
         /\ IF saved = {}
            THEN Finishes(0)
            ELSE \E r \in saved : task' = [task EXCEPT ![0] = next[r[1]]]
  /\ UNCHANGED <<memory, stopper, sweep, inbox, wire>> /\ ReaderOnly
PopResolvedSilently == PopResolvedWith([job \in Ids |-> Rest("idle")])
PopResolved ==
  PopResolvedWith([job \in Ids |-> [task[0] EXCEPT !.at = "resolved", !.job = job]])

(* What the reader or a starter does with a message.                        *)
Message(x) == LookUp(x) \/ Completion(x) \/ CloseTurn(x)

(* The end of the output, or of the reader: every waiting call is woken     *)
(* without a response, then _disconnected reports each job that holds a     *)
(* slot in the snapshot it takes.                                           *)
EndOfFile ==
  /\ At(0, "eof") \/ (At(0, "idle") /\ wire = <<>> /\ ~server)
  /\ engine' = [engine EXCEPT !.closed = TRUE]
  /\ task' = [x \in {0} \cup Ids |->
       CASE x = 0 -> Rest("disconnect")
         [] task[x].at \in {"waitThread", "waitTurn"} -> Rest("lost")
         [] OTHER -> task[x]]
  /\ stopper' = [i \in Ids |-> IF stopper[i].at = "wait" THEN Stopper("lost") ELSE stopper[i]]
  /\ UNCHANGED <<memory, sweep, inbox, wire>> /\ ReaderOnly

Disconnect ==
  /\ At(0, "disconnect")
  /\ engine' = [engine EXCEPT !.ready = FALSE]
  /\ sweep' = Active(data)
  /\ Goes(0, "sweep")
  /\ UNCHANGED <<memory, stopper, inbox, wire>> /\ ReaderOnly

SweepThen(i, left) ==
  /\ EventUnknown(i)
  /\ IF storage_failed' /\ ~Ignored(i) THEN Goes(0, "dead") /\ sweep' = {}
                                       ELSE sweep' = left /\ UNCHANGED task

SweepStep(left) ==
  /\ At(0, "sweep")
  /\ \/ sweep = {} /\ Goes(0, "dead") /\ UNCHANGED <<memory, sweep>>
     \/ \E i \in sweep : (\A k \in sweep : i <= k) /\ SweepThen(i, left[i])
  /\ UNCHANGED <<stopper, engine, inbox, wire>> /\ ReaderOnly
SweepFirstOnly == SweepStep([i \in sweep |-> {}])
Sweep == SweepStep([i \in sweep |-> sweep \ {i}])

Reader ==
  \/ Read \/ Message(0) \/ SaveRequest \/ Attach \/ Approve \/ PopResolved
  \/ EndOfFile \/ Disconnect \/ Sweep

-----------------------------------------------------------------------------
(* The HTTP handlers: none does anything once the journal failed.           *)
HttpOnly ==
  UNCHANGED <<up, capacity, claimed, dispatcher, task, engine, sweep, server, turn, question, wire>>

OwnerSubmits ==
  /\ \E key \in Keys, dir \in Dirs :
       \E thread \in (Named \cap (KnownThreads \cup InUse)) \cup {None} : Submit(key, dir, thread)
  /\ UNCHANGED <<stopper, inbox>>

OwnerPauses ==
  /\ "pause" \in OwnerDoes
  /\ \E paused \in BOOLEAN : Pause(paused)
  /\ UNCHANGED <<stopper, inbox>>

(* queue.cancel, then engine.cancel with the copy it returned.              *)
OwnerCancels(i) ==
  /\ "cancel" \in OwnerDoes
  /\ stopper[i].at = "idle"
  /\ Cancel(i)
  /\ stopper' = IF ~storage_failed' /\ data'.jobs[i].status = "cancelling"
                THEN [stopper EXCEPT ![i] = [at |-> "send", turn |-> data.jobs[i].turn]]
                ELSE stopper
  /\ UNCHANGED inbox

(* The owner confirms the truth: the turn of the job is over, and no        *)
(* request that would start it is still on its way.                         *)
OwnerConfirms(i) ==
  /\ "confirm" \in OwnerDoes
  /\ i \notin Live /\ <<"turn", i, i>> \notin inbox
  /\ ConfirmStopped(i)
  /\ UNCHANGED <<stopper, inbox>>

(* answer: the request must be held for a job that waits for an approval,   *)
(* be of a supported method and offer this decision; any other is refused.  *)
(* Only the notification that it is resolved ends the wait.                 *)
Accepted(i, request, decision) ==
  /\ StatusOf(i) = "waiting_approval" /\ <<i, request>> \in engine.requests
  /\ question[request].supported /\ decision \in question[request].available

OwnerAnswers(i) ==
  /\ "answer" \in OwnerDoes
  /\ ~Disconnected
  /\ \E r \in engine.requests, decision \in Decisions :
       Accepted(i, r[2], decision) /\ inbox' = inbox \cup {<<"answer", i, r[2]>>}
  /\ UNCHANGED <<memory, stopper>>

Owner ==
  /\ ~storage_failed
  /\ \/ OwnerSubmits
     \/ OwnerPauses
     \/ \E i \in DOMAIN data.jobs : OwnerCancels(i) \/ OwnerConfirms(i) \/ OwnerAnswers(i)
  /\ HttpOnly

(* CodexEngine.cancel: the acknowledgement frees nothing; an error, a       *)
(* timeout or a lost connection leaves the job to be verified.              *)
StopSend(i) ==
  /\ stopper[i].at = "send"
  /\ IF Disconnected
     THEN stopper' = [stopper EXCEPT ![i] = Stopper("lost")] /\ UNCHANGED inbox
     ELSE /\ stopper' = [stopper EXCEPT ![i].at = "wait"]
          /\ inbox' = inbox \cup {<<"interrupt", i, stopper[i].turn>>}
  /\ UNCHANGED memory /\ HttpOnly

StopTimeout(i) ==
  /\ "timeout" \in Faults
  /\ stopper[i].at = "wait"
  /\ stopper' = [stopper EXCEPT ![i] = Stopper("lost")]
  /\ UNCHANGED <<memory, inbox>> /\ HttpOnly

StopLost(i) ==
  /\ stopper[i].at = "lost"
  /\ EventUnknown(i)
  /\ stopper' = [stopper EXCEPT ![i] = Stopper("idle")]
  /\ UNCHANGED inbox /\ HttpOnly

-----------------------------------------------------------------------------
(* The supervisor dies with its threads and its connection; main starts it  *)
(* again on the journal, with a new app-server.                             *)
SupervisorCrash ==
  /\ "crash" \in Faults
  /\ Crash
  /\ ThreadsEnd("stopped") /\ Disappears
  /\ engine' = [FreshEngine(Empty) EXCEPT !.ready = FALSE, !.closed = TRUE]

RestartOver(Reload) ==
  /\ Reload
  /\ ThreadsEnd("top")
  /\ engine' = FreshEngine(data')
  /\ server' = TRUE /\ inbox' = {} /\ UNCHANGED <<turn, question>>

ReloadAsIs(max_running) ==
  /\ ~up /\ up' = TRUE /\ capacity' = max_running
  /\ data' = disk /\ committed' = disk /\ storage_failed' = FALSE
  /\ UNCHANGED <<disk, claimed>>

SupervisorRestartAsIs ==
  \E max_running \in Limits : RestartOver(ReloadAsIs(max_running))
SupervisorRestart ==
  \E max_running \in Limits : RestartOver(Restart(max_running))

SupervisorNext ==
  \/ /\ up
     /\ \/ DispatchTop
        \/ DispatchClaim
        \/ \E i \in Ids : Start(i) \/ StartTimeout(i) \/ Message(i)
        \/ Reader
        \/ Owner
        \/ \E i \in Ids : StopSend(i) \/ StopTimeout(i) \/ StopLost(i)
  \/ /\ Serves \/ MayServe \/ (up /\ ServerDies) \/ \E i \in Ids : TurnStops(i)
     /\ UNCHANGED <<queueVars, engineVars>>
  \/ SupervisorCrash
  \/ SupervisorRestart

SupervisorSpec == SupervisorInit /\ [][SupervisorNext]_vars

-----------------------------------------------------------------------------
(* The places of starters and of the reader; those of both with a message.  *)
Places ==
  {"idle", "done", "check", "sendThread", "waitThread", "attachThread", "checkTurn",
   "sendTurn", "waitTurn", "attachTurn", "popEarly", "failed", "lost"}
    \cup {"eof", "disconnect", "sweep", "dead"}
    \cup {"message", "completion", "close", "save", "save new", "attach", "approve",
          "resolve", "resolved"}

(* The types; early_completions never exceeds its limit, and only turns are *)
(* ever taken for closed.                                                   *)
SupervisorTypeOK ==
  /\ TypeOK
  /\ dispatcher \in {"top", "claim", "stopped"}
  /\ task \in [{0} \cup Ids -> [at: Places, job: {0} \cup Ids,
                 message: [kind: {"none", "resolved"} \cup Emits, turn: {0} \cup Ids]]]
  /\ stopper \in [Ids -> [at: {"idle", "send", "wait", "lost"}, turn: Turns \cup {None}]]
  /\ engine \in [ready: BOOLEAN, closed: BOOLEAN, early: SUBSET [kind: Emits, turn: Ids],
                 closed_turns: SUBSET Ids, requests: SUBSET (Ids \X Ids)]
  /\ Cardinality(engine.early) <= EarlyLimit
  /\ sweep \subseteq Ids
  /\ server \in BOOLEAN
  /\ turn \in [Ids -> {"none", "live", "asking", "answered", "ended"}]
  /\ question \in [Ids -> Questions \cup {NoQuestion}]

(* A turn that runs in the app-server, or whose request may still start it, *)
(* holds a slot in the journal.  With CapacityRespected and                 *)
(* ActiveAreCompatible: no more turns run than the limit, and none touch    *)
(* the same directories, whatever timed out, crashed or came late.          *)
TurnsHoldSlots ==
  \A i \in Ids : i \in Live \/ <<"turn", i, i>> \in inbox => i \in Active(disk)

(* A thread of the process or a message under way will still report on i.   *)
Expected(i) ==
  \/ task[i].at \notin {"idle", "done"}
  \/ stopper[i].at # "idle"
  \/ \E x \in {0} \cup Ids : task[x].message.turn = i
  \/ task[0].at \in {"eof", "disconnect", "sweep"}
  \/ \E n \in DOMAIN wire : wire[n].turn = i
  \/ <<"reply", i, i>> \in inbox

(* A job that holds a slot, and is not shown as one to verify, has a turn   *)
(* that runs or news of it under way: no answer, completion, error or loss  *)
(* of the connection is dropped so that a slot is occupied for ever.  (A    *)
(* failed journal keeps its slots until the restart.)                       *)
SlotsHaveTurns ==
  up /\ server /\ ~storage_failed =>
    \A i \in Running(data) : i \in Live \/ Expected(i)

(* The buttons of the page: for each pending request of a supported method, *)
(* the decisions it offers.                                                 *)
Buttons(i) ==
  {b \in data.jobs[i].pending \X Decisions :
     question[b[1]].supported /\ b[2] \in question[b[1]].available}

(* A button that the page shows works: the engine takes this decision for   *)
(* this job, unless the reader is handling the end of its request or the    *)
(* job is being interrupted.  (Then the code keeps the button and refuses   *)
(* the decision.)  A request without a button is not promised an answer.    *)
ButtonsWork ==
  up /\ ~storage_failed =>
    \A i \in DOMAIN data.jobs : \A b \in Buttons(i) :
      \/ Accepted(i, b[1], b[2])
      \/ StatusOf(i) = "cancelling"
      \/ At(0, "resolved") /\ task[0].job = i /\ task[0].message.turn = b[1]

(* A turn that waits for a decision is shown to the owner, has been         *)
(* answered, or belongs to a job that is to be verified.                    *)
AskingIsShown ==
  up /\ server /\ ~storage_failed =>
    \A i \in Ids : turn[i] = "asking" =>
      \/ i \in data.jobs[i].pending
      \/ StatusOf(i) = "unknown"
      \/ Expected(i)
      \/ \E message \in inbox : message[3] = i

-----------------------------------------------------------------------------
(* The threads of a live process go on, and so does the app-server while it *)
(* lives: it answers, and its turns end.  Nothing is assumed of the owner   *)
(* but that some button of a pending request is pressed.                    *)
Fairness ==
  /\ WF_vars(up /\ (DispatchTop \/ DispatchClaim))
  /\ WF_vars(up /\ Reader)
  /\ \A i \in Ids : WF_vars(up /\ (Start(i) \/ Message(i)))
  /\ \A i \in Ids : WF_vars(up /\ (StopSend(i) \/ StopLost(i)))
  /\ WF_vars(Serves /\ UNCHANGED <<queueVars, engineVars>>)
  /\ WF_vars((\E i \in Ids : TurnStops(i)) /\ UNCHANGED <<queueVars, engineVars>>)
  /\ WF_vars(up /\ ~storage_failed /\ HttpOnly /\ \E i \in DOMAIN data.jobs : OwnerAnswers(i))

FairSupervisor == SupervisorSpec /\ Fairness

(* Every submitted job is started in its turn and ends, unless the          *)
(* app-server is lost: in no order of the threads is a response, a refusal, *)
(* a question or a completion left with nobody to go on from it.  It is     *)
(* true of completions that name their discussion (those that do not can be *)
(* lost: run bare_completion) and of questions that have a button.          *)
EveryJobEnds ==
  \A i \in Ids :
    (i \in DOMAIN data.jobs) ~> (~server \/ (i \in DOMAIN data.jobs /\ StatusOf(i) \in TERMINAL))

(* Once the app-server is gone, every job that held a slot is shown as one  *)
(* to verify or has ended, for good: no start already under way is          *)
(* forgotten by the report.                                                 *)
LossIsReported == (up /\ ~server) ~> [](Running(data) = {})
=============================================================================
