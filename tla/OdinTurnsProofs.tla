--------------------------- MODULE OdinTurnsProofs ---------------------------
(***************************************************************************)
(* What the journal and the app-server know of each other, for the         *)
(* supervisor of OdinCodexProofs, any number of jobs, every fault and no   *)
(* discussion to resume, in three parts: the turns of the app-server hold  *)
(* slots (TurnsInv); a request for an approval that the page shows can be  *)
(* answered (PendingInv); and the slots have turns, or news of their turn  *)
(* on the way, and a turn that waits for a decision is shown (NewsInv).    *)
(***************************************************************************)
EXTENDS OdinCodexProofs

-----------------------------------------------------------------------------
(* The inductive invariant of TurnsHoldSlots, beside SupervisorInv.         *)
Pre == {"check", "sendThread", "waitThread", "attachThread", "checkTurn", "sendTurn"}

Asked(method, i) == <<method, i, i>> \in inbox
Answer_(kind, i) == \E n \in DOMAIN wire : wire[n].kind = kind /\ wire[n].turn = i

(* A starter that has not asked for its turn yet.                           *)
NotStarted(i) ==
  /\ turn[i] = "none" /\ ~Asked("turn", i)
  /\ disk.jobs[i].turn = None
  /\ i \in Running(disk) \/ Disconnected

(* The answer a starter waits for is the answer to what it asked last.      *)
AnswersFit(i) ==
  /\ task[i].at \in {"check", "sendThread"} =>
       ~Asked("thread", i) /\ ~Answer_("threadOk", i) /\ ~Answer_("startNo", i)
  /\ task[i].at = "waitThread" =>
       /\ ~(Asked("thread", i) /\ Answer_("threadOk", i))
       /\ ~(Asked("thread", i) /\ Answer_("startNo", i))
       /\ ~(Answer_("threadOk", i) /\ Answer_("startNo", i))
  /\ task[i].at \in {"attachThread", "checkTurn", "sendTurn"} =>
       ~Asked("thread", i) /\ ~Answer_("startNo", i)
  /\ task[i].at = "waitTurn" =>
       ~Asked("thread", i) /\ (Answer_("startNo", i) => turn[i] = "none" /\ ~Asked("turn", i))

StartFits(i) ==
  /\ task[i].at \in Pre => NotStarted(i)
  /\ AnswersFit(i)
  /\ task[i].at = "failed" => turn[i] = "none" /\ ~Asked("turn", i)

(* News of a turn is true of it.                                            *)
Tells(m) ==
  /\ m.kind \in Emits \ {"approval"} => turn[m.turn] = "ended"
  /\ m.kind = "approval" => turn[m.turn] # "none"

ThreadFits(x) ==
  /\ x # 0 => StartFits(x)
  /\ task[x].at \in WithMessage => Tells(task[x].message)
  /\ task[x].at \in {"save new", "attach"} => turn[task[x].message.turn] # "none"
  /\ x = 0 /\ task[x].at \in {"disconnect", "sweep", "dead"} => engine.closed

TurnHolds(i) ==
  /\ Asked("turn", i) => turn[i] = "none"
  /\ i \in Live \/ Asked("turn", i) => i \in Active(disk)

TurnsInv ==
  /\ \A x \in TaskIds : ThreadFits(x)
  /\ \A i \in Ids : TurnHolds(i)
  /\ \A i \in Ids : stopper[i].at # "idle" => disk.jobs[i].turn # None
  /\ \A n \in DOMAIN wire : wire[n].kind \in Emits => Tells(wire[n])
  /\ \A m \in engine.early : Tells(m)

-----------------------------------------------------------------------------
(* The turns.  What the other threads rely on while one of them moves.      *)
Undisturbed(i) ==
  /\ disk'.jobs[i].turn = disk.jobs[i].turn
  /\ i \in Active(disk) => i \in Active(disk')
  /\ i \in Running(disk) => i \in Running(disk')

WireShrinks == \A n \in DOMAIN wire' : \E k \in DOMAIN wire : wire'[n] = wire[k]

SameAsks(i) ==
  /\ Asked("thread", i)' <=> Asked("thread", i)
  /\ Asked("turn", i)' <=> Asked("turn", i)

LEMMA StartShrinks ==
  ASSUME NEW i \in Ids, StartFits(i), task'[i].at = task[i].at, turn'[i] = turn[i],
         Asked("thread", i)' => Asked("thread", i), Asked("turn", i)' => Asked("turn", i),
         Answer_("threadOk", i)' => Answer_("threadOk", i),
         Answer_("startNo", i)' => Answer_("startNo", i),
         task[i].at \in Pre => /\ disk'.jobs[i].turn = None
                               /\ i \in Running(disk') \/ Disconnected'
  PROVE  StartFits(i)'
<1>1. task[i].at \in Pre => NotStarted(i)'
  BY DEF StartFits, NotStarted, Asked
<1>2. AnswersFit(i)'
  BY DEF StartFits, AnswersFit
<1>3. QED  BY <1>1, <1>2 DEF StartFits

LEMMA StartStays ==
  ASSUME NEW i \in Ids, StartFits(i), task'[i].at = task[i].at, turn'[i] = turn[i],
         SameAsks(i),
         Answer_("threadOk", i)' => Answer_("threadOk", i),
         Answer_("startNo", i)' => Answer_("startNo", i),
         task[i].at \in Pre => /\ disk'.jobs[i].turn = None
                               /\ i \in Running(disk') \/ Disconnected'
  PROVE  StartFits(i)'
  BY StartShrinks DEF SameAsks

LEMMA WireTells ==
  ASSUME TurnsInv, UNCHANGED turn, WireShrinks
  PROVE  /\ \A n \in DOMAIN wire' : wire'[n].kind \in Emits => Tells(wire[n])'
         /\ \A kind, i : Answer_(kind, i)' => Answer_(kind, i)
<1>1. \A kind, i : Answer_(kind, i)' => Answer_(kind, i)
  BY DEF WireShrinks, Answer_
<1>2. ASSUME NEW n \in DOMAIN wire', wire'[n].kind \in Emits
      PROVE  Tells(wire[n])'
  <2>1. PICK k \in DOMAIN wire : wire'[n] = wire[k]
    BY DEF WireShrinks
  <2>2. Tells(wire[k])
    BY <1>2, <2>1 DEF TurnsInv
  <2>3. QED  BY <2>1, <2>2 DEF Tells
<1>3. QED  BY <1>1, <1>2

(* One thread x moves, with a call on job j of the queue; the rest is left, *)
(* but for requests it may send.                                            *)
LEMMA ThreadStep ==
  ASSUME SupervisorInv, TurnsInv, QueueStep, UNCHANGED <<turn, server>>,
         engine.closed => engine'.closed, \A m \in engine'.early : Tells(m), WireShrinks,
         NEW x \in TaskIds, \A y \in TaskIds : y # x => task'[y] = task[y], ThreadFits(x)',
         NEW j, \A i \in Known : i # j => Undisturbed(i),
         \A i \in Ids : i # x => SameAsks(i),
         Asked("turn", x)' => Asked("turn", x) \/ (turn[x] = "none" /\ x \in Active(disk')),
         j \in Ids /\ (j \in Live \/ Asked("turn", j)) => j \in Active(disk'),
         j \in Ids /\ j # x /\ task[j].at \in Pre =>
           /\ disk'.jobs[j].turn = None
           /\ j \in Running(disk') \/ Disconnected',
         \A i \in Ids : stopper'[i].at # "idle" =>
           stopper[i].at # "idle" \/ disk'.jobs[i].turn # None
  PROVE  TurnsInv'
<1>1. /\ Ids \subseteq TaskIds /\ 0 \notin Ids /\ Live' = Live
      /\ Disconnected => Disconnected' /\ Known \subseteq Ids
  BY IdsFacts, KnownIds DEF TaskIds, Live, Disconnected, SupervisorInv
<1>2. /\ \A n \in DOMAIN wire' : wire'[n].kind \in Emits => Tells(wire[n])'
      /\ \A kind, i : Answer_(kind, i)' => Answer_(kind, i)
  BY WireTells
<1>3. ASSUME NEW y \in TaskIds, y # x
      PROVE  ThreadFits(y)'
  <2>1. ThreadFits(y) /\ task'[y] = task[y]
    BY <1>3 DEF TurnsInv
  <2>2. y # 0 => StartFits(y)'
    <3>1. SUFFICES ASSUME y # 0  PROVE  StartFits(y)'
      OBVIOUS
    <3>2. y \in Ids /\ StartFits(y) /\ SameAsks(y) /\ turn'[y] = turn[y]
      BY <1>3, <2>1, <3>1 DEF TaskIds, ThreadFits
    <3>3. task[y].at \in Pre => /\ disk'.jobs[y].turn = None
                                /\ y \in Running(disk') \/ Disconnected'
      <4>1. task[y].at \in Pre => y \in Known
        BY <2>1, <3>1 DEF SupervisorInv, Fits, TasksFit, PlaceFits, Pre
      <4>2. task[y].at \in Pre => /\ disk.jobs[y].turn = None
                                  /\ y \in Running(disk) \/ Disconnected
        BY <3>2 DEF StartFits, NotStarted
      <4>3. CASE y = j
        BY <1>3, <3>2, <4>3
      <4>4. CASE y # j
        BY <1>1, <4>1, <4>2, <4>4 DEF Undisturbed
      <4>5. QED  BY <4>3, <4>4
    <3>4. QED  BY <1>2, <2>1, <3>2, <3>3, StartStays
  <2>3. task'[y].at \in WithMessage => Tells(task[y].message)'
    BY <2>1 DEF ThreadFits, Tells
  <2>4. QED  BY <2>1, <2>2, <2>3 DEF ThreadFits
<1>4. ASSUME NEW i \in Ids
      PROVE  TurnHolds(i)'
  <2>1. TurnHolds(i) /\ turn'[i] = turn[i]
    BY DEF TurnsInv
  <2>2. Asked("turn", i)' => Asked("turn", i) \/ (turn[i] = "none" /\ i \in Active(disk'))
    BY DEF SameAsks
  <2>3. i \in Live \/ Asked("turn", i) => i \in Active(disk')
    <3>1. CASE i = j
      BY <3>1
    <3>2. CASE i # j
      <4>1. Active(disk) \subseteq Known
        BY DEF Active, Known, OCCUPIED
      <4>2. QED  BY <2>1, <3>2, <4>1 DEF Undisturbed, TurnHolds
    <3>3. QED  BY <3>1, <3>2
  <2>4. QED  BY <1>1, <2>1, <2>2, <2>3 DEF TurnHolds
<1>5. ASSUME NEW i \in Ids, stopper'[i].at # "idle"
      PROVE  disk'.jobs[i].turn # None
  <2>1. CASE stopper[i].at # "idle"
    <3>1. i \in Known /\ i \in DOMAIN disk.jobs /\ disk.jobs[i].turn # None /\ i # None
      BY <2>1, IdsFacts DEF SupervisorInv, Fits, StoppersFit, Known, TurnsInv
    <3>2. disk'.jobs[i].turn \in {disk.jobs[i].turn, i}
      BY <3>1, Evolves DEF SupervisorInv, JobsStay, JobEvolves, JobArrives
    <3>3. QED  BY <3>1, <3>2
  <2>2. QED  BY <1>5, <2>1
<1>6. \A m \in engine'.early : Tells(m)'
  BY DEF Tells
<1>7. QED  BY <1>2, <1>3, <1>4, <1>5, <1>6 DEF TurnsInv

LEMMA SameIsUndisturbed ==
  ASSUME NEW i \in DOMAIN disk.jobs, i \in DOMAIN disk'.jobs, SameStatus(i),
         disk'.jobs[i].turn = disk.jobs[i].turn
  PROVE  Undisturbed(i)
  BY DEF Undisturbed, SameStatus, Active, Running

LEMMA TouchesLeaves ==
  ASSUME NEW j, Touches(j)
  PROVE  \A i \in Known : i # j => Undisturbed(i)
  BY SameIsUndisturbed DEF Touches, Known, SameStatus

LEMMA MemoryLeaves ==
  ASSUME UNCHANGED memory
  PROVE  disk' = disk /\ \A i \in Known : Undisturbed(i)
  BY DEF memory, Undisturbed

(* A job that held a slot, and still holds one after a report.              *)
LEMMA TurnedHolds ==
  ASSUME NEW i \in DOMAIN disk.jobs, NEW statuses \in SUBSET OCCUPIED, Turned(i, statuses),
         i \in Active(disk)
  PROVE  i \in Active(disk')
  BY DEF Turned, Touches, SameStatus, Active

LEMMA GoesIs ==
  ASSUME SupervisorInv, NEW x \in TaskIds, NEW place, Goes(x, place)
  PROVE  /\ task'[x] = Rest(place) /\ task'[x].at = place
         /\ \A y \in TaskIds : y # x => task'[y] = task[y]
  BY DEF SupervisorInv, Fits, TasksFit, Goes, Rest

LEMMA StarterStep ==
  ASSUME SupervisorInv, TurnsInv, QueueStep, StarterOnly,
         NEW i \in Known, NEW place, place \notin WithMessage, Goes(i, place),
         engine.closed => engine'.closed, engine'.early \subseteq engine.early,
         \A k \in Known : k # i => Undisturbed(k),
         \A k \in Ids : k # i => SameAsks(k),
         Asked("turn", i)' => Asked("turn", i) \/ (turn[i] = "none" /\ i \in Active(disk')),
         i \in Live \/ Asked("turn", i) => i \in Active(disk'), StartFits(i)'
  PROVE  TurnsInv'
<1>1. i \in TaskIds /\ i # 0 /\ i \in Ids
  BY KnownIds, IdsFacts DEF SupervisorInv, TaskIds
<1>2. ThreadFits(i)'
  <2>1. task'[i].at = place
    BY <1>1, GoesIs
  <2>2. {"save new", "attach"} \subseteq WithMessage
    BY DEF WithMessage, WithJob
  <2>3. QED  BY <1>1, <2>1, <2>2 DEF ThreadFits
<1>3. \A y \in TaskIds : y # i => task'[y] = task[y]
  BY <1>1, GoesIs
<1>4. /\ UNCHANGED <<turn, server>> /\ UNCHANGED stopper /\ WireShrinks
      /\ \A m \in engine'.early : Tells(m)
  BY DEF StarterOnly, WireShrinks, TurnsInv
<1>5. QED  BY <1>1, <1>2, <1>3, <1>4, ThreadStep

(* One that leaves the queue and its own requests alone.                    *)
LEMMA QuietStarter ==
  ASSUME SupervisorInv, TurnsInv, StarterOnly, UNCHANGED <<memory, inbox>>,
         NEW i \in Known, NEW place, place \notin WithMessage, Goes(i, place),
         engine.closed => engine'.closed, engine'.early \subseteq engine.early, StartFits(i)'
  PROVE  TurnsInv'
<1>1. QueueStep
  BY StillAdvances DEF StarterOnly, queueVars, memory
<1>2. disk' = disk /\ \A k \in Known : Undisturbed(k)
  BY MemoryLeaves
<1>3. i \in Ids
  BY KnownIds DEF SupervisorInv
<1>4. i \in Live \/ Asked("turn", i) => i \in Active(disk')
  BY <1>2, <1>3 DEF TurnsInv, TurnHolds
<1>5. \A k \in Ids : SameAsks(k)
  BY DEF SameAsks, Asked
<1>6. Asked("turn", i)' => Asked("turn", i)
  BY DEF Asked
<1>7. QED  BY <1>1, <1>2, <1>4, <1>5, <1>6, StarterStep

(* The places from which a starter asks for nothing.                        *)
LEMMA RestingFits ==
  ASSUME NEW i \in Ids, task'[i].at \in {"done", "lost", "popEarly", "attachTurn"}
  PROVE  StartFits(i)'
  BY DEF StartFits, Pre, AnswersFit

LEMMA StartCheckHolds ==
  ASSUME SupervisorInv, TurnsInv, NEW i \in Known,
         StartCheck(i, "check", "sendThread") \/ StartCheck(i, "checkTurn", "sendTurn")
  PROVE  TurnsInv'
<1>1. i \in TaskIds /\ i # 0 /\ i \in Ids /\ StartFits(i)
  BY KnownIds, IdsFacts DEF SupervisorInv, TaskIds, TurnsInv, ThreadFits
<1>2. /\ UNCHANGED <<memory, inbox>> /\ StarterOnly
      /\ engine.closed => engine'.closed
      /\ engine'.early \subseteq engine.early
  <2>1. engine' = engine \/ engine' = [engine EXCEPT !.ready = FALSE]
    BY <1>1 DEF StartCheck, Calls
  <2>2. QED  BY <2>1 DEF StartCheck, SupervisorInv, Fits, EngineFits
<1>3. \A p \in {"done", "lost", "failed", "sendThread", "sendTurn"} : p \notin WithMessage
  BY DEF WithMessage, WithJob
<1>4. \/ Goes(i, "done") \/ Goes(i, "lost")
      \/ task[i].at = "check" /\ Goes(i, "failed") /\ UNCHANGED engine
      \/ task[i].at = "check" /\ Goes(i, "sendThread") /\ UNCHANGED engine
      \/ task[i].at = "checkTurn" /\ Goes(i, "sendTurn") /\ UNCHANGED engine
  BY <1>1 DEF StartCheck, Calls, At
<1>5. CASE Goes(i, "done") \/ Goes(i, "lost")
  <2>1. PICK p \in {"done", "lost"} : Goes(i, p)
    BY <1>5
  <2>2. StartFits(i)'
    BY <1>1, <2>1, GoesIs, RestingFits
  <2>3. p \notin WithMessage
    BY <1>3, <2>1
  <2>4. QED  BY <1>2, <2>1, <2>2, <2>3, QuietStarter
<1>6. CASE task[i].at = "check" /\ Goes(i, "failed") /\ UNCHANGED engine
  <2>1. turn[i] = "none" /\ ~Asked("turn", i) /\ task'[i].at = "failed"
    BY <1>1, <1>6, GoesIs DEF StartFits, NotStarted, Pre
  <2>2. StartFits(i)'
    BY <1>2, <2>1 DEF StartFits, Pre, AnswersFit, StarterOnly, Asked
  <2>3. QED  BY <1>2, <1>3, <1>6, <2>2, QuietStarter
<1>7. CASE \/ task[i].at = "check" /\ Goes(i, "sendThread") /\ UNCHANGED engine
           \/ task[i].at = "checkTurn" /\ Goes(i, "sendTurn") /\ UNCHANGED engine
  <2>1. PICK p \in {"sendThread", "sendTurn"} :
          Goes(i, p) /\ task[i].at = IF p = "sendThread" THEN "check" ELSE "checkTurn"
    BY <1>7
  <2>2. task'[i].at = p
    BY <1>1, <2>1, GoesIs
  <2>3. NotStarted(i)
    BY <1>1, <2>1 DEF StartFits, Pre
  <2>4. NotStarted(i)'
    BY <1>2, <1>7, <2>3, MemoryLeaves DEF NotStarted, Asked, StarterOnly, Disconnected
  <2>5. AnswersFit(i)'
    BY <1>1, <1>2, <2>1, <2>2 DEF StartFits, AnswersFit, Asked, Answer_, StarterOnly
  <2>6. StartFits(i)'
    BY <2>1, <2>2, <2>4, <2>5 DEF StartFits
  <2>7. p \notin WithMessage
    BY <1>3, <2>1
  <2>8. QED  BY <1>2, <2>1, <2>6, <2>7, QuietStarter
<1>8. QED  BY <1>4, <1>5, <1>6, <1>7

LEMMA StartTimeoutHolds ==
  ASSUME SupervisorInv, TurnsInv, NEW i \in Known, StartTimeout(i)
  PROVE  TurnsInv'
<1>1. /\ UNCHANGED <<memory, engine, inbox>> /\ StarterOnly /\ Goes(i, "lost")
      /\ "lost" \notin WithMessage /\ i \in Ids /\ i \in TaskIds
  BY KnownIds DEF StartTimeout, WithMessage, WithJob, SupervisorInv, TaskIds
<1>2. StartFits(i)'
  BY <1>1, GoesIs, RestingFits
<1>3. QED  BY <1>1, <1>2, QuietStarter

(* A request is sent only once the answer to the last one is used, and only *)
(* by a starter whose job still runs unless the connection is lost.         *)
LEMMA StartSendHolds ==
  ASSUME SupervisorInv, TurnsInv, NEW i \in Known,
         \/ StartSend(i, "sendThread", "thread", "waitThread")
         \/ StartSend(i, "sendTurn", "turn", "waitTurn")
  PROVE  TurnsInv'
<1>1. /\ i \in TaskIds /\ i # 0 /\ i \in Ids /\ StartFits(i)
      /\ Live \subseteq Ids /\ TurnHolds(i)
  BY KnownIds, IdsFacts DEF SupervisorInv, TaskIds, TurnsInv, ThreadFits, Live
<1>2. UNCHANGED <<memory, engine>> /\ StarterOnly
  BY DEF StartSend
<1>3. QueueStep /\ disk' = disk /\ (\A k \in Known : Undisturbed(k))
  BY <1>2, StillAdvances, MemoryLeaves DEF StarterOnly, queueVars, memory
<1>4. {"lost", "waitThread", "waitTurn"} \cap WithMessage = {}
  BY DEF WithMessage, WithJob
<1>5. CASE Goes(i, "lost") /\ UNCHANGED inbox
  <2>1. StartFits(i)' /\ "lost" \notin WithMessage
    BY <1>1, <1>4, <1>5, GoesIs, RestingFits
  <2>2. QED  BY <1>2, <1>5, <2>1, QuietStarter
<1>6. ASSUME NEW request \in {"thread", "turn"},
             NEW place \in {"waitThread", "waitTurn"},
             task[i].at = IF request = "thread" THEN "sendThread" ELSE "sendTurn",
             place = IF request = "thread" THEN "waitThread" ELSE "waitTurn",
             Goes(i, place), inbox' = inbox \cup {<<request, i, i>>}, ~Disconnected
      PROVE  TurnsInv'
  <2>1. task'[i].at = place /\ place \notin WithMessage
    BY <1>1, <1>4, <1>6, GoesIs
  <2>2. NotStarted(i) /\ i \in Running(disk) /\ i \in Active(disk)
    BY <1>1, <1>6 DEF StartFits, Pre, NotStarted, Running
  <2>3. \A k \in Ids : k # i => SameAsks(k)
    BY <1>6 DEF SameAsks, Asked
  <2>4. /\ Asked("turn", i)' => request = "turn"
        /\ Asked("thread", i)' => Asked("thread", i) \/ request = "thread"
    BY <1>6, <2>2 DEF Asked, NotStarted
  <2>5. Asked("turn", i)' => turn[i] = "none" /\ i \in Active(disk')
    BY <1>3, <2>2 DEF NotStarted
  <2>6. i \in Live \/ Asked("turn", i) => i \in Active(disk')
    BY <1>1, <1>3 DEF TurnHolds
  <2>7. UNCHANGED wire /\ UNCHANGED turn
    BY <1>2 DEF StarterOnly
  <2>8. AnswersFit(i)'
    BY <1>1, <1>6, <2>1, <2>4, <2>7 DEF StartFits, AnswersFit, Answer_
  <2>9. place = "waitThread" => NotStarted(i)'
    BY <1>2, <1>3, <1>6, <2>2, <2>4, <2>7 DEF NotStarted, StarterOnly
  <2>10. StartFits(i)'
    BY <1>6, <2>1, <2>8, <2>9 DEF StartFits, Pre
  <2>11. QED  BY <1>2, <1>3, <1>6, <2>1, <2>3, <2>5, <2>6, <2>10, StarterStep
<1>7. QED  BY <1>5, <1>6 DEF StartSend, At

LEMMA StartAttachHolds ==
  ASSUME SupervisorInv, TurnsInv, up, NEW i \in Known,
         \/ StartAttach(i, "attachThread", AttachThread(i, ThreadOf(i)), "checkTurn")
         \/ StartAttach(i, "attachTurn", AttachTurn(i, i), "popEarly")
  PROVE  TurnsInv'
<1>1. /\ i \in TaskIds /\ i # 0 /\ i \in Ids /\ StartFits(i) /\ Aligned
      /\ TurnHolds(i) /\ data = disk /\ i \in Turns /\ i \in Threads
  BY KnownIds, IdsFacts DEF SupervisorInv, SpoolInv, Aligned, TaskIds, TurnsInv, ThreadFits
<1>2. /\ i \in DOMAIN data.jobs /\ ThreadOf(i) = i
      /\ {"checkTurn", "popEarly", "done"} \cap WithMessage = {}
  BY OwnThreads DEF SupervisorInv, WithMessage, WithJob
<1>3. UNCHANGED inbox /\ StarterOnly
  BY DEF StartAttach
<1>4. engine.closed => engine'.closed
  <2>1. engine' = engine \/ engine' = [engine EXCEPT !.ready = FALSE]
    BY <1>1 DEF StartAttach, Calls
  <2>2. QED  BY <2>1 DEF SupervisorInv, Fits, EngineFits
<1>5. engine'.early \subseteq engine.early
  <2>1. engine' = engine \/ engine' = [engine EXCEPT !.ready = FALSE]
    BY <1>1 DEF StartAttach, Calls
  <2>2. QED  BY <2>1 DEF SupervisorInv, Fits, EngineFits
<1>6. \A k \in Ids : SameAsks(k)
  BY <1>3 DEF SameAsks, Asked
<1>7. CASE StartAttach(i, "attachThread", AttachThread(i, ThreadOf(i)), "checkTurn")
  <2>1. /\ AttachThread(i, i) /\ task[i].at = "attachThread"
        /\ Goes(i, "done") \/ (Goes(i, "checkTurn") /\ UNCHANGED engine)
    BY <1>1, <1>2, <1>7 DEF StartAttach, Calls, At
  <2>2. Touches(i) /\ SameStatus(i) /\ disk'.jobs[i].turn = disk.jobs[i].turn
    BY <1>1, <1>2, <2>1, ThreadTouches
  <2>3. Undisturbed(i) /\ \A k \in Known : k # i => Undisturbed(k)
    BY <1>1, <1>2, <2>2, TouchesLeaves, SameIsUndisturbed DEF Touches
  <2>4. QueueStep
    BY <1>2, <1>3, <2>1 DEF QueueStep, Reporting, StarterOnly
  <2>5. Asked("turn", i)' => Asked("turn", i)
    BY <1>1, <1>6 DEF SameAsks
  <2>6. i \in Live \/ Asked("turn", i) => i \in Active(disk')
    BY <1>1, <2>3 DEF TurnHolds, Undisturbed
  <2>7. CASE Goes(i, "done")
    <3>1. StartFits(i)' /\ "done" \notin WithMessage
      BY <1>1, <1>2, <2>7, GoesIs, RestingFits
    <3>2. QED  BY <1>3, <1>4, <1>5, <1>6, <2>3, <2>4, <2>5, <2>6, <2>7, <3>1, StarterStep
  <2>8. CASE Goes(i, "checkTurn") /\ UNCHANGED engine
    <3>1. task'[i].at = "checkTurn" /\ "checkTurn" \notin WithMessage
      BY <1>1, <1>2, <2>8, GoesIs
    <3>2. NotStarted(i)
      BY <1>1, <2>1 DEF StartFits, Pre
    <3>3. NotStarted(i)'
      BY <1>3, <2>3, <2>8, <3>2 DEF NotStarted, Undisturbed, Asked, StarterOnly, Disconnected
    <3>4. AnswersFit(i)'
      BY <1>1, <1>3, <2>1, <3>1 DEF StartFits, AnswersFit, Asked, Answer_, StarterOnly
    <3>5. StartFits(i)'
      BY <3>1, <3>3, <3>4 DEF StartFits
    <3>6. QED  BY <1>3, <1>4, <1>5, <1>6, <2>3, <2>4, <2>5, <2>6, <2>8, <3>1, <3>5, StarterStep
  <2>9. QED  BY <2>1, <2>7, <2>8
<1>8. CASE StartAttach(i, "attachTurn", AttachTurn(i, i), "popEarly")
  <2>1. /\ AttachTurn(i, i) /\ task[i].at = "attachTurn"
        /\ \E p \in {"done", "popEarly"} : Goes(i, p)
    BY <1>1, <1>8 DEF StartAttach, Calls, At
  <2>2. /\ Touches(i)
        /\ SameStatus(i) \/ (disk.jobs[i].status = "starting" /\ disk'.jobs[i].status = "running")
    BY <1>1, <1>2, <2>1, TurnTouches
  <2>3. \A k \in Known : k # i => Undisturbed(k)
    BY <2>2, TouchesLeaves
  <2>4. QueueStep
    <3>1. i \in Housed
      BY <1>1, <2>1 DEF SupervisorInv, Fits, TasksFit, PlaceFits, AfterThread
    <3>2. Reporting(i)
      BY <2>1, <3>1 DEF Reporting, Housed
    <3>3. QED  BY <1>3, <3>2 DEF QueueStep, StarterOnly
  <2>5. Asked("turn", i)' => Asked("turn", i)
    BY <1>1, <1>6 DEF SameAsks
  <2>6. i \in Live \/ Asked("turn", i) => i \in Active(disk')
    <3>1. i \in Active(disk) => i \in Active(disk')
      BY <1>1, <1>2, <2>2 DEF Active, Touches, SameStatus, OCCUPIED
    <3>2. QED  BY <1>1, <3>1 DEF TurnHolds
  <2>7. PICK p \in {"done", "popEarly"} : Goes(i, p)
    BY <2>1
  <2>8. StartFits(i)' /\ p \notin WithMessage
    BY <1>1, <1>2, <2>7, GoesIs, RestingFits
  <2>9. QED  BY <1>3, <1>4, <1>5, <1>6, <2>3, <2>4, <2>5, <2>6, <2>7, <2>8, StarterStep
<1>9. QED  BY <1>7, <1>8

LEMMA OnlyReady ==
  ASSUME SupervisorInv, engine' = engine \/ engine' = [engine EXCEPT !.ready = FALSE]
  PROVE  (engine.closed => engine'.closed) /\ engine'.early \subseteq engine.early
  BY DEF SupervisorInv, Fits, EngineFits

LEMMA StartExceptsHolds ==
  ASSUME SupervisorInv, TurnsInv, up, NEW i \in Known,
         \/ StartExcepts(i, "failed", EventComplete(i, "failed"))
         \/ StartExcepts(i, "lost", EventUnknown(i))
  PROVE  TurnsInv'
<1>1. /\ i \in TaskIds /\ i # 0 /\ i \in Ids /\ StartFits(i) /\ Aligned
      /\ TurnHolds(i) /\ i \in DOMAIN data.jobs /\ data = disk
  BY KnownIds, IdsFacts, OwnThreads
  DEF SupervisorInv, SpoolInv, Aligned, TaskIds, TurnsInv, ThreadFits
<1>2. /\ UNCHANGED inbox /\ StarterOnly /\ Goes(i, "done") /\ "done" \notin WithMessage
      /\ engine' = engine \/ engine' = [engine EXCEPT !.ready = FALSE]
  BY <1>1 DEF StartExcepts, Reports, Calls, WithMessage, WithJob
<1>3. (engine.closed => engine'.closed) /\ engine'.early \subseteq engine.early
  BY <1>2, OnlyReady
<1>4. EventComplete(i, "failed") \/ EventUnknown(i)
  BY DEF StartExcepts, Reports, Calls
<1>5. QueueStep
  BY <1>2, <1>4 DEF QueueStep, Reporting, StarterOnly
<1>6. Touches(i)
  <2>1. "failed" \in TERMINAL
    BY DEF TERMINAL
  <2>2. QED  BY <1>1, <1>4, <2>1, CompleteTouches, UnknownTouches DEF Turned
<1>7. (\A k \in Known : k # i => Undisturbed(k)) /\ (\A k \in Ids : SameAsks(k))
  BY <1>2, <1>6, TouchesLeaves DEF SameAsks, Asked
<1>8. Asked("turn", i)' => Asked("turn", i)
  BY <1>1, <1>7 DEF SameAsks
<1>9. i \in Live \/ Asked("turn", i) => i \in Active(disk')
  <2>1. CASE At(i, "failed")
    BY <1>1, <2>1 DEF StartFits, At, Live
  <2>2. CASE EventUnknown(i)
    <3>1. Turned(i, {"unknown"})
      BY <1>1, <2>2, UnknownTouches
    <3>2. {"unknown"} \in SUBSET OCCUPIED
      BY DEF OCCUPIED
    <3>3. QED  BY <1>1, <3>1, <3>2, TurnedHolds DEF TurnHolds
  <2>3. QED  BY <2>1, <2>2 DEF StartExcepts, Reports, Calls
<1>10. StartFits(i)'
  BY <1>1, <1>2, GoesIs, RestingFits
<1>11. QED  BY <1>2, <1>3, <1>5, <1>7, <1>8, <1>9, <1>10, StarterStep

LEMMA StartPopEarlyHolds ==
  ASSUME SupervisorInv, TurnsInv, NEW i \in Known, StartPopEarly(i)
  PROVE  TurnsInv'
<1>1. i \in TaskIds /\ i # 0 /\ i \in Ids /\ TurnHolds(i)
  BY KnownIds, IdsFacts DEF SupervisorInv, TaskIds, TurnsInv
<1>2. UNCHANGED <<memory, inbox>> /\ StarterOnly
  BY DEF StartPopEarly
<1>3. PICK found \in SUBSET engine.early :
        /\ engine' = [engine EXCEPT !.early = @ \ found]
        /\ Goes(i, "done") \/ \E m \in found : Handles(i, m)
  BY DEF StartPopEarly
<1>4. /\ engine.closed => engine'.closed
      /\ engine'.early \subseteq engine.early
  BY <1>3 DEF SupervisorInv, Fits, EngineFits
<1>5. CASE Goes(i, "done")
  <2>1. StartFits(i)' /\ "done" \notin WithMessage
    BY <1>1, <1>5, GoesIs, RestingFits DEF WithMessage, WithJob
  <2>2. QED  BY <1>2, <1>4, <1>5, <2>1, QuietStarter
<1>6. ASSUME NEW m \in found, Handles(i, m)
      PROVE  TurnsInv'
  <2> DEFINE t == [Rest("message") EXCEPT !.message = m]
  <2>1. t.at = "message" /\ t.message = m
    BY DEF Rest
  <2> HIDE DEF t
  <2>2. task'[i] = t /\ \A y \in TaskIds : y # i => task'[y] = task[y]
    BY <1>1, <1>6 DEF Handles, t, SupervisorInv, Fits, TasksFit
  <2>3. Tells(m)
    BY <1>3 DEF TurnsInv
  <2>4. Tells(task[i].message)'
    BY <1>2, <2>1, <2>2, <2>3 DEF Tells, StarterOnly
  <2>5. StartFits(i)'
    BY <2>1, <2>2 DEF StartFits, Pre, AnswersFit
  <2>6. ThreadFits(i)'
    BY <1>1, <2>1, <2>2, <2>4, <2>5 DEF ThreadFits
  <2>7. QueueStep /\ disk' = disk /\ \A k \in Known : Undisturbed(k)
    BY <1>2, StillAdvances, MemoryLeaves DEF StarterOnly, queueVars, memory
  <2>8. \A k \in Ids : SameAsks(k)
    BY <1>2 DEF SameAsks, Asked
  <2>9. Asked("turn", i)' => Asked("turn", i)
    BY <1>2 DEF Asked
  <2>10. i \in Live \/ Asked("turn", i) => i \in Active(disk')
    BY <1>1, <2>7 DEF TurnHolds
  <2>11. UNCHANGED <<turn, server>> /\ UNCHANGED stopper /\ WireShrinks
         /\ \A k \in engine'.early : Tells(k)
    BY <1>2, <1>4 DEF StarterOnly, WireShrinks, TurnsInv
  <2>12. QED  BY <1>1, <1>4, <2>2, <2>6, <2>7, <2>8, <2>9, <2>10, <2>11, ThreadStep
<1>7. QED  BY <1>3, <1>5, <1>6

LEMMA StarterHolds ==
  ASSUME SupervisorInv, TurnsInv, up, NEW i \in Ids, Start(i) \/ StartTimeout(i)
  PROVE  TurnsInv'
<1>1. i \in Known
  <2>1. task[i].at # "idle"
    BY DEF Start, StartTimeout, StartCheck, StartSend, StartAttach, StartPopEarly,
       StartExcepts, At
  <2>2. i \in TaskIds /\ i # 0
    BY IdsFacts DEF TaskIds
  <2>3. QED  BY <2>1, <2>2 DEF SupervisorInv, Fits, TasksFit, PlaceFits
<1>2. QED
  BY <1>1, StartCheckHolds, StartSendHolds, StartAttachHolds, StartExceptsHolds,
     StartPopEarlyHolds, StartTimeoutHolds DEF Start

(* A thread stays where it is: the task of the reader, say.                 *)
LEMMA LeftFits ==
  ASSUME TurnsInv, UNCHANGED turn, task'[0] = task[0], engine.closed => engine'.closed
  PROVE  ThreadFits(0)'
<1>1. ThreadFits(0)
  BY DEF TurnsInv, TaskIds
<1>2. QED  BY <1>1 DEF ThreadFits, Tells

(* A job that is handed out has no turn yet, and nothing of it is under way.*)
LEMMA DispatchHolds ==
  ASSUME SupervisorInv, TurnsInv, up, DispatchTop \/ DispatchClaim
  PROVE  TurnsInv'
<1>1. /\ UNCHANGED <<up, capacity, stopper, engine, inbox, wire, turn, server>>
      /\ data = disk /\ Aligned /\ 0 \in TaskIds /\ 0 \notin Ids
  BY IdsFacts DEF DispatchTop, DispatchClaim, DispatchClaimWith, serverVars, queueVars,
     SupervisorInv, SpoolInv, Aligned, TaskIds
<1>2. WireShrinks /\ (\A m \in engine'.early : Tells(m)) /\ (\A i \in Ids : SameAsks(i))
  BY <1>1 DEF WireShrinks, TurnsInv, SameAsks, Asked
<1>3. ASSUME QueueStep, UNCHANGED task, \A i \in Known : Undisturbed(i)
      PROVE  TurnsInv'
  <2>1. ThreadFits(0)'
    BY <1>1, <1>3, LeftFits
  <2>2. Asked("turn", 0)' => Asked("turn", 0)
    BY <1>1 DEF Asked
  <2>3. QED  BY <1>1, <1>2, <1>3, <2>1, <2>2, ThreadStep
<1>4. CASE UNCHANGED <<memory, claimed, task>>
  <2>1. QueueStep /\ \A i \in Known : Undisturbed(i)
    BY <1>1, <1>4, StillAdvances, MemoryLeaves DEF queueVars, memory
  <2>2. QED  BY <1>3, <1>4, <2>1
<1>5. CASE ~storage_failed /\ Admits(data) /\ Claims("top")
  <2>1. Claiming
    BY <1>5 DEF Claims, Claiming
  <2>2. QueueStep
    BY <1>1, <1>5, <2>1 DEF QueueStep
  <2>3. \A i \in Known : Undisturbed(i)
    BY <1>1, <2>1, ClaimTouches, SameIsUndisturbed DEF Known, SameNames
  <2>4. ASSUME NEW i \in DOMAIN data.jobs, ClaimReturns(i, {}), Goes(i, "check")
        PROVE  TurnsInv'
    <3>1. /\ disk.jobs[i].status = "queued" /\ disk'.jobs[i].status = "starting"
          /\ i \in DOMAIN disk'.jobs /\ disk'.jobs[i].turn = disk.jobs[i].turn
      BY <1>1, <2>1, <2>4, ClaimTouches DEF SameNames
    <3>2. i \notin Known /\ i \in Ids /\ i \in TaskIds /\ disk.jobs[i].turn = None /\ i # 0
      BY <1>1, <3>1 DEF Known, SupervisorInv, OwnNames, TaskIds
    <3>3. turn[i] = "none"
      BY <3>2 DEF SupervisorInv, Fits, TurnsFit
    <3>4. ~Asked("turn", i) /\ ~Asked("thread", i)
      BY <3>2 DEF SupervisorInv, Fits, InboxFits, Asked
    <3>5. \A kind : ~Answer_(kind, i)
      BY <3>2 DEF SupervisorInv, Fits, WireFits, Answer_
    <3>6. /\ task'[i].at = "check" /\ "check" \notin WithMessage
          /\ \A y \in TaskIds : y # i => task'[y] = task[y]
      BY <2>4, <3>2, GoesIs DEF WithMessage, WithJob
    <3>7. i \in Running(disk')
      BY <3>1 DEF Running, Active, OCCUPIED
    <3>8. NotStarted(i)'
      BY <1>1, <3>1, <3>2, <3>3, <3>4, <3>7 DEF NotStarted, Asked
    <3>9. AnswersFit(i)'
      BY <1>1, <3>4, <3>5, <3>6 DEF AnswersFit, Asked, Answer_
    <3>10. ThreadFits(i)'
      BY <3>2, <3>6, <3>8, <3>9 DEF ThreadFits, StartFits
    <3>11. Asked("turn", i)' => Asked("turn", i)
      BY <1>1 DEF Asked
    <3>12. i \notin Live
      BY <3>3 DEF Live
    <3>13. QED
      BY <1>1, <1>2, <2>2, <2>3, <3>2, <3>4, <3>6, <3>10, <3>11, <3>12, ThreadStep
  <2>5. QED  BY <1>3, <1>5, <2>2, <2>3, <2>4 DEF Claims
<1>6. DispatchTop => UNCHANGED <<memory, claimed, task>>
  BY DEF DispatchTop, queueVars, memory
<1>7. QED  BY <1>4, <1>5, <1>6 DEF DispatchClaim, DispatchClaimWith

(* A thread moves with the message it has, or without one, where it asks    *)
(* for nothing.                                                             *)
LEMMA MovedFits ==
  ASSUME TurnsInv, NEW x \in TaskIds, UNCHANGED turn,
         task'[x].at \in WithMessage \cup {"idle", "done", "eof"},
         task'[x].at \in WithMessage =>
           task[x].at \in WithMessage /\ task'[x].message = task[x].message,
         task'[x].at \in {"save new", "attach"} => turn[task[x].message.turn] # "none"
  PROVE  ThreadFits(x)'
<1>1. task'[x].at \notin Pre \cup {"waitTurn", "failed", "disconnect", "sweep", "dead"}
  BY DEF Pre, WithMessage, WithJob
<1>2. StartFits(x)'
  BY <1>1 DEF StartFits, AnswersFit, Pre
<1>3. task'[x].at \in WithMessage => Tells(task[x].message)'
  <2>1. ThreadFits(x)
    BY DEF TurnsInv
  <2>2. QED  BY <2>1 DEF ThreadFits, Tells
<1>4. {"save new", "attach"} \subseteq WithMessage
  BY DEF WithMessage, WithJob
<1>5. task'[x].at \in {"save new", "attach"} => turn'[task'[x].message.turn] # "none"
  BY <1>4
<1>6. QED  BY <1>1, <1>2, <1>3, <1>5 DEF ThreadFits

LEMMA QuietMover ==
  ASSUME SupervisorInv, TurnsInv, UNCHANGED memory, UNCHANGED stopper, WireShrinks, ReaderOnly,
         engine.closed => engine'.closed, \A m \in engine'.early : Tells(m),
         NEW x \in TaskIds, \A y \in TaskIds : y # x => task'[y] = task[y], ThreadFits(x)',
         \A i \in TaskIds : SameAsks(i)
  PROVE  TurnsInv'
<1>1. QueueStep /\ disk' = disk /\ \A i \in Known : Undisturbed(i)
  BY StillAdvances, MemoryLeaves DEF ReaderOnly, queueVars, memory
<1>2. UNCHANGED <<turn, server>> /\ Ids \subseteq TaskIds /\ 0 \notin Ids
  BY IdsFacts DEF ReaderOnly, TaskIds
<1>3. Asked("turn", x)' => Asked("turn", x)
  BY DEF SameAsks
<1>4. QED  BY <1>1, <1>2, <1>3, ThreadStep

LEMMA FinishesIs ==
  ASSUME SupervisorInv, NEW x \in TaskIds, Finishes(x)
  PROVE  /\ task'[x].at \in {"idle", "done"} /\ task'[x].at \notin WithMessage
         /\ task'[x].at \notin {"save new", "attach"}
         /\ \A y \in TaskIds : y # x => task'[y] = task[y]
<1>1. PICK p \in {"idle", "done"} : Goes(x, p)
  BY DEF Finishes
<1>2. p \notin WithMessage
  BY DEF WithMessage, WithJob
<1>3. QED  BY <1>1, <1>2, GoesIs

LEMMA ThreadsTyped ==
  ASSUME SupervisorInv
  PROVE  task \in [TaskIds -> TaskRecord]
  BY DEF SupervisorInv, Fits, TasksFit

LEMMA RecordTyped ==
  ASSUME SupervisorInv, NEW x \in TaskIds
  PROVE  task[x] \in [at: Places, job: TaskIds,
                     message: [kind: {"none", "resolved"} \cup Emits, turn: TaskIds]]
  BY ThreadsTyped DEF TaskRecord

(* A thread that moves keeps its message, and the others keep everything.   *)
LEMMA GoesKeeps ==
  ASSUME SupervisorInv, NEW x \in TaskIds, NEW place, GoesOn(x, place)
  PROVE  /\ task'[x].at = place /\ task'[x].message = task[x].message
         /\ \A y \in TaskIds : y # x => task'[y] = task[y]
<1> DEFINE r == [task[x] EXCEPT !.at = place]
<1>1. DOMAIN task = TaskIds /\ task' = [task EXCEPT ![x] = r]
  BY ThreadsTyped DEF GoesOn
<1>2. r.at = place /\ r.message = task[x].message
  BY RecordTyped
<1> HIDE DEF r
<1>3. task'[x] = r /\ \A y \in TaskIds : y # x => task'[y] = task[y]
  BY <1>1, ThreadsTyped
<1>4. QED  BY <1>2, <1>3

LEMMA KnowsKeeps ==
  ASSUME SupervisorInv, NEW x \in TaskIds, NEW place, NEW job,
         task' = [task EXCEPT ![x] = [task[x] EXCEPT !.job = job, !.at = place]]
  PROVE  /\ task'[x].at = place /\ task'[x].message = task[x].message
         /\ \A y \in TaskIds : y # x => task'[y] = task[y]
<1> DEFINE r == [task[x] EXCEPT !.job = job, !.at = place]
<1>1. DOMAIN task = TaskIds /\ task' = [task EXCEPT ![x] = r]
  BY ThreadsTyped DEF GoesOn
<1>2. r.at = place /\ r.message = task[x].message
  BY RecordTyped
<1> HIDE DEF r
<1>3. task'[x] = r /\ \A y \in TaskIds : y # x => task'[y] = task[y]
  BY <1>1, ThreadsTyped
<1>4. QED  BY <1>2, <1>3

LEMMA LookUpHolds ==
  ASSUME SupervisorInv, TurnsInv, NEW x \in TaskIds, LookUp(x)
  PROVE  TurnsInv'
<1> DEFINE m == task[x].message
<1>1. /\ UNCHANGED <<memory, stopper, engine, sweep, wire>> /\ ReaderOnly
      /\ task[x].at = "message" /\ task[x].at \in WithMessage
  BY DEF LookUp, At, WithMessage
<1>2. /\ UNCHANGED turn /\ WireShrinks /\ (\A k \in engine'.early : Tells(k))
      /\ UNCHANGED stopper /\ UNCHANGED memory /\ engine.closed => engine'.closed
  BY <1>1 DEF ReaderOnly, WireShrinks, TurnsInv
<1>3. ThreadFits(x) /\ Tells(m) /\ 0 \in TaskIds
  BY <1>1 DEF TurnsInv, ThreadFits, TaskIds
<1>4. UNCHANGED inbox => \A i \in TaskIds : SameAsks(i)
  BY DEF SameAsks, Asked
<1>5. ASSUME Refuses(m)
      PROVE  TurnsInv'
  <2>1. PICK p \in {"eof", "idle"} : Goes(0, p)
    BY <1>5 DEF Refuses
  <2>2. p \notin WithMessage /\ p \notin {"save new", "attach"}
    BY DEF WithMessage, WithJob
  <2>3. task'[0].at = p /\ \A y \in TaskIds : y # 0 => task'[y] = task[y]
    BY <1>3, <2>1, GoesIs
  <2>4. ThreadFits(0)'
    BY <1>2, <1>3, <2>2, <2>3, MovedFits
  <2>5. inbox' = inbox \/ inbox' = inbox \cup {<<"deny", 0, m.turn>>}
    BY <1>5 DEF Refuses
  <2>6. \A i \in TaskIds : SameAsks(i)
    BY <2>5 DEF SameAsks, Asked
  <2>7. QED  BY <1>1, <1>2, <1>3, <2>3, <2>4, <2>6, QuietMover
<1>6. ASSUME Finishes(x), UNCHANGED inbox
      PROVE  TurnsInv'
  <2>1. ThreadFits(x)'
    BY <1>2, <1>6, FinishesIs, MovedFits
  <2>2. QED  BY <1>1, <1>2, <1>4, <1>6, <2>1, FinishesIs, QuietMover
<1>7. ASSUME NEW place \in {"resolve", "completion", "save", "save new"}, NEW job,
             task' = [task EXCEPT ![x] = [task[x] EXCEPT !.job = job, !.at = place]],
             place = "save new" => m.kind = "approval", UNCHANGED inbox
      PROVE  TurnsInv'
  <2>1. /\ task'[x].at = place /\ task'[x].message = m
        /\ \A y \in TaskIds : y # x => task'[y] = task[y]
    BY <1>7, KnowsKeeps
  <2>2. place \in WithMessage /\ place # "attach"
    BY DEF WithMessage, WithJob
  <2>3. place = "save new" => turn[m.turn] # "none"
    BY <1>3, <1>7 DEF Tells
  <2>4. ThreadFits(x)'
    BY <1>1, <1>2, <2>1, <2>2, <2>3, MovedFits
  <2>5. QED  BY <1>1, <1>2, <1>4, <1>7, <2>1, <2>4, QuietMover
<1>8. ASSUME NEW place \in {"completion", "save", "save new"}, NEW job, Knows(x, job, place),
             place = "save new" => m.kind = "approval"
      PROVE  TurnsInv'
  <2>1. task' = [task EXCEPT ![x].job = job, ![x].at = place] /\ UNCHANGED inbox
    BY <1>8, Zenon DEF Knows
  <2>2. task \in [TaskIds -> TaskRecord]
    BY DEF SupervisorInv, Fits, TasksFit
  <2>3. [task EXCEPT ![x].job = job, ![x].at = place]
          = [task EXCEPT ![x] = [task[x] EXCEPT !.job = job, !.at = place]]
    BY <2>2, KnowsIs DEF TaskRecord
  <2>4. task' = [task EXCEPT ![x] = [task[x] EXCEPT !.job = job, !.at = place]]
    BY <2>1, <2>3, Zenon
  <2>5. QED  BY <1>7, <1>8, <2>1, <2>4
<1>9. ASSUME GoesOn(x, "resolve"), UNCHANGED inbox
      PROVE  TurnsInv'
  <2>1. task' = [task EXCEPT ![x] = [task[x] EXCEPT !.job = task[x].job, !.at = "resolve"]]
    BY <1>9, GoesOnIs DEF SupervisorInv
  <2>2. QED  BY <1>7, <1>9, <2>1
<1> HIDE DEF m
<1>10. ASSUME Finds(x, m, ActiveFor(m))
       PROVE  TurnsInv'
  <2> DEFINE job == ActiveFor(m)
  <2> HIDE DEF job
  <2>1. Finds(x, m, job)
    BY <1>10 DEF job
  <2>2. \/ Knows(x, job, "completion") \/ Refuses(m) \/ Knows(x, job, "save")
        \/ Knows(x, job, "save new") /\ m.kind = "approval"
    BY <2>1 DEF Finds
  <2>3. QED  BY <1>5, <1>8, <2>2
<1>11. QED  BY <1>5, <1>6, <1>9, <1>10 DEF LookUp, m

(* A thread reports on job j, whose turn is known to have started, or in a  *)
(* way that a starter need not mind.                                        *)
LEMMA CallingMover ==
  ASSUME SupervisorInv, TurnsInv, up, UNCHANGED <<stopper, inbox, wire>>, ReaderOnly,
         engine.closed => engine'.closed, engine'.early \subseteq engine.early,
         NEW x \in TaskIds, \A y \in TaskIds : y # x => task'[y] = task[y], ThreadFits(x)',
         NEW j \in Known, Reporting(j),
         turn[j] # "none" \/ Undisturbed(j), j \in Live => j \in Active(disk')
  PROVE  TurnsInv'
<1>1. /\ UNCHANGED <<turn, server>> /\ UNCHANGED stopper /\ WireShrinks
      /\ \A m \in engine'.early : Tells(m)
  BY DEF ReaderOnly, WireShrinks, TurnsInv
<1>2. QueueStep /\ Touches(j) /\ j \in Ids /\ j # 0 /\ j \in TaskIds
  BY ReportingTouches, KnownIds, IdsFacts DEF QueueStep, ReaderOnly, SupervisorInv, TaskIds
<1>3. \A i \in Known : i # j => Undisturbed(i)
  BY <1>2, TouchesLeaves
<1>4. \A i \in Ids : SameAsks(i)
  BY DEF SameAsks, Asked
<1>5. Asked("turn", x)' => Asked("turn", x)
  BY DEF Asked
<1>6. TurnHolds(j) /\ StartFits(j)
  BY <1>2 DEF TurnsInv, ThreadFits
<1>7. j \in Live \/ Asked("turn", j) => j \in Active(disk')
  BY <1>6 DEF TurnHolds, Undisturbed
<1>8. task[j].at \in Pre => /\ disk'.jobs[j].turn = None
                            /\ j \in Running(disk') \/ Disconnected'
  BY <1>1, <1>6 DEF StartFits, NotStarted, Undisturbed, Disconnected
<1>9. QED  BY <1>1, <1>2, <1>3, <1>4, <1>5, <1>7, <1>8, ThreadStep

LEMMA RaisedIs ==
  ASSUME SupervisorInv, NEW x \in TaskIds, Raised(x)
  PROVE  /\ task'[x].at \in {"eof", "done"} /\ task'[x].at \notin WithMessage
         /\ task'[x].at \notin {"save new", "attach"}
         /\ \A y \in TaskIds : y # x => task'[y] = task[y]
         /\ engine' = engine \/ engine' = [engine EXCEPT !.ready = FALSE]
<1>1. PICK p \in {"eof", "done"} : Goes(x, p)
  BY DEF Raised
<1>2. p \notin WithMessage
  BY DEF WithMessage, WithJob
<1>3. QED  BY <1>1, <1>2, GoesIs DEF Raised

(* A thread goes on with its message.                                       *)
LEMMA GoesOnHolds ==
  ASSUME SupervisorInv, TurnsInv, NEW x \in TaskIds, UNCHANGED turn, NEW place,
         task[x].at \in WithMessage, GoesOn(x, place), place \in WithMessage,
         place \in {"save new", "attach"} => turn[task[x].message.turn] # "none"
  PROVE  ThreadFits(x)' /\ \A y \in TaskIds : y # x => task'[y] = task[y]
<1>1. /\ task'[x].at = place /\ task'[x].message = task[x].message
      /\ \A y \in TaskIds : y # x => task'[y] = task[y]
  BY GoesKeeps
<1>2. QED  BY <1>1, MovedFits

LEMMA CompletionHolds ==
  ASSUME SupervisorInv, TurnsInv, up, NEW x \in TaskIds, Completion(x)
  PROVE  TurnsInv'
<1> DEFINE m == task[x].message
           job == task[x].job
<1>1. /\ UNCHANGED <<stopper, sweep, inbox, wire>> /\ ReaderOnly
      /\ task[x].at = "completion" /\ task[x].at \in WithMessage
  BY DEF Completion, At, WithMessage
<1>2. UNCHANGED turn /\ WireShrinks /\ ThreadFits(x) /\ Tells(m) /\ "close" \in WithMessage
  BY <1>1 DEF ReaderOnly, WireShrinks, TurnsInv, ThreadFits, WithMessage, WithJob
<1>3. m.kind \in Emits \ {"approval"} /\ job \in {0, m.turn} /\ m.turn \in Known
  BY <1>1, WithMessageFacts
<1>4. Finishes(x) => ThreadFits(x)' /\ \A y \in TaskIds : y # x => task'[y] = task[y]
  BY <1>2, FinishesIs, MovedFits
<1>5. CASE job = 0
  <2>1. Keeps(m) /\ Finishes(x) /\ UNCHANGED memory
    BY <1>5 DEF Completion
  <2>2. /\ engine.closed => engine'.closed
        /\ \A k \in engine'.early : k = m \/ k \in engine.early
    BY <2>1 DEF Keeps, SupervisorInv, Fits, EngineFits
  <2>3. \A k \in engine'.early : Tells(k)
    BY <1>2, <2>2 DEF TurnsInv
  <2>4. \A i \in TaskIds : SameAsks(i)
    BY <1>1 DEF SameAsks, Asked
  <2>5. QED  BY <1>1, <1>2, <1>4, <2>1, <2>2, <2>3, <2>4, QuietMover
<1>6. CASE job # 0
  <2>1. job = m.turn /\ job \in Known
    BY <1>3, <1>6
  <2>2. /\ EventUnknown(job) \/ EventComplete(job, "completed")
        /\ Raised(x) \/ ((Finishes(x) \/ GoesOn(x, "close")) /\ UNCHANGED engine)
    BY <1>6 DEF Completion, Reports, Calls, Raised
  <2>3. Reporting(job)
    BY <2>2 DEF Reporting
  <2>4. turn[job] = "ended" /\ job \notin Live
    BY <1>2, <1>3, <2>1 DEF Tells, Live
  <2>5. ThreadFits(x)' /\ \A y \in TaskIds : y # x => task'[y] = task[y]
    <3>1. Raised(x) => ThreadFits(x)' /\ \A y \in TaskIds : y # x => task'[y] = task[y]
      BY <1>2, RaisedIs, MovedFits
    <3>2. "close" \notin {"save new", "attach"}
      OBVIOUS
    <3>3. GoesOn(x, "close") => ThreadFits(x)' /\ \A y \in TaskIds : y # x => task'[y] = task[y]
      BY <1>1, <1>2, <3>2, GoesOnHolds
    <3>4. QED  BY <1>4, <2>2, <3>1, <3>3
  <2>6. (engine.closed => engine'.closed) /\ engine'.early \subseteq engine.early
    BY <2>2, RaisedIs, OnlyReady
  <2> HIDE DEF job, m
  <2>7. QED  BY <1>1, <2>1, <2>3, <2>4, <2>5, <2>6, CallingMover
<1>7. QED  BY <1>5, <1>6

LEMMA CloseTurnHolds ==
  ASSUME SupervisorInv, TurnsInv, NEW x \in TaskIds, CloseTurn(x)
  PROVE  TurnsInv'
<1>1. /\ UNCHANGED <<memory, stopper, sweep, inbox, wire>> /\ ReaderOnly /\ Finishes(x)
      /\ \E closed_turns, requests :
           engine' = [engine EXCEPT !.closed_turns = closed_turns, !.requests = requests]
  BY DEF CloseTurn
<1>2. /\ UNCHANGED turn /\ WireShrinks /\ (\A i \in TaskIds : SameAsks(i))
      /\ UNCHANGED stopper /\ UNCHANGED memory
  BY <1>1 DEF ReaderOnly, WireShrinks, SameAsks, Asked
<1>3. (engine.closed => engine'.closed) /\ \A m \in engine'.early : Tells(m)
  BY <1>1 DEF SupervisorInv, Fits, EngineFits, TurnsInv
<1>4. ThreadFits(x)'
  BY <1>1, <1>2, FinishesIs, MovedFits
<1>5. QED  BY <1>1, <1>2, <1>3, <1>4, FinishesIs, QuietMover

LEMMA SaveRequestHolds ==
  ASSUME SupervisorInv, TurnsInv, SaveRequest
  PROVE  TurnsInv'
<1> DEFINE place == IF At(0, "save") THEN "approve" ELSE "attach"
<1>1. /\ UNCHANGED <<memory, stopper, sweep, inbox, wire>> /\ ReaderOnly
      /\ task[0].at \in {"save", "save new"} /\ GoesOn(0, place)
      /\ \E requests : engine' = [engine EXCEPT !.requests = requests]
  BY DEF SaveRequest, At
<1>2. /\ UNCHANGED turn /\ WireShrinks /\ (\A i \in TaskIds : SameAsks(i)) /\ 0 \in TaskIds
      /\ UNCHANGED stopper /\ UNCHANGED memory
  BY <1>1 DEF ReaderOnly, WireShrinks, SameAsks, Asked, TaskIds
<1>3. (engine.closed => engine'.closed) /\ \A m \in engine'.early : Tells(m)
  BY <1>1 DEF SupervisorInv, Fits, EngineFits, TurnsInv
<1>4. ThreadFits(0)
  BY <1>2 DEF TurnsInv
<1>5. place \in {"approve", "attach"}
      /\ (place = "attach" => turn[task[0].message.turn] # "none")
  BY <1>1, <1>4 DEF At, ThreadFits
<1> HIDE DEF place
<1>6. /\ place \in WithMessage /\ task[0].at \in WithMessage
      /\ (place \in {"save new", "attach"} => turn[task[0].message.turn] # "none")
  BY <1>1, <1>5 DEF WithMessage, WithJob
<1>7. ThreadFits(0)' /\ \A y \in TaskIds : y # 0 => task'[y] = task[y]
  BY <1>1, <1>2, <1>6, GoesOnHolds
<1>8. QED  BY <1>1, <1>2, <1>3, <1>7, QuietMover

LEMMA AttachHolds ==
  ASSUME SupervisorInv, TurnsInv, up, Attach
  PROVE  TurnsInv'
<1> DEFINE job == task[0].job
<1>1. /\ UNCHANGED <<stopper, sweep, inbox, wire>> /\ ReaderOnly
      /\ task[0].at = "attach" /\ AttachTurn(job, task[0].message.turn)
      /\ Raised(0) \/ (GoesOn(0, "approve") /\ UNCHANGED engine)
  BY DEF Attach, AttachTo, At, Calls, Raised
<1>2. /\ 0 \in TaskIds /\ "attach" \in WithJob /\ "attach" \in WithMessage
      /\ "approve" \in WithMessage /\ UNCHANGED turn /\ "approve" \notin {"save new", "attach"}
  BY <1>1 DEF TaskIds, WithMessage, WithJob, ReaderOnly
<1>3. job = task[0].message.turn /\ job \in Housed /\ job \in Known
  BY <1>1, <1>2, WithMessageFacts
<1>4. Reporting(job)
  BY <1>1, <1>3 DEF Reporting, Housed
<1>5. turn[job] # "none"
  BY <1>1, <1>2, <1>3 DEF TurnsInv, ThreadFits
<1>6. job \in Live => job \in Active(disk')
  <2>1. /\ Aligned /\ job \in Turns /\ job \in DOMAIN data.jobs /\ data = disk /\ job \in Ids
        /\ TurnHolds(job)
    BY <1>3, OwnThreads, KnownIds, IdsFacts DEF SupervisorInv, SpoolInv, Aligned, TurnsInv
  <2> HIDE DEF job
  <2>2. AttachTurn(job, job)
    BY <1>1, <1>3
  <2>3. /\ Touches(job)
        /\ SameStatus(job)
           \/ (disk.jobs[job].status = "starting" /\ disk'.jobs[job].status = "running")
    BY <2>1, <2>2, TurnTouches
  <2>4. job \in Active(disk) => job \in Active(disk')
    BY <2>1, <2>3 DEF Active, Touches, SameStatus, OCCUPIED
  <2>5. QED  BY <2>1, <2>4 DEF TurnHolds
<1>7. ThreadFits(0)' /\ \A y \in TaskIds : y # 0 => task'[y] = task[y]
  <2>1. Raised(0) => ThreadFits(0)' /\ \A y \in TaskIds : y # 0 => task'[y] = task[y]
    BY <1>2, RaisedIs, MovedFits
  <2>2. GoesOn(0, "approve") => ThreadFits(0)' /\ \A y \in TaskIds : y # 0 => task'[y] = task[y]
    BY <1>1, <1>2, GoesOnHolds
  <2>3. QED  BY <1>1, <2>1, <2>2
<1>8. (engine.closed => engine'.closed) /\ engine'.early \subseteq engine.early
  BY <1>1, <1>2, RaisedIs, OnlyReady
<1> HIDE DEF job
<1>9. QED  BY <1>1, <1>2, <1>3, <1>4, <1>5, <1>6, <1>7, <1>8, CallingMover

LEMMA TurnedRuns ==
  ASSUME NEW i \in DOMAIN disk.jobs, NEW statuses \in SUBSET (OCCUPIED \ {"unknown"}),
         Turned(i, statuses)
  PROVE  Undisturbed(i)
  BY DEF Turned, Touches, SameNames, SameStatus, Undisturbed, Active, Running

LEMMA ApproveHolds ==
  ASSUME SupervisorInv, TurnsInv, up, Approve
  PROVE  TurnsInv'
<1> DEFINE job == task[0].job
<1>1. /\ UNCHANGED <<stopper, sweep, inbox, wire>> /\ ReaderOnly
      /\ task[0].at \in {"approve", "resolved"}
      /\ EventApproval(job, task[0].message.turn) \/ EventResolved(job, task[0].message.turn)
      /\ Raised(0) \/ (Finishes(0) /\ UNCHANGED engine)
  BY DEF Approve, At, Reports, Calls, Raised
<1>2. /\ 0 \in TaskIds /\ {"approve", "resolved"} \subseteq WithJob /\ WithJob \subseteq WithMessage
      /\ UNCHANGED turn
  BY <1>1 DEF TaskIds, WithMessage, WithJob, ReaderOnly
<1>3. job = task[0].message.turn /\ job \in Known
  BY <1>1, <1>2, WithMessageFacts
<1>4. Reporting(job)
  BY <1>1, <1>3 DEF Reporting
<1>5. Undisturbed(job)
  <2>1. Aligned /\ job \in Requests /\ job \in DOMAIN data.jobs /\ data = disk
    BY <1>3, OwnThreads, KnownIds, IdsFacts DEF SupervisorInv, SpoolInv, Aligned
  <2>2. EventApproval(job, job) \/ EventResolved(job, job)
    BY <1>1, <1>3
  <2> HIDE DEF job
  <2>3. Turned(job, {"waiting_approval"}) \/ Turned(job, {"running"})
    BY <2>1, <2>2, ApprovalTouches, ResolvedTouches
  <2>4. {"waiting_approval"} \in SUBSET (OCCUPIED \ {"unknown"})
        /\ {"running"} \in SUBSET (OCCUPIED \ {"unknown"})
    BY DEF OCCUPIED
  <2>5. QED  BY <2>1, <2>3, <2>4, TurnedRuns
<1>6. job \in Live => job \in Active(disk')
  <2>1. TurnHolds(job)
    BY <1>3, KnownIds DEF TurnsInv, SupervisorInv
  <2>2. QED  BY <1>5, <2>1 DEF TurnHolds, Undisturbed
<1>7. ThreadFits(0)' /\ \A y \in TaskIds : y # 0 => task'[y] = task[y]
  BY <1>1, <1>2, RaisedIs, FinishesIs, MovedFits
<1>8. (engine.closed => engine'.closed) /\ engine'.early \subseteq engine.early
  BY <1>1, <1>2, RaisedIs, OnlyReady
<1> HIDE DEF job
<1>9. QED  BY <1>1, <1>2, <1>3, <1>4, <1>5, <1>6, <1>7, <1>8, CallingMover

LEMMA PopResolvedHolds ==
  ASSUME SupervisorInv, TurnsInv, PopResolved
  PROVE  TurnsInv'
<1> DEFINE request == task[0].message.turn
           saved == {r \in engine.requests : r[2] = request}
           left == engine.requests \ saved
           next == [job \in Ids |-> [task[0] EXCEPT !.at = "resolved", !.job = job]]
<1>1. /\ UNCHANGED <<memory, stopper, sweep, inbox, wire>> /\ ReaderOnly
      /\ task[0].at = "resolve"
      /\ engine' = [engine EXCEPT !.requests = left]
      /\ Finishes(0) \/ \E r \in saved : task' = [task EXCEPT ![0] = next[r[1]]]
  BY DEF PopResolved, PopResolvedWith, At
<1>2. /\ UNCHANGED turn /\ WireShrinks /\ (\A i \in TaskIds : SameAsks(i)) /\ 0 \in TaskIds
      /\ UNCHANGED stopper /\ UNCHANGED memory
  BY <1>1 DEF ReaderOnly, WireShrinks, SameAsks, Asked, TaskIds
<1>3. (engine.closed => engine'.closed) /\ \A m \in engine'.early : Tells(m)
  BY <1>1 DEF SupervisorInv, Fits, EngineFits, TurnsInv
<1>4. /\ "resolved" \in WithMessage /\ "resolved" \notin {"save new", "attach"}
      /\ task[0].at \in WithMessage
  BY <1>1 DEF WithMessage, WithJob
<1>5. ThreadFits(0)' /\ \A y \in TaskIds : y # 0 => task'[y] = task[y]
  <2>1. ASSUME NEW r \in saved, task' = [task EXCEPT ![0] = next[r[1]]]
        PROVE  ThreadFits(0)' /\ \A y \in TaskIds : y # 0 => task'[y] = task[y]
    <3>1. r[1] \in Ids /\ task[0] \in TaskRecord
      BY <1>2 DEF SupervisorInv, Fits, EngineFits, TasksFit
    <3>2. next[r[1]].at = "resolved" /\ next[r[1]].message = task[0].message
      BY <3>1 DEF TaskRecord
    <3> HIDE DEF next
    <3>3. /\ task'[0].at = "resolved" /\ task'[0].message = task[0].message
          /\ \A y \in TaskIds : y # 0 => task'[y] = task[y]
      BY <1>2, <2>1, <3>2 DEF SupervisorInv, Fits, TasksFit
    <3>4. QED  BY <1>2, <1>4, <3>3, MovedFits
  <2>2. Finishes(0) => ThreadFits(0)' /\ \A y \in TaskIds : y # 0 => task'[y] = task[y]
    BY <1>2, FinishesIs, MovedFits
  <2>3. QED  BY <1>1, <2>1, <2>2
<1>6. QED  BY <1>1, <1>2, <1>3, <1>5, QuietMover

LEMMA ReadHolds ==
  ASSUME SupervisorInv, TurnsInv, Read
  PROVE  TurnsInv'
<1> DEFINE m == Head(wire)
<1>1. /\ UNCHANGED memory /\ UNCHANGED engine /\ UNCHANGED inbox /\ ReaderOnly
      /\ wire # <<>> /\ wire' = Tail(wire)
      /\ \/ m.kind \in Emits \cup {"resolved"} /\ Handles(0, m) /\ UNCHANGED stopper
         \/ /\ m.kind \notin Emits \cup {"resolved"}
            /\ GoesOn(m.turn, Resumed(m))
            /\ stopper' = [stopper EXCEPT ![m.turn] = Released(m)]
  BY DEF Read
<1>2. /\ UNCHANGED <<turn, server>> /\ UNCHANGED turn /\ 0 \in TaskIds /\ 0 \notin Ids
      /\ Ids \subseteq TaskIds
      /\ engine.closed => engine'.closed
      /\ (\A k \in engine'.early : Tells(k)) /\ (\A i \in TaskIds : SameAsks(i))
  BY <1>1, IdsFacts DEF ReaderOnly, TurnsInv, SameAsks, Asked, TaskIds
<1> DEFINE Message_ == [kind: Emits \cup {"resolved"} \cup Answers, turn: Ids]
<1>3. wire \in Seq(Message_) /\ \A n \in DOMAIN wire : wire[n].turn \in Known
  BY DEF SupervisorInv, Fits, WireFits
<1>4. /\ m \in Message_ /\ 1 \in DOMAIN wire /\ m = wire[1] /\ m.turn \in Known
      /\ \A n \in DOMAIN wire' : n + 1 \in DOMAIN wire /\ wire'[n] = wire[n + 1]
  <2> HIDE DEF Message_
  <2>1. /\ Len(wire) \in Nat /\ DOMAIN wire = 1 .. Len(wire) /\ Len(wire) # 0
        /\ m = wire[1] /\ wire' \in Seq(Message_) /\ Len(wire') = Len(wire) - 1
        /\ DOMAIN wire' = 1 .. Len(wire')
        /\ \A n \in 1 .. Len(wire') : wire'[n] = wire[n + 1]
    BY <1>1, <1>3
  <2>2. 1 \in DOMAIN wire
    BY <2>1
  <2>3. QED  BY <1>3, <2>1, <2>2
<1>5. WireShrinks /\ (m.kind \in Emits => Tells(m)) /\ m.turn \in Ids
  BY <1>4 DEF WireShrinks, TurnsInv
<1>6. QueueStep /\ disk' = disk /\ \A k \in Known : Undisturbed(k)
  BY <1>1, StillAdvances, MemoryLeaves DEF ReaderOnly, queueVars, memory
<1> HIDE DEF m, Message_
<1>7. CASE m.kind \in Emits \cup {"resolved"} /\ Handles(0, m) /\ UNCHANGED stopper
  <2> DEFINE t == [Rest("message") EXCEPT !.message = m]
  <2>1. t.at = "message" /\ t.message = m
    BY DEF Rest
  <2> HIDE DEF t
  <2>2. task'[0] = t /\ \A y \in TaskIds : y # 0 => task'[y] = task[y]
    BY <1>2, <1>7 DEF Handles, t, SupervisorInv, Fits, TasksFit
  <2>3. Tells(m)
    BY <1>5, <1>7, EmitsAssumption DEF Tells
  <2>4. Tells(task[0].message)'
    BY <1>2, <2>1, <2>2, <2>3 DEF Tells
  <2>5. ThreadFits(0)'
    BY <2>1, <2>2, <2>4 DEF ThreadFits
  <2>6. QED  BY <1>1, <1>2, <1>5, <1>7, <2>2, <2>5, QuietMover
<1>8. CASE GoesOn(m.turn, Resumed(m)) /\ stopper' = [stopper EXCEPT ![m.turn] = Released(m)]
  <2>1. PICK i \in Ids : i = m.turn
    BY <1>5
  <2>2. PICK place : place = Resumed(m)
    OBVIOUS
  <2>3. /\ i \in TaskIds /\ i \in Known /\ i \in Ids /\ i # 0
        /\ ThreadFits(i) /\ StartFits(i) /\ TurnHolds(i)
    BY <1>2, <1>4, <2>1 DEF TurnsInv, ThreadFits
  <2>4. \/ place = task[i].at
        \/ place = "attachThread" /\ task[i].at = "waitThread" /\ m.kind = "threadOk"
        \/ place = "failed" /\ task[i].at \in {"waitThread", "waitTurn"} /\ m.kind = "startNo"
        \/ place = "attachTurn" /\ task[i].at = "waitTurn"
    BY <2>1, <2>2 DEF Resumed, At
  <2>5. m.kind = "threadOk" => Answer_("threadOk", i)
    BY <1>4, <2>1 DEF Answer_
  <2>6. m.kind = "startNo" => Answer_("startNo", i)
    BY <1>4, <2>1 DEF Answer_
  <2>7. \A k \in Ids : stopper'[k].at # "idle" => stopper[k].at # "idle"
    <3>1. Released(m) \in {Stopper("idle"), stopper[i]} \/ stopper[i].at = "wait"
      BY <2>1 DEF Released
    <3>2. stopper' = [stopper EXCEPT ![i] = Released(m)]
      BY <1>8, <2>1
    <3>3. QED  BY <3>1, <3>2 DEF Stopper, SupervisorInv, Fits, StoppersFit
  <2>8. GoesOn(i, place)
    BY <1>8, <2>1, <2>2
  <2>9. /\ task'[i].at = place /\ task'[i].message = task[i].message
        /\ \A y \in TaskIds : y # i => task'[y] = task[y]
    BY <2>3, <2>8, GoesKeeps
  <2>10. \A kind, k : Answer_(kind, k)' => Answer_(kind, k)
    BY <1>2, <1>5, WireTells
  <2>11. SameAsks(i) /\ turn'[i] = turn[i]
    BY <1>2, <2>3
  <2>12. task[i].at \in Pre => NotStarted(i)'
    BY <1>1, <1>2, <1>6, <2>3, <2>11 DEF StartFits, NotStarted, SameAsks, Disconnected
  <2>13. CASE place = task[i].at
    <3>1. StartFits(i)'
      BY <2>3, <2>9, <2>10, <2>11, <2>12, <2>13, StartStays DEF NotStarted
    <3>2. task'[i].at \in WithMessage => Tells(task[i].message)'
      BY <1>2, <2>3, <2>9, <2>13 DEF ThreadFits, Tells
    <3>3. ThreadFits(i)'
      BY <1>2, <2>3, <2>9, <2>13, <3>1, <3>2 DEF ThreadFits
    <3>4. QED
      BY <1>2, <1>5, <1>6, <2>3, <2>7, <2>9, <2>11, <3>3, ThreadStep DEF SameAsks, TurnHolds
  <2>14. CASE place # task[i].at
    <3>1. place \in {"attachThread", "failed", "attachTurn"}
      BY <2>4, <2>14
    <3>2. StartFits(i)'
      <4>1. CASE place = "attachThread"
        <5>1. task[i].at = "waitThread" /\ ~Asked("thread", i) /\ ~Answer_("startNo", i)
          BY <2>3, <2>4, <2>5, <2>14, <4>1 DEF StartFits, AnswersFit
        <5>2. AnswersFit(i)'
          BY <2>9, <2>10, <2>11, <4>1, <5>1 DEF AnswersFit, SameAsks
        <5>3. QED  BY <2>9, <2>12, <4>1, <5>1, <5>2 DEF StartFits, Pre
      <4>2. CASE place = "attachTurn"
        BY <2>3, <2>9, <4>2, RestingFits
      <4>3. CASE place = "failed"
        <5>1. turn[i] = "none" /\ ~Asked("turn", i)
          BY <2>3, <2>4, <2>6, <2>14, <4>3 DEF StartFits, NotStarted, AnswersFit, Pre
        <5>2. QED  BY <2>9, <2>11, <4>3, <5>1 DEF StartFits, AnswersFit, Pre, SameAsks
      <4>4. QED  BY <3>1, <4>1, <4>2, <4>3
    <3>3. {"attachThread", "failed", "attachTurn"} \cap (WithMessage \cup {"save new", "attach"}) = {}
      BY DEF WithMessage, WithJob
    <3>4. ThreadFits(i)'
      BY <2>3, <2>9, <3>1, <3>2, <3>3 DEF ThreadFits
    <3>5. QED
      BY <1>2, <1>5, <1>6, <2>3, <2>7, <2>9, <2>11, <3>4, ThreadStep DEF SameAsks, TurnHolds
  <2>15. QED  BY <2>13, <2>14
<1>9. QED  BY <1>1, <1>7, <1>8

(* The reader ends: the connection is closed, and every call that waits is  *)
(* lost.                                                                    *)
LEMMA EndOfFileHolds ==
  ASSUME SupervisorInv, TurnsInv, EndOfFile
  PROVE  TurnsInv'
<1>1. /\ UNCHANGED <<memory, sweep, inbox, wire>> /\ ReaderOnly
      /\ engine' = [engine EXCEPT !.closed = TRUE]
  BY DEF EndOfFile
<1>2. /\ UNCHANGED turn /\ WireShrinks /\ disk' = disk /\ Live' = Live
      /\ \A i \in TaskIds : SameAsks(i)
  BY <1>1, MemoryLeaves DEF ReaderOnly, WireShrinks, SameAsks, Asked, Live
<1>3. engine'.closed /\ Disconnected' /\ engine'.early = engine.early
  BY <1>1 DEF SupervisorInv, Fits, EngineFits, Disconnected
<1>4. /\ \A n \in DOMAIN wire' : wire'[n].kind \in Emits => Tells(wire[n])'
      /\ \A kind, i : Answer_(kind, i)' => Answer_(kind, i)
  BY <1>2, WireTells
<1>5. ASSUME NEW x \in TaskIds
      PROVE  ThreadFits(x)'
  <2>1. task' = [y \in TaskIds |-> CASE y = 0 -> Rest("disconnect")
                   [] task[y].at \in {"waitThread", "waitTurn"} -> Rest("lost")
                   [] OTHER -> task[y]]
    BY DEF EndOfFile, TaskIds
  <2>2. \/ task'[x] = task[x]
        \/ x = 0 /\ task'[x] = Rest("disconnect")
        \/ task'[x] = Rest("lost") /\ task[x].at \in {"waitThread", "waitTurn"}
    BY <2>1
  <2>3. {"disconnect", "lost"} \cap WithMessage = {} /\ {"save new", "attach"} \subseteq WithMessage
    BY DEF WithMessage, WithJob
  <2>4. CASE x = 0 /\ task'[x] = Rest("disconnect")
    <3>1. task'[x].at = "disconnect"
      BY <2>4 DEF Rest
    <3>2. QED  BY <1>3, <2>3, <2>4, <3>1 DEF ThreadFits
  <2>5. CASE task'[x] = Rest("lost")
    <3>1. task'[x].at = "lost"
      BY <2>5 DEF Rest
    <3>2. x # 0 => StartFits(x)'
      BY <3>1, RestingFits DEF TaskIds
    <3>3. QED  BY <2>3, <3>1, <3>2 DEF ThreadFits
  <2>6. CASE task'[x] = task[x]
    <3>1. ThreadFits(x)
      BY DEF TurnsInv
    <3>2. x # 0 => StartFits(x)'
      <4>1. SUFFICES ASSUME x # 0  PROVE  StartFits(x)'
        OBVIOUS
      <4>2. x \in Ids /\ StartFits(x)
        BY <3>1, <4>1 DEF TaskIds, ThreadFits
      <4>3. task[x].at \in Pre => disk'.jobs[x].turn = None
        BY <1>2, <4>2 DEF StartFits, NotStarted
      <4>4. QED  BY <1>2, <1>3, <1>4, <2>6, <4>2, <4>3, StartStays
    <3>3. task'[x].at \in WithMessage => Tells(task[x].message)'
      BY <1>2, <2>6, <3>1 DEF ThreadFits, Tells
    <3>4. QED  BY <1>2, <1>3, <2>6, <3>1, <3>2, <3>3 DEF ThreadFits
  <2>7. QED  BY <2>2, <2>4, <2>5, <2>6
<1>6. \A i \in Ids : TurnHolds(i)'
  BY <1>2 DEF TurnsInv, TurnHolds, SameAsks, TaskIds
<1>7. \A i \in Ids : stopper'[i].at # "idle" => disk'.jobs[i].turn # None
  <2>1. stopper' = [i \in Ids |-> IF stopper[i].at = "wait" THEN Stopper("lost") ELSE stopper[i]]
    BY DEF EndOfFile
  <2>2. \A i \in Ids : stopper'[i].at # "idle" => stopper[i].at # "idle"
    BY <2>1
  <2>3. QED  BY <1>2, <2>2 DEF TurnsInv
<1>8. \A m \in engine'.early : Tells(m)'
  BY <1>2, <1>3 DEF TurnsInv, Tells
<1>9. QED  BY <1>4, <1>5, <1>6, <1>7, <1>8 DEF TurnsInv

LEMMA DisconnectHolds ==
  ASSUME SupervisorInv, TurnsInv, Disconnect
  PROVE  TurnsInv'
<1>1. /\ UNCHANGED <<memory, stopper, inbox, wire>> /\ ReaderOnly /\ task[0].at = "disconnect"
      /\ engine' = [engine EXCEPT !.ready = FALSE] /\ Goes(0, "sweep")
  BY DEF Disconnect, At
<1>2. /\ UNCHANGED memory /\ UNCHANGED stopper /\ WireShrinks /\ 0 \in TaskIds
      /\ \A i \in TaskIds : SameAsks(i)
  BY <1>1 DEF WireShrinks, SameAsks, Asked, TaskIds
<1>3. (engine.closed => engine'.closed) /\ engine'.early \subseteq engine.early
  BY <1>1, OnlyReady
<1>4. ThreadFits(0)' /\ \A y \in TaskIds : y # 0 => task'[y] = task[y]
  <2>1. task'[0].at = "sweep" /\ \A y \in TaskIds : y # 0 => task'[y] = task[y]
    BY <1>1, <1>2, GoesIs
  <2>2. engine.closed
    BY <1>1, <1>2 DEF TurnsInv, ThreadFits
  <2>3. "sweep" \notin WithMessage
    BY DEF WithMessage, WithJob
  <2>4. QED  BY <1>3, <2>1, <2>2, <2>3 DEF ThreadFits
<1>5. \A m \in engine'.early : Tells(m)
  BY <1>3 DEF TurnsInv
<1>6. QED  BY <1>1, <1>2, <1>3, <1>4, <1>5, QuietMover

(* A job that is to be verified keeps its slot, and a starter that has not  *)
(* asked for its turn will not: the connection is closed.                   *)
LEMMA UnknownKeeps ==
  ASSUME SupervisorInv, TurnsInv, NEW i \in Known, EventUnknown(i)
  PROVE  /\ i \in Ids /\ Touches(i) /\ disk'.jobs[i].turn = disk.jobs[i].turn
         /\ i \in Live \/ Asked("turn", i) => i \in Active(disk')
<1>1. Aligned /\ i \in DOMAIN data.jobs /\ i \in Ids /\ i \in DOMAIN disk.jobs
  BY OwnThreads, KnownIds DEF SupervisorInv, SpoolInv, Known
<1>2. Turned(i, {"unknown"})
  BY <1>1, UnknownTouches
<1>3. {"unknown"} \in SUBSET OCCUPIED
  BY DEF OCCUPIED
<1>4. i \in Live \/ Asked("turn", i) => i \in Active(disk')
  BY <1>1, <1>2, <1>3, TurnedHolds DEF TurnsInv, TurnHolds
<1>5. QED  BY <1>1, <1>2, <1>4 DEF Turned, SameNames

LEMMA SweepHolds ==
  ASSUME SupervisorInv, TurnsInv, up, Sweep
  PROVE  TurnsInv'
<1>1. UNCHANGED <<stopper, engine, inbox, wire>> /\ ReaderOnly /\ task[0].at = "sweep"
  BY DEF Sweep, SweepStep, At
<1>2. /\ UNCHANGED <<turn, server>> /\ UNCHANGED stopper /\ WireShrinks /\ 0 \in TaskIds
      /\ 0 \notin Ids /\ (\A i \in TaskIds : SameAsks(i)) /\ (Asked("turn", 0)' => Asked("turn", 0))
      /\ (\A m \in engine'.early : Tells(m)) /\ (engine.closed => engine'.closed)
  BY <1>1, IdsFacts DEF WireShrinks, SameAsks, Asked, TaskIds, TurnsInv, ReaderOnly
<1>3. engine.closed /\ engine'.closed /\ Disconnected' /\ Ids \subseteq TaskIds
  <2>1. engine.closed
    BY <1>1, <1>2 DEF TurnsInv, ThreadFits
  <2>2. QED  BY <1>1, <2>1 DEF Disconnected, TaskIds
<1>4. "sweep" \notin WithMessage /\ "dead" \notin WithMessage
      /\ {"save new", "attach"} \subseteq WithMessage
  BY DEF WithMessage, WithJob
<1>5. Goes(0, "dead") \/ UNCHANGED task =>
        ThreadFits(0)' /\ \A y \in TaskIds : y # 0 => task'[y] = task[y]
  <2>1. Goes(0, "dead") \/ UNCHANGED task =>
          task'[0].at \in {"sweep", "dead"} /\ \A y \in TaskIds : y # 0 => task'[y] = task[y]
    BY <1>1, <1>2, GoesIs
  <2>2. task'[0].at \in {"sweep", "dead"} => ThreadFits(0)'
    BY <1>3, <1>4 DEF ThreadFits
  <2>3. QED  BY <2>1, <2>2
<1>6. CASE Goes(0, "dead") /\ UNCHANGED <<memory, sweep>>
  BY <1>1, <1>2, <1>5, <1>6, QuietMover
<1>7. ASSUME NEW i \in sweep, SweepThen(i, sweep \ {i})
      PROVE  TurnsInv'
  <2>1. i \in Known /\ EventUnknown(i) /\ (Goes(0, "dead") \/ UNCHANGED task)
    BY <1>7 DEF SweepThen, SupervisorInv, Fits
  <2>2. Reporting(i)
    BY <2>1 DEF Reporting
  <2>3. QueueStep
    BY <1>1, <2>1, <2>2 DEF QueueStep, ReaderOnly
  <2>4. /\ i \in Ids /\ Touches(i) /\ disk'.jobs[i].turn = disk.jobs[i].turn
        /\ i \in Live \/ Asked("turn", i) => i \in Active(disk')
    BY <2>1, UnknownKeeps
  <2>5. \A k \in Known : k # i => Undisturbed(k)
    BY <2>4, TouchesLeaves
  <2>6. task[i].at \in Pre => disk'.jobs[i].turn = None
    <3>1. ThreadFits(i) /\ i # 0
      BY <1>2, <1>3, <2>4 DEF TurnsInv
    <3>2. QED  BY <2>4, <3>1 DEF ThreadFits, StartFits, NotStarted
  <2>7. QED  BY <1>2, <1>3, <1>5, <2>1, <2>3, <2>4, <2>5, <2>6, ThreadStep
<1>8. QED  BY <1>6, <1>7 DEF Sweep, SweepStep

LEMMA ReaderHolds ==
  ASSUME SupervisorInv, TurnsInv, up, Reader \/ \E i \in Ids : Message(i)
  PROVE  TurnsInv'
<1>1. ASSUME NEW x \in TaskIds, Message(x)
      PROVE  TurnsInv'
  BY <1>1, LookUpHolds, CompletionHolds, CloseTurnHolds DEF Message
<1>2. 0 \in TaskIds /\ Ids \subseteq TaskIds
  BY DEF TaskIds
<1>3. QED
  BY <1>1, <1>2, ReadHolds, SaveRequestHolds, AttachHolds, ApproveHolds, PopResolvedHolds,
     EndOfFileHolds, DisconnectHolds, SweepHolds DEF Reader

-----------------------------------------------------------------------------
(* The owner moves no thread of the process.                                *)
LEMMA HttpStep ==
  ASSUME SupervisorInv, TurnsInv, QueueStep, HttpOnly,
         NEW j, \A i \in Known : i # j => Undisturbed(i),
         \A i \in TaskIds : SameAsks(i),
         j \in Ids /\ (j \in Live \/ Asked("turn", j)) => j \in Active(disk'),
         j \in Ids /\ task[j].at \in Pre => /\ disk'.jobs[j].turn = None
                                            /\ j \in Running(disk') \/ Disconnected,
         \A i \in Ids : stopper'[i].at # "idle" =>
           stopper[i].at # "idle" \/ disk'.jobs[i].turn # None
  PROVE  TurnsInv'
<1>1. /\ UNCHANGED <<turn, server>> /\ UNCHANGED turn /\ UNCHANGED task /\ WireShrinks
      /\ (engine.closed => engine'.closed) /\ (\A m \in engine'.early : Tells(m))
      /\ 0 \in TaskIds /\ Ids \subseteq TaskIds /\ Disconnected' = Disconnected
  BY DEF HttpOnly, WireShrinks, TurnsInv, TaskIds, Disconnected
<1>2. ThreadFits(0)' /\ \A y \in TaskIds : y # 0 => task'[y] = task[y]
  BY <1>1, LeftFits
<1>3. Asked("turn", 0)' => Asked("turn", 0)
  BY <1>1 DEF SameAsks
<1>4. QED  BY <1>1, <1>2, <1>3, ThreadStep

LEMMA QuietHttp ==
  ASSUME SupervisorInv, TurnsInv, QueueStep, HttpOnly, UNCHANGED stopper,
         \A i \in Known : Undisturbed(i), \A i \in TaskIds : SameAsks(i)
  PROVE  TurnsInv'
<1>1. 0 \notin Ids
  BY IdsFacts
<1>2. QED  BY <1>1, HttpStep

LEMMA OwnerHolds ==
  ASSUME SupervisorInv, TurnsInv, up, Owner, Named = {}
  PROVE  TurnsInv'
<1>1. HttpOnly /\ UNCHANGED <<up, capacity, claimed>> /\ data = disk /\ Aligned
  BY DEF Owner, HttpOnly, SupervisorInv, SpoolInv, Aligned
<1>2. Owning => QueueStep
  BY <1>1 DEF QueueStep
<1>3. UNCHANGED inbox => \A i \in TaskIds : SameAsks(i)
  BY DEF SameAsks, Asked
<1>4. disk'.jobs = disk.jobs => \A i \in Known : Undisturbed(i)
  BY SameIsUndisturbed DEF Known, SameStatus
<1>5. CASE OwnerSubmits
  <2>1. PICK key \in Keys, dir \in Dirs : Submit(key, dir, None)
    BY <1>5 DEF OwnerSubmits
  <2>2. UNCHANGED stopper /\ UNCHANGED inbox /\ QueueStep
    BY <1>2, <1>5, <2>1 DEF OwnerSubmits, Owning
  <2>3. JobArrives => \A i \in Known : Undisturbed(i)
    BY SameIsUndisturbed DEF JobArrives, Known, SameStatus
  <2>4. \A i \in Known : Undisturbed(i)
    BY <1>1, <1>4, <2>1, <2>3, SubmitAdds
  <2>5. QED  BY <1>1, <1>3, <2>2, <2>4, QuietHttp
<1>6. CASE OwnerPauses
  <2>1. PICK paused \in BOOLEAN : Pause(paused)
    BY <1>6 DEF OwnerPauses
  <2>2. UNCHANGED stopper /\ UNCHANGED inbox /\ QueueStep
    BY <1>2, <1>6, <2>1 DEF OwnerPauses, Owning
  <2>3. QED  BY <1>1, <1>3, <1>4, <2>1, <2>2, PauseKeepsJobs, QuietHttp
<1>7. ASSUME NEW i \in DOMAIN data.jobs, OwnerConfirms(i)
      PROVE  TurnsInv'
  <2>1. /\ ConfirmStopped(i) /\ UNCHANGED stopper /\ UNCHANGED inbox
        /\ i \notin Live /\ ~Asked("turn", i)
    BY <1>7 DEF OwnerConfirms, Asked
  <2>2. QueueStep
    BY <1>2, <2>1 DEF Owning
  <2>3. Touches(i) /\ disk'.jobs[i].turn = disk.jobs[i].turn
    BY <1>1, <2>1, ConfirmTouches DEF Turned, SameNames
  <2>4. \A k \in Known : k # i => Undisturbed(k)
    BY <2>3, TouchesLeaves
  <2>5. i \notin Running(disk)
    BY <1>1, <2>1 DEF ConfirmStopped, StatusOf, Running, Active
  <2>6. i \in Ids /\ task[i].at \in Pre => disk'.jobs[i].turn = None /\ Disconnected
    <3>1. i \in Ids => i \in TaskIds /\ i # 0
      BY IdsFacts DEF TaskIds
    <3>2. i \in Ids => StartFits(i)
      BY <3>1 DEF TurnsInv, ThreadFits
    <3>3. QED  BY <2>3, <2>5, <3>2 DEF StartFits, NotStarted
  <2>7. QED  BY <1>1, <1>3, <2>1, <2>2, <2>4, <2>6, HttpStep
<1>8. ASSUME NEW i \in DOMAIN data.jobs, OwnerCancels(i)
      PROVE  TurnsInv'
  <2>1. Cancel(i) /\ UNCHANGED inbox
    BY <1>8 DEF OwnerCancels
  <2>2. QueueStep
    BY <1>2, <2>1 DEF Owning
  <2>3. /\ Touches(i) /\ SameNames(i)
        /\ \/ SameStatus(i) /\ disk.jobs[i].status \notin {"cancelling", "unknown"}
           \/ disk.jobs[i].status = "queued" /\ disk'.jobs[i].status = "cancelled"
           \/ /\ disk.jobs[i].status \in {"running", "waiting_approval"}
              /\ disk'.jobs[i].status = "cancelling" /\ disk.jobs[i].turn # None
    BY <1>1, <2>1, CancelTouches
  <2>4. \A k \in Known : Undisturbed(k)
    <3>1. \A k \in Known : k # i => Undisturbed(k)
      BY <2>3, TouchesLeaves
    <3>2. i \in Known => Undisturbed(i)
      BY <1>1, <2>3 DEF Known, Touches, SameNames, SameStatus, Undisturbed, Active, Running,
         OCCUPIED
    <3>3. QED  BY <3>1, <3>2
  <2>5. data' = disk'
    BY <2>2, QueueStepIsNext, NextSpool DEF SupervisorInv, SpoolInv, Aligned
  <2>6. \A k \in Ids : stopper'[k].at # "idle" =>
          stopper[k].at # "idle" \/ disk'.jobs[k].turn # None
    <3>1. CASE UNCHANGED stopper
      BY <3>1
    <3>2. CASE /\ data'.jobs[i].status = "cancelling"
               /\ stopper' = [stopper EXCEPT ![i] = [at |-> "send", turn |-> data.jobs[i].turn]]
      <4>1. disk'.jobs[i].turn # None
        BY <2>3, <2>5, <3>2 DEF SameNames, SameStatus
      <4>2. \A k \in Ids : k # i => stopper'[k] = stopper[k]
        BY <3>2 DEF SupervisorInv, Fits, StoppersFit
      <4>3. QED  BY <4>1, <4>2
    <3>3. QED  BY <1>8, <3>1, <3>2 DEF OwnerCancels
  <2>7. 0 \notin Ids
    BY IdsFacts
  <2>8. QED  BY <1>1, <1>3, <2>1, <2>2, <2>4, <2>6, <2>7, HttpStep
<1>9. ASSUME NEW i \in DOMAIN data.jobs, OwnerAnswers(i)
      PROVE  TurnsInv'
  <2>1. UNCHANGED memory /\ UNCHANGED stopper
    BY <1>9 DEF OwnerAnswers
  <2>2. QueueStep /\ \A k \in Known : Undisturbed(k)
    BY <1>1, <2>1, StillAdvances, MemoryLeaves DEF queueVars, memory
  <2>3. PICK r \in engine.requests : inbox' = inbox \cup {<<"answer", i, r[2]>>}
    BY <1>9 DEF OwnerAnswers
  <2>4. \A k \in TaskIds : SameAsks(k)
    BY <2>3 DEF SameAsks, Asked
  <2>5. QED  BY <1>1, <2>1, <2>2, <2>4, QuietHttp
<1>10. QED  BY <1>5, <1>6, <1>7, <1>8, <1>9 DEF Owner

LEMMA StopsHold ==
  ASSUME SupervisorInv, TurnsInv, up, NEW i \in Ids, StopSend(i) \/ StopTimeout(i) \/ StopLost(i)
  PROVE  TurnsInv'
<1>1. HttpOnly /\ UNCHANGED <<up, capacity, claimed>> /\ i \in Known /\ stopper[i].at # "idle"
  BY DEF StopSend, StopTimeout, StopLost, HttpOnly, SupervisorInv, Fits, StoppersFit
<1>2. \A k \in TaskIds : SameAsks(k)
  <2>1. inbox' = inbox \/ inbox' = inbox \cup {<<"interrupt", i, stopper[i].turn>>}
    BY DEF StopSend, StopTimeout, StopLost
  <2>2. QED  BY <2>1 DEF SameAsks, Asked
<1>3. \A k \in Ids : stopper'[k].at # "idle" => stopper[k].at # "idle"
  <2>1. \A k \in Ids : k # i => stopper'[k] = stopper[k]
    BY DEF StopSend, StopTimeout, StopLost, SupervisorInv, Fits, StoppersFit
  <2>2. QED  BY <1>1, <2>1
<1>4. CASE UNCHANGED memory
  <2>1. QueueStep /\ \A k \in Known : Undisturbed(k)
    BY <1>1, <1>4, StillAdvances, MemoryLeaves DEF queueVars, memory
  <2>2. 0 \notin Ids
    BY IdsFacts
  <2>3. QED  BY <1>1, <1>2, <1>3, <2>1, <2>2, HttpStep
<1>5. CASE EventUnknown(i)
  <2>1. QueueStep
    BY <1>1, <1>5 DEF QueueStep, Reporting
  <2>2. /\ Touches(i) /\ disk'.jobs[i].turn = disk.jobs[i].turn
        /\ i \in Live \/ Asked("turn", i) => i \in Active(disk')
    BY <1>1, <1>5, UnknownKeeps
  <2>3. \A k \in Known : k # i => Undisturbed(k)
    BY <2>2, TouchesLeaves
  <2>4. task[i].at \notin Pre
    <3>1. i \in TaskIds /\ i # 0 /\ disk.jobs[i].turn # None
      BY <1>1, IdsFacts DEF TaskIds, TurnsInv
    <3>2. QED  BY <3>1 DEF TurnsInv, ThreadFits, StartFits, NotStarted
  <2>5. QED  BY <1>1, <1>2, <1>3, <2>1, <2>2, <2>3, <2>4, HttpStep
<1>6. QED  BY <1>4, <1>5 DEF StopSend, StopTimeout, StopLost

-----------------------------------------------------------------------------
(* The app-server.  What one of its steps does to turn k, and to what is    *)
(* asked and answered of it: a request is answered once.                    *)
Served(k) ==
  /\ Asked("thread", k)' => Asked("thread", k)
  /\ Asked("turn", k)' => Asked("turn", k) /\ turn'[k] = turn[k]
  /\ turn[k] = "ended" => turn'[k] = "ended"
  /\ turn[k] # "none" => turn'[k] # "none"
  /\ k \in Live' => k \in Live \/ Asked("turn", k)
  /\ turn'[k] # turn[k] => turn[k] # "none" \/ Asked("turn", k)
  /\ \/ /\ Answer_("threadOk", k)' => Answer_("threadOk", k)
        /\ Answer_("startNo", k)' => Answer_("startNo", k)
     \/ /\ Asked("thread", k) /\ ~Asked("thread", k)' /\ turn'[k] = turn[k]
        /\ \/ Answer_("threadOk", k)' => Answer_("threadOk", k)
           \/ Answer_("startNo", k)' => Answer_("startNo", k)
     \/ /\ Asked("turn", k) /\ ~Asked("turn", k)' /\ turn'[k] = turn[k]
        /\ Answer_("threadOk", k)' => Answer_("threadOk", k)

LEMMA ServedFits ==
  ASSUME TurnsInv, UNCHANGED <<disk, task>>, Disconnected => Disconnected',
         NEW k \in Ids, Served(k)
  PROVE  StartFits(k)' /\ TurnHolds(k)'
<1>1. k \in TaskIds /\ k # 0
  BY IdsFacts DEF TaskIds
<1>2. StartFits(k) /\ TurnHolds(k) /\ disk' = disk /\ task' = task
  BY <1>1 DEF TurnsInv, ThreadFits
<1>3. TurnHolds(k)'
  BY <1>2 DEF TurnHolds, Served
<1>4. task[k].at \in Pre => disk'.jobs[k].turn = None /\ (k \in Running(disk') \/ Disconnected')
  BY <1>2 DEF StartFits, NotStarted
<1>5. Asked("turn", k) \/ turn[k] # "none" => task[k].at \notin Pre /\ task[k].at # "failed"
  BY <1>2 DEF StartFits, NotStarted
<1>6. task[k].at = "waitTurn" =>
        ~Asked("thread", k) /\ (Answer_("startNo", k) => turn[k] = "none" /\ ~Asked("turn", k))
  BY <1>2 DEF StartFits, AnswersFit
<1>7. CASE /\ Answer_("threadOk", k)' => Answer_("threadOk", k)
           /\ Answer_("startNo", k)' => Answer_("startNo", k)
  <2>1. CASE turn'[k] = turn[k]
    <3>1. /\ Asked("thread", k)' => Asked("thread", k)
          /\ Asked("turn", k)' => Asked("turn", k)
      BY DEF Served
    <3>2. StartFits(k) /\ task'[k].at = task[k].at
      BY <1>2
    <3>3. StartFits(k)'
      BY <1>4, <1>7, <2>1, <3>1, <3>2, StartShrinks
    <3>4. QED  BY <1>3, <3>3
  <2>2. CASE turn'[k] # turn[k]
    <3>1. Asked("turn", k) \/ turn[k] # "none"
      BY <2>2 DEF Served
    <3>2. task[k].at \notin Pre /\ task[k].at # "failed"
      BY <1>5, <3>1
    <3>3. AnswersFit(k)'
      BY <1>2, <1>6, <1>7, <3>1, <3>2 DEF AnswersFit, Served, Pre
    <3>4. QED  BY <1>2, <1>3, <3>2, <3>3 DEF StartFits
  <2>3. QED  BY <1>3, <2>1, <2>2
<1>8. CASE /\ Asked("thread", k) /\ ~Asked("thread", k)' /\ turn'[k] = turn[k]
           /\ \/ Answer_("threadOk", k)' => Answer_("threadOk", k)
              \/ Answer_("startNo", k)' => Answer_("startNo", k)
  <2>1. /\ task[k].at \notin {"check", "sendThread", "attachThread", "checkTurn", "sendTurn"}
        /\ task[k].at # "waitTurn"
    BY <1>2, <1>8 DEF StartFits, AnswersFit
  <2>2. AnswersFit(k)'
    BY <1>2, <1>8, <2>1 DEF StartFits, AnswersFit
  <2>3. task[k].at \in Pre => NotStarted(k)'
    BY <1>2, <1>4, <1>8 DEF StartFits, NotStarted, Served
  <2>4. QED  BY <1>2, <1>3, <1>8, <2>2, <2>3 DEF StartFits, Served
<1>9. CASE /\ Asked("turn", k) /\ ~Asked("turn", k)' /\ turn'[k] = turn[k]
           /\ Answer_("threadOk", k)' => Answer_("threadOk", k)
  <2>1. task[k].at \notin Pre /\ task[k].at # "failed" /\ turn[k] = "none"
    BY <1>2, <1>5, <1>9 DEF TurnHolds
  <2>2. AnswersFit(k)'
    BY <1>2, <1>6, <1>9, <2>1 DEF AnswersFit, Served, Pre
  <2>3. QED  BY <1>2, <1>3, <2>1, <2>2 DEF StartFits
<1>10. QED  BY <1>7, <1>8, <1>9 DEF Served

LEMMA ServerStep ==
  ASSUME SupervisorInv, TurnsInv, UNCHANGED <<queueVars, engineVars>>, server' => server,
         \A k \in Ids : Served(k),
         \A n \in DOMAIN wire' : wire'[n].kind \in Emits => Tells(wire[n])'
  PROVE  TurnsInv'
<1>1. /\ UNCHANGED <<disk, task>> /\ task' = task /\ disk' = disk /\ engine' = engine
      /\ stopper' = stopper /\ (Disconnected => Disconnected')
  BY DEF queueVars, memory, engineVars, Disconnected
<1>2. \A k \in Ids : StartFits(k)' /\ TurnHolds(k)'
  BY <1>1, ServedFits
<1>3. \A k \in Ids : (turn[k] = "ended" => turn'[k] = "ended") /\ (turn[k] # "none" => turn'[k] # "none")
  BY DEF Served
<1>4. ASSUME NEW x \in TaskIds
      PROVE  ThreadFits(x)'
  <2>1. ThreadFits(x)
    BY DEF TurnsInv
  <2>2. task[x].at \in WithMessage => task[x].message.turn \in Ids
    BY KnownIds DEF SupervisorInv, Fits, TasksFit, PlaceFits
  <2>3. {"save new", "attach"} \subseteq WithMessage
    BY DEF WithMessage, WithJob
  <2>4. task'[x].at \in WithMessage => Tells(task[x].message)'
    BY <1>1, <1>3, <2>1, <2>2 DEF ThreadFits, Tells
  <2>5. x # 0 => StartFits(x)'
    BY <1>2 DEF TaskIds
  <2>6. QED  BY <1>1, <1>3, <2>1, <2>2, <2>3, <2>4, <2>5 DEF ThreadFits
<1>5. \A m \in engine'.early : Tells(m)'
  <2>1. \A m \in engine.early : m.turn \in Ids
    BY KnownIds DEF SupervisorInv, Fits, EngineFits
  <2>2. QED  BY <1>1, <1>3, <2>1 DEF TurnsInv, Tells
<1>6. \A i \in Ids : stopper'[i].at # "idle" => disk'.jobs[i].turn # None
  BY <1>1 DEF TurnsInv
<1>7. QED  BY <1>2, <1>4, <1>5, <1>6 DEF TurnsInv

LEMMA PushIs ==
  ASSUME SupervisorInv, NEW kind, NEW i, Push(kind, i)
  PROVE  /\ \A k, o : Answer_(k, o)' <=> Answer_(k, o) \/ (k = kind /\ o = i)
         /\ \A n \in DOMAIN wire' :
              \/ wire'[n] = [kind |-> kind, turn |-> i]
              \/ \E l \in DOMAIN wire : wire'[n] = wire[l]
<1> DEFINE m == [kind |-> kind, turn |-> i]
<1>1. PICK S : wire \in Seq(S)
  BY DEF SupervisorInv, Fits, WireFits
<1>2. wire' = Append(wire, m) /\ m.kind = kind /\ m.turn = i
  BY DEF Push
<1> HIDE DEF m
<1>3. /\ DOMAIN wire' = 1 .. Len(wire) + 1 /\ Len(wire) \in Nat /\ DOMAIN wire = 1 .. Len(wire)
      /\ \A n \in 1 .. Len(wire) : wire'[n] = wire[n]
      /\ wire'[Len(wire) + 1] = m
  BY <1>1, <1>2
<1>4. \A n \in DOMAIN wire' : wire'[n] = m \/ (n \in DOMAIN wire /\ wire'[n] = wire[n])
  BY <1>3
<1>5. \A n \in DOMAIN wire : n \in DOMAIN wire' /\ wire'[n] = wire[n]
  BY <1>3
<1>6. \E n \in DOMAIN wire' : wire'[n] = m
  BY <1>3
<1>7. ASSUME NEW k, NEW o
      PROVE  Answer_(k, o)' <=> Answer_(k, o) \/ (k = kind /\ o = i)
  BY <1>2, <1>4, <1>5, <1>6 DEF Answer_
<1>8. QED  BY <1>4, <1>7 DEF m

TurnsGoOn ==
  \A k \in Ids : /\ turn[k] = "ended" => turn'[k] = "ended"
                 /\ turn[k] # "none" => turn'[k] # "none"

LEMMA OldNewsTells ==
  ASSUME SupervisorInv, TurnsInv, TurnsGoOn, NEW n \in DOMAIN wire', NEW l \in DOMAIN wire,
         wire'[n] = wire[l], wire[l].kind \in Emits
  PROVE  Tells(wire[n])'
<1>1. wire[l].turn \in Ids /\ Tells(wire[l])
  BY KnownIds DEF SupervisorInv, Fits, WireFits, TurnsInv
<1>2. QED  BY <1>1 DEF Tells, TurnsGoOn

LEMMA StillTells ==
  ASSUME SupervisorInv, TurnsInv, TurnsGoOn, UNCHANGED wire
  PROVE  \A n \in DOMAIN wire' : wire'[n].kind \in Emits => Tells(wire[n])'
  BY OldNewsTells

LEMMA PushTells ==
  ASSUME SupervisorInv, TurnsInv, TurnsGoOn, NEW kind, NEW i \in Ids, Push(kind, i),
         kind \in Emits \ {"approval"} => turn'[i] = "ended",
         kind = "approval" => turn'[i] # "none"
  PROVE  \A n \in DOMAIN wire' : wire'[n].kind \in Emits => Tells(wire[n])'
<1>1. SUFFICES ASSUME NEW n \in DOMAIN wire', wire'[n].kind \in Emits
               PROVE  Tells(wire[n])'
  OBVIOUS
<1>2. CASE wire'[n] = [kind |-> kind, turn |-> i]
  BY <1>2 DEF Tells
<1>3. CASE \E l \in DOMAIN wire : wire'[n] = wire[l]
  <2>1. PICK l \in DOMAIN wire : wire'[n] = wire[l]
    BY <1>3
  <2>2. QED  BY <1>1, <2>1, OldNewsTells
<1>4. QED  BY <1>2, <1>3, PushIs

(* A turn that exists goes on.                                              *)
LEMMA TurnGoesOn ==
  ASSUME SupervisorInv, TurnsInv, UNCHANGED <<queueVars, engineVars>>, server' => server,
         \A k \in Ids : SameAsks(k), NEW i \in Ids, i \in Live,
         NEW state \in {"asking", "answered", "ended"}, turn' = [turn EXCEPT ![i] = state],
         \/ UNCHANGED wire
         \/ \E kind \in Emits \cup {"resolved"} :
              /\ Push(kind, i)
              /\ state = "ended" \/ kind \in {"approval", "resolved"}
  PROVE  TurnsInv'
<1>1. /\ turn[i] # "none" /\ turn[i] # "ended" /\ turn'[i] = state /\ state # "none"
      /\ \A k \in Ids : k # i => turn'[k] = turn[k]
  BY DEF Live, SupervisorInv, Fits, TurnsFit
<1>2. TurnsGoOn /\ (\A k \in Ids : k \in Live' => k \in Live)
  BY <1>1 DEF TurnsGoOn, Live
<1>3. \A n \in DOMAIN wire' : wire'[n].kind \in Emits => Tells(wire[n])'
  <2>1. "resolved" \notin Emits
    BY EmitsAssumption
  <2>2. QED  BY <1>1, <1>2, <2>1, StillTells, PushTells
<1>4. \A kind \in {"threadOk", "startNo"}, k \in Ids : Answer_(kind, k)' => Answer_(kind, k)
  <2>1. {"threadOk", "startNo"} \cap (Emits \cup {"resolved"}) = {}
    BY EmitsAssumption
  <2>2. UNCHANGED wire => \A kind, k : Answer_(kind, k)' => Answer_(kind, k)
    BY DEF Answer_
  <2>3. QED  BY <2>1, <2>2, PushIs
<1>5. ASSUME NEW k \in Ids
      PROVE  Served(k)
  <2>1. Asked("turn", k) => turn[k] = "none"
    BY DEF TurnsInv, TurnHolds
  <2>2. Asked("turn", k) => k # i
    BY <1>1, <2>1
  <2>3. turn'[k] # turn[k] => turn[k] # "none"
    BY <1>1
  <2>4. QED  BY <1>1, <1>2, <1>4, <2>2, <2>3 DEF Served, SameAsks, TurnsGoOn
<1>6. QED  BY <1>3, <1>5, ServerStep

(* A request of call i is served, a turn begun by it or not.                *)
LEMMA RequestServed ==
  ASSUME SupervisorInv, TurnsInv, UNCHANGED <<queueVars, engineVars>>, server' => server,
         NEW i \in Ids, \A k \in Ids : k # i => SameAsks(k) /\ turn'[k] = turn[k],
         turn'[i] = turn[i] \/ Asked("turn", i),
         \/ UNCHANGED wire
         \/ \E kind \in {"threadOk", "turnOk", "startNo"} : Push(kind, i),
         Served(i)
  PROVE  TurnsInv'
<1>1. TurnsGoOn
  BY DEF TurnsGoOn, Served
<1>2. \A n \in DOMAIN wire' : wire'[n].kind \in Emits => Tells(wire[n])'
  <2>1. {"threadOk", "turnOk", "startNo"} \cap (Emits \cup {"approval"}) = {}
    BY EmitsAssumption
  <2>2. QED  BY <1>1, <2>1, StillTells, PushTells
<1>3. \A kind, k : k # i => (Answer_(kind, k)' => Answer_(kind, k))
  <2>1. UNCHANGED wire => \A kind, k : Answer_(kind, k)' => Answer_(kind, k)
    BY DEF Answer_
  <2>2. QED  BY <2>1, PushIs
<1>4. ASSUME NEW k \in Ids, k # i
      PROVE  Served(k)
  BY <1>3, <1>4 DEF Served, SameAsks, Live
<1>5. QED  BY <1>2, <1>4, ServerStep

LEMMA ServeThreadHolds ==
  ASSUME SupervisorInv, TurnsInv, UNCHANGED <<queueVars, engineVars, server>>,
         NEW i \in Ids, ServeThread(i)
  PROVE  TurnsInv'
<1>1. /\ Asked("thread", i) /\ inbox' = inbox \ {<<"thread", i, i>>} /\ UNCHANGED turn
      /\ Push("threadOk", i) \/ Push("startNo", i)
  BY DEF ServeThread, Asked
<1>2. /\ ~Asked("thread", i)' /\ (Asked("turn", i)' <=> Asked("turn", i))
      /\ \A k \in Ids : k # i => SameAsks(k)
  BY <1>1 DEF Asked, SameAsks
<1>3. \/ Answer_("threadOk", i)' => Answer_("threadOk", i)
      \/ Answer_("startNo", i)' => Answer_("startNo", i)
  BY <1>1, PushIs
<1>4. Served(i)
  BY <1>1, <1>2, <1>3 DEF Served, Live
<1>5. QED  BY <1>1, <1>2, <1>4, RequestServed

LEMMA ServeTurnHolds ==
  ASSUME SupervisorInv, TurnsInv, UNCHANGED <<queueVars, engineVars, server>>,
         NEW i \in Ids, ServeTurn(i)
  PROVE  TurnsInv'
<1>1. Asked("turn", i) /\ turn[i] = "none"
  BY DEF ServeTurn, Asked, TurnsInv, TurnHolds
<1>2. CASE /\ inbox' = (inbox \ {<<"turn", i, i>>}) \cup {<<"reply", i, i>>}
           /\ turn' = [turn EXCEPT ![i] = "live"] /\ UNCHANGED wire
  <2>1. /\ ~Asked("turn", i)' /\ (Asked("thread", i)' <=> Asked("thread", i))
        /\ \A k \in Ids : k # i => SameAsks(k)
    BY <1>2 DEF Asked, SameAsks
  <2>2. turn'[i] = "live" /\ \A k \in Ids : k # i => turn'[k] = turn[k]
    BY <1>2 DEF SupervisorInv, Fits, TurnsFit
  <2>3. \A kind : Answer_(kind, i)' <=> Answer_(kind, i)
    BY <1>2 DEF Answer_
  <2>4. Served(i)
    BY <1>1, <2>1, <2>2, <2>3 DEF Served
  <2>5. QED  BY <1>1, <1>2, <2>1, <2>2, <2>4, RequestServed
<1>3. CASE /\ inbox' = inbox \ {<<"turn", i, i>>} /\ Push("startNo", i) /\ UNCHANGED turn
  <2>1. /\ ~Asked("turn", i)' /\ (Asked("thread", i)' <=> Asked("thread", i))
        /\ \A k \in Ids : k # i => SameAsks(k)
    BY <1>3 DEF Asked, SameAsks
  <2>2. Answer_("threadOk", i)' => Answer_("threadOk", i)
    BY <1>3, PushIs
  <2>3. Served(i)
    BY <1>1, <1>3, <2>1, <2>2 DEF Served, Live
  <2>4. QED  BY <1>3, <2>1, <2>3, RequestServed
<1>4. QED  BY <1>2, <1>3 DEF ServeTurn

(* What is answered is of no matter to a start.                             *)
LEMMA OtherServed ==
  ASSUME SupervisorInv, TurnsInv, UNCHANGED <<queueVars, engineVars, server>>, UNCHANGED turn,
         \A k \in Ids : SameAsks(k), NEW i \in Ids,
         UNCHANGED wire \/ \E kind \in {"turnOk", "stopOk", "stopNo"} : Push(kind, i)
  PROVE  TurnsInv'
<1>1. TurnsGoOn
  BY DEF TurnsGoOn
<1>2. \A n \in DOMAIN wire' : wire'[n].kind \in Emits => Tells(wire[n])'
  <2>1. {"turnOk", "stopOk", "stopNo"} \cap (Emits \cup {"approval"}) = {}
    BY EmitsAssumption
  <2>2. QED  BY <1>1, <2>1, StillTells, PushTells
<1>3. \A kind \in {"threadOk", "startNo"} : \A k : Answer_(kind, k)' => Answer_(kind, k)
  <2>1. UNCHANGED wire => \A kind, k : Answer_(kind, k)' => Answer_(kind, k)
    BY DEF Answer_
  <2>2. {"turnOk", "stopOk", "stopNo"} \cap {"threadOk", "startNo"} = {}
    OBVIOUS
  <2>3. QED  BY <2>1, <2>2, PushIs
<1>4. \A k \in Ids : Served(k)
  BY <1>3 DEF Served, SameAsks, Live
<1>5. QED  BY <1>2, <1>4, ServerStep

LEMMA ServedHolds ==
  ASSUME SupervisorInv, TurnsInv, UNCHANGED <<queueVars, engineVars>>, Serves \/ MayServe
  PROVE  TurnsInv'
<1>1. UNCHANGED <<queueVars, engineVars, server>>
  BY DEF Serves, MayServe
<1>2. UNCHANGED inbox => \A k \in Ids : SameAsks(k)
  BY DEF SameAsks, Asked
<1>3. ASSUME NEW i \in Ids, ReplyTurn(i)
      PROVE  TurnsInv'
  <2>1. \A k \in Ids : SameAsks(k)
    BY <1>3 DEF ReplyTurn, SameAsks, Asked
  <2>2. QED  BY <1>1, <1>3, <2>1, OtherServed DEF ReplyTurn
<1>4. ASSUME NEW i \in Ids, EndTurn(i)
      PROVE  TurnsInv'
  <2>1. PICK kind \in Emits \ {"approval"} : Push(kind, i)
    BY <1>4 DEF EndTurn
  <2>2. QED  BY <1>1, <1>2, <1>4, <2>1, TurnGoesOn DEF EndTurn
<1>5. ASSUME NEW i \in Ids, Ask(i)
      PROVE  TurnsInv'
  <2>1. i \in Live
    BY <1>5 DEF Ask, Live
  <2>2. QED  BY <1>1, <1>2, <1>5, <2>1, TurnGoesOn DEF Ask
<1>6. ASSUME NEW message \in inbox, Answered(message)
      PROVE  TurnsInv'
  <2>1. PICK i : i = message[3]
    OBVIOUS
  <2>2. i \in Ids
    BY <1>6, <2>1, KnownIds DEF Answered, SupervisorInv, Fits, InboxFits
  <2>3. \A k \in Ids : SameAsks(k)
    BY <1>6 DEF Answered, SameAsks, Asked
  <2>4. CASE turn[i] = "asking"
    <3>1. i \in Live /\ turn' = [turn EXCEPT ![i] = "answered"] /\ Push("resolved", i)
      BY <1>6, <2>1, <2>2, <2>4 DEF Answered, Live
    <3>2. QED  BY <1>1, <2>2, <2>3, <3>1, TurnGoesOn
  <2>5. CASE turn[i] # "asking"
    BY <1>1, <1>6, <2>1, <2>2, <2>3, <2>5, OtherServed DEF Answered
  <2>6. QED  BY <2>4, <2>5
<1>7. ASSUME NEW message \in inbox, ServeInterrupt(message)
      PROVE  TurnsInv'
  <2>1. PICK i : i = message[2]
    OBVIOUS
  <2>2. i \in Ids
    BY <1>7, <2>1, KnownIds DEF ServeInterrupt, SupervisorInv, Fits, InboxFits
  <2>3. \A k \in Ids : SameAsks(k)
    BY <1>7 DEF ServeInterrupt, SameAsks, Asked
  <2>4. UNCHANGED turn /\ \E kind \in {"turnOk", "stopOk", "stopNo"} : Push(kind, i)
    BY <1>7, <2>1 DEF ServeInterrupt
  <2>5. QED  BY <1>1, <2>2, <2>3, <2>4, OtherServed
<1>8. QED
  BY <1>1, <1>3, <1>4, <1>5, <1>6, <1>7, ServeThreadHolds, ServeTurnHolds DEF Serves, MayServe

(* The ends of either process: what may still begin had been asked for.     *)
LEMMA ServerDiesHolds ==
  ASSUME SupervisorInv, TurnsInv, UNCHANGED <<queueVars, engineVars>>, ServerDies
  PROVE  TurnsInv'
<1>1. /\ Disappears /\ UNCHANGED wire /\ server' = FALSE /\ inbox' = {}
      /\ \A method, k : ~Asked(method, k)'
  BY DEF ServerDies, Disappears, Asked
<1>2. PICK begun \in SUBSET {i \in Ids : <<"turn", i, i>> \in inbox} :
        turn' = [i \in Ids |-> IF i \in begun THEN "live" ELSE turn[i]]
  BY <1>1 DEF Disappears
<1>3. \A k \in Ids : \/ turn'[k] = turn[k]
                     \/ turn'[k] = "live" /\ Asked("turn", k) /\ turn[k] = "none"
  <2>1. \A k \in begun : Asked("turn", k)
    BY <1>2 DEF Asked
  <2>2. QED  BY <1>2, <2>1 DEF TurnsInv, TurnHolds
<1>4. TurnsGoOn
  BY <1>3 DEF TurnsGoOn
<1>5. \A kind, k : Answer_(kind, k)' <=> Answer_(kind, k)
  BY <1>1 DEF Answer_
<1>6. ASSUME NEW k \in Ids
      PROVE  Served(k)
  BY <1>1, <1>3, <1>5 DEF Served, Live
<1>7. QED  BY <1>1, <1>4, <1>6, StillTells, ServerStep

LEMMA TurnStopsHolds ==
  ASSUME SupervisorInv, TurnsInv, UNCHANGED <<queueVars, engineVars>>,
         NEW i \in Ids, TurnStops(i)
  PROVE  TurnsInv'
<1>1. /\ UNCHANGED server /\ UNCHANGED wire /\ i \in Live /\ turn' = [turn EXCEPT ![i] = "ended"]
      /\ \A k \in Ids : SameAsks(k)
  BY DEF TurnStops, SameAsks, Asked
<1>2. QED  BY <1>1, TurnGoesOn

(* New threads know of nothing.                                             *)
LEMMA NewThreadsHold ==
  ASSUME NEW place, ThreadsEnd(place), inbox' = {}, engine'.early = {},
         \A i \in Ids : i \in Live' => i \in Active(disk')
  PROVE  TurnsInv'
<1>1. /\ wire' = <<>> /\ \A i \in Ids : stopper'[i].at = "idle"
      /\ task' = [x \in TaskIds |-> Rest("idle")]
  BY DEF ThreadsEnd, Stopper, TaskIds
<1>2. \A method, i : ~Asked(method, i)'
  BY DEF Asked
<1>3. "idle" \notin Pre \cup WithMessage \cup {"save new", "attach", "disconnect", "sweep", "dead"}
  BY DEF Pre, WithMessage, WithJob
<1>4. ASSUME NEW x \in TaskIds
      PROVE  ThreadFits(x)'
  <2>1. task'[x].at = "idle"
    BY <1>1 DEF Rest
  <2>2. StartFits(x)'
    BY <1>3, <2>1 DEF StartFits, AnswersFit
  <2>3. QED  BY <1>3, <2>1, <2>2 DEF ThreadFits
<1>5. QED  BY <1>1, <1>2, <1>4 DEF TurnsInv, TurnHolds

LEMMA CrashHolds ==
  ASSUME SupervisorInv, TurnsInv, SupervisorCrash
  PROVE  TurnsInv'
<1>1. /\ disk' = disk /\ ThreadsEnd("stopped") /\ Disappears /\ inbox' = {}
      /\ engine' = [FreshEngine(Empty) EXCEPT !.ready = FALSE, !.closed = TRUE]
  BY DEF SupervisorCrash, Crash, memory, Disappears
<1>2. engine'.early = {}
  <2>1. OwnNames(Empty)
    BY DEF OwnNames, Empty
  <2>2. QED  BY <1>1, <2>1, FreshEngineFits, ClosedEngineFits
<1>3. PICK begun \in SUBSET {i \in Ids : <<"turn", i, i>> \in inbox} :
        turn' = [i \in Ids |-> IF i \in begun THEN "live" ELSE turn[i]]
  BY <1>1 DEF Disappears
<1>4. \A i \in Ids : i \in Live' => i \in Active(disk')
  <2>1. \A i \in begun : Asked("turn", i)
    BY <1>3 DEF Asked
  <2>2. \A i \in Ids : i \in Live' => i \in Live \/ i \in begun
    BY <1>3 DEF Live
  <2>3. QED  BY <1>1, <2>1, <2>2 DEF TurnsInv, TurnHolds
<1>5. QED  BY <1>1, <1>2, <1>4, NewThreadsHold

LEMMA RestartHolds ==
  ASSUME SupervisorInv, TurnsInv, SupervisorRestart
  PROVE  TurnsInv'
<1>1. PICK max_running \in Limits : RestartOver(Restart(max_running))
  BY DEF SupervisorRestart
<1>2. /\ Restart(max_running) /\ ThreadsEnd("top") /\ engine' = FreshEngine(data')
      /\ inbox' = {} /\ UNCHANGED turn
  BY <1>1 DEF RestartOver
<1>3. engine'.early = {}
  BY <1>2 DEF FreshEngine
<1>4. Active(disk) \subseteq Active(disk')
  <2>1. /\ DOMAIN disk'.jobs = DOMAIN disk.jobs
        /\ \A k \in DOMAIN disk.jobs :
             SameStatus(k) \/ (k \in Active(disk) /\ disk'.jobs[k].status = "unknown")
    BY <1>2, RestartTouches DEF SupervisorInv, SpoolInv
  <2>2. QED  BY <2>1 DEF SameStatus, Active, OCCUPIED
<1>5. \A i \in Ids : i \in Live' => i \in Active(disk')
  BY <1>2, <1>4 DEF TurnsInv, TurnHolds, Live
<1>6. QED  BY <1>2, <1>3, <1>5, NewThreadsHold

LEMMA TurnsStay ==
  ASSUME SupervisorInv, TurnsInv, Named = {}, [SupervisorNext]_vars
  PROVE  TurnsInv'
<1>1. CASE UNCHANGED vars
  <2>1. /\ UNCHANGED <<queueVars, engineVars, server>> /\ UNCHANGED <<queueVars, engineVars>>
        /\ UNCHANGED turn /\ UNCHANGED wire /\ server' = server
        /\ \A k \in Ids : SameAsks(k)
    BY <1>1 DEF vars, serverVars, SameAsks, Asked
  <2>2. \A k \in Ids : Served(k)
    BY <2>1 DEF Served, SameAsks, Live, Answer_
  <2>3. TurnsGoOn
    BY <2>1 DEF TurnsGoOn
  <2>4. QED  BY <2>1, <2>2, <2>3, StillTells, ServerStep
<1>2. CASE (Serves \/ MayServe \/ (up /\ ServerDies) \/ \E i \in Ids : TurnStops(i))
           /\ UNCHANGED <<queueVars, engineVars>>
  BY <1>2, ServedHolds, ServerDiesHolds, TurnStopsHolds
<1>3. QED
  BY <1>1, <1>2, DispatchHolds, StarterHolds, ReaderHolds, OwnerHolds, StopsHold, CrashHolds,
     RestartHolds DEF SupervisorNext

LEMMA TurnsStart ==
  ASSUME SupervisorInit
  PROVE  TurnsInv
<1>1. /\ turn = [i \in Ids |-> "none"] /\ inbox = {} /\ wire = <<>>
      /\ task = [x \in TaskIds |-> Rest("idle")] /\ stopper = [i \in Ids |-> Stopper("idle")]
      /\ engine = FreshEngine(data)
  BY DEF SupervisorInit, AppServerInit, TaskIds
<1>2. \A method, i : ~Asked(method, i)
  BY <1>1 DEF Asked
<1>3. "idle" \notin Pre \cup WithMessage \cup {"save new", "attach", "disconnect", "sweep", "dead"}
  BY DEF Pre, WithMessage, WithJob
<1>4. ASSUME NEW x \in TaskIds
      PROVE  ThreadFits(x)
  <2>1. task[x].at = "idle"
    BY <1>1 DEF Rest
  <2>2. StartFits(x)
    BY <1>3, <2>1 DEF StartFits, AnswersFit
  <2>3. QED  BY <1>3, <2>1, <2>2 DEF ThreadFits
<1>5. \A i \in Ids : TurnHolds(i)
  BY <1>1, <1>2 DEF TurnHolds, Live
<1>6. engine.early = {} /\ \A i \in Ids : stopper[i].at = "idle"
  BY <1>1 DEF FreshEngine, Stopper
<1>7. QED  BY <1>1, <1>4, <1>5, <1>6 DEF TurnsInv

(* No more turns run in the app-server than the journal has slots for, and  *)
(* each in a slot of its own: a turn that was asked for, or runs, is never  *)
(* that of a job whose slot the queue may give away, whatever timed out,    *)
(* crashed or came late.  So CapacityRespected and ActiveAreCompatible,     *)
(* which SlotsAlwaysSound shows of the journal, hold of the turns.          *)
THEOREM TurnsAlwaysHoldSlots ==
  ASSUME Named = {}
  PROVE  SupervisorSpec => []TurnsHoldSlots
<1>1. SupervisorInit => SupervisorInv /\ TurnsInv
  BY InvariantStarts, TurnsStart
<1>2. SupervisorInv /\ TurnsInv /\ [SupervisorNext]_vars => SupervisorInv' /\ TurnsInv'
  BY InvariantStays, TurnsStay
<1>3. TurnsInv => TurnsHoldSlots
  BY DEF TurnsInv, TurnHolds, TurnsHoldSlots, Asked
<1>4. QED  BY <1>1, <1>2, <1>3, PTL DEF SupervisorSpec

(* In the app-server itself there are never more turns than the greatest    *)
(* --max-running, and no two of them touch the same directories: what the   *)
(* slots promise of the journal is true of the processes that do the work.  *)
TurnsFitTheSlots ==
  /\ Cardinality(Live) <= MaxCapacity
  /\ \A i, k \in Live : i # k => ~Conflict(disk.jobs[i], disk.jobs[k])

THEOREM TurnsAlwaysFitTheSlots ==
  ASSUME Named = {}
  PROVE  SupervisorSpec => []TurnsFitTheSlots
<1>1. SupervisorInit => SupervisorInv
  BY InvariantStarts
<1>2. SupervisorInv /\ [SupervisorNext]_vars => SupervisorInv'
  BY InvariantStays
<1>3. ASSUME SupervisorInv, TurnsHoldSlots, SlotsAreSound
      PROVE  TurnsFitTheSlots
  <2>1. Live \subseteq Active(disk)
    BY <1>3 DEF TurnsHoldSlots, Live
  <2>2. IsFiniteSet(Active(disk)) /\ Cardinality(Active(disk)) \in Nat
    BY <1>3, ActiveFinite DEF SupervisorInv, SpoolInv, Aligned
  <2>3. Cardinality(Live) \in Nat /\ Cardinality(Live) <= Cardinality(Active(disk))
    BY <2>1, <2>2, FS_Subset, FS_CardinalityType
  <2>4. Cardinality(Active(disk)) <= MaxCapacity /\ MaxCapacity \in Nat
    BY <1>3, LimitsAssumption DEF SlotsAreSound, CapacityRespected
  <2>5. \A i, k \in Live : i # k => ~Conflict(disk.jobs[i], disk.jobs[k])
    BY <1>3, <2>1 DEF SlotsAreSound, ActiveAreCompatible
  <2>6. QED  BY <2>2, <2>3, <2>4, <2>5 DEF TurnsFitTheSlots
<1>4. SupervisorSpec => []SlotsAreSound
  BY SupervisorKeepsSpec, SlotsAlwaysSound, PTL
<1>5. QED
  BY <1>1, <1>2, <1>3, <1>4, TurnsAlwaysHoldSlots, PTL DEF SupervisorSpec

-----------------------------------------------------------------------------
(* The approvals.  What the calls of the supervisor do to the requests that *)
(* wait: all but EventApproval and EventResolved leave them, or drop them   *)
(* with the wait.                                                           *)
KeepsPending(k) ==
  \/ disk'.jobs[k].pending = disk.jobs[k].pending
  \/ /\ disk'.jobs[k].pending = {}
     /\ disk'.jobs[k].status \in {"unknown"} \cup TERMINAL

PendingRests ==
  /\ \A k \in DOMAIN disk.jobs : k \in DOMAIN disk'.jobs /\ KeepsPending(k)
  /\ \A k \in DOMAIN disk'.jobs : k \in DOMAIN disk.jobs \/ disk'.jobs[k].pending = {}

QuietReporting(i) ==
  \/ AttachThread(i, ThreadOf(i)) \/ AttachTurn(i, i)
  \/ EventComplete(i, "failed") \/ EventComplete(i, "completed") \/ EventUnknown(i)

QuietCall ==
  \/ UNCHANGED memory \/ Claiming \/ Owning
  \/ \E i \in Known : QuietReporting(i)

LEMMA EditRests ==
  ASSUME Aligned, NEW i \in DOMAIN data.jobs, NEW job \in Job, NEW n,
         n = [data EXCEPT !.jobs[i] = job], Commit(n) \/ UNCHANGED memory,
         \/ job.pending = data.jobs[i].pending
         \/ job.pending = {} /\ job.status \in {"unknown"} \cup TERMINAL
  PROVE  PendingRests
<1>1. Touches(i) /\ disk'.jobs[i] \in {disk.jobs[i], job} /\ data = disk
  BY EditTouches DEF Aligned
<1>2. KeepsPending(i)
  BY <1>1 DEF KeepsPending
<1>3. QED  BY <1>1, <1>2 DEF PendingRests, KeepsPending, Touches

LEMMA ReportRests ==
  ASSUME Aligned, NEW i \in DOMAIN data.jobs, i \in Threads, i \in Turns,
         ThreadOf(i) = i, QuietReporting(i)
  PROVE  PendingRests
<1> DEFINE job == data.jobs[i]
<1>1. data \in Image /\ job \in Job
  BY ImageParts DEF Aligned
<1>2. CASE AttachThread(i, ThreadOf(i))
  <2> DEFINE new == [job EXCEPT !.thread = i]
  <2>1. [data EXCEPT !.jobs[i].thread = i] = [data EXCEPT !.jobs[i] = new]
    BY <1>1 DEF Image, Job
  <2>2. new \in Job /\ new.pending = job.pending
    BY <1>1 DEF Job
  <2> HIDE DEF new
  <2>3. QED  BY <1>2, <2>1, <2>2, EditRests DEF AttachThread
<1>3. CASE AttachTurn(i, i)
  <2> DEFINE new == [job EXCEPT !.turn = i, !.status = IF @ = "starting" THEN "running" ELSE @]
  <2>1. [data EXCEPT !.jobs[i].turn = i,
                     !.jobs[i].status = IF @ = "starting" THEN "running" ELSE @]
          = [data EXCEPT !.jobs[i] = new]
    BY <1>1 DEF Image, Job
  <2>2. new \in Job /\ new.pending = job.pending
    BY <1>1 DEF Job, OCCUPIED
  <2> HIDE DEF new
  <2>3. QED  BY <1>3, <2>1, <2>2, EditRests DEF AttachTurn
<1>4. ASSUME NEW status \in {"unknown"} \cup TERMINAL,
             Event(i, [data EXCEPT !.jobs[i].status = status, !.jobs[i].pending = {}])
      PROVE  PendingRests
  <2> DEFINE new == [job EXCEPT !.status = status, !.pending = {}]
  <2>1. [data EXCEPT !.jobs[i].status = status, !.jobs[i].pending = {}]
          = [data EXCEPT !.jobs[i] = new]
    BY <1>1 DEF Image, Job
  <2>2. new \in Job /\ new.pending = {} /\ new.status = status
    BY <1>1 DEF Job, OCCUPIED
  <2> HIDE DEF new
  <2>3. QED  BY <1>4, <2>1, <2>2, EditRests DEF Event
<1>5. CASE EventComplete(i, "failed")
  BY <1>4, <1>5 DEF EventComplete, TERMINAL
<1>6. CASE EventComplete(i, "completed")
  BY <1>4, <1>6 DEF EventComplete, TERMINAL
<1>7. CASE EventUnknown(i)
  BY <1>4, <1>7 DEF EventUnknown
<1>8. QED  BY <1>2, <1>3, <1>5, <1>6, <1>7 DEF QuietReporting

LEMMA CancelRests ==
  ASSUME Aligned, NEW i \in DOMAIN data.jobs, Cancel(i)
  PROVE  PendingRests
<1> DEFINE job == data.jobs[i]
           status == CASE job.status = "queued" -> "cancelled"
                       [] job.status \in {"running", "waiting_approval"} -> "cancelling"
                       [] OTHER -> job.status
           new == [job EXCEPT !.status = status]
<1>1. data \in Image /\ job \in Job
  BY ImageParts DEF Aligned
<1>2. [data EXCEPT !.jobs[i].status =
         CASE @ = "queued" -> "cancelled"
           [] @ \in {"running", "waiting_approval"} -> "cancelling"
           [] OTHER -> @] = [data EXCEPT !.jobs[i] = new]
  BY <1>1 DEF Image, Job
<1>3. status \in Status
  <2>1. CASE job.status = "queued"
    BY <2>1 DEF Status, TERMINAL
  <2>2. CASE job.status \in {"running", "waiting_approval"}
    BY <2>2 DEF Status, OCCUPIED
  <2>3. CASE job.status \notin {"queued", "running", "waiting_approval"}
    BY <1>1, <2>3 DEF Job, Status
  <2>4. QED  BY <2>1, <2>2, <2>3
<1> HIDE DEF status
<1>4. new \in Job /\ new.pending = job.pending
  BY <1>1, <1>3 DEF Job, Status
<1>5. Commit([data EXCEPT !.jobs[i] = new])
  BY <1>2 DEF Cancel
<1> HIDE DEF new
<1>6. QED  BY <1>4, <1>5, EditRests

LEMMA ConfirmRests ==
  ASSUME Aligned, NEW i \in DOMAIN data.jobs, ConfirmStopped(i)
  PROVE  PendingRests
<1> DEFINE job == data.jobs[i]
           new == [job EXCEPT !.status = "interrupted"]
<1>1. data \in Image /\ job \in Job
  BY ImageParts DEF Aligned
<1>2. [data EXCEPT !.jobs[i].status = "interrupted"] = [data EXCEPT !.jobs[i] = new]
  BY <1>1 DEF Image, Job
<1>3. new \in Job /\ new.pending = job.pending
  BY <1>1 DEF Job, TERMINAL
<1>4. Commit([data EXCEPT !.jobs[i] = new])
  BY <1>2 DEF ConfirmStopped
<1> HIDE DEF new
<1>5. QED  BY <1>3, <1>4, EditRests

LEMMA SubmitRests ==
  ASSUME Aligned, NEW key \in Keys, NEW dir \in Dirs, Submit(key, dir, None)
  PROVE  PendingRests
<1> DEFINE n == [data EXCEPT !.jobs = Append(@, NewJob(key, dir, None))]
<1>1. data \in Image /\ data = disk
  BY DEF Aligned
<1>2. NewJob(key, dir, None) \in Job /\ NewJob(key, dir, None).pending = {}
  BY DEF NewJob, Job
<1>3. /\ DOMAIN n.jobs = DOMAIN data.jobs \cup {Len(data.jobs) + 1}
      /\ \A i \in DOMAIN data.jobs : n.jobs[i] = data.jobs[i]
      /\ n.jobs[Len(data.jobs) + 1] = NewJob(key, dir, None)
  BY <1>1, <1>2, AppendTyped
<1>4. disk' = disk \/ disk' = n
  BY DEF Submit, Commit, WriteOk, WriteFails
<1> HIDE DEF n
<1>5. CASE disk' = disk
  BY <1>5 DEF PendingRests, KeepsPending
<1>6. CASE disk' = n
  BY <1>1, <1>2, <1>3, <1>6 DEF PendingRests, KeepsPending
<1>7. QED  BY <1>4, <1>5, <1>6

LEMMA MarkRests ==
  ASSUME Aligned, NEW S, NEW status \in Status, disk' = Mark(data, S, status)
  PROVE  PendingRests
<1>1. data \in Image /\ data = disk
  BY DEF Aligned
<1>2. /\ DOMAIN disk'.jobs = DOMAIN disk.jobs
      /\ \A i \in DOMAIN disk.jobs :
           disk'.jobs[i] = IF i \in S THEN [disk.jobs[i] EXCEPT !.status = status]
                                      ELSE disk.jobs[i]
  BY <1>1, MarkTyped
<1>3. \A job \in Job : [job EXCEPT !.status = status].pending = job.pending
  BY DEF Job
<1>4. \A i \in DOMAIN disk.jobs : disk'.jobs[i].pending = disk.jobs[i].pending
  BY <1>1, <1>2, <1>3, ImageParts
<1>5. QED  BY <1>2, <1>4 DEF PendingRests, KeepsPending

LEMMA ClaimRests ==
  ASSUME Aligned, Claiming
  PROVE  PendingRests
<1>1. data \in Image /\ data = disk
  BY DEF Aligned
<1>2. "failed" \in Status /\ "starting" \in Status
  BY DEF Status, OCCUPIED, TERMINAL
<1>3. \A job \in Job : /\ [job EXCEPT !.status = "failed"].pending = job.pending
                      /\ [job EXCEPT !.status = "starting"].pending = job.pending
  BY DEF Job
<1>4. ASSUME NEW i \in DOMAIN data.jobs, ClaimReturns(i, {})
      PROVE  PendingRests
  <2> DEFINE q == Mark(data, Dropped({}), "failed")
             n == Mark(q, {i}, "starting")
  <2>1. disk' = n
    BY <1>4 DEF ClaimReturns, WriteOk
  <2>2. /\ q \in Image /\ DOMAIN q.jobs = DOMAIN data.jobs
        /\ \A k \in DOMAIN data.jobs :
             q.jobs[k] = IF k \in Dropped({}) THEN [data.jobs[k] EXCEPT !.status = "failed"]
                                              ELSE data.jobs[k]
    BY <1>1, <1>2, MarkTyped
  <2> HIDE DEF q
  <2>3. /\ DOMAIN n.jobs = DOMAIN q.jobs
        /\ \A k \in DOMAIN q.jobs :
             n.jobs[k] = IF k \in {i} THEN [q.jobs[k] EXCEPT !.status = "starting"]
                                      ELSE q.jobs[k]
    BY <1>2, <2>2, MarkTyped
  <2> HIDE DEF n
  <2>4. \A k \in DOMAIN data.jobs : data.jobs[k] \in Job /\ q.jobs[k] \in Job
    BY <1>1, <2>2, ImageParts
  <2>5. \A k \in DOMAIN data.jobs : q.jobs[k].pending = data.jobs[k].pending
    BY <1>3, <2>2, <2>4
  <2>6. \A k \in DOMAIN data.jobs : n.jobs[k].pending = q.jobs[k].pending
    BY <1>3, <2>2, <2>3, <2>4
  <2>7. QED  BY <1>1, <2>1, <2>2, <2>3, <2>5, <2>6 DEF PendingRests, KeepsPending
<1>5. CASE ClaimReturnsNothing({})
  <2>1. disk' = disk \/ disk' = Mark(data, Dropped({}), "failed")
    BY <1>5 DEF ClaimReturnsNothing, memory, WriteOk
  <2>2. disk' = disk => PendingRests
    BY DEF PendingRests, KeepsPending
  <2>3. QED  BY <1>2, <2>1, <2>2, MarkRests
<1>6. CASE ClaimRaises({})
  <2>1. PICK last : disk' = Mark(data, {i \in Dropped({}) : i < last}, "failed")
    BY <1>6 DEF ClaimRaises
  <2>2. QED  BY <1>2, <2>1, MarkRests
<1>7. QED  BY <1>4, <1>5, <1>6 DEF Claiming

LEMMA CallRests ==
  ASSUME SupervisorInv, QuietCall
  PROVE  PendingRests
<1>1. Aligned /\ data = disk
  BY DEF SupervisorInv, SpoolInv, Aligned
<1>2. disk'.jobs = disk.jobs => PendingRests
  BY DEF PendingRests, KeepsPending
<1>3. CASE UNCHANGED memory
  BY <1>2, <1>3 DEF memory
<1>4. CASE Claiming
  BY <1>1, <1>4, ClaimRests
<1>5. CASE Owning
  BY <1>1, <1>2, <1>5, SubmitRests, CancelRests, ConfirmRests, PauseKeepsJobs DEF Owning
<1>6. ASSUME NEW i \in Known, QuietReporting(i)
      PROVE  PendingRests
  <2>1. i \in DOMAIN data.jobs /\ ThreadOf(i) = i /\ i \in Threads /\ i \in Turns
    BY OwnThreads, KnownIds, IdsFacts DEF SupervisorInv
  <2>2. QED  BY <1>1, <1>6, <2>1, ReportRests
<1>7. QED  BY <1>3, <1>4, <1>5, <1>6 DEF QuietCall

(* What a step may do to the slots: none is taken by a job that was handed  *)
(* out before, and a job to verify is never taken for running again.        *)
LEMMA SlotsRest ==
  ASSUME SupervisorInv, QueueStep
  PROVE  \A k \in Known : /\ k \in Active(disk') => k \in Active(disk)
                          /\ k \in Running(disk') => k \in Running(disk)
<1>1. \A k \in DOMAIN disk.jobs : <<disk.jobs[k].status, disk'.jobs[k].status>> \in Moves
  BY QueueStepIsNext, StepMoves DEF SupervisorInv
<1>2. \A s, t : <<s, t>> \in Moves /\ t \in OCCUPIED /\ s # "queued" =>
        s \in OCCUPIED /\ (t # "unknown" => s # "unknown")
  BY DEF Moves, OCCUPIED, TERMINAL
<1>3. QED  BY <1>1, <1>2 DEF Known, Active, Running

LEMMA FailureStays ==
  ASSUME storage_failed, QuietCall
  PROVE  storage_failed'
  BY DEF QuietCall, memory, Claiming, ClaimReturns, ClaimReturnsNothing, ClaimRaises, Owning,
     Submit, Cancel, ConfirmStopped, Pause, QuietReporting, AttachThread, AttachTurn,
     EventComplete, EventUnknown, Event, Commit, WriteOk, WriteFails

-----------------------------------------------------------------------------
(* The inductive invariant of ButtonsWork, beside SupervisorInv.  A         *)
(* process that may still write the journal keeps every request that waits  *)
(* (or is taking it out of the journal), and drops the requests of a job    *)
(* only once it is over.                                                    *)
Trusted == up /\ ~storage_failed
Saved(i) == <<i, i>> \in engine.requests
Over(i) == i \notin Active(disk)

ReaderPlaces == {"save", "save new", "attach", "approve", "resolve", "resolved"}

StarterFits(t) ==
  /\ t.at \notin ReaderPlaces
  /\ t.at = "message" => t.message.kind \in Emits \ {"approval"}

PendingHeld ==
  \A i \in DOMAIN disk.jobs :
    disk.jobs[i].pending # {} => Saved(i) \/ (task[0].at = "resolved" /\ task[0].job = i)
ApprovalSaved ==
  task[0].at \in {"attach", "approve"} => Saved(task[0].job) \/ Over(task[0].job)
ClosingOver == \A x \in TaskIds : task[x].at = "close" => Over(task[x].job)

PendingInv ==
  /\ \A i \in DOMAIN disk.jobs : disk.jobs[i].pending \subseteq {i}
  /\ \A x \in Ids : StarterFits(task[x])
  /\ Trusted => PendingHeld /\ ApprovalSaved /\ ClosingOver

(* The job of a request that waits holds a slot.                            *)
LEMMA PendingActive ==
  ASSUME SupervisorInv, NEW i \in DOMAIN disk.jobs, disk.jobs[i].pending # {}
  PROVE  i \in Active(disk) /\ disk.jobs[i].status \in {"waiting_approval", "cancelling"}
<1>1. PendingFits(disk.jobs[i])
  BY DEF SupervisorInv, SpoolInv, Aligned
<1>2. QED  BY <1>1 DEF PendingFits, Active, OCCUPIED

LEMMA TaskIdsFacts == 0 \in TaskIds /\ Ids \subseteq TaskIds /\ 0 \notin Ids /\ TaskIds = {0} \cup Ids
  BY IdsFacts DEF TaskIds

LEMMA PendingStays ==
  ASSUME SupervisorInv, PendingInv, QueueStep, PendingRests, \A x \in Ids : StarterFits(task'[x]),
         Trusted' =>
           /\ Trusted
           /\ \A i \in Known : Saved(i) => Saved(i)' \/ Over(i)
           /\ task[0].at = "resolved" =>
                task'[0].at = "resolved" /\ task'[0].job = task[0].job
           /\ task'[0].at \in {"attach", "approve"} =>
                \/ task[0].at \in {"attach", "approve"} /\ task'[0].job = task[0].job
                \/ Saved(task[0].job)'
           /\ \A x \in TaskIds : task'[x].at = "close" =>
                \/ task[x].at = "close" /\ task'[x].job = task[x].job
                \/ Over(task[x].job)'
  PROVE  PendingInv'
<1>1. \A k \in Known : Over(k) => Over(k)'
  BY SlotsRest DEF Over
<1>2. \A x \in TaskIds : task[x].at \in {"close", "attach", "approve"} => task[x].job \in Known
  <2>1. {"close", "attach", "approve"} \subseteq WithJob
    BY DEF WithJob
  <2>2. QED  BY <2>1, WithMessageFacts DEF WithMessage
<1>3. \A i \in DOMAIN disk'.jobs :
        disk'.jobs[i].pending # {} =>
          /\ i \in DOMAIN disk.jobs /\ disk'.jobs[i].pending = disk.jobs[i].pending
          /\ i \in Known /\ ~Over(i)
  <2>1. SUFFICES ASSUME NEW i \in DOMAIN disk'.jobs, disk'.jobs[i].pending # {}
                 PROVE  /\ i \in DOMAIN disk.jobs /\ disk'.jobs[i].pending = disk.jobs[i].pending
                        /\ i \in Known /\ ~Over(i)
    OBVIOUS
  <2>2. i \in DOMAIN disk.jobs /\ disk'.jobs[i].pending = disk.jobs[i].pending
    BY <2>1 DEF PendingRests, KeepsPending
  <2>3. QED  BY <2>1, <2>2, PendingActive DEF Known, Over, Active
<1>4. \A i \in DOMAIN disk'.jobs : disk'.jobs[i].pending \subseteq {i}
  <2>1. SUFFICES ASSUME NEW i \in DOMAIN disk'.jobs, disk'.jobs[i].pending # {}
                 PROVE  disk'.jobs[i].pending \subseteq {i}
    OBVIOUS
  <2>2. QED  BY <1>3, <2>1 DEF PendingInv
<1>5. ASSUME Trusted'
      PROVE  PendingHeld' /\ ApprovalSaved' /\ ClosingOver'
  <2>1. PendingHeld /\ ApprovalSaved /\ ClosingOver
    BY <1>5 DEF PendingInv
  <2>2. PendingHeld'
    BY <1>3, <1>5, <2>1 DEF PendingHeld
  <2>3. ApprovalSaved'
    <3>1. SUFFICES ASSUME task'[0].at \in {"attach", "approve"}
                   PROVE  Saved(task[0].job)' \/ Over(task[0].job)'
      BY DEF ApprovalSaved
    <3>2. CASE task[0].at \in {"attach", "approve"} /\ task'[0].job = task[0].job
      <4>1. task[0].job \in Known /\ (Saved(task[0].job) \/ Over(task[0].job))
        BY <1>2, <2>1, <3>2, TaskIdsFacts DEF ApprovalSaved
      <4>2. PICK job \in Known : job = task[0].job
        BY <4>1
      <4>3. Saved(job)' \/ Over(job)'
        BY <1>1, <1>5, <4>1, <4>2
      <4>4. QED  BY <3>2, <4>2, <4>3 DEF Saved, Over
    <3>3. QED  BY <1>5, <3>1, <3>2
  <2>4. ClosingOver'
    <3>1. SUFFICES ASSUME NEW x \in TaskIds, task'[x].at = "close"
                   PROVE  Over(task[x].job)'
      BY DEF ClosingOver
    <3>2. CASE task[x].at = "close" /\ task'[x].job = task[x].job
      <4>1. PICK job \in Known : job = task[x].job /\ Over(job)
        BY <1>2, <2>1, <3>2 DEF ClosingOver
      <4>2. Over(job)'
        BY <1>1, <4>1
      <4>3. QED  BY <3>2, <4>1, <4>2 DEF Over
    <3>3. QED  BY <1>5, <3>1, <3>2
  <2>5. QED  BY <2>2, <2>3, <2>4
<1>6. QED  BY <1>4, <1>5 DEF PendingInv

(* A starter leaves the requests, and what it takes is no approval.         *)
KeepsNews ==
  /\ engine'.requests = engine.requests /\ engine'.closed = engine.closed
  /\ engine'.closed_turns = engine.closed_turns

LEMMA GoesFitsStarter ==
  ASSUME SupervisorInv, NEW x \in TaskIds, NEW place, place \notin WithMessage, Goes(x, place)
  PROVE  /\ StarterFits(task'[x]) /\ task'[x].at = place /\ task'[x].at # "close"
         /\ \A y \in TaskIds : y # x => task'[y] = task[y]
<1>1. /\ task'[x].at = place
      /\ \A y \in TaskIds : y # x => task'[y] = task[y]
  BY GoesIs
<1>2. QED  BY <1>1 DEF StarterFits, ReaderPlaces, WithMessage, WithJob

LEMMA HandlesIs ==
  ASSUME SupervisorInv, NEW x \in TaskIds, NEW m, Handles(x, m)
  PROVE  /\ task'[x].at = "message" /\ task'[x].message = m /\ task'[x].job = 0
         /\ \A y \in TaskIds : y # x => task'[y] = task[y]
<1> DEFINE t == [Rest("message") EXCEPT !.message = m]
<1>1. t.at = "message" /\ t.message = m /\ t.job = 0
  BY DEF Rest
<1> HIDE DEF t
<1>2. task'[x] = t /\ \A y \in TaskIds : y # x => task'[y] = task[y]
  BY DEF Handles, t, SupervisorInv, Fits, TasksFit
<1>3. QED  BY <1>1, <1>2

LEMMA RaisedKeeps ==
  ASSUME SupervisorInv, engine' = engine \/ engine' = [engine EXCEPT !.ready = FALSE]
  PROVE  KeepsNews
  BY DEF SupervisorInv, Fits, EngineFits, KeepsNews

LEMMA StartersKnown ==
  ASSUME SupervisorInv, NEW i \in Ids, Start(i) \/ StartTimeout(i)
  PROVE  i \in Known
<1>1. task[i].at # "idle"
  BY DEF Start, StartTimeout, StartCheck, StartSend, StartAttach, StartPopEarly,
     StartExcepts, At
<1>2. i \in TaskIds /\ i # 0
  BY TaskIdsFacts
<1>3. QED  BY <1>1, <1>2 DEF SupervisorInv, Fits, TasksFit, PlaceFits

LEMMA StartShape ==
  ASSUME SupervisorInv, NEW i \in Ids, Start(i) \/ StartTimeout(i)
  PROVE  /\ QuietCall /\ StarterOnly /\ KeepsNews
         /\ \A y \in TaskIds : y # i => task'[y] = task[y]
         /\ StarterFits(task'[i]) /\ task'[i].at # "close"
<1>1. i \in TaskIds /\ i # 0 /\ i \in Known
  BY StartersKnown, TaskIdsFacts
<1>2. \A p \in {"done", "lost", "failed", "sendThread", "sendTurn", "waitThread", "waitTurn",
                "checkTurn", "popEarly"} : p \notin WithMessage
  BY DEF WithMessage, WithJob
<1>3. ASSUME NEW at, NEW next \in {"sendThread", "sendTurn"}, StartCheck(i, at, next)
      PROVE  /\ UNCHANGED memory /\ StarterOnly /\ KeepsNews
             /\ \E p : p \notin WithMessage /\ Goes(i, p)
  <2>1. engine' = engine \/ engine' = [engine EXCEPT !.ready = FALSE]
    BY <1>1, <1>3 DEF StartCheck, Calls
  <2>2. \E p \in {"done", "lost", "failed", next} : Goes(i, p)
    BY <1>1, <1>3 DEF StartCheck, Calls
  <2>3. QED  BY <1>2, <1>3, <2>1, <2>2, RaisedKeeps DEF StartCheck
<1>4. ASSUME NEW at, NEW request, NEW next \in {"waitThread", "waitTurn"},
             StartSend(i, at, request, next)
      PROVE  /\ UNCHANGED memory /\ StarterOnly /\ KeepsNews
             /\ \E p : p \notin WithMessage /\ Goes(i, p)
  BY <1>2, <1>4, RaisedKeeps DEF StartSend
<1>5. ASSUME NEW at, NEW Attach_, NEW next \in {"checkTurn", "popEarly"},
             StartAttach(i, at, Attach_, next)
      PROVE  /\ Attach_ /\ StarterOnly /\ KeepsNews
             /\ \E p : p \notin WithMessage /\ Goes(i, p)
  <2>1. engine' = engine \/ engine' = [engine EXCEPT !.ready = FALSE]
    BY <1>1, <1>5 DEF StartAttach, Calls
  <2>2. Goes(i, "done") \/ Goes(i, next)
    BY <1>1, <1>5 DEF StartAttach, Calls
  <2>3. Attach_ /\ StarterOnly
    BY <1>5 DEF StartAttach, Calls
  <2>4. QED  BY <1>2, <2>1, <2>2, <2>3, RaisedKeeps
<1>6. ASSUME NEW at, NEW Event_, StartExcepts(i, at, Event_)
      PROVE  /\ Event_ /\ StarterOnly /\ KeepsNews
             /\ \E p : p \notin WithMessage /\ Goes(i, p)
  <2>1. engine' = engine \/ engine' = [engine EXCEPT !.ready = FALSE]
    BY <1>1, <1>6 DEF StartExcepts, Reports, Calls
  <2>2. Goes(i, "done")
    BY <1>1, <1>6 DEF StartExcepts, Reports, Calls
  <2>3. Event_ /\ StarterOnly
    BY <1>6 DEF StartExcepts, Reports, Calls
  <2>4. QED  BY <1>2, <2>1, <2>2, <2>3, RaisedKeeps
<1>7. CASE StartPopEarly(i)
  <2>1. UNCHANGED memory /\ StarterOnly
    BY <1>7 DEF StartPopEarly
  <2>2. PICK found \in SUBSET engine.early :
          /\ engine' = [engine EXCEPT !.early = @ \ found]
          /\ Goes(i, "done") \/ \E m \in found : Handles(i, m)
    BY <1>7 DEF StartPopEarly
  <2>3. KeepsNews
    BY <2>2 DEF KeepsNews, SupervisorInv, Fits, EngineFits
  <2>4. ASSUME NEW m \in found, Handles(i, m)
        PROVE  /\ \A y \in TaskIds : y # i => task'[y] = task[y]
               /\ StarterFits(task'[i]) /\ task'[i].at # "close"
    <3>1. m.kind \in Emits \ {"approval"}
      BY DEF SupervisorInv, Fits, EngineFits
    <3>2. QED  BY <1>1, <2>4, <3>1, HandlesIs DEF StarterFits, ReaderPlaces
  <2>5. QED  BY <1>1, <1>2, <2>1, <2>2, <2>3, <2>4, GoesFitsStarter DEF QuietCall
<1>8. CASE StartTimeout(i)
  <2>1. UNCHANGED memory /\ StarterOnly /\ engine' = engine /\ Goes(i, "lost")
    BY <1>8 DEF StartTimeout
  <2>2. QED  BY <1>1, <1>2, <2>1, RaisedKeeps, GoesFitsStarter DEF QuietCall
<1>9. ASSUME QuietCall, StarterOnly, KeepsNews, \E p : p \notin WithMessage /\ Goes(i, p)
      PROVE  /\ QuietCall /\ StarterOnly /\ KeepsNews
             /\ \A y \in TaskIds : y # i => task'[y] = task[y]
             /\ StarterFits(task'[i]) /\ task'[i].at # "close"
  BY <1>1, <1>9, GoesFitsStarter
<1>10. CASE StartCheck(i, "check", "sendThread") \/ StartCheck(i, "checkTurn", "sendTurn")
  BY <1>3, <1>9, <1>10 DEF QuietCall
<1>11. CASE \/ StartSend(i, "sendThread", "thread", "waitThread")
            \/ StartSend(i, "sendTurn", "turn", "waitTurn")
  BY <1>4, <1>9, <1>11 DEF QuietCall
<1>12. CASE StartAttach(i, "attachThread", AttachThread(i, ThreadOf(i)), "checkTurn")
  <2>1. /\ AttachThread(i, ThreadOf(i)) /\ StarterOnly /\ KeepsNews
        /\ \E p : p \notin WithMessage /\ Goes(i, p)
    BY <1>5, <1>12
  <2>2. QED  BY <1>1, <1>9, <2>1 DEF QuietCall, QuietReporting
<1>13. CASE StartAttach(i, "attachTurn", AttachTurn(i, i), "popEarly")
  <2>1. /\ AttachTurn(i, i) /\ StarterOnly /\ KeepsNews
        /\ \E p : p \notin WithMessage /\ Goes(i, p)
    BY <1>5, <1>13
  <2>2. QED  BY <1>1, <1>9, <2>1 DEF QuietCall, QuietReporting
<1>14. CASE StartExcepts(i, "failed", EventComplete(i, "failed"))
  <2>1. /\ EventComplete(i, "failed") /\ StarterOnly /\ KeepsNews
        /\ \E p : p \notin WithMessage /\ Goes(i, p)
    BY <1>6, <1>14
  <2>2. QED  BY <1>1, <1>9, <2>1 DEF QuietCall, QuietReporting
<1>15. CASE StartExcepts(i, "lost", EventUnknown(i))
  <2>1. /\ EventUnknown(i) /\ StarterOnly /\ KeepsNews
        /\ \E p : p \notin WithMessage /\ Goes(i, p)
    BY <1>6, <1>15
  <2>2. QED  BY <1>1, <1>9, <2>1 DEF QuietCall, QuietReporting
<1>16. QED
  BY <1>7, <1>8, <1>10, <1>11, <1>12, <1>13, <1>14, <1>15 DEF Start

(* A step that is not the reader's, and leaves the requests.                *)
LEMMA PendingKept ==
  ASSUME SupervisorInv, PendingInv, QueueStep, QuietCall, UNCHANGED up,
         engine'.requests = engine.requests, task'[0] = task[0],
         \A x \in Ids : task'[x] = task[x] \/ (StarterFits(task'[x]) /\ task'[x].at # "close")
  PROVE  PendingInv'
<1>1. PendingRests
  BY CallRests
<1>2. Trusted' => Trusted
  BY FailureStays DEF Trusted
<1>3. \A x \in Ids : StarterFits(task'[x])
  BY DEF PendingInv
<1>4. \A i : Saved(i) => Saved(i)'
  BY DEF Saved
<1>5. \A x \in TaskIds : task'[x].at = "close" => task'[x] = task[x]
  BY TaskIdsFacts
<1>6. QED  BY <1>1, <1>2, <1>3, <1>4, <1>5, PendingStays

LEMMA StarterPending ==
  ASSUME SupervisorInv, PendingInv, QueueStep, NEW i \in Ids, Start(i) \/ StartTimeout(i)
  PROVE  PendingInv'
<1>1. /\ QuietCall /\ StarterOnly /\ KeepsNews
      /\ \A y \in TaskIds : y # i => task'[y] = task[y]
      /\ StarterFits(task'[i]) /\ task'[i].at # "close"
  BY StartShape
<1>2. UNCHANGED up /\ engine'.requests = engine.requests /\ task'[0] = task[0]
  BY <1>1, TaskIdsFacts DEF StarterOnly, KeepsNews
<1>3. \A x \in Ids : task'[x] = task[x] \/ (StarterFits(task'[x]) /\ task'[x].at # "close")
  BY <1>1, TaskIdsFacts
<1>4. QED  BY <1>1, <1>2, <1>3, PendingKept

LEMMA DispatchPending ==
  ASSUME SupervisorInv, PendingInv, QueueStep, DispatchTop \/ DispatchClaim
  PROVE  PendingInv'
<1>1. QuietCall /\ UNCHANGED up /\ engine' = engine
      /\ (UNCHANGED task \/ \E i \in DOMAIN data.jobs : Goes(i, "check"))
  BY DEF DispatchTop, DispatchClaim, DispatchClaimWith, Claims, Claiming, QuietCall,
     queueVars, memory
<1>2. CASE UNCHANGED task
  BY <1>1, <1>2, PendingKept
<1>3. ASSUME NEW i \in DOMAIN data.jobs, Goes(i, "check")
      PROVE  PendingInv'
  <2>1. i \in Ids /\ i \in TaskIds /\ i # 0 /\ "check" \notin WithMessage
    BY TaskIdsFacts DEF SupervisorInv, SpoolInv, Aligned, OwnNames, WithMessage, WithJob
  <2>2. /\ StarterFits(task'[i]) /\ task'[i].at # "close"
        /\ \A y \in TaskIds : y # i => task'[y] = task[y]
    BY <1>3, <2>1, GoesFitsStarter
  <2>3. \A x \in Ids : task'[x] = task[x] \/ (StarterFits(task'[x]) /\ task'[x].at # "close")
    BY <2>2, TaskIdsFacts
  <2>4. task'[0] = task[0]
    BY <2>1, <2>2, TaskIdsFacts
  <2>5. QED  BY <1>1, <2>3, <2>4, PendingKept
<1>4. QED  BY <1>1, <1>2, <1>3

LEMMA OwnerShape ==
  ASSUME SupervisorInv, Named = {}, Owner
  PROVE  QuietCall /\ HttpOnly
<1>1. HttpOnly
  BY DEF Owner
<1>2. OwnerSubmits => Owning
  BY DEF OwnerSubmits, Owning
<1>3. OwnerPauses => Owning
  BY DEF OwnerPauses, Owning
<1>4. \A i \in DOMAIN data.jobs :
        (OwnerCancels(i) \/ OwnerConfirms(i) => Owning) /\ (OwnerAnswers(i) => UNCHANGED memory)
  BY DEF OwnerCancels, OwnerConfirms, OwnerAnswers, Owning
<1>5. QED  BY <1>1, <1>2, <1>3, <1>4 DEF Owner, QuietCall

LEMMA StopsShape ==
  ASSUME SupervisorInv, NEW i \in Ids, StopSend(i) \/ StopTimeout(i) \/ StopLost(i)
  PROVE  QuietCall /\ HttpOnly
<1>1. i \in Known /\ HttpOnly /\ (UNCHANGED memory \/ EventUnknown(i))
  BY DEF StopSend, StopTimeout, StopLost, SupervisorInv, Fits, StoppersFit
<1>2. QED  BY <1>1 DEF QuietCall, QuietReporting

LEMMA HttpPending ==
  ASSUME SupervisorInv, PendingInv, QueueStep, QuietCall, HttpOnly
  PROVE  PendingInv'
  BY PendingKept DEF HttpOnly

-----------------------------------------------------------------------------
(* The reader, and a starter with an early completion.                      *)
LEMMA MoverPending ==
  ASSUME SupervisorInv, PendingInv, QueueStep, QuietCall, UNCHANGED up,
         NEW x \in TaskIds, \A y \in TaskIds : y # x => task'[y] = task[y],
         x # 0 => StarterFits(task'[x]),
         x = 0 => task[0].at # "resolved" \/ ~Trusted',
         \A i \in Known : Saved(i) => Saved(i)' \/ Over(i),
         Trusted' =>
           /\ x = 0 /\ task'[0].at \in {"attach", "approve"} =>
                \/ task[0].at \in {"attach", "approve"} /\ task'[0].job = task[0].job
                \/ Saved(task[0].job)'
           /\ task'[x].at = "close" => Over(task[x].job)'
  PROVE  PendingInv'
<1>1. PendingRests
  BY CallRests
<1>2. Trusted' => Trusted
  BY FailureStays DEF Trusted
<1>3. \A y \in Ids : StarterFits(task'[y])
  BY TaskIdsFacts DEF PendingInv
<1>4. Trusted' /\ task[0].at = "resolved" =>
        task'[0].at = "resolved" /\ task'[0].job = task[0].job
  BY TaskIdsFacts
<1>5. Trusted' /\ task'[0].at \in {"attach", "approve"} =>
        \/ task[0].at \in {"attach", "approve"} /\ task'[0].job = task[0].job
        \/ Saved(task[0].job)'
  BY TaskIdsFacts
<1>6. Trusted' => \A y \in TaskIds : task'[y].at = "close" =>
        \/ task[y].at = "close" /\ task'[y].job = task[y].job
        \/ Over(task[y].job)'
  BY TaskIdsFacts
<1>7. QED  BY <1>1, <1>2, <1>3, <1>4, <1>5, <1>6, PendingStays

LEMMA LookUpPending ==
  ASSUME SupervisorInv, PendingInv, QueueStep, NEW x \in TaskIds, LookUp(x)
  PROVE  PendingInv'
<1> DEFINE m == task[x].message
<1>1. /\ UNCHANGED <<memory, stopper, engine, sweep, wire>> /\ ReaderOnly
      /\ task[x].at = "message" /\ UNCHANGED up
  BY DEF LookUp, At, ReaderOnly
<1>2. QuietCall /\ (\A i : Saved(i) => Saved(i)') /\ (x = 0 => task[0].at # "resolved")
  BY <1>1 DEF QuietCall, Saved
<1>3. x # 0 => m.kind \in Emits \ {"approval"} /\ m.kind # "resolved"
  BY <1>1, TaskIdsFacts, EmitsAssumption DEF PendingInv, StarterFits
<1>4. ASSUME Refuses(m), x = 0
      PROVE  PendingInv'
  <2>1. PICK p \in {"eof", "idle"} : Goes(0, p)
    BY <1>4 DEF Refuses
  <2>2. task'[0].at = p /\ \A y \in TaskIds : y # 0 => task'[y] = task[y]
    BY <2>1, GoesIs, TaskIdsFacts
  <2>3. QED  BY <1>1, <1>2, <1>4, <2>2, MoverPending
<1>5. ASSUME Finishes(x)
      PROVE  PendingInv'
  <2>1. /\ task'[x].at \notin WithMessage
        /\ \A y \in TaskIds : y # x => task'[y] = task[y]
    BY <1>5, FinishesIs
  <2>2. StarterFits(task'[x]) /\ task'[x].at \notin {"attach", "approve", "close"}
    BY <2>1 DEF StarterFits, ReaderPlaces, WithMessage, WithJob
  <2>3. QED  BY <1>1, <1>2, <2>1, <2>2, MoverPending
<1>6. ASSUME NEW place \in {"resolve", "completion", "save", "save new"}, NEW job,
             task' = [task EXCEPT ![x] = [task[x] EXCEPT !.job = job, !.at = place]],
             x = 0 \/ place = "completion"
      PROVE  PendingInv'
  <2>1. task'[x].at = place /\ \A y \in TaskIds : y # x => task'[y] = task[y]
    BY <1>6, KnowsKeeps
  <2>2. x # 0 => StarterFits(task'[x])
    BY <1>6, <2>1 DEF StarterFits, ReaderPlaces
  <2>3. QED  BY <1>1, <1>2, <2>1, <2>2, MoverPending
<1>7. ASSUME NEW place \in {"completion", "save", "save new"}, NEW job, Knows(x, job, place),
             x = 0 \/ place = "completion"
      PROVE  PendingInv'
  <2>1. task' = [task EXCEPT ![x].job = job, ![x].at = place]
    BY <1>7, Zenon DEF Knows
  <2>2. [task EXCEPT ![x].job = job, ![x].at = place]
          = [task EXCEPT ![x] = [task[x] EXCEPT !.job = job, !.at = place]]
    BY ThreadsTyped, KnowsIs DEF TaskRecord
  <2>3. task' = [task EXCEPT ![x] = [task[x] EXCEPT !.job = job, !.at = place]]
    BY <2>1, <2>2, Zenon
  <2>4. QED  BY <1>6, <1>7, <2>3
<1>8. ASSUME GoesOn(x, "resolve"), x = 0
      PROVE  PendingInv'
  <2>1. task' = [task EXCEPT ![x] = [task[x] EXCEPT !.job = task[x].job, !.at = "resolve"]]
    BY <1>8, GoesOnIs DEF SupervisorInv
  <2>2. QED  BY <1>6, <1>8, <2>1
<1> HIDE DEF m
<1>9. ASSUME Finds(x, m, ActiveFor(m))
      PROVE  PendingInv'
  <2> DEFINE job == ActiveFor(m)
  <2> HIDE DEF job
  <2>1. Finds(x, m, job)
    BY <1>9 DEF job
  <2>2. \/ Knows(x, job, "completion")
        \/ x = 0 /\ (Refuses(m) \/ Knows(x, job, "save") \/ Knows(x, job, "save new"))
    BY <1>3, <2>1 DEF Finds
  <2>3. QED  BY <1>4, <1>7, <2>2
<1>10. QED  BY <1>3, <1>4, <1>5, <1>8, <1>9 DEF LookUp, m

(* A report that the turn is over, or lost, unless the journal fails.       *)
LEMMA CompleteIsOver ==
  ASSUME Aligned, NEW i \in DOMAIN data.jobs, NEW status \in TERMINAL, EventComplete(i, status),
         Ignored(i) \/ ~storage_failed'
  PROVE  i \notin Active(disk')
<1> DEFINE job == data.jobs[i]
           new == [job EXCEPT !.status = status, !.pending = {}]
           n == [data EXCEPT !.jobs[i] = new]
<1>1. data \in Image /\ data = disk /\ job \in Job
  BY ImageParts DEF Aligned
<1>2. CASE Ignored(i)
  <2>1. disk' = disk
    BY <1>2 DEF EventComplete, Event, memory
  <2>2. QED  BY <1>1, <1>2, <2>1 DEF Ignored, StatusOf, Active, TERMINAL, OCCUPIED
<1>3. CASE ~Ignored(i)
  <2>1. [data EXCEPT !.jobs[i].status = status, !.jobs[i].pending = {}] = n
    BY <1>1 DEF Image, Job
  <2>2. new \in Job /\ new.status = status
    BY <1>1 DEF Job
  <2> HIDE DEF new
  <2>3. disk' = n
    BY <1>3, <2>1 DEF EventComplete, Event, Commit, WriteOk, WriteFails
  <2>4. n.jobs[i] = new
    BY <1>1, <2>2, PatchTyped
  <2> HIDE DEF n
  <2>5. QED  BY <2>2, <2>3, <2>4 DEF Active, OCCUPIED, TERMINAL
<1>4. QED  BY <1>2, <1>3

LEMMA UnknownStops ==
  ASSUME Aligned, NEW i \in DOMAIN data.jobs, EventUnknown(i), Ignored(i) \/ ~storage_failed'
  PROVE  i \notin Running(disk')
<1> DEFINE job == data.jobs[i]
           new == [job EXCEPT !.status = "unknown", !.pending = {}]
           n == [data EXCEPT !.jobs[i] = new]
<1>1. data \in Image /\ data = disk /\ job \in Job
  BY ImageParts DEF Aligned
<1>2. CASE Ignored(i)
  <2>1. disk' = disk
    BY <1>2 DEF EventUnknown, Event, memory
  <2>2. QED  BY <1>1, <1>2, <2>1 DEF Ignored, StatusOf, Running, Active, TERMINAL, OCCUPIED
<1>3. CASE ~Ignored(i)
  <2>1. [data EXCEPT !.jobs[i].status = "unknown", !.jobs[i].pending = {}] = n
    BY <1>1 DEF Image, Job
  <2>2. new \in Job /\ new.status = "unknown"
    BY <1>1 DEF Job, OCCUPIED
  <2> HIDE DEF new
  <2>3. disk' = n
    BY <1>3, <2>1 DEF EventUnknown, Event, Commit, WriteOk, WriteFails
  <2>4. n.jobs[i] = new
    BY <1>1, <2>2, PatchTyped
  <2> HIDE DEF n
  <2>5. QED  BY <2>2, <2>3, <2>4 DEF Running
<1>4. QED  BY <1>2, <1>3

LEMMA GoesOnKeepsJob ==
  ASSUME SupervisorInv, NEW x \in TaskIds, NEW place, GoesOn(x, place)
  PROVE  task'[x].job = task[x].job
<1> DEFINE r == [task[x] EXCEPT !.at = place]
<1>1. DOMAIN task = TaskIds /\ task' = [task EXCEPT ![x] = r] /\ r.job = task[x].job
  BY ThreadsTyped, RecordTyped DEF GoesOn
<1> HIDE DEF r
<1>2. QED  BY <1>1, ThreadsTyped

LEMMA CompletionShape ==
  ASSUME SupervisorInv, NEW x \in TaskIds, Completion(x)
  PROVE  /\ QuietCall /\ ReaderOnly /\ UNCHANGED <<stopper, sweep, inbox, wire>> /\ KeepsNews
         /\ \A y \in TaskIds : y # x => task'[y] = task[y]
         /\ task[x].at = "completion"
         /\ \/ /\ task[x].job = 0 /\ Keeps(task[x].message) /\ UNCHANGED memory
               /\ task'[x].at \in {"idle", "done"}
            \/ /\ task[x].job = task[x].message.turn /\ task[x].job \in Known /\ UNCHANGED engine
               /\ EventUnknown(task[x].job) /\ task'[x].at \in {"idle", "done"}
            \/ /\ task[x].job = task[x].message.turn /\ task[x].job \in Known /\ UNCHANGED engine
               /\ EventComplete(task[x].job, "completed")
               /\ Ignored(task[x].job) \/ ~storage_failed'
               /\ task'[x].at = "close" /\ task'[x].job = task[x].job
               /\ task'[x].message = task[x].message
            \/ storage_failed' /\ task'[x].at \in {"eof", "done"}
<1> DEFINE m == task[x].message
           job == task[x].job
<1>1. /\ task[x].at = "completion" /\ ReaderOnly /\ UNCHANGED <<stopper, sweep, inbox, wire>>
  BY DEF Completion, At
<1>2. "completion" \in WithMessage /\ m.kind \in Emits \ {"approval"} /\ job \in {0, m.turn}
      /\ m.turn \in Known
  BY <1>1, WithMessageFacts DEF WithMessage
<1>3. CASE job = 0
  <2>1. Keeps(m) /\ Finishes(x) /\ UNCHANGED memory
    BY <1>3 DEF Completion
  <2>2. KeepsNews
    BY <2>1 DEF Keeps, KeepsNews, SupervisorInv, Fits, EngineFits
  <2>3. /\ task'[x].at \in {"idle", "done"}
        /\ \A y \in TaskIds : y # x => task'[y] = task[y]
    BY <2>1, FinishesIs
  <2>4. QED  BY <1>1, <1>3, <2>1, <2>2, <2>3 DEF QuietCall
<1>4. CASE job # 0
  <2>1. job = m.turn /\ job \in Known
    BY <1>2, <1>4
  <2>2. /\ EventUnknown(job) \/ EventComplete(job, "completed")
        /\ \/ storage_failed' /\ Raised(x)
           \/ EventUnknown(job) /\ Finishes(x) /\ UNCHANGED engine
           \/ /\ EventComplete(job, "completed") /\ (Ignored(job) \/ ~storage_failed')
              /\ GoesOn(x, "close") /\ UNCHANGED engine
    BY <1>4 DEF Completion, Reports, Calls, Raised
  <2>3. QuietCall
    BY <2>1, <2>2 DEF QuietCall, QuietReporting
  <2>4. CASE storage_failed' /\ Raised(x)
    BY <1>1, <2>3, <2>4, RaisedIs, RaisedKeeps
  <2>5. CASE EventUnknown(job) /\ Finishes(x) /\ UNCHANGED engine
    BY <1>1, <2>1, <2>3, <2>5, FinishesIs, RaisedKeeps
  <2>6. CASE /\ EventComplete(job, "completed") /\ (Ignored(job) \/ ~storage_failed')
             /\ GoesOn(x, "close") /\ UNCHANGED engine
    BY <1>1, <2>1, <2>3, <2>6, GoesKeeps, GoesOnKeepsJob, RaisedKeeps
  <2>7. QED  BY <2>2, <2>4, <2>5, <2>6
<1>5. QED  BY <1>3, <1>4

LEMMA CompletionPending ==
  ASSUME SupervisorInv, PendingInv, QueueStep, NEW x \in TaskIds, Completion(x)
  PROVE  PendingInv'
<1>1. /\ QuietCall /\ UNCHANGED up /\ engine'.requests = engine.requests
      /\ \A y \in TaskIds : y # x => task'[y] = task[y]
      /\ task[x].at = "completion" /\ task'[x].at \in {"idle", "done", "close", "eof"}
  BY CompletionShape DEF ReaderOnly, KeepsNews
<1>2. StarterFits(task'[x])
  BY <1>1 DEF StarterFits, ReaderPlaces
<1>3. \A i : Saved(i) => Saved(i)'
  BY <1>1 DEF Saved
<1>4. ASSUME Trusted', task'[x].at = "close"
      PROVE  Over(task[x].job)'
  <2>1. /\ task[x].job \in Known /\ EventComplete(task[x].job, "completed")
        /\ task'[x].job = task[x].job
    BY <1>4, CompletionShape DEF Trusted
  <2>2. Aligned /\ task[x].job \in DOMAIN data.jobs
    BY <2>1, OwnThreads DEF SupervisorInv, SpoolInv
  <2>3. task[x].job \notin Active(disk')
    BY <1>4, <2>1, <2>2, CompleteIsOver DEF Trusted, TERMINAL
  <2>4. QED  BY <2>1, <2>3 DEF Over
<1>5. QED  BY <1>1, <1>2, <1>3, <1>4, MoverPending

LEMMA CloseTurnPending ==
  ASSUME SupervisorInv, PendingInv, QueueStep, NEW x \in TaskIds, CloseTurn(x)
  PROVE  PendingInv'
<1>1. /\ UNCHANGED memory /\ UNCHANGED up /\ Finishes(x) /\ task[x].at = "close"
      /\ engine'.requests = {r \in engine.requests : r[1] # task[x].job}
  BY DEF CloseTurn, ReaderOnly, At, SupervisorInv, Fits, EngineFits
<1>2. /\ task'[x].at \in {"idle", "done"}
      /\ \A y \in TaskIds : y # x => task'[y] = task[y]
  BY <1>1, FinishesIs
<1>3. QuietCall /\ StarterFits(task'[x]) /\ disk' = disk
  BY <1>1, <1>2 DEF QuietCall, StarterFits, ReaderPlaces, memory
<1>4. Trusted => Over(task[x].job)
  BY <1>1 DEF PendingInv, ClosingOver
<1>5. Trusted' => Trusted
  BY <1>3, <1>1, FailureStays DEF Trusted
<1>6. \A i \in Known : Saved(i) => Saved(i)' \/ i = task[x].job
  BY <1>1 DEF Saved
<1>7. PendingRests
  BY <1>3, CallRests
<1>8. \A y \in Ids : StarterFits(task'[y])
  BY <1>2, <1>3, TaskIdsFacts DEF PendingInv
<1>9. task[0].at = "resolved" => task'[0] = task[0]
  BY <1>1, <1>2, TaskIdsFacts
<1>10. task'[0].at \in {"attach", "approve"} => task'[0] = task[0]
  BY <1>1, <1>2, TaskIdsFacts
<1>11. \A y \in TaskIds : task'[y].at = "close" => task'[y] = task[y]
  BY <1>2
<1>12. QED  BY <1>4, <1>5, <1>6, <1>7, <1>8, <1>9, <1>10, <1>11, PendingStays

LEMMA SaveRequestShape ==
  ASSUME SupervisorInv, SaveRequest
  PROVE  /\ UNCHANGED <<memory, stopper, sweep, inbox, wire>> /\ ReaderOnly
         /\ task[0].at \in {"save", "save new"} /\ task'[0].at \in {"approve", "attach"}
         /\ task'[0].job = task[0].job /\ task'[0].message = task[0].message
         /\ \A y \in TaskIds : y # 0 => task'[y] = task[y]
         /\ engine'.closed = engine.closed /\ engine'.closed_turns = engine.closed_turns
         /\ engine'.early = engine.early
         /\ Saved(task[0].job)' /\ \A i : Saved(i) => Saved(i)'
<1> DEFINE request == task[0].message.turn
           requests == {r \in engine.requests : r[2] # request} \cup {<<task[0].job, request>>}
           place == IF At(0, "save") THEN "approve" ELSE "attach"
<1>1. /\ UNCHANGED <<memory, stopper, sweep, inbox, wire>> /\ ReaderOnly
      /\ task[0].at \in {"save", "save new"} /\ GoesOn(0, place) /\ place \in {"approve", "attach"}
      /\ engine' = [engine EXCEPT !.requests = requests]
  BY DEF SaveRequest, At
<1>2. task[0].job = request
  <2>1. {"save", "save new"} \subseteq WithJob
    BY DEF WithJob
  <2>2. QED  BY <1>1, <2>1, TaskIdsFacts, WithMessageFacts DEF WithMessage
<1> HIDE DEF place
<1>3. /\ task'[0].at = place /\ task'[0].message = task[0].message
      /\ task'[0].job = task[0].job
      /\ \A y \in TaskIds : y # 0 => task'[y] = task[y]
  BY <1>1, TaskIdsFacts, GoesKeeps, GoesOnKeepsJob
<1> HIDE DEF requests, request
<1>4. /\ engine'.requests = requests /\ engine'.closed = engine.closed
      /\ engine'.closed_turns = engine.closed_turns /\ engine'.early = engine.early
  BY <1>1 DEF SupervisorInv, Fits, EngineFits
<1>5. <<request, request>> \in requests /\ \A i : Saved(i) => <<i, i>> \in requests
  BY <1>2 DEF requests, Saved
<1>6. task'[0].job = request
  BY <1>2, <1>3
<1>7. Saved(task[0].job)'
  BY <1>4, <1>5, <1>6 DEF Saved
<1>8. \A i : Saved(i) => Saved(i)'
  BY <1>4, <1>5 DEF Saved
<1>9. QED  BY <1>1, <1>3, <1>4, <1>7, <1>8

LEMMA SaveRequestPending ==
  ASSUME SupervisorInv, PendingInv, QueueStep, SaveRequest
  PROVE  PendingInv'
<1>1. QuietCall /\ UNCHANGED up
  BY SaveRequestShape DEF QuietCall, ReaderOnly
<1>2. 0 \in TaskIds
  BY TaskIdsFacts
<1>3. task'[0].at # "close" /\ task[0].at # "resolved"
  BY SaveRequestShape
<1>4. QED  BY <1>1, <1>2, <1>3, SaveRequestShape, MoverPending

LEMMA AttachShape ==
  ASSUME SupervisorInv, Attach
  PROVE  /\ UNCHANGED <<stopper, sweep, inbox, wire>> /\ ReaderOnly /\ KeepsNews
         /\ task[0].job \in Known /\ task[0].job = task[0].message.turn
         /\ AttachTurn(task[0].job, task[0].job) /\ QuietCall
         /\ task[0].at = "attach"
         /\ \A y \in TaskIds : y # 0 => task'[y] = task[y]
         /\ \/ /\ task'[0].at = "approve" /\ task'[0].job = task[0].job
               /\ task'[0].message = task[0].message
            \/ storage_failed' /\ task'[0].at = "eof"
         /\ engine' = engine
<1>1. /\ UNCHANGED <<stopper, sweep, inbox, wire>> /\ ReaderOnly
      /\ task[0].at = "attach" /\ AttachTurn(task[0].job, task[0].message.turn)
      /\ engine' = engine
      /\ (storage_failed' /\ Goes(0, "eof")) \/ GoesOn(0, "approve")
  BY DEF Attach, AttachTo, At, Calls
<1>2. task[0].job = task[0].message.turn /\ task[0].job \in Known
  <2>1. "attach" \in WithJob
    BY DEF WithJob
  <2>2. QED  BY <1>1, <2>1, TaskIdsFacts, WithMessageFacts DEF WithMessage
<1>3. QuietCall
  BY <1>1, <1>2 DEF QuietCall, QuietReporting
<1>4. KeepsNews
  BY <1>1, RaisedKeeps
<1>5. QED  BY <1>1, <1>2, <1>3, <1>4, TaskIdsFacts, GoesIs, GoesKeeps, GoesOnKeepsJob

LEMMA AttachPending ==
  ASSUME SupervisorInv, PendingInv, QueueStep, Attach
  PROVE  PendingInv'
<1>1. QuietCall /\ UNCHANGED up /\ \A i : Saved(i) => Saved(i)'
  BY AttachShape DEF ReaderOnly, Saved
<1>2. 0 \in TaskIds /\ task[0].at # "resolved"
  BY AttachShape, TaskIdsFacts
<1>3. Trusted' /\ task'[0].at \in {"attach", "approve"} =>
        task[0].at \in {"attach", "approve"} /\ task'[0].job = task[0].job
  BY AttachShape
<1>4. task'[0].at # "close"
  BY AttachShape
<1>5. QED  BY <1>1, <1>2, <1>3, <1>4, AttachShape, MoverPending

LEMMA PopResolvedPending ==
  ASSUME SupervisorInv, PendingInv, QueueStep, PopResolved
  PROVE  PendingInv'
<1> DEFINE request == task[0].message.turn
           saved == {r \in engine.requests : r[2] = request}
           left == engine.requests \ saved
           next == [job \in Ids |-> [task[0] EXCEPT !.at = "resolved", !.job = job]]
<1>1. /\ UNCHANGED <<memory, stopper, sweep, inbox, wire>> /\ UNCHANGED up
      /\ task[0].at = "resolve"
      /\ engine' = [engine EXCEPT !.requests = left]
      /\ \/ saved = {} /\ Finishes(0)
         \/ \E r \in saved : task' = [task EXCEPT ![0] = next[r[1]]]
  BY DEF PopResolved, PopResolvedWith, At, ReaderOnly
<1>2. engine'.requests = left
  BY <1>1 DEF SupervisorInv, Fits, EngineFits
<1>3. CASE saved = {} /\ Finishes(0)
  <2>1. /\ task'[0].at \in {"idle", "done"} /\ \A y \in TaskIds : y # 0 => task'[y] = task[y]
    BY <1>3, TaskIdsFacts, FinishesIs
  <2>2. QuietCall /\ \A i : Saved(i) => Saved(i)'
    BY <1>1, <1>2, <1>3 DEF QuietCall, Saved
  <2>3. QED  BY <1>1, <2>1, <2>2, TaskIdsFacts, MoverPending
<1>4. ASSUME NEW r \in saved, task' = [task EXCEPT ![0] = next[r[1]]]
      PROVE  PendingInv'
  <2>1. r[1] \in Ids /\ r[1] = r[2] /\ r[2] = request /\ task[0] \in TaskRecord
    BY TaskIdsFacts DEF SupervisorInv, Fits, EngineFits, TasksFit
  <2>2. next[r[1]].at = "resolved" /\ next[r[1]].job = request
    BY <2>1 DEF TaskRecord
  <2> HIDE DEF next
  <2>3. /\ task'[0].at = "resolved" /\ task'[0].job = request
        /\ \A y \in TaskIds : y # 0 => task'[y] = task[y]
    BY <1>4, <2>2, TaskIdsFacts DEF SupervisorInv, Fits, TasksFit
  <2>4. disk' = disk /\ storage_failed' = storage_failed /\ up' = up
    BY <1>1 DEF memory
  <2>5. \A i : Saved(i) => Saved(i)' \/ i = request
    BY <1>2 DEF Saved
  <2>6. \A x \in Ids : StarterFits(task'[x])
    BY <2>3, TaskIdsFacts DEF PendingInv
  <2>7. ASSUME Trusted  PROVE  PendingHeld' /\ ApprovalSaved' /\ ClosingOver'
    <3>1. PendingHeld /\ ClosingOver
      BY <2>7 DEF PendingInv
    <3>2. PendingHeld'
      BY <1>1, <2>3, <2>4, <2>5, <3>1 DEF PendingHeld
    <3>3. ApprovalSaved'
      BY <2>3 DEF ApprovalSaved
    <3>4. ClosingOver'
      BY <1>1, <2>3, <2>4, <3>1 DEF ClosingOver, Over
    <3>5. QED  BY <3>2, <3>3, <3>4
  <2>8. QED  BY <2>4, <2>6, <2>7 DEF PendingInv, Trusted
<1>5. QED  BY <1>1, <1>3, <1>4

LEMMA EndOfFilePending ==
  ASSUME SupervisorInv, PendingInv, QueueStep, EndOfFile
  PROVE  PendingInv'
<1>1. /\ UNCHANGED memory /\ UNCHANGED up /\ task[0].at \in {"eof", "idle"}
      /\ engine' = [engine EXCEPT !.closed = TRUE]
      /\ task' = [x \in TaskIds |->
           CASE x = 0 -> Rest("disconnect")
             [] task[x].at \in {"waitThread", "waitTurn"} -> Rest("lost")
             [] OTHER -> task[x]]
  BY DEF EndOfFile, At, TaskIds, ReaderOnly
<1>2. task'[0].at = "disconnect"
  BY <1>1, TaskIdsFacts DEF Rest
<1>3. \A x \in Ids : task'[x] = task[x] \/ task'[x] = Rest("lost")
  BY <1>1, TaskIdsFacts
<1>4. Rest("lost").at = "lost"
  BY DEF Rest
<1>5. engine'.requests = engine.requests
  BY <1>1 DEF SupervisorInv, Fits, EngineFits
<1>6. QuietCall /\ (\A i : Saved(i) => Saved(i)') /\ (Trusted' => Trusted)
  BY <1>1, <1>5 DEF QuietCall, Saved, Trusted, memory
<1>7. PendingRests
  BY <1>6, CallRests
<1>8. \A x \in Ids : StarterFits(task'[x])
  BY <1>3, <1>4 DEF PendingInv, StarterFits, ReaderPlaces
<1>9. \A x \in TaskIds : task'[x].at = "close" => task'[x] = task[x]
  BY <1>2, <1>3, <1>4, TaskIdsFacts
<1>10. QED  BY <1>1, <1>2, <1>6, <1>7, <1>8, <1>9, PendingStays

LEMMA DisconnectPending ==
  ASSUME SupervisorInv, PendingInv, QueueStep, Disconnect
  PROVE  PendingInv'
<1>1. /\ UNCHANGED memory /\ UNCHANGED up /\ task[0].at = "disconnect"
      /\ engine' = [engine EXCEPT !.ready = FALSE] /\ Goes(0, "sweep")
  BY DEF Disconnect, At, ReaderOnly
<1>2. task'[0].at = "sweep" /\ \A y \in TaskIds : y # 0 => task'[y] = task[y]
  BY <1>1, TaskIdsFacts, GoesIs
<1>3. QuietCall /\ \A i : Saved(i) => Saved(i)'
  BY <1>1, RaisedKeeps DEF QuietCall, KeepsNews, Saved
<1>4. QED  BY <1>1, <1>2, <1>3, TaskIdsFacts, MoverPending

LEMMA SweepPending ==
  ASSUME SupervisorInv, PendingInv, QueueStep, Sweep
  PROVE  PendingInv'
<1>1. /\ UNCHANGED engine /\ UNCHANGED up /\ task[0].at = "sweep"
      /\ UNCHANGED memory \/ \E i \in sweep : EventUnknown(i)
      /\ Goes(0, "dead") \/ UNCHANGED task
  BY DEF Sweep, SweepStep, SweepThen, At, ReaderOnly
<1>2. /\ task'[0].at \in {"sweep", "dead"} /\ \A y \in TaskIds : y # 0 => task'[y] = task[y]
  BY <1>1, TaskIdsFacts, GoesIs
<1>3. QuietCall /\ \A i : Saved(i) => Saved(i)'
  BY <1>1 DEF QuietCall, QuietReporting, Saved, SupervisorInv, Fits
<1>4. QED  BY <1>1, <1>2, <1>3, TaskIdsFacts, MoverPending

LEMMA ReadPending ==
  ASSUME SupervisorInv, PendingInv, QueueStep, Read
  PROVE  PendingInv'
<1> DEFINE m == Head(wire)
<1>1. /\ UNCHANGED memory /\ UNCHANGED engine /\ UNCHANGED up /\ task[0].at = "idle"
      /\ wire # <<>>
      /\ \/ m.kind \in Emits \cup {"resolved"} /\ Handles(0, m)
         \/ GoesOn(m.turn, Resumed(m))
  BY DEF Read, ReaderOnly, At
<1>2. QuietCall /\ \A i : Saved(i) => Saved(i)'
  BY <1>1 DEF QuietCall, Saved
<1>3. m.turn \in Ids
  <2>1. PICK S : wire \in Seq([kind: S, turn: Ids])
    BY DEF SupervisorInv, Fits, WireFits
  <2>2. m \in [kind: S, turn: Ids]
    <3> DEFINE T == [kind: S, turn: Ids]
    <3>1. wire \in Seq(T) /\ wire # <<>>
      BY <1>1, <2>1
    <3> HIDE DEF T
    <3>2. m \in T
      BY <3>1
    <3>3. QED  BY <3>2 DEF T
  <2>3. QED  BY <2>2
<1> HIDE DEF m
<1>4. CASE Handles(0, m)
  <2>1. task'[0].at = "message" /\ \A y \in TaskIds : y # 0 => task'[y] = task[y]
    BY <1>4, TaskIdsFacts, HandlesIs
  <2>2. QED  BY <1>1, <1>2, <2>1, TaskIdsFacts, MoverPending
<1>5. CASE GoesOn(m.turn, Resumed(m))
  <2>1. PICK i \in Ids : i = m.turn
    BY <1>3
  <2> DEFINE place == Resumed(m)
  <2>2. place = task[i].at \/ place \in {"attachThread", "failed", "attachTurn"}
    BY <2>1 DEF Resumed
  <2> HIDE DEF place
  <2>3. /\ task'[i].at = place /\ task'[i].message = task[i].message
        /\ task'[i].job = task[i].job
        /\ \A y \in TaskIds : y # i => task'[y] = task[y]
    BY <1>5, <2>1, TaskIdsFacts, GoesKeeps, GoesOnKeepsJob DEF place
  <2>4. StarterFits(task'[i])
    <3>1. StarterFits(task[i])
      BY DEF PendingInv
    <3>2. QED  BY <2>2, <2>3, <3>1 DEF StarterFits, ReaderPlaces
  <2>5. PendingRests
    BY <1>2, CallRests
  <2>6. \A x \in Ids : StarterFits(task'[x])
    BY <2>3, <2>4, TaskIdsFacts DEF PendingInv
  <2>7. Trusted' => Trusted
    BY <1>2, <1>1, FailureStays DEF Trusted
  <2>8. task'[0] = task[0]
    BY <2>3, TaskIdsFacts
  <2>9. \A x \in TaskIds : task'[x].at = "close" =>
          task[x].at = "close" /\ task'[x].job = task[x].job
    BY <2>2, <2>3
  <2>10. QED  BY <1>2, <2>5, <2>6, <2>7, <2>8, <2>9, PendingStays
<1>6. QED  BY <1>1, <1>4, <1>5

(* What the approval of a request, or its end, does to those of its job.    *)
LEMMA ApprovalPends ==
  ASSUME Aligned, NEW i \in DOMAIN data.jobs, i \in Requests, StatusOf(i) # "queued",
         EventApproval(i, i)
  PROVE  /\ Touches(i)
         /\ \/ disk'.jobs[i].pending = disk.jobs[i].pending
            \/ /\ disk'.jobs[i].pending = disk.jobs[i].pending \cup {i}
               /\ i \in Active(disk)
         /\ storage_failed => storage_failed'
<1> DEFINE job == data.jobs[i]
           new == [job EXCEPT !.pending = @ \cup {i},
                              !.status = IF @ = "cancelling" THEN @ ELSE "waiting_approval"]
<1>1. data \in Image /\ job \in Job /\ data = disk /\ Turned(i, {"waiting_approval"})
  BY ImageParts, ApprovalTouches DEF Aligned
<1>2. Touches(i)
  BY <1>1 DEF Turned
<1>3. storage_failed => storage_failed'
  BY DEF EventApproval, Event, Commit, WriteOk, WriteFails, memory
<1>4. CASE disk' = disk
  BY <1>2, <1>3, <1>4
<1>5. CASE disk' # disk
  <2>1. ~Ignored(i) /\ job.status # "unknown" /\ WriteOk(disk')
    BY <1>1, <1>5 DEF EventApproval, Event, Commit, WriteOk, WriteFails, memory, StatusOf
  <2>2. [data EXCEPT !.jobs[i].pending = @ \cup {i},
                     !.jobs[i].status = IF @ = "cancelling" THEN @ ELSE "waiting_approval"]
          = [data EXCEPT !.jobs[i] = new]
    BY <1>1 DEF Image, Job
  <2>3. new \in Job /\ new.pending = job.pending \cup {i}
    BY <1>1 DEF Job, OCCUPIED
  <2> HIDE DEF new
  <2>4. disk' = [data EXCEPT !.jobs[i] = new]
    BY <1>1, <1>5, <2>1, <2>2 DEF EventApproval, Event, Commit, WriteOk, WriteFails, StatusOf
  <2>5. disk'.jobs[i] = new
    BY <1>1, <2>3, <2>4, PatchTyped
  <2>6. job.status \in OCCUPIED
    BY <1>1, <2>1 DEF Job, Ignored, StatusOf
  <2>7. QED  BY <1>1, <1>2, <1>3, <2>1, <2>3, <2>5, <2>6 DEF Active
<1>6. QED  BY <1>4, <1>5

LEMMA ResolvedPends ==
  ASSUME Aligned, NEW i \in DOMAIN data.jobs, i \in Requests, EventResolved(i, i)
  PROVE  /\ Touches(i) /\ disk'.jobs[i].pending \subseteq disk.jobs[i].pending
         /\ \/ disk'.jobs[i].pending = disk.jobs[i].pending \ {i}
            \/ storage_failed' \/ disk.jobs[i].status \in TERMINAL
         /\ storage_failed => storage_failed'
<1> DEFINE job == data.jobs[i]
           left == job.pending \ {i}
           new == [job EXCEPT !.pending = left,
                              !.status = IF left = {} /\ @ = "waiting_approval"
                                         THEN "running" ELSE @]
<1>1. data \in Image /\ job \in Job /\ data = disk /\ Turned(i, {"running"})
  BY ImageParts, ResolvedTouches DEF Aligned
<1>2. Touches(i)
  BY <1>1 DEF Turned
<1>3. storage_failed => storage_failed'
  BY DEF EventResolved, Event, Commit, WriteOk, WriteFails, memory
<1>4. CASE disk' = disk /\ (storage_failed' \/ Ignored(i))
  BY <1>1, <1>2, <1>3, <1>4 DEF Ignored, StatusOf
<1>5. CASE ~(disk' = disk /\ (storage_failed' \/ Ignored(i)))
  <2>1. [data EXCEPT !.jobs[i].pending = left,
                     !.jobs[i].status = IF left = {} /\ @ = "waiting_approval"
                                        THEN "running" ELSE @]
          = [data EXCEPT !.jobs[i] = new]
    BY <1>1, ZenonT(30) DEF Image, Job
  <2>2. new \in Job /\ new.pending = left
    BY <1>1 DEF Job, OCCUPIED
  <2> HIDE DEF new
  <2>3. Event(i, [data EXCEPT !.jobs[i] = new])
    BY <2>1 DEF EventResolved
  <2>4. disk' = [data EXCEPT !.jobs[i] = new]
    BY <1>5, <2>3 DEF Event, Commit, WriteOk, WriteFails, memory
  <2>5. disk'.jobs[i] = new
    BY <1>1, <2>2, <2>4, PatchTyped
  <2>6. QED  BY <1>1, <1>2, <1>3, <2>2, <2>5
<1>6. QED  BY <1>4, <1>5

LEMMA ApproveShape ==
  ASSUME SupervisorInv, Approve
  PROVE  /\ UNCHANGED <<stopper, sweep, inbox, wire>> /\ ReaderOnly /\ KeepsNews
         /\ task[0].job \in Known /\ task[0].job = task[0].message.turn
         /\ \/ task[0].at = "approve" /\ EventApproval(task[0].job, task[0].job)
            \/ task[0].at = "resolved" /\ EventResolved(task[0].job, task[0].job)
         /\ \A y \in TaskIds : y # 0 => task'[y] = task[y]
         /\ \/ task'[0].at = "idle" /\ (Ignored(task[0].job) \/ ~storage_failed')
            \/ task'[0].at = "eof" /\ storage_failed'
<1> DEFINE job == task[0].job
<1>1. /\ UNCHANGED <<stopper, sweep, inbox, wire>> /\ ReaderOnly
      /\ \/ task[0].at = "approve" /\ EventApproval(job, task[0].message.turn)
         \/ task[0].at = "resolved" /\ EventResolved(job, task[0].message.turn)
      /\ UNCHANGED engine
      /\ \/ Goes(0, "idle") /\ (Ignored(job) \/ ~storage_failed')
         \/ Goes(0, "eof") /\ storage_failed'
  BY DEF Approve, At, Reports, Calls, Finishes
<1>2. 0 \in TaskIds /\ {"approve", "resolved"} \subseteq WithJob /\ WithJob \subseteq WithMessage
  BY DEF TaskIds, WithMessage, WithJob
<1>3. job = task[0].message.turn /\ job \in Known
  BY <1>1, <1>2, WithMessageFacts
<1>4. KeepsNews
  BY <1>1, RaisedKeeps
<1>5. QED  BY <1>1, <1>2, <1>3, <1>4, GoesIs

LEMMA ApprovePending ==
  ASSUME SupervisorInv, PendingInv, QueueStep, Approve
  PROVE  PendingInv'
<1>1. PICK i \in Known : i = task[0].job
  BY ApproveShape
<1>2. /\ i \in DOMAIN data.jobs /\ i \in Requests /\ i \in Turns /\ Aligned /\ data = disk
      /\ StatusOf(i) # "queued" /\ i \in DOMAIN disk.jobs
  BY OwnThreads, KnownIds, IdsFacts DEF SupervisorInv, SpoolInv, Aligned, Known, StatusOf
<1>3. \A k \in Known : Over(k) => Over(k)'
  BY SlotsRest DEF Over
<1>4. \/ task[0].at = "approve" /\ EventApproval(i, i)
      \/ task[0].at = "resolved" /\ EventResolved(i, i)
  BY <1>1, ApproveShape
<1>5. /\ Touches(i) /\ (storage_failed => storage_failed')
      /\ disk'.jobs[i].pending \subseteq disk.jobs[i].pending \cup {i}
  BY <1>2, <1>4, ApprovalPends, ResolvedPends
<1>6. \A k \in DOMAIN disk'.jobs : disk'.jobs[k].pending \subseteq {k}
  BY <1>5 DEF PendingInv, Touches
<1>7. \A x \in Ids : StarterFits(task'[x])
  BY ApproveShape, TaskIdsFacts DEF PendingInv
<1>8. Trusted' => Trusted
  BY <1>5, ApproveShape DEF Trusted, ReaderOnly
<1>9. \A k : Saved(k) => Saved(k)'
  BY ApproveShape DEF Saved, KeepsNews
<1>10. ASSUME Trusted'
       PROVE  PendingHeld' /\ ApprovalSaved' /\ ClosingOver'
  <2>1. PendingHeld /\ ApprovalSaved /\ ClosingOver /\ ~storage_failed'
    BY <1>8, <1>10 DEF PendingInv, Trusted
  <2>2. ASSUME NEW k \in DOMAIN disk'.jobs, disk'.jobs[k].pending # {}
        PROVE  Saved(k)'
    <3>1. CASE k # i
      BY <1>1, <1>5, <1>9, <2>1, <2>2, <3>1 DEF PendingHeld, Touches
    <3>2. CASE k = i /\ task[0].at = "approve"
      <4>1. i \in Active(disk)
        BY <1>2, <1>4, <2>2, <3>2, ApprovalPends, PendingActive
      <4>2. QED  BY <1>1, <1>9, <2>1, <3>2, <4>1 DEF ApprovalSaved, Over
    <3>3. CASE k = i /\ task[0].at = "resolved"
      <4>1. disk.jobs[i].pending # {} /\ i \in Active(disk)
        BY <1>2, <1>4, <2>2, <3>3, ResolvedPends, PendingActive
      <4>2. disk'.jobs[i].pending = disk.jobs[i].pending \ {i}
        BY <1>2, <1>4, <2>1, <3>3, <4>1, ResolvedPends DEF Active, OCCUPIED, TERMINAL
      <4>3. QED  BY <1>2, <2>2, <3>3, <4>2 DEF PendingInv
    <3>4. QED  BY <1>4, <3>1, <3>2, <3>3
  <2>3. PendingHeld'
    BY <2>2 DEF PendingHeld
  <2>4. ApprovalSaved'
    BY ApproveShape DEF ApprovalSaved
  <2>5. ClosingOver'
    <3>1. SUFFICES ASSUME NEW x \in TaskIds, task'[x].at = "close"
                   PROVE  task'[x].job \notin Active(disk')
      BY DEF ClosingOver, Over
    <3>2. task'[x] = task[x] /\ task[x].at = "close"
      BY <3>1, ApproveShape
    <3>3. task[x].job \in Known /\ Over(task[x].job)
      <4>1. "close" \in WithJob /\ "close" \in WithMessage
        BY DEF WithJob, WithMessage
      <4>2. QED  BY <2>1, <3>2, <4>1, WithMessageFacts DEF ClosingOver
    <3>4. QED  BY <1>3, <3>2, <3>3 DEF Over
  <2>6. QED  BY <2>3, <2>4, <2>5
<1>11. QED  BY <1>6, <1>7, <1>10 DEF PendingInv

LEMMA ReaderPending ==
  ASSUME SupervisorInv, PendingInv, QueueStep, Reader
  PROVE  PendingInv'
<1>1. 0 \in TaskIds
  BY TaskIdsFacts
<1>2. QED
  BY <1>1, ReadPending, LookUpPending, CompletionPending, CloseTurnPending, SaveRequestPending,
     AttachPending, ApprovePending, PopResolvedPending, EndOfFilePending, DisconnectPending,
     SweepPending DEF Reader, Message

-----------------------------------------------------------------------------
(* The whole system.                                                        *)
LEMMA StillPending ==
  ASSUME PendingInv, UNCHANGED <<queueVars, engineVars>>
  PROVE  PendingInv'
<1>1. UNCHANGED disk /\ UNCHANGED up /\ UNCHANGED storage_failed /\ UNCHANGED task
      /\ UNCHANGED engine
  BY DEF queueVars, engineVars
<1>2. QED
  BY <1>1 DEF PendingInv, Trusted, PendingHeld, ApprovalSaved, ClosingOver, Saved, Over, StarterFits

(* New threads have taken no message yet.                                   *)
LEMMA NewThreadsRest ==
  ASSUME NEW place, ThreadsEnd(place)
  PROVE  /\ \A x \in TaskIds : task'[x].at = "idle" /\ task'[x].job = 0 /\ task'[x].message = Nothing
         /\ \A x \in Ids : StarterFits(task'[x])
<1>1. \A x \in TaskIds : task'[x] = Rest("idle")
  BY DEF ThreadsEnd, TaskIds
<1>2. Rest("idle").at = "idle" /\ Rest("idle").job = 0 /\ Rest("idle").message = Nothing
  BY DEF Rest
<1>3. QED  BY <1>1, <1>2, TaskIdsFacts DEF StarterFits, ReaderPlaces

LEMMA CrashPending ==
  ASSUME SupervisorInv, PendingInv, SupervisorCrash
  PROVE  PendingInv'
<1>1. ThreadsEnd("stopped") /\ up' = FALSE /\ disk' = disk
  BY DEF SupervisorCrash, Crash, memory
<1>2. QED  BY <1>1, NewThreadsRest DEF PendingInv, Trusted

LEMMA RestartPending ==
  ASSUME SupervisorInv, PendingInv, SupervisorRestart
  PROVE  /\ PendingInv'
         /\ \A k \in DOMAIN disk'.jobs : disk'.jobs[k].pending = {}
<1>1. PICK max_running \in Limits : RestartOver(Restart(max_running))
  BY DEF SupervisorRestart
<1>2. ThreadsEnd("top") /\ disk' = Recovered(disk)
  BY <1>1 DEF RestartOver, Restart
<1>3. /\ disk \in Image
      /\ DOMAIN disk'.jobs = DOMAIN disk.jobs
      /\ \A i \in DOMAIN disk.jobs :
           disk'.jobs[i] = IF i \in Active(disk)
                           THEN [disk.jobs[i] EXCEPT !.status = "unknown", !.pending = {}]
                           ELSE disk.jobs[i]
  BY <1>2, RecoveredTyped DEF SupervisorInv, SpoolInv, Aligned
<1>4. \A job \in Job : [job EXCEPT !.status = "unknown", !.pending = {}].pending = {}
  BY DEF Job
<1>5. \A k \in DOMAIN disk'.jobs : disk'.jobs[k].pending = {}
  <2>1. SUFFICES ASSUME NEW k \in DOMAIN disk.jobs
                 PROVE  disk'.jobs[k].pending = {}
    BY <1>3
  <2>2. disk.jobs[k] \in Job
    BY <1>3, ImageParts
  <2>3. CASE k \in Active(disk)
    BY <1>3, <1>4, <2>2, <2>3
  <2>4. CASE k \notin Active(disk)
    BY <1>3, <2>4, PendingActive
  <2>5. QED  BY <2>3, <2>4
<1>6. PendingInv'
  BY <1>2, <1>5, NewThreadsRest, TaskIdsFacts
     DEF PendingInv, PendingHeld, ApprovalSaved, ClosingOver
<1>7. QED  BY <1>5, <1>6

LEMMA PendingInvStays ==
  ASSUME SupervisorInv, PendingInv, Named = {}, [SupervisorNext]_vars
  PROVE  PendingInv'
<1>1. QueueStep
  BY SupervisorAdvances DEF Advances
<1>2. CASE UNCHANGED vars
  BY <1>2, StillPending DEF vars
<1>3. CASE (Serves \/ MayServe \/ (up /\ ServerDies) \/ \E i \in Ids : TurnStops(i))
           /\ UNCHANGED <<queueVars, engineVars>>
  BY <1>3, StillPending
<1>4. ASSUME NEW i \in Ids, Start(i) \/ StartTimeout(i) \/ Message(i)
      PROVE  PendingInv'
  BY <1>1, <1>4, StarterPending, LookUpPending, CompletionPending, CloseTurnPending, TaskIdsFacts
     DEF Message
<1>5. CASE Owner \/ \E i \in Ids : StopSend(i) \/ StopTimeout(i) \/ StopLost(i)
  BY <1>1, <1>5, OwnerShape, StopsShape, HttpPending
<1>6. QED
  BY <1>1, <1>2, <1>3, <1>4, <1>5, DispatchPending, ReaderPending, CrashPending, RestartPending
     DEF SupervisorNext

LEMMA PendingStarts ==
  ASSUME SupervisorInit
  PROVE  PendingInv
<1>1. DOMAIN disk.jobs = {} /\ \A x \in TaskIds : task[x].at = "idle"
  <2>1. /\ disk = Empty
        /\ \A x \in TaskIds : task[x] = Rest("idle")
    BY DEF SupervisorInit, Init, TaskIds
  <2>2. Rest("idle").at = "idle" /\ DOMAIN Empty.jobs = {}
    BY DEF Rest, Empty
  <2>3. QED  BY <2>1, <2>2
<1>2. \A x \in Ids : StarterFits(task[x])
  BY <1>1, TaskIdsFacts DEF StarterFits, ReaderPlaces
<1>3. PendingHeld /\ ApprovalSaved /\ ClosingOver
  BY <1>1, TaskIdsFacts DEF PendingHeld, ApprovalSaved, ClosingOver
<1>4. QED  BY <1>1, <1>2, <1>3 DEF PendingInv

(* A button of the page works: as long as the process may write its         *)
(* journal, a decision that the page offers for a pending request is one    *)
(* CodexEngine.answer takes, unless the job is being interrupted or the     *)
(* reader is taking the request out of the journal.  No order of approvals, *)
(* completions, losses of the connection, timeouts and restarts leaves a    *)
(* job that waits with a button whose request the engine has forgotten.     *)
THEOREM ButtonsAlwaysWork ==
  ASSUME Named = {}
  PROVE  SupervisorSpec => []ButtonsWork
<1>1. SupervisorInit => SupervisorInv /\ PendingInv
  BY InvariantStarts, PendingStarts
<1>2. SupervisorInv /\ PendingInv /\ [SupervisorNext]_vars => SupervisorInv' /\ PendingInv'
  BY InvariantStays, PendingInvStays
<1>3. SupervisorInv /\ PendingInv => ButtonsWork
  <2>1. SUFFICES ASSUME SupervisorInv, PendingInv, Trusted,
                        NEW i \in DOMAIN data.jobs, NEW b \in Buttons(i)
                 PROVE  \/ Accepted(i, b[1], b[2])
                        \/ StatusOf(i) = "cancelling"
                        \/ At(0, "resolved") /\ task[0].job = i /\ task[0].message.turn = b[1]
    BY DEF ButtonsWork, Trusted
  <2>2. /\ data = disk /\ b[1] = i /\ b[1] \in disk.jobs[i].pending
        /\ question[b[1]].supported /\ b[2] \in question[b[1]].available
    BY <2>1 DEF SupervisorInv, SpoolInv, Aligned, PendingInv, Buttons
  <2>3. StatusOf(i) \in {"waiting_approval", "cancelling"}
    BY <2>1, <2>2, PendingActive DEF StatusOf
  <2>4. Saved(i) \/ (task[0].at = "resolved" /\ task[0].job = i)
    BY <2>1, <2>2 DEF PendingInv, PendingHeld
  <2>5. "resolved" \in WithJob /\ "resolved" \in WithMessage
    BY DEF WithJob, WithMessage
  <2>6. task[0].at = "resolved" => task[0].job = task[0].message.turn
    BY <2>1, <2>5, TaskIdsFacts, WithMessageFacts
  <2>7. QED  BY <2>2, <2>3, <2>4, <2>6 DEF Saved, Accepted, At
<1>4. QED  BY <1>1, <1>2, <1>3, PTL DEF SupervisorSpec

-----------------------------------------------------------------------------
(* Which steps give a slot to a job that runs: the claim of that job.       *)
LEMMA QuietTouches ==
  ASSUME SupervisorInv, NEW i \in Known, QuietReporting(i)
  PROVE  Touches(i)
<1>1. /\ i \in DOMAIN data.jobs /\ ThreadOf(i) = i /\ i \in Threads /\ i \in Turns /\ Aligned
  BY OwnThreads, KnownIds, IdsFacts DEF SupervisorInv, SpoolInv
<1>2. "failed" \in TERMINAL /\ "completed" \in TERMINAL
  BY DEF TERMINAL
<1>3. CASE AttachThread(i, ThreadOf(i))
  BY <1>1, <1>3, ThreadTouches
<1>4. CASE AttachTurn(i, i)
  BY <1>1, <1>4, TurnTouches
<1>5. CASE EventComplete(i, "failed") \/ EventComplete(i, "completed")
  BY <1>1, <1>2, <1>5, CompleteTouches DEF Turned
<1>6. CASE EventUnknown(i)
  BY <1>1, <1>6, UnknownTouches DEF Turned
<1>7. QED  BY <1>3, <1>4, <1>5, <1>6 DEF QuietReporting

LEMMA TouchesStarts ==
  ASSUME SupervisorInv, QueueStep, NEW i \in Known, Touches(i)
  PROVE  Running(disk') \subseteq Running(disk)
<1>1. SUFFICES ASSUME NEW k \in Running(disk'), k # i
               PROVE  k \in Running(disk)
  BY SlotsRest
<1>2. k \in DOMAIN disk.jobs /\ disk'.jobs[k] = disk.jobs[k]
  BY <1>1 DEF Touches, Running, Active
<1>3. QED  BY <1>1, <1>2 DEF Running, Active

LEMMA OwnerStarts ==
  ASSUME SupervisorInv, QueueStep, Owning
  PROVE  Running(disk') \subseteq Running(disk)
<1>1. Aligned /\ data = disk
  BY DEF SupervisorInv, SpoolInv, Aligned
<1>2. disk'.jobs = disk.jobs => Running(disk') \subseteq Running(disk)
  BY DEF Running, Active
<1>3. JobArrives => Running(disk') \subseteq Running(disk)
  BY DEF JobArrives, Running, Active, OCCUPIED
<1>4. ASSUME NEW i \in DOMAIN data.jobs, Cancel(i)
      PROVE  Running(disk') \subseteq Running(disk)
  <2>1. Touches(i) /\ (SameStatus(i) \/ i \in Running(disk) \/ disk'.jobs[i].status = "cancelled")
    BY <1>1, <1>4, CancelTouches DEF Running, Active, OCCUPIED
  <2>2. QED  BY <1>1, <2>1 DEF Touches, SameStatus, Running, Active, OCCUPIED
<1>5. ASSUME NEW i \in DOMAIN data.jobs, ConfirmStopped(i)
      PROVE  Running(disk') \subseteq Running(disk)
  <2>1. Touches(i) /\ (SameStatus(i) \/ disk'.jobs[i].status = "interrupted")
    BY <1>1, <1>5, ConfirmTouches DEF Turned
  <2>2. QED  BY <1>1, <2>1 DEF Touches, SameStatus, Running, Active, OCCUPIED
<1>6. QED  BY <1>1, <1>2, <1>3, <1>4, <1>5, SubmitAdds, PauseKeepsJobs DEF Owning

LEMMA ClaimStarts ==
  ASSUME SupervisorInv, Claiming, NEW k \in Running(disk'), k \notin Running(disk)
  PROVE  k \in DOMAIN data.jobs /\ ClaimReturns(k, {})
<1>1. data \in Image /\ data = disk
  BY DEF SupervisorInv, SpoolInv, Aligned
<1>2. "failed" \in Status /\ "starting" \in Status
  BY DEF Status, OCCUPIED, TERMINAL
<1>3. ASSUME NEW S, disk' = Mark(data, S, "failed")
      PROVE  FALSE
  <2>1. /\ k \in DOMAIN disk.jobs
        /\ disk'.jobs[k].status = IF k \in S THEN "failed" ELSE disk.jobs[k].status
    BY <1>1, <1>2, <1>3, MarkTouches DEF Running, Active
  <2>2. QED  BY <2>1 DEF Running, Active, OCCUPIED
<1>4. CASE ClaimReturnsNothing({})
  <2>1. disk' = disk \/ disk' = Mark(data, Dropped({}), "failed")
    BY <1>4 DEF ClaimReturnsNothing, memory, WriteOk
  <2>2. QED  BY <1>3, <2>1 DEF Running, Active
<1>5. CASE ClaimRaises({})
  <2>1. \E last : disk' = Mark(data, {i \in Dropped({}) : i < last}, "failed")
    BY <1>5 DEF ClaimRaises
  <2>2. QED  BY <1>3, <2>1
<1>6. ASSUME NEW i \in DOMAIN data.jobs, ClaimReturns(i, {})
      PROVE  k = i
  <2> DEFINE q == Mark(data, Dropped({}), "failed")
             n == Mark(q, {i}, "starting")
  <2>1. disk' = n
    BY <1>6 DEF ClaimReturns, WriteOk
  <2>2. q \in Image
    BY <1>1, <1>2, MarkTyped
  <2>3. /\ DOMAIN q.jobs = DOMAIN data.jobs
        /\ \A j \in DOMAIN data.jobs :
             q.jobs[j].status = IF j \in Dropped({}) THEN "failed" ELSE data.jobs[j].status
    BY <1>1, <1>2, MarkTouches
  <2> HIDE DEF q
  <2>4. /\ DOMAIN n.jobs = DOMAIN q.jobs
        /\ \A j \in DOMAIN q.jobs :
             n.jobs[j].status = IF j \in {i} THEN "starting" ELSE q.jobs[j].status
    BY <1>2, <2>2, MarkTouches
  <2> HIDE DEF n
  <2>5. QED  BY <1>1, <2>1, <2>3, <2>4 DEF Running, Active, OCCUPIED
<1>7. QED  BY <1>4, <1>5, <1>6 DEF Claiming

-----------------------------------------------------------------------------
(* The inductive invariant of SlotsHaveTurns and AskingIsShown, beside the  *)
(* three above.  While the process serves, its reader lives; what is no     *)
(* longer looked at is over; a job that runs without a turn has a starter;  *)
(* the end of a turn and its question are on their way or have been taken   *)
(* up.                                                                      *)
Serving == Trusted /\ server
Starting == Pre \cup {"waitTurn", "failed", "lost"}

ReaderLives ==
  ~engine.closed /\ task[0].at \notin {"eof", "disconnect", "sweep", "dead"}

TurnsAreOver ==
  /\ \A t \in engine.closed_turns : t \in Known /\ Over(t)
  /\ \A m \in engine.early : Over(m.turn)
  /\ \A x \in Ids : task[x].at \in WithMessage => Over(task[x].message.turn)
  /\ task[0].at = "completion" /\ task[0].job = 0 => Over(task[0].message.turn)

StartsGoOn ==
  \A i \in Running(disk) : turn[i] = "none" => task[i].at \in Starting

EndTold(i) ==
  \/ \E kind \in Emits \ {"approval"} : Answer_(kind, i)
  \/ /\ task[0].at \in {"message", "completion"} /\ task[0].message.turn = i
     /\ task[0].message.kind \in Emits \ {"approval"}
EndsAreTold == \A i \in Running(disk) : turn[i] = "ended" => EndTold(i)

Shown(i) == i \in disk.jobs[i].pending \/ disk.jobs[i].status = "unknown"
Deciding(i) == \E m \in inbox : m[1] \in {"answer", "deny"} /\ m[3] = i
AskTold(i) ==
  \/ Answer_("approval", i) \/ Deciding(i) \/ Shown(i)
  \/ /\ task[0].at \in {"save", "save new", "attach", "approve"} \/
          (task[0].at = "message" /\ task[0].message.kind = "approval")
     /\ task[0].message.turn = i
AsksAreTold == \A i \in Ids : turn[i] = "asking" => AskTold(i)

TurnBegun(i) ==
  /\ Asked("reply", i) \/ Answer_("turnOk", i) => turn[i] # "none"
  /\ Asked("turn", i) \/ turn[i] # "none" => i \in Housed

Resolving(i) ==
  \/ Answer_("resolved", i)
  \/ /\ task[0].at \in {"resolve", "resolved"} \/
          (task[0].at = "message" /\ task[0].message.kind = "resolved")
     /\ task[0].message.turn = i

NewsInv ==
  /\ \A i \in Ids : TurnBegun(i)
  /\ \A i \in Ids : Resolving(i) => turn[i] \in {"answered", "ended"}
  /\ Serving => ReaderLives /\ TurnsAreOver /\ StartsGoOn /\ EndsAreTold /\ AsksAreTold

NewsContext == SupervisorInv /\ TurnsInv /\ PendingInv /\ NewsInv

(* What a step of the supervisor has to keep, the turns being left alone.   *)
LEMMA NewsKept ==
  ASSUME SupervisorInv, NewsInv, SupervisorInv', TurnsInv', QueueStep, UNCHANGED <<turn, server>>,
         Trusted' => Trusted,
         \A k \in Ids : Asked("turn", k)' => Asked("turn", k) \/ k \in Housed,
         \A k \in Ids : Asked("reply", k)' => Asked("reply", k),
         \A k : Answer_("turnOk", k)' => Answer_("turnOk", k),
         \A k \in Ids : Resolving(k)' => Resolving(k),
         Serving' =>
           /\ ReaderLives'
           /\ \A t \in engine'.closed_turns :
                t \in engine.closed_turns \/ (t \in Known /\ t \notin Active(disk'))
           /\ \A m \in engine'.early : m \in engine.early \/ m.turn \notin Active(disk')
           /\ \A x \in Ids : task'[x].at \in WithMessage =>
                \/ task[x].at \in WithMessage /\ task'[x].message = task[x].message
                \/ task'[x].message.turn \notin Active(disk')
           /\ task'[0].at = "completion" /\ task'[0].job = 0 =>
                \/ /\ task[0].at = "completion" /\ task[0].job = 0
                   /\ task'[0].message = task[0].message
                \/ task'[0].message.turn \notin Active(disk')
           /\ \A k \in Running(disk') : turn[k] = "none" =>
                \/ task'[k].at \in Starting
                \/ k \in Running(disk) /\ task'[k].at = task[k].at
           /\ \A k \in Running(disk') :
                k \in Running(disk) /\ turn[k] = "ended" /\ EndTold(k) => EndTold(k)'
           /\ \A k \in Ids : turn[k] = "asking" /\ AskTold(k) => AskTold(k)'
  PROVE  NewsInv'
<1>1. Known \subseteq Known' /\ Housed \subseteq Housed'
  BY KnownGrows DEF SupervisorInv
<1>2. \A k \in Known : k \notin Active(disk) => k \notin Active(disk')
  BY SlotsRest
<1>3. \A i \in Ids : TurnBegun(i)'
  BY <1>1 DEF NewsInv, TurnBegun
<1>4. \A i \in Ids : Resolving(i)' => turn'[i] \in {"answered", "ended"}
  BY DEF NewsInv
<1>5. ASSUME Serving'
      PROVE  /\ ReaderLives' /\ TurnsAreOver' /\ StartsGoOn' /\ EndsAreTold' /\ AsksAreTold'
  <2>1. Serving /\ ReaderLives /\ TurnsAreOver /\ StartsGoOn /\ EndsAreTold /\ AsksAreTold
    BY <1>5 DEF Serving, NewsInv
  <2>2. TurnsAreOver'
    <3>1. \A t \in engine'.closed_turns : t \in Known' /\ t \notin Active(disk')
      BY <1>1, <1>2, <1>5, <2>1 DEF TurnsAreOver, Over
    <3>2. ASSUME NEW m \in engine'.early  PROVE  m.turn \notin Active(disk')
      <4>1. m \in engine.early => m.turn \in Known /\ m.turn \notin Active(disk)
        BY <2>1 DEF SupervisorInv, Fits, EngineFits, TurnsAreOver, Over
      <4>2. QED  BY <1>2, <1>5, <4>1
    <3>3. ASSUME NEW x \in Ids, task'[x].at \in WithMessage
          PROVE  task'[x].message.turn \notin Active(disk')
      <4>1. task[x].at \in WithMessage =>
              task[x].message.turn \in Known /\ task[x].message.turn \notin Active(disk)
        BY <2>1, TaskIdsFacts, WithMessageFacts DEF TurnsAreOver, Over
      <4>2. QED  BY <1>2, <1>5, <3>3, <4>1
    <3>4. ASSUME task'[0].at = "completion", task'[0].job = 0
          PROVE  task'[0].message.turn \notin Active(disk')
      <4>1. "completion" \in WithMessage
        BY DEF WithMessage
      <4>2. task[0].at = "completion" /\ task[0].job = 0 =>
              task[0].message.turn \in Known /\ task[0].message.turn \notin Active(disk)
        BY <2>1, <4>1, TaskIdsFacts, WithMessageFacts DEF TurnsAreOver, Over
      <4>3. QED  BY <1>2, <1>5, <3>4, <4>2
    <3>5. QED  BY <3>1, <3>2, <3>3, <3>4 DEF TurnsAreOver, Over
  <2>3. StartsGoOn'
    BY <1>5, <2>1 DEF StartsGoOn
  <2>4. EndsAreTold'
    <3>1. SUFFICES ASSUME NEW k \in Running(disk'), turn[k] = "ended"
                   PROVE  EndTold(k)'
      BY DEF EndsAreTold
    <3>2. k \in Ids
      BY DEF SupervisorInv, OwnNames, Running, Active
    <3>3. k \in Known
      BY <3>1, <3>2 DEF SupervisorInv, Fits, TurnsFit
    <3>4. k \in Running(disk)
      BY <3>1, <3>3, SlotsRest
    <3>5. QED  BY <1>5, <2>1, <3>1, <3>4 DEF EndsAreTold
  <2>5. AsksAreTold'
    BY <1>5, <2>1 DEF AsksAreTold
  <2>6. QED  BY <1>5, <2>2, <2>3, <2>4, <2>5
<1>6. QED  BY <1>3, <1>4, <1>5 DEF NewsInv

(* A question that is shown to the owner stays so while the turn waits.     *)
LEMMA ShownStays ==
  ASSUME SupervisorInv, TurnsInv', QueueStep, PendingRests,
         NEW k \in Ids, turn[k] = "asking", turn'[k] = "asking", Shown(k)
  PROVE  Shown(k)'
<1>1. k \in Known /\ k \in DOMAIN disk.jobs
  BY DEF SupervisorInv, Fits, TurnsFit, Known
<1>2. k \in Active(disk')
  BY DEF TurnsInv, TurnHolds, Live
<1>3. disk'.jobs[k].status \notin TERMINAL
  BY <1>2 DEF Active, OCCUPIED, TERMINAL
<1>4. CASE k \in disk.jobs[k].pending
  BY <1>1, <1>3, <1>4 DEF PendingRests, KeepsPending, Shown
<1>5. CASE disk.jobs[k].status = "unknown"
  BY <1>1, <1>2, <1>5, SlotsRest DEF Running, Active, Shown, OCCUPIED
<1>6. QED  BY <1>4, <1>5 DEF Shown

(* A step of another thread than the reader.                                *)
LEMMA ReaderRests ==
  ASSUME NewsContext, SupervisorInv', TurnsInv', QueueStep, QuietCall,
         UNCHANGED <<turn, server, up, wire>>, task'[0] = task[0],
         engine'.closed = engine.closed, inbox \subseteq inbox',
         \A k \in Ids : Asked("turn", k)' => Asked("turn", k) \/ k \in Housed,
         \A k \in Ids : Asked("reply", k)' => Asked("reply", k),
         Serving' =>
           /\ \A t \in engine'.closed_turns :
                t \in engine.closed_turns \/ (t \in Known /\ t \notin Active(disk'))
           /\ \A m \in engine'.early : m \in engine.early \/ m.turn \notin Active(disk')
           /\ \A x \in Ids : task'[x].at \in WithMessage =>
                \/ task[x].at \in WithMessage /\ task'[x].message = task[x].message
                \/ task'[x].message.turn \notin Active(disk')
           /\ \A k \in Running(disk') : turn[k] = "none" =>
                \/ task'[k].at \in Starting
                \/ k \in Running(disk) /\ task'[k].at = task[k].at
  PROVE  NewsInv'
<1>1. PendingRests
  BY CallRests DEF NewsContext
<1>2. Trusted' => Trusted
  BY FailureStays DEF Trusted
<1>3. \A kind, k : Answer_(kind, k)' <=> Answer_(kind, k)
  BY DEF Answer_
<1>4. \A k : (Resolving(k)' <=> Resolving(k)) /\ (EndTold(k)' <=> EndTold(k))
  BY <1>3 DEF Resolving, EndTold
<1>5. ASSUME NEW k \in Ids, turn[k] = "asking", AskTold(k)
      PROVE  AskTold(k)'
  <2>1. Shown(k) => Shown(k)'
    BY <1>1, <1>5, ShownStays DEF NewsContext
  <2>2. Deciding(k) => Deciding(k)'
    BY DEF Deciding
  <2>3. QED  BY <1>3, <1>5, <2>1, <2>2 DEF AskTold
<1>6. Serving' => ReaderLives'
  BY <1>2 DEF Serving, NewsContext, NewsInv, ReaderLives
<1>7. UNCHANGED <<turn, server>>
  OBVIOUS
<1>8. Serving' => \A k \in Running(disk') :
        k \in Running(disk) /\ turn[k] = "ended" /\ EndTold(k) => EndTold(k)'
  BY <1>4
<1>9. task'[0].at = "completion" /\ task'[0].job = 0 =>
        /\ task[0].at = "completion" /\ task[0].job = 0
        /\ task'[0].message = task[0].message
  OBVIOUS
<1>10. QED  BY <1>2, <1>3, <1>4, <1>5, <1>6, <1>7, <1>8, <1>9, NewsKept DEF NewsContext

(* One of the HTTP threads.                                                 *)
LEMMA HttpNews ==
  ASSUME NewsContext, SupervisorInv', TurnsInv', QueueStep, QuietCall, HttpOnly,
         inbox \subseteq inbox', \A m \in inbox' \ inbox : m[1] \notin {"turn", "reply"},
         Running(disk') \subseteq Running(disk)
  PROVE  NewsInv'
<1>1. UNCHANGED <<turn, server, up, wire>> /\ UNCHANGED task /\ UNCHANGED engine
  BY DEF HttpOnly
<1>2. \A k \in Ids : /\ Asked("turn", k)' => Asked("turn", k)
                     /\ Asked("reply", k)' => Asked("reply", k)
  BY DEF Asked
<1>3. QED  BY <1>1, <1>2, ReaderRests

LEMMA OwnerNews ==
  ASSUME NewsContext, SupervisorInv', TurnsInv', QueueStep, Named = {}, Owner
  PROVE  NewsInv'
<1>1. QuietCall /\ HttpOnly
  BY OwnerShape DEF NewsContext
<1>2. OwnerSubmits => Owning /\ UNCHANGED inbox
  BY DEF OwnerSubmits, Owning
<1>3. OwnerPauses => Owning /\ UNCHANGED inbox
  BY DEF OwnerPauses, Owning
<1>4. \A i \in DOMAIN data.jobs : OwnerCancels(i) \/ OwnerConfirms(i) => Owning /\ UNCHANGED inbox
  BY DEF OwnerCancels, OwnerConfirms, Owning
<1>5. \A i \in DOMAIN data.jobs : OwnerAnswers(i) =>
        UNCHANGED memory /\ \E r : inbox' = inbox \cup {<<"answer", i, r>>}
  BY DEF OwnerAnswers
<1>6. \/ Owning /\ UNCHANGED inbox
      \/ UNCHANGED memory /\ \E i, r : inbox' = inbox \cup {<<"answer", i, r>>}
  BY <1>2, <1>3, <1>4, <1>5 DEF Owner
<1>7. Running(disk') \subseteq Running(disk)
  BY <1>6, OwnerStarts DEF NewsContext, memory
<1>8. inbox \subseteq inbox' /\ \A m \in inbox' \ inbox : m[1] \notin {"turn", "reply"}
  BY <1>6
<1>9. QED  BY <1>1, <1>7, <1>8, HttpNews

LEMMA StopsNews ==
  ASSUME NewsContext, SupervisorInv', TurnsInv', QueueStep,
         NEW i \in Ids, StopSend(i) \/ StopTimeout(i) \/ StopLost(i)
  PROVE  NewsInv'
<1>1. QuietCall /\ HttpOnly
  BY StopsShape DEF NewsContext
<1>2. i \in Known /\ (UNCHANGED memory \/ EventUnknown(i))
  BY DEF StopSend, StopTimeout, StopLost, NewsContext, SupervisorInv, Fits, StoppersFit
<1>3. Running(disk') \subseteq Running(disk)
  BY <1>2, QuietTouches, TouchesStarts DEF NewsContext, memory, QuietReporting
<1>4. UNCHANGED inbox \/ \E t : inbox' = inbox \cup {<<"interrupt", i, t>>}
  BY DEF StopSend, StopTimeout, StopLost
<1>5. inbox \subseteq inbox' /\ \A m \in inbox' \ inbox : m[1] \notin {"turn", "reply"}
  BY <1>4
<1>6. QED  BY <1>1, <1>3, <1>5, HttpNews

LEMMA DispatchNews ==
  ASSUME NewsContext, SupervisorInv', TurnsInv', QueueStep, DispatchTop \/ DispatchClaim
  PROVE  NewsInv'
<1>1. UNCHANGED up /\ UNCHANGED <<turn, server, up, wire>> /\ UNCHANGED engine /\ UNCHANGED inbox
  BY DEF DispatchTop, DispatchClaim, DispatchClaimWith, Claims, serverVars, queueVars
<1>2. \/ UNCHANGED memory /\ UNCHANGED task
      \/ Claiming /\ UNCHANGED task /\ ClaimReturnsNothing({})
      \/ Claiming /\ UNCHANGED task /\ ClaimRaises({})
      \/ \E i \in DOMAIN data.jobs : ClaimReturns(i, {}) /\ Goes(i, "check")
  BY DEF DispatchTop, DispatchClaim, DispatchClaimWith, Claims, Claiming, queueVars, memory
<1>3. 0 \notin Ids /\ SupervisorInv /\ "check" \in Starting /\ "check" \notin WithMessage
  BY TaskIdsFacts DEF NewsContext, Starting, Pre, WithMessage, WithJob
<1>4. QuietCall
  BY <1>2 DEF QuietCall, Claiming
<1>5. \A k \in Running(disk') : k \in Running(disk) \/ (k \in DOMAIN data.jobs /\ ClaimReturns(k, {}))
  <2>1. UNCHANGED memory => Running(disk') = Running(disk)
    BY DEF memory, Running, Active
  <2>2. QED  BY <1>2, <1>3, <2>1, ClaimStarts DEF Claiming
<1>6. /\ \A k \in Ids : (Asked("turn", k)' => Asked("turn", k)) /\ (Asked("reply", k)' => Asked("reply", k))
      /\ engine'.closed = engine.closed /\ engine'.closed_turns = engine.closed_turns
      /\ engine'.early = engine.early /\ inbox \subseteq inbox'
  BY <1>1 DEF Asked
<1>7. ASSUME NEW i \in DOMAIN data.jobs, ClaimReturns(i, {})
      PROVE  /\ i \in Ids
             /\ \A k \in DOMAIN data.jobs : ClaimReturns(k, {}) => k = i
  <2>1. data \in Image /\ data = disk
    BY <1>3 DEF SupervisorInv, SpoolInv, Aligned
  <2>2. DOMAIN data.jobs \subseteq Nat
    BY <2>1 DEF Image
  <2>3. i \in Ids
    BY <1>3, <1>7, <2>1 DEF SupervisorInv, OwnNames
  <2>4. QED  BY <1>7, <2>2, <2>3 DEF ClaimReturns, Chosen
<1>8. ASSUME NEW i \in DOMAIN data.jobs, ClaimReturns(i, {}), Goes(i, "check")
      PROVE  NewsInv'
  <2>1. i \in TaskIds /\ i # 0
    BY <1>3, <1>7, <1>8, TaskIdsFacts
  <2>2. task'[i].at = "check" /\ \A y \in TaskIds : y # i => task'[y] = task[y]
    BY <1>3, <1>8, <2>1, GoesFitsStarter
  <2>3. task'[0] = task[0]
    BY <2>1, <2>2, TaskIdsFacts
  <2>4. \A x \in Ids : task'[x].at \in WithMessage =>
          task[x].at \in WithMessage /\ task'[x].message = task[x].message
    BY <1>3, <2>2, TaskIdsFacts
  <2>5. \A k \in Running(disk') :
          \/ task'[k].at \in Starting
          \/ k \in Running(disk) /\ task'[k].at = task[k].at
    <3>1. TAKE k \in Running(disk')
    <3>2. k \in TaskIds
      BY <1>3, TaskIdsFacts DEF SupervisorInv, OwnNames, Running, Active
    <3>3. CASE k = i
      BY <1>3, <2>2, <3>3
    <3>4. CASE k # i
      BY <1>5, <1>7, <1>8, <2>2, <3>2, <3>4
    <3>5. QED  BY <3>3, <3>4
  <2>6. QED  BY <1>1, <1>4, <1>6, <2>3, <2>4, <2>5, ReaderRests
<1>9. CASE UNCHANGED memory /\ UNCHANGED task
  <2>1. Running(disk') = Running(disk)
    BY <1>9 DEF memory, Running, Active
  <2>2. QED  BY <1>1, <1>4, <1>6, <1>9, <2>1, ReaderRests
<1>10. CASE Claiming /\ UNCHANGED task /\ (ClaimReturnsNothing({}) \/ ClaimRaises({}))
  <2>1. Running(disk') \subseteq Running(disk)
    <3>1. SUFFICES ASSUME NEW k \in Running(disk'), k \notin Running(disk)  PROVE FALSE
      OBVIOUS
    <3>2. k \in DOMAIN data.jobs /\ ClaimReturns(k, {})
      BY <1>5, <3>1
    <3>3. disk'.jobs[k].status = "starting" /\ Chosen(k, {}) /\ storage_failed' = storage_failed
      BY <1>3, <1>10, <3>2, ClaimTouches DEF SupervisorInv, SpoolInv, ClaimReturns, WriteOk
    <3>4. CASE ClaimReturnsNothing({})
      BY <3>3, <3>4 DEF ClaimReturnsNothing, Chosen
    <3>5. CASE ClaimRaises({})
      BY <3>2, <3>5 DEF ClaimRaises, ClaimReturns, WriteOk
    <3>6. QED  BY <1>10, <3>4, <3>5
  <2>2. QED  BY <1>1, <1>4, <1>6, <1>10, <2>1, ReaderRests
<1>11. QED  BY <1>2, <1>8, <1>9, <1>10

(* A step of the starter of job i.                                          *)
LEMMA ThreadNews ==
  ASSUME NewsContext, SupervisorInv', TurnsInv', QueueStep, QuietCall, NEW i \in Ids,
         UNCHANGED <<turn, server, up, wire>>, \A y \in TaskIds : y # i => task'[y] = task[y],
         engine'.closed = engine.closed,
         \/ UNCHANGED inbox
         \/ inbox' = inbox \cup {<<"thread", i, i>>}
         \/ inbox' = inbox \cup {<<"turn", i, i>>} /\ i \in Housed,
         Serving' =>
           /\ Running(disk') \subseteq Running(disk)
           /\ \A t \in engine'.closed_turns :
                t \in engine.closed_turns \/ (t \in Known /\ t \notin Active(disk'))
           /\ \A m \in engine'.early : m \in engine.early \/ m.turn \notin Active(disk')
           /\ task'[i].at \in WithMessage =>
                \/ task[i].at \in WithMessage /\ task'[i].message = task[i].message
                \/ task'[i].message.turn \notin Active(disk')
           /\ \/ task'[i].at \in Starting \/ turn[i] # "none"
              \/ i \notin Running(disk') \/ task[i].at \notin Starting
  PROVE  NewsInv'
<1>1. 0 \in TaskIds /\ Ids \subseteq TaskIds /\ i # 0 /\ SupervisorInv
  BY TaskIdsFacts DEF NewsContext
<1>2. task'[0] = task[0]
  BY <1>1
<1>3. inbox \subseteq inbox'
  OBVIOUS
<1>4. \A k \in Ids : /\ Asked("turn", k)' => Asked("turn", k) \/ k \in Housed
                     /\ Asked("reply", k)' => Asked("reply", k)
  BY DEF Asked
<1>5. ASSUME Serving'
      PROVE  /\ \A x \in Ids : task'[x].at \in WithMessage =>
                  \/ task[x].at \in WithMessage /\ task'[x].message = task[x].message
                  \/ task'[x].message.turn \notin Active(disk')
             /\ \A k \in Running(disk') : turn[k] = "none" =>
                  \/ task'[k].at \in Starting
                  \/ k \in Running(disk) /\ task'[k].at = task[k].at
  <2>1. Serving
    BY <1>5, FailureStays DEF Serving, Trusted
  <2>2. ASSUME NEW x \in Ids, task'[x].at \in WithMessage
        PROVE  \/ task[x].at \in WithMessage /\ task'[x].message = task[x].message
               \/ task'[x].message.turn \notin Active(disk')
    <3>1. CASE x = i  BY <1>5, <2>2, <3>1
    <3>2. CASE x # i  BY <1>1, <2>2, <3>2
    <3>3. QED  BY <3>1, <3>2
  <2>3. ASSUME NEW k \in Running(disk'), turn[k] = "none"
        PROVE  \/ task'[k].at \in Starting
               \/ k \in Running(disk) /\ task'[k].at = task[k].at
    <3>1. k \in TaskIds /\ k \in Running(disk)
      BY <1>1, <1>5 DEF SupervisorInv, OwnNames, Running, Active
    <3>2. task[k].at \in Starting
      BY <2>1, <2>3, <3>1 DEF NewsContext, NewsInv, StartsGoOn
    <3>3. CASE k = i  BY <1>5, <2>3, <3>2, <3>3
    <3>4. CASE k # i  BY <3>1, <3>4
    <3>5. QED  BY <3>3, <3>4
  <2>4. QED  BY <2>2, <2>3
<1>6. QED  BY <1>2, <1>3, <1>4, <1>5, ReaderRests

LEMMA QuietStarts ==
  ASSUME SupervisorInv, QueueStep, NEW i \in Known, UNCHANGED memory \/ QuietReporting(i)
  PROVE  Running(disk') \subseteq Running(disk)
<1>1. UNCHANGED memory => Running(disk') = Running(disk)
  BY DEF memory, Running, Active
<1>2. QED  BY <1>1, QuietTouches, TouchesStarts

LEMMA StarterNews ==
  ASSUME NewsContext, SupervisorInv', TurnsInv', QueueStep,
         NEW i \in Ids, Start(i) \/ StartTimeout(i)
  PROVE  NewsInv'
<1> DEFINE AsksFit ==
             \/ UNCHANGED inbox
             \/ inbox' = inbox \cup {<<"thread", i, i>>}
             \/ inbox' = inbox \cup {<<"turn", i, i>>} /\ i \in Housed
           MessageOver ==
             task'[i].at \in WithMessage => task'[i].message.turn \notin Active(disk')
           Places_ ==
             \/ task'[i].at \in Starting \/ turn[i] # "none"
             \/ i \notin Running(disk') \/ task[i].at \notin Starting
           Early == \A m \in engine'.early : m \in engine.early
<1>1. SupervisorInv /\ i \in Known /\ i \in TaskIds
  BY StartersKnown, TaskIdsFacts DEF NewsContext
<1>2. /\ QuietCall /\ StarterOnly /\ KeepsNews
      /\ \A y \in TaskIds : y # i => task'[y] = task[y]
  BY <1>1, StartShape
<1>3. SUFFICES /\ AsksFit /\ Early /\ (UNCHANGED memory \/ QuietReporting(i))
               /\ Serving' => MessageOver /\ Places_
  <2>1. UNCHANGED <<turn, server, up, wire>> /\ engine'.closed = engine.closed
        /\ engine'.closed_turns = engine.closed_turns
    BY <1>2 DEF StarterOnly, KeepsNews
  <2>2. Running(disk') \subseteq Running(disk)
    BY <1>1, <1>3, QuietStarts
  <2>3. QED  BY <1>2, <1>3, <2>1, <2>2, ThreadNews
<1>4. ASSUME NEW place, Goes(i, place)
      PROVE  task'[i].at = place
  BY <1>1, <1>4, GoesIs
<1>5. \A p \in {"done", "sendThread", "sendTurn", "waitThread", "waitTurn", "checkTurn",
                "popEarly", "lost", "failed"} : p \notin WithMessage
  BY DEF WithMessage, WithJob
<1>6. /\ {"sendThread", "sendTurn", "waitThread", "waitTurn", "checkTurn", "lost", "failed"}
             \subseteq Starting
      /\ "attachTurn" \notin Starting /\ "popEarly" \notin Starting
  BY DEF Starting, Pre
<1>7. engine' = engine \/ engine' = [engine EXCEPT !.ready = FALSE] => Early
  BY <1>1 DEF SupervisorInv, Fits, EngineFits
<1>8. storage_failed' => ~Serving'
  BY DEF Serving, Trusted
<1>9. ASSUME NEW at, NEW next \in {"sendThread", "sendTurn"}, StartCheck(i, at, next)
      PROVE  AsksFit /\ Early /\ UNCHANGED memory /\ (Serving' => MessageOver /\ Places_)
  <2>1. UNCHANGED memory /\ UNCHANGED inbox
    BY <1>9 DEF StartCheck
  <2>2. engine' = engine \/ engine' = [engine EXCEPT !.ready = FALSE]
    BY <1>9 DEF StartCheck, Calls
  <2>3. storage_failed' \/ \E p \in {"lost", "failed", next} : Goes(i, p)
    <3>1. storage_failed \/ Goes(i, "lost") \/ Goes(i, "failed") \/ Goes(i, next)
      BY <1>9 DEF StartCheck
    <3>2. storage_failed' = storage_failed
      BY <2>1 DEF memory
    <3>3. QED  BY <3>1, <3>2
  <2>4. QED  BY <1>4, <1>5, <1>6, <1>7, <1>8, <2>1, <2>2, <2>3
<1>10. ASSUME NEW request \in {"thread", "turn"}, NEW at, NEW next \in {"waitThread", "waitTurn"},
              request = "turn" => at = "sendTurn", StartSend(i, at, request, next)
       PROVE  AsksFit /\ Early /\ UNCHANGED memory /\ (Serving' => MessageOver /\ Places_)
  <2>1. UNCHANGED memory /\ engine' = engine /\ task[i].at = at
    BY <1>10 DEF StartSend, At
  <2>2. \E p \in {"lost", next} : Goes(i, p)
    BY <1>10 DEF StartSend
  <2>3. request = "turn" => i \in Housed
    BY <1>1, <1>10, <2>1, TaskIdsFacts DEF SupervisorInv, Fits, TasksFit, PlaceFits, AfterThread
  <2>4. AsksFit
    BY <1>10, <2>3 DEF StartSend
  <2>5. QED  BY <1>4, <1>5, <1>6, <1>7, <2>1, <2>2, <2>4
<1>11. CASE StartAttach(i, "attachThread", AttachThread(i, ThreadOf(i)), "checkTurn")
  <2>1. AttachThread(i, ThreadOf(i)) /\ UNCHANGED inbox
    BY <1>11 DEF StartAttach, Calls
  <2>2. engine' = engine \/ engine' = [engine EXCEPT !.ready = FALSE]
    BY <1>11 DEF StartAttach, Calls
  <2>3. storage_failed' \/ Goes(i, "checkTurn")
    BY <1>11 DEF StartAttach, Calls
  <2>4. QED  BY <1>4, <1>5, <1>6, <1>7, <1>8, <2>1, <2>2, <2>3 DEF QuietReporting
<1>12. CASE StartAttach(i, "attachTurn", AttachTurn(i, i), "popEarly")
  <2>1. AttachTurn(i, i) /\ UNCHANGED inbox /\ task[i].at \notin Starting
    BY <1>6, <1>12 DEF StartAttach, Calls, At
  <2>2. engine' = engine \/ engine' = [engine EXCEPT !.ready = FALSE]
    BY <1>12 DEF StartAttach, Calls
  <2>3. storage_failed' \/ Goes(i, "popEarly")
    BY <1>12 DEF StartAttach, Calls
  <2>4. QED  BY <1>4, <1>5, <1>7, <1>8, <2>1, <2>2, <2>3 DEF QuietReporting
<1>13. CASE StartPopEarly(i)
  <2>1. UNCHANGED memory /\ UNCHANGED inbox /\ task[i].at \notin Starting
    BY <1>6, <1>13 DEF StartPopEarly, At
  <2>2. PICK found \in SUBSET engine.early :
          /\ engine' = [engine EXCEPT !.early = @ \ found]
          /\ Goes(i, "done") \/ \E m \in found : Handles(i, m)
    BY <1>13 DEF StartPopEarly
  <2>3. Early
    BY <1>1, <2>2 DEF SupervisorInv, Fits, EngineFits
  <2>4. Serving' => Serving /\ Active(disk') = Active(disk)
    BY <1>2, <2>1 DEF Serving, Trusted, StarterOnly, memory
  <2>5. ASSUME NEW m \in found, Handles(i, m), Serving'
        PROVE  MessageOver
    <3>1. task'[i].message = m
      BY <1>1, <2>5, HandlesIs
    <3>2. m.turn \notin Active(disk)
      BY <2>4, <2>5 DEF NewsContext, NewsInv, TurnsAreOver, Over
    <3>3. QED  BY <2>4, <2>5, <3>1, <3>2
  <2>6. QED  BY <1>4, <1>5, <2>1, <2>2, <2>3, <2>5
<1>14. CASE StartExcepts(i, "failed", EventComplete(i, "failed"))
  <2>1. EventComplete(i, "failed") /\ UNCHANGED inbox /\ Goes(i, "done")
    BY <1>1, <1>14, TaskIdsFacts DEF StartExcepts, Reports, Calls
  <2>2. engine' = engine \/ engine' = [engine EXCEPT !.ready = FALSE]
    BY <1>14 DEF StartExcepts, Reports, Calls
  <2>3. i \in DOMAIN data.jobs /\ Aligned /\ "failed" \in TERMINAL
    BY <1>1, OwnThreads DEF SupervisorInv, SpoolInv, TERMINAL
  <2>4. Serving' => i \notin Running(disk')
    BY <1>8, <2>1, <2>3, CompleteIsOver DEF Running
  <2>5. QED  BY <1>4, <1>5, <1>7, <2>1, <2>2, <2>4 DEF QuietReporting
<1>15. CASE StartExcepts(i, "lost", EventUnknown(i))
  <2>1. EventUnknown(i) /\ UNCHANGED inbox /\ Goes(i, "done")
    BY <1>1, <1>15, TaskIdsFacts DEF StartExcepts, Reports, Calls
  <2>2. engine' = engine \/ engine' = [engine EXCEPT !.ready = FALSE]
    BY <1>15 DEF StartExcepts, Reports, Calls
  <2>3. i \in DOMAIN data.jobs /\ Aligned
    BY <1>1, OwnThreads DEF SupervisorInv, SpoolInv
  <2>4. Serving' => i \notin Running(disk')
    BY <1>8, <2>1, <2>3, UnknownStops
  <2>5. QED  BY <1>4, <1>5, <1>7, <2>1, <2>2, <2>4 DEF QuietReporting
<1>16. CASE StartTimeout(i)
  <2>1. UNCHANGED memory /\ engine' = engine /\ UNCHANGED inbox /\ Goes(i, "lost")
    BY <1>16 DEF StartTimeout
  <2>2. QED  BY <1>4, <1>5, <1>6, <1>7, <2>1
<1>17. QED  BY <1>9, <1>10, <1>11, <1>12, <1>13, <1>14, <1>15, <1>16 DEF Start

(* What the handling of a message does, by a starter or by the reader.      *)
LEMMA LookUpShape ==
  ASSUME SupervisorInv, PendingInv, NEW x \in TaskIds, LookUp(x)
  PROVE  LET m == task[x].message
             End == m.kind \in Emits \ {"approval"}
             Still == UNCHANGED inbox /\ task'[x].message = m
         IN  /\ UNCHANGED <<memory, stopper, engine, sweep, wire>> /\ ReaderOnly
             /\ task[x].at = "message"
             /\ \A y \in TaskIds : y # x => task'[y] = task[y]
             /\ \/ x = 0 /\ m.kind = "resolved" /\ Still /\ task'[0].at = "resolve"
                \/ /\ End /\ m.turn \in engine.closed_turns
                   /\ UNCHANGED inbox /\ task'[x].at \in {"idle", "done"}
                \/ End /\ Still /\ task'[x].at = "completion" /\ task'[x].job = ActiveFor(m)
                \/ x = 0 /\ m.kind = "approval" /\ Still /\ task'[0].at \in {"save", "save new"}
                \/ /\ x = 0 /\ m.kind = "approval" /\ ~Disconnected
                   /\ task'[0].at = "idle" /\ inbox' = inbox \cup {<<"deny", 0, m.turn>>}
                \/ x = 0 /\ Disconnected /\ task'[0].at = "eof" /\ UNCHANGED inbox
<1> DEFINE m == task[x].message
           End == m.kind \in Emits \ {"approval"}
           Still == UNCHANGED inbox /\ task'[x].message = m
           Others == \A y \in TaskIds : y # x => task'[y] = task[y]
           Outcome ==
                \/ x = 0 /\ m.kind = "resolved" /\ Still /\ task'[0].at = "resolve"
                \/ /\ End /\ m.turn \in engine.closed_turns
                   /\ UNCHANGED inbox /\ task'[x].at \in {"idle", "done"}
                \/ End /\ Still /\ task'[x].at = "completion" /\ task'[x].job = ActiveFor(m)
                \/ x = 0 /\ m.kind = "approval" /\ Still /\ task'[0].at \in {"save", "save new"}
                \/ /\ x = 0 /\ m.kind = "approval" /\ ~Disconnected
                   /\ task'[0].at = "idle" /\ inbox' = inbox \cup {<<"deny", 0, m.turn>>}
                \/ x = 0 /\ Disconnected /\ task'[0].at = "eof" /\ UNCHANGED inbox
<1>1. /\ UNCHANGED <<memory, stopper, engine, sweep, wire>> /\ ReaderOnly
      /\ task[x].at = "message"
  BY DEF LookUp, At
<1>2. /\ x # 0 => m.kind \in Emits \ {"approval"} /\ m.kind # "resolved"
      /\ m.kind \in Emits \cup {"resolved"}
  BY <1>1, TaskIdsFacts, WithMessageFacts, EmitsAssumption
     DEF PendingInv, StarterFits, WithMessage
<1>3. ASSUME Refuses(m), x = 0, m.kind = "approval"
      PROVE  Others /\ Outcome
  <2>1. \/ Goes(0, "eof") /\ Disconnected /\ UNCHANGED inbox
        \/ Goes(0, "idle") /\ ~Disconnected /\ inbox' = inbox \cup {<<"deny", 0, m.turn>>}
    BY <1>3 DEF Refuses
  <2>2. \A p \in {"eof", "idle"} : Goes(0, p) => task'[0].at = p /\ Others
    BY <1>3, GoesIs, TaskIdsFacts
  <2>3. QED  BY <1>3, <2>1, <2>2
<1>4. ASSUME Finishes(x), End, m.turn \in engine.closed_turns, UNCHANGED inbox
      PROVE  Others /\ Outcome
  BY <1>4, FinishesIs
<1>5. ASSUME NEW place, NEW job, Knows(x, job, place)
      PROVE  Others /\ Still /\ task'[x].at = place /\ task'[x].job = job
  <2>1. task' = [task EXCEPT ![x].job = job, ![x].at = place] /\ UNCHANGED inbox
    BY <1>5, Zenon DEF Knows
  <2>2. [task EXCEPT ![x].job = job, ![x].at = place]
          = [task EXCEPT ![x] = [task[x] EXCEPT !.job = job, !.at = place]]
    BY ThreadsTyped, KnowsIs DEF TaskRecord
  <2>3. task' = [task EXCEPT ![x] = [task[x] EXCEPT !.job = job, !.at = place]]
    BY <2>1, <2>2, Zenon
  <2>4. task'[x].job = job
    <3> DEFINE r == [task[x] EXCEPT !.job = job, !.at = place]
    <3>1. DOMAIN task = TaskIds /\ task' = [task EXCEPT ![x] = r] /\ r.job = job
      BY <2>3, ThreadsTyped, RecordTyped
    <3> HIDE DEF r
    <3>2. QED  BY <3>1
  <2>5. /\ task'[x].at = place /\ task'[x].message = task[x].message
        /\ \A y \in TaskIds : y # x => task'[y] = task[y]
    BY <2>3, KnowsKeeps
  <2>6. QED  BY <2>1, <2>4, <2>5
<1>6. ASSUME GoesOn(x, "resolve"), x = 0, m.kind = "resolved", UNCHANGED inbox
      PROVE  Others /\ Outcome
  BY <1>6, GoesKeeps
<1>7. ASSUME Finds(x, m, ActiveFor(m)), m.kind # "resolved"
      PROVE  Others /\ Outcome
  <2> DEFINE job == ActiveFor(m)
  <2> HIDE DEF job
  <2>1. Finds(x, m, job)
    BY <1>7 DEF job
  <2>2. CASE m.kind # "approval"
    <3>1. Knows(x, job, "completion")
      BY <2>1, <2>2 DEF Finds
    <3>2. QED  BY <1>2, <1>5, <1>7, <2>2, <3>1 DEF job
  <2>3. CASE m.kind = "approval"
    <3>1. \/ Refuses(m)
          \/ \E place \in {"save", "save new"} : Knows(x, job, place)
      BY <2>1, <2>3 DEF Finds
    <3>2. x = 0
      BY <1>2, <2>3
    <3>3. QED  BY <1>3, <1>5, <2>3, <3>1, <3>2
  <2>4. QED  BY <2>2, <2>3
<1>8. Others /\ Outcome
  <2>1. \/ m.kind = "resolved" /\ GoesOn(x, "resolve") /\ UNCHANGED inbox
        \/ m.kind # "resolved" /\ Finds(x, m, ActiveFor(m))
        \/ m.kind = "approval" /\ Refuses(m)
        \/ /\ m.kind \notin {"resolved", "approval"} /\ m.turn \in engine.closed_turns
           /\ Finishes(x) /\ UNCHANGED inbox
    BY DEF LookUp
  <2>2. QED  BY <1>2, <1>3, <1>4, <1>6, <1>7, <2>1
<1>9. QED  BY <1>1, <1>8

(* A starter that handles an early completion.                              *)
LEMMA EarlyNews ==
  ASSUME NewsContext, SupervisorInv', TurnsInv', QueueStep, NEW i \in Ids, Message(i)
  PROVE  NewsInv'
<1>1. /\ SupervisorInv /\ PendingInv /\ i \in TaskIds /\ i # 0
      /\ "message" \notin Starting /\ "completion" \notin Starting /\ "close" \notin Starting
      /\ {"message", "completion", "close"} \subseteq WithMessage
      /\ "idle" \notin WithMessage /\ "done" \notin WithMessage
  BY TaskIdsFacts DEF NewsContext, Starting, Pre, WithMessage, WithJob
<1>2. CASE LookUp(i)
  <2>1. /\ UNCHANGED memory /\ UNCHANGED engine /\ UNCHANGED inbox
        /\ UNCHANGED wire /\ ReaderOnly /\ task[i].at = "message"
        /\ \A y \in TaskIds : y # i => task'[y] = task[y]
        /\ task'[i].at \in WithMessage => task'[i].message = task[i].message
    BY <1>1, <1>2, LookUpShape
  <2>2. /\ UNCHANGED <<turn, server, up, wire>> /\ QuietCall /\ Running(disk') \subseteq Running(disk)
        /\ engine'.closed = engine.closed /\ engine'.closed_turns = engine.closed_turns
        /\ engine'.early = engine.early
    BY <2>1 DEF ReaderOnly, QuietCall, memory, Running, Active
  <2>3. QED  BY <1>1, <2>1, <2>2, ThreadNews
<1>3. CASE Completion(i)
  <2>1. /\ QuietCall /\ ReaderOnly /\ UNCHANGED <<stopper, sweep, inbox, wire>> /\ KeepsNews
        /\ \A y \in TaskIds : y # i => task'[y] = task[y]
        /\ task[i].at = "completion"
    BY <1>1, <1>3, CompletionShape
  <2>2. /\ UNCHANGED <<turn, server, up, wire>> /\ UNCHANGED inbox
        /\ engine'.closed = engine.closed /\ engine'.closed_turns = engine.closed_turns
    BY <2>1 DEF ReaderOnly, KeepsNews
  <2>3. Serving' =>
             /\ Running(disk') \subseteq Running(disk)
             /\ \A m \in engine'.early : m \in engine.early \/ m.turn \notin Active(disk')
             /\ task'[i].at \in WithMessage => task'[i].message = task[i].message
    <3>1. CASE /\ task[i].job = 0 /\ Keeps(task[i].message) /\ UNCHANGED memory
               /\ task'[i].at \in {"idle", "done"}
      <4>1. /\ Running(disk') = Running(disk) /\ Active(disk') = Active(disk)
            /\ storage_failed' = storage_failed
        BY <3>1 DEF memory, Running, Active
      <4>2. Serving' => task[i].message.turn \notin Active(disk)
        BY <1>1, <2>1, <2>2, <4>1 DEF NewsContext, NewsInv, TurnsAreOver, Over, Serving, Trusted
      <4>3. \A m \in engine'.early : m \in engine.early \/ m = task[i].message
        BY <1>1, <3>1 DEF Keeps, SupervisorInv, Fits, EngineFits
      <4>4. QED  BY <1>1, <3>1, <4>1, <4>2, <4>3
    <3>2. CASE /\ task[i].job \in Known /\ UNCHANGED engine
               /\ EventUnknown(task[i].job) /\ task'[i].at \in {"idle", "done"}
      <4>1. Running(disk') \subseteq Running(disk)
        BY <1>1, <3>2, QuietStarts DEF QuietReporting
      <4>2. QED  BY <1>1, <3>2, <4>1
    <3>3. CASE /\ task[i].job \in Known /\ UNCHANGED engine
               /\ EventComplete(task[i].job, "completed") /\ task'[i].message = task[i].message
      <4>1. Running(disk') \subseteq Running(disk)
        BY <1>1, <3>3, QuietStarts DEF QuietReporting
      <4>2. QED  BY <3>3, <4>1
    <3>4. CASE storage_failed'
      BY <3>4 DEF Serving, Trusted
    <3>5. QED  BY <1>1, <1>3, <3>1, <3>2, <3>3, <3>4, CompletionShape
  <2>4. QED  BY <1>1, <2>1, <2>2, <2>3, ThreadNews
<1>4. CASE CloseTurn(i)
  <2>1. /\ UNCHANGED memory /\ UNCHANGED inbox /\ UNCHANGED wire /\ Finishes(i)
        /\ task[i].at = "close" /\ ReaderOnly
        /\ engine'.closed = engine.closed /\ engine'.early = engine.early
        /\ engine'.closed_turns = engine.closed_turns \cup {task[i].message.turn}
    BY <1>1, <1>4 DEF CloseTurn, At, SupervisorInv, Fits, EngineFits
  <2>2. /\ UNCHANGED <<turn, server, up, wire>> /\ QuietCall /\ Running(disk') \subseteq Running(disk)
        /\ storage_failed' = storage_failed /\ Active(disk') = Active(disk)
    BY <2>1 DEF ReaderOnly, QuietCall, memory, Running, Active
  <2>3. task'[i].at \notin WithMessage /\ \A y \in TaskIds : y # i => task'[y] = task[y]
    BY <1>1, <2>1, FinishesIs
  <2>4. task[i].message.turn \in Known /\ task[i].job = task[i].message.turn
    BY <1>1, <2>1, WithMessageFacts DEF WithJob
  <2>5. Serving' => task[i].job \notin Active(disk)
    BY <1>1, <2>1, <2>2 DEF PendingInv, ClosingOver, Over, Serving, Trusted
  <2>6. QED  BY <1>1, <2>1, <2>2, <2>3, <2>4, <2>5, ThreadNews
<1>5. QED  BY <1>2, <1>3, <1>4 DEF Message

(* The reader at work on a message.  What it holds of the end of a turn, of *)
(* a question or of its answer it holds on to, or has taken up.             *)
TakenUp(k) ==
  task[0].at \in {"message", "completion"} /\ task[0].message.turn = k =>
    task'[0].at \in {"message", "completion"} /\ task'[0].message = task[0].message

LEMMA WorkNews ==
  ASSUME NewsContext, SupervisorInv', TurnsInv', QueueStep,
         UNCHANGED <<turn, server, up, wire>>, \A y \in TaskIds : y # 0 => task'[y] = task[y],
         engine'.closed = engine.closed, storage_failed => storage_failed',
         \/ UNCHANGED inbox
         \/ inbox' = inbox \cup {<<"deny", 0, task[0].message.turn>>},
         \A k \in Ids : Resolving(k)' => Resolving(k),
         Serving' =>
           /\ Running(disk') \subseteq Running(disk)
           /\ task'[0].at \notin {"eof", "disconnect", "sweep", "dead"}
           /\ \A t \in engine'.closed_turns :
                t \in engine.closed_turns \/ (t \in Known /\ t \notin Active(disk'))
           /\ \A m \in engine'.early : m \in engine.early \/ m.turn \notin Active(disk')
           /\ task'[0].at = "completion" /\ task'[0].job = 0 =>
                task'[0].message.turn \notin Active(disk')
           /\ \A k \in Running(disk') : turn[k] = "ended" =>
                TakenUp(k) \/ task[0].message.kind \notin Emits \ {"approval"}
           /\ \A k \in Ids : turn[k] = "asking" /\ AskTold(k) => AskTold(k)'
  PROVE  NewsInv'
<1>1. 0 \in TaskIds /\ Ids \subseteq TaskIds /\ 0 \notin Ids /\ SupervisorInv /\ NewsInv
  BY TaskIdsFacts DEF NewsContext
<1>2. Trusted' => Trusted
  BY DEF Trusted
<1>3. \A k \in Ids : (Asked("turn", k)' => Asked("turn", k)) /\ (Asked("reply", k)' => Asked("reply", k))
  BY DEF Asked
<1>4. \A kind, k : Answer_(kind, k)' <=> Answer_(kind, k)
  BY DEF Answer_
<1>5. Serving' => ReaderLives'
  BY <1>1, <1>2 DEF Serving, NewsInv, ReaderLives
<1>6. \A k : TakenUp(k) \/ task[0].message.kind \notin Emits \ {"approval"} =>
        (EndTold(k) => EndTold(k)')
  BY <1>4 DEF TakenUp, EndTold
<1>7. \A x \in Ids : task'[x] = task[x]
  BY <1>1
<1>8. ASSUME Serving'
      PROVE  /\ \A k \in Running(disk') : turn[k] = "none" =>
                  k \in Running(disk) /\ task'[k].at = task[k].at
             /\ \A k \in Running(disk') :
                  k \in Running(disk) /\ turn[k] = "ended" /\ EndTold(k) => EndTold(k)'
  <2>1. Running(disk) \subseteq Ids
    BY <1>1 DEF SupervisorInv, OwnNames, Running, Active
  <2>2. QED  BY <1>6, <1>7, <1>8, <2>1
<1>9. UNCHANGED <<turn, server>>
  OBVIOUS
<1>10. QED  BY <1>1, <1>2, <1>3, <1>4, <1>5, <1>7, <1>8, <1>9, NewsKept

(* A question the reader does not handle is where it was.                   *)
LEMMA AskStays ==
  ASSUME SupervisorInv, TurnsInv', QueueStep, PendingRests, UNCHANGED <<turn, wire>>,
         inbox \subseteq inbox',
         NEW k \in Ids, turn[k] = "asking", AskTold(k),
         Answer_("approval", k) \/ Deciding(k) \/ Shown(k)
  PROVE  AskTold(k)'
<1>1. Answer_("approval", k) => Answer_("approval", k)'
  BY DEF Answer_
<1>2. Deciding(k) => Deciding(k)'
  BY DEF Deciding
<1>3. turn'[k] = "asking"
  OBVIOUS
<1>4. QED  BY <1>1, <1>2, <1>3, ShownStays DEF AskTold

(* What of the question of turn k the reader has at hand.                   *)
Handled(k) ==
  /\ task[0].at \in {"save", "save new", "attach", "approve"} \/
        (task[0].at = "message" /\ task[0].message.kind = "approval")
  /\ task[0].message.turn = k

(* A completion may do without an identifier of its discussion only when    *)
(* one is sent: ActiveFor finds the job of a turn by its discussion.        *)
LEMMA EndFindsJob ==
  ASSUME NewsContext, "bare" \notin Emits, NEW m, m.kind \in Emits \ {"approval"},
         m.turn \in Known, Tells(m), ActiveFor(m) = 0
  PROVE  m.turn \notin Active(disk)
<1> DEFINE thread == ThreadOf(m.turn)
           found == Matching(thread, m.turn)
           first == CHOOSE i \in found : \A k \in found : i <= k
<1>1. SUFFICES ASSUME m.turn \in Active(disk)  PROVE FALSE
  OBVIOUS
<1>2. /\ SupervisorInv /\ data = disk /\ m.turn \in Ids /\ m.turn # None /\ m.turn # 0
      /\ m.turn \in Nat /\ thread = m.turn
  BY KnownIds, OwnThreads, IdsFacts DEF NewsContext, SupervisorInv, SpoolInv, Aligned
<1>3. \A i \in DOMAIN disk.jobs : disk.jobs[i].thread \in {None, i} /\ disk.jobs[i].turn \in {None, i}
  BY <1>2 DEF SupervisorInv, OwnNames
<1>4. m.turn \in Housed
  BY <1>2 DEF NewsContext, NewsInv, TurnBegun, Tells
<1>5. disk.jobs[m.turn].thread = m.turn
  BY <1>1, <1>3, <1>4 DEF Housed, Active
<1> HIDE DEF thread
<1>6. found = {m.turn}
  BY <1>1, <1>2, <1>3, <1>5 DEF Matching, Active
<1> HIDE DEF found
<1>7. ActiveFor(m) = first
  <2>1. m.kind # "bare"
    OBVIOUS
  <2>2. found = Matching(IF m.kind = "bare" THEN None ELSE ThreadOf(m.turn), m.turn)
    BY <2>1 DEF found, thread
  <2>3. QED  BY <1>6, <2>2 DEF ActiveFor
<1>8. \E i \in found : \A k \in found : i <= k
  BY <1>2, <1>6
<1>9. first \in found
  BY <1>8
<1> HIDE DEF first
<1>10. QED  BY <1>2, <1>6, <1>7, <1>9

LEMMA LookUpNews ==
  ASSUME NewsContext, SupervisorInv', TurnsInv', QueueStep, "bare" \notin Emits, LookUp(0)
  PROVE  NewsInv'
<1> DEFINE m == task[0].message
           End == m.kind \in Emits \ {"approval"}
           Still == UNCHANGED inbox /\ task'[0].message = m
<1>1. SupervisorInv /\ PendingInv /\ TurnsInv /\ 0 \in TaskIds /\ "message" \in WithMessage
  BY TaskIdsFacts DEF NewsContext, WithMessage
<1>2. /\ UNCHANGED <<memory, stopper, engine, sweep, wire>> /\ ReaderOnly
      /\ task[0].at = "message"
      /\ \A y \in TaskIds : y # 0 => task'[y] = task[y]
      /\ \/ m.kind = "resolved" /\ Still /\ task'[0].at = "resolve"
         \/ /\ End /\ m.turn \in engine.closed_turns
            /\ UNCHANGED inbox /\ task'[0].at \in {"idle", "done"}
         \/ End /\ Still /\ task'[0].at = "completion" /\ task'[0].job = ActiveFor(m)
         \/ m.kind = "approval" /\ Still /\ task'[0].at \in {"save", "save new"}
         \/ /\ m.kind = "approval" /\ ~Disconnected
            /\ task'[0].at = "idle" /\ inbox' = inbox \cup {<<"deny", 0, m.turn>>}
         \/ Disconnected /\ task'[0].at = "eof" /\ UNCHANGED inbox
  BY <1>1, LookUpShape
<1>3. /\ UNCHANGED <<turn, server, up, wire>> /\ UNCHANGED wire /\ UNCHANGED engine /\ QuietCall
      /\ Running(disk') \subseteq Running(disk) /\ Active(disk') = Active(disk)
      /\ storage_failed' = storage_failed
      /\ engine'.closed = engine.closed /\ engine'.closed_turns = engine.closed_turns
      /\ engine'.early = engine.early
  BY <1>2 DEF ReaderOnly, QuietCall, memory, Running, Active
<1>4. m.turn \in Known /\ Tells(m)
  BY <1>1, <1>2, WithMessageFacts DEF TurnsInv, ThreadFits
<1>5. Serving' => Serving
  BY <1>3 DEF Serving, Trusted
<1>6. Serving => ~Disconnected /\ TurnsAreOver
  BY DEF NewsContext, NewsInv, Serving, ReaderLives, Disconnected
<1>7. \A k \in Ids : Resolving(k)' => Resolving(k)
  <2>1. \A k : Answer_("resolved", k)' => Answer_("resolved", k)
    BY <1>3 DEF Answer_
  <2>2. QED  BY <1>2, <2>1 DEF Resolving
<1>8. ASSUME Serving'
      PROVE  /\ task'[0].at \notin {"eof", "disconnect", "sweep", "dead"}
             /\ task'[0].at = "completion" /\ task'[0].job = 0 =>
                  task'[0].message.turn \notin Active(disk')
             /\ \A k \in Running(disk') : turn[k] = "ended" =>
                  TakenUp(k) \/ ~End
  <2>1. ~Disconnected /\ TurnsAreOver
    BY <1>5, <1>6, <1>8
  <2>2. task'[0].at = "completion" /\ task'[0].job = 0 =>
          task'[0].message.turn \notin Active(disk')
    <3>1. SUFFICES ASSUME task'[0].at = "completion", task'[0].job = 0
                   PROVE  task'[0].message.turn \notin Active(disk')
      OBVIOUS
    <3>2. End /\ Still /\ ActiveFor(m) = 0
      BY <1>2, <3>1
    <3>3. m.turn \notin Active(disk)
      BY <1>4, <3>2, EndFindsJob
    <3>4. QED  BY <1>3, <3>2, <3>3
  <2>3. \A k \in Running(disk') : TakenUp(k) \/ ~End
    <3>1. SUFFICES ASSUME NEW k \in Running(disk'), End  PROVE TakenUp(k)
      OBVIOUS
    <3>2. CASE m.turn \in engine.closed_turns
      <4>1. m.turn \notin Active(disk')
        BY <1>3, <2>1, <3>2 DEF TurnsAreOver, Over
      <4>2. QED  BY <3>1, <4>1 DEF TakenUp, Running
    <3>3. CASE m.turn \notin engine.closed_turns
      <4>1. Still /\ task'[0].at = "completion"
        BY <1>2, <2>1, <3>1, <3>3, EmitsAssumption
      <4>2. QED  BY <4>1 DEF TakenUp
    <3>4. QED  BY <3>2, <3>3
  <2>4. QED  BY <1>2, <2>1, <2>2, <2>3
<1>9. ASSUME Serving', NEW k \in Ids, turn[k] = "asking", AskTold(k)
      PROVE  AskTold(k)'
  <2>1. CASE Handled(k)
    <3>1. m.kind = "approval" /\ m.turn = k
      BY <1>2, <2>1 DEF Handled
    <3>2. \/ Still /\ task'[0].at \in {"save", "save new"}
          \/ inbox' = inbox \cup {<<"deny", 0, m.turn>>}
      BY <1>2, <1>5, <1>6, <1>9, <3>1, EmitsAssumption
    <3>3. CASE inbox' = inbox \cup {<<"deny", 0, m.turn>>}
      <4>1. <<"deny", 0, k>> \in inbox'
        BY <3>1, <3>3
      <4>2. QED  BY <4>1 DEF AskTold, Deciding
    <3>4. QED  BY <3>1, <3>2, <3>3 DEF AskTold
  <2>2. CASE ~Handled(k)
    <3>1. Answer_("approval", k) \/ Deciding(k) \/ Shown(k)
      BY <1>9, <2>2 DEF AskTold, Handled
    <3>2. inbox \subseteq inbox'
      BY <1>2
    <3>3. PendingRests
      BY <1>1, <1>3, CallRests
    <3>4. QED  BY <1>1, <1>3, <1>9, <3>1, <3>2, <3>3, AskStays
  <2>3. QED  BY <2>1, <2>2
<1>10. \/ UNCHANGED inbox
       \/ inbox' = inbox \cup {<<"deny", 0, task[0].message.turn>>}
  BY <1>2
<1>11. QED  BY <1>2, <1>3, <1>7, <1>8, <1>9, <1>10, WorkNews

LEMMA CompletionNews ==
  ASSUME NewsContext, SupervisorInv', TurnsInv', QueueStep, Completion(0)
  PROVE  NewsInv'
<1> DEFINE m == task[0].message
<1>1. SupervisorInv /\ PendingInv /\ TurnsInv /\ 0 \in TaskIds /\ "completion" \in WithMessage
  BY TaskIdsFacts DEF NewsContext, WithMessage
<1>2. /\ QuietCall /\ ReaderOnly /\ UNCHANGED <<stopper, sweep, inbox, wire>> /\ KeepsNews
      /\ \A y \in TaskIds : y # 0 => task'[y] = task[y]
      /\ task[0].at = "completion"
      /\ \/ /\ task[0].job = 0 /\ Keeps(m) /\ UNCHANGED memory
            /\ task'[0].at \in {"idle", "done"}
         \/ /\ task[0].job = m.turn /\ task[0].job \in Known /\ UNCHANGED engine
            /\ EventUnknown(task[0].job) /\ task'[0].at \in {"idle", "done"}
         \/ /\ task[0].job = m.turn /\ task[0].job \in Known /\ UNCHANGED engine
            /\ EventComplete(task[0].job, "completed")
            /\ Ignored(task[0].job) \/ ~storage_failed'
            /\ task'[0].at = "close" /\ task'[0].job = task[0].job
            /\ task'[0].message = m
         \/ storage_failed' /\ task'[0].at \in {"eof", "done"}
  BY <1>1, CompletionShape
<1>3. /\ UNCHANGED <<turn, server, up, wire>> /\ UNCHANGED wire /\ UNCHANGED inbox
      /\ engine'.closed = engine.closed /\ engine'.closed_turns = engine.closed_turns
      /\ storage_failed => storage_failed'
  BY <1>2, FailureStays DEF ReaderOnly, KeepsNews
<1>4. m.turn \in Known
  BY <1>1, <1>2, WithMessageFacts
<1>5. \A k \in Ids : Resolving(k)' => Resolving(k)
  <2>1. \A k : Answer_("resolved", k)' => Answer_("resolved", k)
    BY <1>3 DEF Answer_
  <2>2. task'[0].at \notin {"message", "resolve", "resolved"}
    BY <1>2
  <2>3. QED  BY <2>1, <2>2 DEF Resolving
<1>6. ASSUME Serving'
      PROVE  /\ Running(disk') \subseteq Running(disk) /\ m.turn \notin Running(disk')
             /\ \A e \in engine'.early : e \in engine.early \/ e.turn \notin Active(disk')
             /\ task'[0].at \in {"idle", "done", "close"}
  <2>1. Serving /\ ~storage_failed'
    BY <1>3, <1>6 DEF Serving, Trusted
  <2>2. CASE task[0].job = 0 /\ Keeps(m) /\ UNCHANGED memory /\ task'[0].at \in {"idle", "done"}
    <3>1. Running(disk') = Running(disk) /\ Active(disk') = Active(disk)
      BY <2>2 DEF memory, Running, Active
    <3>2. m.turn \notin Active(disk)
      BY <1>2, <2>1, <2>2 DEF NewsContext, NewsInv, TurnsAreOver, Over
    <3>3. \A e \in engine'.early : e \in engine.early \/ e = m
      BY <1>1, <2>2 DEF Keeps, SupervisorInv, Fits, EngineFits
    <3>4. QED  BY <2>2, <3>1, <3>2, <3>3 DEF Running
  <2>3. CASE /\ task[0].job = m.turn /\ UNCHANGED engine
             /\ EventUnknown(task[0].job) /\ task'[0].at \in {"idle", "done"}
    <3>1. m.turn \in DOMAIN data.jobs /\ Aligned
      BY <1>1, <1>4, OwnThreads DEF SupervisorInv, SpoolInv
    <3>2. m.turn \notin Running(disk')
      BY <2>1, <2>3, <3>1, UnknownStops
    <3>3. Running(disk') \subseteq Running(disk)
      BY <1>1, <1>4, <2>3, QuietStarts DEF QuietReporting
    <3>4. QED  BY <2>3, <3>2, <3>3
  <2>4. CASE /\ task[0].job = m.turn /\ UNCHANGED engine
             /\ EventComplete(task[0].job, "completed") /\ task'[0].at = "close"
    <3>1. m.turn \in DOMAIN data.jobs /\ Aligned /\ "completed" \in TERMINAL
      BY <1>1, <1>4, OwnThreads DEF SupervisorInv, SpoolInv, TERMINAL
    <3>2. m.turn \notin Active(disk')
      BY <2>1, <2>4, <3>1, CompleteIsOver
    <3>3. Running(disk') \subseteq Running(disk)
      BY <1>1, <1>4, <2>4, QuietStarts DEF QuietReporting
    <3>4. QED  BY <2>4, <3>2, <3>3 DEF Running
  <2>5. QED  BY <1>2, <2>1, <2>2, <2>3, <2>4
<1>7. ASSUME Serving', NEW k \in Ids, turn[k] = "asking", AskTold(k)
      PROVE  AskTold(k)'
  <2>1. Answer_("approval", k) \/ Deciding(k) \/ Shown(k)
    BY <1>2, <1>7 DEF AskTold
  <2>2. PendingRests
    BY <1>1, <1>2, CallRests
  <2>3. QED  BY <1>1, <1>3, <1>7, <2>1, <2>2, AskStays
<1>8. Serving' => \A k \in Running(disk') : TakenUp(k)
  BY <1>6 DEF TakenUp
<1>9. QED  BY <1>2, <1>3, <1>5, <1>6, <1>7, <1>8, WorkNews

LEMMA CloseTurnNews ==
  ASSUME NewsContext, SupervisorInv', TurnsInv', QueueStep, CloseTurn(0)
  PROVE  NewsInv'
<1> DEFINE m == task[0].message
<1>1. SupervisorInv /\ PendingInv /\ 0 \in TaskIds
  BY TaskIdsFacts DEF NewsContext
<1>2. /\ UNCHANGED memory /\ UNCHANGED inbox /\ UNCHANGED wire /\ Finishes(0)
      /\ task[0].at = "close" /\ ReaderOnly
      /\ engine'.closed = engine.closed /\ engine'.early = engine.early
      /\ engine'.closed_turns = engine.closed_turns \cup {m.turn}
  BY <1>1 DEF CloseTurn, At, SupervisorInv, Fits, EngineFits
<1>3. /\ UNCHANGED <<turn, server, up, wire>> /\ QuietCall
      /\ Running(disk') \subseteq Running(disk) /\ Active(disk') = Active(disk)
      /\ storage_failed' = storage_failed
  BY <1>2 DEF ReaderOnly, QuietCall, memory, Running, Active
<1>4. task'[0].at \in {"idle", "done"} /\ \A y \in TaskIds : y # 0 => task'[y] = task[y]
  BY <1>1, <1>2, FinishesIs
<1>5. m.turn \in Known /\ task[0].job = m.turn
  BY <1>1, <1>2, WithMessageFacts DEF WithJob, WithMessage
<1>6. Serving' => m.turn \notin Active(disk')
  BY <1>1, <1>2, <1>3, <1>5 DEF PendingInv, ClosingOver, Over, Serving, Trusted
<1>7. \A k \in Ids : Resolving(k)' => Resolving(k)
  <2>1. \A k : Answer_("resolved", k)' => Answer_("resolved", k)
    BY <1>2 DEF Answer_
  <2>2. QED  BY <1>4, <2>1 DEF Resolving
<1>8. \A k : TakenUp(k)
  BY <1>2 DEF TakenUp
<1>9. ASSUME NEW k \in Ids, turn[k] = "asking", AskTold(k)
      PROVE  AskTold(k)'
  <2>1. Answer_("approval", k) \/ Deciding(k) \/ Shown(k)
    BY <1>2, <1>9 DEF AskTold
  <2>2. PendingRests
    BY <1>1, <1>3, CallRests
  <2>3. QED  BY <1>1, <1>2, <1>3, <1>9, <2>1, <2>2, AskStays
<1>10. QED  BY <1>2, <1>3, <1>4, <1>5, <1>6, <1>7, <1>8, <1>9, WorkNews

(* The reader holds on to the question it handles.                          *)
LEMMA HoldingNews ==
  ASSUME NewsContext, SupervisorInv', TurnsInv', QueueStep, QuietCall,
         UNCHANGED <<turn, server, up>>, UNCHANGED inbox, UNCHANGED wire,
         \A y \in TaskIds : y # 0 => task'[y] = task[y],
         engine'.closed = engine.closed, engine'.closed_turns = engine.closed_turns,
         engine'.early = engine.early, Running(disk') \subseteq Running(disk),
         task[0].at \in {"save", "save new", "attach"},
         \/ task'[0].at \in {"attach", "approve"} /\ task'[0].message = task[0].message
         \/ storage_failed' /\ task'[0].at = "eof"
  PROVE  NewsInv'
<1>1. SupervisorInv
  BY DEF NewsContext
<1>2. storage_failed => storage_failed'
  BY FailureStays
<1>3. \A k \in Ids : Resolving(k)' => Resolving(k)
  <2>1. \A k : Answer_("resolved", k)' => Answer_("resolved", k)
    BY DEF Answer_
  <2>2. QED  BY <2>1 DEF Resolving
<1>4. \A k : TakenUp(k)
  BY DEF TakenUp
<1>5. ASSUME Serving', NEW k \in Ids, turn[k] = "asking", AskTold(k)
      PROVE  AskTold(k)'
  <2>1. CASE Handled(k)
    <3>1. task'[0].at \in {"attach", "approve"} /\ task'[0].message.turn = k
      BY <1>5, <2>1 DEF Handled, Serving, Trusted
    <3>2. QED  BY <3>1 DEF AskTold
  <2>2. CASE ~Handled(k)
    <3>1. Answer_("approval", k) \/ Deciding(k) \/ Shown(k)
      BY <1>5, <2>2 DEF AskTold, Handled
    <3>2. PendingRests
      BY <1>1, CallRests
    <3>3. UNCHANGED <<turn, wire>> /\ inbox \subseteq inbox'
      OBVIOUS
    <3>4. QED  BY <1>1, <1>5, <3>1, <3>2, <3>3, AskStays
  <2>3. QED  BY <2>1, <2>2
<1>6. Serving' => task'[0].at \in {"attach", "approve"}
  BY DEF Serving, Trusted
<1>7. UNCHANGED <<turn, server, up, wire>>
  OBVIOUS
<1>8. QED  BY <1>2, <1>3, <1>4, <1>5, <1>6, <1>7, WorkNews

LEMMA SaveRequestNews ==
  ASSUME NewsContext, SupervisorInv', TurnsInv', QueueStep, SaveRequest
  PROVE  NewsInv'
<1>1. SupervisorInv
  BY DEF NewsContext
<1>2. /\ UNCHANGED <<memory, stopper, sweep, inbox, wire>> /\ ReaderOnly
      /\ task[0].at \in {"save", "save new"} /\ task'[0].at \in {"approve", "attach"}
      /\ task'[0].message = task[0].message
      /\ \A y \in TaskIds : y # 0 => task'[y] = task[y]
      /\ engine'.closed = engine.closed /\ engine'.closed_turns = engine.closed_turns
      /\ engine'.early = engine.early
  BY <1>1, SaveRequestShape
<1>3. /\ QuietCall /\ Running(disk') \subseteq Running(disk) /\ UNCHANGED <<turn, server, up>>
      /\ UNCHANGED inbox /\ UNCHANGED wire
  BY <1>2 DEF QuietCall, ReaderOnly, memory, Running, Active
<1>4. QED  BY <1>2, <1>3, HoldingNews

LEMMA AttachNews ==
  ASSUME NewsContext, SupervisorInv', TurnsInv', QueueStep, Attach
  PROVE  NewsInv'
<1>1. SupervisorInv
  BY DEF NewsContext
<1>2. /\ UNCHANGED <<stopper, sweep, inbox, wire>> /\ ReaderOnly /\ KeepsNews
      /\ task[0].job \in Known /\ AttachTurn(task[0].job, task[0].job) /\ QuietCall
      /\ task[0].at = "attach"
      /\ \A y \in TaskIds : y # 0 => task'[y] = task[y]
      /\ \/ task'[0].at = "approve" /\ task'[0].message = task[0].message
         \/ storage_failed' /\ task'[0].at = "eof"
      /\ engine' = engine
  BY <1>1, AttachShape
<1>3. Running(disk') \subseteq Running(disk)
  BY <1>1, <1>2, QuietStarts DEF QuietReporting
<1>4. UNCHANGED <<turn, server, up>> /\ UNCHANGED inbox /\ UNCHANGED wire
  BY <1>2 DEF ReaderOnly
<1>5. QED  BY <1>2, <1>3, <1>4, HoldingNews

LEMMA PopResolvedNews ==
  ASSUME NewsContext, SupervisorInv', TurnsInv', QueueStep, PopResolved
  PROVE  NewsInv'
<1>1. SupervisorInv /\ 0 \in TaskIds
  BY TaskIdsFacts DEF NewsContext
<1>2. /\ UNCHANGED memory /\ UNCHANGED inbox /\ UNCHANGED wire /\ ReaderOnly
      /\ task[0].at = "resolve"
      /\ \/ Finishes(0)
         \/ \E job \in Ids : task' = [task EXCEPT ![0] = [task[0] EXCEPT !.at = "resolved", !.job = job]]
      /\ engine'.closed = engine.closed /\ engine'.early = engine.early
      /\ engine'.closed_turns = engine.closed_turns
  <2>1. PICK saved \in SUBSET engine.requests :
          /\ engine' = [engine EXCEPT !.requests = @ \ saved]
          /\ \/ Finishes(0)
             \/ \E r \in saved : task' = [task EXCEPT ![0] =
                  [job \in Ids |-> [task[0] EXCEPT !.at = "resolved", !.job = job]][r[1]]]
    BY DEF PopResolved, PopResolvedWith
  <2>2. \A r \in saved : r[1] \in Ids
    BY <1>1 DEF SupervisorInv, Fits, EngineFits
  <2>3. QED  BY <1>1, <2>1, <2>2 DEF PopResolved, PopResolvedWith, At, SupervisorInv, Fits, EngineFits
<1>3. /\ \A y \in TaskIds : y # 0 => task'[y] = task[y]
      /\ \/ task'[0].at \in {"idle", "done"}
         \/ task'[0].at = "resolved" /\ task'[0].message = task[0].message
  <2>1. Finishes(0) => /\ task'[0].at \in {"idle", "done"}
                       /\ \A y \in TaskIds : y # 0 => task'[y] = task[y]
    BY <1>1, FinishesIs
  <2>2. ASSUME NEW job \in Ids,
               task' = [task EXCEPT ![0] = [task[0] EXCEPT !.at = "resolved", !.job = job]]
        PROVE  /\ \A y \in TaskIds : y # 0 => task'[y] = task[y]
               /\ task'[0].at = "resolved" /\ task'[0].message = task[0].message
    <3> DEFINE r == [task[0] EXCEPT !.at = "resolved", !.job = job]
    <3>1. r.at = "resolved" /\ r.message = task[0].message /\ DOMAIN task = TaskIds
      BY <1>1, RecordTyped, ThreadsTyped
    <3>2. task' = [task EXCEPT ![0] = r]
      BY <2>2
    <3> HIDE DEF r
    <3>3. QED  BY <1>1, <3>1, <3>2
  <2>3. QED  BY <1>2, <2>1, <2>2
<1>4. /\ QuietCall /\ Running(disk') \subseteq Running(disk) /\ UNCHANGED <<turn, server, up, wire>>
      /\ storage_failed' = storage_failed
  BY <1>2 DEF QuietCall, ReaderOnly, memory, Running, Active
<1>5. \A k \in Ids : Resolving(k)' => Resolving(k)
  <2>1. \A k : Answer_("resolved", k)' => Answer_("resolved", k)
    BY <1>2 DEF Answer_
  <2>2. QED  BY <1>2, <1>3, <2>1 DEF Resolving
<1>6. \A k : TakenUp(k)
  BY <1>2 DEF TakenUp
<1>7. ASSUME NEW k \in Ids, turn[k] = "asking", AskTold(k)
      PROVE  AskTold(k)'
  <2>1. Answer_("approval", k) \/ Deciding(k) \/ Shown(k)
    BY <1>2, <1>7 DEF AskTold
  <2>2. PendingRests
    BY <1>1, <1>4, CallRests
  <2>3. QED  BY <1>1, <1>2, <1>4, <1>7, <2>1, <2>2, AskStays
<1>8. QED  BY <1>2, <1>3, <1>4, <1>5, <1>6, <1>7, WorkNews

(* A request that is recorded is shown, unless the job is to be verified.   *)
LEMMA ApprovalShows ==
  ASSUME SupervisorInv, NEW i \in Known, i \in Active(disk), EventApproval(i, i), ~storage_failed'
  PROVE  Shown(i)'
<1>1. /\ data = disk /\ data \in Image /\ Aligned /\ i \in DOMAIN data.jobs
      /\ data.jobs[i].status \notin TERMINAL
  BY OwnThreads DEF SupervisorInv, SpoolInv, Aligned, Active, OCCUPIED, TERMINAL
<1> DEFINE job == [data.jobs[i] EXCEPT !.pending = @ \cup {i},
                     !.status = IF @ = "cancelling" THEN @ ELSE "waiting_approval"]
<1>2. CASE StatusOf(i) = "unknown"
  <2>1. disk' = data
    BY <1>1, <1>2 DEF EventApproval, Event, Ignored, StatusOf, Commit, WriteOk, WriteFails
  <2>2. QED  BY <1>1, <1>2, <2>1 DEF Shown, StatusOf
<1>3. CASE StatusOf(i) # "unknown"
  <2>1. disk' = [data EXCEPT !.jobs[i].pending = @ \cup {i},
                             !.jobs[i].status = IF @ = "cancelling" THEN @
                                                ELSE "waiting_approval"]
    BY <1>1, <1>3 DEF EventApproval, Event, Ignored, StatusOf, Commit, WriteOk, WriteFails
  <2>2. disk'.jobs[i].pending = data.jobs[i].pending \cup {i}
    BY <1>1, <2>1 DEF Image, Job
  <2>3. QED  BY <2>2 DEF Shown
<1>4. QED  BY <1>2, <1>3

LEMMA ApproveNews ==
  ASSUME NewsContext, SupervisorInv', TurnsInv', QueueStep, Approve
  PROVE  NewsInv'
<1> DEFINE j == task[0].job
<1>1. SupervisorInv /\ TurnsInv /\ NewsInv /\ 0 \in TaskIds
  BY TaskIdsFacts DEF NewsContext
<1>2. /\ UNCHANGED <<stopper, sweep, inbox, wire>> /\ ReaderOnly /\ KeepsNews
      /\ j \in Known /\ j = task[0].message.turn
      /\ \/ task[0].at = "approve" /\ EventApproval(j, j)
         \/ task[0].at = "resolved" /\ EventResolved(j, j)
      /\ \A y \in TaskIds : y # 0 => task'[y] = task[y]
      /\ \/ task'[0].at = "idle" /\ (Ignored(j) \/ ~storage_failed')
         \/ task'[0].at = "eof" /\ storage_failed'
  BY <1>1, ApproveShape
<1>3. j \in Ids /\ j \in DOMAIN data.jobs /\ j \in Requests /\ Aligned /\ StatusOf(j) # "queued"
      /\ data = disk
  BY <1>1, <1>2, KnownIds, IdsFacts, OwnThreads
     DEF SupervisorInv, SpoolInv, Aligned, Known, StatusOf
<1>4. Touches(j) /\ (storage_failed => storage_failed')
  BY <1>2, <1>3, ApprovalPends, ResolvedPends
<1>5. Running(disk') \subseteq Running(disk)
  BY <1>1, <1>2, <1>4, TouchesStarts
<1>6. /\ UNCHANGED <<turn, server, up, wire>> /\ UNCHANGED wire /\ UNCHANGED inbox
      /\ UNCHANGED turn
      /\ engine'.closed = engine.closed /\ engine'.closed_turns = engine.closed_turns
  BY <1>2 DEF ReaderOnly, KeepsNews
<1>7. \A k \in Ids : Resolving(k)' => Resolving(k)
  <2>1. \A k : Answer_("resolved", k)' => Answer_("resolved", k)
    BY <1>6 DEF Answer_
  <2>2. QED  BY <1>2, <2>1 DEF Resolving
<1>8. \A k : TakenUp(k)
  BY <1>2 DEF TakenUp
<1>9. Serving' => ~storage_failed'
  BY DEF Serving, Trusted
<1>10. ASSUME Serving', NEW k \in Ids, turn[k] = "asking", AskTold(k)
       PROVE  AskTold(k)'
  <2>1. k \in Active(disk) /\ turn[k] \notin {"answered", "ended"}
    BY <1>1, <1>10 DEF TurnsInv, TurnHolds, Live
  <2>2. Answer_("approval", k) \/ Deciding(k) => AskTold(k)'
    BY <1>6 DEF AskTold, Answer_, Deciding
  <2>3. CASE k = j
    <3>1. task[0].at # "resolved"
      BY <1>1, <1>2, <2>1, <2>3 DEF NewsInv, Resolving
    <3>2. Shown(k)'
      BY <1>1, <1>2, <1>9, <1>10, <2>1, <2>3, <3>1, ApprovalShows
    <3>3. QED  BY <3>2 DEF AskTold
  <2>4. CASE k # j
    <3>1. k \in DOMAIN disk.jobs /\ disk'.jobs[k] = disk.jobs[k]
      BY <1>4, <2>1, <2>4 DEF Touches, Active
    <3>2. Shown(k) => Shown(k)'
      BY <3>1 DEF Shown
    <3>3. ~Handled(k)
      BY <1>2, <2>4 DEF Handled
    <3>4. QED  BY <1>10, <2>2, <3>2, <3>3 DEF AskTold, Handled
  <2>5. QED  BY <2>3, <2>4
<1>11. /\ Serving' => task'[0].at = "idle"
       /\ engine'.early = engine.early \/ engine' = engine
  BY <1>2, <1>9 DEF Approve, Reports, Calls, Goes
<1>12. QED  BY <1>2, <1>4, <1>5, <1>6, <1>7, <1>8, <1>10, <1>11, WorkNews

(* The reader that stops: nothing is promised of it any more.               *)
LEMMA ReaderStops ==
  ASSUME NewsContext, SupervisorInv', TurnsInv', QueueStep,
         UNCHANGED <<turn, server, up>>, UNCHANGED inbox, UNCHANGED wire,
         storage_failed => storage_failed',
         task[0].at \in {"eof", "disconnect", "sweep", "dead"} \/ ~server,
         task'[0].at \notin {"message", "resolve", "resolved"}
  PROVE  NewsInv'
<1>1. SupervisorInv /\ NewsInv
  BY DEF NewsContext
<1>2. ~Serving'
  BY <1>1 DEF NewsInv, ReaderLives, Serving, Trusted
<1>3. \A kind, k : Answer_(kind, k)' <=> Answer_(kind, k)
  BY DEF Answer_
<1>4. \A k \in Ids : Resolving(k)' => Resolving(k)
  BY <1>3 DEF Resolving
<1>5. \A k \in Ids : (Asked("turn", k)' => Asked("turn", k)) /\ (Asked("reply", k)' => Asked("reply", k))
  BY DEF Asked
<1>6. Trusted' => Trusted
  BY DEF Trusted
<1>7. UNCHANGED <<turn, server>>
  OBVIOUS
<1>8. QED  BY <1>1, <1>2, <1>3, <1>4, <1>5, <1>6, <1>7, NewsKept

LEMMA StopsReading ==
  ASSUME NewsContext, SupervisorInv', TurnsInv', QueueStep, up,
         EndOfFile \/ Disconnect \/ Sweep
  PROVE  NewsInv'
<1>1. SupervisorInv /\ 0 \in TaskIds /\ DOMAIN task = TaskIds
  BY TaskIdsFacts, ThreadsTyped DEF NewsContext
<1>2. UNCHANGED <<turn, server, up>> /\ UNCHANGED inbox /\ UNCHANGED wire
  BY DEF EndOfFile, Disconnect, Sweep, SweepStep, ReaderOnly
<1>3. CASE EndOfFile
  <2>1. /\ task[0].at = "eof" \/ ~server
        /\ task'[0] = Rest("disconnect") /\ UNCHANGED memory
    BY <1>3 DEF EndOfFile, At
  <2>2. task'[0].at \notin {"message", "resolve", "resolved"} /\ storage_failed' = storage_failed
    BY <2>1 DEF Rest, memory
  <2>3. QED  BY <1>2, <2>1, <2>2, ReaderStops
<1>4. CASE Disconnect
  <2>1. task[0].at = "disconnect" /\ task'[0].at = "sweep" /\ storage_failed' = storage_failed
    BY <1>1, <1>4, GoesIs DEF Disconnect, At, memory
  <2>2. QED  BY <1>2, <2>1, ReaderStops
<1>5. CASE Sweep
  <2>1. task[0].at = "sweep" /\ (Goes(0, "dead") \/ UNCHANGED task)
    BY <1>5 DEF Sweep, SweepStep, SweepThen, At
  <2>2. task'[0].at \in {"sweep", "dead"}
    BY <1>1, <2>1, GoesIs
  <2>3. \/ UNCHANGED memory
        \/ \E i \in sweep : EventUnknown(i)
    BY <1>5 DEF Sweep, SweepStep, SweepThen
  <2>4. QuietCall
    BY <1>1, <2>3 DEF QuietCall, QuietReporting, SupervisorInv, Fits
  <2>5. storage_failed => storage_failed'
    BY <2>4, FailureStays
  <2>6. QED  BY <1>2, <2>1, <2>2, <2>5, ReaderStops
<1>6. QED  BY <1>3, <1>4, <1>5

(* What is left of the wire once its head is taken.                         *)
LEMMA HeadIs ==
  ASSUME SupervisorInv, wire # <<>>, wire' = Tail(wire)
  PROVE  /\ Head(wire).turn \in Known /\ Head(wire).turn \in Ids
         /\ Head(wire).kind \in Emits \cup {"resolved"} \cup Answers
         /\ \A kind, k : Answer_(kind, k) <=>
              Answer_(kind, k)' \/ (Head(wire).kind = kind /\ Head(wire).turn = k)
<1> DEFINE Message_ == [kind: Emits \cup {"resolved"} \cup Answers, turn: Ids]
           m == Head(wire)
<1>1. wire \in Seq(Message_) /\ \A n \in DOMAIN wire : wire[n].turn \in Known
  BY DEF SupervisorInv, Fits, WireFits
<1>2. m = wire[1] /\ 1 \in DOMAIN wire /\ m \in Message_
  <2> HIDE DEF Message_
  <2>1. QED  BY <1>1
<1>3. /\ \A n \in DOMAIN wire' : n + 1 \in DOMAIN wire /\ wire'[n] = wire[n + 1]
      /\ \A n \in DOMAIN wire : n = 1 \/ (n - 1 \in DOMAIN wire' /\ wire[n] = wire'[n - 1])
  <2> HIDE DEF Message_, m
  <2>1. /\ Len(wire) \in Nat /\ DOMAIN wire = 1 .. Len(wire) /\ Len(wire) # 0
        /\ wire' \in Seq(Message_) /\ Len(wire') = Len(wire) - 1
        /\ DOMAIN wire' = 1 .. Len(wire')
        /\ \A n \in 1 .. Len(wire') : wire'[n] = wire[n + 1]
    BY <1>1
  <2>2. QED  BY <2>1
<1>4. ASSUME NEW kind, NEW k
      PROVE  Answer_(kind, k) <=> Answer_(kind, k)' \/ (m.kind = kind /\ m.turn = k)
  <2> HIDE DEF m, Message_
  <2>1. ASSUME Answer_(kind, k)
        PROVE  Answer_(kind, k)' \/ (m.kind = kind /\ m.turn = k)
    BY <1>2, <1>3, <2>1 DEF Answer_
  <2>2. Answer_(kind, k)' => Answer_(kind, k)
    BY <1>3 DEF Answer_
  <2>3. m.kind = kind /\ m.turn = k => Answer_(kind, k)
    BY <1>2 DEF Answer_
  <2>4. QED  BY <2>1, <2>2, <2>3
<1>5. QED  BY <1>1, <1>2, <1>4

LEMMA ReadNews ==
  ASSUME NewsContext, SupervisorInv', TurnsInv', QueueStep, Read
  PROVE  NewsInv'
<1> DEFINE m == Head(wire)
<1>1. /\ SupervisorInv /\ NewsInv /\ 0 \in TaskIds /\ 0 \notin Ids /\ Ids \subseteq TaskIds
      /\ "resolved" \notin Emits
  BY TaskIdsFacts, EmitsAssumption DEF NewsContext
<1>2. /\ UNCHANGED <<memory, engine, sweep, inbox>> /\ ReaderOnly /\ task[0].at = "idle"
      /\ wire # <<>> /\ wire' = Tail(wire)
      /\ \/ m.kind \in Emits \cup {"resolved"} /\ Handles(0, m)
         \/ m.kind \notin Emits \cup {"resolved"} /\ GoesOn(m.turn, Resumed(m))
  BY DEF Read, At
<1>3. /\ UNCHANGED <<turn, server>> /\ UNCHANGED up /\ UNCHANGED turn /\ UNCHANGED engine /\ QuietCall
      /\ UNCHANGED inbox
      /\ Running(disk') = Running(disk) /\ Active(disk') = Active(disk)
      /\ storage_failed' = storage_failed /\ disk' = disk
  BY <1>2 DEF ReaderOnly, QuietCall, memory, Running, Active
<1>4. /\ m.turn \in Ids /\ m.kind \in Emits \cup {"resolved"} \cup Answers
      /\ \A kind, k : Answer_(kind, k) <=> Answer_(kind, k)' \/ (m.kind = kind /\ m.turn = k)
  BY <1>1, <1>2, HeadIs
<1> HIDE DEF m
<1>5. Running(disk) \subseteq Ids
  BY <1>1 DEF SupervisorInv, OwnNames, Running, Active
<1>6. CASE m.kind \in Emits \cup {"resolved"} /\ Handles(0, m)
  <2>1. /\ task'[0].at = "message" /\ task'[0].message = m
        /\ \A y \in Ids : task'[y] = task[y]
    BY <1>1, <1>6, HandlesIs
  <2>2. \A k \in Ids : Resolving(k)' => Resolving(k)
    BY <1>4, <2>1 DEF Resolving
  <2>3. \A k \in Ids : EndTold(k) => EndTold(k)'
    BY <1>2, <1>4, <2>1 DEF EndTold
  <2>4. ASSUME NEW k \in Ids, AskTold(k)
        PROVE  AskTold(k)'
    <3>1. Answer_("approval", k) \/ Deciding(k) \/ Shown(k)
      BY <1>2, <2>4 DEF AskTold
    <3>2. Deciding(k)' <=> Deciding(k)
      BY <1>3 DEF Deciding
    <3>3. Shown(k)' <=> Shown(k)
      BY <1>3 DEF Shown
    <3>4. QED  BY <1>4, <2>1, <3>1, <3>2, <3>3 DEF AskTold
  <2>5. Serving' => ReaderLives'
    BY <1>1, <1>3, <2>1 DEF NewsInv, ReaderLives, Serving, Trusted
  <2>6. Trusted' => Trusted
    BY <1>3 DEF Trusted
  <2>7. \A k \in Ids : (Asked("turn", k)' => Asked("turn", k)) /\ (Asked("reply", k)' => Asked("reply", k))
    BY <1>3 DEF Asked
  <2>8. \A k \in Running(disk') : k \in Running(disk) /\ task'[k].at = task[k].at
    BY <1>3, <1>5, <2>1
  <2>9. task'[0].at # "completion"
    BY <2>1
  <2>10. \A k \in Running(disk') : EndTold(k) => EndTold(k)'
    BY <1>3, <1>5, <2>3
  <2>11. QED  BY <1>1, <1>3, <1>4, <2>1, <2>2, <2>4, <2>5, <2>6, <2>7, <2>8, <2>9, <2>10, NewsKept
<1>7. CASE m.kind \notin Emits \cup {"resolved"} /\ GoesOn(m.turn, Resumed(m))
  <2> DEFINE i == m.turn
             place == Resumed(m)
  <2>1. /\ task'[i].at = place /\ task'[i].message = task[i].message
        /\ \A y \in TaskIds : y # i => task'[y] = task[y]
    BY <1>1, <1>4, <1>7, GoesKeeps
  <2>2. task'[0] = task[0]
    BY <1>1, <1>4, <2>1
  <2>3. /\ place \in {"attachThread", "attachTurn", "failed", task[i].at}
        /\ place = "attachTurn" => m.kind = "turnOk" \/ task[i].at = "attachTurn"
    <3>1. CASE m.kind = "threadOk" /\ At(m.turn, "waitThread")
      BY <3>1 DEF Resumed, At
    <3>2. CASE m.kind = "turnOk" /\ At(m.turn, "waitTurn")
      BY <3>2 DEF Resumed, At
    <3>3. CASE m.kind = "startNo" /\ task[m.turn].at \in {"waitThread", "waitTurn"}
      BY <3>3 DEF Resumed, At
    <3>4. QED  BY <3>1, <3>2, <3>3 DEF Resumed
  <2> HIDE DEF place
  <2>4. m.kind = "turnOk" => turn[i] # "none"
    BY <1>1, <1>4 DEF NewsInv, TurnBegun
  <2>5. "attachThread" \in Starting /\ "failed" \in Starting
        /\ {"attachThread", "attachTurn", "failed"} \cap WithMessage = {}
    BY DEF Starting, Pre, WithMessage, WithJob
  <2>6. \A kind \in Emits \cup {"resolved"} : \A k : Answer_(kind, k)' <=> Answer_(kind, k)
    BY <1>4, <1>7
  <2>7. \A k : (Resolving(k)' <=> Resolving(k)) /\ (EndTold(k)' <=> EndTold(k))
    BY <2>2, <2>6 DEF Resolving, EndTold
  <2>8. ASSUME NEW k \in Ids, AskTold(k)
        PROVE  AskTold(k)'
    <3>1. Deciding(k)' <=> Deciding(k)
      BY <1>3 DEF Deciding
    <3>2. Shown(k)' <=> Shown(k)
      BY <1>3 DEF Shown
    <3>3. Answer_("approval", k) => Answer_("approval", k)'
      <4>1. CASE "approval" \in Emits
        BY <2>6, <4>1
      <4>2. CASE "approval" \notin Emits
        BY <1>4, <1>7, <4>2 DEF Answers
      <4>3. QED  BY <4>1, <4>2
    <3>4. QED  BY <2>2, <2>8, <3>1, <3>2, <3>3 DEF AskTold
  <2>9. \A x \in Ids : task'[x].at \in WithMessage =>
          task[x].at \in WithMessage /\ task'[x].message = task[x].message
    BY <1>1, <2>1, <2>3, <2>5
  <2>10. \A k \in Running(disk') : turn[k] = "none" =>
           \/ task'[k].at \in Starting
           \/ k \in Running(disk) /\ task'[k].at = task[k].at
    BY <1>1, <1>3, <1>5, <2>1, <2>3, <2>4, <2>5
  <2>11. Serving' => ReaderLives'
    BY <1>1, <1>3, <2>2 DEF NewsInv, ReaderLives, Serving, Trusted
  <2>12. Trusted' => Trusted
    BY <1>3 DEF Trusted
  <2>13. \A k \in Ids : (Asked("turn", k)' => Asked("turn", k)) /\ (Asked("reply", k)' => Asked("reply", k))
    BY <1>3 DEF Asked
  <2>14. QED  BY <1>1, <1>3, <1>4, <2>2, <2>7, <2>8, <2>9, <2>10, <2>11, <2>12, <2>13, NewsKept
<1>8. QED  BY <1>2, <1>6, <1>7

LEMMA ReaderNews ==
  ASSUME NewsContext, SupervisorInv', TurnsInv', QueueStep, "bare" \notin Emits, up, Reader
  PROVE  NewsInv'
<1>1. Message(0) => LookUp(0) \/ Completion(0) \/ CloseTurn(0)
  BY DEF Message
<1>2. QED  BY <1>1, ReadNews, LookUpNews, CompletionNews, CloseTurnNews, SaveRequestNews,
              AttachNews, ApproveNews, PopResolvedNews, StopsReading DEF Reader

(* What a step of the app-server has to keep.                               *)
LEMMA ServerNews ==
  ASSUME NewsContext, UNCHANGED <<queueVars, engineVars>>, server' => server,
         \A kind, k : Answer_(kind, k) => Answer_(kind, k)',
         \A k \in Ids : TurnBegun(k)',
         \A k \in Ids : Answer_("resolved", k)' =>
           Answer_("resolved", k) \/ turn'[k] \in {"answered", "ended"},
         \A k \in Ids : turn[k] \in {"answered", "ended"} => turn'[k] \in {"answered", "ended"},
         \A k \in Ids : turn'[k] = "none" => turn[k] = "none",
         Serving' =>
           \A k \in Ids :
             /\ turn'[k] = "ended" =>
                  turn[k] = "ended" \/ \E kind \in Emits \ {"approval"} : Answer_(kind, k)'
             /\ turn'[k] = "asking" =>
                  Answer_("approval", k)' \/ (turn[k] = "asking" /\ (Deciding(k) => Deciding(k)'))
  PROVE  NewsInv'
<1>1. /\ UNCHANGED task /\ UNCHANGED engine /\ disk' = disk /\ up' = up
      /\ storage_failed' = storage_failed
  BY DEF queueVars, engineVars
<1>2. Running(disk) \subseteq Ids /\ NewsInv
  BY DEF NewsContext, SupervisorInv, OwnNames, Running, Active
<1>3. ASSUME NEW k \in Ids, Resolving(k)'
      PROVE  turn'[k] \in {"answered", "ended"}
  <2>1. Resolving(k) \/ turn'[k] \in {"answered", "ended"}
    BY <1>1, <1>3 DEF Resolving
  <2>2. QED  BY <1>2, <2>1 DEF NewsInv
<1>4. ASSUME Serving'
      PROVE  ReaderLives' /\ TurnsAreOver' /\ StartsGoOn' /\ EndsAreTold' /\ AsksAreTold'
  <2>1. /\ ReaderLives /\ TurnsAreOver /\ StartsGoOn /\ EndsAreTold /\ AsksAreTold
    BY <1>1, <1>2, <1>4 DEF NewsInv, Serving, Trusted
  <2>2. ReaderLives'
    BY <1>1, <2>1 DEF ReaderLives
  <2>3. TurnsAreOver'
    BY <1>1, <2>1 DEF TurnsAreOver, Over, Known
  <2>4. StartsGoOn'
    BY <1>1, <1>2, <2>1 DEF StartsGoOn
  <2>5. EndsAreTold'
    <3>1. SUFFICES ASSUME NEW k \in Running(disk), turn'[k] = "ended"
                   PROVE  EndTold(k)'
      BY <1>1 DEF EndsAreTold
    <3>2. CASE turn[k] = "ended"
      <4>1. EndTold(k)
        BY <2>1, <3>2 DEF EndsAreTold
      <4>2. QED  BY <1>1, <4>1 DEF EndTold
    <3>3. CASE \E kind \in Emits \ {"approval"} : Answer_(kind, k)'
      BY <3>3 DEF EndTold
    <3>4. QED  BY <1>2, <1>4, <3>1, <3>2, <3>3
  <2>6. AsksAreTold'
    <3>1. SUFFICES ASSUME NEW k \in Ids, turn'[k] = "asking"
                   PROVE  AskTold(k)'
      BY DEF AsksAreTold
    <3>2. CASE turn[k] = "asking" /\ (Deciding(k) => Deciding(k)')
      <4>1. AskTold(k)
        BY <2>1, <3>2 DEF AsksAreTold
      <4>2. Shown(k)' <=> Shown(k)
        BY <1>1 DEF Shown
      <4>3. QED  BY <1>1, <3>2, <4>1, <4>2 DEF AskTold
    <3>3. CASE Answer_("approval", k)'
      BY <3>3 DEF AskTold
    <3>4. QED  BY <1>4, <3>1, <3>2, <3>3
  <2>7. QED  BY <2>2, <2>3, <2>4, <2>5, <2>6
<1>5. QED  BY <1>3, <1>4 DEF NewsInv

(* The app-server takes a request of job i, and may answer it.              *)
LEMMA ServedNews ==
  ASSUME NewsContext, UNCHANGED <<queueVars, engineVars>>, Serves \/ MayServe
  PROVE  NewsInv'
<1>1. /\ SupervisorInv /\ TurnsInv /\ NewsInv /\ server' = server
      /\ turn \in [Ids -> {"none", "live", "asking", "answered", "ended"}]
      /\ "approval" \notin Answers /\ "resolved" \notin Answers
  BY DEF Serves, MayServe, NewsContext, SupervisorInv, Fits, TurnsFit, Answers
<1>2. Housed' = Housed
  BY DEF Housed, Known, queueVars
<1>3. UNCHANGED wire => \A kind, k : Answer_(kind, k)' <=> Answer_(kind, k)
  BY DEF Answer_
<1>4. \A kind, i : Push(kind, i) =>
        \A o, k : Answer_(o, k)' <=> Answer_(o, k) \/ (o = kind /\ k = i)
  BY <1>1, PushIs
<1>5. \A k \in Ids : TurnBegun(k)
  BY <1>1 DEF NewsInv
<1>6. UNCHANGED inbox => \A method, k : Asked(method, k)' <=> Asked(method, k)
  BY DEF Asked
<1>7. ASSUME NEW i \in Ids, ServeThread(i)
      PROVE  NewsInv'
  <2>1. /\ UNCHANGED turn
        /\ \E kind \in {"threadOk", "startNo"} : Push(kind, i)
        /\ inbox' = inbox \ {<<"thread", i, i>>}
    BY <1>7 DEF ServeThread
  <2>2. /\ \A kind, k : Answer_(kind, k) => Answer_(kind, k)'
        /\ \A k : Answer_("resolved", k)' => Answer_("resolved", k)
        /\ \A k : Answer_("turnOk", k)' => Answer_("turnOk", k)
    BY <1>4, <2>1
  <2>3. \A k : (Asked("turn", k)' => Asked("turn", k)) /\ (Asked("reply", k)' => Asked("reply", k))
    BY <2>1 DEF Asked
  <2>4. \A k \in Ids : TurnBegun(k)'
    BY <1>2, <1>5, <2>1, <2>2, <2>3 DEF TurnBegun
  <2>5. \A k : Deciding(k) => Deciding(k)'
    BY <2>1 DEF Deciding
  <2>6. QED  BY <1>1, <2>1, <2>2, <2>4, <2>5, ServerNews
<1>8. ASSUME NEW i \in Ids, ServeTurn(i)
      PROVE  NewsInv'
  <2>1. Asked("turn", i) /\ turn[i] = "none" /\ i \in Housed
    BY <1>1, <1>5, <1>8 DEF ServeTurn, Asked, TurnsInv, TurnHolds, TurnBegun
  <2>2. CASE /\ inbox' = (inbox \ {<<"turn", i, i>>}) \cup {<<"reply", i, i>>}
             /\ turn' = [turn EXCEPT ![i] = "live"] /\ UNCHANGED wire
    <3>1. turn'[i] = "live" /\ \A k \in Ids : k # i => turn'[k] = turn[k]
      BY <1>1, <2>2
    <3>2. \A k \in Ids : /\ Asked("turn", k)' => Asked("turn", k)
                         /\ Asked("reply", k)' => Asked("reply", k) \/ k = i
      BY <2>2 DEF Asked
    <3>3. \A k \in Ids : TurnBegun(k)'
      BY <1>2, <1>3, <1>5, <2>1, <2>2, <3>1, <3>2 DEF TurnBegun
    <3>4. \A k : Deciding(k) => Deciding(k)'
      BY <2>2 DEF Deciding
    <3>5. QED  BY <1>1, <1>3, <2>1, <2>2, <3>1, <3>3, <3>4, ServerNews
  <2>3. CASE inbox' = inbox \ {<<"turn", i, i>>} /\ Push("startNo", i) /\ UNCHANGED turn
    <3>1. /\ \A kind, k : Answer_(kind, k) => Answer_(kind, k)'
          /\ \A k : Answer_("resolved", k)' => Answer_("resolved", k)
          /\ \A k : Answer_("turnOk", k)' => Answer_("turnOk", k)
      BY <1>4, <2>3
    <3>2. \A k : (Asked("turn", k)' => Asked("turn", k)) /\ (Asked("reply", k)' => Asked("reply", k))
      BY <2>3 DEF Asked
    <3>3. \A k \in Ids : TurnBegun(k)'
      BY <1>2, <1>5, <2>3, <3>1, <3>2 DEF TurnBegun
    <3>4. \A k : Deciding(k) => Deciding(k)'
      BY <2>3 DEF Deciding
    <3>5. QED  BY <1>1, <2>3, <3>1, <3>3, <3>4, ServerNews
  <2>4. QED  BY <1>8, <2>2, <2>3 DEF ServeTurn
<1>9. ASSUME NEW i \in Ids, ReplyTurn(i)
      PROVE  NewsInv'
  <2>1. /\ UNCHANGED turn /\ Push("turnOk", i) /\ Asked("reply", i)
        /\ inbox' = inbox \ {<<"reply", i, i>>}
    BY <1>9 DEF ReplyTurn, Asked
  <2>2. /\ \A kind, k : Answer_(kind, k) => Answer_(kind, k)'
        /\ \A k : Answer_("resolved", k)' => Answer_("resolved", k)
        /\ \A k : Answer_("turnOk", k)' => Answer_("turnOk", k) \/ k = i
    BY <1>4, <2>1
  <2>3. \A k : (Asked("turn", k)' => Asked("turn", k)) /\ (Asked("reply", k)' => Asked("reply", k))
    BY <2>1 DEF Asked
  <2>4. \A k \in Ids : TurnBegun(k)'
    BY <1>2, <1>5, <2>1, <2>2, <2>3 DEF TurnBegun
  <2>5. \A k : Deciding(k) => Deciding(k)'
    BY <2>1 DEF Deciding
  <2>6. QED  BY <1>1, <2>1, <2>2, <2>4, <2>5, ServerNews
<1>10. ASSUME NEW i \in Ids, NEW kind \in Emits \cup {"resolved"},
              NEW state \in {"asking", "answered", "ended"},
              i \in Live, turn' = [turn EXCEPT ![i] = state], Push(kind, i),
              \A method, k : method \in {"turn", "reply"} => (Asked(method, k)' => Asked(method, k)),
              kind = "resolved" => state \in {"answered", "ended"},
              turn[i] = "answered" => state = "ended",
              state = "ended" => kind \in Emits \ {"approval"},
              state = "asking" => kind = "approval",
              \A k : k # i => (Deciding(k) => Deciding(k)')
       PROVE  NewsInv'
  <2>1. turn'[i] = state /\ \A k \in Ids : k # i => turn'[k] = turn[k]
    BY <1>1, <1>10
  <2>2. \A o, k : Answer_(o, k)' <=> Answer_(o, k) \/ (o = kind /\ k = i)
    BY <1>4, <1>10
  <2>3. turn[i] # "none" /\ turn[i] # "ended" /\ kind # "turnOk"
    BY <1>10, EmitsAssumption DEF Live
  <2>4. \A k \in Ids : TurnBegun(k)'
    BY <1>2, <1>5, <1>10, <2>1, <2>2, <2>3 DEF TurnBegun
  <2>5. \A k \in Ids : turn[k] \in {"answered", "ended"} => turn'[k] \in {"answered", "ended"}
    BY <1>10, <2>1, <2>3
  <2>6. \A k \in Ids : Answer_("resolved", k)' =>
           Answer_("resolved", k) \/ turn'[k] \in {"answered", "ended"}
    BY <1>10, <2>1, <2>2
  <2>7. \A k \in Ids :
             /\ turn'[k] = "ended" =>
                  turn[k] = "ended" \/ \E o \in Emits \ {"approval"} : Answer_(o, k)'
             /\ turn'[k] = "asking" =>
                  Answer_("approval", k)' \/ (turn[k] = "asking" /\ (Deciding(k) => Deciding(k)'))
    BY <1>10, <2>1, <2>2
  <2>8. /\ \A o, k : Answer_(o, k) => Answer_(o, k)'
        /\ \A k \in Ids : turn'[k] = "none" => turn[k] = "none"
    BY <1>10, <2>1, <2>2, <2>3
  <2>9. QED  BY <1>1, <2>4, <2>5, <2>6, <2>7, <2>8, ServerNews
<1>11. \A k : UNCHANGED inbox => (Deciding(k) => Deciding(k)')
  BY DEF Deciding
<1>12. ASSUME NEW i \in Ids, EndTurn(i)
       PROVE  NewsInv'
  <2>1. PICK kind \in Emits \ {"approval"} : Push(kind, i)
    BY <1>12 DEF EndTurn
  <2>2. kind \in Emits \cup {"resolved"} /\ kind # "resolved"
    BY EmitsAssumption
  <2>3. QED  BY <1>6, <1>10, <1>11, <1>12, <2>1, <2>2 DEF EndTurn
<1>13. ASSUME NEW i \in Ids, Ask(i)
       PROVE  NewsInv'
  <2>1. i \in Live /\ turn[i] # "answered" /\ "approval" \in Emits
    BY <1>13 DEF Ask, Live
  <2>2. QED  BY <1>6, <1>10, <1>11, <1>13, <2>1 DEF Ask
<1>14. ASSUME NEW message \in inbox, Answered(message)
       PROVE  NewsInv'
  <2> DEFINE i == message[3]
  <2>1. message[1] \in {"answer", "deny"} /\ inbox' = inbox \ {message}
    BY <1>14 DEF Answered
  <2>2. i \in Ids
    BY <1>1, <2>1, KnownIds DEF SupervisorInv, Fits, InboxFits
  <2>3. \A method, k : method \in {"turn", "reply"} => (Asked(method, k)' => Asked(method, k))
    BY <2>1 DEF Asked
  <2>4. \A k : k # i => (Deciding(k) => Deciding(k)')
    BY <2>1 DEF Deciding
  <2>5. CASE turn[i] = "asking"
    <3>1. turn' = [turn EXCEPT ![i] = "answered"] /\ Push("resolved", i) /\ i \in Live
      BY <1>14, <2>2, <2>5 DEF Answered, Live
    <3>2. QED  BY <1>10, <2>2, <2>3, <2>4, <2>5, <3>1
  <2>6. CASE turn[i] # "asking"
    <3>1. UNCHANGED turn /\ UNCHANGED wire
      BY <1>14, <2>6 DEF Answered
    <3>2. \A k \in Ids : TurnBegun(k)'
      BY <1>2, <1>3, <1>5, <2>3, <3>1 DEF TurnBegun
    <3>3. QED  BY <1>1, <1>3, <2>4, <2>6, <3>1, <3>2, ServerNews
  <2>7. QED  BY <2>5, <2>6
<1>15. ASSUME NEW message \in inbox, ServeInterrupt(message)
       PROVE  NewsInv'
  <2>1. /\ message[1] = "interrupt" /\ inbox' = inbox \ {message} /\ UNCHANGED turn
        /\ \E kind \in {"stopOk", "stopNo"} : Push(kind, message[2])
    BY <1>15 DEF ServeInterrupt
  <2>2. /\ \A kind, k : Answer_(kind, k) => Answer_(kind, k)'
        /\ \A k : Answer_("resolved", k)' => Answer_("resolved", k)
        /\ \A k : Answer_("turnOk", k)' => Answer_("turnOk", k)
    BY <1>4, <2>1
  <2>3. \A k : (Asked("turn", k)' => Asked("turn", k)) /\ (Asked("reply", k)' => Asked("reply", k))
    BY <2>1 DEF Asked
  <2>4. \A k \in Ids : TurnBegun(k)'
    BY <1>2, <1>5, <2>1, <2>2, <2>3 DEF TurnBegun
  <2>5. \A k : Deciding(k) => Deciding(k)'
    BY <2>1 DEF Deciding
  <2>6. QED  BY <1>1, <2>1, <2>2, <2>4, <2>5, ServerNews
<1>16. QED
  BY <1>7, <1>8, <1>9, <1>12, <1>13, <1>14, <1>15 DEF Serves, MayServe

(* What may still begin when either process ends had been asked for.        *)
LEMMA DisappearsNews ==
  ASSUME NewsContext, Disappears, UNCHANGED memory
  PROVE  /\ \A k \in Ids : turn'[k] # "none" => k \in Housed'
         /\ \A k \in Ids : turn[k] \in {"answered", "ended"} => turn'[k] = turn[k]
         /\ \A method, k : ~Asked(method, k)'
         /\ \A k \in Ids : turn'[k] = "none" => turn[k] = "none"
<1>1. PICK begun \in SUBSET {i \in Ids : <<"turn", i, i>> \in inbox} :
        turn' = [i \in Ids |-> IF i \in begun THEN "live" ELSE turn[i]]
  BY DEF Disappears
<1>2. \A k \in begun : Asked("turn", k) /\ turn[k] = "none"
  BY <1>1 DEF Asked, NewsContext, TurnsInv, TurnHolds
<1>3. Housed' = Housed
  BY DEF Housed, Known, memory
<1>4. \A k \in Ids : turn'[k] # "none" => k \in Housed'
  BY <1>1, <1>2, <1>3 DEF NewsContext, NewsInv, TurnBegun
<1>5. \A method, k : ~Asked(method, k)'
  BY DEF Disappears, Asked
<1>6. QED  BY <1>1, <1>2, <1>4, <1>5

LEMMA ServerEndsNews ==
  ASSUME NewsContext, UNCHANGED <<queueVars, engineVars>>,
         ServerDies \/ \E i \in Ids : TurnStops(i)
  PROVE  NewsInv'
<1>1. UNCHANGED wire /\ ~server'
  BY DEF ServerDies, Disappears, TurnStops
<1>2. \A kind, k : Answer_(kind, k)' <=> Answer_(kind, k)
  BY <1>1 DEF Answer_
<1>3. ~Serving'
  BY <1>1 DEF Serving
<1>4. CASE ServerDies
  <2>1. Disappears /\ UNCHANGED memory
    BY <1>4 DEF ServerDies, queueVars, memory
  <2>2. /\ \A k \in Ids : turn'[k] # "none" => k \in Housed'
        /\ \A k \in Ids : turn[k] \in {"answered", "ended"} => turn'[k] = turn[k]
        /\ \A method, k : ~Asked(method, k)'
        /\ \A k \in Ids : turn'[k] = "none" => turn[k] = "none"
    BY <2>1, DisappearsNews
  <2>3. \A k \in Ids : Answer_("turnOk", k) => turn[k] # "none"
    BY DEF NewsContext, NewsInv, TurnBegun
  <2>4. \A k \in Ids : TurnBegun(k)'
    BY <1>2, <2>2, <2>3 DEF TurnBegun
  <2>5. QED  BY <1>1, <1>2, <1>3, <2>2, <2>4, ServerNews
<1>5. ASSUME NEW i \in Ids, TurnStops(i)
      PROVE  NewsInv'
  <2>1. /\ turn' = [turn EXCEPT ![i] = "ended"] /\ i \in Live /\ UNCHANGED inbox
        /\ turn \in [Ids -> {"none", "live", "asking", "answered", "ended"}]
    BY <1>5 DEF TurnStops, NewsContext, SupervisorInv, Fits, TurnsFit
  <2>2. turn'[i] = "ended" /\ turn[i] # "none" /\ \A k \in Ids : k # i => turn'[k] = turn[k]
    BY <2>1 DEF Live
  <2>3. Housed' = Housed
    BY DEF Housed, Known, queueVars
  <2>4. \A method, k : Asked(method, k)' <=> Asked(method, k)
    BY <2>1 DEF Asked
  <2>5. \A k \in Ids : TurnBegun(k)'
    BY <1>2, <2>2, <2>3, <2>4 DEF TurnBegun, NewsContext, NewsInv
  <2>6. QED  BY <1>1, <1>2, <1>3, <2>2, <2>5, ServerNews
<1>6. QED  BY <1>4, <1>5

LEMMA CrashNews ==
  ASSUME NewsContext, SupervisorCrash
  PROVE  NewsInv'
<1>1. ThreadsEnd("stopped") /\ Disappears /\ UNCHANGED memory /\ ~up'
  BY DEF SupervisorCrash, Crash
<1>2. /\ \A k \in Ids : turn'[k] # "none" => k \in Housed'
      /\ \A method, k : ~Asked(method, k)'
  BY <1>1, DisappearsNews
<1>3. \A kind, k : ~Answer_(kind, k)'
  BY <1>1 DEF ThreadsEnd, Answer_
<1>4. task'[0].at = "idle"
  BY <1>1, NewThreadsRest, TaskIdsFacts
<1>5. \A k \in Ids : TurnBegun(k)' /\ ~Resolving(k)'
  BY <1>2, <1>3, <1>4 DEF TurnBegun, Resolving
<1>6. QED  BY <1>1, <1>5 DEF NewsInv, Serving, Trusted

LEMMA RestartNews ==
  ASSUME NewsContext, SupervisorInv', TurnsInv', QueueStep, SupervisorRestart
  PROVE  NewsInv'
<1>1. PICK max_running \in Limits : RestartOver(Restart(max_running))
  BY DEF SupervisorRestart
<1>2. /\ ThreadsEnd("top") /\ engine' = FreshEngine(data') /\ inbox' = {} /\ UNCHANGED turn
      /\ Restart(max_running) /\ SupervisorInv
  BY <1>1 DEF RestartOver, NewsContext
<1>3. /\ data' = disk'
      /\ DOMAIN disk'.jobs = DOMAIN disk.jobs
      /\ \A k \in DOMAIN disk.jobs : SameNames(k) /\ (SameStatus(k) \/ disk'.jobs[k].status = "unknown")
  BY <1>2, RestartTouches DEF SupervisorInv, SpoolInv
<1>4. Running(disk') = {}
  <2>1. SUFFICES ASSUME NEW k \in Active(disk)  PROVE disk'.jobs[k].status = "unknown"
    BY <1>3 DEF Running, Active, SameStatus
  <2>2. disk' = Recovered(disk) /\ disk \in Image
    BY <1>2 DEF Restart, SupervisorInv, SpoolInv, Aligned
  <2>3. /\ k \in DOMAIN disk.jobs /\ disk.jobs[k] \in Job
        /\ disk'.jobs[k] = [disk.jobs[k] EXCEPT !.status = "unknown", !.pending = {}]
    BY <2>2, RecoveredTyped, ImageParts DEF Active
  <2>4. QED  BY <2>3 DEF Job
<1>5. \A method, k : ~Asked(method, k)'
  BY <1>2 DEF Asked
<1>6. \A kind, k : ~Answer_(kind, k)'
  BY <1>2 DEF ThreadsEnd, Answer_
<1>7. \A x \in TaskIds : task'[x].at = "idle"
  BY <1>2, NewThreadsRest
<1>8. Housed \subseteq Housed'
  BY <1>2, KnownGrows DEF SupervisorInv
<1>9. \A k \in Ids : TurnBegun(k)' /\ ~Resolving(k)'
  BY <1>2, <1>5, <1>6, <1>7, <1>8, TaskIdsFacts DEF TurnBegun, Resolving, NewsContext, NewsInv
<1>10. ReaderLives'
  BY <1>2, <1>7, TaskIdsFacts DEF ReaderLives, FreshEngine
<1>11. TurnsAreOver'
  <2>1. engine'.closed_turns = ClosedAtStart(disk') /\ engine'.early = {}
    BY <1>2, <1>3 DEF FreshEngine
  <2>2. \A t \in ClosedAtStart(disk') : t \in Known' /\ t \notin Active(disk')
    <3>1. SUFFICES ASSUME NEW i \in DOMAIN disk'.jobs, i \notin Active(disk'),
                          disk'.jobs[i].turn # None
                   PROVE  /\ disk'.jobs[i].turn = i /\ disk'.jobs[i].status # "queued"
      BY DEF ClosedAtStart, Known
    <3>2. QED  BY <1>2, <3>1 DEF SupervisorInv, OwnNames
  <2>3. "idle" \notin WithMessage /\ "idle" # "completion"
    BY DEF WithMessage, WithJob
  <2>4. QED  BY <1>7, <2>1, <2>2, <2>3, TaskIdsFacts DEF TurnsAreOver, Over
<1>12. StartsGoOn' /\ EndsAreTold'
  BY <1>4 DEF StartsGoOn, EndsAreTold
<1>13. AsksAreTold'
  <2>1. SUFFICES ASSUME NEW k \in Ids, turn'[k] = "asking"  PROVE Shown(k)'
    BY DEF AsksAreTold, AskTold
  <2>2. k \in Active(disk')
    BY <2>1 DEF TurnsInv, TurnHolds, Live
  <2>3. QED  BY <1>4, <2>2 DEF Running, Shown
<1>14. QED  BY <1>9, <1>10, <1>11, <1>12, <1>13 DEF NewsInv

LEMMA StillNews ==
  ASSUME NewsInv, UNCHANGED vars
  PROVE  NewsInv'
<1>1. /\ UNCHANGED disk /\ UNCHANGED up /\ UNCHANGED storage_failed /\ UNCHANGED task
      /\ UNCHANGED engine /\ UNCHANGED turn /\ UNCHANGED server /\ UNCHANGED inbox /\ UNCHANGED wire
  BY DEF vars, queueVars, engineVars, serverVars
<1>2. \A kind, k : (Answer_(kind, k)' <=> Answer_(kind, k)) /\ (Asked(kind, k)' <=> Asked(kind, k))
  BY <1>1 DEF Answer_, Asked
<1>3. \A k \in Ids : (TurnBegun(k) => TurnBegun(k)') /\ (Resolving(k)' <=> Resolving(k))
  BY <1>1, <1>2 DEF TurnBegun, Resolving, Housed, Known
<1>4. \A k : (EndTold(k) => EndTold(k)') /\ (AskTold(k) => AskTold(k)')
  BY <1>1, <1>2 DEF EndTold, AskTold, Shown, Deciding
<1>5. Serving' => Serving
  BY <1>1 DEF Serving, Trusted
<1>6. (ReaderLives => ReaderLives') /\ (TurnsAreOver => TurnsAreOver') /\ (StartsGoOn => StartsGoOn')
  BY <1>1 DEF ReaderLives, TurnsAreOver, Over, Known, StartsGoOn
<1>7. (EndsAreTold => EndsAreTold') /\ (AsksAreTold => AsksAreTold')
  BY <1>1, <1>4 DEF EndsAreTold, AsksAreTold
<1>8. QED  BY <1>1, <1>3, <1>5, <1>6, <1>7 DEF NewsInv

LEMMA NewsStays ==
  ASSUME NewsContext, Named = {}, "bare" \notin Emits, [SupervisorNext]_vars
  PROVE  NewsContext'
<1>1. SupervisorInv' /\ TurnsInv' /\ PendingInv' /\ QueueStep /\ NewsInv
  BY InvariantStays, TurnsStay, PendingInvStays, SupervisorAdvances DEF NewsContext, Advances
<1>2. NewsInv'
  BY <1>1, DispatchNews, StarterNews, EarlyNews, ReaderNews, OwnerNews, StopsNews,
     ServedNews, ServerEndsNews, CrashNews, RestartNews, StillNews DEF SupervisorNext
<1>3. QED  BY <1>1, <1>2 DEF NewsContext

LEMMA NewsStarts ==
  ASSUME SupervisorInit
  PROVE  NewsContext
<1>1. SupervisorInv /\ TurnsInv /\ PendingInv
  BY InvariantStarts, TurnsStart, PendingStarts
<1>2. /\ disk = Empty /\ data = Empty /\ engine = FreshEngine(data)
      /\ task = [x \in TaskIds |-> Rest("idle")]
      /\ turn = [i \in Ids |-> "none"] /\ inbox = {} /\ wire = <<>>
  BY DEF SupervisorInit, Init, AppServerInit, TaskIds
<1>3. DOMAIN disk.jobs = {} /\ \A x \in TaskIds : task[x].at = "idle"
  <2>1. Rest("idle").at = "idle" /\ DOMAIN Empty.jobs = {}
    BY DEF Rest, Empty
  <2>2. QED  BY <1>2, <2>1
<1>4. \A k \in Ids : TurnBegun(k) /\ ~Resolving(k)
  BY <1>2, <1>3, TaskIdsFacts DEF TurnBegun, Resolving, Asked, Answer_
<1>5. Running(disk) = {}
  BY <1>3 DEF Running, Active
<1>6. engine.closed = FALSE /\ engine.early = {} /\ engine.closed_turns = {}
  BY <1>2, <1>3 DEF FreshEngine, ClosedAtStart
<1>7. "idle" \notin WithMessage \cup {"completion", "eof", "disconnect", "sweep", "dead"}
  BY DEF WithMessage, WithJob
<1>8. ReaderLives /\ TurnsAreOver
  BY <1>3, <1>6, <1>7, TaskIdsFacts DEF ReaderLives, TurnsAreOver
<1>9. StartsGoOn /\ EndsAreTold /\ AsksAreTold
  BY <1>2, <1>5 DEF StartsGoOn, EndsAreTold, AsksAreTold
<1>10. NewsInv
  BY <1>4, <1>8, <1>9 DEF NewsInv
<1>11. QED  BY <1>1, <1>10 DEF NewsContext

(* No slot is lost: while the process, its journal and the app-server work, *)
(* a job that holds a slot, and is not shown as one to verify, has a turn   *)
(* that runs, a thread that still starts it, or the end of its turn on the  *)
(* way to the reader.  No error answer, early completion, refused start or  *)
(* late request of an approval is dropped so that a slot stays taken by     *)
(* nothing.  A completion without threadId would be: see ActiveFor.         *)
THEOREM SlotsAlwaysHaveTurns ==
  ASSUME Named = {}, "bare" \notin Emits
  PROVE  SupervisorSpec => []SlotsHaveTurns
<1>1. SupervisorInit => NewsContext
  BY NewsStarts
<1>2. NewsContext /\ [SupervisorNext]_vars => NewsContext'
  BY NewsStays
<1>3. NewsContext => SlotsHaveTurns
  <2>1. SUFFICES ASSUME NewsContext, Serving, NEW i \in Running(data)
                 PROVE  i \in Live \/ Expected(i)
    BY DEF SlotsHaveTurns, Serving, Trusted
  <2>2. data = disk /\ i \in Running(disk) /\ i \in Ids /\ 0 \in TaskIds
    BY <2>1, TaskIdsFacts
       DEF NewsContext, SupervisorInv, SpoolInv, Aligned, OwnNames, Running, Active
  <2>3. turn[i] \in {"none", "live", "asking", "answered", "ended"}
    BY <2>1, <2>2 DEF NewsContext, SupervisorInv, Fits, TurnsFit
  <2>4. CASE turn[i] = "none"
    <3>1. task[i].at \in Starting
      BY <2>1, <2>2, <2>4 DEF NewsContext, NewsInv, StartsGoOn
    <3>2. QED  BY <3>1 DEF Starting, Pre, Expected
  <2>5. CASE turn[i] = "ended"
    <3>1. EndTold(i)
      BY <2>1, <2>2, <2>5 DEF NewsContext, NewsInv, EndsAreTold
    <3>2. QED  BY <2>2, <3>1, TaskIdsFacts DEF EndTold, Answer_, Expected
  <2>6. QED  BY <2>2, <2>3, <2>4, <2>5 DEF Live
<1>4. QED  BY <1>1, <1>2, <1>3, PTL DEF SupervisorSpec

(* No question is lost: while the three work, a turn that waits for a       *)
(* decision is shown to the owner, belongs to a job that is to be verified, *)
(* or its question, an answer or a refusal is under way.  The turn never    *)
(* waits for an owner who is not asked, whichever thread learnt first of    *)
(* the turn, its end or the loss of the connection.                         *)
THEOREM AskingAlwaysShown ==
  ASSUME Named = {}, "bare" \notin Emits
  PROVE  SupervisorSpec => []AskingIsShown
<1>1. SupervisorInit => NewsContext
  BY NewsStarts
<1>2. NewsContext /\ [SupervisorNext]_vars => NewsContext'
  BY NewsStays
<1>3. NewsContext => AskingIsShown
  <2>1. SUFFICES ASSUME NewsContext, Serving, NEW i \in Ids, turn[i] = "asking"
                 PROVE  \/ i \in data.jobs[i].pending
                        \/ StatusOf(i) = "unknown"
                        \/ Expected(i)
                        \/ \E message \in inbox : message[3] = i
    BY DEF AskingIsShown, Serving, Trusted
  <2>2. data = disk
    BY <2>1 DEF NewsContext, SupervisorInv, SpoolInv, Aligned
  <2>3. AskTold(i)
    BY <2>1 DEF NewsContext, NewsInv, AsksAreTold
  <2>4. QED  BY <2>2, <2>3 DEF AskTold, Shown, Deciding, Answer_, Expected, StatusOf
<1>4. QED  BY <1>1, <1>2, <1>3, PTL DEF SupervisorSpec
=============================================================================
