--------------------------- MODULE OdinCodexProofs ---------------------------
(***************************************************************************)
(* Proofs about the supervisor for any number of jobs, with every fault,   *)
(* when submissions name no discussion to resume (with one, the refinement *)
(* is not proved, and TurnsHoldSlots is false of the code: run             *)
(* resumed_discussion).                                                    *)
(*                                                                         *)
(* Every step of the supervisor is a step of the spool, which makes the    *)
(* theorems of OdinQueueProofs theorems about the supervisor.              *)
(***************************************************************************)
EXTENDS OdinCodex, OdinQueueProofs

-----------------------------------------------------------------------------
(* The inductive invariant of the refinement.  Everything that moves        *)
(* between the threads and the app-server speaks of jobs that were handed   *)
(* out, and a job has no other discussion and no other turn than its own.   *)
Known == {i \in DOMAIN disk.jobs : disk.jobs[i].status # "queued"}
Housed == {i \in Known : disk.jobs[i].thread # None}

OwnNames(q) ==
  /\ \A i, k \in DOMAIN q.jobs : q.jobs[i].key = q.jobs[k].key => i = k
  /\ \A i \in DOMAIN q.jobs :
       /\ i \in Ids
       /\ q.jobs[i].thread \in {None, i} /\ q.jobs[i].turn \in {None, i}
       /\ q.jobs[i].status = "queued" => q.jobs[i].turn = None

TaskIds == {0} \cup Ids
AfterThread == {"checkTurn", "sendTurn", "waitTurn", "attachTurn"}
WithJob == {"close", "save", "save new", "attach", "approve", "resolved"}
WithMessage == WithJob \cup {"message", "completion", "resolve"}

TaskRecord == [at: Places, job: TaskIds,
               message: [kind: {"none", "resolved"} \cup Emits, turn: TaskIds]]

(* Thread x may be at a place, with what it has at hand there.              *)
PlaceFits(K, H, x, t) ==
  /\ t \in TaskRecord
  /\ x # 0 /\ t.at # "idle" => x \in K
  /\ x # 0 /\ t.at \in AfterThread => x \in H
  /\ t.message.turn \in {0} \cup K
  /\ t.at \in WithMessage => t.message.turn \in K
  /\ t.at = "message" => t.message.kind \in Emits \cup {"resolved"}
  /\ t.at = "completion" => t.message.kind \in Emits \ {"approval"}
  /\ t.at = "completion" => t.job \in {0, t.message.turn}
  /\ t.at \in WithJob => t.job = t.message.turn
  /\ t.at \in {"save new", "attach"} => t.job \in H

TasksFit ==
  /\ task \in [TaskIds -> TaskRecord]
  /\ \A x \in TaskIds : PlaceFits(Known, Housed, x, task[x])

StoppersFit ==
  /\ stopper \in [Ids -> [at: {"idle", "send", "wait", "lost"}, turn: Turns \cup {None}]]
  /\ \A i \in Ids : stopper[i].at # "idle" => i \in Known

EngineFits ==
  /\ engine \in [ready: BOOLEAN, closed: BOOLEAN, early: SUBSET [kind: Emits, turn: Ids],
                 closed_turns: SUBSET Ids, requests: SUBSET (Ids \X Ids)]
  /\ IsFiniteSet(engine.early) /\ Cardinality(engine.early) <= EarlyLimit
  /\ \A m \in engine.early : m.kind # "approval" /\ m.turn \in Known
  /\ \A r \in engine.requests : r[1] = r[2] /\ r[1] \in Known

Answers == {"threadOk", "turnOk", "startNo", "stopOk", "stopNo"}

WireFits ==
  /\ wire \in Seq([kind: Emits \cup {"resolved"} \cup Answers, turn: Ids])
  /\ \A n \in DOMAIN wire : wire[n].turn \in Known

InboxFits ==
  \A m \in inbox :
    /\ m = <<m[1], m[2], m[3]>>
    /\ m[1] \in {"thread", "turn", "reply"} => m[2] = m[3] /\ m[2] \in Known
    /\ m[1] = "interrupt" => m[2] \in Known
    /\ m[1] \in {"answer", "deny"} => m[3] \in Known

TurnsFit ==
  /\ turn \in [Ids -> {"none", "live", "asking", "answered", "ended"}]
  /\ \A i \in Ids : turn[i] # "none" => i \in Known

Fits ==
  /\ dispatcher \in {"top", "claim", "stopped"} /\ server \in BOOLEAN
  /\ TasksFit /\ StoppersFit /\ EngineFits /\ sweep \subseteq Known
  /\ WireFits /\ InboxFits /\ TurnsFit

SupervisorInv == SpoolInv /\ OwnNames(disk) /\ Fits

-----------------------------------------------------------------------------
(* What the calls of the supervisor do to the jobs of the journal.          *)
Touches(i) ==
  /\ DOMAIN disk'.jobs = DOMAIN disk.jobs
  /\ \A k \in DOMAIN disk.jobs : k # i => disk'.jobs[k] = disk.jobs[k]

SameNames(i) ==
  /\ disk'.jobs[i].key = disk.jobs[i].key
  /\ disk'.jobs[i].thread = disk.jobs[i].thread
  /\ disk'.jobs[i].turn = disk.jobs[i].turn

SameStatus(i) == disk'.jobs[i].status = disk.jobs[i].status

LEMMA EditTouches ==
  ASSUME Aligned, NEW i \in DOMAIN data.jobs, NEW job \in Job, NEW n,
         n = [data EXCEPT !.jobs[i] = job], Commit(n) \/ UNCHANGED memory
  PROVE  Touches(i) /\ disk'.jobs[i] \in {disk.jobs[i], job}
<1>1. data \in Image /\ data = disk
  BY DEF Aligned
<1>2. /\ DOMAIN n.jobs = DOMAIN data.jobs
      /\ \A k \in DOMAIN data.jobs : n.jobs[k] = IF k = i THEN job ELSE data.jobs[k]
  BY <1>1, PatchTyped
<1>3. disk' = disk \/ disk' = n
  BY DEF Commit, WriteOk, WriteFails, memory
<1>4. QED  BY <1>1, <1>2, <1>3 DEF Touches

LEMMA ThreadTouches ==
  ASSUME Aligned, NEW i \in DOMAIN data.jobs, NEW thread \in Threads, AttachThread(i, thread)
  PROVE  /\ Touches(i) /\ SameStatus(i)
         /\ disk'.jobs[i].key = disk.jobs[i].key /\ disk'.jobs[i].turn = disk.jobs[i].turn
         /\ disk'.jobs[i].thread \in {disk.jobs[i].thread, thread}
         /\ ~storage_failed' => disk'.jobs[i].thread = thread
<1> DEFINE job == data.jobs[i]
           new == [job EXCEPT !.thread = thread]
<1>1. data \in Image /\ data = disk /\ job \in Job
  BY ImageParts DEF Aligned
<1>2. [data EXCEPT !.jobs[i].thread = thread] = [data EXCEPT !.jobs[i] = new]
  BY <1>1 DEF Image, Job
<1>3. /\ new \in Job /\ new.thread = thread /\ new.key = job.key
      /\ new.status = job.status /\ new.turn = job.turn
  BY <1>1 DEF Job
<1> HIDE DEF new
<1>4. Touches(i) /\ disk'.jobs[i] \in {disk.jobs[i], new}
  BY <1>2, <1>3, EditTouches DEF AttachThread
<1>5. ~storage_failed' => disk'.jobs[i] = new
  <2> DEFINE n == [data EXCEPT !.jobs[i] = new]
  <2>1. ~storage_failed' => disk' = n
    BY <1>2 DEF AttachThread, Commit, WriteOk, WriteFails
  <2>2. n.jobs[i] = new
    BY <1>1, <1>3, PatchTyped
  <2> HIDE DEF n
  <2>3. QED  BY <2>1, <2>2
<1>6. QED  BY <1>1, <1>3, <1>4, <1>5 DEF SameStatus

LEMMA TurnTouches ==
  ASSUME Aligned, NEW i \in DOMAIN data.jobs, NEW t \in Turns, AttachTurn(i, t)
  PROVE  /\ Touches(i)
         /\ disk'.jobs[i].key = disk.jobs[i].key /\ disk'.jobs[i].thread = disk.jobs[i].thread
         /\ disk'.jobs[i].turn \in {disk.jobs[i].turn, t}
         /\ SameStatus(i) \/ (disk.jobs[i].status = "starting" /\ disk'.jobs[i].status = "running")
<1> DEFINE job == data.jobs[i]
           new == [job EXCEPT !.turn = t, !.status = IF @ = "starting" THEN "running" ELSE @]
<1>1. data \in Image /\ data = disk /\ job \in Job
  BY ImageParts DEF Aligned
<1>2. [data EXCEPT !.jobs[i].turn = t,
                   !.jobs[i].status = IF @ = "starting" THEN "running" ELSE @]
        = [data EXCEPT !.jobs[i] = new]
  BY <1>1 DEF Image, Job
<1>3. /\ new \in Job /\ new.thread = job.thread /\ new.key = job.key /\ new.turn = t
      /\ new.status = IF job.status = "starting" THEN "running" ELSE job.status
  BY <1>1 DEF Job, OCCUPIED
<1> HIDE DEF new
<1>4. Touches(i) /\ disk'.jobs[i] \in {disk.jobs[i], new}
  BY <1>2, <1>3, EditTouches DEF AttachTurn
<1>5. QED  BY <1>1, <1>3, <1>4 DEF SameStatus

(* A report changes the status of an unfinished job only.                   *)
Turned(i, statuses) ==
  /\ Touches(i) /\ SameNames(i)
  /\ SameStatus(i) \/ (disk.jobs[i].status \notin TERMINAL /\ disk'.jobs[i].status \in statuses)

LEMMA EventTouches ==
  ASSUME Aligned, NEW i \in DOMAIN data.jobs, NEW job \in Job, NEW n, NEW status,
         n = [data EXCEPT !.jobs[i] = job], Event(i, n), job.status = status,
         job.key = data.jobs[i].key, job.thread = data.jobs[i].thread,
         job.turn = data.jobs[i].turn
  PROVE  Turned(i, {status})
<1>1. Commit(n) \/ UNCHANGED memory
  BY DEF Event
<1>2. Touches(i) /\ disk'.jobs[i] \in {disk.jobs[i], job}
  BY <1>1, EditTouches
<1>3. data = disk
  BY DEF Aligned
<1>4. Ignored(i) => disk' = disk
  BY DEF Event, memory
<1>5. QED  BY <1>2, <1>3, <1>4 DEF Turned, SameNames, SameStatus, Ignored, StatusOf

LEMMA CompleteTouches ==
  ASSUME Aligned, NEW i \in DOMAIN data.jobs, NEW status \in TERMINAL, EventComplete(i, status)
  PROVE  Turned(i, {status})
<1> DEFINE job == data.jobs[i]
           new == [job EXCEPT !.status = status, !.pending = {}]
<1>1. data \in Image /\ job \in Job
  BY ImageParts DEF Aligned
<1>2. [data EXCEPT !.jobs[i].status = status, !.jobs[i].pending = {}]
        = [data EXCEPT !.jobs[i] = new]
  BY <1>1 DEF Image, Job
<1>3. /\ new \in Job /\ new.thread = job.thread /\ new.key = job.key /\ new.turn = job.turn
      /\ new.status = status
  BY <1>1 DEF Job
<1> HIDE DEF new
<1>4. QED  BY <1>2, <1>3, EventTouches DEF EventComplete

LEMMA UnknownTouches ==
  ASSUME Aligned, NEW i \in DOMAIN data.jobs, EventUnknown(i)
  PROVE  Turned(i, {"unknown"})
<1> DEFINE job == data.jobs[i]
           new == [job EXCEPT !.status = "unknown", !.pending = {}]
<1>1. data \in Image /\ job \in Job
  BY ImageParts DEF Aligned
<1>2. [data EXCEPT !.jobs[i].status = "unknown", !.jobs[i].pending = {}]
        = [data EXCEPT !.jobs[i] = new]
  BY <1>1 DEF Image, Job
<1>3. /\ new \in Job /\ new.thread = job.thread /\ new.key = job.key /\ new.turn = job.turn
      /\ new.status = "unknown"
  BY <1>1 DEF Job, OCCUPIED
<1> HIDE DEF new
<1>4. QED  BY <1>2, <1>3, EventTouches DEF EventUnknown

LEMMA SameTouches ==
  ASSUME Aligned, NEW i \in DOMAIN data.jobs, NEW statuses, Event(i, data)
  PROVE  Turned(i, statuses)
<1>1. disk' = disk
  BY DEF Event, Commit, WriteOk, WriteFails, memory, Aligned
<1>2. QED  BY <1>1 DEF Turned, Touches, SameNames, SameStatus

LEMMA ApprovalTouches ==
  ASSUME Aligned, NEW i \in DOMAIN data.jobs, NEW request \in Requests, EventApproval(i, request)
  PROVE  /\ Turned(i, {"waiting_approval"})
         /\ disk.jobs[i].status = "unknown" => SameStatus(i)
<1> DEFINE job == data.jobs[i]
           new == [job EXCEPT !.pending = @ \cup {request},
                              !.status = IF @ = "cancelling" THEN @ ELSE "waiting_approval"]
<1>1. data \in Image /\ job \in Job /\ data = disk
  BY ImageParts DEF Aligned
<1>2. CASE job.status = "unknown"
  <2>1. Turned(i, {})
    BY <1>2, SameTouches DEF EventApproval, StatusOf
  <2>2. QED  BY <2>1 DEF Turned
<1>3. CASE job.status # "unknown"
  <2>1. [data EXCEPT !.jobs[i].pending = @ \cup {request},
                     !.jobs[i].status = IF @ = "cancelling" THEN @ ELSE "waiting_approval"]
          = [data EXCEPT !.jobs[i] = new]
    BY <1>1 DEF Image, Job
  <2>2. /\ new \in Job /\ new.thread = job.thread /\ new.key = job.key /\ new.turn = job.turn
        /\ new.status = IF job.status = "cancelling" THEN job.status ELSE "waiting_approval"
    BY <1>1 DEF Job, OCCUPIED
  <2> HIDE DEF new
  <2>3. Event(i, [data EXCEPT !.jobs[i] = new])
    BY <1>3, <2>1 DEF EventApproval, StatusOf
  <2>4. Turned(i, {new.status})
    BY <2>2, <2>3, EventTouches
  <2>5. QED  BY <1>1, <1>3, <2>2, <2>4 DEF Turned, SameStatus
<1>4. QED  BY <1>2, <1>3

LEMMA ResolvedTouches ==
  ASSUME Aligned, NEW i \in DOMAIN data.jobs, NEW request \in Requests, EventResolved(i, request)
  PROVE  /\ Turned(i, {"running"})
         /\ disk.jobs[i].status = "unknown" => SameStatus(i)
<1> DEFINE job == data.jobs[i]
           left == job.pending \ {request}
           new == [job EXCEPT !.pending = left,
                              !.status = IF left = {} /\ @ = "waiting_approval"
                                         THEN "running" ELSE @]
<1>1. data \in Image /\ job \in Job /\ data = disk
  BY ImageParts DEF Aligned
<1>2. [data EXCEPT !.jobs[i].pending = left,
                   !.jobs[i].status = IF left = {} /\ @ = "waiting_approval"
                                      THEN "running" ELSE @]
        = [data EXCEPT !.jobs[i] = new]
  BY <1>1, ZenonT(30) DEF Image, Job
<1>3. /\ new \in Job /\ new.thread = job.thread /\ new.key = job.key /\ new.turn = job.turn
      /\ new.status = IF left = {} /\ job.status = "waiting_approval"
                      THEN "running" ELSE job.status
  BY <1>1 DEF Job, OCCUPIED
<1>4. Event(i, [data EXCEPT !.jobs[i] = new])
  BY <1>2 DEF EventResolved
<1> HIDE DEF new
<1>5. Turned(i, {new.status})
  BY <1>3, <1>4, EventTouches
<1>6. QED  BY <1>1, <1>3, <1>5 DEF Turned, SameStatus

LEMMA CancelTouches ==
  ASSUME Aligned, NEW i \in DOMAIN data.jobs, Cancel(i)
  PROVE  /\ Touches(i) /\ SameNames(i)
         /\ \/ SameStatus(i) /\ disk.jobs[i].status \notin {"cancelling", "unknown"}
            \/ disk.jobs[i].status = "queued" /\ disk'.jobs[i].status = "cancelled"
            \/ /\ disk.jobs[i].status \in {"running", "waiting_approval"}
               /\ disk'.jobs[i].status = "cancelling" /\ disk.jobs[i].turn # None
<1> DEFINE job == data.jobs[i]
           status == CASE job.status = "queued" -> "cancelled"
                       [] job.status \in {"running", "waiting_approval"} -> "cancelling"
                       [] OTHER -> job.status
           new == [job EXCEPT !.status = status]
<1>1. data \in Image /\ job \in Job /\ data = disk
  BY ImageParts DEF Aligned
<1>2. [data EXCEPT !.jobs[i].status =
         CASE @ = "queued" -> "cancelled"
           [] @ \in {"running", "waiting_approval"} -> "cancelling"
           [] OTHER -> @] = [data EXCEPT !.jobs[i] = new]
  BY <1>1 DEF Image, Job
<1>3. /\ job.status = "queued" => status = "cancelled"
      /\ job.status \in {"running", "waiting_approval"} => status = "cancelling"
      /\ job.status \notin {"queued", "running", "waiting_approval"} => status = job.status
      /\ status \in Status
  <2>1. CASE job.status = "queued"
    BY <2>1 DEF Status, TERMINAL
  <2>2. CASE job.status \in {"running", "waiting_approval"}
    BY <2>2 DEF Status, OCCUPIED
  <2>3. CASE job.status \notin {"queued", "running", "waiting_approval"}
    BY <1>1, <2>3 DEF Job, Status
  <2>4. QED  BY <2>1, <2>2, <2>3
<1> HIDE DEF status
<1>4. /\ new \in Job /\ new.thread = job.thread /\ new.key = job.key /\ new.turn = job.turn
      /\ new.status = status
  BY <1>1, <1>3 DEF Job, Status
<1>5. Commit([data EXCEPT !.jobs[i] = new])
  BY <1>2 DEF Cancel
<1> HIDE DEF new
<1>6. Touches(i) /\ disk'.jobs[i] \in {disk.jobs[i], new}
  BY <1>4, <1>5, EditTouches
<1>7. /\ job.status \in {"queued"} \cup TERMINAL \cup {"running", "waiting_approval"}
      /\ job.status \in {"running", "waiting_approval"} => job.turn # None
  BY DEF Cancel, Cancellable, StatusOf, TERMINAL
<1>8. job.status \notin {"cancelling", "unknown"}
  BY <1>7 DEF TERMINAL
<1>9. QED  BY <1>1, <1>3, <1>4, <1>6, <1>7, <1>8 DEF SameNames, SameStatus

LEMMA ConfirmTouches ==
  ASSUME Aligned, NEW i \in DOMAIN data.jobs, ConfirmStopped(i)
  PROVE  Turned(i, {"interrupted"})
<1> DEFINE job == data.jobs[i]
           new == [job EXCEPT !.status = "interrupted"]
<1>1. data \in Image /\ job \in Job /\ data = disk
  BY ImageParts DEF Aligned
<1>2. [data EXCEPT !.jobs[i].status = "interrupted"] = [data EXCEPT !.jobs[i] = new]
  BY <1>1 DEF Image, Job
<1>3. /\ new \in Job /\ new.thread = job.thread /\ new.key = job.key /\ new.turn = job.turn
      /\ new.status = "interrupted"
  BY <1>1 DEF Job, TERMINAL
<1>4. Commit([data EXCEPT !.jobs[i] = new])
  BY <1>2 DEF ConfirmStopped
<1> HIDE DEF new
<1>5. Touches(i) /\ disk'.jobs[i] \in {disk.jobs[i], new}
  BY <1>3, <1>4, EditTouches
<1>6. job.status \notin TERMINAL
  BY DEF ConfirmStopped, StatusOf, TERMINAL
<1>7. QED  BY <1>1, <1>3, <1>5, <1>6 DEF Turned, SameNames, SameStatus

LEMMA PauseKeepsJobs ==
  ASSUME Aligned, NEW paused, Pause(paused)
  PROVE  disk'.jobs = disk.jobs
<1>1. data \in Image /\ data = disk
  BY DEF Aligned
<1>2. [data EXCEPT !.paused = paused].jobs = data.jobs
  BY <1>1 DEF Image
<1>3. disk' = disk \/ disk' = [data EXCEPT !.paused = paused]
  BY DEF Pause, Commit, WriteOk, WriteFails
<1>4. QED  BY <1>1, <1>2, <1>3

(* A submission adds a job that is queued and has no discussion and a new   *)
(* key, or nothing.                                                         *)
JobArrives ==
  \E last, key :
    /\ last \notin DOMAIN disk.jobs /\ DOMAIN disk'.jobs = DOMAIN disk.jobs \cup {last}
    /\ \A k \in DOMAIN disk.jobs : disk'.jobs[k] = disk.jobs[k] /\ disk.jobs[k].key # key
    /\ LET job == disk'.jobs[last]
       IN  job.key = key /\ job.thread = None /\ job.turn = None /\ job.status = "queued"

LEMMA SubmitAdds ==
  ASSUME Aligned, NEW key \in Keys, NEW dir \in Dirs, Submit(key, dir, None)
  PROVE  \/ disk'.jobs = disk.jobs
         \/ JobArrives
<1> DEFINE n == [data EXCEPT !.jobs = Append(@, NewJob(key, dir, None))]
<1>1. data \in Image /\ data = disk
  BY DEF Aligned
<1>2. NewJob(key, dir, None) \in Job
  BY DEF NewJob, Job
<1>3. /\ DOMAIN n.jobs = DOMAIN data.jobs \cup {Len(data.jobs) + 1}
      /\ \A i \in DOMAIN data.jobs : n.jobs[i] = data.jobs[i]
      /\ n.jobs[Len(data.jobs) + 1] = NewJob(key, dir, None)
  BY <1>1, <1>2, AppendTyped
<1>4. Len(data.jobs) + 1 \notin DOMAIN data.jobs
  BY <1>1, ImageParts
<1>5. \A i \in DOMAIN data.jobs : data.jobs[i].key # key
  BY DEF Submit
<1>6. disk' = disk \/ disk' = n
  BY DEF Submit, Commit, WriteOk, WriteFails
<1> HIDE DEF n
<1>7. CASE disk' = disk
  BY <1>7
<1>8. CASE disk' = n
  <2> DEFINE last == Len(data.jobs) + 1
  <2>1. /\ last \notin DOMAIN disk.jobs /\ DOMAIN disk'.jobs = DOMAIN disk.jobs \cup {last}
        /\ \A k \in DOMAIN disk.jobs : disk'.jobs[k] = disk.jobs[k] /\ disk.jobs[k].key # key
        /\ disk'.jobs[last] = NewJob(key, dir, None)
    BY <1>1, <1>3, <1>4, <1>5, <1>8
  <2> HIDE DEF last
  <2>2. QED  BY <2>1 DEF JobArrives, NewJob
<1>9. QED  BY <1>6, <1>7, <1>8

(* A claim only hands out, or fails, jobs that were queued.                 *)
Claiming ==
  \/ \E i \in DOMAIN data.jobs : ClaimReturns(i, {})
  \/ ClaimReturnsNothing({})
  \/ ClaimRaises({})

LEMMA MarkTouches ==
  ASSUME NEW q \in Image, NEW S, NEW status \in Status
  PROVE  /\ DOMAIN Mark(q, S, status).jobs = DOMAIN q.jobs
         /\ \A k \in DOMAIN q.jobs :
              LET old == q.jobs[k]
                  new == Mark(q, S, status).jobs[k]
              IN  /\ new.key = old.key /\ new.thread = old.thread /\ new.turn = old.turn
                  /\ new.status = IF k \in S THEN status ELSE old.status
<1>1. /\ DOMAIN Mark(q, S, status).jobs = DOMAIN q.jobs
      /\ \A k \in DOMAIN q.jobs :
           Mark(q, S, status).jobs[k] =
             IF k \in S THEN [q.jobs[k] EXCEPT !.status = status] ELSE q.jobs[k]
  BY MarkTyped
<1>2. \A job \in Job :
        /\ [job EXCEPT !.status = status].key = job.key
        /\ [job EXCEPT !.status = status].thread = job.thread
        /\ [job EXCEPT !.status = status].turn = job.turn
        /\ [job EXCEPT !.status = status].status = status
  BY DEF Job
<1>3. \A k \in DOMAIN q.jobs : q.jobs[k] \in Job
  BY ImageParts
<1>4. QED  BY <1>1, <1>2, <1>3

LEMMA ClaimTouches ==
  ASSUME Aligned, Claiming
  PROVE  /\ DOMAIN disk'.jobs = DOMAIN disk.jobs
         /\ \A k \in DOMAIN disk.jobs :
              SameNames(k) /\ (SameStatus(k) \/ disk.jobs[k].status = "queued")
         /\ \A i \in DOMAIN data.jobs :
              ClaimReturns(i, {}) => /\ disk.jobs[i].status = "queued"
                                     /\ disk'.jobs[i].status = "starting"
<1>1. data \in Image /\ data = disk
  BY DEF Aligned
<1>2. "failed" \in Status /\ "starting" \in Status
  BY DEF Status, OCCUPIED, TERMINAL
<1>3. ASSUME NEW S \in SUBSET Candidates(data)
      PROVE  LET n == Mark(data, S, "failed")
             IN  /\ n \in Image /\ DOMAIN n.jobs = DOMAIN data.jobs
                 /\ \A k \in DOMAIN data.jobs :
                      /\ n.jobs[k].key = data.jobs[k].key
                      /\ n.jobs[k].thread = data.jobs[k].thread
                      /\ n.jobs[k].turn = data.jobs[k].turn
                      /\ \/ n.jobs[k].status = data.jobs[k].status
                         \/ data.jobs[k].status = "queued"
  BY <1>1, <1>2, MarkTouches, MarkTyped DEF Candidates
<1>4. /\ Dropped({}) \in SUBSET Candidates(data)
      /\ \A last : {i \in Dropped({}) : i < last} \in SUBSET Candidates(data)
  BY DEF Dropped
<1>5. ASSUME NEW i \in DOMAIN data.jobs, ClaimReturns(i, {})
      PROVE  /\ DOMAIN disk'.jobs = DOMAIN disk.jobs
             /\ \A k \in DOMAIN disk.jobs :
                  SameNames(k) /\ (SameStatus(k) \/ disk.jobs[k].status = "queued")
             /\ disk.jobs[i].status = "queued" /\ disk'.jobs[i].status = "starting"
  <2> DEFINE q == Mark(data, Dropped({}), "failed")
             n == Mark(q, {i}, "starting")
  <2>1. i \in Candidates(data)
    BY <1>5 DEF ClaimReturns, Chosen, Sound
  <2>2. data.jobs[i].status = "queued"
    BY <2>1 DEF Candidates
  <2>3. disk' = n
    BY <1>5 DEF ClaimReturns, WriteOk
  <2>4. /\ q \in Image /\ DOMAIN q.jobs = DOMAIN data.jobs
        /\ \A k \in DOMAIN data.jobs :
             /\ q.jobs[k].key = data.jobs[k].key /\ q.jobs[k].thread = data.jobs[k].thread
             /\ q.jobs[k].turn = data.jobs[k].turn
             /\ q.jobs[k].status = data.jobs[k].status \/ data.jobs[k].status = "queued"
    BY <1>3, <1>4
  <2> HIDE DEF q
  <2>5. /\ DOMAIN n.jobs = DOMAIN q.jobs
        /\ \A k \in DOMAIN q.jobs :
             /\ n.jobs[k].key = q.jobs[k].key /\ n.jobs[k].thread = q.jobs[k].thread
             /\ n.jobs[k].turn = q.jobs[k].turn
             /\ n.jobs[k].status = IF k \in {i} THEN "starting" ELSE q.jobs[k].status
    BY <1>2, <2>4, MarkTouches
  <2> HIDE DEF n
  <2>6. QED  BY <1>1, <2>2, <2>3, <2>4, <2>5 DEF SameNames, SameStatus
<1>7. ASSUME NEW S \in SUBSET Candidates(data), disk' = Mark(data, S, "failed")
      PROVE  /\ DOMAIN disk'.jobs = DOMAIN disk.jobs
             /\ \A k \in DOMAIN disk.jobs :
                  SameNames(k) /\ (SameStatus(k) \/ disk.jobs[k].status = "queued")
  BY <1>1, <1>3, <1>7 DEF SameNames, SameStatus
<1>8. ASSUME ClaimReturnsNothing({})
      PROVE  disk' = disk \/ disk' = Mark(data, Dropped({}), "failed")
  BY <1>8 DEF ClaimReturnsNothing, memory, WriteOk
<1>9. ASSUME ClaimRaises({})
      PROVE  \E last : disk' = Mark(data, {i \in Dropped({}) : i < last}, "failed")
  BY <1>9 DEF ClaimRaises
<1>10. /\ DOMAIN disk'.jobs = DOMAIN disk.jobs
       /\ \A k \in DOMAIN disk.jobs :
            SameNames(k) /\ (SameStatus(k) \/ disk.jobs[k].status = "queued")
  <2>1. CASE \E i \in DOMAIN data.jobs : ClaimReturns(i, {})
    BY <1>5, <2>1
  <2>2. CASE ClaimReturnsNothing({})
    BY <1>4, <1>7, <1>8, <2>2 DEF SameNames, SameStatus
  <2>3. CASE ClaimRaises({})
    BY <1>4, <1>7, <1>9, <2>3
  <2>4. QED  BY <2>1, <2>2, <2>3 DEF Claiming
<1>11. QED  BY <1>5, <1>10

LEMMA RestartTouches ==
  ASSUME Aligned, NEW max_running, Restart(max_running)
  PROVE  /\ DOMAIN disk'.jobs = DOMAIN disk.jobs /\ data' = disk'
         /\ \A k \in DOMAIN disk.jobs :
              /\ SameNames(k)
              /\ SameStatus(k) \/ (k \in Active(disk) /\ disk'.jobs[k].status = "unknown")
<1> DEFINE Late(job) == [job EXCEPT !.status = "unknown", !.pending = {}]
<1>1. data \in Image /\ data = disk /\ disk' = Recovered(disk) /\ data' = disk'
  BY DEF Aligned, Restart
<1>2. /\ DOMAIN Recovered(disk).jobs = DOMAIN disk.jobs
      /\ \A i \in DOMAIN disk.jobs :
           Recovered(disk).jobs[i] =
             IF i \in Active(disk) THEN Late(disk.jobs[i]) ELSE disk.jobs[i]
  BY <1>1, RecoveredTyped
<1>3. \A job \in Job :
        /\ Late(job).key = job.key /\ Late(job).thread = job.thread
        /\ Late(job).turn = job.turn /\ Late(job).status = "unknown"
  BY DEF Job
<1>4. \A k \in DOMAIN disk.jobs : disk.jobs[k] \in Job
  BY <1>1, ImageParts
<1> HIDE DEF Late
<1>5. QED  BY <1>1, <1>2, <1>3, <1>4 DEF SameNames, SameStatus

-----------------------------------------------------------------------------
(* The steps of the spool that the supervisor makes.                        *)
Reporting(i) ==
  \/ AttachThread(i, ThreadOf(i))
  \/ disk.jobs[i].thread # None /\ AttachTurn(i, i)
  \/ EventComplete(i, "failed") \/ EventComplete(i, "completed") \/ EventUnknown(i)
  \/ EventApproval(i, i) \/ EventResolved(i, i)

Owning ==
  \/ \E key \in Keys, dir \in Dirs : Submit(key, dir, None)
  \/ \E i \in DOMAIN data.jobs : Cancel(i) \/ ConfirmStopped(i)
  \/ \E paused \in BOOLEAN : Pause(paused)

QueueStep ==
  \/ /\ up /\ UNCHANGED <<up, capacity>>
     /\ \/ ~storage_failed /\ Admits(data) /\ Claiming
        \/ (Owning \/ \E i \in Known : Reporting(i)) /\ UNCHANGED claimed
  \/ Crash
  \/ \E max_running \in Limits : Restart(max_running)
  \/ UNCHANGED queueVars

LEMMA IdsFacts ==
  /\ Ids \subseteq Nat \ {0} /\ Ids \subseteq Turns /\ Ids \subseteq Requests
  /\ Ids \subseteq Threads \ KnownThreads /\ None \notin Ids /\ Ids \subseteq Nat
  BY IdsAssumption, TurnsAssumption, FS_CardinalityType

LEMMA KnownIds ==
  ASSUME OwnNames(disk)
  PROVE  Known \subseteq Ids /\ Housed \subseteq Known
  BY DEF OwnNames, Known, Housed

(* A job that opens a discussion opens its own, which no other job has.     *)
LEMMA OwnThreads ==
  ASSUME SpoolInv, OwnNames(disk), NEW i \in Known
  PROVE  i \in DOMAIN data.jobs /\ ThreadOf(i) = i /\ i \in OpenedFor(i) /\ i \in TurnsFor(i)
<1>1. data = disk /\ i \in DOMAIN disk.jobs /\ i \in Ids
  BY KnownIds DEF SpoolInv, Aligned, Known
<1>2. \A k \in DOMAIN disk.jobs : disk.jobs[k].thread \in {None, k} /\ disk.jobs[k].turn \in {None, k}
  BY DEF OwnNames
<1>3. ThreadOf(i) = i
  BY <1>1, <1>2, IdsFacts DEF ThreadOf
<1>4. i \in OpenedFor(i)
  BY <1>1, <1>2, IdsFacts DEF OpenedFor, InUse
<1>5. i \in TurnsFor(i)
  BY <1>1, <1>2, IdsFacts DEF TurnsFor
<1>6. QED  BY <1>1, <1>3, <1>4, <1>5

LEMMA QueueStepIsNext ==
  ASSUME SpoolInv, OwnNames(disk), QueueStep
  PROVE  [Next]_queueVars
<1>1. data = disk
  BY DEF SpoolInv, Aligned
<1>2. ASSUME NEW i \in Known, Reporting(i)
      PROVE  Report(i)
  <2>1. /\ i \in DOMAIN data.jobs /\ ThreadOf(i) = i /\ i \in OpenedFor(i) /\ i \in TurnsFor(i)
    BY OwnThreads
  <2>2. StatusOf(i) # "queued"
    BY <1>1 DEF Known, StatusOf
  <2>3. i \in Requests
    BY KnownIds, IdsFacts
  <2>4. QED  BY <1>1, <1>2, <2>1, <2>2, <2>3 DEF Report, Reporting
<1>3. Owning => Own
  BY DEF Owning, Own
<1>4. ~storage_failed /\ Admits(data) /\ Claiming => Claim
  <2>1. {} \in SUBSET Dirs
    OBVIOUS
  <2>2. QED  BY <2>1 DEF Claiming, Claim
<1>5. \A i \in Known : i \in DOMAIN data.jobs
  BY <1>1 DEF Known
<1>6. QED  BY <1>2, <1>3, <1>4, <1>5 DEF QueueStep, Next

(* What a step does to the jobs there are, and the one it may add.          *)
JobEvolves(k) ==
  /\ disk'.jobs[k].key = disk.jobs[k].key
  /\ disk'.jobs[k].thread \in {disk.jobs[k].thread, k}
  /\ disk'.jobs[k].turn \in {disk.jobs[k].turn, k}
  /\ disk.jobs[k].status = "queued" => disk'.jobs[k].turn = disk.jobs[k].turn
  /\ disk'.jobs[k].status = "queued" => disk.jobs[k].status = "queued"

JobsStay ==
  DOMAIN disk'.jobs = DOMAIN disk.jobs /\ \A k \in DOMAIN disk.jobs : JobEvolves(k)

LEMMA ReportingTouches ==
  ASSUME SpoolInv, OwnNames(disk), NEW i \in Known, Reporting(i)
  PROVE  /\ Touches(i) /\ disk'.jobs[i].key = disk.jobs[i].key
         /\ disk'.jobs[i].thread \in {disk.jobs[i].thread, i}
         /\ disk'.jobs[i].turn \in {disk.jobs[i].turn, i}
<1>1. Aligned /\ i \in DOMAIN data.jobs /\ ThreadOf(i) = i
  BY OwnThreads DEF SpoolInv
<1>2. i \in Threads /\ i \in Turns /\ i \in Requests
  BY KnownIds, IdsFacts
<1>3. "failed" \in TERMINAL /\ "completed" \in TERMINAL
  BY DEF TERMINAL
<1>4. CASE AttachThread(i, ThreadOf(i))
  BY <1>1, <1>2, <1>4, ThreadTouches
<1>5. CASE AttachTurn(i, i)
  BY <1>1, <1>2, <1>5, TurnTouches
<1>6. CASE EventComplete(i, "failed") \/ EventComplete(i, "completed")
  BY <1>1, <1>3, <1>6, CompleteTouches DEF Turned, SameNames
<1>7. CASE EventUnknown(i)
  BY <1>1, <1>7, UnknownTouches DEF Turned, SameNames
<1>8. CASE EventApproval(i, i) \/ EventResolved(i, i)
  BY <1>1, <1>2, <1>8, ApprovalTouches, ResolvedTouches DEF Turned, SameNames
<1>9. QED  BY <1>4, <1>5, <1>6, <1>7, <1>8 DEF Reporting

LEMMA Evolves ==
  ASSUME SpoolInv, OwnNames(disk), QueueStep
  PROVE  JobsStay \/ JobArrives
<1>1. Aligned /\ data = disk /\ [Next]_queueVars
  BY QueueStepIsNext DEF SpoolInv, Aligned
<1>2. \A k \in DOMAIN disk.jobs :
        disk'.jobs[k].status = "queued" => disk.jobs[k].status = "queued"
  <2>1. \A k \in DOMAIN disk.jobs : <<disk.jobs[k].status, disk'.jobs[k].status>> \in Moves
    BY <1>1, StepMoves
  <2>2. \A s, t : <<s, t>> \in Moves /\ t = "queued" => s = "queued"
    BY DEF Moves, OCCUPIED, TERMINAL
  <2>3. QED  BY <2>1, <2>2
<1>3. ASSUME NEW i \in DOMAIN disk.jobs, Touches(i),
             disk'.jobs[i].key = disk.jobs[i].key,
             disk'.jobs[i].thread \in {disk.jobs[i].thread, i},
             disk'.jobs[i].turn \in {disk.jobs[i].turn, i},
             disk.jobs[i].status = "queued" => disk'.jobs[i].turn = disk.jobs[i].turn
      PROVE  JobsStay
  BY <1>2, <1>3 DEF Touches, JobsStay, JobEvolves
<1>4. CASE \E i \in Known : Reporting(i)
  <2>1. PICK i \in Known : Reporting(i)
    BY <1>4
  <2>2. i \in DOMAIN disk.jobs /\ disk.jobs[i].status # "queued"
    BY DEF Known
  <2>3. QED  BY <1>3, <2>1, <2>2, ReportingTouches
<1>5. CASE Owning
  <2>1. CASE \E key \in Keys, dir \in Dirs : Submit(key, dir, None)
    <3>1. PICK key \in Keys, dir \in Dirs : Submit(key, dir, None)
      BY <2>1
    <3>2. CASE disk'.jobs = disk.jobs
      BY <3>2 DEF JobsStay, JobEvolves
    <3>3. QED  BY <1>1, <3>1, <3>2, SubmitAdds
  <2>2. ASSUME NEW i \in DOMAIN data.jobs, Cancel(i) \/ ConfirmStopped(i)
        PROVE  JobsStay
    <3>1. Touches(i) /\ SameNames(i)
      BY <1>1, <2>2, CancelTouches, ConfirmTouches DEF Turned
    <3>2. QED  BY <1>1, <1>3, <3>1 DEF SameNames
  <2>3. CASE \E paused \in BOOLEAN : Pause(paused)
    BY <1>1, <2>3, PauseKeepsJobs DEF JobsStay, JobEvolves
  <2>4. QED  BY <1>5, <2>1, <2>2, <2>3 DEF Owning
<1>6. CASE Claiming
  BY <1>1, <1>2, <1>6, ClaimTouches DEF JobsStay, JobEvolves, SameNames
<1>7. CASE Crash \/ UNCHANGED queueVars
  BY <1>7 DEF Crash, queueVars, memory, JobsStay, JobEvolves
<1>8. CASE \E max_running \in Limits : Restart(max_running)
  BY <1>1, <1>2, <1>8, RestartTouches DEF JobsStay, JobEvolves, SameNames
<1>9. QED  BY <1>4, <1>5, <1>6, <1>7, <1>8 DEF QueueStep

LEMMA NoPigeonHole ==
  ASSUME NEW S, NEW T, IsFiniteSet(S), IsFiniteSet(T), Cardinality(T) < Cardinality(S),
         NEW f \in [S -> T], \A x, y \in S : f[x] = f[y] => x = y
  PROVE  FALSE
  BY FS_PigeonHole

(* As many jobs as there are keys, so that each has its turn and discussion.*)
LEMMA DistinctKeys ==
  ASSUME NEW q \in Image, \A i, k \in DOMAIN q.jobs : q.jobs[i].key = q.jobs[k].key => i = k
  PROVE  DOMAIN q.jobs \subseteq Ids
<1> DEFINE n == Len(q.jobs)
           f == [i \in 1 .. n |-> q.jobs[i].key]
<1>1. n \in Nat /\ DOMAIN q.jobs = 1 .. n /\ \A i \in 1 .. n : q.jobs[i].key \in Keys
  BY ImageParts DEF Job
<1>2. f \in [1 .. n -> Keys]
  BY <1>1
<1>3. \A x, y \in 1 .. n : f[x] = f[y] => x = y
  BY <1>1
<1>4. IsFiniteSet(1 .. n) /\ Cardinality(1 .. n) = n
  <2>1. 1 \in Int /\ n \in Int
    BY <1>1
  <2> HIDE DEF n
  <2>2. IsFiniteSet(1 .. n) /\ Cardinality(1 .. n) = IF 1 > n THEN 0 ELSE n - 1 + 1
    BY <2>1, FS_Interval
  <2>3. QED  BY <1>1, <2>2
<1>5. IsFiniteSet(Keys) /\ Cardinality(Keys) \in Nat /\ Ids = 1 .. Cardinality(Keys)
  BY IdsAssumption, FS_CardinalityType
<1> HIDE DEF f, n
<1>6. ~(Cardinality(Keys) < n)
  <2>1. SUFFICES ASSUME Cardinality(Keys) < n  PROVE  FALSE
    OBVIOUS
  <2>2. Cardinality(Keys) < Cardinality(1 .. n)
    BY <1>4, <2>1
  <2> DEFINE S == 1 .. n
  <2>3. /\ IsFiniteSet(S) /\ IsFiniteSet(Keys) /\ Cardinality(Keys) < Cardinality(S)
        /\ f \in [S -> Keys] /\ \A x, y \in S : f[x] = f[y] => x = y
    BY <1>2, <1>3, <1>4, <1>5, <2>2
  <2> HIDE DEF S
  <2>4. QED  BY <2>3, NoPigeonHole
<1>7. QED  BY <1>1, <1>5, <1>6

LEMMA NamesStayOwn ==
  ASSUME SpoolInv, OwnNames(disk), QueueStep
  PROVE  OwnNames(disk')
<1>1. SpoolInv' /\ disk' \in Image
  BY QueueStepIsNext, NextSpool DEF SpoolInv, Aligned
<1>2. \A i, k \in DOMAIN disk'.jobs : disk'.jobs[i].key = disk'.jobs[k].key => i = k
  BY Evolves DEF OwnNames, JobsStay, JobArrives, JobEvolves
<1>3. DOMAIN disk'.jobs \subseteq Ids
  BY <1>1, <1>2, DistinctKeys
<1>4. \A i \in DOMAIN disk'.jobs :
        /\ disk'.jobs[i].thread \in {None, i} /\ disk'.jobs[i].turn \in {None, i}
        /\ disk'.jobs[i].status = "queued" => disk'.jobs[i].turn = None
  BY Evolves DEF OwnNames, JobsStay, JobArrives, JobEvolves
<1>5. QED  BY <1>2, <1>3, <1>4 DEF OwnNames

LEMMA KnownGrows ==
  ASSUME SpoolInv, OwnNames(disk), QueueStep
  PROVE  Known \subseteq Known' /\ Housed \subseteq Housed'
<1>1. \A k \in Known : k \in DOMAIN disk'.jobs /\ disk'.jobs[k].status # "queued"
  BY Evolves DEF JobsStay, JobArrives, JobEvolves, Known
<1>2. \A k \in Housed : disk'.jobs[k].thread # None
  <2>1. \A k \in Housed : k # None
    BY KnownIds, IdsFacts
  <2>2. QED  BY <2>1, Evolves DEF JobsStay, JobArrives, JobEvolves, Known, Housed
<1>3. QED  BY <1>1, <1>2 DEF Known, Housed

-----------------------------------------------------------------------------
(* What is left as it was stays fit while more jobs are handed out.         *)
LEMMA FitsWhenLeft ==
  ASSUME Fits, Known \subseteq Known', Housed \subseteq Housed'
  PROVE  /\ UNCHANGED task => TasksFit'
         /\ UNCHANGED stopper => StoppersFit'
         /\ UNCHANGED engine => EngineFits'
         /\ UNCHANGED sweep => sweep' \subseteq Known'
         /\ UNCHANGED wire => WireFits'
         /\ UNCHANGED inbox => InboxFits'
         /\ UNCHANGED turn => TurnsFit'
         /\ UNCHANGED dispatcher => dispatcher' \in {"top", "claim", "stopped"}
         /\ UNCHANGED server => server' \in BOOLEAN
<1>1. UNCHANGED task => TasksFit'
  BY DEF Fits, TasksFit, PlaceFits
<1>2. UNCHANGED stopper => StoppersFit'
  BY DEF Fits, StoppersFit
<1>3. UNCHANGED engine => EngineFits'
  BY DEF Fits, EngineFits
<1>4. UNCHANGED wire => WireFits'
  BY DEF Fits, WireFits
<1>5. UNCHANGED inbox => InboxFits'
  BY DEF Fits, InboxFits
<1>6. UNCHANGED turn => TurnsFit'
  BY DEF Fits, TurnsFit
<1>7. QED  BY <1>1, <1>2, <1>3, <1>4, <1>5, <1>6 DEF Fits

LEMMA OneTaskMoves ==
  ASSUME Fits, Known \subseteq Known', Housed \subseteq Housed',
         NEW x \in TaskIds, NEW t, PlaceFits(Known', Housed', x, t),
         task' = [task EXCEPT ![x] = t]
  PROVE  TasksFit'
<1>1. t \in TaskRecord /\ task' \in [TaskIds -> TaskRecord]
  BY DEF Fits, TasksFit, PlaceFits
<1>2. \A y \in TaskIds : task'[y] = IF y = x THEN t ELSE task[y]
  BY DEF Fits, TasksFit
<1>3. \A y \in TaskIds : PlaceFits(Known', Housed', y, task[y])
  BY DEF Fits, TasksFit, PlaceFits
<1>4. \A y \in TaskIds : PlaceFits(Known', Housed', y, task'[y])
  BY <1>2, <1>3
<1>5. QED  BY <1>1, <1>4 DEF TasksFit, PlaceFits

LEMMA RestFits ==
  ASSUME NEW K, NEW H, NEW x \in TaskIds, NEW place \in Places, place \notin WithMessage,
         x # 0 /\ place # "idle" => x \in K,
         x # 0 /\ place \in AfterThread => x \in H
  PROVE  PlaceFits(K, H, x, Rest(place))
<1>1. 0 \in TaskIds
  BY DEF TaskIds
<1>2. /\ Rest(place) \in TaskRecord /\ Rest(place).at = place
      /\ Rest(place).message.turn = 0
  BY <1>1 DEF Rest, Nothing, TaskRecord
<1> HIDE DEF TaskRecord
<1>3. QED  BY <1>2 DEF PlaceFits, WithMessage, WithJob

(* The places a thread goes to rest at.                                     *)
LEMMA GoesFits ==
  ASSUME Fits, Known \subseteq Known', Housed \subseteq Housed',
         NEW x \in TaskIds, NEW place \in Places, place \notin WithMessage, Goes(x, place),
         x # 0 /\ place # "idle" => x \in Known',
         x # 0 /\ place \in AfterThread => x \in Housed'
  PROVE  TasksFit'
<1>1. PlaceFits(Known', Housed', x, Rest(place))
  BY RestFits
<1>2. task' = [task EXCEPT ![x] = Rest(place)]
  BY DEF Goes
<1>3. QED  BY <1>1, <1>2, OneTaskMoves

LEMMA FinishesFits ==
  ASSUME Fits, Known \subseteq Known', Housed \subseteq Housed',
         NEW x \in TaskIds, x \in {0} \cup Known', Finishes(x)
  PROVE  TasksFit'
<1>1. CASE x = 0
  <2>1. Goes(x, "idle") /\ "idle" \in Places /\ "idle" \notin WithMessage /\ "idle" \notin AfterThread
    BY <1>1 DEF Finishes, Places, WithMessage, WithJob, AfterThread
  <2>2. QED  BY <1>1, <2>1, GoesFits
<1>2. CASE x # 0
  <2>1. Goes(x, "done") /\ "done" \in Places /\ "done" \notin WithMessage /\ "done" \notin AfterThread
    BY <1>2 DEF Finishes, Places, WithMessage, WithJob, AfterThread
  <2>2. QED  BY <1>2, <2>1, GoesFits
<1>3. QED  BY <1>1, <1>2

(* A thread goes on with the message and the job it has.                    *)
LEMMA GoesOnFits ==
  ASSUME Fits, Known \subseteq Known', Housed \subseteq Housed',
         NEW x \in TaskIds, NEW t, task' = [task EXCEPT ![x] = t],
         t \in TaskRecord, t.message = task[x].message, task[x].message.turn \in {0} \cup Known,
         x \in {0} \cup Known',
         t.at \notin AfterThread \/ x \in Housed',
         t.at \in WithMessage => task[x].at \in WithMessage,
         t.at = "message" => task[x].at = "message",
         t.at = "completion" => /\ t.message.kind \in Emits \ {"approval"}
                                /\ t.job \in {0, t.message.turn},
         t.at \in WithJob => t.job = t.message.turn,
         t.at \in {"save new", "attach"} => t.job \in Housed'
  PROVE  TasksFit'
<1>1. PlaceFits(Known, Housed, x, task[x])
  BY DEF Fits, TasksFit
<1>2. PlaceFits(Known', Housed', x, t)
  BY <1>1 DEF PlaceFits
<1>3. QED  BY <1>2, OneTaskMoves

-----------------------------------------------------------------------------
(* Each step of the supervisor is a step of the spool and keeps things fit. *)
Advances == QueueStep /\ Fits'

Raised(x) ==
  IF x = 0 THEN Goes(0, "eof") /\ UNCHANGED engine
           ELSE Goes(x, "done") /\ engine' = [engine EXCEPT !.ready = FALSE]

LEMMA RaisedFits ==
  ASSUME Fits, Known \subseteq Known', Housed \subseteq Housed',
         NEW x \in TaskIds, x \in {0} \cup Known', Raised(x)
  PROVE  TasksFit' /\ EngineFits'
<1>1. EngineFits'
  <2>1. engine' = engine \/ engine' = [engine EXCEPT !.ready = FALSE]
    BY DEF Raised
  <2>2. QED  BY <2>1 DEF Fits, EngineFits
<1>2. CASE x = 0
  <2>1. Goes(x, "eof") /\ "eof" \in Places /\ "eof" \notin WithMessage
    BY <1>2 DEF Raised, Places, WithMessage, WithJob
  <2>2. QED  BY <1>1, <1>2, <2>1, GoesFits
<1>3. CASE x # 0
  <2>1. /\ Goes(x, "done") /\ "done" \in Places /\ "done" \notin WithMessage
        /\ "done" \notin AfterThread
    BY <1>3 DEF Raised, Places, WithMessage, WithJob, AfterThread
  <2>2. QED  BY <1>1, <1>3, <2>1, GoesFits
<1>4. QED  BY <1>2, <1>3

LEMMA StillAdvances ==
  ASSUME SupervisorInv, UNCHANGED queueVars
  PROVE  QueueStep /\ Known \subseteq Known' /\ Housed \subseteq Housed'
<1>1. QueueStep
  BY DEF QueueStep
<1>2. QED  BY <1>1, KnownGrows DEF SupervisorInv

LEMMA ReportAdvances ==
  ASSUME SupervisorInv, up, NEW i \in Known, Reporting(i), UNCHANGED <<up, capacity, claimed>>
  PROVE  QueueStep /\ Known \subseteq Known' /\ Housed \subseteq Housed'
<1>1. QueueStep
  BY DEF QueueStep
<1>2. QED  BY <1>1, KnownGrows DEF SupervisorInv

LEMMA DispatchTopAdvances ==
  ASSUME SupervisorInv, DispatchTop
  PROVE  Advances
<1>1. QueueStep /\ Known \subseteq Known' /\ Housed \subseteq Housed'
  BY StillAdvances DEF DispatchTop
<1>2. UNCHANGED <<task, stopper, engine, sweep, wire, inbox, turn, server>>
  BY DEF DispatchTop, serverVars
<1>3. dispatcher' \in {"top", "claim", "stopped"}
  BY DEF DispatchTop
<1>4. QED  BY <1>1, <1>2, <1>3, FitsWhenLeft DEF SupervisorInv, Advances, Fits

LEMMA DispatchClaimAdvances ==
  ASSUME SupervisorInv, up, DispatchClaim
  PROVE  Advances
<1>1. /\ UNCHANGED <<up, capacity, stopper, engine, sweep, wire, inbox, turn, server>>
      /\ dispatcher' \in {"top", "claim", "stopped"}
  BY DEF DispatchClaim, DispatchClaimWith, Claims, serverVars, SupervisorInv, Fits
<1>2. Fits /\ data = disk
  BY DEF SupervisorInv, SpoolInv, Aligned
<1>3. CASE ~storage_failed /\ Admits(data) /\ Claims("top")
  <2>1. Claiming
    BY <1>3 DEF Claims, Claiming
  <2>2. QueueStep
    BY <1>1, <1>3, <2>1 DEF QueueStep
  <2>3. Known \subseteq Known' /\ Housed \subseteq Housed'
    BY <2>2, KnownGrows DEF SupervisorInv
  <2>4. ASSUME NEW i \in DOMAIN data.jobs, ClaimReturns(i, {}), Goes(i, "check")
        PROVE  TasksFit'
    <3>1. disk'.jobs[i].status = "starting" /\ i \in DOMAIN disk'.jobs
      BY <1>2, <2>1, <2>4, ClaimTouches DEF SupervisorInv, SpoolInv
    <3>2. i \in Known' /\ i \in TaskIds
      BY <1>2, <3>1 DEF Known, TaskIds, SupervisorInv, OwnNames
    <3>3. "check" \in Places /\ "check" \notin WithMessage /\ "check" \notin AfterThread
      BY DEF Places, WithMessage, WithJob, AfterThread
    <3>4. QED  BY <1>2, <2>3, <2>4, <3>2, <3>3, GoesFits
  <2>5. TasksFit'
    BY <1>2, <1>3, <2>3, <2>4, FitsWhenLeft DEF Claims
  <2>6. QED  BY <1>1, <1>2, <2>2, <2>3, <2>5, FitsWhenLeft DEF Advances, Fits
<1>4. CASE UNCHANGED <<memory, claimed, task>>
  <2>1. QueueStep /\ Known \subseteq Known' /\ Housed \subseteq Housed'
    BY <1>1, <1>4, StillAdvances DEF queueVars, memory
  <2>2. QED  BY <1>1, <1>2, <1>4, <2>1, FitsWhenLeft DEF Advances, Fits
<1>5. QED  BY <1>3, <1>4 DEF DispatchClaim, DispatchClaimWith

(* A starter that does not call the queue.                                  *)
LEMMA QuietStart ==
  ASSUME SupervisorInv, NEW i \in Known, NEW place \in Places, place \notin WithMessage,
         place \notin AfterThread \/ i \in Housed, Goes(i, place),
         UNCHANGED <<memory, engine>>, InboxFits', StarterOnly
  PROVE  Advances
<1>1. QueueStep /\ Known \subseteq Known' /\ Housed \subseteq Housed'
  BY StillAdvances DEF StarterOnly, queueVars, memory
<1>2. UNCHANGED <<dispatcher, stopper, sweep, wire, turn, server>> /\ Fits
  BY DEF StarterOnly, SupervisorInv
<1>3. i \in TaskIds
  BY KnownIds DEF SupervisorInv, TaskIds
<1>4. TasksFit'
  BY <1>1, <1>2, <1>3, GoesFits
<1>5. QED  BY <1>1, <1>2, <1>4, FitsWhenLeft DEF Advances, Fits

LEMMA StartCheckAdvances ==
  ASSUME SupervisorInv, NEW i \in Known, NEW at, NEW next \in {"sendThread", "sendTurn"},
         next = "sendTurn" => at = "checkTurn", StartCheck(i, at, next)
  PROVE  Advances
<1>1. i \in TaskIds /\ i # 0 /\ i \in Ids /\ Fits
  BY KnownIds, IdsFacts DEF SupervisorInv, TaskIds
<1>2. next \in AfterThread => i \in Housed
  <2>1. at = "checkTurn" => i \in Housed
    BY <1>1 DEF StartCheck, At, Fits, TasksFit, PlaceFits, AfterThread
  <2>2. QED  BY <2>1 DEF AfterThread
<1>3. /\ {"lost", "failed", "sendThread", "sendTurn"} \subseteq Places
      /\ \A p \in {"lost", "failed", "sendThread", "sendTurn"} : p \notin WithMessage
      /\ \A p \in {"lost", "failed"} : p \notin AfterThread
  BY DEF Places, WithMessage, WithJob, AfterThread
<1>4. UNCHANGED memory /\ UNCHANGED inbox /\ StarterOnly
  BY DEF StartCheck
<1>5. QueueStep /\ Known \subseteq Known' /\ Housed \subseteq Housed'
  BY <1>4, StillAdvances DEF StarterOnly, queueVars, memory
<1>6. InboxFits'
  BY <1>1, <1>4, <1>5, FitsWhenLeft
<1>7. CASE UNCHANGED engine /\ \E p \in {"lost", "failed", next} : Goes(i, p)
  BY <1>2, <1>3, <1>4, <1>6, <1>7, QuietStart
<1>8. CASE Raised(i)
  <2>1. TasksFit' /\ EngineFits'
    BY <1>1, <1>5, <1>8, RaisedFits
  <2>2. UNCHANGED <<dispatcher, stopper, sweep, wire, turn, server>>
    BY <1>4 DEF StarterOnly
  <2>3. QED  BY <1>1, <1>5, <1>6, <2>1, <2>2, FitsWhenLeft DEF Advances, Fits
<1>9. QED  BY <1>1, <1>7, <1>8 DEF StartCheck, Calls, Raised

LEMMA StartSendAdvances ==
  ASSUME SupervisorInv, NEW i \in Known, NEW request \in {"thread", "turn"},
         NEW at, NEW next \in {"waitThread", "waitTurn"},
         next = "waitTurn" => at = "sendTurn", StartSend(i, at, request, next)
  PROVE  Advances
<1>1. i \in TaskIds /\ i # 0 /\ i \in Ids /\ Fits
  BY KnownIds, IdsFacts DEF SupervisorInv, TaskIds
<1>2. next \in AfterThread => i \in Housed
  <2>1. at = "sendTurn" => i \in Housed
    BY <1>1 DEF StartSend, At, Fits, TasksFit, PlaceFits, AfterThread
  <2>2. QED  BY <2>1 DEF AfterThread
<1>3. /\ {"lost", next} \subseteq Places /\ "lost" \notin AfterThread
      /\ \A p \in {"lost", next} : p \notin WithMessage
  BY DEF Places, WithMessage, WithJob, AfterThread
<1>4. UNCHANGED <<memory, engine>> /\ StarterOnly
  BY DEF StartSend
<1>5. Known \subseteq Known' /\ Housed \subseteq Housed'
  BY <1>4, StillAdvances DEF StarterOnly, queueVars, memory
<1>6. inbox' = inbox \/ inbox' = inbox \cup {<<request, i, i>>}
  BY DEF StartSend
<1>7. InboxFits'
  BY <1>1, <1>5, <1>6 DEF Fits, InboxFits
<1>8. \E p \in {"lost", next} : Goes(i, p)
  BY DEF StartSend
<1>9. QED  BY <1>2, <1>3, <1>4, <1>7, <1>8, QuietStart

(* A starter that calls the queue, which raises or lets it go on.           *)
LEMMA CallingStart ==
  ASSUME SupervisorInv, up, NEW i \in Known, NEW place \in Places, place \notin WithMessage,
         Reporting(i), place \notin AfterThread \/ (Goes(i, place) => i \in Housed'),
         Raised(i) \/ (Goes(i, place) /\ UNCHANGED engine), UNCHANGED inbox, StarterOnly
  PROVE  Advances
<1>1. QueueStep /\ Known \subseteq Known' /\ Housed \subseteq Housed'
  BY ReportAdvances DEF StarterOnly
<1>2. UNCHANGED <<dispatcher, stopper, sweep, wire, turn, server>> /\ Fits
  BY DEF StarterOnly, SupervisorInv
<1>3. i \in TaskIds
  BY KnownIds DEF SupervisorInv, TaskIds
<1>4. TasksFit' /\ EngineFits'
  <2>1. CASE Raised(i)
    BY <1>1, <1>2, <1>3, <2>1, RaisedFits
  <2>2. CASE Goes(i, place) /\ UNCHANGED engine
    BY <1>1, <1>2, <1>3, <2>2, GoesFits, FitsWhenLeft
  <2>3. QED  BY <2>1, <2>2
<1>5. QED  BY <1>1, <1>2, <1>4, FitsWhenLeft DEF Advances, Fits

LEMMA StartAttachAdvances ==
  ASSUME SupervisorInv, up, NEW i \in Known,
         \/ StartAttach(i, "attachThread", AttachThread(i, ThreadOf(i)), "checkTurn")
         \/ StartAttach(i, "attachTurn", AttachTurn(i, i), "popEarly")
  PROVE  Advances
<1>1. i \in TaskIds /\ i # 0 /\ i \in Ids /\ Fits /\ Aligned
  BY KnownIds, IdsFacts DEF SupervisorInv, SpoolInv, TaskIds
<1>2. /\ {"checkTurn", "popEarly"} \subseteq Places /\ "popEarly" \notin AfterThread
      /\ \A p \in {"checkTurn", "popEarly"} : p \notin WithMessage
  BY DEF Places, WithMessage, WithJob, AfterThread
<1>3. CASE StartAttach(i, "attachThread", AttachThread(i, ThreadOf(i)), "checkTurn")
  <2>1. /\ AttachThread(i, ThreadOf(i)) /\ UNCHANGED inbox /\ StarterOnly
        /\ \/ storage_failed' /\ Raised(i)
           \/ ~storage_failed' /\ Goes(i, "checkTurn") /\ UNCHANGED engine
    BY <1>1, <1>3 DEF StartAttach, Calls, Raised
  <2>2. Reporting(i)
    BY <2>1 DEF Reporting
  <2>3. ~storage_failed' => i \in Housed'
    <3>1. i \in DOMAIN data.jobs /\ ThreadOf(i) = i
      BY OwnThreads DEF SupervisorInv
    <3>2. i \in Threads /\ i # None
      BY <1>1, IdsFacts
    <3>3. ~storage_failed' => disk'.jobs[i].thread = i
      BY <1>1, <2>1, <3>1, <3>2, ThreadTouches
    <3>4. i \in Known'
      BY <2>1, <2>2, ReportAdvances DEF StarterOnly
    <3>5. QED  BY <3>2, <3>3, <3>4 DEF Housed
  <2>4. Raised(i) \/ (Goes(i, "checkTurn") /\ UNCHANGED engine /\ i \in Housed')
    BY <2>1, <2>3
  <2>5. CASE Raised(i)
    <3>1. "popEarly" \in Places /\ "popEarly" \notin WithMessage
      BY <1>2
    <3>2. QED  BY <1>2, <2>1, <2>2, <2>5, <3>1, CallingStart
  <2>6. CASE Goes(i, "checkTurn") /\ UNCHANGED engine /\ i \in Housed'
    <3>1. "checkTurn" \in Places /\ "checkTurn" \notin WithMessage
      BY <1>2
    <3>2. QED  BY <2>1, <2>2, <2>6, <3>1, CallingStart
  <2>7. QED  BY <2>4, <2>5, <2>6
<1>4. CASE StartAttach(i, "attachTurn", AttachTurn(i, i), "popEarly")
  <2>1. /\ AttachTurn(i, i) /\ UNCHANGED inbox /\ StarterOnly /\ task[i].at = "attachTurn"
        /\ Raised(i) \/ (Goes(i, "popEarly") /\ UNCHANGED engine)
    BY <1>1, <1>4 DEF StartAttach, Calls, Raised, At
  <2>2. i \in Housed
    BY <1>1, <2>1 DEF Fits, TasksFit, PlaceFits, AfterThread
  <2>3. Reporting(i)
    BY <2>1, <2>2 DEF Reporting, Housed
  <2>4. QED  BY <1>2, <2>1, <2>3, CallingStart
<1>5. QED  BY <1>3, <1>4

LEMMA StartExceptsAdvances ==
  ASSUME SupervisorInv, up, NEW i \in Known,
         \/ StartExcepts(i, "failed", EventComplete(i, "failed"))
         \/ StartExcepts(i, "lost", EventUnknown(i))
  PROVE  Advances
<1>1. i \in TaskIds /\ i # 0
  BY KnownIds, IdsFacts DEF SupervisorInv, TaskIds
<1>2. "done" \in Places /\ "done" \notin AfterThread /\ "done" \notin WithMessage
  BY DEF Places, WithMessage, WithJob, AfterThread
<1>3. /\ EventComplete(i, "failed") \/ EventUnknown(i)
      /\ Raised(i) \/ (Goes(i, "done") /\ UNCHANGED engine)
      /\ UNCHANGED inbox /\ StarterOnly
  BY <1>1 DEF StartExcepts, Reports, Calls, Raised
<1>4. Reporting(i)
  BY <1>3 DEF Reporting
<1>5. QED  BY <1>2, <1>3, <1>4, CallingStart

LEMMA StartPopEarlyAdvances ==
  ASSUME SupervisorInv, NEW i \in Known, StartPopEarly(i)
  PROVE  Advances
<1>1. i \in TaskIds /\ i # 0 /\ i \in Ids /\ Fits
  BY KnownIds, IdsFacts DEF SupervisorInv, TaskIds
<1>2. /\ "done" \in Places /\ "done" \notin AfterThread /\ "done" \notin WithMessage
      /\ "message" \in Places /\ "message" \notin AfterThread /\ "message" \notin WithJob
      /\ "message" \in WithMessage
  BY DEF Places, WithMessage, WithJob, AfterThread
<1>3. UNCHANGED <<memory, inbox>> /\ StarterOnly
  BY DEF StartPopEarly
<1>4. QueueStep /\ Known \subseteq Known' /\ Housed \subseteq Housed'
  BY <1>3, StillAdvances DEF StarterOnly, queueVars, memory, SupervisorInv
<1>5. PICK found \in SUBSET engine.early :
        /\ engine' = [engine EXCEPT !.early = @ \ found]
        /\ Goes(i, "done") \/ \E m \in found : Handles(i, m)
  BY DEF StartPopEarly
<1>6. EngineFits'
  <2>1. IsFiniteSet(engine.early) /\ engine.early \ found \in SUBSET engine.early
    BY <1>1 DEF Fits, EngineFits
  <2>2. /\ IsFiniteSet(engine.early \ found)
        /\ Cardinality(engine.early \ found) <= Cardinality(engine.early)
    BY <2>1, FS_Subset
  <2>3. Cardinality(engine.early) \in Nat /\ Cardinality(engine.early \ found) \in Nat
        /\ EarlyLimit \in Nat
    BY <2>1, <2>2, FS_CardinalityType, EarlyAssumption
  <2>4. Cardinality(engine.early \ found) <= EarlyLimit
    BY <1>1, <2>2, <2>3 DEF Fits, EngineFits
  <2>5. QED  BY <1>1, <1>4, <1>5, <2>2, <2>4 DEF Fits, EngineFits
<1>7. ASSUME NEW m \in engine.early, Handles(i, m)
      PROVE  TasksFit'
  <2> DEFINE t == [Rest("message") EXCEPT !.message = m]
  <2>1. m \in [kind: Emits, turn: Ids] /\ m.turn \in Known
    BY <1>1, <1>7 DEF Fits, EngineFits
  <2>2. t = [at |-> "message", message |-> m, job |-> 0]
    BY DEF Rest
  <2>3. t \in TaskRecord /\ t.at = "message" /\ t.message = m
    BY <1>2, <2>1, <2>2 DEF TaskRecord, TaskIds
  <2> HIDE DEF t
  <2>4. PlaceFits(Known', Housed', i, t)
    BY <1>1, <1>2, <1>4, <2>1, <2>3 DEF PlaceFits
  <2>5. task' = [task EXCEPT ![i] = t]
    BY <1>7 DEF Handles, t
  <2>6. QED  BY <1>1, <1>4, <2>4, <2>5, OneTaskMoves
<1>8. TasksFit'
  <2>1. Goes(i, "done") => TasksFit'
    BY <1>1, <1>2, <1>4, GoesFits
  <2>2. QED  BY <1>5, <1>7, <2>1
<1>9. UNCHANGED <<dispatcher, stopper, sweep, wire, turn, server>>
  BY <1>3 DEF StarterOnly
<1>10. QED  BY <1>1, <1>3, <1>4, <1>6, <1>8, <1>9, FitsWhenLeft DEF Advances, Fits

LEMMA StartTimeoutAdvances ==
  ASSUME SupervisorInv, NEW i \in Known, StartTimeout(i)
  PROVE  Advances
<1>1. "lost" \in Places /\ "lost" \notin AfterThread /\ "lost" \notin WithMessage
  BY DEF Places, WithMessage, WithJob, AfterThread
<1>2. UNCHANGED <<memory, engine, inbox>> /\ StarterOnly /\ Goes(i, "lost")
  BY DEF StartTimeout
<1>3. Known \subseteq Known' /\ Housed \subseteq Housed'
  BY <1>2, StillAdvances DEF StarterOnly, queueVars, memory
<1>4. InboxFits'
  BY <1>2, <1>3, FitsWhenLeft DEF SupervisorInv
<1>5. QED  BY <1>1, <1>2, <1>4, QuietStart

LEMMA StarterAdvances ==
  ASSUME SupervisorInv, up, NEW i \in Ids, Start(i) \/ StartTimeout(i)
  PROVE  Advances
<1>1. i \in Known
  <2>1. task[i].at # "idle"
    BY DEF Start, StartTimeout, StartCheck, StartSend, StartAttach, StartPopEarly,
       StartExcepts, At
  <2>2. i \in TaskIds /\ i # 0
    BY IdsFacts DEF TaskIds
  <2>3. QED  BY <2>1, <2>2 DEF SupervisorInv, Fits, TasksFit, PlaceFits
<1>2. QED
  BY <1>1, StartCheckAdvances, StartSendAdvances, StartAttachAdvances, StartExceptsAdvances,
     StartPopEarlyAdvances, StartTimeoutAdvances
  DEF Start

(* The job looked up for a message is the one whose turn it is about.       *)
LEMMA FoundIsOwn ==
  ASSUME SupervisorInv, NEW m, m.turn \in Known
  PROVE  /\ ActiveFor(m) \in {0, m.turn}
         /\ ActiveFor(m) # 0 => /\ m.turn \in Active(data) /\ ActiveFor(m) = m.turn
                                /\ data.jobs[m.turn].turn = None => m.turn \in Housed
<1> DEFINE thread == IF m.kind = "bare" THEN None ELSE ThreadOf(m.turn)
           found == Matching(thread, m.turn)
           first == CHOOSE i \in found : \A k \in found : i <= k
<1>1. /\ data = disk /\ m.turn \in Ids /\ m.turn # None /\ m.turn # 0 /\ m.turn \in Nat
      /\ thread \in {None, m.turn}
  BY KnownIds, OwnThreads, IdsFacts DEF SupervisorInv, SpoolInv, Aligned
<1>2. \A i \in DOMAIN disk.jobs : disk.jobs[i].thread \in {None, i} /\ disk.jobs[i].turn \in {None, i}
  BY DEF SupervisorInv, OwnNames
<1> HIDE DEF thread
<1>3. \A i \in found : i = m.turn /\ i \in Active(data)
  BY <1>1, <1>2 DEF Matching, Active
<1>4. m.turn \in found /\ data.jobs[m.turn].turn = None => m.turn \in Housed
  BY <1>1 DEF Matching, Housed
<1> HIDE DEF found
<1>5. ActiveFor(m) = IF found = {} THEN 0 ELSE first
  BY DEF ActiveFor, found, thread
<1>6. CASE found = {}
  BY <1>5, <1>6
<1>7. CASE found # {}
  <2>1. found = {m.turn}
    BY <1>3, <1>7
  <2>2. \E i \in found : \A k \in found : i <= k
    BY <1>1, <2>1
  <2>3. first \in found
    BY <2>2
  <2> HIDE DEF first
  <2>4. ActiveFor(m) = m.turn
    BY <1>5, <1>7, <2>1, <2>3
  <2>5. QED  BY <1>3, <1>4, <2>1, <2>4
<1>8. QED  BY <1>6, <1>7

(* A step of a reader or starter with a message that leaves the queue alone.*)
LEMMA QuietMessage ==
  ASSUME SupervisorInv, UNCHANGED <<memory, stopper, sweep, wire>>, ReaderOnly,
         TasksFit', InboxFits', EngineFits'
  PROVE  Advances
<1>1. QueueStep /\ Known \subseteq Known' /\ Housed \subseteq Housed'
  BY StillAdvances DEF ReaderOnly, queueVars, memory
<1>2. UNCHANGED <<dispatcher, turn, server>>
  BY DEF ReaderOnly
<1>3. QED  BY <1>1, <1>2, FitsWhenLeft DEF SupervisorInv, Advances, Fits

LEMMA SameKnown ==
  ASSUME UNCHANGED memory
  PROVE  Known' = Known /\ Housed' = Housed
  BY DEF memory, Known, Housed

LEMMA WithMessageFacts ==
  ASSUME SupervisorInv, NEW x \in TaskIds, task[x].at \in WithMessage
  PROVE  /\ task[x] \in TaskRecord /\ task[x].message.turn \in Known
         /\ task[x].message.turn \in Ids /\ x \in {0} \cup Known
         /\ task[x].at \in WithJob => task[x].job = task[x].message.turn
         /\ task[x].at \in {"save new", "attach"} => task[x].job \in Housed
         /\ task[x].at = "message" => task[x].message.kind \in Emits \cup {"resolved"}
         /\ task[x].at = "completion" => /\ task[x].message.kind \in Emits \ {"approval"}
                                         /\ task[x].job \in {0, task[x].message.turn}
<1>1. PlaceFits(Known, Housed, x, task[x])
  BY DEF SupervisorInv, Fits, TasksFit
<1>2. Known \subseteq Ids /\ "idle" \notin WithMessage
  BY KnownIds DEF SupervisorInv, WithMessage, WithJob
<1>3. QED  BY <1>1, <1>2 DEF PlaceFits

(* The places a message is taken to from one where it is already.           *)
LEMMA GoesOnWith ==
  ASSUME SupervisorInv, Known \subseteq Known', Housed \subseteq Housed',
         NEW x \in TaskIds, task[x].at \in WithMessage,
         NEW place \in WithJob \cup {"completion", "resolve"}, NEW job,
         task' = [task EXCEPT ![x] = [task[x] EXCEPT !.job = job, !.at = place]],
         job \in {0, task[x].message.turn},
         place = "completion" => task[x].message.kind \in Emits \ {"approval"},
         place \in WithJob => job = task[x].message.turn,
         place \in {"save new", "attach"} => job \in Housed
  PROVE  TasksFit'
<1> DEFINE t == [task[x] EXCEPT !.job = job, !.at = place]
<1>1. Fits /\ task[x] \in TaskRecord /\ task[x].message.turn \in Known /\ x \in {0} \cup Known
      /\ task[x].message.turn \in Ids
  BY WithMessageFacts DEF SupervisorInv
<1>2. place \in Places /\ place \notin AfterThread /\ place # "message"
  BY DEF WithJob, Places, AfterThread
<1>3. t \in TaskRecord /\ t.message = task[x].message /\ t.at = place /\ t.job = job
  BY <1>1, <1>2 DEF TaskRecord, TaskIds
<1> HIDE DEF t
<1>4. task' = [task EXCEPT ![x] = t]
  BY DEF t
<1>5. QED  BY <1>1, <1>2, <1>3, <1>4, GoesOnFits

LEMMA GoesOnIs ==
  ASSUME Fits, NEW x \in TaskIds, NEW place, GoesOn(x, place)
  PROVE  task' = [task EXCEPT ![x] = [task[x] EXCEPT !.job = task[x].job, !.at = place]]
  BY DEF Fits, TasksFit, TaskRecord, GoesOn

LEMMA KnowsIs ==
  ASSUME NEW X, NEW A, NEW J, NEW M, NEW f \in [X -> [at: A, job: J, message: M]],
         NEW x \in X, NEW job, NEW place
  PROVE  [f EXCEPT ![x].job = job, ![x].at = place]
           = [f EXCEPT ![x] = [f[x] EXCEPT !.job = job, !.at = place]]
  OBVIOUS

LEMMA LookUpAdvances ==
  ASSUME SupervisorInv, NEW x \in TaskIds, LookUp(x)
  PROVE  Advances
<1> DEFINE m == task[x].message
<1>1. /\ UNCHANGED <<memory, stopper, engine, sweep, wire>> /\ ReaderOnly
      /\ task[x].at = "message"
  BY DEF LookUp, At
<1>2. Known \subseteq Known' /\ Housed \subseteq Housed'
  BY <1>1, SameKnown
<1>3. /\ Fits /\ task[x].at \in WithMessage /\ task[x] \in TaskRecord /\ m.turn \in Known
      /\ m.kind \in Emits \cup {"resolved"} /\ x \in {0} \cup Known
  BY <1>1, WithMessageFacts DEF SupervisorInv, WithMessage
<1>4. EngineFits'
  BY <1>1, <1>2, <1>3, FitsWhenLeft
<1>5. UNCHANGED inbox => InboxFits'
  BY <1>2, <1>3, FitsWhenLeft
<1> HIDE DEF m
<1>6. ASSUME GoesOn(x, "resolve"), UNCHANGED inbox
      PROVE  Advances
  <2>1. task' = [task EXCEPT ![x] = [task[x] EXCEPT !.job = task[x].job, !.at = "resolve"]]
    BY <1>3, <1>6, GoesOnIs
  <2>2. TasksFit'
    <3> DEFINE t == [task[x] EXCEPT !.job = task[x].job, !.at = "resolve"]
    <3>1. t \in TaskRecord /\ t.message = m /\ t.at = "resolve"
      BY <1>3 DEF TaskRecord, Places, m
    <3> HIDE DEF t
    <3>2. "resolve" \notin WithJob /\ "resolve" \notin AfterThread
      BY DEF WithJob, AfterThread
    <3>3. task' = [task EXCEPT ![x] = t]
      BY <2>1 DEF t
    <3>4. QED  BY <1>2, <1>3, <3>1, <3>2, <3>3, GoesOnFits DEF m
  <2>3. QED  BY <1>1, <1>4, <1>5, <1>6, <2>2, QuietMessage
<1>7. ASSUME Refuses(m)
      PROVE  Advances
  <2>1. 0 \in TaskIds /\ {"eof", "idle"} \subseteq Places
        /\ \A p \in {"eof", "idle"} : p \notin WithMessage
    BY DEF TaskIds, Places, WithMessage, WithJob
  <2>2. \E p \in {"eof", "idle"} : Goes(0, p)
    BY <1>7 DEF Refuses
  <2>3. TasksFit'
    BY <1>2, <1>3, <2>1, <2>2, GoesFits
  <2>4. inbox' = inbox \/ inbox' = inbox \cup {<<"deny", 0, m.turn>>}
    BY <1>7 DEF Refuses
  <2>5. InboxFits'
    BY <1>2, <1>3, <2>4 DEF Fits, InboxFits
  <2>6. QED  BY <1>1, <1>4, <2>3, <2>5, QuietMessage
<1>8. ASSUME NEW job \in {0, m.turn}, NEW place \in {"completion", "save", "save new"},
             Knows(x, job, place), place = "completion" => m.kind \in Emits \ {"approval"},
             place # "completion" => job = m.turn,
             place = "save new" => job \in Housed
      PROVE  Advances
  <2>1. task' = [task EXCEPT ![x] = [task[x] EXCEPT !.job = job, !.at = place]]
    <3>1. task' = [task EXCEPT ![x].job = job, ![x].at = place]
      BY <1>8, Zenon DEF Knows
    <3>2. task \in [TaskIds -> TaskRecord]
      BY <1>3 DEF Fits, TasksFit
    <3>3. [task EXCEPT ![x].job = job, ![x].at = place]
            = [task EXCEPT ![x] = [task[x] EXCEPT !.job = job, !.at = place]]
      BY <3>2, KnowsIs DEF TaskRecord
    <3>4. QED  BY <3>1, <3>3, Zenon
  <2>2. /\ place \in WithJob \cup {"completion", "resolve"}
        /\ place \in WithJob => place # "completion"
        /\ place # "attach"
    BY <1>8 DEF WithJob
  <2>3. TasksFit'
    BY <1>2, <1>3, <1>8, <2>1, <2>2, GoesOnWith DEF m
  <2>4. QED  BY <1>1, <1>4, <1>5, <1>8, <2>3, QuietMessage DEF Knows
<1>9. ASSUME Finishes(x), UNCHANGED inbox
      PROVE  Advances
  <2>1. TasksFit'
    BY <1>2, <1>3, <1>9, FinishesFits
  <2>2. QED  BY <1>1, <1>4, <1>5, <1>9, <2>1, QuietMessage
<1>10. ASSUME m.kind # "resolved", Finds(x, m, ActiveFor(m))
       PROVE  Advances
  <2> DEFINE job == ActiveFor(m)
  <2>1. /\ job \in {0, m.turn}
        /\ job # 0 => job = m.turn /\ (data.jobs[job].turn = None => job \in Housed)
    BY <1>3, FoundIsOwn
  <2> HIDE DEF job
  <2>2. Finds(x, m, job)
    BY <1>10 DEF job
  <2>3. CASE m.kind # "approval"
    <3>1. Knows(x, job, "completion") /\ m.kind \in Emits \ {"approval"}
      BY <1>3, <1>10, <2>2, <2>3 DEF Finds
    <3>2. QED  BY <1>8, <2>1, <3>1
  <2>4. CASE m.kind = "approval"
    <3>1. \/ Refuses(m)
          \/ job # 0 /\ Knows(x, job, "save")
          \/ job # 0 /\ data.jobs[job].turn = None /\ Knows(x, job, "save new")
      BY <2>2, <2>4 DEF Finds
    <3>2. QED  BY <1>7, <1>8, <2>1, <3>1
  <2>5. QED  BY <2>3, <2>4
<1>11. QED  BY <1>6, <1>7, <1>9, <1>10 DEF LookUp, m

(* A step of the reader or a starter that calls the queue about a message.  *)
LEMMA CallingMessage ==
  ASSUME SupervisorInv, up, NEW x \in TaskIds, x \in {0} \cup Known, NEW i \in Known,
         Reporting(i), Raised(x) \/ (TasksFit' /\ UNCHANGED engine),
         UNCHANGED <<stopper, sweep, inbox, wire>>, ReaderOnly
  PROVE  Advances
<1>1. QueueStep /\ Known \subseteq Known' /\ Housed \subseteq Housed'
  BY ReportAdvances DEF ReaderOnly
<1>2. UNCHANGED <<dispatcher, turn, server>> /\ Fits
  BY DEF ReaderOnly, SupervisorInv
<1>3. TasksFit' /\ EngineFits'
  BY <1>1, <1>2, RaisedFits, FitsWhenLeft
<1>4. QED  BY <1>1, <1>2, <1>3, FitsWhenLeft DEF Advances, Fits

LEMMA KeepsFits ==
  ASSUME Fits, Known \subseteq Known', NEW m \in [kind: Emits, turn: Ids],
         m.kind # "approval", m.turn \in Known, Keeps(m)
  PROVE  EngineFits'
<1> DEFINE early == IF Cardinality(engine.early) < EarlyLimit THEN engine.early \cup {m}
                                                              ELSE engine.early
<1>1. IsFiniteSet(engine.early) /\ Cardinality(engine.early) <= EarlyLimit
  BY DEF Fits, EngineFits
<1>2. IsFiniteSet(early) /\ Cardinality(early) <= EarlyLimit
  <2>1. CASE Cardinality(engine.early) < EarlyLimit
    <3>1. /\ IsFiniteSet(engine.early \cup {m})
          /\ Cardinality(engine.early \cup {m}) = Cardinality(engine.early)
             \/ Cardinality(engine.early \cup {m}) = Cardinality(engine.early) + 1
      BY <1>1, FS_AddElement
    <3>2. EarlyLimit \in Nat /\ Cardinality(engine.early) \in Nat
      BY <1>1, EarlyAssumption, FS_CardinalityType
    <3>3. QED  BY <2>1, <3>1, <3>2
  <2>2. CASE ~(Cardinality(engine.early) < EarlyLimit)
    BY <1>1, <2>2
  <2>3. QED  BY <2>1, <2>2
<1>3. early \in SUBSET [kind: Emits, turn: Ids]
  BY DEF Fits, EngineFits
<1>4. \A k \in early : k.kind # "approval" /\ k.turn \in Known
  BY DEF Fits, EngineFits
<1>5. engine' = [engine EXCEPT !.early = early]
  BY DEF Keeps
<1> HIDE DEF early
<1>6. QED  BY <1>2, <1>3, <1>4, <1>5 DEF Fits, EngineFits

LEMMA CompletionAdvances ==
  ASSUME SupervisorInv, up, NEW x \in TaskIds, Completion(x)
  PROVE  Advances
<1> DEFINE m == task[x].message
           job == task[x].job
<1>1. /\ UNCHANGED <<stopper, sweep, inbox, wire>> /\ ReaderOnly
      /\ task[x].at = "completion"
  BY DEF Completion, At
<1>2. /\ Fits /\ task[x].at \in WithMessage /\ task[x] \in TaskRecord /\ m.turn \in Known
      /\ m.turn \in Ids /\ m.kind \in Emits \ {"approval"} /\ job \in {0, m.turn}
      /\ x \in {0} \cup Known
  BY <1>1, WithMessageFacts DEF SupervisorInv, WithMessage
<1>3. CASE job = 0
  <2>1. Keeps(m) /\ Finishes(x) /\ UNCHANGED memory
    BY <1>3 DEF Completion
  <2>2. Known \subseteq Known' /\ Housed \subseteq Housed'
    BY <2>1, SameKnown
  <2>3. m \in [kind: Emits, turn: Ids]
    BY <1>2 DEF TaskRecord
  <2>4. EngineFits'
    BY <1>2, <2>1, <2>2, <2>3, KeepsFits
  <2>5. TasksFit' /\ InboxFits'
    BY <1>1, <1>2, <2>1, <2>2, FinishesFits, FitsWhenLeft
  <2>6. QED  BY <1>1, <2>1, <2>4, <2>5, QuietMessage
<1>4. CASE job # 0
  <2>1. job = m.turn /\ job \in Known
    BY <1>2, <1>4
  <2>2. /\ EventUnknown(job) \/ EventComplete(job, "completed")
        /\ Raised(x) \/ ((Finishes(x) \/ GoesOn(x, "close")) /\ UNCHANGED engine)
    BY <1>4 DEF Completion, Reports, Calls, Raised
  <2>3. Reporting(job)
    BY <2>2 DEF Reporting
  <2>4. Known \subseteq Known' /\ Housed \subseteq Housed'
    BY <1>1, <2>1, <2>3, ReportAdvances DEF ReaderOnly
  <2>5. Finishes(x) => TasksFit'
    BY <1>2, <2>4, FinishesFits
  <2>6. GoesOn(x, "close") => TasksFit'
    <3>1. /\ "close" \in WithJob
          /\ GoesOn(x, "close") =>
               task' = [task EXCEPT ![x] = [task[x] EXCEPT !.job = job, !.at = "close"]]
      BY <1>2, GoesOnIs DEF WithJob
    <3>2. "close" \notin {"completion", "save new", "attach"}
      OBVIOUS
    <3> HIDE DEF job
    <3>3. job = task[x].message.turn
      BY <2>1
    <3>4. QED  BY <1>2, <2>4, <3>1, <3>2, <3>3, GoesOnWith
  <2>7. QED  BY <1>1, <1>2, <2>1, <2>2, <2>3, <2>5, <2>6, CallingMessage
<1>5. QED  BY <1>3, <1>4

LEMMA EngineEdit ==
  ASSUME Fits, Known \subseteq Known', NEW closed_turns \in SUBSET Ids,
         NEW requests \in SUBSET (Ids \X Ids),
         \A r \in requests : r[1] = r[2] /\ r[1] \in Known,
         engine' = [engine EXCEPT !.closed_turns = closed_turns, !.requests = requests]
  PROVE  EngineFits'
<1>1. engine'.early = engine.early /\ engine'.requests = requests
      /\ engine' \in [ready: BOOLEAN, closed: BOOLEAN, early: SUBSET [kind: Emits, turn: Ids],
                      closed_turns: SUBSET Ids, requests: SUBSET (Ids \X Ids)]
  BY DEF Fits, EngineFits
<1>2. QED  BY <1>1 DEF Fits, EngineFits

LEMMA CloseTurnAdvances ==
  ASSUME SupervisorInv, NEW x \in TaskIds, CloseTurn(x)
  PROVE  Advances
<1> DEFINE closed_turns == engine.closed_turns \cup {task[x].message.turn}
           requests == {r \in engine.requests : r[1] # task[x].job}
<1>1. /\ UNCHANGED <<memory, stopper, sweep, inbox, wire>> /\ ReaderOnly
      /\ task[x].at = "close" /\ Finishes(x)
      /\ engine' = [engine EXCEPT !.closed_turns = closed_turns, !.requests = requests]
  BY DEF CloseTurn, At
<1>2. Known \subseteq Known' /\ Housed \subseteq Housed'
  BY <1>1, SameKnown
<1>3. Fits /\ x \in {0} \cup Known /\ task[x].message.turn \in Ids
  BY <1>1, WithMessageFacts DEF SupervisorInv, WithMessage, WithJob
<1>4. EngineFits'
  <2>1. /\ closed_turns \in SUBSET Ids /\ requests \in SUBSET (Ids \X Ids)
        /\ \A r \in requests : r[1] = r[2] /\ r[1] \in Known
    BY <1>3 DEF Fits, EngineFits
  <2> HIDE DEF closed_turns, requests
  <2>2. QED  BY <1>1, <1>2, <1>3, <2>1, EngineEdit
<1>5. TasksFit' /\ InboxFits'
  BY <1>1, <1>2, <1>3, FinishesFits, FitsWhenLeft
<1>6. QED  BY <1>1, <1>4, <1>5, QuietMessage

LEMMA SaveRequestAdvances ==
  ASSUME SupervisorInv, SaveRequest
  PROVE  Advances
<1> DEFINE job == task[0].job
           request == task[0].message.turn
           place == IF At(0, "save") THEN "approve" ELSE "attach"
           requests == {r \in engine.requests : r[2] # request} \cup {<<job, request>>}
<1>1. /\ UNCHANGED <<memory, stopper, sweep, inbox, wire>> /\ ReaderOnly
      /\ task[0].at \in {"save", "save new"} /\ GoesOn(0, place)
      /\ engine' = [engine EXCEPT !.requests = requests]
  BY DEF SaveRequest, At
<1>2. Known \subseteq Known' /\ Housed \subseteq Housed' /\ 0 \in TaskIds
  BY <1>1, SameKnown DEF TaskIds
<1>3. /\ task[0].at \in WithMessage /\ task[0].at \in WithJob
      /\ {"approve", "attach"} \subseteq WithJob
      /\ "approve" \notin {"completion", "save new", "attach"} /\ "attach" # "completion"
  BY <1>1 DEF WithMessage, WithJob
<1>4. /\ Fits /\ job = request /\ job \in Known /\ job \in Ids
      /\ task[0].at = "save new" => job \in Housed
  BY <1>1, <1>2, <1>3, WithMessageFacts DEF SupervisorInv
<1>5. EngineFits'
  <2>1. /\ requests \in SUBSET (Ids \X Ids)
        /\ \A r \in requests : r[1] = r[2] /\ r[1] \in Known
    <3>1. /\ engine.requests \in SUBSET (Ids \X Ids)
          /\ \A r \in engine.requests : r[1] = r[2] /\ r[1] \in Known
      BY <1>4 DEF Fits, EngineFits
    <3> HIDE DEF job, request
    <3>2. ASSUME NEW r \in requests
          PROVE  r \in Ids \X Ids /\ r[1] = r[2] /\ r[1] \in Known
      <4>1. r \in engine.requests \/ r = <<job, request>>
        OBVIOUS
      <4>2. CASE r = <<job, request>>
        BY <1>4, <4>2
      <4>3. QED  BY <3>1, <4>1, <4>2
    <3> HIDE DEF requests
    <3>3. QED  BY <3>2
  <2> HIDE DEF requests
  <2>2. engine' = [engine EXCEPT !.closed_turns = engine.closed_turns, !.requests = requests]
    BY <1>1, <1>4 DEF Fits, EngineFits
  <2>3. engine.closed_turns \in SUBSET Ids
    BY <1>4 DEF Fits, EngineFits
  <2>4. QED  BY <1>2, <1>4, <2>1, <2>2, <2>3, EngineEdit
<1>6. TasksFit'
  <2>1. place \in {"approve", "attach"} /\ (place = "attach" => job \in Housed)
    BY <1>1, <1>4 DEF At
  <2> HIDE DEF place, job
  <2>2. task' = [task EXCEPT ![0] = [task[0] EXCEPT !.job = job, !.at = place]]
    BY <1>1, <1>2, <1>4, GoesOnIs DEF job
  <2>3. /\ place \in WithJob \cup {"completion", "resolve"} /\ place # "completion"
        /\ place \in {"save new", "attach"} => job \in Housed
    BY <1>3, <2>1
  <2>4. QED  BY <1>2, <1>3, <1>4, <2>2, <2>3, GoesOnWith
<1>7. InboxFits'
  BY <1>1, <1>2, <1>4, FitsWhenLeft
<1>8. QED  BY <1>1, <1>5, <1>6, <1>7, QuietMessage

LEMMA AttachAdvances ==
  ASSUME SupervisorInv, up, Attach
  PROVE  Advances
<1> DEFINE job == task[0].job
<1>1. /\ UNCHANGED <<stopper, sweep, inbox, wire>> /\ ReaderOnly
      /\ task[0].at = "attach" /\ AttachTurn(job, task[0].message.turn)
      /\ Raised(0) \/ (GoesOn(0, "approve") /\ UNCHANGED engine)
  BY DEF Attach, AttachTo, At, Calls, Raised
<1>2. 0 \in TaskIds /\ "attach" \in WithJob /\ "attach" \in WithMessage /\ "approve" \in WithJob
  BY DEF TaskIds, WithMessage, WithJob
<1>3. Fits /\ job = task[0].message.turn /\ job \in Housed /\ job \in Known
  BY <1>1, <1>2, WithMessageFacts DEF SupervisorInv
<1>4. Reporting(job)
  BY <1>1, <1>3 DEF Reporting, Housed
<1>5. Known \subseteq Known' /\ Housed \subseteq Housed'
  BY <1>1, <1>3, <1>4, ReportAdvances DEF ReaderOnly
<1>6. GoesOn(0, "approve") => TasksFit'
  <2>1. GoesOn(0, "approve") =>
          task' = [task EXCEPT ![0] = [task[0] EXCEPT !.job = job, !.at = "approve"]]
    BY <1>2, <1>3, GoesOnIs
  <2> HIDE DEF job
  <2>2. "approve" \notin {"completion", "save new", "attach"}
    OBVIOUS
  <2>3. QED  BY <1>1, <1>2, <1>3, <1>5, <2>1, <2>2, GoesOnWith
<1> HIDE DEF job
<1>7. QED  BY <1>1, <1>2, <1>3, <1>4, <1>6, CallingMessage

LEMMA ApproveAdvances ==
  ASSUME SupervisorInv, up, Approve
  PROVE  Advances
<1> DEFINE job == task[0].job
<1>1. /\ UNCHANGED <<stopper, sweep, inbox, wire>> /\ ReaderOnly
      /\ task[0].at \in {"approve", "resolved"}
      /\ EventApproval(job, task[0].message.turn) \/ EventResolved(job, task[0].message.turn)
      /\ Raised(0) \/ (Finishes(0) /\ UNCHANGED engine)
  BY DEF Approve, At, Reports, Calls, Raised
<1>2. 0 \in TaskIds /\ {"approve", "resolved"} \subseteq WithJob /\ WithJob \subseteq WithMessage
  BY DEF TaskIds, WithMessage, WithJob
<1>3. Fits /\ job = task[0].message.turn /\ job \in Known
  BY <1>1, <1>2, WithMessageFacts DEF SupervisorInv
<1>4. Reporting(job)
  BY <1>1, <1>3 DEF Reporting
<1>5. Known \subseteq Known' /\ Housed \subseteq Housed'
  BY <1>1, <1>3, <1>4, ReportAdvances DEF ReaderOnly
<1>6. Finishes(0) => TasksFit'
  BY <1>2, <1>3, <1>5, FinishesFits
<1> HIDE DEF job
<1>7. QED  BY <1>1, <1>2, <1>3, <1>4, <1>6, CallingMessage

LEMMA PopResolvedAdvances ==
  ASSUME SupervisorInv, PopResolved
  PROVE  Advances
<1> DEFINE request == task[0].message.turn
           saved == {r \in engine.requests : r[2] = request}
           left == engine.requests \ saved
           next == [job \in Ids |-> [task[0] EXCEPT !.at = "resolved", !.job = job]]
<1>1. /\ UNCHANGED <<memory, stopper, sweep, inbox, wire>> /\ ReaderOnly
      /\ task[0].at = "resolve"
      /\ engine' = [engine EXCEPT !.requests = left]
      /\ Finishes(0) \/ \E r \in saved : task' = [task EXCEPT ![0] = next[r[1]]]
  BY DEF PopResolved, PopResolvedWith, At
<1>2. Known \subseteq Known' /\ Housed \subseteq Housed' /\ 0 \in TaskIds
  BY <1>1, SameKnown DEF TaskIds
<1>3. task[0].at \in WithMessage /\ "resolved" \in WithJob
      /\ "resolved" \notin {"completion", "save new", "attach"}
  BY <1>1 DEF WithMessage, WithJob
<1>4. Fits /\ task[0] \in TaskRecord
  BY <1>2, <1>3, WithMessageFacts DEF SupervisorInv
<1>5. /\ engine.requests \in SUBSET (Ids \X Ids)
      /\ \A r \in engine.requests : r[1] = r[2] /\ r[1] \in Known /\ r[1] \in Ids
      /\ engine.closed_turns \in SUBSET Ids
  BY <1>4 DEF Fits, EngineFits
<1>6. EngineFits'
  <2>1. left \in SUBSET (Ids \X Ids) /\ \A r \in left : r[1] = r[2] /\ r[1] \in Known
    BY <1>5
  <2> HIDE DEF left
  <2>2. engine' = [engine EXCEPT !.closed_turns = engine.closed_turns, !.requests = left]
    BY <1>1, <1>4 DEF Fits, EngineFits
  <2>3. QED  BY <1>2, <1>4, <1>5, <2>1, <2>2, EngineEdit
<1>7. TasksFit'
  <2>1. ASSUME NEW r \in saved, task' = [task EXCEPT ![0] = next[r[1]]]
        PROVE  TasksFit'
    <3>1. r[1] = task[0].message.turn /\ r[1] \in Ids
      BY <1>5
    <3>2. next[r[1]] = [task[0] EXCEPT !.job = r[1], !.at = "resolved"]
      BY <1>4, <3>1 DEF TaskRecord
    <3>3. task' = [task EXCEPT ![0] = [task[0] EXCEPT !.job = r[1], !.at = "resolved"]]
      BY <2>1, <3>2, Zenon
    <3> DEFINE job == r[1]
    <3>4. /\ task' = [task EXCEPT ![0] = [task[0] EXCEPT !.job = job, !.at = "resolved"]]
          /\ job = task[0].message.turn
      BY <3>1, <3>3
    <3> HIDE DEF job
    <3>5. QED  BY <1>2, <1>3, <1>4, <3>4, GoesOnWith
  <2>2. Finishes(0) => TasksFit'
    BY <1>2, <1>4, FinishesFits
  <2>3. QED  BY <1>1, <2>1, <2>2
<1>8. InboxFits'
  BY <1>1, <1>2, <1>4, FitsWhenLeft
<1>9. QED  BY <1>1, <1>6, <1>7, <1>8, QuietMessage

(* Every answer goes to the thread that waits for it, or is dropped.        *)
LEMMA ReadAdvances ==
  ASSUME SupervisorInv, Read
  PROVE  Advances
<1> DEFINE m == Head(wire)
<1>1. /\ UNCHANGED <<memory, engine, sweep, inbox>> /\ ReaderOnly
      /\ wire # <<>> /\ wire' = Tail(wire)
      /\ \/ m.kind \in Emits \cup {"resolved"} /\ Handles(0, m) /\ UNCHANGED stopper
         \/ /\ m.kind \notin Emits \cup {"resolved"}
            /\ GoesOn(m.turn, Resumed(m))
            /\ stopper' = [stopper EXCEPT ![m.turn] = Released(m)]
  BY DEF Read
<1>2. QueueStep /\ Known \subseteq Known' /\ Housed \subseteq Housed'
  BY <1>1, StillAdvances DEF ReaderOnly, queueVars, memory
<1>3. Fits /\ UNCHANGED <<dispatcher, turn, server>> /\ Known \subseteq Ids
  BY <1>1, KnownIds DEF ReaderOnly, SupervisorInv
<1> DEFINE Message_ == [kind: Emits \cup {"resolved"} \cup Answers, turn: Ids]
<1>4. wire \in Seq(Message_) /\ \A n \in DOMAIN wire : wire[n].turn \in Known
  BY <1>3 DEF Fits, WireFits
<1>5. /\ m \in Message_ /\ m.turn \in Known /\ wire' \in Seq(Message_)
      /\ \A n \in DOMAIN wire' : n + 1 \in DOMAIN wire /\ wire'[n] = wire[n + 1]
  <2> HIDE DEF Message_
  <2>1. /\ Len(wire) \in Nat /\ DOMAIN wire = 1 .. Len(wire) /\ Len(wire) # 0
        /\ m = wire[1] /\ wire' \in Seq(Message_) /\ Len(wire') = Len(wire) - 1
        /\ DOMAIN wire' = 1 .. Len(wire')
        /\ \A n \in 1 .. Len(wire') : wire'[n] = wire[n + 1]
    BY <1>1, <1>4
  <2>2. 1 \in DOMAIN wire
    BY <2>1
  <2>3. QED  BY <1>4, <2>1, <2>2
<1>6. WireFits'
  BY <1>2, <1>4, <1>5 DEF WireFits
<1> HIDE DEF m
<1>7. CASE m.kind \in Emits \cup {"resolved"} /\ Handles(0, m) /\ UNCHANGED stopper
  <2> DEFINE t == [Rest("message") EXCEPT !.message = m]
  <2>1. t = [at |-> "message", message |-> m, job |-> 0]
    BY DEF Rest
  <2>2. /\ "message" \in Places /\ "message" \in WithMessage /\ "message" \notin WithJob
        /\ m.turn \in Ids
    BY <1>5 DEF Places, WithMessage, WithJob
  <2>3. t \in TaskRecord /\ t.at = "message" /\ t.message = m
    BY <1>5, <1>7, <2>1, <2>2 DEF TaskRecord, TaskIds
  <2> HIDE DEF t
  <2>4. PlaceFits(Known', Housed', 0, t)
    BY <1>2, <1>5, <1>7, <2>2, <2>3 DEF PlaceFits
  <2>5. task' = [task EXCEPT ![0] = t] /\ 0 \in TaskIds
    BY <1>7 DEF Handles, t, TaskIds
  <2>6. TasksFit'
    BY <1>2, <1>3, <2>4, <2>5, OneTaskMoves
  <2>7. QED  BY <1>1, <1>2, <1>3, <1>6, <1>7, <2>6, FitsWhenLeft DEF Advances, Fits
<1>8. CASE GoesOn(m.turn, Resumed(m)) /\ stopper' = [stopper EXCEPT ![m.turn] = Released(m)]
  <2> DEFINE i == m.turn
             place == Resumed(m)
             t == [task[i] EXCEPT !.at = place]
  <2>1. i \in TaskIds /\ i \in Known /\ i \in Ids /\ i # 0
    BY <1>3, <1>5, IdsFacts DEF TaskIds
  <2>2. PlaceFits(Known, Housed, i, task[i]) /\ task[i] \in TaskRecord
    BY <1>3, <2>1 DEF Fits, TasksFit, PlaceFits
  <2>3. \/ place = task[i].at
        \/ place \in {"attachThread", "failed"}
        \/ place = "attachTurn" /\ task[i].at = "waitTurn"
    BY DEF Resumed, At
  <2>4. task' = [task EXCEPT ![i] = t]
    BY <1>3, <1>8, <2>1 DEF GoesOn, Fits, TasksFit, TaskRecord
  <2> HIDE DEF i, place
  <2>5. /\ {"attachThread", "failed", "attachTurn"} \subseteq Places
        /\ \A p \in {"attachThread", "failed", "attachTurn"} : p \notin WithMessage
        /\ {"attachTurn", "waitTurn"} \subseteq AfterThread
        /\ \A p \in {"attachThread", "failed"} : p \notin AfterThread
        /\ WithJob \subseteq WithMessage /\ {"message", "completion"} \subseteq WithMessage
        /\ {"save new", "attach"} \subseteq WithJob
    BY DEF Places, WithMessage, WithJob, AfterThread
  <2>6. place \in Places
    BY <2>2, <2>3, <2>5 DEF TaskRecord
  <2>7. t \in TaskRecord /\ t.at = place /\ t.message = task[i].message /\ t.job = task[i].job
    BY <2>2, <2>6 DEF TaskRecord
  <2> HIDE DEF t
  <2>8. PlaceFits(Known', Housed', i, t)
    <3>1. CASE place = task[i].at
      BY <1>2, <2>1, <2>2, <2>7, <3>1 DEF PlaceFits
    <3>2. CASE place # task[i].at
      <4>1. place \in {"attachThread", "failed", "attachTurn"} /\ place \notin WithMessage
        BY <2>3, <2>5, <3>2
      <4>2. place \in AfterThread => i \in Housed
        BY <2>2, <2>1, <2>3, <2>5, <3>2 DEF PlaceFits
      <4>3. task[i].message.turn \in {0} \cup Known
        BY <2>2 DEF PlaceFits
      <4>4. QED  BY <1>2, <2>1, <2>5, <2>7, <4>1, <4>2, <4>3 DEF PlaceFits
    <3>3. QED  BY <3>1, <3>2
  <2>9. TasksFit'
    BY <1>2, <1>3, <2>1, <2>4, <2>8, OneTaskMoves
  <2>10. StoppersFit'
    <3>1. Released(m) \in {Stopper("idle"), Stopper("lost"), stopper[i]}
      BY DEF Released, i
    <3>2. stopper' = [stopper EXCEPT ![i] = Released(m)]
      BY <1>8 DEF i
    <3>3. QED  BY <1>2, <1>3, <2>1, <3>1, <3>2 DEF Fits, StoppersFit, Stopper
  <2>11. QED  BY <1>1, <1>2, <1>3, <1>6, <2>9, <2>10, FitsWhenLeft DEF Advances, Fits
<1>9. QED  BY <1>1, <1>7, <1>8

LEMMA EndOfFileAdvances ==
  ASSUME SupervisorInv, EndOfFile
  PROVE  Advances
<1>1. /\ UNCHANGED <<memory, sweep, inbox, wire>> /\ ReaderOnly
      /\ engine' = [engine EXCEPT !.closed = TRUE]
  BY DEF EndOfFile
<1>2. QueueStep /\ Known \subseteq Known' /\ Housed \subseteq Housed'
  BY <1>1, StillAdvances DEF ReaderOnly, queueVars, memory
<1>3. Fits /\ UNCHANGED <<dispatcher, turn, server>> /\ 0 \in TaskIds
  BY <1>1 DEF ReaderOnly, SupervisorInv, TaskIds
<1>4. EngineFits'
  BY <1>1, <1>2, <1>3 DEF Fits, EngineFits
<1>5. StoppersFit'
  <2>1. stopper' = [i \in Ids |-> IF stopper[i].at = "wait" THEN Stopper("lost") ELSE stopper[i]]
    BY DEF EndOfFile
  <2>2. \A i \in Ids : \/ stopper'[i] = Stopper("lost") /\ stopper[i].at = "wait"
                       \/ stopper'[i] = stopper[i]
    BY <2>1
  <2>3. Stopper("lost") \in [at: {"idle", "send", "wait", "lost"}, turn: Turns \cup {None}]
    BY DEF Stopper
  <2>4. \A i \in Ids : /\ stopper'[i] \in [at: {"idle", "send", "wait", "lost"}, turn: Turns \cup {None}]
                       /\ stopper'[i].at # "idle" => stopper[i].at # "idle"
    BY <1>3, <2>2, <2>3 DEF Fits, StoppersFit
  <2>5. QED  BY <1>2, <1>3, <2>1, <2>4 DEF Fits, StoppersFit
<1>6. TasksFit'
  <2>1. task' = [x \in TaskIds |-> CASE x = 0 -> Rest("disconnect")
                   [] task[x].at \in {"waitThread", "waitTurn"} -> Rest("lost")
                   [] OTHER -> task[x]]
    BY DEF EndOfFile, TaskIds
  <2>2. ASSUME NEW x \in TaskIds
        PROVE  PlaceFits(Known', Housed', x, task'[x])
    <3>1. PlaceFits(Known, Housed, x, task[x])
      BY <1>3 DEF Fits, TasksFit
    <3>2. /\ {"disconnect", "lost"} \subseteq Places
          /\ \A p \in {"disconnect", "lost"} : p \notin WithMessage /\ p \notin AfterThread
          /\ "idle" \notin {"waitThread", "waitTurn"}
      BY DEF Places, WithMessage, WithJob, AfterThread
    <3>3. \/ task'[x] = task[x]
          \/ x = 0 /\ task'[x] = Rest("disconnect")
          \/ task'[x] = Rest("lost") /\ task[x].at \in {"waitThread", "waitTurn"}
      BY <2>1
    <3>4. CASE task'[x] = task[x]
      BY <1>2, <3>1, <3>4 DEF PlaceFits
    <3>5. CASE x = 0 /\ task'[x] = Rest("disconnect")
      BY <3>2, <3>5, RestFits
    <3>6. CASE task'[x] = Rest("lost") /\ task[x].at \in {"waitThread", "waitTurn"}
      <4>1. x # 0 => x \in Known'
        BY <1>2, <3>1, <3>2, <3>6 DEF PlaceFits
      <4>2. QED  BY <3>2, <3>6, <4>1, RestFits
    <3>7. QED  BY <3>3, <3>4, <3>5, <3>6
  <2>3. \A x \in TaskIds : task'[x] \in TaskRecord
    BY <2>2 DEF PlaceFits
  <2>4. task' \in [TaskIds -> TaskRecord]
    BY <2>1, <2>3
  <2>5. QED  BY <2>2, <2>4 DEF TasksFit
<1>7. QED  BY <1>1, <1>2, <1>3, <1>4, <1>5, <1>6, FitsWhenLeft DEF Advances, Fits

LEMMA DisconnectAdvances ==
  ASSUME SupervisorInv, Disconnect
  PROVE  Advances
<1>1. /\ UNCHANGED <<memory, stopper, inbox, wire>> /\ ReaderOnly
      /\ engine' = [engine EXCEPT !.ready = FALSE] /\ sweep' = Active(data) /\ Goes(0, "sweep")
  BY DEF Disconnect
<1>2. QueueStep /\ Known \subseteq Known' /\ Housed \subseteq Housed'
  BY <1>1, StillAdvances DEF ReaderOnly, queueVars, memory
<1>3. Fits /\ UNCHANGED <<dispatcher, turn, server>> /\ 0 \in TaskIds /\ data = disk
  BY <1>1 DEF ReaderOnly, SupervisorInv, SpoolInv, Aligned, TaskIds
<1>4. EngineFits'
  BY <1>1, <1>2, <1>3 DEF Fits, EngineFits
<1>5. sweep' \subseteq Known'
  <2>1. Active(disk) \subseteq Known
    BY DEF Active, Known, OCCUPIED
  <2>2. QED  BY <1>1, <1>2, <1>3, <2>1
<1>6. TasksFit'
  <2>1. "sweep" \in Places /\ "sweep" \notin WithMessage
    BY DEF Places, WithMessage, WithJob
  <2>2. QED  BY <1>1, <1>2, <1>3, <2>1, GoesFits
<1>7. QED  BY <1>1, <1>2, <1>3, <1>4, <1>5, <1>6, FitsWhenLeft DEF Advances, Fits

LEMMA SweepAdvances ==
  ASSUME SupervisorInv, up, Sweep
  PROVE  Advances
<1>1. UNCHANGED <<stopper, engine, inbox, wire>> /\ ReaderOnly
  BY DEF Sweep, SweepStep
<1>2. Fits /\ UNCHANGED <<dispatcher, turn, server>> /\ 0 \in TaskIds /\ sweep \subseteq Known
  BY <1>1 DEF ReaderOnly, SupervisorInv, Fits, TaskIds
<1>3. "dead" \in Places /\ "dead" \notin WithMessage
  BY DEF Places, WithMessage, WithJob
<1>4. CASE Goes(0, "dead") /\ UNCHANGED <<memory, sweep>>
  <2>1. QueueStep /\ Known \subseteq Known' /\ Housed \subseteq Housed'
    BY <1>1, <1>4, StillAdvances DEF ReaderOnly, queueVars, memory
  <2>2. TasksFit'
    BY <1>2, <1>3, <1>4, <2>1, GoesFits
  <2>3. QED  BY <1>1, <1>2, <1>4, <2>1, <2>2, FitsWhenLeft DEF Advances, Fits
<1>5. ASSUME NEW i \in sweep, SweepThen(i, sweep \ {i})
      PROVE  Advances
  <2>1. i \in Known /\ Reporting(i)
    BY <1>2, <1>5 DEF SweepThen, Reporting
  <2>2. QueueStep /\ Known \subseteq Known' /\ Housed \subseteq Housed'
    BY <1>1, <2>1, ReportAdvances DEF ReaderOnly
  <2>3. sweep' \subseteq Known'
    BY <1>2, <1>5, <2>2 DEF SweepThen
  <2>4. TasksFit'
    BY <1>2, <1>3, <1>5, <2>2, GoesFits, FitsWhenLeft DEF SweepThen
  <2>5. QED  BY <1>1, <1>2, <2>2, <2>3, <2>4, FitsWhenLeft DEF Advances, Fits
<1>6. QED  BY <1>4, <1>5 DEF Sweep, SweepStep

LEMMA ReaderAdvances ==
  ASSUME SupervisorInv, up, Reader \/ \E i \in Ids : Message(i)
  PROVE  Advances
<1>1. ASSUME NEW x \in TaskIds, Message(x)
      PROVE  Advances
  BY <1>1, LookUpAdvances, CompletionAdvances, CloseTurnAdvances DEF Message
<1>2. 0 \in TaskIds /\ Ids \subseteq TaskIds
  BY DEF TaskIds
<1>3. QED
  BY <1>1, <1>2, ReadAdvances, SaveRequestAdvances, AttachAdvances, ApproveAdvances,
     PopResolvedAdvances, EndOfFileAdvances, DisconnectAdvances, SweepAdvances DEF Reader

-----------------------------------------------------------------------------
(* The HTTP threads, the app-server, and the ends of either process.        *)
LEMMA HttpAdvances ==
  ASSUME SupervisorInv, QueueStep, HttpOnly, StoppersFit', InboxFits'
  PROVE  Advances
<1>1. Known \subseteq Known' /\ Housed \subseteq Housed'
  BY KnownGrows DEF SupervisorInv
<1>2. UNCHANGED <<dispatcher, task, engine, sweep, server, turn, wire>> /\ Fits
  BY DEF HttpOnly, SupervisorInv
<1>3. QED  BY <1>1, <1>2, FitsWhenLeft DEF Advances, Fits

LEMMA OwnerAdvances ==
  ASSUME SupervisorInv, up, Owner, Named = {}
  PROVE  Advances
<1>1. HttpOnly /\ Fits /\ data = disk /\ Aligned
  BY DEF Owner, SupervisorInv, SpoolInv, Aligned
<1>2. UNCHANGED <<up, capacity, claimed>>
  BY <1>1 DEF HttpOnly
<1>3. Owning => QueueStep
  BY <1>2 DEF QueueStep
<1>4. ASSUME QueueStep, UNCHANGED <<stopper, inbox>>
      PROVE  Advances
  <2>1. Known \subseteq Known' /\ Housed \subseteq Housed'
    BY <1>4, KnownGrows DEF SupervisorInv
  <2>2. StoppersFit' /\ InboxFits'
    BY <1>1, <1>4, <2>1, FitsWhenLeft
  <2>3. QED  BY <1>1, <1>4, <2>2, HttpAdvances
<1>5. CASE OwnerSubmits
  <2>1. \E key \in Keys, dir \in Dirs : Submit(key, dir, None)
    BY <1>5 DEF OwnerSubmits
  <2>2. UNCHANGED <<stopper, inbox>> /\ Owning
    BY <1>5, <2>1 DEF OwnerSubmits, Owning
  <2>3. QED  BY <1>3, <1>4, <2>2
<1>6. CASE OwnerPauses
  BY <1>3, <1>4, <1>6 DEF OwnerPauses, Owning
<1>7. ASSUME NEW i \in DOMAIN data.jobs, OwnerConfirms(i)
      PROVE  Advances
  BY <1>3, <1>4, <1>7 DEF OwnerConfirms, Owning
<1>8. ASSUME NEW i \in DOMAIN data.jobs, OwnerCancels(i)
      PROVE  Advances
  <2>1. Cancel(i) /\ UNCHANGED inbox
    BY <1>8 DEF OwnerCancels
  <2>2. QueueStep
    BY <1>3, <2>1 DEF Owning
  <2>3. Known \subseteq Known' /\ Housed \subseteq Housed' /\ data' = disk'
    BY <2>2, KnownGrows, QueueStepIsNext, NextSpool DEF SupervisorInv, SpoolInv, Aligned
  <2>4. InboxFits'
    BY <1>1, <2>1, <2>3, FitsWhenLeft
  <2>5. CASE UNCHANGED stopper
    BY <1>4, <2>1, <2>2, <2>5
  <2>6. CASE /\ data'.jobs[i].status = "cancelling"
             /\ stopper' = [stopper EXCEPT ![i] = [at |-> "send", turn |-> data.jobs[i].turn]]
    <3>1. i \in Known'
      <4>1. i \in DOMAIN disk'.jobs
        BY <1>1, <2>1, CancelTouches DEF Touches
      <4>2. QED  BY <2>3, <2>6, <4>1 DEF Known
    <3>2. i \in Ids /\ data.jobs[i].turn \in Turns \cup {None}
      BY <1>1, ImageParts DEF Aligned, Job, SupervisorInv, OwnNames
    <3>3. StoppersFit'
      BY <1>1, <2>3, <2>6, <3>1, <3>2 DEF Fits, StoppersFit
    <3>4. QED  BY <1>1, <2>2, <2>4, <3>3, HttpAdvances
  <2>7. QED  BY <1>8, <2>5, <2>6 DEF OwnerCancels
<1>9. ASSUME NEW i \in DOMAIN data.jobs, OwnerAnswers(i)
      PROVE  Advances
  <2>1. UNCHANGED <<memory, stopper>> /\ StatusOf(i) = "waiting_approval"
    BY <1>9 DEF OwnerAnswers, Accepted
  <2>2. QueueStep /\ Known \subseteq Known' /\ Housed \subseteq Housed'
    BY <1>2, <2>1, StillAdvances DEF queueVars, memory
  <2>3. PICK r \in engine.requests : <<i, r[2]>> \in engine.requests
                                     /\ inbox' = inbox \cup {<<"answer", i, r[2]>>}
    BY <1>9 DEF OwnerAnswers, Accepted
  <2>4. r[2] \in Known /\ i \in Known
    BY <1>1, <2>3 DEF Fits, EngineFits
  <2>5. InboxFits'
    BY <1>1, <2>2, <2>3, <2>4 DEF Fits, InboxFits
  <2>6. StoppersFit'
    BY <1>1, <2>1, <2>2, FitsWhenLeft
  <2>7. QED  BY <1>1, <2>2, <2>5, <2>6, HttpAdvances
<1>10. QED  BY <1>5, <1>6, <1>7, <1>8, <1>9 DEF Owner

LEMMA StopsAdvance ==
  ASSUME SupervisorInv, up, NEW i \in Ids, StopSend(i) \/ StopTimeout(i) \/ StopLost(i)
  PROVE  Advances
<1>1. HttpOnly /\ Fits /\ i \in Known
  BY DEF StopSend, StopTimeout, StopLost, SupervisorInv, Fits, StoppersFit
<1>2. UNCHANGED <<up, capacity, claimed>>
  BY <1>1 DEF HttpOnly
<1>3. QueueStep
  <2>1. UNCHANGED memory \/ EventUnknown(i)
    BY DEF StopSend, StopTimeout, StopLost
  <2>2. UNCHANGED memory => UNCHANGED queueVars
    BY <1>2 DEF queueVars, memory
  <2>3. EventUnknown(i) => Reporting(i)
    BY DEF Reporting
  <2>4. QED  BY <1>1, <1>2, <2>1, <2>2, <2>3 DEF QueueStep
<1>4. Known \subseteq Known' /\ Housed \subseteq Housed'
  BY <1>3, KnownGrows DEF SupervisorInv
<1>5. /\ stopper[i].turn \in Turns \cup {None}
      /\ \/ stopper' = [stopper EXCEPT ![i] = Stopper("lost")]
         \/ stopper' = [stopper EXCEPT ![i] = Stopper("idle")]
         \/ stopper' = [stopper EXCEPT ![i].at = "wait"]
  BY <1>1 DEF StopSend, StopTimeout, StopLost, Fits, StoppersFit
<1>6. StoppersFit'
  <2>1. {Stopper("lost"), Stopper("idle"), [stopper[i] EXCEPT !.at = "wait"]}
          \subseteq [at: {"idle", "send", "wait", "lost"}, turn: Turns \cup {None}]
    BY <1>1 DEF Stopper, Fits, StoppersFit
  <2>2. PICK s \in {Stopper("lost"), Stopper("idle"), [stopper[i] EXCEPT !.at = "wait"]} :
          stopper' = [stopper EXCEPT ![i] = s]
    BY <1>5
  <2>3. QED  BY <1>1, <1>4, <2>1, <2>2 DEF Fits, StoppersFit
<1>7. InboxFits'
  <2>1. inbox' = inbox \/ inbox' = inbox \cup {<<"interrupt", i, stopper[i].turn>>}
    BY DEF StopSend, StopTimeout, StopLost
  <2>2. QED  BY <1>1, <1>4, <2>1 DEF Fits, InboxFits
<1>8. QED  BY <1>1, <1>3, <1>6, <1>7, HttpAdvances

LEMMA PushFits ==
  ASSUME Fits, UNCHANGED memory, NEW kind \in Emits \cup {"resolved"} \cup Answers,
         NEW i \in Known, i \in Ids, Push(kind, i)
  PROVE  WireFits'
<1> DEFINE Message_ == [kind: Emits \cup {"resolved"} \cup Answers, turn: Ids]
           m == [kind |-> kind, turn |-> i]
<1>1. wire \in Seq(Message_) /\ (\A n \in DOMAIN wire : wire[n].turn \in Known) /\ Known' = Known
  BY SameKnown DEF Fits, WireFits
<1>2. m \in Message_ /\ m.turn = i
  OBVIOUS
<1>3. wire' = Append(wire, m)
  BY DEF Push
<1> HIDE DEF m, Message_
<1>4. /\ wire' \in Seq(Message_) /\ DOMAIN wire' = 1 .. Len(wire) + 1 /\ Len(wire) \in Nat
      /\ DOMAIN wire = 1 .. Len(wire)
      /\ \A n \in 1 .. Len(wire) : wire'[n] = wire[n]
      /\ wire'[Len(wire) + 1] = m
  BY <1>1, <1>2, <1>3
<1>5. \A n \in DOMAIN wire' : wire'[n].turn \in Known
  BY <1>1, <1>2, <1>4
<1>6. QED  BY <1>1, <1>4, <1>5 DEF WireFits, Message_

(* What a step of the app-server may do.                                    *)
ServerMoves ==
  /\ server' \in BOOLEAN
  /\ WireFits' /\ InboxFits' /\ TurnsFit'

LEMMA ServerAdvances ==
  ASSUME SupervisorInv, ServerMoves, UNCHANGED <<queueVars, engineVars>>
  PROVE  Advances
<1>1. QueueStep /\ Known \subseteq Known' /\ Housed \subseteq Housed'
  BY StillAdvances
<1>2. UNCHANGED <<dispatcher, task, stopper, engine, sweep>>
  BY DEF engineVars
<1>3. QED  BY <1>1, <1>2, FitsWhenLeft DEF SupervisorInv, Advances, Fits, ServerMoves

LEMMA DisappearsMoves ==
  ASSUME SupervisorInv, UNCHANGED memory, Disappears, UNCHANGED wire \/ wire' = <<>>
  PROVE  ServerMoves
<1>1. Fits /\ Known' = Known /\ Housed' = Housed
  BY SameKnown DEF SupervisorInv
<1>2. server' = FALSE /\ inbox' = {}
  BY DEF Disappears
<1>3. InboxFits'
  BY <1>2 DEF InboxFits
<1>4. WireFits'
  <2>1. CASE UNCHANGED wire
    BY <1>1, <2>1 DEF Fits, WireFits
  <2>2. CASE wire' = <<>>
    BY <2>2 DEF WireFits
  <2>3. QED  BY <2>1, <2>2
<1>5. TurnsFit'
  <2>1. PICK begun \in SUBSET {i \in Ids : <<"turn", i, i>> \in inbox} :
          turn' = [i \in Ids |-> IF i \in begun THEN "live" ELSE turn[i]]
    BY DEF Disappears
  <2>2. \A i \in begun : i \in Known
    <3>1. \A i \in begun : <<"turn", i, i>> \in inbox
      BY <2>1
    <3>2. QED  BY <1>1, <3>1 DEF Fits, InboxFits
  <2>3. QED  BY <1>1, <2>1, <2>2 DEF Fits, TurnsFit
<1>6. QED  BY <1>2, <1>3, <1>4, <1>5 DEF ServerMoves

LEMMA ServedMoves ==
  ASSUME SupervisorInv, UNCHANGED memory, Serves \/ MayServe
  PROVE  ServerMoves
<1>1. Fits /\ Known' = Known /\ Housed' = Housed /\ server' = server /\ Known \subseteq Ids
  BY SameKnown, KnownIds DEF SupervisorInv, Serves, MayServe
<1>2. \A m \in inbox : m[1] \in {"thread", "turn", "reply"} => m[2] \in Known
  BY <1>1 DEF Fits, InboxFits
<1>3. \A i \in Ids : turn[i] # "none" => i \in Known
  BY <1>1 DEF Fits, TurnsFit
<1>4. \A kind \in Emits \cup {"resolved"} \cup Answers, i \in Known : Push(kind, i) => WireFits'
  BY <1>1, PushFits
<1>5. UNCHANGED wire => WireFits'
  BY <1>1 DEF Fits, WireFits
<1>6. ASSUME NEW S \in SUBSET inbox, inbox' = inbox \ S
      PROVE  InboxFits'
  BY <1>1, <1>6 DEF Fits, InboxFits
<1>7. ASSUME NEW i \in Known, NEW state \in {"live", "asking", "answered", "ended"},
             turn' = [turn EXCEPT ![i] = state]
      PROVE  TurnsFit'
  BY <1>1, <1>7 DEF Fits, TurnsFit
<1>8. UNCHANGED turn => TurnsFit'
  BY <1>1 DEF Fits, TurnsFit
<1>9. {"threadOk", "startNo", "turnOk", "stopOk", "stopNo"} \subseteq Answers
  BY DEF Answers
<1>10. UNCHANGED inbox => InboxFits'
  BY <1>1 DEF Fits, InboxFits
<1>11. ASSUME NEW i \in Ids, ServeThread(i) \/ ServeTurn(i) \/ ReplyTurn(i)
       PROVE  ServerMoves
  <2>1. i \in Known
    <3>1. \E method \in {"thread", "turn", "reply"} : <<method, i, i>> \in inbox
      BY <1>11 DEF ServeThread, ServeTurn, ReplyTurn
    <3>2. QED  BY <1>2, <3>1
  <2>2. WireFits'
    BY <1>4, <1>5, <1>9, <1>11, <2>1 DEF ServeThread, ServeTurn, ReplyTurn
  <2>3. TurnsFit'
    BY <1>7, <1>8, <1>11, <2>1 DEF ServeThread, ServeTurn, ReplyTurn
  <2>4. InboxFits'
    <3>1. inbox' \subseteq inbox \cup {<<"reply", i, i>>}
      BY <1>11 DEF ServeThread, ServeTurn, ReplyTurn
    <3>2. QED  BY <1>1, <2>1, <3>1 DEF Fits, InboxFits
  <2>5. QED  BY <1>1, <2>2, <2>3, <2>4 DEF ServerMoves, Fits
<1>12. ASSUME NEW i \in Ids, EndTurn(i) \/ Ask(i)
       PROVE  ServerMoves
  <2>1. i \in Known
    BY <1>3, <1>12 DEF EndTurn, Ask, Live
  <2>2. WireFits'
    BY <1>4, <1>12, <2>1 DEF EndTurn, Ask
  <2>3. TurnsFit' /\ InboxFits'
    BY <1>7, <1>10, <1>12, <2>1 DEF EndTurn, Ask
  <2>4. QED  BY <1>1, <2>2, <2>3 DEF ServerMoves, Fits
<1>13. ASSUME NEW message \in inbox, Answered(message) \/ ServeInterrupt(message)
       PROVE  ServerMoves
  <2>1. CASE Answered(message)
    <3>1. message[3] \in Known
      BY <1>1, <2>1 DEF Answered, Fits, InboxFits
    <3>2. WireFits' /\ TurnsFit'
      BY <1>4, <1>5, <1>7, <1>8, <2>1, <3>1 DEF Answered
    <3>3. InboxFits'
      BY <1>6, <2>1 DEF Answered
    <3>4. QED  BY <1>1, <3>2, <3>3 DEF ServerMoves, Fits
  <2>2. CASE ServeInterrupt(message)
    <3>1. message[2] \in Known
      BY <1>1, <2>2 DEF ServeInterrupt, Fits, InboxFits
    <3>2. WireFits' /\ TurnsFit'
      BY <1>4, <1>8, <1>9, <2>2, <3>1 DEF ServeInterrupt
    <3>3. InboxFits'
      BY <1>6, <2>2 DEF ServeInterrupt
    <3>4. QED  BY <1>1, <3>2, <3>3 DEF ServerMoves, Fits
  <2>3. QED  BY <1>13, <2>1, <2>2
<1>14. QED  BY <1>11, <1>12, <1>13 DEF Serves, MayServe

LEMMA TurnStopsMoves ==
  ASSUME SupervisorInv, UNCHANGED memory, NEW i \in Ids, TurnStops(i)
  PROVE  ServerMoves
<1>1. Fits /\ Known' = Known
  BY SameKnown DEF SupervisorInv
<1>2. UNCHANGED <<server, inbox, wire>> /\ turn' = [turn EXCEPT ![i] = "ended"]
  BY DEF TurnStops
<1>3. i \in Known
  BY <1>1 DEF TurnStops, Live, Fits, TurnsFit
<1>4. QED  BY <1>1, <1>2, <1>3 DEF ServerMoves, Fits, WireFits, InboxFits, TurnsFit

(* A new engine takes nothing over but the turns that are over.             *)
EngineRecord ==
  [ready: BOOLEAN, closed: BOOLEAN, early: SUBSET [kind: Emits, turn: Ids],
   closed_turns: SUBSET Ids, requests: SUBSET (Ids \X Ids)]

LEMMA FreshEngineFits ==
  ASSUME NEW q, OwnNames(q)
  PROVE  /\ FreshEngine(q) \in EngineRecord
         /\ FreshEngine(q).early = {} /\ FreshEngine(q).requests = {}
<1>1. ClosedAtStart(q) \subseteq Ids
  BY IdsFacts DEF OwnNames, ClosedAtStart
<1>2. QED  BY <1>1 DEF FreshEngine, EngineRecord

LEMMA ClosedEngineFits ==
  ASSUME NEW q \in EngineRecord
  PROVE  LET closed == [q EXCEPT !.ready = FALSE, !.closed = TRUE]
         IN  closed \in EngineRecord /\ closed.early = q.early /\ closed.requests = q.requests
  BY DEF EngineRecord

LEMMA EmptyEngineFits ==
  ASSUME engine' \in EngineRecord, engine'.early = {}, engine'.requests = {}
  PROVE  EngineFits'
<1>1. IsFiniteSet({}) /\ Cardinality({}) = 0
  BY FS_EmptySet
<1>2. 0 <= EarlyLimit
  BY EarlyAssumption
<1>3. QED  BY <1>1, <1>2 DEF EngineFits, EngineRecord

LEMMA ThreadsEndFits ==
  ASSUME NEW place \in {"top", "stopped"}, ThreadsEnd(place)
  PROVE  /\ dispatcher' \in {"top", "claim", "stopped"} /\ TasksFit' /\ StoppersFit'
         /\ sweep' = {} /\ WireFits'
<1>1. task' = [x \in TaskIds |-> Rest("idle")]
  BY DEF ThreadsEnd, TaskIds
<1>2. /\ Rest("idle") \in TaskRecord /\ Rest("idle").at = "idle"
      /\ "idle" \in Places /\ "idle" \notin WithMessage /\ "idle" \notin AfterThread
  BY DEF Rest, Nothing, TaskRecord, TaskIds, Places, WithMessage, WithJob, AfterThread
<1>3. \A x \in TaskIds : PlaceFits(Known', Housed', x, Rest("idle"))
  BY <1>2, RestFits
<1>4. TasksFit'
  BY <1>1, <1>2, <1>3 DEF TasksFit
<1>5. StoppersFit'
  BY DEF ThreadsEnd, StoppersFit, Stopper
<1>6. wire' = <<>> /\ sweep' = {}
  BY DEF ThreadsEnd
<1>7. WireFits'
  BY <1>6 DEF WireFits
<1>8. QED  BY <1>4, <1>5, <1>6, <1>7 DEF ThreadsEnd

LEMMA CrashAdvances ==
  ASSUME SupervisorInv, SupervisorCrash
  PROVE  Advances
<1>1. Crash /\ ThreadsEnd("stopped") /\ Disappears
      /\ engine' = [FreshEngine(Empty) EXCEPT !.ready = FALSE, !.closed = TRUE]
  BY DEF SupervisorCrash
<1>2. UNCHANGED memory /\ QueueStep
  BY <1>1 DEF Crash, QueueStep
<1>3. OwnNames(Empty)
  BY DEF OwnNames, Empty
<1>4. EngineFits'
  <2>1. engine' \in EngineRecord /\ engine'.early = {} /\ engine'.requests = {}
    BY <1>1, <1>3, FreshEngineFits, ClosedEngineFits
  <2>2. QED  BY <2>1, EmptyEngineFits
<1>5. ServerMoves
  BY <1>1, <1>2, DisappearsMoves DEF ThreadsEnd
<1>6. QED  BY <1>1, <1>2, <1>4, <1>5, ThreadsEndFits DEF Advances, Fits, ServerMoves

LEMMA RestartAdvances ==
  ASSUME SupervisorInv, SupervisorRestart
  PROVE  Advances
<1>1. PICK max_running \in Limits : RestartOver(Restart(max_running))
  BY DEF SupervisorRestart
<1>2. /\ Restart(max_running) /\ ThreadsEnd("top") /\ engine' = FreshEngine(data')
      /\ server' = TRUE /\ inbox' = {} /\ UNCHANGED turn
  BY <1>1 DEF RestartOver
<1>3. QueueStep
  BY <1>2 DEF QueueStep
<1>4. Known \subseteq Known' /\ Housed \subseteq Housed' /\ OwnNames(disk')
  BY <1>3, KnownGrows, NamesStayOwn DEF SupervisorInv
<1>5. data' = disk'
  BY <1>2, RestartTouches DEF SupervisorInv, SpoolInv
<1>6. EngineFits'
  BY <1>2, <1>4, <1>5, FreshEngineFits, EmptyEngineFits
<1>7. TurnsFit' /\ InboxFits'
  BY <1>2, <1>4, FitsWhenLeft DEF SupervisorInv, InboxFits
<1>8. QED  BY <1>2, <1>3, <1>6, <1>7, ThreadsEndFits DEF Advances, Fits

LEMMA SupervisorAdvances ==
  ASSUME SupervisorInv, Named = {}, [SupervisorNext]_vars
  PROVE  Advances
<1>1. CASE UNCHANGED vars
  <2>1. /\ UNCHANGED <<queueVars, dispatcher, task, stopper, engine, sweep>>
        /\ UNCHANGED <<server, turn, inbox, wire>>
    BY <1>1 DEF vars, engineVars, serverVars
  <2>2. QueueStep /\ Known \subseteq Known' /\ Housed \subseteq Housed'
    BY <2>1, StillAdvances
  <2>3. QED  BY <2>1, <2>2, FitsWhenLeft DEF SupervisorInv, Advances, Fits
<1>2. CASE (Serves \/ MayServe \/ (up /\ ServerDies) \/ \E i \in Ids : TurnStops(i))
           /\ UNCHANGED <<queueVars, engineVars>>
  <2>1. UNCHANGED memory
    BY <1>2 DEF queueVars, memory
  <2>2. ServerDies => ServerMoves
    BY <2>1, DisappearsMoves DEF ServerDies
  <2>3. ServerMoves
    BY <1>2, <2>1, <2>2, ServedMoves, TurnStopsMoves
  <2>4. QED  BY <1>2, <2>3, ServerAdvances
<1>3. QED
  BY <1>1, <1>2, DispatchTopAdvances, DispatchClaimAdvances, StarterAdvances, ReaderAdvances,
     OwnerAdvances, StopsAdvance, CrashAdvances, RestartAdvances DEF SupervisorNext

LEMMA InvariantStays ==
  ASSUME SupervisorInv, Named = {}, [SupervisorNext]_vars
  PROVE  [Next]_queueVars /\ SupervisorInv'
<1>1. QueueStep /\ Fits'
  BY SupervisorAdvances DEF Advances
<1>2. [Next]_queueVars
  BY <1>1, QueueStepIsNext DEF SupervisorInv
<1>3. SpoolInv'
  BY <1>2, NextSpool DEF SupervisorInv
<1>4. OwnNames(disk')
  BY <1>1, NamesStayOwn DEF SupervisorInv
<1>5. QED  BY <1>1, <1>2, <1>3, <1>4 DEF SupervisorInv

LEMMA InvariantStarts ==
  ASSUME SupervisorInit
  PROVE  SupervisorInv
<1>1. Init /\ disk = Empty /\ data = Empty
  BY DEF SupervisorInit, Init
<1>2. SpoolInv
  BY <1>1, InitSpool
<1>3. OwnNames(Empty)
  BY DEF OwnNames, Empty
<1>4. TasksFit
  <2>1. task = [x \in TaskIds |-> Rest("idle")]
    BY DEF SupervisorInit, TaskIds
  <2>2. /\ Rest("idle") \in TaskRecord /\ "idle" \in Places
        /\ "idle" \notin WithMessage /\ "idle" \notin AfterThread
    BY DEF Rest, Nothing, TaskRecord, TaskIds, Places, WithMessage, WithJob, AfterThread
  <2>3. \A x \in TaskIds : PlaceFits(Known, Housed, x, Rest("idle"))
    BY <2>2, RestFits
  <2>4. QED  BY <2>1, <2>2, <2>3 DEF TasksFit
<1>5. StoppersFit
  BY DEF SupervisorInit, StoppersFit, Stopper
<1>6. EngineFits
  <2>1. engine = FreshEngine(Empty)
    BY <1>1 DEF SupervisorInit
  <2>2. IsFiniteSet({}) /\ Cardinality({}) = 0 /\ 0 <= EarlyLimit
    BY FS_EmptySet, EarlyAssumption
  <2>3. QED  BY <1>3, <2>1, <2>2, FreshEngineFits DEF EngineFits, EngineRecord
<1>7. /\ dispatcher = "top" /\ server = TRUE /\ sweep = {} /\ wire = <<>> /\ inbox = {}
      /\ turn = [i \in Ids |-> "none"]
  BY DEF SupervisorInit, AppServerInit
<1>8. WireFits /\ InboxFits /\ TurnsFit
  BY <1>7 DEF WireFits, InboxFits, TurnsFit
<1>9. QED  BY <1>1, <1>2, <1>3, <1>4, <1>5, <1>6, <1>7, <1>8 DEF SupervisorInv, Fits

-----------------------------------------------------------------------------
(* The supervisor only ever drives the spool as its callers may: whatever   *)
(* the threads and the app-server do, the journal goes through steps of     *)
(* Spec, so that what OdinQueueProofs shows of the spool holds of it.       *)
THEOREM SupervisorKeepsSpec ==
  ASSUME Named = {}
  PROVE  SupervisorSpec => Spec
<1>1. SupervisorInit => SupervisorInv /\ Init
  BY InvariantStarts DEF SupervisorInit
<1>2. SupervisorInv /\ [SupervisorNext]_vars => SupervisorInv' /\ [Next]_queueVars
  BY InvariantStays
<1>3. QED  BY <1>1, <1>2, PTL DEF SupervisorSpec, Spec

(* What the turns ask is what the app-server may ask.                       *)
QuestionsFit == question \in [Ids -> Questions \cup {NoQuestion}]

LEMMA QuestionsStay ==
  ASSUME QuestionsFit, [SupervisorNext]_vars
  PROVE  QuestionsFit'
<1>1. CASE UNCHANGED vars
  BY <1>1 DEF vars, serverVars, QuestionsFit
<1>2. DispatchTop \/ DispatchClaim => UNCHANGED question
  BY DEF DispatchTop, DispatchClaim, DispatchClaimWith, serverVars
<1>3. \A i \in Ids : Start(i) \/ StartTimeout(i) => UNCHANGED question
  BY DEF Start, StartCheck, StartSend, StartAttach, StartPopEarly, StartExcepts, StartTimeout,
     StarterOnly
<1>4. \A x : Message(x) => UNCHANGED question
  BY DEF Message, LookUp, Completion, CloseTurn, ReaderOnly
<1>5. Reader => UNCHANGED question
  BY <1>4 DEF Reader, Read, SaveRequest, Attach, AttachTo, Approve, PopResolved, PopResolvedWith,
     EndOfFile, Disconnect, Sweep, SweepStep, ReaderOnly
<1>6. Owner => UNCHANGED question
  BY DEF Owner, HttpOnly
<1>7. \A i \in Ids : StopSend(i) \/ StopTimeout(i) \/ StopLost(i) => UNCHANGED question
  BY DEF StopSend, StopTimeout, StopLost, HttpOnly
<1>8. ASSUME MayServe  PROVE QuestionsFit'
  <2>1. PICK i \in Ids : Ask(i) \/ UNCHANGED question
    BY <1>8 DEF MayServe
  <2>2. QED  BY <2>1 DEF Ask, QuestionsFit
<1>9. Serves \/ ServerDies \/ (\E i \in Ids : TurnStops(i)) => UNCHANGED question
  BY DEF Serves, ServerDies, Disappears, TurnStops
<1>10. SupervisorCrash \/ SupervisorRestart => UNCHANGED question
  BY DEF SupervisorCrash, Disappears, SupervisorRestart, RestartOver
<1>11. UNCHANGED question => QuestionsFit'
  BY DEF QuestionsFit
<1>12. QED
  BY <1>1, <1>2, <1>3, <1>4, <1>5, <1>6, <1>7, <1>8, <1>9, <1>10, <1>11 DEF SupervisorNext

(* The types of the supervisor hold with any number of jobs and faults: in  *)
(* particular early_completions stays within its limit.                     *)
THEOREM SupervisorAlwaysTyped ==
  ASSUME Named = {}
  PROVE  SupervisorSpec => []SupervisorTypeOK
<1>1. SupervisorInit => SupervisorInv /\ QuestionsFit
  BY InvariantStarts DEF SupervisorInit, AppServerInit, QuestionsFit
<1>2. SupervisorInv /\ QuestionsFit /\ [SupervisorNext]_vars => SupervisorInv' /\ QuestionsFit'
  BY InvariantStays, QuestionsStay
<1>3. SupervisorInv /\ QuestionsFit => SupervisorTypeOK
  <2>1. ASSUME SupervisorInv, QuestionsFit  PROVE  SupervisorTypeOK
    <3>1. TypeOK /\ Fits /\ Known \subseteq Ids
      BY <2>1, KnownIds DEF SupervisorInv, SpoolInv
    <3>2. QED
      BY <2>1, <3>1 DEF SupervisorTypeOK, Fits, TasksFit, StoppersFit, EngineFits, TurnsFit,
         TaskRecord, TaskIds, QuestionsFit
  <2>2. QED  BY <2>1
<1>4. QED  BY <1>1, <1>2, <1>3, PTL DEF SupervisorSpec
=============================================================================
