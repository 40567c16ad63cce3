------------------------------ MODULE OdinQueue ------------------------------
(***************************************************************************)
(* The persistent spool of the Odin queue (scripts/odin_queue/state.py):   *)
(* one supervisor process keeps a list of jobs in memory, journals every   *)
(* transition to one JSON file, and hands at most `capacity` of them to an *)
(* engine at a time.                                                       *)
(*                                                                         *)
(* Every public method runs under Queue.lock, so a call is one action.     *)
(* What a call can meet is in the action: the journal write succeeds, or   *)
(* fails and the memory goes back to the last commit.  The process may die *)
(* between two calls; what it finds again is the file.  A process that     *)
(* dies inside a call leaves the file as a failed write or as a completed  *)
(* call does, so Crash after either covers it.                             *)
(*                                                                         *)
(* A job's identifier is its position in the list: jobs are only appended. *)
(* A directory is the sequence of its path components.  Titles, prompts,   *)
(* results, notes, timestamps and the revision counter are left out.       *)
(*                                                                         *)
(* A definition named after another one with a suffix (LimitsFromZero,     *)
(* RecoveredReplays) is a wrong version of it, used only to see that the   *)
(* properties notice.                                                      *)
(***************************************************************************)
EXTENDS Integers, Sequences, FiniteSets

CONSTANTS
  Keys,          \* dedupe keys of submissions
  Dirs,          \* resolved working directories under the allowed roots
  Threads,       \* discussion identifiers
  KnownThreads,  \* those that exist before the queue creates any
  Turns,         \* turn identifiers the app-server hands out
  Requests,      \* identifiers of the app-server's approval requests
  MaxCapacity,   \* greatest --max-running (5)
  MaxOpen,       \* greatest number of jobs that are not finished (200)
  JournalFails,  \* whether a write of the journal may fail
  None           \* Python's None, as a thread or a turn

ASSUME DirsArePaths == Dirs \subseteq Seq(STRING)
ASSUME ThreadsAssumption == KnownThreads \subseteq Threads /\ None \notin Threads
ASSUME TurnsAssumption == None \notin Turns
ASSUME LimitsAssumption ==
  MaxCapacity \in Nat \ {0} /\ MaxOpen \in Nat /\ JournalFails \in BOOLEAN

VARIABLES
  up,             \* a supervisor runs (it holds the SupervisorLock)
  capacity,       \* Queue.capacity, chosen at each start
  data,           \* Queue.data: what every method reads
  committed,      \* Queue._committed_data: what a failed write restores
  disk,           \* the journal file
  storage_failed, \* Queue.storage_failed
  claimed         \* history: the jobs claim() has ever returned

memory == <<data, committed, disk, storage_failed>>
queueVars == <<up, capacity, data, committed, disk, storage_failed, claimed>>

OCCUPIED == {"starting", "running", "waiting_approval", "cancelling", "unknown"}
TERMINAL == {"completed", "failed", "interrupted", "cancelled"}

Job == [key: Keys, cwd: Dirs, thread: Threads \cup {None}, turn: Turns \cup {None},
        status: {"queued"} \cup OCCUPIED \cup TERMINAL, pending: SUBSET Requests]

Image == [paused: BOOLEAN, jobs: Seq(Job)]

(* The capacities that Queue.__init__ accepts.                              *)
LimitsFromZero == 0 .. MaxCapacity
Limits == 1 .. MaxCapacity

Empty == [paused |-> FALSE, jobs |-> <<>>]

(* The jobs of an image that hold a slot. *)
Active(q) == {i \in DOMAIN q.jobs : q.jobs[i].status \in OCCUPIED}

(* Jobs that are neither finished nor cancelled count against the limit of *)
(* a submission.                                                           *)
Open(q) == {i \in DOMAIN q.jobs : q.jobs[i].status \notin TERMINAL}

(* os.path.commonpath of the two is one of the two. *)
Within(inner, outer) ==
  Len(outer) <= Len(inner) /\ \A n \in 1 .. Len(outer) : inner[n] = outer[n]
OverlapsBelow(first, second) == Within(second, first)
Overlaps(first, second) == Within(first, second) \/ Within(second, first)

(* Same or nested working directory, or same discussion. *)
Conflict(a, b) ==
  \/ Overlaps(a.cwd, b.cwd)
  \/ a.thread # None /\ a.thread = b.thread

-----------------------------------------------------------------------------
(* _commit: the new image is written and becomes the memory, or the write   *)
(* fails (it always does once storage_failed is set) and the memory goes    *)
(* back to the last commit.  The caller got QueuePersistenceError exactly   *)
(* when storage_failed' holds.                                              *)
WriteOkForgetsCommit(new) ==
  ~storage_failed /\ data' = new /\ disk' = new /\ UNCHANGED <<committed, storage_failed>>
WriteOkAfterFailure(new) ==
  data' = new /\ committed' = new /\ disk' = new /\ UNCHANGED storage_failed

WriteOk(new) ==
  /\ ~storage_failed
  /\ data' = new /\ committed' = new /\ disk' = new
  /\ UNCHANGED storage_failed

WriteFails ==
  /\ JournalFails
  /\ data' = committed
  /\ storage_failed' = TRUE
  /\ UNCHANGED <<committed, disk>>

Commit(new) == WriteOk(new) \/ WriteFails

StatusOf(i) == data.jobs[i].status

(* The image with the status of the jobs of S replaced. *)
Mark(q, S, status) ==
  [q EXCEPT !.jobs = [i \in DOMAIN q.jobs |->
     IF i \in S THEN [q.jobs[i] EXCEPT !.status = status] ELSE q.jobs[i]]]

Init ==
  /\ up = TRUE
  /\ capacity \in Limits
  /\ data = Empty /\ committed = Empty /\ disk = Empty
  /\ storage_failed = FALSE
  /\ claimed = {}

(* submit: a key already in the list returns that job (same mission) or is  *)
(* refused (another mission); nothing changes in either case, nor when the  *)
(* list is full.                                                            *)
NewJob(key, dir, thread) ==
  [key |-> key, cwd |-> dir, thread |-> thread, turn |-> None,
   status |-> "queued", pending |-> {}]

Submit(key, dir, thread) ==
  /\ \A i \in DOMAIN data.jobs : data.jobs[i].key # key
  /\ Cardinality(Open(data)) < MaxOpen
  /\ Commit([data EXCEPT !.jobs = Append(@, NewJob(key, dir, thread))])

(* claim: the first queued job, in submission order, that conflicts with no *)
(* active one.  Jobs met on the way whose directory went away or moved      *)
(* (`missing`, re-read at each claim) are failed, each with a commit of its *)
(* own, so that a failing write keeps the earlier ones.                     *)
AdmitsOneMore(q) ==
  /\ ~q.paused
  /\ \A i \in Active(q) : q.jobs[i].status # "unknown"
  /\ Cardinality(Active(q)) <= capacity

Admits(q) ==
  /\ ~q.paused
  /\ \A i \in Active(q) : q.jobs[i].status # "unknown"
  /\ Cardinality(Active(q)) < capacity

Candidates(q) ==
  {i \in DOMAIN q.jobs :
     /\ q.jobs[i].status = "queued"
     /\ \A a \in Active(q) : ~Conflict(q.jobs[i], q.jobs[a])}

Sound(missing) == {i \in Candidates(data) : data.jobs[i].cwd \notin missing}

Chosen(i, missing) == i \in Sound(missing) /\ \A k \in Sound(missing) : i <= k

(* The candidates that claim fails before it reaches a sound one. *)
Dropped(missing) ==
  {i \in Candidates(data) \ Sound(missing) : \A k \in Sound(missing) : i < k}

ClaimReturns(i, missing) ==
  /\ Chosen(i, missing)
  /\ WriteOk(Mark(Mark(data, Dropped(missing), "failed"), {i}, "starting"))
  /\ claimed' = claimed \cup {i}

ClaimReturnsNothing(missing) ==
  /\ Sound(missing) = {}
  /\ IF Dropped(missing) = {} THEN UNCHANGED memory
                              ELSE WriteOk(Mark(data, Dropped(missing), "failed"))
  /\ UNCHANGED claimed

(* The commit made for job `last` fails; those made before it stand. *)
ClaimRaises(missing) ==
  /\ JournalFails
  /\ \E last \in Candidates(data) :
       /\ last \in Dropped(missing) \/ Chosen(last, missing)
       /\ LET kept == Mark(data, {i \in Dropped(missing) : i < last}, "failed")
          IN  data' = kept /\ committed' = kept /\ disk' = kept
  /\ storage_failed' = TRUE
  /\ UNCHANGED claimed

(* attach: the engine learnt the discussion's or the turn's identifier.     *)
AttachThread(i, thread) == Commit([data EXCEPT !.jobs[i].thread = thread])

AttachTurn(i, turn) ==
  Commit([data EXCEPT !.jobs[i].turn = turn,
                      !.jobs[i].status = IF @ = "starting" THEN "running" ELSE @])

(* event: a report on a finished job returns at once, whatever the journal. *)
Ignored(i) == StatusOf(i) \in TERMINAL

Event(i, new) == IF Ignored(i) THEN UNCHANGED memory ELSE Commit(new)

EventComplete(i, status) ==
  Event(i, [data EXCEPT !.jobs[i].status = status, !.jobs[i].pending = {}])

EventUnknown(i) ==
  Event(i, [data EXCEPT !.jobs[i].status = "unknown", !.jobs[i].pending = {}])

EventApproval(i, request) ==
  Event(i, IF StatusOf(i) = "unknown" THEN data
           ELSE [data EXCEPT !.jobs[i].pending = @ \cup {request},
                             !.jobs[i].status = IF @ = "cancelling" THEN @
                                                ELSE "waiting_approval"])

(* Text of the agent is added to the result, which is not modelled.         *)
EventMessage(i) == Event(i, data)

EventResolved(i, request) ==
  LET left == data.jobs[i].pending \ {request}
  IN  Event(i, [data EXCEPT !.jobs[i].pending = left,
                            !.jobs[i].status = IF left = {} /\ @ = "waiting_approval"
                                               THEN "running" ELSE @])

(* cancel: a queued job goes; a turn in progress is asked to stop; any      *)
(* other unfinished job is refused.  A finished one only commits again.     *)
Cancellable(i) ==
  \/ StatusOf(i) \in {"queued"} \cup TERMINAL
  \/ StatusOf(i) \in {"running", "waiting_approval"} /\ data.jobs[i].turn # None

Cancel(i) ==
  /\ Cancellable(i)
  /\ Commit([data EXCEPT !.jobs[i].status =
               CASE @ = "queued" -> "cancelled"
                 [] @ \in {"running", "waiting_approval"} -> "cancelling"
                 [] OTHER -> @])

ConfirmStoppedReplays(i) ==
  StatusOf(i) = "unknown" /\ Commit([data EXCEPT !.jobs[i].status = "queued"])

ConfirmStopped(i) ==
  /\ StatusOf(i) = "unknown"
  /\ Commit([data EXCEPT !.jobs[i].status = "interrupted"])

Pause(paused) == Commit([data EXCEPT !.paused = paused])

(* The end of the process, which the OS follows by releasing the lock.      *)
Crash ==
  /\ up
  /\ up' = FALSE
  /\ UNCHANGED <<capacity, memory, claimed>>

(* Queue.__init__ under the SupervisorLock: every job that held a slot      *)
(* becomes "unknown" and is journalled so before anything else runs.        *)
RecoveredReplays(q) ==
  [q EXCEPT !.jobs = [i \in DOMAIN q.jobs |->
     IF i \in Active(q)
     THEN [q.jobs[i] EXCEPT !.status = IF @ = "starting" THEN "queued" ELSE "unknown",
                            !.pending = {}]
     ELSE q.jobs[i]]]

Recovered(q) ==
  [q EXCEPT !.jobs = [i \in DOMAIN q.jobs |->
     IF i \in Active(q) THEN [q.jobs[i] EXCEPT !.status = "unknown", !.pending = {}]
                        ELSE q.jobs[i]]]

Restart(max_running) ==
  /\ ~up
  /\ up' = TRUE
  /\ capacity' = max_running
  /\ data' = Recovered(disk) /\ committed' = data' /\ disk' = data'
  /\ storage_failed' = FALSE
  /\ UNCHANGED claimed
-----------------------------------------------------------------------------
(* The callers.  Owners submit, cancel, pause and confirm; the dispatcher   *)
(* claims; the engine reports on any job it has been given, at any moment,  *)
(* in any order.  A discussion can be named once it exists; one that the    *)
(* app-server opens for a job is new, and so is the turn it starts.         *)
InUse == {data.jobs[i].thread : i \in DOMAIN data.jobs} \ {None}

OpenedFor(i) ==
  IF data.jobs[i].thread # None THEN {data.jobs[i].thread}
                                ELSE Threads \ (KnownThreads \cup InUse)

TurnsFor(i) ==
  IF data.jobs[i].turn # None THEN {data.jobs[i].turn}
                              ELSE Turns \ {data.jobs[k].turn : k \in DOMAIN data.jobs}

Claim ==
  /\ ~storage_failed
  /\ Admits(data)
  /\ \E missing \in SUBSET Dirs :
       \/ \E i \in DOMAIN data.jobs : ClaimReturns(i, missing)
       \/ ClaimReturnsNothing(missing)
       \/ ClaimRaises(missing)

Report(i) ==
  /\ StatusOf(i) # "queued"
  /\ \/ \E thread \in OpenedFor(i) : AttachThread(i, thread)
     \/ data.jobs[i].thread # None /\ \E turn \in TurnsFor(i) : AttachTurn(i, turn)
     \/ \E status \in {"completed", "failed", "interrupted"} : EventComplete(i, status)
     \/ EventUnknown(i) \/ EventMessage(i)
     \/ \E request \in Requests : EventApproval(i, request) \/ EventResolved(i, request)

Own ==
  \/ \E key \in Keys, dir \in Dirs, thread \in KnownThreads \cup InUse \cup {None} :
       Submit(key, dir, thread)
  \/ \E i \in DOMAIN data.jobs : Cancel(i) \/ ConfirmStopped(i)
  \/ \E paused \in BOOLEAN : Pause(paused)

Next ==
  \/ /\ up
     /\ \/ Claim
        \/ /\ Own \/ \E i \in DOMAIN data.jobs : Report(i)
           /\ UNCHANGED claimed
     /\ UNCHANGED <<up, capacity>>
  \/ Crash
  \/ \E max_running \in Limits : Restart(max_running)

Spec == Init /\ [][Next]_queueVars

-----------------------------------------------------------------------------
(* The types; a capacity outside 1 .. MaxCapacity is never in force.        *)
TypeOK ==
  /\ up \in BOOLEAN
  /\ capacity \in 1 .. MaxCapacity
  /\ data \in Image /\ committed \in Image /\ disk \in Image
  /\ storage_failed \in BOOLEAN
  /\ claimed \subseteq Nat

(* A running supervisor never shows, keeps for its rollback, or acts on     *)
(* anything but what the journal holds, even after a failed write.          *)
JournalIsMemory == up => data = disk /\ committed = disk

(* No more than MaxCapacity jobs hold a slot, whatever was restarted with a *)
(* smaller limit; and those known to run fit the limit of this process.     *)
Running(q) == {i \in Active(q) : q.jobs[i].status # "unknown"}

CapacityRespected ==
  /\ Cardinality(Active(disk)) <= MaxCapacity
  /\ up => Cardinality(Running(disk)) <= capacity

(* The limit on jobs that are not finished holds across crashes and late    *)
(* reports: a job that left the count never comes back to it.               *)
OpenBounded == Cardinality(Open(disk)) <= MaxOpen

(* Two jobs that hold slots work in disjoint directory trees and on         *)
(* different discussions, across crashes and late attachments.              *)
ActiveAreCompatible ==
  \A i, k \in Active(disk) : i # k => ~Conflict(disk.jobs[i], disk.jobs[k])

(* A job that the journal would offer again has never been handed out: no   *)
(* crash or failed write between two steps makes a mission start twice.     *)
NoReplay == \A i \in DOMAIN disk.jobs : disk.jobs[i].status = "queued" => i \notin claimed

(* Requests are kept only by a job that waits for a decision or is being    *)
(* interrupted, and a job shown as waiting for one has a request.           *)
PendingFits(job) ==
  /\ job.pending # {} => job.status \in {"waiting_approval", "cancelling"}
  /\ job.status = "waiting_approval" => job.pending # {}

PendingMatchesStatus == \A i \in DOMAIN disk.jobs : PendingFits(disk.jobs[i])

(* What the owner sees of the slots is true at any moment: they are within  *)
(* both limits, their holders work apart from each other, and a request is  *)
(* shown only by a job that waits or is being interrupted, always by one    *)
(* that waits.                                                              *)
SlotsAreSound == CapacityRespected /\ ActiveAreCompatible /\ PendingMatchesStatus

(* What one step may do to a job of the journal.  A finished job never      *)
(* changes status; an uncertain one is only ever released, never taken for  *)
(* running again; nothing goes back to the queue, and nothing is forgotten. *)
Moves ==
  {<<s, s>> : s \in {"queued"} \cup OCCUPIED \cup TERMINAL}
    \cup {<<"queued", t>> : t \in {"starting", "failed", "cancelled"}}
    \cup {<<s, t>> : s \in OCCUPIED, t \in TERMINAL \ {"cancelled"}}
    \cup {<<s, "unknown">> : s \in OCCUPIED}
    \cup {<<s, "waiting_approval">> : s \in {"starting", "running"}}
    \cup {<<s, "cancelling">> : s \in {"running", "waiting_approval"}}
    \cup {<<s, "running">> : s \in {"starting", "waiting_approval"}}

Lifecycle ==
  [][\A i \in DOMAIN disk.jobs :
       /\ i \in DOMAIN disk'.jobs
       /\ <<disk.jobs[i].status, disk'.jobs[i].status>> \in Moves]_disk

(* A journal that could not be written is never written again by the same   *)
(* process, and no mission is handed out until the supervisor restarts.     *)
FailureStopsAdmission ==
  [][storage_failed /\ storage_failed' => UNCHANGED <<data, disk, claimed>>]_queueVars

(* The journal keeps the promise of SlotLedger, through every crash.        *)
Ledger == INSTANCE SlotLedger WITH
  Slots <- MaxCapacity,
  waiting <- {i \in DOMAIN disk.jobs : disk.jobs[i].status = "queued"},
  held <- Active(disk),
  over <- {i \in DOMAIN disk.jobs : disk.jobs[i].status \in TERMINAL}

KeepsLedger == Ledger!LedgerSpec
=============================================================================
