----------------------------- MODULE RuntimeRuns -----------------------------
(***************************************************************************)
(* Inference runs and what they leave in the shared memory                 *)
(* (skills/llm_backends/runtime.py over runtime_io.py), composed with      *)
(* SharedMemory, whose service they call.                                  *)
(*                                                                         *)
(* execute() asks engines for each cell of a run (a task, a repetition and *)
(* a profile), writes what it has into a new directory before it asks for  *)
(* the next cell, and ends with a report and an outbox.  capture() sends   *)
(* the outbox to the memory; it may be called by several processes, its    *)
(* answer may be lost, and what it sent may arrive late or again.  A       *)
(* process may be killed anywhere, and any write may fail.                 *)
(*                                                                         *)
(* A run is the name of its directory, and stands for its identifier too,  *)
(* which is the key and the request identifier of its observation.  Not    *)
(* modelled: the texts of prompts, contexts and answers, what the checks   *)
(* of a configuration refuse, latencies and their comparison, files of the *)
(* directory that someone edits, and a configuration edited since the run, *)
(* which capture refuses.                                                  *)
(*                                                                         *)
(* A definition named after another one with a suffix is a wrong version   *)
(* of it, used only to see that the properties notice.                     *)
(***************************************************************************)
EXTENDS SharedMemory, Sequences, SequencesExt

CONSTANTS
  Runs,         \* run directories
  Clients,      \* processes that capture
  Operators,    \* the identities that change the memory otherwise
  Observation,  \* the record of a run: quarantined and private
  MaxCells,     \* the cells of a benchmark
  Tokenless     \* the memory adapters without a credential: "none", "external"

ASSUME RuntimeAssumption ==
  /\ Runs \subseteq Keys \cap Ids /\ Operators \subseteq Actors
  /\ Observation \in External /\ Asks[Observation] = "private"
  /\ MaxCells \in Nat \ {0, 1}
  /\ "none" \in Tokenless /\ Tokenless \subseteq {"none", "external"} /\ Tokenless \cap Actors = {}
  /\ None \notin Tokenless \cup Actors \cup {"completed", "failed"}

Adapters == Tokenless \cup Actors  \* botte_http is the identity of its token

VARIABLES
  work,    \* run -> the call of execute that works, or worked, on it
  disk,    \* run -> the files of its directory
  asked,   \* run -> the cells and places in the chain of profiles asked for (history)
  client,  \* process -> its call of capture
  wire     \* captures that may still, or again, reach the service

mvars == <<db, backup, past, applied>>
rvars == <<work, disk, asked, client, wire>>

Rows == [status: {"completed", "failed"}, answer: BOOLEAN]
NoWork == [at |-> "new", adapter |-> "none", cells |-> 0, chain |-> 0, tries |-> 0, rows |-> <<>>]
NoFiles == [state |-> None, input |-> FALSE, rows |-> <<>>, outputs |-> {}, report |-> FALSE,
            outbox |-> None, receipt |-> FALSE]
Resting == [at |-> "idle", run |-> None, actor |-> None, replied |-> None]

RuntimeInit ==
  /\ Init
  /\ work = [d \in Runs |-> NoWork] /\ disk = [d \in Runs |-> NoFiles]
  /\ asked = [d \in Runs |-> <<>>]
  /\ client = [c \in Clients |-> Resting] /\ wire = {}

-----------------------------------------------------------------------------
(* execute. *)

\* A file is replaced and the call goes on, or the write fails: outside the try
\* block the exception leaves at once, inside it is handled.
Writes(d, files, then, otherwise) ==
  \/ disk' = [disk EXCEPT ![d] = files] /\ work' = [work EXCEPT ![d].at = then]
  \/ UNCHANGED disk /\ work' = [work EXCEPT ![d].at = otherwise]

\* One routed task, perhaps with a fallback, or a benchmark of several cells.
\* An existing directory is never resumed.
Started(d, adapter, cells, chain, files) ==
  LET new == [NoWork EXCEPT !.adapter = adapter, !.cells = cells, !.chain = chain]
  IN  \/ disk' = [disk EXCEPT ![d] = files] /\ work' = [work EXCEPT ![d] = [new EXCEPT !.at = "prepare"]]
      \/ UNCHANGED disk /\ work' = [work EXCEPT ![d] = [new EXCEPT !.at = "over"]]
ExecuteOver(d) ==
  /\ work[d].at \in {"new", "over"}
  /\ \E adapter \in Adapters, shape \in {<<1, 1>>, <<1, 2>>, <<MaxCells, 1>>} :
       Started(d, adapter, shape[1], shape[2], [disk[d] EXCEPT !.state = "started"])
  /\ UNCHANGED <<asked, client, wire>>
Execute(d) ==
  /\ work[d].at = "new"
  /\ \E adapter \in Adapters, shape \in {<<1, 1>>, <<1, 2>>, <<MaxCells, 1>>} :
       Started(d, adapter, shape[1], shape[2], [disk[d] EXCEPT !.state = "started"])
  /\ UNCHANGED <<asked, client, wire>>

\* The configuration, the contexts of all tasks, then the input that is frozen.
Prepare(d) ==
  /\ work[d].at = "prepare"
  /\ Writes(d, [disk[d] EXCEPT !.input = TRUE], "ask", "failing")
  /\ UNCHANGED <<asked, client, wire>>

\* check_context, before each request: a context that expired ends the run.
Expired(d) ==
  /\ work[d].at = "ask"
  /\ work' = [work EXCEPT ![d].at = "failing"]
  /\ UNCHANGED <<disk, asked, client, wire>>

\* infer: the request has left.
Ask(d) ==
  /\ work[d].at = "ask"
  /\ asked' = [asked EXCEPT ![d] = Append(@, <<Len(work[d].rows) + 1, work[d].tries + 1>>)]
  /\ work' = [work EXCEPT ![d].at = "infer", ![d].tries = @ + 1]
  /\ UNCHANGED <<disk, client, wire>>

\* After an answer: the next profile of the chain, or the row of the cell.
AfterAnswer(w, row) ==
  IF row.status = "failed" /\ w.tries < w.chain THEN [w EXCEPT !.at = "ask"]
  ELSE [w EXCEPT !.at = "observe", !.tries = 0, !.rows = Append(@, row)]

\* An answer that passes, one that does not, or a RuntimeFailure.
Infer(d) ==
  /\ work[d].at = "infer"
  /\ \E row \in Rows :
       /\ row.status = "completed" => row.answer
       /\ work' = [work EXCEPT ![d] = AfterAnswer(@, row)]
  /\ UNCHANGED <<disk, asked, client, wire>>

\* observations.json, then output.private.json, before the next cell.
Answered(rows) == {i \in DOMAIN rows : rows[i].answer}
AfterCellOneMore(d) == IF Len(work[d].rows) <= work[d].cells THEN "ask" ELSE "report"
AfterCell(d) == IF Len(work[d].rows) < work[d].cells THEN "ask" ELSE "report"

ObserveLast(d) ==
  /\ work[d].at = "observe"
  /\ IF AfterCell(d) = "ask"
       THEN work' = [work EXCEPT ![d].at = "ask"] /\ UNCHANGED disk
       ELSE Writes(d, [disk[d] EXCEPT !.rows = work[d].rows], "output", "failing")
  /\ UNCHANGED <<asked, client, wire>>
Observe(d) ==
  /\ work[d].at = "observe"
  /\ Writes(d, [disk[d] EXCEPT !.rows = work[d].rows], "output", "failing")
  /\ UNCHANGED <<asked, client, wire>>

Output(d) ==
  /\ work[d].at = "output"
  /\ Writes(d, [disk[d] EXCEPT !.outputs = Answered(work[d].rows)], AfterCell(d), "failing")
  /\ UNCHANGED <<asked, client, wire>>

Report(d) ==
  /\ work[d].at = "report"
  /\ Writes(d, [disk[d] EXCEPT !.report = TRUE],
            IF work[d].adapter = "none" THEN "end" ELSE "outbox", "failing")
  /\ UNCHANGED <<asked, client, wire>>

\* _outbox: bound to the credential.
Outbox(d) ==
  /\ work[d].at = "outbox"
  /\ Writes(d, [disk[d] EXCEPT !.outbox = work[d].adapter], "end", "failing")
  /\ UNCHANGED <<asked, client, wire>>

EndCompleted(d) ==
  /\ work[d].at = "end"
  /\ Writes(d, [disk[d] EXCEPT !.state = "completed"], "over", "failing")
  /\ UNCHANGED <<asked, client, wire>>
End(d) ==
  /\ work[d].at = "end"
  /\ Writes(d, [disk[d] EXCEPT !.state =
              IF \A i \in DOMAIN work[d].rows : work[d].rows[i].status = "completed"
                THEN "completed" ELSE "failed"], "over", "failing")
  /\ UNCHANGED <<asked, client, wire>>

\* The handler of exceptions, whose own write may fail.
Handle(d) ==
  /\ work[d].at = "failing"
  /\ Writes(d, [disk[d] EXCEPT !.state = "interrupted_or_setup_failed"], "over", "over")
  /\ UNCHANGED <<asked, client, wire>>

Killed(d) ==
  /\ work[d].at \notin {"new", "over"}
  /\ work' = [work EXCEPT ![d].at = "over"]
  /\ UNCHANGED <<disk, asked, client, wire>>

Executes(d) ==
  \/ Execute(d) \/ Prepare(d) \/ Expired(d) \/ Ask(d) \/ Infer(d) \/ Observe(d) \/ Output(d)
  \/ Report(d) \/ Outbox(d) \/ End(d) \/ Handle(d) \/ Killed(d)

-----------------------------------------------------------------------------
(* capture. *)

Sent(d, a) ==
  [actor |-> a, id |-> d, key |-> d, saw |-> None, op |-> "capture", text |-> Observation, status |-> None]

Goes(c, state) == client' = [client EXCEPT ![c] = state]

\* Outbox and report are there, and the credential is the one of the run.
SendAsAnyone(c) ==
  /\ client[c].at = "idle"
  /\ \E d \in Runs, a \in Actors :
       /\ disk[d].outbox \in Actors /\ disk[d].report
       /\ Goes(c, [Resting EXCEPT !.at = "sent", !.run = d, !.actor = a])
       /\ wire' = wire \cup {Sent(d, a)}
  /\ UNCHANGED <<work, disk, asked>>
Send(c) ==
  /\ client[c].at = "idle"
  /\ \E d \in Runs :
       /\ disk[d].outbox \in Actors /\ disk[d].report
       /\ Goes(c, [Resting EXCEPT !.at = "sent", !.run = d, !.actor = disk[d].outbox])
       /\ wire' = wire \cup {Sent(d, disk[d].outbox)}
  /\ UNCHANGED <<work, disk, asked>>

\* A process that waits is answered with what the service does with its request.
Asking(c) == Sent(client[c].run, client[c].actor)
Replies(c, reply) == Goes(c, [client[c] EXCEPT !.at = "replied", !.replied = reply])

Served(c) ==
  /\ client[c].at = "sent"
  /\ \/ Capture(Asking(c)) /\ Replies(c, Answer(Built(Asking(c), None)))
     \/ (\E x \in Replays(Asking(c)) : Replies(c, x.answer)) /\ UNCHANGED mvars
  /\ UNCHANGED <<work, disk, asked, wire>>

\* Refused, or nothing came in time, whether or not the request was or will be
\* served: capture ends, uncertain.  So does a process that is killed.
GivesUp(c) ==
  /\ client[c].at \in {"sent", "replied"}
  /\ Goes(c, Resting)
  /\ UNCHANGED <<work, disk, asked, wire>>

\* A receipt of the first version, in quarantine, is kept (a write that fails is
\* in GivesUp).
Receives(c) ==
  /\ client[c].at = "replied"
  /\ client[c].replied.quarantined /\ client[c].replied.version = 1
  /\ disk' = [disk EXCEPT ![client[c].run].receipt = TRUE]
  /\ Goes(c, Resting)
  /\ UNCHANGED <<work, asked, wire>>

\* What was sent reaches the service without anybody waiting for the answer.
Late == (\E r \in wire : Capture(r)) /\ UNCHANGED rvars

-----------------------------------------------------------------------------
\* What others do with the memory: an operation of the service or of its operator.
Operates == (Calls(Operators, Ids \ Runs, Keys \ Runs) \/ Backup \/ Restore) /\ UNCHANGED rvars

RuntimeNext ==
  \/ (\E d \in Runs : Executes(d)) /\ UNCHANGED mvars
  \/ (\E c \in Clients : Send(c) \/ GivesUp(c) \/ Receives(c)) /\ UNCHANGED mvars
  \/ \E c \in Clients : Served(c)
  \/ Late
  \/ Operates

RuntimeSpec == RuntimeInit /\ [][RuntimeNext]_<<mvars, rvars>>

-----------------------------------------------------------------------------
\* Every variable has its type; the files of a directory are behind its call.
RuntimeTypeOK ==
  /\ TypeOK
  /\ work \in [Runs -> [at: {"new", "prepare", "ask", "infer", "observe", "output", "report", "outbox",
                             "end", "failing", "over"},
                        adapter: Adapters, cells: 0..MaxCells, chain: 0..2, tries: 0..2, rows: Seq(Rows)]]
  /\ disk \in [Runs -> [state: {None, "started", "completed", "failed", "interrupted_or_setup_failed"},
                        input: BOOLEAN, rows: Seq(Rows), outputs: SUBSET (1..MaxCells), report: BOOLEAN,
                        outbox: Adapters \cup {None}, receipt: BOOLEAN]]
  /\ asked \in [Runs -> Seq((1..MaxCells) \X (1..2))]
  /\ client \in [Clients -> [at: {"idle", "sent", "replied"}, run: Runs \cup {None}, actor: Actors \cup {None},
                             replied: {None} \cup [version: 1..MaxVersion, status: STATUS, quarantined: BOOLEAN]]]
  /\ wire \subseteq {Sent(d, a) : d \in Runs, a \in Actors}

\* "An interrupted inference may already have run remotely" (execute): whatever
\* was killed, failed or is done again, no profile is asked twice for one cell.
AskedOnce == \A d \in Runs : IsInjective(asked[d])

\* "Preserve completed work even if the next request is interrupted": of each cell
\* before one that was asked for, the row and the answer are on disk, for good.
WorkIsPreserved ==
  \A d \in Runs : \A i \in DOMAIN asked[d] :
    LET before == asked[d][i][1] - 1
    IN  /\ Len(disk[d].rows) >= before
        /\ \A k \in 1..before : disk[d].rows[k].answer => k \in disk[d].outputs

\* What a directory says of its run is what happened: completed means every cell
\* was, and that report, answers and outbox are there for who reads it.
StatusIsEarned ==
  \A d \in Runs :
    disk[d].state \in {"completed", "failed"} =>
      /\ disk[d].report /\ disk[d].outputs = Answered(disk[d].rows)
      /\ Len(disk[d].rows) = work[d].cells
      /\ work[d].adapter # "none" => disk[d].outbox = work[d].adapter
      /\ disk[d].state = "completed" <=> \A i \in DOMAIN disk[d].rows : disk[d].rows[i].status = "completed"

\* What the memory ever held under the key of a run was sent by the identity the run
\* was made with, after its report was written, and was never anything but a
\* quarantined observation; a receipt says that the memory did hold it.
ObservationIsBound ==
  \A d \in Runs :
    /\ \A e \in Seen(d) : e.owner = disk[d].outbox /\ e.quarantined /\ disk[d].report
    /\ disk[d].receipt => \E e \in Seen(d) : e.version = 1
=============================================================================
