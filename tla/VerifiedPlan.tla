---------------------------- MODULE VerifiedPlan ----------------------------
(***************************************************************************)
(* The checkpointed executor of explicit plans (skills/conductor/          *)
(* verified.py): it runs the commands of a plan in order, keeps one row of *)
(* evidence per step in a checkpoint file, and may be interrupted, killed  *)
(* and resumed.  Several processes may be asked to run one checkpoint.     *)
(*                                                                         *)
(* An action goes from one write of the checkpoint to the next: the checks *)
(* read just before a write are one reading of the project, and the write  *)
(* succeeds or makes the call return its error.  Between a write and the   *)
(* start of the command, and while it runs, anything may happen.           *)
(*                                                                         *)
(* The project's files are reduced to the declared checks that hold now.   *)
(* Previews (dry_run) write nothing and are left out; so are refused       *)
(* arguments, timings, notes and digests.  The plan and its context do not *)
(* change, so the fingerprints of a checkpoint always match.               *)
(*                                                                         *)
(* A definition named after another one with a suffix (StartUnsaved) is a  *)
(* wrong version of it, used only to see that the properties notice.       *)
(***************************************************************************)
EXTENDS Integers, FiniteSets

CONSTANTS
  Executors,  \* processes that are asked to run the plan
  Length,     \* number of steps in the plan
  Needs,      \* step -> the earlier steps it needs
  Class,      \* step -> "SAFE", "GATED" or "NEEDS_ARGS"
  Unchecked,  \* steps that declare no postcondition
  Unstable,   \* the checks whose outcome may change
  None        \* no checkpoint, no lock, no exit code

Steps == 1..Length
Checks == {"requires", "sources", "ensures"} \X Steps

ASSUME PlanAssumption ==
  /\ Length \in Nat
  /\ Needs \in [Steps -> SUBSET Steps]
  /\ \A s \in Steps : \A d \in Needs[s] : d < s
  /\ Class \in [Steps -> {"SAFE", "GATED", "NEEDS_ARGS"}]
  /\ Unchecked \subseteq Steps /\ Unstable \subseteq Checks
  /\ None \notin Executors /\ None \notin Int

VARIABLES
  holds,    \* the declared checks that pass on the project's files now
  disk,     \* the rows in the checkpoint file, or None
  lock,     \* who created the .lock file next to it, or None
  exec,     \* process -> the call of execute_verified it is in
  children, \* commands that run
  launched, \* history: step -> how often its command was started
  proved    \* history: steps whose command ended with its evidence in place

vars == <<holds, disk, lock, exec, children, launched, proved>>

STATES == {"pending", "running", "verified", "unverified", "failed", "blocked",
           "skipped", "uncertain", "stale"}
ExitCodes == {-1, 0, 1}    \* not launched, timed out or signalled; success; failure
Row == [status: STATES, started: BOOLEAN, exit_code: ExitCodes \cup {None}]
Rows == [Steps -> Row]
ASSUME NoneAssumption == None \notin Rows
Fresh == [s \in Steps |-> [status |-> "pending", started |-> FALSE, exit_code |-> None]]

(* Idle is a process outside any call.  `sure` is a history variable: the   *)
(* steps whose evidence this call has read itself.                          *)
Idle == [pc |-> "idle", resume |-> FALSE, confirm |-> FALSE, rows |-> Fresh, at |-> 1,
         code |-> None, sure |-> {}]

Init ==
  /\ holds \in {h \in SUBSET Checks : Checks \ Unstable \subseteq h}
  /\ disk = None /\ lock = None /\ children = {} /\ proved = {}
  /\ exec = [e \in Executors |-> Idle]
  /\ launched = [s \in Steps |-> 0]

-----------------------------------------------------------------------------
(* Evidence                                                                 *)

Passes(kind, s) == <<kind, s>> \in holds
Evidence(s) == s \notin Unchecked /\ Passes("ensures", s)
Inputs(s) == Passes("sources", s) /\ Passes("requires", s)

(* check_dependencies: each one still verified, with everything it declared. *)
Available(rows, s) ==
  \A d \in Needs[s] : rows[d].status = "verified" /\ Evidence(d) /\ Inputs(d)

(* What a resumed call accepts from the file.                               *)
Acceptable(rows) ==
  \A s \in Steps : rows[s].status = "verified" => rows[s].exit_code = 0 /\ rows[s].started

-----------------------------------------------------------------------------
(* One call                                                                 *)

(* The call returns or raises: the lock file is unlinked on the way.        *)
Leave(e) == exec' = [exec EXCEPT ![e] = Idle] /\ lock' = None

(* The checkpoint is replaced and the call goes on as `next`; or the write  *)
(* fails and the call ends in its error.                                    *)
Save(e, next) ==
  \/ disk' = next.rows /\ exec' = [exec EXCEPT ![e] = next] /\ UNCHANGED lock
  \/ UNCHANGED disk /\ Leave(e)

(* The call with a new row for the step it is at, there or past that step;  *)
(* `sure` as it is when the step's postconditions were read.                *)
Noted(e, row) == [exec[e] EXCEPT !.rows[exec[e].at] = row]
Is(e, s, status) == [exec[e].rows[s] EXCEPT !.status = status]
Sure(e, s) == IF Evidence(s) THEN exec[e].sure \cup {s} ELSE exec[e].sure
Past(call) == [call EXCEPT !.pc = "step", !.at = @ + 1, !.code = None]

(* os.open(..., O_CREAT | O_EXCL): whoever finds the file gets an error.    *)
Begin(e, resume, confirm) ==
  /\ lock = None
  /\ exec[e].pc = "idle"
  /\ lock' = e
  /\ exec' = [exec EXCEPT ![e] =
               [Idle EXCEPT !.pc = "locked", !.resume = resume, !.confirm = confirm]]
  /\ UNCHANGED <<holds, disk, children, launched, proved>>

Accepts(e) == IF exec[e].resume THEN disk # None /\ Acceptable(disk) ELSE disk = None

Load(e) ==
  /\ exec[e].pc = "locked" /\ Accepts(e)
  /\ exec' = [exec EXCEPT ![e].pc = "step",
                          ![e].rows = IF exec[e].resume THEN disk ELSE Fresh]
  /\ UNCHANGED <<holds, disk, lock, children, launched, proved>>

Refuse(e) ==
  /\ exec[e].pc = "locked" /\ ~Accepts(e)
  /\ Leave(e)
  /\ UNCHANGED <<holds, disk, children, launched, proved>>

(* The call looks at step s.                                                *)
Looks(e, s) == exec[e].pc = "step" /\ s \in Steps /\ exec[e].at = s
Again(e, s) == exec[e].resume /\ exec[e].rows[s].started
MayRun(e, s) == Class[s] = "SAFE" \/ (Class[s] = "GATED" /\ exec[e].confirm)

(* A step that was started before: its evidence is read again, its command  *)
(* is not run again.                                                        *)
RecheckedAlone(e, s) == Evidence(s) /\ Inputs(s)
Rechecked(e, s) == Evidence(s) /\ Inputs(s) /\ Available(exec[e].rows, s)
ResettledUnread(e, s) ==
  IF exec[e].rows[s].status # "verified" THEN "uncertain" ELSE "verified"
ResettledByEvidence(e, s) ==
  IF Rechecked(e, s) THEN "verified"
  ELSE IF exec[e].rows[s].status = "verified" THEN "stale" ELSE "uncertain"
Resettled(e, s) ==
  IF exec[e].rows[s].status # "verified" THEN "uncertain"
  ELSE IF Rechecked(e, s) THEN "verified" ELSE "stale"

Reuse(e) == \E s \in Steps :
  /\ Looks(e, s) /\ Again(e, s)
  /\ Save(e, Past([Noted(e, Is(e, s, Resettled(e, s))) EXCEPT !.sure = Sure(e, s)]))
  /\ UNCHANGED <<holds, children, launched, proved>>

(* Arguments are missing, the confirmation is, or what the step needs.      *)
Pass(e) == \E s \in Steps :
  /\ Looks(e, s) /\ ~Again(e, s)
  /\ ~(MayRun(e, s) /\ Available(exec[e].rows, s) /\ Inputs(s))
  /\ Save(e, Past(Noted(e, Is(e, s, IF Class[s] = "NEEDS_ARGS" THEN "skipped" ELSE "blocked"))))
  /\ UNCHANGED <<holds, children, launched, proved>>

(* The start is on the disk before the command is.                          *)
Dispatching(e, s) ==
  [Noted(e, [Is(e, s, "running") EXCEPT !.started = TRUE]) EXCEPT !.pc = "dispatch"]
StartUnsaved(e) == \E s \in Steps :
  /\ Looks(e, s) /\ ~Again(e, s)
  /\ MayRun(e, s) /\ Available(exec[e].rows, s) /\ Inputs(s)
  /\ exec' = [exec EXCEPT ![e] = Dispatching(e, s)]
  /\ UNCHANGED <<holds, disk, lock, children, launched, proved>>
Start(e) == \E s \in Steps :
  /\ Looks(e, s) /\ ~Again(e, s)
  /\ MayRun(e, s) /\ Available(exec[e].rows, s) /\ Inputs(s)
  /\ Save(e, Dispatching(e, s))
  /\ UNCHANGED <<holds, children, launched, proved>>

Launch(e) == \E s \in Steps :
  /\ exec[e].pc = "dispatch" /\ exec[e].at = s
  /\ exec' = [exec EXCEPT ![e].pc = "running"]
  /\ children' = children \cup {s}
  /\ launched' = [launched EXCEPT ![s] = @ + 1]
  /\ UNCHANGED <<holds, disk, lock, proved>>

(* The command cannot be launched, or does not end in time and is killed.   *)
GivesUpAtLaunch(e) ==
  /\ exec[e].pc = "dispatch"
  /\ exec' = [exec EXCEPT ![e].pc = "ended", ![e].code = -1]
  /\ UNCHANGED <<holds, disk, lock, children, launched, proved>>
GivesUp(e) ==
  /\ exec[e].pc \in {"dispatch", "running"}
  /\ exec' = [exec EXCEPT ![e].pc = "ended", ![e].code = -1]
  /\ children' = children \ {exec[e].at}
  /\ UNCHANGED <<holds, disk, lock, launched, proved>>

OutcomeTimedOut(e, s) ==
  IF exec[e].code = -1 THEN "timeout" ELSE IF exec[e].code # 0 THEN "failed" ELSE "unverified"
Outcome(e, s) ==
  IF exec[e].code = -1 THEN "uncertain"
  ELSE IF exec[e].code # 0 THEN "failed"
  ELSE IF Evidence(s) /\ Passes("sources", s) THEN "verified" ELSE "unverified"

Ended(e, s, status, code) == [Is(e, s, status) EXCEPT !.exit_code = code]

Conclude(e) == \E s \in Steps :
  /\ exec[e].pc = "ended" /\ exec[e].at = s
  /\ Save(e, Past([Noted(e, Ended(e, s, Outcome(e, s), exec[e].code)) EXCEPT
                     !.sure = Sure(e, s)]))
  /\ proved' = IF exec[e].code = 0 /\ Evidence(s) THEN proved \cup {s} ELSE proved
  /\ UNCHANGED <<holds, children, launched>>

Finish(e) ==
  /\ exec[e].pc = "step" /\ exec[e].at > Length
  /\ disk' \in {disk, exec[e].rows}
  /\ Leave(e)
  /\ UNCHANGED <<holds, children, launched, proved>>

(* Ctrl-C while the command is waited for: it is killed, its row recorded   *)
(* and the interruption passed on.  Anywhere else the call just ends.       *)
Interrupt(e) == \E s \in Steps :
  /\ exec[e].pc \in {"dispatch", "running"} /\ exec[e].at = s
  /\ disk' \in {disk, Noted(e, Ended(e, s, "uncertain", -1)).rows}
  /\ children' = children \ {s}
  /\ Leave(e)
  /\ UNCHANGED <<holds, launched, proved>>

Quit(e) ==
  /\ exec[e].pc \in {"locked", "step", "ended"}
  /\ Leave(e)
  /\ UNCHANGED <<holds, disk, children, launched, proved>>

(* Nothing is tidied up by a process that is killed.                        *)
Kill(e) ==
  /\ exec[e].pc # "idle"
  /\ exec' = [exec EXCEPT ![e] = Idle]
  /\ UNCHANGED <<holds, disk, lock, children, launched, proved>>

Call(e) ==
  \/ Load(e) \/ Refuse(e) \/ Reuse(e) \/ Pass(e) \/ Start(e) \/ Launch(e) \/ GivesUp(e)
  \/ Conclude(e) \/ Finish(e)

-----------------------------------------------------------------------------
(* What surrounds the calls                                                 *)

ChildEnds(s) == \E code \in ExitCodes :
  /\ s \in children
  /\ children' = children \ {s}
  /\ exec' = [e \in Executors |->
               IF exec[e].pc = "running" /\ exec[e].at = s
               THEN [exec[e] EXCEPT !.pc = "ended", !.code = code] ELSE exec[e]]
  /\ UNCHANGED <<holds, disk, lock, launched, proved>>

(* Commands, people and other programs change the project at any time.      *)
FilesChange == \E c \in Unstable :
  /\ holds' = IF c \in holds THEN holds \ {c} ELSE holds \cup {c}
  /\ UNCHANGED <<disk, lock, exec, children, launched, proved>>

(* An orphaned lock is removed by hand, once no work of it is active.       *)
RemoveLock ==
  /\ lock \in Executors /\ exec[lock].pc = "idle" /\ children = {}
  /\ lock' = None
  /\ UNCHANGED <<holds, disk, exec, children, launched, proved>>

Next ==
  \/ \E e \in Executors :
       \/ \E resume, confirm \in BOOLEAN : Begin(e, resume, confirm)
       \/ Call(e) \/ Interrupt(e) \/ Quit(e) \/ Kill(e)
  \/ \E s \in Steps : ChildEnds(s)
  \/ FilesChange \/ RemoveLock

Spec == Init /\ [][Next]_vars

(* A call runs on by itself, and subprocess.run(timeout=...) does not wait  *)
(* for ever.  Commands need not end.                                        *)
FairSpec == Spec /\ \A e \in Executors : WF_vars(Call(e))

-----------------------------------------------------------------------------
Calls ==
  [pc: {"idle", "locked", "step", "dispatch", "running", "ended"},
   resume: BOOLEAN, confirm: BOOLEAN, rows: Rows, at: 1 .. Length + 1,
   code: ExitCodes \cup {None}, sure: SUBSET Steps]

(* Every variable has its type.                                             *)
TypeOK ==
  /\ holds \subseteq Checks
  /\ disk \in Rows \cup {None}
  /\ lock \in Executors \cup {None}
  /\ exec \in [Executors -> Calls]
  /\ children \subseteq Steps /\ proved \subseteq Steps
  /\ launched \in [Steps -> Nat]

(* No command is ever run twice from one checkpoint, whichever processes    *)
(* are asked to run it, however often they are killed, interrupted or       *)
(* resumed, and whichever writes fail.                                      *)
NeverRepeated == \A s \in Steps : launched[s] <= 1

(* A command that ever ran is on the disk as started: a process can be lost *)
(* at any moment without its work being forgotten.                          *)
StartIsRecorded == \A s \in Steps : launched[s] > 0 => disk # None /\ disk[s].started

(* While a command of the plan runs, nobody else works on the plan: not     *)
(* even after its executor was killed and its lock removed.                 *)
WorksAlone == \A e \in Executors : \A s \in children :
  exec[e].pc # "idle" => exec[e].pc = "running" /\ exec[e].at = s

(* A command ran only if everything its step needs had run successfully,    *)
(* with its evidence, in this call or in an earlier one.                    *)
DependenciesFirst == \A s \in Steps : launched[s] > 0 => Needs[s] \subseteq proved

(* What a call reports as verified it has itself seen the evidence of, and  *)
(* everything it rests on is verified in the same report.                   *)
Verified(call) == {s \in Steps : s < call.at /\ call.rows[s].status = "verified"}
ReportIsFresh == \A e \in Executors : Verified(exec[e]) \subseteq exec[e].sure
ReportIsClosed ==
  \A e \in Executors : \A s \in Verified(exec[e]) : Needs[s] \subseteq Verified(exec[e])

(* A checkpoint is one that a resumed call accepts.                         *)
CanResume == disk # None => Acceptable(disk)

(* Work that was started stays started, and its outcome only ever loses     *)
(* credit: nothing becomes verified but a command that was running.         *)
Moves ==
  {<<"running", x>> : x \in {"verified", "unverified", "failed", "uncertain"}}
  \cup {<<"verified", "stale">>} \cup {<<x, "uncertain">> : x \in {"unverified", "failed", "stale"}}
NeverRehabilitated ==
  [][disk # None =>
       /\ disk' # None
       /\ \A s \in Steps : disk[s].started =>
            /\ disk'[s].started
            /\ \/ disk'[s].status = disk[s].status
               \/ <<disk[s].status, disk'[s].status>> \in Moves]_vars

(* A call that is not killed returns, even when its command hangs.          *)
EveryCallReturns == \A e \in Executors : (exec[e].pc # "idle") ~> (exec[e].pc = "idle")
=============================================================================
