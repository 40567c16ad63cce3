------------------------- MODULE VerifiedPlanProofs -------------------------
(***************************************************************************)
(* What VerifiedPlan promises, for every plan, any number of processes and *)
(* whatever changes in the project.                                        *)
(*                                                                         *)
(* The invariant is PlanInv.  Its core is that a call that is neither idle *)
(* nor still loading holds the lock and has in memory exactly the rows of  *)
(* the checkpoint (or, before the first write, no checkpoint and no work). *)
(* All writers being that one call, whatever is true of the rows it writes *)
(* is true of the file, and the calls outside the lock are idle.           *)
(***************************************************************************)
EXTENDS VerifiedPlan, TLAPS

Loaded(call) == call.pc \in {"step", "dispatch", "running", "ended"}
Working(call) == call.pc \in {"dispatch", "running", "ended"}

STARTED == {"running", "verified", "unverified", "failed", "uncertain", "stale"}
SoundRow(row) ==
  /\ row.started <=> row.status \in STARTED
  /\ row.status = "verified" => row.exit_code = 0

(* The steps a first run has not come to are not started.                   *)
Ahead(call, s) == s > call.at \/ (s = call.at /\ call.pc = "step")

CallOk(call) ==
  /\ call.pc = "idle" => call = Idle
  /\ call.pc = "locked" => call.at = 1
  /\ Loaded(call) /\ ~call.resume => \A s \in Steps : Ahead(call, s) => ~call.rows[s].started
  /\ Loaded(call) => \A s \in Steps : SoundRow(call.rows[s])
  /\ Verified(call) \subseteq call.sure
  /\ \A s \in Verified(call) : Needs[s] \subseteq Verified(call)
  /\ Working(call) =>
       /\ call.at \in Steps
       /\ call.rows[call.at].status = "running"
       /\ Needs[call.at] \subseteq Verified(call)

(* What the call and the file have to do with one another.                  *)
Backed(call, file) ==
  /\ Loaded(call) => file = call.rows \/ (file = None /\ call.rows = Fresh)
  /\ Working(call) => file = call.rows

FileOk(file, ran, done) ==
  /\ file # None => \A s \in Steps :
       SoundRow(file[s]) /\ (file[s].status = "verified" => s \in done)
  /\ \A s \in Steps : ran[s] > 0 => file # None /\ file[s].started /\ Needs[s] \subseteq done

PlanInv ==
  /\ TypeOK
  /\ NeverRepeated
  /\ FileOk(disk, launched, proved)
  /\ lock = None => children = {}
  /\ \A e \in Executors :
       /\ CallOk(exec[e]) /\ Backed(exec[e], disk)
       /\ exec[e].pc # "idle" => lock = e
       /\ exec[e].pc \notin {"idle", "running"} => children = {}
       /\ exec[e].pc = "running" => children \subseteq {exec[e].at}
       /\ exec[e].pc = "dispatch" => launched[exec[e].at] = 0

-----------------------------------------------------------------------------
(* The calls and their fields                                               *)

LEMMA FreshRows == Fresh \in Rows /\ \A s \in Steps : SoundRow(Fresh[s])
  BY DEF Fresh, Rows, Row, STATES, ExitCodes, SoundRow, STARTED

LEMMA IdleOk ==
  /\ Idle \in Calls /\ Idle.pc = "idle"
  /\ CallOk(Idle)
  /\ \A file : Backed(Idle, file)
<1>1. Idle \in Calls /\ Idle.pc = "idle" /\ Idle.at = 1
  BY FreshRows, PlanAssumption DEF Idle, Calls
<1>2. Verified(Idle) = {}
  BY <1>1, PlanAssumption DEF Verified, Steps
<1> QED BY <1>1, <1>2 DEF CallOk, Backed, Loaded, Working

LEMMA PastFields ==
  ASSUME NEW call \in Calls, call.at \in Steps
  PROVE  LET next == Past(call) IN
         /\ next \in Calls
         /\ next.pc = "step" /\ next.resume = call.resume /\ next.at = call.at + 1
         /\ next.sure = call.sure /\ next.rows = call.rows
<1>1. call.at + 1 \in 1 .. Length + 1
  BY PlanAssumption DEF Steps
<1> DEFINE next == Past(call)
<1>2. /\ next.pc = "step" /\ next.resume = call.resume /\ next.at = call.at + 1
      /\ next.sure = call.sure /\ next.rows = call.rows
  BY DEF Calls, Past
<1>3. next \in Calls
  <2>1. [call EXCEPT !.pc = "step"] \in Calls
    BY DEF Calls
  <2>2. [[call EXCEPT !.pc = "step"] EXCEPT !.at = call.at + 1] \in Calls
    BY <2>1, <1>1 DEF Calls
  <2> QED BY <1>1, <2>2 DEF Calls, Past
<1> QED BY <1>2, <1>3

(* A call that has settled the step it was at, and goes on to the next.     *)
LEMMA PastOk ==
  ASSUME NEW call \in Calls, CallOk(call), call.pc \in {"step", "ended"}, call.at \in Steps,
         NEW row \in Row, SoundRow(row),
         NEW next \in Calls, next.pc = "step", next.at = call.at + 1,
         next.resume = call.resume, next.rows = [call.rows EXCEPT ![call.at] = row],
         call.sure \subseteq next.sure,
         row.status = "verified" => call.at \in next.sure /\ Needs[call.at] \subseteq Verified(call)
  PROVE  CallOk(next)
<1> DEFINE s == call.at
<1>0. Loaded(call) /\ Steps \subseteq Nat /\ call.rows \in [Steps -> Row]
  BY PlanAssumption DEF Loaded, Steps, Calls, Rows
<1>1. \A t \in Steps : next.rows[t] = IF t = s THEN row ELSE call.rows[t]
  BY <1>0
<1>2. Verified(next) = IF row.status = "verified" THEN Verified(call) \cup {s} ELSE Verified(call)
  <2>1. call.at \in Int /\ \A t \in Steps : t < next.at <=> (t < s \/ t = s)
    <3>1. s \in Nat /\ next.at = s + 1
      BY <1>0
    <3>2. ASSUME NEW t \in Steps
          PROVE  t < next.at <=> (t < s \/ t = s)
      <4>1. t \in Nat
        BY <1>0
      <4> HIDE DEF s
      <4> QED BY ONLY <3>1, <4>1
    <3> QED BY <3>1, <3>2
  <2>2. \A t \in Steps : t \in Verified(next) <=>
          (t \in Verified(call) \/ (t = s /\ row.status = "verified"))
    <3>1. ~(s < s)
      BY <2>1
    <3>2. \A t \in Steps : t \in Verified(next) <=>
            ((t < s \/ t = s) /\ next.rows[t].status = "verified")
      BY <2>1 DEF Verified
    <3>3. \A t \in Steps : t \in Verified(call) <=> (t < s /\ call.rows[t].status = "verified")
      BY DEF Verified
    <3> QED BY <3>1, <3>2, <3>3, <1>1
  <2>3. Verified(next) \subseteq Steps /\ Verified(call) \subseteq Steps
    BY DEF Verified
  <2> QED BY <2>2, <2>3
<1>3. Verified(next) \subseteq next.sure /\ \A t \in Verified(next) : Needs[t] \subseteq Verified(next)
  BY <1>2 DEF CallOk
<1>4. ~next.resume => \A t \in Steps : Ahead(next, t) => ~next.rows[t].started
  <2>1. \A t \in Steps : Ahead(next, t) => t # s /\ Ahead(call, t)
    <3> TAKE t \in Steps
    <3>1. t \in Int /\ s \in Int /\ next.at = s + 1
      BY PlanAssumption DEF Steps
    <3>2. Ahead(next, t) => t > s
      BY <3>1 DEF Ahead
    <3> QED BY <3>1, <3>2 DEF Ahead
  <2> QED BY <2>1, <1>0, <1>1 DEF CallOk
<1>5. \A t \in Steps : SoundRow(next.rows[t])
  BY <1>0, <1>1 DEF CallOk
<1> QED BY <1>3, <1>4, <1>5 DEF CallOk, Working, Loaded

-----------------------------------------------------------------------------
(* Steps of one call                                                        *)

(* Only one call is not idle, and it holds the lock.                        *)
LEMMA Elsewhere ==
  ASSUME PlanInv, NEW e \in Executors, lock = e, NEW k \in Executors, k # e
  PROVE  exec[k] = Idle
  BY DEF PlanInv, CallOk

LEMMA LeaveStep ==
  ASSUME PlanInv, NEW e \in Executors, exec[e].pc # "idle", Leave(e), children' = {},
         holds' = holds, disk' \in Rows \cup {None}, launched' = launched,
         proved' \subseteq Steps, FileOk(disk', launched', proved')
  PROVE  PlanInv'
<1>1. lock = e /\ exec \in [Executors -> Calls] /\ exec' = [exec EXCEPT ![e] = Idle] /\ lock' = None
  BY DEF PlanInv, TypeOK, Leave
<1>2. \A k \in Executors : exec'[k] = Idle
  BY <1>1, Elsewhere
<1>3. TypeOK' /\ NeverRepeated'
  BY <1>1, <1>2, IdleOk DEF PlanInv, TypeOK, NeverRepeated
<1> QED BY <1>1, <1>2, <1>3, IdleOk DEF PlanInv

(* A write of the checkpoint, by the call that is at a step.                *)
LEMMA SaveStep ==
  ASSUME PlanInv, NEW e \in Executors, exec[e].pc \in {"step", "ended"},
         NEW next \in Calls, CallOk(next), next.pc \in {"step", "dispatch"}, Save(e, next),
         holds' = holds, children' = children, launched' = launched,
         proved \subseteq proved', proved' \subseteq Steps,
         \A s \in Steps : next.rows[s].status = "verified" => s \in proved',
         \A s \in Steps : exec[e].rows[s].started => next.rows[s].started,
         next.pc = "dispatch" => launched[next.at] = 0
  PROVE  PlanInv'
<1>1. /\ lock = e /\ children = {} /\ exec \in [Executors -> Calls]
      /\ disk \in Rows \cup {None} /\ exec[e] \in Calls
      /\ Backed(exec[e], disk) /\ FileOk(disk, launched, proved)
  BY DEF PlanInv, TypeOK
<1>2. CASE UNCHANGED disk /\ Leave(e)
  <2>1. FileOk(disk', launched', proved')
    BY <1>1, <1>2 DEF FileOk
  <2> QED BY <1>1, <1>2, <2>1, LeaveStep
<1>3. CASE /\ disk' = next.rows /\ exec' = [exec EXCEPT ![e] = next] /\ UNCHANGED lock
  <2>1. next.rows \in Rows /\ next.rows # None
    BY NoneAssumption DEF Calls
  <2>2. exec'[e] = next /\ \A k \in Executors : k # e => exec'[k] = Idle
    BY <1>1, <1>3, Elsewhere
  <2>3. TypeOK' /\ NeverRepeated'
    BY <1>1, <1>3, <2>1 DEF PlanInv, TypeOK, NeverRepeated
  <2>4. FileOk(disk', launched', proved')
    <3>1. \A s \in Steps : SoundRow(next.rows[s])
      BY DEF CallOk, Loaded
    <3>2. ASSUME NEW s \in Steps, launched[s] > 0
          PROVE  next.rows[s].started /\ Needs[s] \subseteq proved'
      <4>1. disk # None /\ disk[s].started /\ Needs[s] \subseteq proved
        BY <1>1, <3>2 DEF FileOk
      <4>2. disk = exec[e].rows
        BY <1>1, <4>1 DEF Backed, Loaded
      <4> QED BY <4>1, <4>2
    <3> QED BY <1>3, <2>1, <3>1, <3>2 DEF FileOk
  <2>5. \A k \in Executors :
          /\ CallOk(exec'[k]) /\ Backed(exec'[k], disk')
          /\ exec'[k].pc # "idle" => lock' = k
          /\ exec'[k].pc \notin {"idle", "running"} => children' = {}
          /\ exec'[k].pc = "running" => children' \subseteq {exec'[k].at}
          /\ exec'[k].pc = "dispatch" => launched'[exec'[k].at] = 0
    <3>1. Backed(next, disk')
      BY <1>3 DEF Backed
    <3> QED BY <1>1, <1>3, <2>2, <3>1, IdleOk
  <2>6. lock' = None => children' = {}
    BY <1>1, <1>3
  <2> QED BY <2>3, <2>4, <2>5, <2>6 DEF PlanInv
<1> QED BY <1>2, <1>3 DEF Save

(* A call that changes by itself: nothing is written.                       *)
LEMMA CallStep ==
  ASSUME PlanInv, NEW e \in Executors, lock' = e, lock \in {e, None},
         NEW next \in Calls, next.pc # "idle", exec' = [exec EXCEPT ![e] = next],
         CallOk(next), Backed(next, disk'), children' \subseteq Steps, launched' \in [Steps -> Nat],
         UNCHANGED <<holds, disk, proved>>,
         NeverRepeated', FileOk(disk', launched', proved'),
         next.pc \notin {"idle", "running"} => children' = {},
         next.pc = "running" => children' \subseteq {next.at},
         next.pc = "dispatch" => launched'[next.at] = 0
  PROVE  PlanInv'
<1>1. exec \in [Executors -> Calls] /\ \A k \in Executors : k # e => exec[k] = Idle
  <2>1. \A k \in Executors : k # e => exec[k].pc = "idle"
    BY PlanAssumption DEF PlanInv
  <2> QED BY <2>1 DEF PlanInv, TypeOK, CallOk
<1>2. exec'[e] = next /\ \A k \in Executors : k # e => exec'[k] = Idle
  BY <1>1
<1>3. TypeOK'
  BY <1>1 DEF PlanInv, TypeOK
<1>4. \A k \in Executors :
        /\ CallOk(exec'[k]) /\ Backed(exec'[k], disk')
        /\ exec'[k].pc # "idle" => lock' = k
        /\ exec'[k].pc \notin {"idle", "running"} => children' = {}
        /\ exec'[k].pc = "running" => children' \subseteq {exec'[k].at}
        /\ exec'[k].pc = "dispatch" => launched'[exec'[k].at] = 0
  BY <1>2, IdleOk
<1> QED BY <1>3, <1>4, PlanAssumption DEF PlanInv

-----------------------------------------------------------------------------
(* Every action keeps the invariant                                         *)

LEMMA CallFacts ==
  ASSUME PlanInv, NEW e \in Executors
  PROVE  /\ exec[e] \in Calls /\ CallOk(exec[e]) /\ Backed(exec[e], disk)
         /\ disk \in Rows \cup {None} /\ proved \subseteq Steps
         /\ children \subseteq Steps /\ launched \in [Steps -> Nat]
         /\ FileOk(disk, launched, proved) /\ NeverRepeated
         /\ exec[e].pc # "idle" => lock = e
         /\ exec[e].pc \notin {"idle", "running"} => children = {}
         /\ exec[e].pc = "running" => children \subseteq {exec[e].at}
         /\ exec[e].pc = "dispatch" => launched[exec[e].at] = 0
  BY DEF PlanInv, TypeOK

(* The rows of a loaded call vouch for what they call verified.             *)
LEMMA RowsProved ==
  ASSUME PlanInv, NEW e \in Executors, Loaded(exec[e])
  PROVE  \A s \in Steps : exec[e].rows[s].status = "verified" => s \in proved
<1>1. CASE disk = exec[e].rows
  <2>1. disk # None
    BY <1>1, CallFacts, NoneAssumption DEF Calls
  <2> QED BY <1>1, <2>1, CallFacts DEF FileOk
<1>2. CASE exec[e].rows = Fresh
  BY <1>2 DEF Fresh
<1> QED BY <1>1, <1>2, CallFacts DEF Backed

LEMMA BeginInv ==
  ASSUME PlanInv, NEW e \in Executors, NEW resume \in BOOLEAN, NEW confirm \in BOOLEAN,
         Begin(e, resume, confirm)
  PROVE  PlanInv'
<1> DEFINE next == [Idle EXCEPT !.pc = "locked", !.resume = resume, !.confirm = confirm]
<1>1. next \in Calls /\ next.pc = "locked" /\ next.at = 1
  BY IdleOk DEF Calls, Idle
<1>2. Verified(next) = {}
  BY <1>1, PlanAssumption DEF Verified, Steps
<1>3. CallOk(next) /\ Backed(next, disk')
  BY <1>1, <1>2 DEF CallOk, Backed, Loaded, Working
<1>4. children = {}
  BY DEF PlanInv, Begin
<1>5. NeverRepeated' /\ FileOk(disk', launched', proved')
  BY CallFacts DEF NeverRepeated, FileOk, Begin
<1> HIDE DEF next
<1> QED
  BY <1>1, <1>3, <1>4, <1>5, CallStep, CallFacts DEF Begin, next

LEMMA LoadInv ==
  ASSUME PlanInv, NEW e \in Executors, Load(e)
  PROVE  PlanInv'
<1> DEFINE rows == IF exec[e].resume THEN disk ELSE Fresh
           next == [exec[e] EXCEPT !.pc = "step", !.rows = rows]
<1>0. exec[e].pc = "locked" /\ exec[e].at = 1 /\ Accepts(e)
  BY CallFacts DEF Load, CallOk
<1>1. rows \in Rows /\ \A s \in Steps : SoundRow(rows[s])
  BY <1>0, FreshRows, CallFacts DEF Accepts, FileOk
<1>2. /\ next \in Calls /\ next.pc = "step" /\ next.at = 1 /\ next.rows = rows
      /\ next.resume = exec[e].resume
  BY <1>0, <1>1, CallFacts, ZenonT(30) DEF Calls
<1>3. exec' = [exec EXCEPT ![e] = next]
  BY CallFacts DEF Load, PlanInv, TypeOK, Calls
<1>4. Verified(next) = {}
  BY <1>2, PlanAssumption DEF Verified, Steps
<1>5. Backed(next, disk')
  BY <1>0, <1>2 DEF Backed, Working, Load, Accepts
<1>6. ~next.resume => \A s \in Steps : ~next.rows[s].started
  BY <1>2 DEF Fresh
<1>7. CallOk(next)
  BY <1>1, <1>2, <1>4, <1>6 DEF CallOk, Loaded, Working
<1>8. NeverRepeated' /\ FileOk(disk', launched', proved')
  BY CallFacts DEF NeverRepeated, FileOk, Load
<1> HIDE DEF next, rows
<1> QED
  BY <1>0, <1>2, <1>3, <1>5, <1>7, <1>8, CallStep, CallFacts DEF Load

LEMMA RefuseInv ==
  ASSUME PlanInv, NEW e \in Executors, Refuse(e)
  PROVE  PlanInv'
<1>1. FileOk(disk', launched', proved')
  BY CallFacts DEF FileOk, Refuse
<1> QED BY <1>1, LeaveStep, CallFacts DEF Refuse

LEMMA QuitInv ==
  ASSUME PlanInv, NEW e \in Executors, Quit(e)
  PROVE  PlanInv'
<1>1. FileOk(disk', launched', proved')
  BY CallFacts DEF FileOk, Quit
<1> QED BY <1>1, LeaveStep, CallFacts DEF Quit

LEMMA FinishInv ==
  ASSUME PlanInv, NEW e \in Executors, Finish(e)
  PROVE  PlanInv'
<1>1. exec[e].rows \in Rows /\ exec[e].rows # None /\ Loaded(exec[e])
  BY CallFacts, NoneAssumption DEF Calls, Finish, Loaded
<1>2. \A s \in Steps : launched[s] > 0 => exec[e].rows[s].started /\ Needs[s] \subseteq proved
  <2>1. CASE disk = exec[e].rows
    BY <2>1, CallFacts DEF FileOk
  <2>2. CASE disk = None
    BY <2>2, CallFacts DEF FileOk
  <2> QED BY <1>1, <2>1, <2>2, CallFacts DEF Backed
<1>3. FileOk(exec[e].rows, launched, proved)
  BY <1>1, <1>2, RowsProved, CallFacts DEF FileOk, CallOk
<1>4. FileOk(disk', launched', proved')
  BY <1>3, CallFacts DEF FileOk, Finish
<1> QED BY <1>1, <1>4, LeaveStep, CallFacts DEF Finish

(* What the two kinds of settled steps have in common.                      *)
LEMMA SettleInv ==
  ASSUME PlanInv, NEW e \in Executors, exec[e].pc \in {"step", "ended"}, exec[e].at \in Steps,
         NEW row \in Row, SoundRow(row), exec[e].rows[exec[e].at].started => row.started,
         NEW sure \in SUBSET Steps, exec[e].sure \subseteq sure,
         NEW mid \in Calls, mid.at = exec[e].at, mid.resume = exec[e].resume, mid.sure = sure,
         mid.rows = [exec[e].rows EXCEPT ![exec[e].at] = row],
         row.status = "verified" =>
           exec[e].at \in sure /\ Needs[exec[e].at] \subseteq Verified(exec[e])
             /\ exec[e].at \in proved',
         Save(e, Past(mid)),
         UNCHANGED <<holds, children, launched>>, proved \subseteq proved', proved' \subseteq Steps
  PROVE  PlanInv'
<1> DEFINE next == Past(mid)
<1>1. /\ next \in Calls /\ next.pc = "step" /\ next.resume = exec[e].resume
      /\ next.at = exec[e].at + 1 /\ next.sure = sure /\ next.rows = mid.rows
  BY PastFields
<1> HIDE DEF next
<1>2. CallOk(next)
  BY <1>1, PastOk, CallFacts
<1>3. \A s \in Steps : next.rows[s] = IF s = exec[e].at THEN row ELSE exec[e].rows[s]
  BY <1>1, CallFacts DEF Calls, Rows
<1>4. /\ \A s \in Steps : next.rows[s].status = "verified" => s \in proved'
      /\ \A s \in Steps : exec[e].rows[s].started => next.rows[s].started
  BY <1>3, RowsProved DEF Loaded
<1>5. Save(e, next)
  BY DEF next
<1> QED BY <1>1, <1>2, <1>4, <1>5, SaveStep

LEMMA RowFacts ==
  ASSUME PlanInv, NEW e \in Executors, NEW s \in Steps, exec[e].at = s
  PROVE  /\ exec[e].rows[s] \in Row
         /\ \A status \in STATES :
              /\ Is(e, s, status) \in Row /\ Is(e, s, status).status = status
              /\ Is(e, s, status).started = exec[e].rows[s].started
              /\ Is(e, s, status).exit_code = exec[e].rows[s].exit_code
         /\ \A status \in STATES, code \in ExitCodes \cup {None} :
              /\ Ended(e, s, status, code) \in Row
              /\ Ended(e, s, status, code).status = status
              /\ Ended(e, s, status, code).started = exec[e].rows[s].started
              /\ Ended(e, s, status, code).exit_code = code
         /\ exec[e].sure \subseteq Sure(e, s) /\ Sure(e, s) \subseteq Steps
         /\ Evidence(s) => s \in Sure(e, s)
<1>1. exec[e].rows[s] \in Row /\ exec[e].sure \subseteq Steps
  BY CallFacts DEF Calls, Rows
<1>2. \A status \in STATES :
        /\ Is(e, s, status) \in Row /\ Is(e, s, status).status = status
        /\ Is(e, s, status).started = exec[e].rows[s].started
        /\ Is(e, s, status).exit_code = exec[e].rows[s].exit_code
  BY <1>1 DEF Is, Row
<1>3. \A status \in STATES, code \in ExitCodes \cup {None} :
        /\ Ended(e, s, status, code) \in Row
        /\ Ended(e, s, status, code).status = status
        /\ Ended(e, s, status, code).started = exec[e].rows[s].started
        /\ Ended(e, s, status, code).exit_code = code
  BY <1>2 DEF Ended, Row
<1> QED BY <1>1, <1>2, <1>3 DEF Sure

LEMMA NotedCall ==
  ASSUME PlanInv, NEW e \in Executors, exec[e].at \in Steps, NEW row \in Row
  PROVE  /\ Noted(e, row) \in Calls
         /\ Noted(e, row).pc = exec[e].pc /\ Noted(e, row).resume = exec[e].resume
         /\ Noted(e, row).at = exec[e].at /\ Noted(e, row).sure = exec[e].sure
         /\ Noted(e, row).rows = [exec[e].rows EXCEPT ![exec[e].at] = row]
<1>1. exec[e] \in Calls
  BY CallFacts
<1>2. [exec[e].rows EXCEPT ![exec[e].at] = row] \in Rows
  BY <1>1 DEF Calls, Rows
<1> QED BY <1>1, <1>2 DEF Calls, Noted

LEMMA ReuseInv ==
  ASSUME PlanInv, NEW e \in Executors, Reuse(e)
  PROVE  PlanInv'
<1>1. PICK s \in Steps :
        /\ Looks(e, s) /\ Again(e, s)
        /\ Save(e, Past([Noted(e, Is(e, s, Resettled(e, s))) EXCEPT !.sure = Sure(e, s)]))
        /\ UNCHANGED <<holds, children, launched, proved>>
  BY DEF Reuse
<1> DEFINE row == Is(e, s, Resettled(e, s))
           mid == [Noted(e, row) EXCEPT !.sure = Sure(e, s)]
<1>2. exec[e].pc = "step" /\ exec[e].at = s /\ exec[e].rows[s].started
  BY <1>1 DEF Looks, Again
<1>3. Resettled(e, s) \in {"verified", "stale", "uncertain"} /\ Resettled(e, s) \in STATES
  BY DEF Resettled, STATES
<1>4. row \in Row /\ row.status = Resettled(e, s) /\ row.started
      /\ row.exit_code = exec[e].rows[s].exit_code
  BY <1>2, <1>3, RowFacts
<1>5. SoundRow(exec[e].rows[s])
  BY <1>2, CallFacts DEF CallOk, Loaded
<1>6. SoundRow(row)
  BY <1>3, <1>4, <1>5 DEF SoundRow, STARTED, Resettled
<1>7. Sure(e, s) \subseteq Steps /\ exec[e].sure \subseteq Sure(e, s) /\ (Evidence(s) => s \in Sure(e, s))
  BY <1>2, RowFacts
<1>8. /\ mid \in Calls /\ mid.at = s /\ mid.resume = exec[e].resume /\ mid.sure = Sure(e, s)
      /\ mid.rows = [exec[e].rows EXCEPT ![s] = row]
  <2>1. /\ Noted(e, row) \in Calls
        /\ Noted(e, row).resume = exec[e].resume
        /\ Noted(e, row).at = exec[e].at
        /\ Noted(e, row).rows = [exec[e].rows EXCEPT ![exec[e].at] = row]
    BY <1>2, <1>4, NotedCall
  <2> HIDE DEF row
  <2> QED BY <1>2, <1>7, <2>1 DEF Calls
<1>9. row.status = "verified" => s \in Sure(e, s) /\ Needs[s] \subseteq Verified(exec[e]) /\ s \in proved'
  <2> SUFFICES ASSUME row.status = "verified"
               PROVE  s \in Sure(e, s) /\ Needs[s] \subseteq Verified(exec[e]) /\ s \in proved'
    OBVIOUS
  <2>1. Rechecked(e, s) /\ exec[e].rows[s].status = "verified"
    BY <1>4 DEF Resettled
  <2>2. s \in proved
    BY <1>2, <2>1, RowsProved DEF Loaded
  <2>3. Needs[s] \subseteq Verified(exec[e])
    BY <1>2, <2>1, PlanAssumption DEF Rechecked, Available, Verified
  <2> QED BY <1>1, <1>7, <2>1, <2>2, <2>3 DEF Rechecked
<1>10. Save(e, Past(mid)) /\ UNCHANGED <<holds, children, launched, proved>>
  BY <1>1
<1> HIDE DEF row, mid
<1> QED
  BY <1>2, <1>4, <1>6, <1>7, <1>8, <1>9, <1>10, SettleInv, CallFacts

LEMMA PassInv ==
  ASSUME PlanInv, NEW e \in Executors, Pass(e)
  PROVE  PlanInv'
<1> DEFINE held(s) == IF Class[s] = "NEEDS_ARGS" THEN "skipped" ELSE "blocked"
<1>1. PICK s \in Steps :
        /\ Looks(e, s) /\ ~Again(e, s)
        /\ Save(e, Past(Noted(e, Is(e, s, held(s)))))
        /\ UNCHANGED <<holds, children, launched, proved>>
  BY DEF Pass
<1> DEFINE row == Is(e, s, held(s))
           mid == Noted(e, row)
<1>2. exec[e].pc = "step" /\ exec[e].at = s
  BY <1>1 DEF Looks
<1>3. ~exec[e].rows[s].started
  BY <1>1, <1>2, CallFacts DEF Again, CallOk, Loaded, Ahead
<1>4. held(s) \in {"skipped", "blocked"} /\ held(s) \in STATES
  BY DEF STATES
<1> HIDE DEF held
<1>5. row \in Row /\ row.status = held(s) /\ ~row.started
  BY <1>2, <1>3, <1>4, RowFacts
<1>6. SoundRow(row) /\ row.status # "verified"
  BY <1>4, <1>5 DEF SoundRow, STARTED
<1>7. /\ mid \in Calls /\ mid.at = s /\ mid.resume = exec[e].resume /\ mid.sure = exec[e].sure
      /\ mid.rows = [exec[e].rows EXCEPT ![s] = row]
  BY <1>2, <1>5, NotedCall
<1>8. exec[e].sure \subseteq Steps
  BY CallFacts DEF Calls
<1>10. Save(e, Past(mid)) /\ UNCHANGED <<holds, children, launched, proved>>
  BY <1>1
<1> HIDE DEF row, mid
<1> QED
  BY <1>2, <1>3, <1>5, <1>6, <1>7, <1>8, <1>10, SettleInv, CallFacts, SMTT(30)

LEMMA StartInv ==
  ASSUME PlanInv, NEW e \in Executors, Start(e)
  PROVE  PlanInv'
<1>1. PICK s \in Steps :
        /\ Looks(e, s) /\ ~Again(e, s) /\ Available(exec[e].rows, s)
        /\ Save(e, Dispatching(e, s))
        /\ UNCHANGED <<holds, children, launched, proved>>
  BY DEF Start
<1> DEFINE row == [Is(e, s, "running") EXCEPT !.started = TRUE]
           mid == Noted(e, row)
           next == [mid EXCEPT !.pc = "dispatch"]
<1>2. exec[e].pc = "step" /\ exec[e].at = s /\ Loaded(exec[e])
  BY <1>1 DEF Looks, Loaded
<1>3. ~exec[e].rows[s].started
  BY <1>1, <1>2, CallFacts DEF Again, CallOk, Ahead
<1>4. row \in Row /\ row.status = "running" /\ row.started /\ SoundRow(row)
  <2>1. "running" \in STATES
    BY DEF STATES
  <2>2. Is(e, s, "running") \in Row /\ Is(e, s, "running").status = "running"
    BY <1>2, <2>1, RowFacts
  <2>3. row \in Row /\ row.status = "running" /\ row.started
    BY <2>2 DEF Row
  <2> HIDE DEF row
  <2> QED BY <2>3 DEF SoundRow, STARTED
<1> HIDE DEF row
<1>5. /\ mid \in Calls /\ mid.at = s /\ mid.resume = exec[e].resume /\ mid.sure = exec[e].sure
      /\ mid.rows = [exec[e].rows EXCEPT ![s] = row]
  BY <1>2, <1>4, NotedCall
<1> HIDE DEF mid
<1>6. /\ next \in Calls /\ next.pc = "dispatch" /\ next.at = s /\ next.resume = exec[e].resume
      /\ next.sure = exec[e].sure /\ next.rows = [exec[e].rows EXCEPT ![s] = row]
  BY <1>5 DEF Calls
<1> HIDE DEF next
<1>7. \A t \in Steps : next.rows[t] = IF t = s THEN row ELSE exec[e].rows[t]
  BY <1>6, CallFacts DEF Calls, Rows
<1>8. Verified(next) = Verified(exec[e])
  <2>1. ~(s < s)
    BY PlanAssumption DEF Steps
  <2> QED BY <1>2, <1>6, <1>7, <2>1 DEF Verified
<1>9. Needs[s] \subseteq Verified(exec[e])
  BY <1>1, <1>2, PlanAssumption DEF Available, Verified
<1>10. CallOk(next)
  <2>1. ~next.resume => \A t \in Steps : Ahead(next, t) => ~next.rows[t].started
    <3>1. \A t \in Steps : Ahead(next, t) => t # s /\ Ahead(exec[e], t)
      BY <1>2, <1>6, PlanAssumption DEF Ahead, Steps
    <3> QED BY <1>2, <1>6, <1>7, <3>1, CallFacts DEF CallOk
  <2>2. \A t \in Steps : SoundRow(next.rows[t])
    BY <1>2, <1>4, <1>7, CallFacts DEF CallOk
  <2>3. /\ Verified(next) \subseteq next.sure
        /\ \A t \in Verified(next) : Needs[t] \subseteq Verified(next)
    BY <1>6, <1>8, CallFacts DEF CallOk
  <2> QED BY <1>4, <1>6, <1>7, <1>8, <1>9, <2>1, <2>2, <2>3 DEF CallOk
<1>11. launched[s] = 0
  <2>1. ~(launched[s] > 0)
    <3>1. launched[s] > 0 => disk # None /\ disk[s].started
      BY CallFacts DEF FileOk
    <3> QED BY <1>2, <1>3, <3>1, CallFacts DEF Backed
  <2> QED BY <2>1, CallFacts
<1>12. /\ \A t \in Steps : next.rows[t].status = "verified" => t \in proved'
       /\ \A t \in Steps : exec[e].rows[t].started => next.rows[t].started
  BY <1>1, <1>2, <1>4, <1>7, RowsProved
<1>13. Save(e, next)
  BY <1>1 DEF Dispatching, next, mid, row
<1> QED BY <1>1, <1>2, <1>6, <1>10, <1>11, <1>12, <1>13, SaveStep, CallFacts

LEMMA ConcludeInv ==
  ASSUME PlanInv, NEW e \in Executors, Conclude(e)
  PROVE  PlanInv'
<1>1. PICK s \in Steps :
        /\ exec[e].pc = "ended" /\ exec[e].at = s
        /\ Save(e, Past([Noted(e, Ended(e, s, Outcome(e, s), exec[e].code)) EXCEPT
                           !.sure = Sure(e, s)]))
        /\ proved' = IF exec[e].code = 0 /\ Evidence(s) THEN proved \cup {s} ELSE proved
        /\ UNCHANGED <<holds, children, launched>>
  BY DEF Conclude
<1> DEFINE row == Ended(e, s, Outcome(e, s), exec[e].code)
           mid == [Noted(e, row) EXCEPT !.sure = Sure(e, s)]
<1>2. exec[e].rows[s].status = "running" /\ Needs[s] \subseteq Verified(exec[e])
      /\ SoundRow(exec[e].rows[s])
  BY <1>1, CallFacts DEF CallOk, Working, Loaded
<1>3. /\ Outcome(e, s) \in {"uncertain", "failed", "verified", "unverified"}
      /\ Outcome(e, s) = "verified" => exec[e].code = 0 /\ Evidence(s)
      /\ exec[e].code \in ExitCodes \cup {None}
  BY CallFacts DEF Outcome, Calls
<1>4. row \in Row /\ row.status = Outcome(e, s) /\ row.started
      /\ row.exit_code = exec[e].code
  <2>1. Outcome(e, s) \in STATES
    BY <1>3 DEF STATES
  <2>2. exec[e].rows[s].started
    BY <1>2 DEF SoundRow, STARTED
  <2> QED BY <1>1, <1>3, <2>1, <2>2, RowFacts
<1>5. SoundRow(row)
  BY <1>3, <1>4 DEF SoundRow, STARTED
<1>6. Sure(e, s) \subseteq Steps /\ exec[e].sure \subseteq Sure(e, s) /\ (Evidence(s) => s \in Sure(e, s))
  BY <1>1, RowFacts
<1>7. /\ mid \in Calls /\ mid.at = s /\ mid.resume = exec[e].resume /\ mid.sure = Sure(e, s)
      /\ mid.rows = [exec[e].rows EXCEPT ![s] = row]
  <2>1. /\ Noted(e, row) \in Calls
        /\ Noted(e, row).resume = exec[e].resume
        /\ Noted(e, row).at = exec[e].at
        /\ Noted(e, row).rows = [exec[e].rows EXCEPT ![exec[e].at] = row]
    BY <1>1, <1>4, NotedCall
  <2> HIDE DEF row
  <2> QED BY <1>1, <1>6, <2>1 DEF Calls
<1>8. row.status = "verified" => s \in Sure(e, s) /\ Needs[s] \subseteq Verified(exec[e]) /\ s \in proved'
  BY <1>1, <1>2, <1>3, <1>4, <1>6
<1>9. proved \subseteq proved' /\ proved' \subseteq Steps
  BY <1>1, CallFacts
<1>10. Save(e, Past(mid))
  BY <1>1
<1> HIDE DEF row, mid
<1> QED
  BY <1>1, <1>4, <1>5, <1>6, <1>7, <1>8, <1>9, <1>10, SettleInv, CallFacts, SMTT(30)

LEMMA InterruptInv ==
  ASSUME PlanInv, NEW e \in Executors, Interrupt(e)
  PROVE  PlanInv'
<1>1. PICK s \in Steps :
        /\ exec[e].pc \in {"dispatch", "running"} /\ exec[e].at = s
        /\ disk' \in {disk, Noted(e, Ended(e, s, "uncertain", -1)).rows}
        /\ children' = children \ {s} /\ Leave(e)
        /\ UNCHANGED <<holds, launched, proved>>
  BY DEF Interrupt
<1> DEFINE row == Ended(e, s, "uncertain", -1)
<1>2. disk = exec[e].rows /\ exec[e].rows[s].started /\ \A t \in Steps : SoundRow(exec[e].rows[t])
  <2>1. exec[e].rows[s].status = "running" /\ \A t \in Steps : SoundRow(exec[e].rows[t])
    BY <1>1, CallFacts DEF CallOk, Working, Loaded
  <2> QED BY <1>1, <2>1, CallFacts DEF Backed, Working, SoundRow, STARTED
<1>3. row \in Row /\ row.status = "uncertain" /\ row.started /\ SoundRow(row)
  <2>1. "uncertain" \in STATES /\ -1 \in ExitCodes
    BY DEF STATES, ExitCodes
  <2>2. row \in Row /\ row.status = "uncertain" /\ row.started
    BY <1>1, <1>2, <2>1, RowFacts
  <2> HIDE DEF row
  <2> QED BY <2>2 DEF SoundRow, STARTED
<1> HIDE DEF row
<1>4. Noted(e, row).rows = [exec[e].rows EXCEPT ![s] = row] /\ Noted(e, row).rows \in Rows
  BY <1>1, <1>3, NotedCall DEF Calls
<1>5. \A t \in Steps : Noted(e, row).rows[t] = IF t = s THEN row ELSE exec[e].rows[t]
  BY <1>4, CallFacts DEF Calls, Rows
<1>6. FileOk(Noted(e, row).rows, launched, proved)
  <2>1. Noted(e, row).rows # None /\ disk # None
    BY <1>2, <1>4, CallFacts, NoneAssumption DEF Calls
  <2> HIDE DEF Noted
  <2> QED BY <1>2, <1>3, <1>5, <2>1, CallFacts DEF FileOk
<1>7. FileOk(disk', launched', proved') /\ disk' \in Rows \cup {None}
  BY <1>1, <1>4, <1>6, CallFacts DEF row
<1>8. children' = {}
  BY <1>1, CallFacts
<1> QED BY <1>1, <1>7, <1>8, LeaveStep, CallFacts

LEMMA LaunchInv ==
  ASSUME PlanInv, NEW e \in Executors, Launch(e)
  PROVE  PlanInv'
<1>1. PICK s \in Steps :
        /\ exec[e].pc = "dispatch" /\ exec[e].at = s
        /\ exec' = [exec EXCEPT ![e].pc = "running"]
        /\ children' = children \cup {s}
        /\ launched' = [launched EXCEPT ![s] = @ + 1]
        /\ UNCHANGED <<holds, disk, lock, proved>>
  BY DEF Launch
<1> DEFINE next == [exec[e] EXCEPT !.pc = "running"]
<1>2. /\ next \in Calls /\ next.pc = "running" /\ next.at = s /\ next.rows = exec[e].rows
      /\ next.resume = exec[e].resume /\ next.sure = exec[e].sure
  BY <1>1, CallFacts DEF Calls
<1>3. exec' = [exec EXCEPT ![e] = next]
  BY <1>1
<1> HIDE DEF next
<1>4. Verified(next) = Verified(exec[e])
  BY <1>1, <1>2 DEF Verified
<1>5. CallOk(next) /\ Backed(next, disk')
  BY <1>1, <1>2, <1>4, CallFacts DEF CallOk, Backed, Loaded, Working, Ahead
<1>6. disk = exec[e].rows /\ disk # None /\ disk[s].started /\ Needs[s] \subseteq proved
  <2>1. disk = exec[e].rows /\ disk # None
    BY <1>1, CallFacts, NoneAssumption DEF Backed, Working, Calls
  <2>2. disk[s].started
    BY <1>1, <2>1, CallFacts DEF CallOk, Working, Loaded, SoundRow, STARTED
  <2>3. \A t \in Verified(exec[e]) : t \in proved
    BY <1>1, RowsProved DEF Verified, Loaded
  <2> QED BY <1>1, <2>1, <2>2, <2>3, CallFacts DEF CallOk, Working
<1>7. launched' \in [Steps -> Nat] /\ \A t \in Steps : launched'[t] = IF t = s THEN 1 ELSE launched[t]
  BY <1>1, CallFacts
<1>8. NeverRepeated'
  BY <1>7, CallFacts DEF NeverRepeated
<1>9. FileOk(disk', launched', proved')
  BY <1>1, <1>6, <1>7, CallFacts DEF FileOk
<1>10. children' = {s}
  BY <1>1, CallFacts
<1> QED BY <1>1, <1>2, <1>3, <1>5, <1>7, <1>8, <1>9, <1>10, CallStep, CallFacts, ZenonT(30)

(* A command that is over, whatever the reason.                             *)
LEMMA OverInv ==
  ASSUME PlanInv, NEW e \in Executors, exec[e].pc \in {"dispatch", "running"},
         NEW code \in ExitCodes,
         exec' = [exec EXCEPT ![e] = [exec[e] EXCEPT !.pc = "ended", !.code = code]],
         children' = children \ {exec[e].at},
         UNCHANGED <<holds, disk, lock, launched, proved>>
  PROVE  PlanInv'
<1> DEFINE next == [exec[e] EXCEPT !.pc = "ended", !.code = code]
<1>1. /\ next \in Calls /\ next.pc = "ended" /\ next.at = exec[e].at
      /\ next.rows = exec[e].rows /\ next.resume = exec[e].resume /\ next.sure = exec[e].sure
  BY CallFacts DEF Calls
<1>2. exec' = [exec EXCEPT ![e] = next]
  OBVIOUS
<1> HIDE DEF next
<1>3. Verified(next) = Verified(exec[e])
  BY <1>1 DEF Verified
<1>4. CallOk(next) /\ Backed(next, disk')
  BY <1>1, <1>3, CallFacts DEF CallOk, Backed, Loaded, Working, Ahead
<1>5. NeverRepeated' /\ FileOk(disk', launched', proved')
  BY CallFacts DEF NeverRepeated, FileOk
<1>6. children' = {}
  BY CallFacts
<1> QED BY <1>1, <1>2, <1>4, <1>5, <1>6, CallStep, CallFacts

LEMMA GivesUpInv ==
  ASSUME PlanInv, NEW e \in Executors, GivesUp(e)
  PROVE  PlanInv'
<1>1. exec' = [exec EXCEPT ![e] = [exec[e] EXCEPT !.pc = "ended", !.code = -1]]
  BY DEF GivesUp
<1>2. -1 \in ExitCodes
  BY DEF ExitCodes
<1> QED BY <1>1, <1>2, OverInv DEF GivesUp

LEMMA KillInv ==
  ASSUME PlanInv, NEW e \in Executors, Kill(e)
  PROVE  PlanInv'
<1>1. lock = e /\ lock # None
  BY CallFacts, PlanAssumption DEF Kill
<1>2. \A k \in Executors : exec'[k] = Idle
  BY <1>1, Elsewhere DEF Kill, PlanInv, TypeOK
<1>3. TypeOK' /\ NeverRepeated' /\ FileOk(disk', launched', proved')
  BY IdleOk, CallFacts DEF PlanInv, TypeOK, NeverRepeated, FileOk, Kill
<1> QED BY <1>1, <1>2, <1>3, IdleOk DEF PlanInv, Kill

(* The command of a live call, or one whose call was killed.                *)
LEMMA ChildEndsInv ==
  ASSUME PlanInv, NEW s \in Steps, ChildEnds(s)
  PROVE  PlanInv'
<1>1. PICK code \in ExitCodes :
        /\ s \in children /\ children' = children \ {s}
        /\ exec' = [e \in Executors |->
                     IF exec[e].pc = "running" /\ exec[e].at = s
                     THEN [exec[e] EXCEPT !.pc = "ended", !.code = code] ELSE exec[e]]
        /\ UNCHANGED <<holds, disk, lock, launched, proved>>
  BY DEF ChildEnds
<1>2. exec \in [Executors -> Calls]
  BY DEF PlanInv, TypeOK
<1>3. CASE \E e \in Executors : exec[e].pc # "idle"
  <2>1. PICK e \in Executors : exec[e].pc # "idle"
    BY <1>3
  <2>2. lock = e /\ exec[e].pc = "running" /\ exec[e].at = s
    BY <1>1, <2>1, CallFacts
  <2>3. \A k \in Executors : k # e => exec[k].pc = "idle"
    BY <2>2, Elsewhere, IdleOk
  <2>4. exec' = [exec EXCEPT ![e] = [exec[e] EXCEPT !.pc = "ended", !.code = code]]
    BY <1>1, <1>2, <2>2, <2>3
  <2> QED BY <1>1, <2>2, <2>4, OverInv
<1>4. CASE \A e \in Executors : exec[e].pc = "idle"
  <2>1. exec' = exec
    BY <1>1, <1>2, <1>4
  <2>2. TypeOK' /\ NeverRepeated' /\ FileOk(disk', launched', proved')
    BY <1>1, <2>1 DEF PlanInv, TypeOK, NeverRepeated, FileOk
  <2>3. \A e \in Executors : CallOk(exec'[e]) /\ Backed(exec'[e], disk')
    BY <1>1, <2>1, CallFacts DEF Backed
  <2> QED BY <1>1, <1>4, <2>1, <2>2, <2>3 DEF PlanInv
<1> QED BY <1>3, <1>4

LEMMA AroundInv ==
  ASSUME PlanInv, FilesChange \/ RemoveLock
  PROVE  PlanInv'
<1>1. CASE FilesChange
  <2>1. UNCHANGED <<disk, lock, exec, children, launched, proved>> /\ holds' \subseteq Checks
    BY <1>1, PlanAssumption DEF FilesChange, PlanInv, TypeOK
  <2>2. TypeOK' /\ NeverRepeated' /\ FileOk(disk', launched', proved')
    BY <2>1 DEF PlanInv, TypeOK, NeverRepeated, FileOk
  <2>3. \A e \in Executors : CallOk(exec'[e]) /\ Backed(exec'[e], disk')
    BY <2>1, CallFacts DEF Backed
  <2> QED BY <2>1, <2>2, <2>3 DEF PlanInv
<1>2. CASE RemoveLock
  <2>1. /\ lock \in Executors /\ exec[lock].pc = "idle" /\ children = {} /\ lock' = None
        /\ UNCHANGED <<holds, disk, exec, children, launched, proved>>
    BY <1>2 DEF RemoveLock
  <2>2. \A e \in Executors : exec[e].pc = "idle"
    BY <2>1, CallFacts
  <2>3. TypeOK' /\ NeverRepeated' /\ FileOk(disk', launched', proved')
    BY <2>1 DEF PlanInv, TypeOK, NeverRepeated, FileOk
  <2>4. \A e \in Executors : CallOk(exec'[e]) /\ Backed(exec'[e], disk')
    BY <2>1, CallFacts DEF Backed
  <2> QED BY <2>1, <2>2, <2>3, <2>4 DEF PlanInv
<1> QED BY <1>1, <1>2

LEMMA InitInv == Init => PlanInv
<1> SUFFICES ASSUME Init PROVE PlanInv
  OBVIOUS
<1>1. TypeOK /\ NeverRepeated
  BY IdleOk, PlanAssumption DEF Init, TypeOK, NeverRepeated
<1>2. FileOk(disk, launched, proved)
  BY DEF Init, FileOk
<1> QED BY <1>1, <1>2, IdleOk DEF Init, PlanInv

LEMMA NextInv == PlanInv /\ [Next]_vars => PlanInv'
<1> SUFFICES ASSUME PlanInv, [Next]_vars PROVE PlanInv'
  OBVIOUS
<1>1. ASSUME NEW e \in Executors, Call(e) \/ Interrupt(e) \/ Quit(e) \/ Kill(e)
      PROVE  PlanInv'
  BY <1>1, LoadInv, RefuseInv, ReuseInv, PassInv, StartInv, LaunchInv, GivesUpInv, ConcludeInv,
     FinishInv, InterruptInv, QuitInv, KillInv DEF Call
<1>2. CASE UNCHANGED vars
  <2>1. TypeOK' /\ NeverRepeated' /\ FileOk(disk', launched', proved')
    BY <1>2 DEF vars, PlanInv, TypeOK, NeverRepeated, FileOk
  <2>2. \A e \in Executors : CallOk(exec'[e]) /\ Backed(exec'[e], disk')
    BY <1>2, CallFacts DEF vars, Backed
  <2> QED BY <1>2, <2>1, <2>2 DEF vars, PlanInv
<1> QED BY <1>1, <1>2, BeginInv, ChildEndsInv, AroundInv DEF Next

-----------------------------------------------------------------------------
(* The promises                                                             *)

(* All of the following rests on this invariant.                            *)
THEOREM PlanInvariant == Spec => []PlanInv
  BY InitInv, NextInv, PTL DEF Spec

(* Every variable keeps its type, whatever the plan.                        *)
THEOREM PlanTypeCorrect == Spec => []TypeOK
<1>1. PlanInv => TypeOK
  BY DEF PlanInv
<1> QED BY <1>1, PlanInvariant, PTL

(* No command is run twice from one checkpoint, by any number of processes, *)
(* kills, interruptions and resumptions.                                    *)
THEOREM CommandsNeverRepeated == Spec => []NeverRepeated
<1>1. PlanInv => NeverRepeated
  BY DEF PlanInv
<1> QED BY <1>1, PlanInvariant, PTL

(* A command that ever ran is recorded as started on the disk.              *)
THEOREM StartsAreRecorded == Spec => []StartIsRecorded
<1>1. PlanInv => StartIsRecorded
  BY DEF PlanInv, FileOk, StartIsRecorded
<1> QED BY <1>1, PlanInvariant, PTL

(* While a command of the plan runs, no other call works on the plan.       *)
THEOREM CommandsWorkAlone == Spec => []WorksAlone
<1>1. PlanInv => WorksAlone
  BY DEF PlanInv, WorksAlone
<1> QED BY <1>1, PlanInvariant, PTL

(* A command runs only after everything its step needs was proved.          *)
THEOREM DependenciesComeFirst == Spec => []DependenciesFirst
<1>1. PlanInv => DependenciesFirst
  BY DEF PlanInv, FileOk, DependenciesFirst
<1> QED BY <1>1, PlanInvariant, PTL

(* A call vouches only for evidence it has read itself, in this call.       *)
THEOREM ReportsAreFresh == Spec => []ReportIsFresh
<1>1. PlanInv => ReportIsFresh
  BY DEF PlanInv, CallOk, ReportIsFresh
<1> QED BY <1>1, PlanInvariant, PTL

(* What a call reports as verified rests on steps the same report calls     *)
(* verified.                                                                *)
THEOREM ReportsAreClosed == Spec => []ReportIsClosed
<1>1. PlanInv => ReportIsClosed
  BY DEF PlanInv, CallOk, ReportIsClosed
<1> QED BY <1>1, PlanInvariant, PTL

(* No call leaves a checkpoint that a later one would reject.               *)
THEOREM CheckpointsCanResume == Spec => []CanResume
<1>1. PlanInv => CanResume
  BY DEF PlanInv, FileOk, CanResume, Acceptable, SoundRow, STARTED
<1> QED BY <1>1, PlanInvariant, PTL

-----------------------------------------------------------------------------
(* Outcomes only lose credit                                                *)

FileMoves(old, new) ==
  old # None =>
    /\ new # None
    /\ \A s \in Steps : old[s].started =>
         /\ new[s].started
         /\ new[s].status = old[s].status \/ <<old[s].status, new[s].status>> \in Moves

(* One row of the checkpoint is replaced.                                   *)
LEMMA RowMoves ==
  ASSUME PlanInv, NEW e \in Executors, Loaded(exec[e]), NEW s \in Steps, exec[e].at = s,
         NEW row \in Row,
         exec[e].rows[s].started =>
           row.started /\ (row.status = exec[e].rows[s].status
                             \/ <<exec[e].rows[s].status, row.status>> \in Moves),
         disk' = disk \/ disk' = Noted(e, row).rows
  PROVE  FileMoves(disk, disk')
<1>1. CASE disk' = disk
  BY <1>1 DEF FileMoves
<1>2. CASE disk' = Noted(e, row).rows
  <2>1. /\ Noted(e, row).rows = [exec[e].rows EXCEPT ![s] = row]
        /\ Noted(e, row).rows \in Rows /\ Noted(e, row).rows # None
    BY NotedCall, NoneAssumption DEF Calls
  <2>2. \A t \in Steps : disk'[t] = IF t = s THEN row ELSE exec[e].rows[t]
    BY <1>2, <2>1, CallFacts DEF Calls, Rows
  <2>3. disk # None => disk = exec[e].rows
    BY CallFacts DEF Backed
  <2> HIDE DEF Noted
  <2> QED BY <1>2, <2>1, <2>2, <2>3 DEF FileMoves
<1> QED BY <1>1, <1>2

(* A saved call has the rows that Noted gives it.                           *)
LEMMA SavedRows ==
  ASSUME PlanInv, NEW e \in Executors, exec[e].at \in Steps, NEW row \in Row,
         NEW sure \in SUBSET Steps
  PROVE  /\ Save(e, Past(Noted(e, row))) => disk' = disk \/ disk' = Noted(e, row).rows
         /\ Save(e, Past([Noted(e, row) EXCEPT !.sure = sure])) =>
              disk' = disk \/ disk' = Noted(e, row).rows
         /\ Save(e, [Noted(e, row) EXCEPT !.pc = "dispatch"]) =>
              disk' = disk \/ disk' = Noted(e, row).rows
<1> DEFINE mid == Noted(e, row)
<1>1. mid \in Calls /\ mid.at \in Steps
  BY NotedCall
<1> HIDE DEF mid
<1>2. /\ [mid EXCEPT !.sure = sure] \in Calls /\ [mid EXCEPT !.sure = sure].at = mid.at
      /\ [mid EXCEPT !.sure = sure].rows = mid.rows
      /\ [mid EXCEPT !.pc = "dispatch"].rows = mid.rows
  BY <1>1 DEF Calls
<1>3. Past(mid).rows = mid.rows /\ Past([mid EXCEPT !.sure = sure]).rows = mid.rows
  BY <1>1, <1>2, PastFields
<1> QED BY <1>2, <1>3 DEF Save, mid

LEMMA StepMoves ==
  ASSUME PlanInv, Next
  PROVE  FileMoves(disk, disk')
<1>1. ASSUME NEW e \in Executors, Reuse(e)
      PROVE  FileMoves(disk, disk')
  <2>1. PICK s \in Steps :
          /\ Looks(e, s) /\ Again(e, s)
          /\ Save(e, Past([Noted(e, Is(e, s, Resettled(e, s))) EXCEPT !.sure = Sure(e, s)]))
    BY <1>1 DEF Reuse
  <2>2. exec[e].pc = "step" /\ exec[e].at = s /\ exec[e].rows[s].started /\ Loaded(exec[e])
    BY <2>1 DEF Looks, Again, Loaded
  <2>3. Resettled(e, s) \in STATES
    BY DEF Resettled, STATES
  <2>4. /\ Is(e, s, Resettled(e, s)) \in Row
        /\ Is(e, s, Resettled(e, s)).status = Resettled(e, s)
        /\ Is(e, s, Resettled(e, s)).started
    BY <2>2, <2>3, RowFacts
  <2>5. \/ Resettled(e, s) = exec[e].rows[s].status
        \/ <<exec[e].rows[s].status, Resettled(e, s)>> \in Moves
    BY <2>2, CallFacts DEF Resettled, Moves, CallOk, SoundRow, STARTED
  <2>6. Sure(e, s) \in SUBSET Steps
    BY <2>2, RowFacts
  <2>7. disk' = disk \/ disk' = Noted(e, Is(e, s, Resettled(e, s))).rows
    BY <2>1, <2>2, <2>4, <2>6, SavedRows
  <2> QED BY <2>2, <2>4, <2>5, <2>7, RowMoves
<1>2. ASSUME NEW e \in Executors, Pass(e)
      PROVE  FileMoves(disk, disk')
  <2> DEFINE held(s) == IF Class[s] = "NEEDS_ARGS" THEN "skipped" ELSE "blocked"
  <2>1. PICK s \in Steps :
          Looks(e, s) /\ ~Again(e, s) /\ Save(e, Past(Noted(e, Is(e, s, held(s)))))
    BY <1>2 DEF Pass
  <2>2. exec[e].pc = "step" /\ exec[e].at = s /\ Loaded(exec[e])
    BY <2>1 DEF Looks, Loaded
  <2>3. ~exec[e].rows[s].started
    BY <2>1, <2>2, CallFacts DEF Again, CallOk, Ahead
  <2>4. Is(e, s, held(s)) \in Row
    BY <2>2, RowFacts DEF STATES
  <2>5. disk' = disk \/ disk' = Noted(e, Is(e, s, held(s))).rows
    BY <2>1, <2>2, <2>4, SavedRows
  <2> QED BY <2>2, <2>3, <2>4, <2>5, RowMoves
<1>3. ASSUME NEW e \in Executors, Start(e)
      PROVE  FileMoves(disk, disk')
  <2>1. PICK s \in Steps : Looks(e, s) /\ ~Again(e, s) /\ Save(e, Dispatching(e, s))
    BY <1>3 DEF Start
  <2> DEFINE row == [Is(e, s, "running") EXCEPT !.started = TRUE]
  <2>2. exec[e].pc = "step" /\ exec[e].at = s /\ Loaded(exec[e])
    BY <2>1 DEF Looks, Loaded
  <2>3. ~exec[e].rows[s].started
    BY <2>1, <2>2, CallFacts DEF Again, CallOk, Ahead
  <2>4. row \in Row
    <3>1. "running" \in STATES
      BY DEF STATES
    <3>2. Is(e, s, "running") \in Row
      BY <2>2, <3>1, RowFacts
    <3> QED BY <3>2 DEF Row
  <2> HIDE DEF row
  <2>5. disk' = disk \/ disk' = Noted(e, row).rows
    <3>1. Save(e, [Noted(e, row) EXCEPT !.pc = "dispatch"])
      BY <2>1 DEF Dispatching, row
    <3> QED BY <2>2, <2>4, <3>1, SavedRows
  <2> QED BY <2>2, <2>3, <2>4, <2>5, RowMoves
<1>4. ASSUME NEW e \in Executors, Conclude(e)
      PROVE  FileMoves(disk, disk')
  <2>1. PICK s \in Steps :
          /\ exec[e].pc = "ended" /\ exec[e].at = s
          /\ Save(e, Past([Noted(e, Ended(e, s, Outcome(e, s), exec[e].code)) EXCEPT
                             !.sure = Sure(e, s)]))
    BY <1>4 DEF Conclude
  <2> DEFINE row == Ended(e, s, Outcome(e, s), exec[e].code)
  <2>2. exec[e].rows[s].status = "running" /\ Loaded(exec[e])
    BY <2>1, CallFacts DEF CallOk, Working, Loaded
  <2>3. /\ Outcome(e, s) \in {"uncertain", "failed", "verified", "unverified"}
        /\ Outcome(e, s) \in STATES /\ exec[e].code \in ExitCodes \cup {None}
    BY CallFacts DEF Outcome, Calls, STATES
  <2>4. row \in Row /\ row.status = Outcome(e, s) /\ row.started
    <3>1. exec[e].rows[s].started
      BY <2>2, CallFacts DEF CallOk, SoundRow, STARTED
    <3>2. exec[e].at = s /\ Outcome(e, s) \in STATES /\ exec[e].code \in ExitCodes \cup {None}
      BY <2>1, <2>3
    <3> QED BY <3>1, <3>2, RowFacts
  <2>5. <<"running", Outcome(e, s)>> \in Moves
    BY <2>3 DEF Moves
  <2>6. Sure(e, s) \in SUBSET Steps
    BY <2>1, RowFacts
  <2> HIDE DEF row
  <2>7. disk' = disk \/ disk' = Noted(e, row).rows
    BY <2>1, <2>4, <2>6, SavedRows DEF row
  <2> QED BY <2>1, <2>2, <2>4, <2>5, <2>7, RowMoves
<1>5. ASSUME NEW e \in Executors, Interrupt(e)
      PROVE  FileMoves(disk, disk')
  <2>1. PICK s \in Steps :
          /\ exec[e].pc \in {"dispatch", "running"} /\ exec[e].at = s
          /\ disk' \in {disk, Noted(e, Ended(e, s, "uncertain", -1)).rows}
    BY <1>5 DEF Interrupt
  <2>2. exec[e].rows[s].status = "running" /\ Loaded(exec[e])
    BY <2>1, CallFacts DEF CallOk, Working, Loaded
  <2>3. "uncertain" \in STATES /\ -1 \in ExitCodes /\ <<"running", "uncertain">> \in Moves
    BY DEF STATES, ExitCodes, Moves
  <2>4. /\ Ended(e, s, "uncertain", -1) \in Row
        /\ Ended(e, s, "uncertain", -1).status = "uncertain"
        /\ Ended(e, s, "uncertain", -1).started = exec[e].rows[s].started
    BY <2>1, <2>3, RowFacts
  <2> QED BY <2>1, <2>2, <2>3, <2>4, RowMoves
<1>6. ASSUME NEW e \in Executors, Finish(e)
      PROVE  FileMoves(disk, disk')
  <2>1. disk # None => disk = exec[e].rows
    BY <1>6, CallFacts DEF Backed, Finish, Loaded
  <2> QED BY <1>6, <2>1 DEF Finish, FileMoves
<1>7. ASSUME disk' = disk
      PROVE  FileMoves(disk, disk')
  BY <1>7 DEF FileMoves
<1> QED
  BY <1>1, <1>2, <1>3, <1>4, <1>5, <1>6, <1>7
     DEF Next, Call, Begin, Load, Refuse, Launch, GivesUp, Quit, Kill, ChildEnds,
         FilesChange, RemoveLock

(* Started work stays started, and nothing becomes verified but a command   *)
(* that was running.                                                        *)
THEOREM OutcomesAreKept == Spec => NeverRehabilitated
<1>1. PlanInv /\ [Next]_vars =>
        [disk # None =>
           /\ disk' # None
           /\ \A s \in Steps : disk[s].started =>
                /\ disk'[s].started
                /\ \/ disk'[s].status = disk[s].status
                   \/ <<disk[s].status, disk'[s].status>> \in Moves]_vars
  BY StepMoves DEF FileMoves
<1> QED BY <1>1, PlanInvariant, PTL DEF Spec, NeverRehabilitated
=============================================================================
