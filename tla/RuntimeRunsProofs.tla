-------------------------- MODULE RuntimeRunsProofs --------------------------
(* Theorems about RuntimeRuns: for any number of runs, cells and processes,  *)
(* whatever is killed, fails to write, is lost or comes late.                *)
EXTENDS RuntimeRuns, SharedMemoryProofs

(***************************************************************************)
(* The memory under the runs is the shared memory.                         *)
(***************************************************************************)

\* What a run sends is a request like any other.
LEMMA SentIsRequest ==
  ASSUME NEW d \in Runs, NEW a \in Actors
  PROVE  /\ Sent(d, a) \in Request
         /\ Observation \in Texts
         /\ d \in Keys /\ d \in Ids
BY RuntimeAssumption, MemoryAssumption DEF Sent, Request

\* A capture of what a run sends is a step of the memory.
LEMMA CaptureIsNext ==
  ASSUME NEW d \in Runs, NEW a \in Actors, Capture(Sent(d, a))
  PROVE  Next
<1>1. d \in Keys /\ d \in Ids /\ Observation \in Texts BY SentIsRequest
<1> DEFINE From(op, saw, text, status) ==
             [actor |-> a, id |-> d, op |-> op, key |-> d, saw |-> saw, text |-> text, status |-> status]
<1>2. Sent(d, a) = From("capture", None, Observation, None) BY DEF Sent
<1>3. \E t \in Texts : Capture(From("capture", None, t, None)) BY <1>1, <1>2
<1> QED BY <1>1, <1>3 DEF Next, Serves, Calls

\* So is what the others do with it.
LEMMA OperatesIsNext == ASSUME Operates PROVE Next
<1>1. Operators \subseteq Actors BY RuntimeAssumption
<1> QED BY <1>1 DEF Operates, Next, Serves, Calls

(***************************************************************************)
(* One run: its call w, its files f and what it asked for, a.              *)
(***************************************************************************)

Places == {"new", "prepare", "ask", "infer", "observe", "output", "report", "outbox", "end",
           "failing", "over"}
Works == [at: Places, adapter: Adapters, cells: 0..MaxCells, chain: 0..2, tries: 0..2, rows: Seq(Rows)]
Disks == [state: {None, "started", "completed", "failed", "interrupted_or_setup_failed"},
          input: BOOLEAN, rows: Seq(Rows), outputs: SUBSET (1..MaxCells), report: BOOLEAN,
          outbox: Adapters \cup {None}, receipt: BOOLEAN]
Questions == Seq((1..MaxCells) \X (1..2))

\* What was asked for lies before the cell and the profile that come next.
AskedBefore(w, a) ==
  \A i \in DOMAIN a :
    \/ a[i][1] <= Len(w.rows)
    \/ a[i][1] = Len(w.rows) + 1 /\ a[i][2] <= w.tries

PreservedIn(f, a) ==
  \A i \in DOMAIN a :
    /\ Len(f.rows) >= a[i][1] - 1
    /\ \A k \in 1..(a[i][1] - 1) : f.rows[k].answer => k \in f.outputs

EarnedIn(w, f) ==
  f.state \in {"completed", "failed"} =>
    /\ w.at = "over"
    /\ f.report /\ f.outputs = Answered(f.rows)
    /\ Len(f.rows) = w.cells
    /\ w.adapter # "none" => f.outbox = w.adapter
    /\ f.state = "completed" <=> \A i \in DOMAIN f.rows : f.rows[i].status = "completed"

\* The files are those of the place the call is at.
FilesFollow(w, f) ==
  /\ w.at = "new" => w = NoWork /\ f = NoFiles
  /\ w.at # "new" => w.cells \in 1..MaxCells /\ w.chain \in 1..2
  /\ w.at = "prepare" => w.rows = <<>> /\ w.tries = 0 /\ f.rows = <<>> /\ f.outputs = {}
  /\ w.at \in {"ask", "infer"} =>
       Len(w.rows) < w.cells /\ f.rows = w.rows /\ f.outputs = Answered(w.rows)
  /\ w.at = "ask" => w.tries < w.chain
  /\ w.at \in {"observe", "output"} => w.tries = 0 /\ Len(w.rows) \in 1..w.cells
  /\ w.at = "observe" =>
       /\ Len(f.rows) = Len(w.rows) - 1 /\ \A k \in 1..Len(f.rows) : f.rows[k] = w.rows[k]
       /\ f.outputs = Answered(f.rows)
  /\ w.at = "output" =>
       f.rows = w.rows /\ \A k \in 1..(Len(w.rows) - 1) : w.rows[k].answer => k \in f.outputs
  /\ w.at \in {"report", "outbox", "end"} =>
       Len(w.rows) = w.cells /\ f.rows = w.rows /\ f.outputs = Answered(w.rows)
  /\ w.at \in {"outbox", "end"} => f.report
  /\ w.at = "end" /\ w.adapter # "none" => f.outbox = w.adapter
  /\ w.at \notin {"end", "failing", "over"} => f.outbox = None
  /\ f.outbox # None => f.report

RunSound(w, f, a) ==
  /\ w \in Works /\ f \in Disks /\ a \in Questions
  /\ w.at = "new" => a = <<>>
  /\ AskedBefore(w, a) /\ IsInjective(a)
  /\ PreservedIn(f, a) /\ EarnedIn(w, f) /\ FilesFollow(w, f)

\* Only the place of a call and the files matter to what is on disk.
LEMMA SameQuestions ==
  ASSUME NEW w \in Works, NEW v \in Works, NEW a, AskedBefore(w, a),
         v.rows = w.rows, v.tries = w.tries
  PROVE  AskedBefore(v, a)
BY DEF AskedBefore

\* A write and what follows it.
LEMMA WritesOrNot ==
  ASSUME NEW d \in Runs, NEW files, NEW then, NEW otherwise,
         work \in [Runs -> Works], disk \in [Runs -> Disks],
         Writes(d, files, then, otherwise)
  PROVE  /\ \/ disk'[d] = files /\ work'[d] = [work[d] EXCEPT !.at = then]
            \/ disk'[d] = disk[d] /\ work'[d] = [work[d] EXCEPT !.at = otherwise]
         /\ \A e \in Runs \ {d} : disk'[e] = disk[e] /\ work'[e] = work[e]
         /\ disk' = [e \in Runs |-> disk'[e]] /\ work' = [e \in Runs |-> work'[e]]
BY DEF Writes

\* A call goes to another place and keeps everything else.
LEMMA Moved ==
  ASSUME NEW w \in Works, NEW p \in Places
  PROVE  LET v == [w EXCEPT !.at = p] IN
         /\ v \in Works /\ v.at = p
         /\ v.adapter = w.adapter /\ v.cells = w.cells /\ v.chain = w.chain
         /\ v.tries = w.tries /\ v.rows = w.rows
BY DEF Works

\* It goes there with another number of profiles tried, and with other rows.
Trying(w, p, n) == [w EXCEPT !.at = p, !.tries = n]
WithRows(w, p, n, rows) == [w EXCEPT !.at = p, !.tries = n, !.rows = rows]

LEMMA MovedTrying ==
  ASSUME NEW w \in Works, NEW p \in Places, NEW n \in 0..2
  PROVE  LET v == Trying(w, p, n) IN
         /\ v \in Works /\ v.at = p
         /\ v.adapter = w.adapter /\ v.cells = w.cells /\ v.chain = w.chain
         /\ v.tries = n /\ v.rows = w.rows
<1> DEFINE u == [w EXCEPT !.at = p]
           v == [u EXCEPT !.tries = n]
<1>1. /\ u \in Works /\ u.at = p /\ u.adapter = w.adapter /\ u.cells = w.cells
      /\ u.chain = w.chain /\ u.rows = w.rows
  BY DEF Works
<1> HIDE DEF u
<1>2. /\ v \in Works /\ v.at = p /\ v.adapter = w.adapter /\ v.cells = w.cells
      /\ v.chain = w.chain /\ v.tries = n /\ v.rows = w.rows
  BY <1>1 DEF Works
<1>3. v = [w EXCEPT !.at = p, !.tries = n] BY DEF v, u
<1> QED BY <1>2, <1>3 DEF Trying

LEMMA MovedWithRows ==
  ASSUME NEW w \in Works, NEW p \in Places, NEW n \in 0..2, NEW rows \in Seq(Rows)
  PROVE  LET v == WithRows(w, p, n, rows) IN
         /\ v \in Works /\ v.at = p
         /\ v.adapter = w.adapter /\ v.cells = w.cells /\ v.chain = w.chain
         /\ v.tries = n /\ v.rows = rows
<1> DEFINE u == Trying(w, p, n)
           v == [u EXCEPT !.rows = rows]
<1>1. /\ u \in Works /\ u.at = p /\ u.adapter = w.adapter /\ u.cells = w.cells
      /\ u.chain = w.chain /\ u.tries = n
  BY MovedTrying
<1> HIDE DEF u
<1>2. /\ v \in Works /\ v.at = p /\ v.adapter = w.adapter /\ v.cells = w.cells
      /\ v.chain = w.chain /\ v.tries = n /\ v.rows = rows
  BY <1>1 DEF Works
<1>3. v = [w EXCEPT !.at = p, !.tries = n, !.rows = rows] BY DEF v, u, Trying
<1> QED BY <1>2, <1>3 DEF WithRows

\* A call as it starts.
NewCall(adapter, cells, chain, p) ==
  [NoWork EXCEPT !.adapter = adapter, !.cells = cells, !.chain = chain, !.at = p]

LEMMA CallStarts ==
  ASSUME NEW adapter \in Adapters, NEW cells \in 0..MaxCells, NEW chain \in 0..2, NEW p \in Places
  PROVE  LET v == NewCall(adapter, cells, chain, p) IN
         /\ v \in Works /\ v.at = p /\ v.adapter = adapter /\ v.cells = cells
         /\ v.chain = chain /\ v.tries = 0 /\ v.rows = <<>>
<1> DEFINE Made(x, y, z) ==
             [at |-> "new", adapter |-> x, cells |-> y, chain |-> z, tries |-> 0, rows |-> <<>>]
           m == Made(adapter, cells, chain)
           v == [m EXCEPT !.at = p]
<1>1. [NoWork EXCEPT !.adapter = adapter] = Made(adapter, 0, 0) BY DEF NoWork
<1>2. [Made(adapter, 0, 0) EXCEPT !.cells = cells] = Made(adapter, cells, 0) OBVIOUS
<1>3. [Made(adapter, cells, 0) EXCEPT !.chain = chain] = Made(adapter, cells, chain) OBVIOUS
<1>4. <<>> \in Seq(Rows) OBVIOUS
<1>5. m \in Works BY <1>4 DEF Works, Places
<1>6. /\ v \in Works /\ v.at = p /\ v.adapter = adapter /\ v.cells = cells
      /\ v.chain = chain /\ v.tries = 0 /\ v.rows = <<>>
  BY <1>5 DEF Works
<1>7. v = [NoWork EXCEPT !.adapter = adapter, !.cells = cells, !.chain = chain, !.at = p]
  <2> HIDE DEF Made
  <2> QED BY <1>1, <1>2, <1>3
<1> QED BY <1>6, <1>7 DEF NewCall

\* A call that fails or is killed leaves the files as they are.
LEMMA Abandoned ==
  ASSUME NEW w, NEW f, NEW a, NEW p \in {"failing", "over"},
         RunSound(w, f, a), w.at \notin {"new", "over"}
  PROVE  RunSound([w EXCEPT !.at = p], f, a)
<1> DEFINE v == [w EXCEPT !.at = p]
<1>1. w \in Works /\ p \in Places BY DEF RunSound, Places
<1>2. /\ v \in Works /\ v.at = p /\ v.adapter = w.adapter /\ v.cells = w.cells
      /\ v.chain = w.chain /\ v.tries = w.tries /\ v.rows = w.rows
  BY <1>1, Moved
<1> HIDE DEF v
<1>3. AskedBefore(v, a) BY <1>1, <1>2, SameQuestions DEF RunSound
<1>4. EarnedIn(v, f) BY <1>2 DEF RunSound, EarnedIn
<1>5. FilesFollow(v, f) BY <1>2 DEF RunSound, FilesFollow
<1>6. f \in Disks /\ a \in Questions /\ IsInjective(a) /\ PreservedIn(f, a) /\ v.at # "new"
  BY <1>2 DEF RunSound
<1>7. RunSound(v, f, a) BY <1>2, <1>3, <1>4, <1>5, <1>6 DEF RunSound
<1> QED BY <1>7 DEF v

\* Each write of a call, and where the call goes when it succeeds.
WriteTo(w, f, g, q) ==
  \/ w.at = "prepare" /\ g = [f EXCEPT !.input = TRUE] /\ q = "ask"
  \/ w.at = "observe" /\ g = [f EXCEPT !.rows = w.rows] /\ q = "output"
  \/ /\ w.at = "output" /\ g = [f EXCEPT !.outputs = Answered(w.rows)]
     /\ q = IF Len(w.rows) < w.cells THEN "ask" ELSE "report"
  \/ /\ w.at = "report" /\ g = [f EXCEPT !.report = TRUE]
     /\ q = IF w.adapter = "none" THEN "end" ELSE "outbox"
  \/ w.at = "outbox" /\ g = [f EXCEPT !.outbox = w.adapter] /\ q = "end"
  \/ /\ w.at = "end" /\ q = "over"
     /\ g = [f EXCEPT !.state = IF \A i \in DOMAIN w.rows : w.rows[i].status = "completed"
                                  THEN "completed" ELSE "failed"]
  \/ /\ w.at = "failing" /\ q = "over"
     /\ g = [f EXCEPT !.state = "interrupted_or_setup_failed"]

LEMMA WrittenRun ==
  ASSUME NEW w, NEW f, NEW a, NEW g, NEW q \in Places, RunSound(w, f, a), WriteTo(w, f, g, q)
  PROVE  RunSound([w EXCEPT !.at = q], g, a)
<1> DEFINE v == [w EXCEPT !.at = q]
<1>1. w \in Works BY DEF RunSound
<1>2. /\ v \in Works /\ v.at = q /\ v.adapter = w.adapter /\ v.cells = w.cells
      /\ v.chain = w.chain /\ v.tries = w.tries /\ v.rows = w.rows
  BY <1>1, Moved
<1> SUFFICES RunSound(v, g, a) BY DEF v
<1> HIDE DEF v
<1>3. AskedBefore(v, a) BY <1>1, <1>2, SameQuestions DEF RunSound
<1>4. /\ MaxCells \in Nat /\ w.rows \in Seq(Rows) /\ w.cells \in 0..MaxCells /\ w.tries \in 0..2
      /\ f \in Disks /\ f.rows \in Seq(Rows)
  BY RuntimeAssumption DEF RunSound, Works, Disks
<1>5. /\ AskedBefore(w, a) /\ PreservedIn(f, a) /\ EarnedIn(w, f) /\ FilesFollow(w, f)
      /\ IsInjective(a) /\ a \in Questions
  BY DEF RunSound
<1>6. v.at # "new" BY <1>2 DEF WriteTo
<1>7. CASE w.at = "prepare" /\ g = [f EXCEPT !.input = TRUE] /\ q = "ask"
  <2>1. /\ g \in Disks /\ g.rows = f.rows /\ g.outputs = f.outputs /\ g.state = f.state
        /\ g.report = f.report /\ g.outbox = f.outbox
    BY <1>4, <1>7 DEF Disks
  <2>2. /\ w.rows = <<>> /\ w.tries = 0 /\ f.rows = <<>> /\ f.outputs = {} /\ f.outbox = None
        /\ w.chain \in 1..2 /\ w.cells \in 1..MaxCells
    BY <1>5, <1>7 DEF FilesFollow
  <2>5. Len(w.rows) < w.cells /\ Answered(w.rows) = {} BY <1>4, <2>2 DEF Answered
  <2>6. v.at = "ask" /\ g.outbox = None BY <1>2, <1>7, <2>1, <2>2
  <2>7. g.rows = v.rows /\ g.outputs = Answered(v.rows) BY <1>2, <2>1, <2>2, <2>5
  <2>8. Len(v.rows) < v.cells /\ v.tries < v.chain /\ v.cells \in 1..MaxCells /\ v.chain \in 1..2
    BY <1>2, <1>4, <2>2, <2>5
  <2>3. FilesFollow(v, g) BY <2>6, <2>7, <2>8 DEF FilesFollow
  <2>4. EarnedIn(v, g) /\ PreservedIn(g, a) BY <1>2, <1>5, <1>7, <2>1 DEF EarnedIn, PreservedIn
  <2> QED BY <1>2, <1>3, <1>5, <1>6, <2>1, <2>3, <2>4 DEF RunSound
<1>8. CASE w.at = "observe" /\ g = [f EXCEPT !.rows = w.rows] /\ q = "output"
  <2>1. /\ g \in Disks /\ g.rows = w.rows /\ g.outputs = f.outputs /\ g.state = f.state
        /\ g.report = f.report /\ g.outbox = f.outbox
    BY <1>4, <1>8 DEF Disks
  <2>2. /\ Len(w.rows) \in 1..w.cells /\ w.tries = 0
        /\ Len(f.rows) = Len(w.rows) - 1 /\ \A k \in 1..Len(f.rows) : f.rows[k] = w.rows[k]
        /\ f.outputs = Answered(f.rows)
    BY <1>5, <1>8 DEF FilesFollow
  <2>3. \A k \in 1..(Len(w.rows) - 1) : w.rows[k].answer => k \in f.outputs
    BY <1>4, <2>2 DEF Answered
  <2>4. FilesFollow(v, g) BY <1>2, <1>4, <1>5, <1>8, <2>1, <2>2, <2>3 DEF FilesFollow
  <2>5. PreservedIn(g, a)
    <3> SUFFICES ASSUME NEW i \in DOMAIN a
                 PROVE  /\ Len(w.rows) >= a[i][1] - 1
                        /\ \A k \in 1..(a[i][1] - 1) : w.rows[k].answer => k \in f.outputs
      BY <2>1 DEF PreservedIn
    <3>1. a[i][1] \in Nat /\ a[i][2] \in 1..2 BY <1>4, <1>5 DEF Questions
    <3>2. a[i][1] <= Len(w.rows) BY <1>4, <1>5, <2>2, <3>1 DEF AskedBefore
    <3> QED BY <1>4, <2>3, <3>1, <3>2
  <2>6. EarnedIn(v, g) BY <1>2, <1>5, <1>8, <2>1 DEF EarnedIn
  <2> QED BY <1>2, <1>3, <1>5, <1>6, <2>1, <2>4, <2>5, <2>6 DEF RunSound
<1>9. CASE /\ w.at = "output" /\ g = [f EXCEPT !.outputs = Answered(w.rows)]
           /\ q = IF Len(w.rows) < w.cells THEN "ask" ELSE "report"
  <2>1. /\ Len(w.rows) \in 1..w.cells /\ w.tries = 0 /\ f.rows = w.rows
        /\ w.chain \in 1..2 /\ w.cells \in 1..MaxCells
    BY <1>5, <1>9 DEF FilesFollow
  <2>2. Answered(w.rows) \in SUBSET (1..MaxCells) BY <1>4, <2>1 DEF Answered
  <2>3. /\ g \in Disks /\ g.rows = f.rows /\ g.outputs = Answered(w.rows) /\ g.state = f.state
        /\ g.report = f.report /\ g.outbox = f.outbox
    BY <1>4, <1>9, <2>2 DEF Disks
  <2>4. FilesFollow(v, g) BY <1>2, <1>4, <1>5, <1>9, <2>1, <2>3 DEF FilesFollow
  <2>5. PreservedIn(g, a)
    <3> SUFFICES ASSUME NEW i \in DOMAIN a, NEW k \in 1..(a[i][1] - 1), w.rows[k].answer
                 PROVE  k \in DOMAIN w.rows
      BY <1>5, <2>1, <2>3 DEF PreservedIn, Answered
    <3>1. a[i][1] \in Nat BY <1>4, <1>5 DEF Questions
    <3>2. a[i][1] - 1 <= Len(w.rows) BY <1>5, <2>1, <3>1 DEF PreservedIn
    <3> QED BY <1>4, <3>1, <3>2
  <2>6. EarnedIn(v, g) BY <1>2, <1>5, <1>9, <2>3 DEF EarnedIn
  <2> QED BY <1>2, <1>3, <1>5, <1>6, <2>3, <2>4, <2>5, <2>6 DEF RunSound
<1>10. CASE /\ w.at = "report" /\ g = [f EXCEPT !.report = TRUE]
            /\ q = IF w.adapter = "none" THEN "end" ELSE "outbox"
  <2>1. /\ g \in Disks /\ g.rows = f.rows /\ g.outputs = f.outputs /\ g.state = f.state
        /\ g.report = TRUE /\ g.outbox = f.outbox
    BY <1>4, <1>10 DEF Disks
  <2>2. FilesFollow(v, g) BY <1>2, <1>4, <1>5, <1>10, <2>1 DEF FilesFollow
  <2>3. EarnedIn(v, g) /\ PreservedIn(g, a) BY <1>2, <1>5, <1>10, <2>1 DEF EarnedIn, PreservedIn
  <2> QED BY <1>2, <1>3, <1>5, <1>6, <2>1, <2>2, <2>3 DEF RunSound
<1>11. CASE w.at = "outbox" /\ g = [f EXCEPT !.outbox = w.adapter] /\ q = "end"
  <2>0. w.adapter \in Adapters BY <1>1 DEF Works
  <2>1. /\ g \in Disks /\ g.rows = f.rows /\ g.outputs = f.outputs /\ g.state = f.state
        /\ g.report = f.report /\ g.outbox = w.adapter
    BY <1>4, <1>11, <2>0 DEF Disks
  <2>2. FilesFollow(v, g) BY <1>2, <1>4, <1>5, <1>11, <2>1 DEF FilesFollow
  <2>3. EarnedIn(v, g) /\ PreservedIn(g, a) BY <1>2, <1>5, <1>11, <2>1 DEF EarnedIn, PreservedIn
  <2> QED BY <1>2, <1>3, <1>5, <1>6, <2>1, <2>2, <2>3 DEF RunSound
<1>12. CASE /\ w.at = "end" /\ q = "over"
            /\ g = [f EXCEPT !.state = IF \A i \in DOMAIN w.rows : w.rows[i].status = "completed"
                                         THEN "completed" ELSE "failed"]
  <2>1. /\ g \in Disks /\ g.rows = f.rows /\ g.outputs = f.outputs
        /\ g.state = IF \A i \in DOMAIN w.rows : w.rows[i].status = "completed"
                       THEN "completed" ELSE "failed"
        /\ g.report = f.report /\ g.outbox = f.outbox
    BY <1>4, <1>12 DEF Disks
  <2>2. /\ f.rows = w.rows /\ f.outputs = Answered(w.rows) /\ Len(w.rows) = w.cells /\ f.report
        /\ w.adapter # "none" => f.outbox = w.adapter
    BY <1>5, <1>12 DEF FilesFollow
  <2>3. EarnedIn(v, g) BY <1>2, <1>12, <2>1, <2>2 DEF EarnedIn
  <2>4. FilesFollow(v, g) BY <1>2, <1>5, <1>12, <2>1, <2>2 DEF FilesFollow
  <2>5. PreservedIn(g, a) BY <1>5, <2>1 DEF PreservedIn
  <2> QED BY <1>2, <1>3, <1>5, <1>6, <2>1, <2>3, <2>4, <2>5 DEF RunSound
<1>13. CASE w.at = "failing" /\ q = "over" /\ g = [f EXCEPT !.state = "interrupted_or_setup_failed"]
  <2>1. /\ g \in Disks /\ g.rows = f.rows /\ g.outputs = f.outputs
        /\ g.state = "interrupted_or_setup_failed" /\ g.report = f.report /\ g.outbox = f.outbox
    BY <1>4, <1>13 DEF Disks
  <2>2. EarnedIn(v, g) /\ PreservedIn(g, a) BY <1>2, <1>5, <2>1 DEF EarnedIn, PreservedIn
  <2>3. FilesFollow(v, g) BY <1>2, <1>5, <1>13, <2>1 DEF FilesFollow
  <2> QED BY <1>2, <1>3, <1>5, <1>6, <2>1, <2>2, <2>3 DEF RunSound
<1> QED BY <1>7, <1>8, <1>9, <1>10, <1>11, <1>12, <1>13 DEF WriteTo

\* A call that starts has a directory with its first state, or nothing.
LEMMA StartedRun ==
  ASSUME NEW adapter \in Adapters, NEW cells \in 1..MaxCells, NEW chain \in 1..2,
         NEW v, NEW g,
         \/ /\ g = [NoFiles EXCEPT !.state = "started"]
            /\ v = [NoWork EXCEPT !.adapter = adapter, !.cells = cells, !.chain = chain, !.at = "prepare"]
         \/ /\ g = NoFiles
            /\ v = [NoWork EXCEPT !.adapter = adapter, !.cells = cells, !.chain = chain, !.at = "over"]
  PROVE  RunSound(v, g, <<>>)
<1>1. MaxCells \in Nat /\ <<>> \in Seq(Rows) /\ None \notin {"completed", "failed"}
  BY RuntimeAssumption
<1>2. /\ v.at \in {"prepare", "over"} /\ v.adapter = adapter /\ v.cells = cells /\ v.chain = chain
      /\ v.tries = 0 /\ v.rows = <<>> /\ v \in Works
  <2>1. PICK p \in {"prepare", "over"} :
          v = NewCall(adapter, cells, chain, p)
    BY DEF NewCall
  <2>2. cells \in 0..MaxCells /\ chain \in 0..2 /\ p \in Places BY <1>1 DEF Places
  <2> QED BY <2>1, <2>2, CallStarts
<1>3. /\ g.state \in {None, "started"} /\ g.rows = <<>> /\ g.outputs = {} /\ g.outbox = None
      /\ g \in Disks
  <2>1. \E state \in {None, "started"} :
          g = [state |-> state, input |-> FALSE, rows |-> <<>>, outputs |-> {}, report |-> FALSE,
               outbox |-> None, receipt |-> FALSE]
    BY DEF NoFiles
  <2> QED BY <1>1, <2>1 DEF Disks
<1>5. AskedBefore(v, <<>>) /\ IsInjective(<<>>) /\ PreservedIn(g, <<>>) /\ <<>> \in Questions
  BY DEF AskedBefore, IsInjective, PreservedIn, Questions
<1>6. FilesFollow(v, g) BY <1>2, <1>3 DEF FilesFollow
<1>7. EarnedIn(v, g) BY <1>1, <1>3 DEF EarnedIn
<1> QED BY <1>2, <1>3, <1>5, <1>6, <1>7 DEF RunSound

\* A question is a new one.
LEMMA AskedRun ==
  ASSUME NEW w, NEW f, NEW a, RunSound(w, f, a), w.at = "ask"
  PROVE  RunSound([w EXCEPT !.at = "infer", !.tries = @ + 1], f,
                  Append(a, <<Len(w.rows) + 1, w.tries + 1>>))
<1> DEFINE v == [w EXCEPT !.at = "infer", !.tries = @ + 1]
           q == <<Len(w.rows) + 1, w.tries + 1>>
           b == Append(a, q)
<1>1. /\ MaxCells \in Nat /\ w \in Works /\ f \in Disks /\ a \in Questions
      /\ AskedBefore(w, a) /\ IsInjective(a) /\ PreservedIn(f, a) /\ EarnedIn(w, f) /\ FilesFollow(w, f)
  BY RuntimeAssumption DEF RunSound
<1>2. /\ w.rows \in Seq(Rows) /\ Len(w.rows) \in Nat /\ w.cells \in 1..MaxCells /\ w.chain \in 1..2
      /\ w.tries \in 0..2 /\ w.tries < w.chain /\ Len(w.rows) < w.cells
      /\ f.rows = w.rows /\ f.outputs = Answered(w.rows) /\ f.outbox = None
  BY <1>1 DEF FilesFollow, Works
<1>3. /\ v \in Works /\ v.at = "infer" /\ v.adapter = w.adapter /\ v.cells = w.cells
      /\ v.chain = w.chain /\ v.tries = w.tries + 1 /\ v.rows = w.rows
  <2>1. w.tries + 1 \in 0..2 /\ "infer" \in Places BY <1>2 DEF Places
  <2>2. v = Trying(w, "infer", w.tries + 1) BY DEF Trying
  <2> HIDE DEF v
  <2> QED BY <1>1, <2>1, <2>2, MovedTrying
<1>4. q \in (1..MaxCells) \X (1..2) /\ q[1] = Len(w.rows) + 1 /\ q[2] = w.tries + 1
  BY <1>1, <1>2
<1> HIDE DEF v, q
<1>5. /\ b \in Questions /\ DOMAIN b = DOMAIN a \cup {Len(a) + 1} /\ b[Len(a) + 1] = q
      /\ \A i \in DOMAIN a : b[i] = a[i] /\ i # Len(a) + 1
  BY <1>1, <1>4 DEF Questions
<1> HIDE DEF b
<1>6. \A i \in DOMAIN a : a[i][1] \in Nat /\ a[i][2] \in Nat /\ a[i] # q
  <2> SUFFICES ASSUME NEW i \in DOMAIN a PROVE a[i][1] \in Nat /\ a[i][2] \in Nat /\ a[i] # q
    OBVIOUS
  <2>1. a[i] \in (1..MaxCells) \X (1..2) BY <1>1 DEF Questions
  <2>2. a[i][1] <= Len(w.rows) \/ (a[i][1] = Len(w.rows) + 1 /\ a[i][2] <= w.tries)
    BY <1>1 DEF AskedBefore
  <2>3. a[i][1] \in Nat /\ a[i][2] \in Nat BY <2>1, <1>1
  <2>4. a[i][1] # q[1] \/ a[i][2] # q[2] BY <1>2, <1>4, <2>2, <2>3
  <2> QED BY <2>3, <2>4
<1>7. AskedBefore(v, b)
  <2> SUFFICES ASSUME NEW i \in DOMAIN b
               PROVE  \/ b[i][1] <= Len(v.rows)
                      \/ b[i][1] = Len(v.rows) + 1 /\ b[i][2] <= v.tries
    BY DEF AskedBefore
  <2>1. CASE i = Len(a) + 1 BY <1>2, <1>3, <1>4, <1>5, <2>1
  <2>2. CASE i \in DOMAIN a
    <3>1. a[i][1] <= Len(w.rows) \/ (a[i][1] = Len(w.rows) + 1 /\ a[i][2] <= w.tries)
      BY <1>1, <2>2 DEF AskedBefore
    <3> QED BY <1>2, <1>3, <1>5, <1>6, <2>2, <3>1
  <2> QED BY <1>5, <2>1, <2>2
<1>8. IsInjective(b)
  <2>1. \A i, j \in DOMAIN a : a[i] = a[j] => i = j BY <1>1 DEF IsInjective
  <2>2. \A i, j \in DOMAIN b : b[i] = b[j] => i = j BY <1>5, <1>6, <2>1
  <2> QED BY <2>2 DEF IsInjective
<1>9. PreservedIn(f, b)
  <2> SUFFICES ASSUME NEW i \in DOMAIN b
               PROVE  /\ Len(f.rows) >= b[i][1] - 1
                      /\ \A k \in 1..(b[i][1] - 1) : f.rows[k].answer => k \in f.outputs
    BY DEF PreservedIn
  <2>1. CASE i \in DOMAIN a BY <1>1, <1>5, <2>1 DEF PreservedIn
  <2>2. CASE i = Len(a) + 1
    <3>1. b[i][1] - 1 = Len(w.rows) BY <1>2, <1>4, <1>5, <2>2
    <3>2. \A k \in 1..Len(w.rows) : w.rows[k].answer => k \in Answered(w.rows)
      BY <1>2 DEF Answered
    <3> QED BY <1>2, <3>1, <3>2
  <2> QED BY <1>5, <2>1, <2>2
<1>10. EarnedIn(v, f) BY <1>1, <1>3 DEF EarnedIn
<1>11. v.tries \in 1..2 BY <1>2, <1>3
<1>12. FilesFollow(v, f) BY <1>2, <1>3 DEF FilesFollow
<1>13. RunSound(v, f, b) BY <1>1, <1>3, <1>5, <1>7, <1>8, <1>9, <1>10, <1>12 DEF RunSound
<1> QED BY <1>13 DEF v, q, b

\* The answer, or none: the next profile, or the row of the cell.
LEMMA InferredRun ==
  ASSUME NEW w, NEW f, NEW a, NEW row \in Rows, RunSound(w, f, a), w.at = "infer"
  PROVE  RunSound(AfterAnswer(w, row), f, a)
<1>1. /\ MaxCells \in Nat /\ w \in Works /\ f \in Disks /\ a \in Questions
      /\ AskedBefore(w, a) /\ IsInjective(a) /\ PreservedIn(f, a) /\ EarnedIn(w, f) /\ FilesFollow(w, f)
  BY RuntimeAssumption DEF RunSound
<1>2. /\ w.rows \in Seq(Rows) /\ Len(w.rows) \in Nat /\ w.cells \in 1..MaxCells /\ w.chain \in 1..2
      /\ w.tries \in 0..2 /\ Len(w.rows) < w.cells
      /\ f.rows = w.rows /\ f.outputs = Answered(w.rows) /\ f.outbox = None
  BY <1>1 DEF FilesFollow, Works
<1>3. CASE row.status = "failed" /\ w.tries < w.chain
  <2> DEFINE v == [w EXCEPT !.at = "ask"]
  <2>1. /\ v \in Works /\ v.at = "ask" /\ v.adapter = w.adapter /\ v.cells = w.cells
        /\ v.chain = w.chain /\ v.tries = w.tries /\ v.rows = w.rows
    BY <1>1, Moved DEF Places
  <2> HIDE DEF v
  <2>2. AskedBefore(v, a) BY <1>1, <2>1, SameQuestions
  <2>3. EarnedIn(v, f) BY <1>1, <2>1 DEF EarnedIn
  <2>4. FilesFollow(v, f) BY <1>2, <1>3, <2>1 DEF FilesFollow
  <2>5. RunSound(v, f, a) BY <1>1, <2>1, <2>2, <2>3, <2>4 DEF RunSound
  <2> QED BY <1>3, <2>5 DEF v, AfterAnswer
<1>4. CASE ~(row.status = "failed" /\ w.tries < w.chain)
  <2> DEFINE rows == Append(w.rows, row)
             v == [w EXCEPT !.at = "observe", !.tries = 0, !.rows = Append(@, row)]
  <2>1. /\ rows \in Seq(Rows) /\ Len(rows) = Len(w.rows) + 1
        /\ \A k \in 1..Len(w.rows) : rows[k] = w.rows[k]
    BY <1>2
  <2>2. /\ v \in Works /\ v.at = "observe" /\ v.adapter = w.adapter /\ v.cells = w.cells
        /\ v.chain = w.chain /\ v.tries = 0 /\ v.rows = rows
    <3>1. "observe" \in Places /\ 0 \in 0..2 BY DEF Places
    <3>2. v = WithRows(w, "observe", 0, rows) BY DEF WithRows
    <3> HIDE DEF rows, v
    <3> QED BY <1>1, <2>1, <3>1, <3>2, MovedWithRows
  <2> HIDE DEF v, rows
  <2>3. AskedBefore(v, a)
    <3> SUFFICES ASSUME NEW i \in DOMAIN a PROVE a[i][1] <= Len(v.rows)
      BY DEF AskedBefore
    <3>1. a[i][1] \in Nat BY <1>1 DEF Questions
    <3>2. a[i][1] <= Len(w.rows) \/ a[i][1] = Len(w.rows) + 1 BY <1>1 DEF AskedBefore
    <3> QED BY <1>2, <2>1, <2>2, <3>1, <3>2
  <2>4. EarnedIn(v, f) BY <1>1, <2>2 DEF EarnedIn
  <2>5. Len(v.rows) \in 1..v.cells /\ Len(f.rows) = Len(v.rows) - 1 BY <1>2, <2>1, <2>2
  <2>6. \A k \in 1..Len(f.rows) : f.rows[k] = v.rows[k] BY <1>2, <2>1, <2>2
  <2>7. FilesFollow(v, f) BY <1>2, <2>2, <2>5, <2>6 DEF FilesFollow
  <2>8. RunSound(v, f, a) BY <1>1, <2>2, <2>3, <2>4, <2>7 DEF RunSound
  <2> QED BY <1>4, <2>8 DEF v, AfterAnswer
<1> QED BY <1>3, <1>4

(***************************************************************************)
(* A step of one run.                                                      *)
(***************************************************************************)

RunsSound ==
  /\ work \in [Runs -> Works] /\ disk \in [Runs -> Disks] /\ asked \in [Runs -> Questions]
  /\ \A d \in Runs : RunSound(work[d], disk[d], asked[d])

\* The run d goes on, soundly, and no other one moves.
Follows(d) ==
  /\ work' = [e \in Runs |-> work'[e]] /\ disk' = [e \in Runs |-> disk'[e]]
  /\ asked' = [e \in Runs |-> asked'[e]]
  /\ RunSound(work'[d], disk'[d], asked'[d]) /\ work'[d].at # "new"
  /\ \A e \in Runs \ {d} : work'[e] = work[e] /\ disk'[e] = disk[e] /\ asked'[e] = asked[e]

LEMMA FollowsSound ==
  ASSUME RunsSound, NEW d \in Runs, Follows(d)
  PROVE  RunsSound' /\ \A e \in Runs : work[e].at # "new" => work'[e].at # "new"
<1>1. \A e \in Runs : RunSound(work'[e], disk'[e], asked'[e]) BY DEF RunsSound, Follows
<1>2. \A e \in Runs : work'[e] \in Works /\ disk'[e] \in Disks /\ asked'[e] \in Questions
  BY <1>1 DEF RunSound
<1>3. \A e \in Runs : work[e].at # "new" => work'[e].at # "new" BY DEF Follows
<1>4. /\ work' \in [Runs -> Works] /\ disk' \in [Runs -> Disks] /\ asked' \in [Runs -> Questions]
  BY <1>2 DEF Follows
<1> QED BY <1>1, <1>3, <1>4 DEF RunsSound

LEMMA WriteFollows ==
  ASSUME RunsSound, NEW d \in Runs, NEW files, NEW q \in Places \ {"new"}, NEW p \in {"failing", "over"},
         work[d].at \notin {"new", "over"},
         WriteTo(work[d], disk[d], files, q), Writes(d, files, q, p), asked' = asked
  PROVE  Follows(d)
<1>1. /\ work \in [Runs -> Works] /\ disk \in [Runs -> Disks] /\ asked \in [Runs -> Questions]
      /\ RunSound(work[d], disk[d], asked[d]) /\ work[d] \in Works
  BY DEF RunsSound
<1>2. /\ \/ disk'[d] = files /\ work'[d] = [work[d] EXCEPT !.at = q]
         \/ disk'[d] = disk[d] /\ work'[d] = [work[d] EXCEPT !.at = p]
      /\ \A e \in Runs \ {d} : disk'[e] = disk[e] /\ work'[e] = work[e]
      /\ disk' = [e \in Runs |-> disk'[e]] /\ work' = [e \in Runs |-> work'[e]]
  BY <1>1, WritesOrNot
<1>3. RunSound([work[d] EXCEPT !.at = q], files, asked[d]) BY <1>1, WrittenRun
<1>4. RunSound([work[d] EXCEPT !.at = p], disk[d], asked[d]) BY <1>1, Abandoned
<1>5. RunSound(work'[d], disk'[d], asked'[d]) BY <1>2, <1>3, <1>4
<1>6. \A r \in Places \ {"new"} : [work[d] EXCEPT !.at = r].at # "new" BY <1>1 DEF Works
<1>7. q \in Places \ {"new"} /\ p \in Places \ {"new"} BY DEF Places
<1>8. work'[d].at # "new" BY <1>2, <1>6, <1>7
<1>9. asked' = [e \in Runs |-> asked'[e]] BY <1>1
<1> QED BY <1>2, <1>5, <1>8, <1>9 DEF Follows

LEMMA ExecutesFollows ==
  ASSUME RunsSound, NEW d \in Runs, Executes(d)
  PROVE  Follows(d) /\ client' = client /\ wire' = wire
<1>1. /\ work \in [Runs -> Works] /\ disk \in [Runs -> Disks] /\ asked \in [Runs -> Questions]
      /\ RunSound(work[d], disk[d], asked[d]) /\ work[d] \in Works /\ work[d].rows \in Seq(Rows)
  BY DEF RunsSound, Works
<1>2. asked' = asked => asked' = [e \in Runs |-> asked'[e]] BY <1>1
<1>3. disk' = disk => disk' = [e \in Runs |-> disk'[e]] BY <1>1
<1>4. ASSUME NEW v, work' = [work EXCEPT ![d] = v]
      PROVE  /\ work' = [e \in Runs |-> work'[e]] /\ work'[d] = v
             /\ \A e \in Runs \ {d} : work'[e] = work[e]
  BY <1>1, <1>4
<1>5. CASE Execute(d)
  <2>1. PICK adapter \in Adapters, shape \in {<<1, 1>>, <<1, 2>>, <<MaxCells, 1>>} :
          Started(d, adapter, shape[1], shape[2], [disk[d] EXCEPT !.state = "started"])
    BY <1>5 DEF Execute
  <2>2. work[d].at = "new" /\ asked' = asked /\ client' = client /\ wire' = wire
    BY <1>5 DEF Execute
  <2>3. disk[d] = NoFiles /\ asked[d] = <<>> BY <1>1, <2>2 DEF RunSound, FilesFollow
  <2> DEFINE cells == shape[1]
             chain == shape[2]
             Begun(p) == [NoWork EXCEPT !.adapter = adapter, !.cells = cells, !.chain = chain, !.at = p]
  <2>4. cells \in 1..MaxCells /\ chain \in 1..2
    <3>1. MaxCells \in Nat \ {0, 1} BY RuntimeAssumption
    <3> QED BY <3>1
  <2>5. \/ /\ disk' = [disk EXCEPT ![d] = [NoFiles EXCEPT !.state = "started"]]
           /\ work' = [work EXCEPT ![d] = Begun("prepare")]
        \/ disk' = disk /\ work' = [work EXCEPT ![d] = Begun("over")]
    BY <2>1, <2>3 DEF Started
  <2> HIDE DEF cells, chain
  <2>6. RunSound(Begun("prepare"), [NoFiles EXCEPT !.state = "started"], <<>>)
    BY <2>4, StartedRun
  <2>7. RunSound(Begun("over"), NoFiles, <<>>) BY <2>4, StartedRun
  <2>8. Begun("prepare").at # "new" /\ Begun("over").at # "new"
    <3>1. cells \in 0..MaxCells /\ chain \in 0..2 /\ "prepare" \in Places /\ "over" \in Places
      BY <2>4, RuntimeAssumption DEF Places
    <3>2. Begun("prepare") = NewCall(adapter, cells, chain, "prepare")
          /\ Begun("over") = NewCall(adapter, cells, chain, "over")
      BY DEF NewCall
    <3> HIDE DEF Begun
    <3> QED BY <3>1, <3>2, CallStarts
  <2> HIDE DEF Begun
  <2>9. CASE /\ disk' = [disk EXCEPT ![d] = [NoFiles EXCEPT !.state = "started"]]
             /\ work' = [work EXCEPT ![d] = Begun("prepare")]
    <3> DEFINE g == [NoFiles EXCEPT !.state = "started"]
    <3> HIDE DEF g
    <3>1. disk' = [disk EXCEPT ![d] = g] BY <2>9 DEF g
    <3>2. disk' = [e \in Runs |-> disk'[e]] /\ disk'[d] = g /\ \A e \in Runs \ {d} : disk'[e] = disk[e]
      BY <1>1, <3>1
    <3>3. RunSound(work'[d], disk'[d], asked'[d]) BY <1>4, <2>2, <2>3, <2>6, <2>9, <3>2 DEF g
    <3> QED BY <1>2, <1>4, <2>2, <2>8, <2>9, <3>2, <3>3 DEF Follows
  <2>10. CASE disk' = disk /\ work' = [work EXCEPT ![d] = Begun("over")]
    <3>1. RunSound(work'[d], disk'[d], asked'[d]) BY <1>4, <2>2, <2>3, <2>7, <2>10
    <3> QED BY <1>2, <1>3, <1>4, <2>2, <2>8, <2>10, <3>1 DEF Follows
  <2> QED BY <2>2, <2>5, <2>9, <2>10
<1>6. CASE Prepare(d)
  <2>1. WriteTo(work[d], disk[d], [disk[d] EXCEPT !.input = TRUE], "ask") BY <1>6 DEF Prepare, WriteTo
  <2> QED BY <1>6, <2>1, WriteFollows DEF Prepare, Places
<1>7. CASE Observe(d)
  <2>1. WriteTo(work[d], disk[d], [disk[d] EXCEPT !.rows = work[d].rows], "output")
    BY <1>7 DEF Observe, WriteTo
  <2> QED BY <1>7, <2>1, WriteFollows DEF Observe, Places
<1>8. CASE Output(d)
  <2>1. WriteTo(work[d], disk[d], [disk[d] EXCEPT !.outputs = Answered(work[d].rows)], AfterCell(d))
    BY <1>8 DEF Output, WriteTo, AfterCell
  <2>2. AfterCell(d) \in Places \ {"new"} BY DEF AfterCell, Places
  <2> QED BY <1>8, <2>1, <2>2, WriteFollows DEF Output
<1>9. CASE Report(d)
  <2> DEFINE q == IF work[d].adapter = "none" THEN "end" ELSE "outbox"
  <2>1. WriteTo(work[d], disk[d], [disk[d] EXCEPT !.report = TRUE], q) BY <1>9 DEF Report, WriteTo
  <2>2. q \in Places \ {"new"} BY DEF Places
  <2>3. Writes(d, [disk[d] EXCEPT !.report = TRUE], q, "failing") BY <1>9 DEF Report
  <2> HIDE DEF q
  <2> QED BY <1>9, <2>1, <2>2, <2>3, WriteFollows DEF Report
<1>10. CASE Outbox(d)
  <2>1. WriteTo(work[d], disk[d], [disk[d] EXCEPT !.outbox = work[d].adapter], "end")
    BY <1>10 DEF Outbox, WriteTo
  <2> QED BY <1>10, <2>1, WriteFollows DEF Outbox, Places
<1>11. CASE End(d)
  <2> DEFINE g == [disk[d] EXCEPT !.state =
                    IF \A i \in DOMAIN work[d].rows : work[d].rows[i].status = "completed"
                      THEN "completed" ELSE "failed"]
  <2>1. WriteTo(work[d], disk[d], g, "over") BY <1>11 DEF End, WriteTo
  <2>2. Writes(d, g, "over", "failing") BY <1>11 DEF End
  <2> HIDE DEF g
  <2> QED BY <1>11, <2>1, <2>2, WriteFollows DEF End, Places
<1>12. CASE Handle(d)
  <2>1. WriteTo(work[d], disk[d], [disk[d] EXCEPT !.state = "interrupted_or_setup_failed"], "over")
    BY <1>12 DEF Handle, WriteTo
  <2> QED BY <1>12, <2>1, WriteFollows DEF Handle, Places
<1>13. CASE Expired(d) \/ Killed(d)
  <2>1. PICK p \in {"failing", "over"} : work' = [work EXCEPT ![d].at = p]
    BY <1>13 DEF Expired, Killed
  <2>2. /\ work[d].at \notin {"new", "over"}
        /\ disk' = disk /\ asked' = asked /\ client' = client /\ wire' = wire
    BY <1>13 DEF Expired, Killed
  <2> DEFINE v == [work[d] EXCEPT !.at = p]
  <2>3. work' = [work EXCEPT ![d] = v] BY <2>1
  <2>4. RunSound(v, disk[d], asked[d]) BY <1>1, <2>2, Abandoned
  <2>5. v.at # "new" BY <1>1 DEF Works
  <2> HIDE DEF v
  <2> QED BY <1>2, <1>3, <1>4, <2>2, <2>3, <2>4, <2>5 DEF Follows
<1>14. CASE Ask(d)
  <2>1. /\ work[d].at = "ask" /\ disk' = disk /\ client' = client /\ wire' = wire
        /\ asked' = [asked EXCEPT ![d] = Append(@, <<Len(work[d].rows) + 1, work[d].tries + 1>>)]
    BY <1>14 DEF Ask
  <2> DEFINE v == [work[d] EXCEPT !.at = "infer", !.tries = @ + 1]
             b == Append(asked[d], <<Len(work[d].rows) + 1, work[d].tries + 1>>)
  <2>2. work' = [work EXCEPT ![d] = v] BY <1>14 DEF Ask
  <2>3. RunSound(v, disk[d], b) BY <1>1, <2>1, AskedRun
  <2>4. v.at # "new" BY <1>1 DEF Works
  <2>5. asked' = [asked EXCEPT ![d] = b] BY <2>1
  <2> HIDE DEF v, b
  <2>6. /\ asked' = [e \in Runs |-> asked'[e]] /\ asked'[d] = b
        /\ \A e \in Runs \ {d} : asked'[e] = asked[e]
    BY <1>1, <2>5
  <2> QED BY <1>3, <1>4, <2>1, <2>2, <2>3, <2>4, <2>6 DEF Follows
<1>15. CASE Infer(d)
  <2>1. work[d].at = "infer" /\ disk' = disk /\ asked' = asked /\ client' = client /\ wire' = wire
    BY <1>15 DEF Infer
  <2>2. PICK row \in Rows : work' = [work EXCEPT ![d] = AfterAnswer(work[d], row)]
    BY <1>15 DEF Infer
  <2> DEFINE v == AfterAnswer(work[d], row)
  <2>3. work' = [work EXCEPT ![d] = v] BY <2>2
  <2>4. RunSound(v, disk[d], asked[d]) BY <1>1, <2>1, InferredRun
  <2>5. v.at # "new" BY <1>1 DEF Works, AfterAnswer
  <2> HIDE DEF v
  <2> QED BY <1>2, <1>3, <1>4, <2>1, <2>3, <2>4, <2>5 DEF Follows
<1> QED BY <1>5, <1>6, <1>7, <1>8, <1>9, <1>10, <1>11, <1>12, <1>13, <1>14, <1>15 DEF Executes

(***************************************************************************)
(* The invariant of the composition: the one of the memory, the one of     *)
(* each run, and captures only of runs that were made.                     *)
(***************************************************************************)

CallTypes == [at: {"idle", "sent", "replied"}, run: Runs \cup {None}, actor: Actors \cup {None},
              replied: {None} \cup [version: 1..MaxVersion, status: STATUS, quarantined: BOOLEAN]]

CapturesTyped ==
  /\ client \in [Clients -> CallTypes]
  /\ wire \subseteq {Sent(d, a) : d \in Runs, a \in Actors}

CapturesSound ==
  \A c \in Clients : client[c].at # "idle" =>
    client[c].run \in Runs /\ client[c].actor \in Actors /\ work[client[c].run].at # "new"

RunInv == MemoryInv /\ RunsSound /\ CapturesTyped /\ CapturesSound

LEMMA InitRun == ASSUME RuntimeInit PROVE RunInv
<1>1. MemoryInv BY InitMemory DEF RuntimeInit
<1>2. MaxCells \in Nat /\ None \notin {"completed", "failed"} /\ "none" \in Adapters
  BY RuntimeAssumption DEF Adapters
<1>3. <<>> \in Seq(Rows) OBVIOUS
<1>4. NoWork \in Works BY <1>2, <1>3 DEF NoWork, Works, Places
<1>5. NoFiles \in Disks BY <1>3 DEF NoFiles, Disks
<1>6. AskedBefore(NoWork, <<>>) /\ IsInjective(<<>>) /\ PreservedIn(NoFiles, <<>>) /\ <<>> \in Questions
  BY DEF AskedBefore, IsInjective, PreservedIn, Questions
<1>7. EarnedIn(NoWork, NoFiles) BY <1>2 DEF EarnedIn, NoFiles
<1>8. FilesFollow(NoWork, NoFiles) BY DEF FilesFollow, NoFiles, NoWork
<1>9. RunSound(NoWork, NoFiles, <<>>) BY <1>4, <1>5, <1>6, <1>7, <1>8 DEF RunSound
<1>10. RunsSound BY <1>4, <1>5, <1>6, <1>9 DEF RuntimeInit, RunsSound
<1>11. Resting \in CallTypes /\ Resting.at = "idle" BY DEF Resting, CallTypes
<1>12. CapturesTyped BY <1>11 DEF RuntimeInit, CapturesTyped
<1>13. CapturesSound BY <1>11 DEF RuntimeInit, CapturesSound
<1> QED BY <1>1, <1>10, <1>12, <1>13 DEF RunInv

\* A step of the composition is a step of the memory, or leaves it alone.
LEMMA StepOfMemory ==
  ASSUME CapturesTyped, CapturesSound, [RuntimeNext]_<<mvars, rvars>>
  PROVE  [Next]_vars
<1>1. CASE UNCHANGED mvars BY <1>1 DEF mvars, vars
<1>2. CASE Operates BY <1>2, OperatesIsNext
<1>3. CASE Late
  <2>1. PICK r \in wire : Capture(r) BY <1>3 DEF Late
  <2>2. PICK d \in Runs, a \in Actors : r = Sent(d, a) BY DEF CapturesTyped
  <2> QED BY <2>1, <2>2, CaptureIsNext
<1>4. ASSUME NEW c \in Clients, Served(c) PROVE [Next]_vars
  <2>1. client[c].at = "sent" BY <1>4 DEF Served
  <2>2. client[c].run \in Runs /\ client[c].actor \in Actors BY <2>1 DEF CapturesSound
  <2>3. Capture(Asking(c)) \/ UNCHANGED mvars BY <1>4 DEF Served
  <2>4. Asking(c) = Sent(client[c].run, client[c].actor) BY DEF Asking
  <2> QED BY <1>1, <2>2, <2>3, <2>4, CaptureIsNext
<1>5. UNCHANGED <<mvars, rvars>> => UNCHANGED mvars OBVIOUS
<1> QED BY <1>1, <1>2, <1>3, <1>4, <1>5 DEF RuntimeNext

\* What a process that captures is told has the type of an answer.
LEMMA AnswersTyped ==
  ASSUME TypeOK, NEW r \in Request, r.text \in Texts
  PROVE  /\ Answer(Built(r, None)) \in [version: 1..MaxVersion, status: STATUS, quarantined: BOOLEAN]
         /\ \A x \in Replays(r) :
              x.answer \in [version: 1..MaxVersion, status: STATUS, quarantined: BOOLEAN]
<1>1. Built(r, None) \in Entry BY BuiltType
<1>2. Answer(Built(r, None)) \in [version: 1..MaxVersion, status: STATUS, quarantined: BOOLEAN]
  BY <1>1 DEF Answer, Entry
<1>3. db.receipts \subseteq ReceiptRow BY DEF TypeOK, Database
<1>4. \A x \in Replays(r) : x \in db.receipts BY DEF Replays, Receipts
<1> QED BY <1>2, <1>3, <1>4 DEF ReceiptRow

\* A process that captures goes to another state of its call.
LEMMA GoesTyped ==
  ASSUME CapturesTyped, CapturesSound, NEW c \in Clients, NEW state \in CallTypes, Goes(c, state),
         \/ state.at = "idle"
         \/ state.run \in Runs /\ state.actor \in Actors /\ work[state.run].at # "new"
  PROVE  /\ client' \in [Clients -> CallTypes]
         /\ \A e \in Clients : client'[e].at # "idle" =>
              client'[e].run \in Runs /\ client'[e].actor \in Actors /\ work[client'[e].run].at # "new"
<1>1. client' = [client EXCEPT ![c] = state] /\ client \in [Clients -> CallTypes]
  BY DEF Goes, CapturesTyped
<1>2. client'[c] = state /\ \A e \in Clients \ {c} : client'[e] = client[e] BY <1>1
<1>3. client' \in [Clients -> CallTypes] BY <1>1
<1> QED BY <1>2, <1>3 DEF CapturesSound

\* A step of a process that captures.
LEMMA StepOfClient ==
  ASSUME RunInv, NEW c \in Clients, Send(c) \/ Served(c) \/ GivesUp(c)
  PROVE  RunsSound' /\ CapturesTyped' /\ CapturesSound'
<1>1. /\ CapturesTyped /\ CapturesSound /\ RunsSound /\ TypeOK /\ client[c] \in CallTypes
      /\ work' = work /\ disk' = disk /\ asked' = asked
  <2>1. CapturesTyped /\ CapturesSound /\ RunsSound /\ TypeOK BY DEF RunInv, MemoryInv
  <2>2. client[c] \in CallTypes BY <2>1 DEF CapturesTyped
  <2>3. CASE Send(c) BY <2>1, <2>2, <2>3 DEF Send
  <2>4. CASE Served(c) BY <2>1, <2>2, <2>4 DEF Served
  <2>5. CASE GivesUp(c) BY <2>1, <2>2, <2>5 DEF GivesUp
  <2> QED BY <2>3, <2>4, <2>5
<1>2. RunsSound' BY <1>1 DEF RunsSound
<1>3. Resting \in CallTypes /\ Resting.at = "idle" BY DEF Resting, CallTypes
<1>4. CASE Send(c)
  <2>1. PICK d \in Runs :
          /\ disk[d].outbox \in Actors /\ disk[d].report
          /\ Goes(c, [Resting EXCEPT !.at = "sent", !.run = d, !.actor = disk[d].outbox])
          /\ wire' = wire \cup {Sent(d, disk[d].outbox)}
    BY <1>4 DEF Send
  <2> DEFINE a == disk[d].outbox
             state == [at |-> "sent", run |-> d, actor |-> a, replied |-> None]
  <2>2. a # None BY <2>1, RuntimeAssumption
  <2>3. work[d].at # "new" BY <1>1, <2>2 DEF RunsSound, RunSound, FilesFollow, NoFiles
  <2>4. [Resting EXCEPT !.at = "sent", !.run = d, !.actor = a] = state
    <3> DEFINE Capturing(r, b) == [at |-> "sent", run |-> r, actor |-> b, replied |-> None]
    <3>1. [Resting EXCEPT !.at = "sent"] = Capturing(None, None) BY DEF Resting
    <3>2. [Capturing(None, None) EXCEPT !.run = d] = Capturing(d, None) OBVIOUS
    <3>3. [Capturing(d, None) EXCEPT !.actor = a] = Capturing(d, a) OBVIOUS
    <3>4. Capturing(d, a) = state OBVIOUS
    <3> HIDE DEF Capturing, state, a
    <3> QED BY <3>1, <3>2, <3>3, <3>4
  <2>5. Goes(c, state) BY <2>1, <2>4 DEF Goes
  <2>6. state \in CallTypes BY <2>1 DEF CallTypes
  <2>7. state.run \in Runs /\ state.actor \in Actors /\ work[state.run].at # "new" BY <2>1, <2>3
  <2> HIDE DEF state
  <2>8. /\ client' \in [Clients -> CallTypes]
        /\ \A e \in Clients : client'[e].at # "idle" =>
             client'[e].run \in Runs /\ client'[e].actor \in Actors /\ work[client'[e].run].at # "new"
    BY <1>1, <2>5, <2>6, <2>7, GoesTyped
  <2>9. wire' \subseteq {Sent(e, b) : e \in Runs, b \in Actors} BY <1>1, <2>1 DEF CapturesTyped
  <2> QED BY <1>1, <1>2, <2>8, <2>9 DEF CapturesTyped, CapturesSound
<1>5. CASE Served(c)
  <2>1. client[c].at = "sent" /\ wire' = wire BY <1>5 DEF Served
  <2>2. client[c].run \in Runs /\ client[c].actor \in Actors /\ work[client[c].run].at # "new"
    BY <1>1, <2>1 DEF CapturesSound
  <2>3. Asking(c) \in Request /\ Asking(c).text \in Texts
    BY <2>2, SentIsRequest DEF Asking, Sent
  <2>4. PICK reply \in [version: 1..MaxVersion, status: STATUS, quarantined: BOOLEAN] : Replies(c, reply)
    BY <1>1, <1>5, <2>3, AnswersTyped DEF Served
  <2> DEFINE state == [client[c] EXCEPT !.at = "replied", !.replied = reply]
  <2>5. /\ state \in CallTypes
        /\ state.run = client[c].run /\ state.actor = client[c].actor
    BY <1>1, <2>4 DEF CallTypes
  <2>6. Goes(c, state) BY <2>4 DEF Replies
  <2> HIDE DEF state
  <2>7. /\ client' \in [Clients -> CallTypes]
        /\ \A e \in Clients : client'[e].at # "idle" =>
             client'[e].run \in Runs /\ client'[e].actor \in Actors /\ work[client'[e].run].at # "new"
    BY <1>1, <2>2, <2>5, <2>6, GoesTyped
  <2> QED BY <1>1, <1>2, <2>1, <2>7 DEF CapturesTyped, CapturesSound
<1>6. CASE GivesUp(c)
  <2>1. Goes(c, Resting) /\ wire' = wire BY <1>6 DEF GivesUp
  <2>2. /\ client' \in [Clients -> CallTypes]
        /\ \A e \in Clients : client'[e].at # "idle" =>
             client'[e].run \in Runs /\ client'[e].actor \in Actors /\ work[client'[e].run].at # "new"
    BY <1>1, <1>3, <2>1, GoesTyped
  <2> QED BY <1>1, <1>2, <2>1, <2>2 DEF CapturesTyped, CapturesSound
<1> QED BY <1>4, <1>5, <1>6

\* A receipt is one more file in the directory of a run that was made.
LEMMA StepOfReceipt ==
  ASSUME RunInv, NEW c \in Clients, Receives(c)
  PROVE  RunsSound' /\ CapturesTyped' /\ CapturesSound'
<1>1. /\ CapturesTyped /\ CapturesSound /\ RunsSound /\ client[c] \in CallTypes
      /\ work' = work /\ asked' = asked /\ wire' = wire /\ Goes(c, Resting)
      /\ client[c].at = "replied"
  BY DEF RunInv, CapturesTyped, Receives
<1> DEFINE d == client[c].run
           g == [disk[d] EXCEPT !.receipt = TRUE]
<1>2. d \in Runs /\ work[d].at # "new" BY <1>1 DEF CapturesSound
<1>3. disk' = [disk EXCEPT ![d] = g] BY DEF Receives
<1>4. /\ disk \in [Runs -> Disks] /\ disk[d] \in Disks /\ RunSound(work[d], disk[d], asked[d])
  BY <1>1, <1>2 DEF RunsSound
<1>5. /\ g \in Disks /\ g.state = disk[d].state /\ g.rows = disk[d].rows /\ g.outputs = disk[d].outputs
      /\ g.report = disk[d].report /\ g.outbox = disk[d].outbox
  BY <1>4 DEF Disks
<1> HIDE DEF g, d
<1>6. PreservedIn(g, asked[d]) BY <1>4, <1>5 DEF RunSound, PreservedIn
<1>7. EarnedIn(work[d], g) BY <1>4, <1>5 DEF RunSound, EarnedIn
<1>8. FilesFollow(work[d], g) BY <1>2, <1>4, <1>5 DEF RunSound, FilesFollow
<1>9. RunSound(work[d], g, asked[d]) BY <1>4, <1>5, <1>6, <1>7, <1>8 DEF RunSound
<1>10. disk' \in [Runs -> Disks] /\ disk'[d] = g /\ \A e \in Runs \ {d} : disk'[e] = disk[e]
  BY <1>2, <1>3, <1>4, <1>5
<1>11. RunsSound' BY <1>1, <1>9, <1>10 DEF RunsSound
<1>12. Resting \in CallTypes /\ Resting.at = "idle" BY DEF Resting, CallTypes
<1>13. /\ client' \in [Clients -> CallTypes]
       /\ \A e \in Clients : client'[e].at # "idle" =>
            client'[e].run \in Runs /\ client'[e].actor \in Actors /\ work[client'[e].run].at # "new"
  BY <1>1, <1>12, GoesTyped
<1> QED BY <1>1, <1>11, <1>13 DEF CapturesTyped, CapturesSound

LEMMA StepRun == ASSUME RunInv, [RuntimeNext]_<<mvars, rvars>> PROVE RunInv'
<1>1. MemoryInv /\ RunsSound /\ CapturesTyped /\ CapturesSound BY DEF RunInv
<1>2. MemoryInv' BY <1>1, StepOfMemory, StepMemory
<1>3. CASE UNCHANGED rvars
  <2>1. work' = work /\ disk' = disk /\ asked' = asked /\ client' = client /\ wire' = wire
    BY <1>3 DEF rvars
  <2> QED BY <1>1, <1>2, <2>1 DEF RunInv, RunsSound, CapturesTyped, CapturesSound
<1>4. ASSUME NEW d \in Runs, Executes(d) PROVE RunInv'
  <2>1. Follows(d) /\ client' = client /\ wire' = wire BY <1>1, <1>4, ExecutesFollows
  <2>2. RunsSound' /\ \A e \in Runs : work[e].at # "new" => work'[e].at # "new"
    BY <1>1, <2>1, FollowsSound
  <2>3. CapturesTyped' BY <1>1, <2>1 DEF CapturesTyped
  <2>4. CapturesSound' BY <1>1, <2>1, <2>2 DEF CapturesSound
  <2> QED BY <1>2, <2>2, <2>3, <2>4 DEF RunInv
<1>5. ASSUME NEW c \in Clients, Send(c) \/ Served(c) \/ GivesUp(c) PROVE RunInv'
  BY <1>2, <1>5, StepOfClient DEF RunInv
<1>6. ASSUME NEW c \in Clients, Receives(c) PROVE RunInv'
  BY <1>2, <1>6, StepOfReceipt DEF RunInv
<1>7. Late \/ Operates => UNCHANGED rvars BY DEF Late, Operates
<1> QED BY <1>3, <1>4, <1>5, <1>6, <1>7 DEF RuntimeNext

THEOREM RunsStaySound == RuntimeSpec => []RunInv
BY InitRun, StepRun, PTL DEF RuntimeSpec

(***************************************************************************)
(* The theorems.                                                           *)
(***************************************************************************)

\* Every variable keeps its type, for any number of runs, cells and processes.
THEOREM RuntimeTypeCorrect == RuntimeSpec => []RuntimeTypeOK
<1>1. RunInv => RuntimeTypeOK
  BY DEF RunInv, MemoryInv, RunsSound, CapturesTyped, RuntimeTypeOK, Works, Places, Disks, Questions,
         CallTypes
<1> QED BY <1>1, RunsStaySound, PTL

\* No profile is asked twice for one cell of a run.
THEOREM QuestionsAskedOnce == RuntimeSpec => []AskedOnce
<1>1. RunInv => AskedOnce BY DEF RunInv, RunsSound, RunSound, AskedOnce
<1> QED BY <1>1, RunsStaySound, PTL

\* Before a cell is asked for, what came of those before it is on disk, and stays.
THEOREM CompletedWorkIsKept == RuntimeSpec => []WorkIsPreserved
<1>1. RunInv => WorkIsPreserved
  BY DEF RunInv, RunsSound, RunSound, PreservedIn, WorkIsPreserved
<1> QED BY <1>1, RunsStaySound, PTL

\* A state on disk that says completed or failed says what happened.
THEOREM StatusIsAlwaysEarned == RuntimeSpec => []StatusIsEarned
<1>1. RunInv => StatusIsEarned BY DEF RunInv, RunsSound, RunSound, EarnedIn, StatusIsEarned
<1> QED BY <1>1, RunsStaySound, PTL

\* The memory of the composed system behaves as SharedMemory specifies: runs and
\* their captures, lost and late ones included, do nothing the service does not allow.
THEOREM MemoryIsServed == RuntimeSpec => Spec
<1>1. RuntimeInit => Init BY DEF RuntimeInit
<1>2. RunInv /\ [RuntimeNext]_<<mvars, rvars>> => [Next]_vars BY StepOfMemory DEF RunInv
<1> QED BY <1>1, <1>2, RunsStaySound, PTL DEF RuntimeSpec, Spec

\* Whatever the processes that capture lose, repeat and deliver late, and whatever an
\* operator restores: one effect for each request, the right answer to each retry,
\* and nothing that was forgotten comes back.
THEOREM ServiceKeepsItsPromises ==
  RuntimeSpec => [](AtMostOnce /\ RetryIsAnswered) /\ ForgottenStaysForgotten
BY MemoryIsServed, RequestsTakeEffectOnce, RetriesAreAnswered, ForgettingIsForEver, PTL
(***************************************************************************)
(* What the memory ever held under the key of a run.                       *)
(***************************************************************************)

\* It was sent by the identity of the outbox, in quarantine,
EntriesBound ==
  \A d \in Runs : \A e \in Entry : <<d, e>> \in past => e.owner = disk[d].outbox /\ e.quarantined

\* for nobody else sends it, now or late, and who was answered was told of it;
CapturesBound ==
  /\ \A r \in wire : \E d \in Runs : disk[d].outbox \in Actors /\ r = Sent(d, disk[d].outbox)
  /\ \A c \in Clients :
       /\ client[c].at # "idle" => client[c].actor = disk[client[c].run].outbox
       /\ client[c].at = "replied" =>
            \E e \in Entry : <<client[c].run, e>> \in past /\ client[c].replied = Answer(e)

\* a receipt is of a first version there was.
ReceiptsBound ==
  \A d \in Runs : disk[d].receipt => \E e \in Entry : <<d, e>> \in past /\ e.version = 1

BoundInv == MemoryRemembers /\ EntriesBound /\ CapturesBound /\ ReceiptsBound

\* An outbox once written is never written again, and no run writes a receipt.
LEMMA OutboxStays ==
  ASSUME RunsSound, NEW d \in Runs, Executes(d)
  PROVE  \A e \in Runs : /\ disk[e].outbox # None => disk'[e].outbox = disk[e].outbox
                         /\ disk'[e].receipt = disk[e].receipt
<1>1. /\ disk \in [Runs -> Disks] /\ disk[d] \in Disks
      /\ work[d].at = "new" => disk[d] = NoFiles
      /\ work[d].at \notin {"end", "failing", "over"} => disk[d].outbox = None
  BY DEF RunsSound, RunSound, FilesFollow
<1>2. ASSUME NEW f, disk' = [disk EXCEPT ![d] = f] \/ disk' = disk,
             disk[d].outbox # None => f.outbox = disk[d].outbox, f.receipt = disk[d].receipt
      PROVE  \A e \in Runs : /\ disk[e].outbox # None => disk'[e].outbox = disk[e].outbox
                             /\ disk'[e].receipt = disk[e].receipt
  BY <1>1, <1>2
<1>3. CASE disk' = disk BY <1>3
<1>4. CASE Execute(d)
  <2>1. disk' = [disk EXCEPT ![d] = [disk[d] EXCEPT !.state = "started"]] \/ disk' = disk
    BY <1>4 DEF Execute, Started
  <2> DEFINE f == [disk[d] EXCEPT !.state = "started"]
  <2>2. f.outbox = disk[d].outbox /\ f.receipt = disk[d].receipt BY <1>1 DEF Disks
  <2> HIDE DEF f
  <2> QED BY <1>2, <2>1, <2>2 DEF f
<1>5. CASE Prepare(d)
  <2>1. disk' = [disk EXCEPT ![d] = [disk[d] EXCEPT !.input = TRUE]] \/ disk' = disk
    BY <1>5 DEF Prepare, Writes
  <2> DEFINE f == [disk[d] EXCEPT !.input = TRUE]
  <2>2. f.outbox = disk[d].outbox /\ f.receipt = disk[d].receipt BY <1>1 DEF Disks
  <2> HIDE DEF f
  <2> QED BY <1>2, <2>1, <2>2 DEF f
<1>6. CASE Observe(d)
  <2> DEFINE f == [disk[d] EXCEPT !.rows = work[d].rows]
  <2>1. disk' = [disk EXCEPT ![d] = f] \/ disk' = disk BY <1>6 DEF Observe, Writes
  <2>2. f.outbox = disk[d].outbox /\ f.receipt = disk[d].receipt BY <1>1 DEF Disks
  <2> HIDE DEF f
  <2> QED BY <1>2, <2>1, <2>2
<1>7. CASE Output(d)
  <2> DEFINE f == [disk[d] EXCEPT !.outputs = Answered(work[d].rows)]
  <2>1. disk' = [disk EXCEPT ![d] = f] \/ disk' = disk BY <1>7 DEF Output, Writes
  <2>2. f.outbox = disk[d].outbox /\ f.receipt = disk[d].receipt BY <1>1 DEF Disks
  <2> HIDE DEF f
  <2> QED BY <1>2, <2>1, <2>2
<1>8. CASE Report(d)
  <2> DEFINE f == [disk[d] EXCEPT !.report = TRUE]
  <2>1. disk' = [disk EXCEPT ![d] = f] \/ disk' = disk BY <1>8 DEF Report, Writes
  <2>2. f.outbox = disk[d].outbox /\ f.receipt = disk[d].receipt BY <1>1 DEF Disks
  <2> HIDE DEF f
  <2> QED BY <1>2, <2>1, <2>2
<1>9. CASE Outbox(d)
  <2> DEFINE f == [disk[d] EXCEPT !.outbox = work[d].adapter]
  <2>1. disk' = [disk EXCEPT ![d] = f] \/ disk' = disk BY <1>9 DEF Outbox, Writes
  <2>2. f.receipt = disk[d].receipt /\ disk[d].outbox = None BY <1>1, <1>9 DEF Disks, Outbox
  <2> HIDE DEF f
  <2> QED BY <1>2, <2>1, <2>2
<1>10. CASE End(d)
  <2> DEFINE state == IF \A i \in DOMAIN work[d].rows : work[d].rows[i].status = "completed"
                        THEN "completed" ELSE "failed"
             f == [disk[d] EXCEPT !.state = state]
  <2>1. disk' = [disk EXCEPT ![d] = f] \/ disk' = disk BY <1>10 DEF End, Writes
  <2>2. f.outbox = disk[d].outbox /\ f.receipt = disk[d].receipt BY <1>1 DEF Disks
  <2> HIDE DEF f
  <2> QED BY <1>2, <2>1, <2>2
<1>11. CASE Handle(d)
  <2> DEFINE f == [disk[d] EXCEPT !.state = "interrupted_or_setup_failed"]
  <2>1. disk' = [disk EXCEPT ![d] = f] \/ disk' = disk BY <1>11 DEF Handle, Writes
  <2>2. f.outbox = disk[d].outbox /\ f.receipt = disk[d].receipt BY <1>1 DEF Disks
  <2> HIDE DEF f
  <2> QED BY <1>2, <2>1, <2>2
<1>12. Expired(d) \/ Ask(d) \/ Infer(d) \/ Killed(d) => disk' = disk
  BY DEF Expired, Ask, Infer, Killed
<1> QED BY <1>3, <1>4, <1>5, <1>6, <1>7, <1>8, <1>9, <1>10, <1>11, <1>12 DEF Executes

\* A change of an entry there is keeps whose it is; one of another key concerns no run.
LEMMA ChangeKeepsBound ==
  ASSUME RunInv, BoundInv, NEW r \in Request, Changes(r),
         r.key \in Runs => Current(r.key) # None
  PROVE  \A d \in Runs : \A e \in Entry : <<d, e>> \in past' => e.owner = disk[d].outbox /\ e.quarantined
<1>1. TypeOK /\ OneRowIn(db) /\ r.op # "forget" /\ r.key \in Keys
      /\ (Current(r.key) # None => Current(r.key).version < MaxVersion)
  BY DEF RunInv, MemoryInv, Sound, Changes, Request
<1>2. PICK e \in Entry : Write(r, e) BY DEF Changes
<1> DEFINE new == StoredEntry(r.key, e)
           old == Current(r.key)
<1>3. past' = past \cup {<<r.key, new>>} BY <1>1, <1>2, Written
<1>4. /\ new \in Entry
      /\ old # None => new.owner = old.owner /\ (old.quarantined => new.quarantined)
  BY <1>1, <1>2, WriteKeeps
<1>5. old # None => old \in Entry /\ <<r.key, old>> \in past
  BY <1>1, RowType DEF TypeOK, Current, BoundInv, MemoryRemembers, RemembersIn
<1> HIDE DEF new, old
<1>6. ASSUME r.key \in Runs PROVE new.owner = disk[r.key].outbox /\ new.quarantined
  BY <1>4, <1>5, <1>6 DEF BoundInv, EntriesBound, old
<1>7. ASSUME NEW d \in Runs, NEW a \in Entry, <<d, a>> \in past'
      PROVE  a.owner = disk[d].outbox /\ a.quarantined
  <2>1. CASE <<d, a>> \in past BY <2>1 DEF BoundInv, EntriesBound
  <2>2. CASE <<d, a>> = <<r.key, new>> BY <1>6, <2>2
  <2> QED BY <1>3, <1>7, <2>1, <2>2
<1> QED BY <1>7

\* The capture of a run writes its observation, for the identity that sends it.
LEMMA CaptureKeepsBound ==
  ASSUME RunInv, BoundInv, NEW d \in Runs, disk[d].outbox \in Actors,
         Capture(Sent(d, disk[d].outbox))
  PROVE  /\ \A j \in Runs : \A e \in Entry : <<j, e>> \in past' => e.owner = disk[j].outbox /\ e.quarantined
         /\ \E e \in Entry : <<d, e>> \in past' /\ Answer(Built(Sent(d, disk[d].outbox), None)) = Answer(e)
<1> DEFINE r == Sent(d, disk[d].outbox)
           e == Built(r, None)
           new == StoredEntry(r.key, e)
<1>1. TypeOK /\ OneRowIn(db) BY DEF RunInv, MemoryInv, Sound
<1>2. r \in Request /\ r.text \in Texts /\ r.op # "forget" /\ r.key = d
  BY SentIsRequest DEF Sent
<1>3. e \in Entry BY <1>2, BuiltType
<1>4. e.owner = disk[d].outbox /\ e.quarantined /\ e.version = 1
  <2>1. r.actor = disk[d].outbox /\ r.text = Observation BY DEF Sent
  <2>2. Observation \in External BY RuntimeAssumption
  <2> QED BY <2>1, <2>2 DEF Built
<1>5. Current(r.key) = None /\ Write(r, e) BY DEF Capture
<1> HIDE DEF r, e
<1>6. past' = past \cup {<<r.key, new>>} BY <1>1, <1>2, <1>3, <1>5, Written
<1>7. /\ new \in Entry /\ new.owner = e.owner /\ (e.quarantined => new.quarantined) /\ new.version = e.version
      /\ Answer(new) = [version |-> new.version, status |-> e.status, quarantined |-> new.quarantined]
  BY <1>1, <1>2, <1>3, <1>5, WriteKeeps
<1> HIDE DEF new
<1>8. Answer(e) = Answer(new)
  <2>1. new.quarantined = e.quarantined
    <3>1. new.quarantined \in BOOLEAN /\ e.quarantined \in BOOLEAN BY <1>3, <1>7 DEF Entry
    <3> QED BY <1>4, <1>7, <3>1
  <2> QED BY <1>7, <2>1 DEF Answer
<1>9. \A j \in Runs : \A a \in Entry : <<j, a>> \in past' => a.owner = disk[j].outbox /\ a.quarantined
  <2> SUFFICES ASSUME NEW j \in Runs, NEW a \in Entry, <<j, a>> \in past'
               PROVE  a.owner = disk[j].outbox /\ a.quarantined
    OBVIOUS
  <2>1. CASE <<j, a>> \in past BY <2>1 DEF BoundInv, EntriesBound
  <2>2. CASE <<j, a>> = <<r.key, new>> BY <1>2, <1>4, <1>7, <2>2
  <2> QED BY <1>6, <2>1, <2>2
<1>10. <<d, new>> \in past' BY <1>2, <1>6
<1> QED BY <1>7, <1>8, <1>9, <1>10 DEF r, e

\* What others do with the memory.
LEMMA OperatesKeepsBound ==
  ASSUME RunInv, BoundInv, Operates
  PROVE  \A d \in Runs : \A e \in Entry : <<d, e>> \in past' => e.owner = disk[d].outbox /\ e.quarantined
<1>1. CASE past' = past BY <1>1 DEF BoundInv, EntriesBound
<1>2. Backup \/ Restore => past' = past BY DEF Backup, Restore
<1>3. CASE Calls(Operators, Ids \ Runs, Keys \ Runs)
  <2>1. TypeOK /\ LabelledIn(db) BY DEF RunInv, MemoryInv, Sound
  <2>2. Operators \subseteq Actors BY RuntimeAssumption
  <2>3. SUFFICES ASSUME NEW a \in Actors, NEW i \in Ids, NEW k \in Keys,
                        LET From(op, saw, text, status) ==
                              [actor |-> a, id |-> i, op |-> op, key |-> k,
                               saw |-> saw, text |-> text, status |-> status]
                        IN  \/ k \notin Runs /\ \E t \in Texts : Capture(From("capture", None, t, None))
                            \/ \E e \in Seen(k), t \in Texts : Correct(From("correct", e, t, None))
                            \/ \E e \in Seen(k), s \in STATUS \ {"proposal"} :
                                 Review(From("review", e, None, s))
                            \/ \E e \in Seen(k) : Forget(From("forget", e, None, None))
                 PROVE  \A d \in Runs : \A e \in Entry :
                          <<d, e>> \in past' => e.owner = disk[d].outbox /\ e.quarantined
    BY <1>3, <2>2 DEF Calls
  <2>4. Seen(k) \subseteq Entry /\ None \notin Seen(k) BY <2>1, NoneIsNoEntry DEF TypeOK, Seen
  <2> DEFINE From(op, saw, text, status) ==
               [actor |-> a, id |-> i, op |-> op, key |-> k,
                saw |-> saw, text |-> text, status |-> status]
  <2>5. CASE k \notin Runs /\ \E t \in Texts : Capture(From("capture", None, t, None))
    <3>1. PICK t \in Texts : Capture(From("capture", None, t, None)) BY <2>5
    <3>2. From("capture", None, t, None) \in Request BY DEF Request
    <3>3. Changes(From("capture", None, t, None)) BY <2>1, <3>1, <3>2, CallsWrite
    <3>4. From("capture", None, t, None).key \notin Runs BY <2>5
    <3> QED BY <3>2, <3>3, <3>4, ChangeKeepsBound
  <2>6. CASE \E e \in Seen(k), t \in Texts : Correct(From("correct", e, t, None))
    <3>1. PICK e \in Seen(k), t \in Texts : Correct(From("correct", e, t, None)) BY <2>6
    <3>2. From("correct", e, t, None) \in Request BY <2>4 DEF Request
    <3>3. Changes(From("correct", e, t, None)) BY <2>1, <2>4, <3>1, <3>2, CallsWrite
    <3>4. Current(From("correct", e, t, None).key) # None BY <3>1 DEF Correct, MayChange
    <3> QED BY <3>2, <3>3, <3>4, ChangeKeepsBound
  <2>7. CASE \E e \in Seen(k), s \in STATUS \ {"proposal"} : Review(From("review", e, None, s))
    <3>1. PICK e \in Seen(k), s \in STATUS \ {"proposal"} : Review(From("review", e, None, s)) BY <2>7
    <3>2. From("review", e, None, s) \in Request BY <2>4 DEF Request
    <3>3. Changes(From("review", e, None, s)) BY <2>1, <2>4, <3>1, <3>2, CallsWrite
    <3>4. Current(From("review", e, None, s).key) # None BY <3>1 DEF Review, MayChange
    <3> QED BY <3>2, <3>3, <3>4, ChangeKeepsBound
  <2>8. CASE \E e \in Seen(k) : Forget(From("forget", e, None, None))
    <3>1. past' = past BY <2>8 DEF Forget
    <3> QED BY <1>1, <3>1
  <2> QED BY <2>3, <2>5, <2>6, <2>7, <2>8
<1> QED BY <1>1, <1>2, <1>3 DEF Operates

LEMMA StepBound ==
  ASSUME RunInv, BoundInv, [RuntimeNext]_<<mvars, rvars>>
  PROVE  BoundInv'
<1>1. /\ MemoryInv /\ TypeOK /\ RunsSound /\ CapturesTyped /\ CapturesSound
      /\ MemoryRemembers /\ EntriesBound /\ CapturesBound /\ ReceiptsBound
  BY DEF RunInv, MemoryInv, BoundInv
<1>2. MemoryRemembers' /\ past \subseteq past' BY <1>1, StepOfMemory, StepRemembers
<1>3. client \in [Clients -> CallTypes] /\ wire \subseteq {Sent(d, a) : d \in Runs, a \in Actors}
      /\ None \notin Actors /\ disk \in [Runs -> Disks]
  BY <1>1, RuntimeAssumption DEF CapturesTyped, RunsSound
\* When the directories stay as they are, what was bound is.
<1>4. ASSUME disk' = disk, client' = client, wire' = wire,
             \A d \in Runs : \A e \in Entry : <<d, e>> \in past' => e.owner = disk[d].outbox /\ e.quarantined
      PROVE  BoundInv'
  <2>1. EntriesBound' BY <1>4 DEF EntriesBound
  <2>2. CapturesBound'
    <3>1. \A r \in wire' : \E d \in Runs : disk'[d].outbox \in Actors /\ r = Sent(d, disk'[d].outbox)
      BY <1>1, <1>4 DEF CapturesBound
    <3>2. \A c \in Clients :
            /\ client'[c].at # "idle" => client'[c].actor = disk'[client'[c].run].outbox
            /\ client'[c].at = "replied" =>
                 \E e \in Entry : <<client'[c].run, e>> \in past' /\ client'[c].replied = Answer(e)
      BY <1>1, <1>2, <1>4 DEF CapturesBound
    <3> QED BY <3>1, <3>2 DEF CapturesBound
  <2>3. ReceiptsBound' BY <1>1, <1>2, <1>4 DEF ReceiptsBound
  <2> QED BY <1>2, <2>1, <2>2, <2>3 DEF BoundInv
<1>5. \A d \in Runs : \A e \in Entry : <<d, e>> \in past => e.owner = disk[d].outbox /\ e.quarantined
  BY <1>1 DEF EntriesBound
<1>6. CASE UNCHANGED <<mvars, rvars>> BY <1>4, <1>5, <1>6 DEF mvars, rvars
<1>7. ASSUME NEW d \in Runs, Executes(d), UNCHANGED mvars PROVE BoundInv'
  <2>1. client' = client /\ wire' = wire /\ past' = past BY <1>1, <1>7, ExecutesFollows DEF mvars
  <2>2. \A e \in Runs : /\ disk[e].outbox # None => disk'[e].outbox = disk[e].outbox
                        /\ disk'[e].receipt = disk[e].receipt
    BY <1>1, <1>7, OutboxStays
  <2>3. EntriesBound'
    <3>1. \A e \in Entry : e.owner \in Actors BY DEF Entry
    <3> QED BY <1>1, <1>3, <2>1, <2>2, <3>1 DEF EntriesBound
  <2>4. CapturesBound'
    <3>1. \A r \in wire' : \E e \in Runs : disk'[e].outbox \in Actors /\ r = Sent(e, disk'[e].outbox)
      <4> TAKE r \in wire'
      <4>1. PICK e \in Runs : disk[e].outbox \in Actors /\ r = Sent(e, disk[e].outbox)
        BY <1>1, <2>1 DEF CapturesBound
      <4>2. disk'[e].outbox = disk[e].outbox BY <1>3, <2>2, <4>1
      <4> QED BY <4>1, <4>2
    <3>2. \A c \in Clients : client[c].at # "idle" => client[c].actor = disk'[client[c].run].outbox
      <4> SUFFICES ASSUME NEW c \in Clients, client[c].at # "idle"
                   PROVE  client[c].actor = disk'[client[c].run].outbox
        OBVIOUS
      <4>1. client[c].run \in Runs /\ client[c].actor \in Actors BY <1>1 DEF CapturesSound
      <4>2. client[c].actor = disk[client[c].run].outbox BY <1>1 DEF CapturesBound
      <4> QED BY <1>3, <2>2, <4>1, <4>2
    <3> QED BY <1>1, <2>1, <3>1, <3>2 DEF CapturesBound
  <2>5. ReceiptsBound' BY <1>1, <2>1, <2>2 DEF ReceiptsBound
  <2> QED BY <1>2, <2>3, <2>4, <2>5 DEF BoundInv
\* A process that captures goes on, and what it sends or is told is bound.
<1>8. ASSUME NEW c \in Clients, NEW state, Goes(c, state), disk' = disk,
             \A d \in Runs : \A e \in Entry : <<d, e>> \in past' => e.owner = disk[d].outbox /\ e.quarantined,
             \A r \in wire' : r \in wire \/ \E d \in Runs : disk[d].outbox \in Actors /\ r = Sent(d, disk[d].outbox),
             state.at # "idle" => state.actor = disk[state.run].outbox,
             state.at = "replied" =>
               \E e \in Entry : <<state.run, e>> \in past' /\ state.replied = Answer(e)
      PROVE  BoundInv'
  <2>1. client'[c] = state /\ \A k \in Clients \ {c} : client'[k] = client[k] BY <1>3, <1>8 DEF Goes
  <2>2. EntriesBound' BY <1>8 DEF EntriesBound
  <2>3. ReceiptsBound' BY <1>1, <1>2, <1>8 DEF ReceiptsBound
  <2>4. \A r \in wire' : \E d \in Runs : disk'[d].outbox \in Actors /\ r = Sent(d, disk'[d].outbox)
    BY <1>1, <1>8 DEF CapturesBound
  <2>5. ASSUME NEW k \in Clients
        PROVE  /\ client'[k].at # "idle" => client'[k].actor = disk'[client'[k].run].outbox
               /\ client'[k].at = "replied" =>
                    \E e \in Entry : <<client'[k].run, e>> \in past' /\ client'[k].replied = Answer(e)
    <3>1. CASE k = c BY <1>8, <2>1, <3>1
    <3>2. CASE k # c BY <1>1, <1>2, <1>8, <2>1, <3>2 DEF CapturesBound
    <3> QED BY <3>1, <3>2
  <2>6. CapturesBound' BY <2>4, <2>5 DEF CapturesBound
  <2> QED BY <1>2, <2>2, <2>3, <2>6 DEF BoundInv
<1>9. Resting.at = "idle" BY DEF Resting
<1>10. ASSUME NEW c \in Clients, Send(c), UNCHANGED mvars PROVE BoundInv'
  <2>1. PICK d \in Runs :
          /\ disk[d].outbox \in Actors /\ disk[d].report
          /\ Goes(c, [Resting EXCEPT !.at = "sent", !.run = d, !.actor = disk[d].outbox])
          /\ wire' = wire \cup {Sent(d, disk[d].outbox)}
    BY <1>10 DEF Send
  <2> DEFINE a == disk[d].outbox
             state == [Resting EXCEPT !.at = "sent", !.run = d, !.actor = a]
  <2>2. state.at = "sent" /\ state.run = d /\ state.actor = a BY DEF Resting
  <2>3. past' = past /\ disk' = disk BY <1>10 DEF mvars, Send
  <2> HIDE DEF state
  <2>4. Goes(c, state) BY <2>1 DEF state
  <2> QED BY <1>5, <1>8, <2>1, <2>2, <2>3, <2>4
<1>11. ASSUME NEW c \in Clients, GivesUp(c), UNCHANGED mvars PROVE BoundInv'
  <2>1. past' = past /\ disk' = disk /\ wire' = wire /\ Goes(c, Resting) BY <1>11 DEF mvars, GivesUp
  <2> QED BY <1>5, <1>8, <1>9, <2>1
<1>12. ASSUME NEW c \in Clients, Receives(c), UNCHANGED mvars PROVE BoundInv'
  <2> DEFINE d == client[c].run
             g == [disk[d] EXCEPT !.receipt = TRUE]
  <2>1. /\ past' = past /\ wire' = wire /\ Goes(c, Resting) /\ disk' = [disk EXCEPT ![d] = g]
        /\ client[c].at = "replied" /\ client[c].replied.version = 1
    BY <1>12 DEF mvars, Receives
  <2>2. d \in Runs BY <1>1, <2>1 DEF CapturesSound
  <2>3. g.outbox = disk[d].outbox BY <1>3, <2>2 DEF Disks
  <2> HIDE DEF g
  <2>4. disk'[d] = g /\ \A e \in Runs \ {d} : disk'[e] = disk[e] BY <1>3, <2>1, <2>2
  <2>5. \A e \in Runs : disk'[e].outbox = disk[e].outbox BY <2>2, <2>3, <2>4
  <2>6. PICK e \in Entry : <<d, e>> \in past /\ client[c].replied = Answer(e)
    BY <1>1, <2>1 DEF CapturesBound
  <2>7. e.version = 1 BY <2>1, <2>6 DEF Answer
  <2>8. ReceiptsBound' BY <1>1, <2>1, <2>2, <2>4, <2>6, <2>7 DEF ReceiptsBound
  <2>9. EntriesBound' BY <1>1, <2>1, <2>5 DEF EntriesBound
  <2>10. client'[c] = Resting /\ \A k \in Clients \ {c} : client'[k] = client[k] BY <1>3, <2>1 DEF Goes
  <2>11. \A r \in wire' : \E j \in Runs : disk'[j].outbox \in Actors /\ r = Sent(j, disk'[j].outbox)
    BY <1>1, <2>1, <2>5 DEF CapturesBound
  <2>12. ASSUME NEW k \in Clients
         PROVE  /\ client'[k].at # "idle" => client'[k].actor = disk'[client'[k].run].outbox
                /\ client'[k].at = "replied" =>
                     \E a \in Entry : <<client'[k].run, a>> \in past' /\ client'[k].replied = Answer(a)
    <3>1. CASE k = c BY <1>9, <2>10, <3>1
    <3>2. CASE k # c
      <4>1. client[k].at # "idle" => client[k].run \in Runs BY <1>1 DEF CapturesSound
      <4> QED BY <1>1, <2>1, <2>5, <2>10, <3>2, <4>1 DEF CapturesBound
    <3> QED BY <3>1, <3>2
  <2>13. CapturesBound' BY <2>11, <2>12 DEF CapturesBound
  <2> QED BY <1>2, <2>8, <2>9, <2>13 DEF BoundInv
<1>13. ASSUME NEW c \in Clients, Served(c) PROVE BoundInv'
  <2> DEFINE d == client[c].run
             r == Asking(c)
  <2>1. client[c].at = "sent" /\ disk' = disk /\ wire' = wire BY <1>13 DEF Served
  <2>2. d \in Runs /\ client[c].actor \in Actors /\ client[c].actor = disk[d].outbox
    BY <1>1, <2>1 DEF CapturesSound, CapturesBound
  <2>3. r = Sent(d, disk[d].outbox) BY <2>2 DEF Asking
  <2>4. PICK reply :
          /\ Replies(c, reply)
          /\ \/ Capture(r) /\ reply = Answer(Built(r, None))
             \/ (\E x \in Replays(r) : reply = x.answer) /\ past' = past
    BY <1>13 DEF Served, mvars
  <2>5. /\ \A j \in Runs : \A e \in Entry : <<j, e>> \in past' => e.owner = disk[j].outbox /\ e.quarantined
        /\ \E e \in Entry : <<d, e>> \in past' /\ reply = Answer(e)
    <3>1. CASE Capture(r) /\ reply = Answer(Built(r, None))
      BY <2>2, <2>3, <3>1, CaptureKeepsBound
    <3>2. CASE (\E x \in Replays(r) : reply = x.answer) /\ past' = past
      <4>1. PICK x \in Replays(r) : reply = x.answer BY <3>2
      <4>2. x \in db.receipts /\ x.fingerprint = Fingerprint(r) BY <4>1 DEF Replays, Receipts
      <4>3. x.fingerprint.key = d BY <2>3, <4>2 DEF Fingerprint, Sent
      <4>4. x.key = d /\ \E e \in Entry : <<x.key, e>> \in past /\ x.answer = Answer(e)
        BY <1>1, <4>2, <4>3 DEF MemoryRemembers, RemembersIn
      <4> QED BY <1>5, <3>2, <4>1, <4>4
    <3> QED BY <2>4, <3>1, <3>2
  <2> DEFINE state == [client[c] EXCEPT !.at = "replied", !.replied = reply]
  <2>6. state.at = "replied" /\ state.run = d /\ state.actor = client[c].actor /\ state.replied = reply
    BY <1>3 DEF CallTypes
  <2>7. Goes(c, state) BY <2>4 DEF Replies
  <2> HIDE DEF state
  <2> QED BY <1>8, <2>1, <2>2, <2>5, <2>6, <2>7
<1>14. CASE Late
  <2>1. PICK r \in wire : Capture(r) BY <1>14 DEF Late
  <2>2. PICK d \in Runs : disk[d].outbox \in Actors /\ r = Sent(d, disk[d].outbox)
    BY <1>1 DEF CapturesBound
  <2>3. \A j \in Runs : \A e \in Entry : <<j, e>> \in past' => e.owner = disk[j].outbox /\ e.quarantined
    BY <2>1, <2>2, CaptureKeepsBound
  <2> QED BY <1>4, <1>14, <2>3 DEF Late, rvars
<1>15. CASE Operates
  <2>1. \A j \in Runs : \A e \in Entry : <<j, e>> \in past' => e.owner = disk[j].outbox /\ e.quarantined
    BY <1>15, OperatesKeepsBound
  <2> QED BY <1>4, <1>15, <2>1 DEF Operates, rvars
<1> QED BY <1>6, <1>7, <1>10, <1>11, <1>12, <1>13, <1>14, <1>15 DEF RuntimeNext

\* What the memory ever held under the key of a run is a quarantined observation of
\* the identity of its outbox, written after its report, and a receipt is of one:
\* whatever is lost, late, corrected, reviewed, forgotten or restored.
THEOREM ObservationsStayBound == RuntimeSpec => []ObservationIsBound
<1>1. RuntimeInit => BoundInv
  <2>1. ASSUME RuntimeInit PROVE BoundInv
    <3>1. db.receipts = {} /\ backup = None /\ past = {} /\ wire = {} /\ \A k \in Keys : Row(db, k) = None
      BY <2>1 DEF RuntimeInit, Init, Row, Empty
    <3>2. /\ \A d \in Runs : ~disk[d].receipt
          /\ \A c \in Clients : client[c].at = "idle"
      BY <2>1 DEF RuntimeInit, NoFiles, Resting
    <3> QED BY <3>1, <3>2
        DEF BoundInv, MemoryRemembers, RemembersIn, EntriesBound, CapturesBound, ReceiptsBound
  <2> QED BY <2>1
<1>2. RunInv /\ BoundInv /\ [RuntimeNext]_<<mvars, rvars>> => BoundInv' BY StepBound
<1>3. RunInv /\ BoundInv => ObservationIsBound
  <2> SUFFICES ASSUME RunInv, BoundInv, NEW d \in Runs
               PROVE  /\ \A e \in Seen(d) : e.owner = disk[d].outbox /\ e.quarantined /\ disk[d].report
                      /\ disk[d].receipt => \E e \in Seen(d) : e.version = 1
    BY DEF ObservationIsBound
  <2>1. TypeOK /\ RunSound(work[d], disk[d], asked[d]) /\ None \notin Actors
    BY RuntimeAssumption DEF RunInv, MemoryInv, RunsSound
  <2>2. \A e : e \in Seen(d) <=> <<d, e>> \in past BY <2>1, SeenIs
  <2>3. past \subseteq Keys \X Entry BY <2>1 DEF TypeOK
  <2>4. ASSUME NEW e \in Seen(d) PROVE e.owner = disk[d].outbox /\ e.quarantined /\ disk[d].report
    <3>1. e \in Entry /\ <<d, e>> \in past BY <2>2, <2>3
    <3>2. e.owner = disk[d].outbox /\ e.quarantined BY <3>1 DEF BoundInv, EntriesBound
    <3>3. e.owner \in Actors BY <3>1 DEF Entry
    <3>4. disk[d].outbox # None => disk[d].report BY <2>1 DEF RunSound, FilesFollow
    <3> QED BY <2>1, <3>2, <3>3, <3>4
  <2>5. disk[d].receipt => \E e \in Seen(d) : e.version = 1
    BY <2>2 DEF BoundInv, ReceiptsBound
  <2> QED BY <2>4, <2>5
<1> QED BY <1>1, <1>2, <1>3, RunsStaySound, PTL DEF RuntimeSpec
=============================================================================
