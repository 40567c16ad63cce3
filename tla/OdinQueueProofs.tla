--------------------------- MODULE OdinQueueProofs ---------------------------
(***************************************************************************)
(* Proofs about the spool for any number of jobs, directories, discussions *)
(* and requests, and any limits.  The inductive invariant SpoolInv is at   *)
(* the end; it rests on a summary of what a step may write (StepWrites).   *)
(***************************************************************************)
EXTENDS OdinQueue, SequenceTheorems, FiniteSetTheorems, TLAPS

Status == {"queued"} \cup OCCUPIED \cup TERMINAL

-----------------------------------------------------------------------------
(* Images: what the four ways to build a new one return.                    *)

LEMMA ImageParts ==
  ASSUME NEW q \in Image
  PROVE  /\ q.jobs \in Seq(Job) /\ q.paused \in BOOLEAN
         /\ q = [paused |-> q.paused, jobs |-> q.jobs]
         /\ Len(q.jobs) \in Nat /\ DOMAIN q.jobs = 1 .. Len(q.jobs)
         /\ DOMAIN q.jobs \subseteq Nat
         /\ \A i \in DOMAIN q.jobs : q.jobs[i] \in Job
  BY DEF Image

LEMMA FunctionIsJobs ==
  ASSUME NEW q \in Image, NEW f \in [DOMAIN q.jobs -> Job]
  PROVE  f \in Seq(Job) /\ [q EXCEPT !.jobs = f] \in Image
<1>1. f \in Seq(Job)
  BY ImageParts, SeqDef
<1>2. QED  BY <1>1 DEF Image

LEMMA MarkTyped ==
  ASSUME NEW q \in Image, NEW S, NEW status \in Status
  PROVE  /\ Mark(q, S, status) \in Image
         /\ DOMAIN Mark(q, S, status).jobs = DOMAIN q.jobs
         /\ Mark(q, S, status).paused = q.paused
         /\ \A i \in DOMAIN q.jobs :
              Mark(q, S, status).jobs[i] =
                IF i \in S THEN [q.jobs[i] EXCEPT !.status = status] ELSE q.jobs[i]
<1> DEFINE f == [i \in DOMAIN q.jobs |->
                   IF i \in S THEN [q.jobs[i] EXCEPT !.status = status] ELSE q.jobs[i]]
<1>1. \A job \in Job : [job EXCEPT !.status = status] \in Job
  BY DEF Job, Status
<1>2. f \in [DOMAIN q.jobs -> Job]
  BY <1>1, ImageParts
<1>3. Mark(q, S, status) = [q EXCEPT !.jobs = f]
  BY DEF Mark
<1>4. /\ [q EXCEPT !.jobs = f].jobs = f
      /\ [q EXCEPT !.jobs = f].paused = q.paused
      /\ DOMAIN f = DOMAIN q.jobs
      /\ \A i \in DOMAIN q.jobs :
           f[i] = IF i \in S THEN [q.jobs[i] EXCEPT !.status = status] ELSE q.jobs[i]
  BY DEF Image
<1> HIDE DEF f
<1>5. [q EXCEPT !.jobs = f] \in Image
  BY <1>2, FunctionIsJobs
<1>6. QED  BY <1>3, <1>4, <1>5

LEMMA RecoveredTyped ==
  ASSUME NEW q \in Image
  PROVE  /\ Recovered(q) \in Image
         /\ DOMAIN Recovered(q).jobs = DOMAIN q.jobs
         /\ \A i \in DOMAIN q.jobs :
              Recovered(q).jobs[i] =
                IF i \in Active(q) THEN [q.jobs[i] EXCEPT !.status = "unknown", !.pending = {}]
                                   ELSE q.jobs[i]
<1> DEFINE f == [i \in DOMAIN q.jobs |->
                   IF i \in Active(q)
                   THEN [q.jobs[i] EXCEPT !.status = "unknown", !.pending = {}]
                   ELSE q.jobs[i]]
<1>1. \A job \in Job : [job EXCEPT !.status = "unknown", !.pending = {}] \in Job
  BY DEF Job, OCCUPIED
<1>2. f \in [DOMAIN q.jobs -> Job]
  BY <1>1, ImageParts
<1>3. Recovered(q) = [q EXCEPT !.jobs = f]
  BY DEF Recovered
<1>4. /\ [q EXCEPT !.jobs = f].jobs = f
      /\ DOMAIN f = DOMAIN q.jobs
      /\ \A i \in DOMAIN q.jobs :
           f[i] = IF i \in Active(q)
                  THEN [q.jobs[i] EXCEPT !.status = "unknown", !.pending = {}]
                  ELSE q.jobs[i]
  BY DEF Image
<1> HIDE DEF f
<1>5. [q EXCEPT !.jobs = f] \in Image
  BY <1>2, FunctionIsJobs
<1>6. QED  BY <1>3, <1>4, <1>5

LEMMA AppendTyped ==
  ASSUME NEW q \in Image, NEW job \in Job
  PROVE  LET new == [q EXCEPT !.jobs = Append(@, job)]
         IN  /\ new \in Image
             /\ DOMAIN new.jobs = DOMAIN q.jobs \cup {Len(q.jobs) + 1}
             /\ \A i \in DOMAIN q.jobs : new.jobs[i] = q.jobs[i]
             /\ new.jobs[Len(q.jobs) + 1] = job
  BY ImageParts, SMTT(30) DEF Image

LEMMA PatchTyped ==
  ASSUME NEW q \in Image, NEW i \in DOMAIN q.jobs, NEW job \in Job
  PROVE  LET new == [q EXCEPT !.jobs[i] = job]
         IN  /\ new \in Image
             /\ DOMAIN new.jobs = DOMAIN q.jobs
             /\ \A k \in DOMAIN q.jobs : new.jobs[k] = IF k = i THEN job ELSE q.jobs[k]
  BY DEF Image

LEMMA ActiveFinite ==
  ASSUME NEW q \in Image
  PROVE  /\ IsFiniteSet(Active(q)) /\ Cardinality(Active(q)) \in Nat
         /\ IsFiniteSet(Running(q)) /\ Cardinality(Running(q)) \in Nat
         /\ Running(q) \subseteq Active(q)
<1>1. 1 \in Int /\ Len(q.jobs) \in Int
  BY ImageParts
<1>2. IsFiniteSet(1 .. Len(q.jobs))
  BY <1>1, FS_Interval
<1>3. Active(q) \subseteq 1 .. Len(q.jobs) /\ Running(q) \subseteq Active(q)
  BY ImageParts DEF Active, Running
<1>4. IsFiniteSet(Active(q)) /\ IsFiniteSet(Running(q))
  BY <1>2, <1>3, FS_Subset
<1>5. QED  BY <1>3, <1>4, FS_CardinalityType

-----------------------------------------------------------------------------
(* What a change that hands out nothing is to SlotLedger: nothing, a new    *)
(* mission, missions dropped together, or one slot released.                *)
Waiting(q) == {i \in DOMAIN q.jobs : q.jobs[i].status = "queued"}
Finished(q) == {i \in DOMAIN q.jobs : q.jobs[i].status \in TERMINAL}

Unmoved(q, n) ==
  Waiting(n) = Waiting(q) /\ Active(n) = Active(q) /\ Finished(n) = Finished(q)
Enqueues(q, n) ==
  /\ \E i : i \notin Waiting(q) \cup Active(q) \cup Finished(q) /\ Waiting(n) = Waiting(q) \cup {i}
  /\ Active(n) = Active(q) /\ Finished(n) = Finished(q)
Drops(q, n) ==
  /\ \E lost \in SUBSET Waiting(q) :
       Waiting(n) = Waiting(q) \ lost /\ Finished(n) = Finished(q) \cup lost
  /\ Active(n) = Active(q)
Releases(q, n) ==
  /\ Waiting(n) = Waiting(q)
  /\ \E i \in Active(q) : Active(n) = Active(q) \ {i} /\ Finished(n) = Finished(q) \cup {i}

Books(q, n) == Unmoved(q, n) \/ Enqueues(q, n) \/ Drops(q, n) \/ Releases(q, n)

(* A change from image q to image n that hands out nothing: it may add      *)
(* queued jobs, finish jobs, and move those that hold a slot, along Moves;  *)
(* it brings no two jobs onto one discussion, leaves requests to jobs that  *)
(* may keep them, and adds a job only within the limit on open ones.        *)
Moved(old, new) ==
  /\ <<old.status, new.status>> \in Moves
  /\ new.status = "queued" => old.status = "queued"
  /\ new.status \in OCCUPIED => old.status \in OCCUPIED
  /\ new.status \in OCCUPIED \ {"unknown"} => old.status \in OCCUPIED \ {"unknown"}
  /\ new.cwd = old.cwd
  /\ PendingFits(old) => PendingFits(new)

Quiets(q, n) ==
  /\ n \in Image /\ DOMAIN q.jobs \subseteq DOMAIN n.jobs
  /\ \A i \in DOMAIN q.jobs : Moved(q.jobs[i], n.jobs[i])
  /\ \A i \in DOMAIN n.jobs \ DOMAIN q.jobs :
       n.jobs[i].status = "queued" /\ PendingFits(n.jobs[i])
  /\ Open(n) \subseteq Open(q) \/ Cardinality(Open(n)) <= MaxOpen
  /\ Books(q, n)
  /\ \A i, k \in DOMAIN q.jobs :
       i # k /\ n.jobs[i].thread # None /\ n.jobs[i].thread = n.jobs[k].thread
         => q.jobs[i].thread # None /\ q.jobs[i].thread = q.jobs[k].thread

(* A job is only ever given a discussion that no other job has.             *)
OwnThread(q, i, thread) ==
  \/ thread = q.jobs[i].thread
  \/ \A k \in DOMAIN q.jobs : q.jobs[k].thread # thread

LEMMA MovesFacts ==
  /\ \A s \in Status : <<s, s>> \in Moves
  /\ \A s \in OCCUPIED : <<s, "unknown">> \in Moves
  /\ \A s \in OCCUPIED, t \in TERMINAL \ {"cancelled"} : <<s, t>> \in Moves
  /\ \A s \in OCCUPIED \ {"unknown", "cancelling"} : <<s, "waiting_approval">> \in Moves
  /\ <<"queued", "failed">> \in Moves /\ <<"queued", "cancelled">> \in Moves
  /\ <<"queued", "starting">> \in Moves /\ <<"starting", "running">> \in Moves
  /\ <<"waiting_approval", "running">> \in Moves
  /\ <<"running", "cancelling">> \in Moves /\ <<"waiting_approval", "cancelling">> \in Moves
  BY DEF Moves, Status, OCCUPIED, TERMINAL

(* A finished job never comes back to the count of open ones.               *)
LEMMA OpenKept ==
  ASSUME NEW q \in Image, NEW n, DOMAIN n.jobs \subseteq DOMAIN q.jobs,
         \A i \in DOMAIN n.jobs : Moved(q.jobs[i], n.jobs[i])
  PROVE  Open(n) \subseteq Open(q)
<1>1. \A s \in TERMINAL : \A t : <<s, t>> \in Moves => t \in TERMINAL
  BY DEF Moves, OCCUPIED, TERMINAL
<1>2. QED  BY <1>1 DEF Moved, Open

LEMMA OpenFinite ==
  ASSUME NEW q \in Image
  PROVE  IsFiniteSet(Open(q)) /\ Cardinality(Open(q)) \in Nat
<1>1. IsFiniteSet(1 .. Len(q.jobs))
  <2>1. 1 \in Int /\ Len(q.jobs) \in Int
    BY ImageParts
  <2>2. QED  BY <2>1, FS_Interval
<1>2. Open(q) \subseteq 1 .. Len(q.jobs)
  BY ImageParts DEF Open
<1>3. QED  BY <1>1, <1>2, FS_Subset, FS_CardinalityType

(* One job moves: it stays where it is in the ledger, is dropped or ends.    *)
LEMMA PatchBooks ==
  ASSUME NEW q \in Image, NEW n \in Image, NEW i \in DOMAIN q.jobs, DOMAIN n.jobs = DOMAIN q.jobs,
         \A k \in DOMAIN q.jobs : k # i => n.jobs[k] = q.jobs[k],
         Moved(q.jobs[i], n.jobs[i])
  PROVE  Books(q, n)
<1> DEFINE old == q.jobs[i].status
           new == n.jobs[i].status
<1>1. /\ <<old, new>> \in Moves /\ old \in Status /\ new \in Status
      /\ new \in OCCUPIED => old \in OCCUPIED
  BY ImageParts DEF Moved, Job, Status
<1>2. /\ \A s \in OCCUPIED : s \notin TERMINAL /\ s # "queued"
      /\ "queued" \notin TERMINAL
  BY DEF OCCUPIED, TERMINAL
<1>3. /\ old = "queued" => new \in {"queued"} \cup TERMINAL
      /\ old \in OCCUPIED => new \in OCCUPIED \cup TERMINAL
      /\ old \in TERMINAL => new \in TERMINAL
  BY <1>1 DEF Moves, OCCUPIED, TERMINAL
<1>4. \A k \in DOMAIN q.jobs :
        /\ k \in Waiting(q) <=> q.jobs[k].status = "queued"
        /\ k \in Active(q) <=> q.jobs[k].status \in OCCUPIED
        /\ k \in Finished(q) <=> q.jobs[k].status \in TERMINAL
        /\ k \in Waiting(n) <=> n.jobs[k].status = "queued"
        /\ k \in Active(n) <=> n.jobs[k].status \in OCCUPIED
        /\ k \in Finished(n) <=> n.jobs[k].status \in TERMINAL
  BY DEF Waiting, Active, Finished
<1>5. /\ Waiting(q) \subseteq DOMAIN q.jobs /\ Waiting(n) \subseteq DOMAIN q.jobs
      /\ Active(q) \subseteq DOMAIN q.jobs /\ Active(n) \subseteq DOMAIN q.jobs
      /\ Finished(q) \subseteq DOMAIN q.jobs /\ Finished(n) \subseteq DOMAIN q.jobs
  BY DEF Waiting, Active, Finished
<1> HIDE DEF old, new
<1>6. CASE \/ old = "queued" /\ new = "queued"
           \/ old \in OCCUPIED /\ new \in OCCUPIED
           \/ old \in TERMINAL /\ new \in TERMINAL
  <2>1. \A k \in DOMAIN q.jobs :
          /\ n.jobs[k].status = "queued" <=> q.jobs[k].status = "queued"
          /\ n.jobs[k].status \in OCCUPIED <=> q.jobs[k].status \in OCCUPIED
          /\ n.jobs[k].status \in TERMINAL <=> q.jobs[k].status \in TERMINAL
    BY <1>2, <1>6 DEF old, new
  <2>2. Unmoved(q, n)
    BY <1>4, <1>5, <2>1 DEF Unmoved
  <2>3. QED  BY <2>2 DEF Books
<1>7. CASE old = "queued" /\ new \in TERMINAL
  <2>1. i \in Waiting(q) /\ i \notin Waiting(n) /\ i \notin Active(q) /\ i \notin Active(n)
        /\ i \in Finished(n)
    BY <1>2, <1>4, <1>7 DEF old, new
  <2>2. Waiting(n) = Waiting(q) \ {i} /\ Finished(n) = Finished(q) \cup {i} /\ Active(n) = Active(q)
    BY <1>4, <1>5, <2>1
  <2>3. QED  BY <2>1, <2>2 DEF Books, Drops
<1>8. CASE old \in OCCUPIED /\ new \in TERMINAL
  <2>1. i \notin Waiting(q) /\ i \notin Waiting(n) /\ i \in Active(q) /\ i \notin Active(n)
        /\ i \in Finished(n)
    BY <1>2, <1>4, <1>8 DEF old, new
  <2>2. Waiting(n) = Waiting(q) /\ Finished(n) = Finished(q) \cup {i} /\ Active(n) = Active(q) \ {i}
    BY <1>4, <1>5, <2>1
  <2>3. QED  BY <2>1, <2>2 DEF Books, Releases
<1>9. old = "queued" \/ old \in OCCUPIED \/ old \in TERMINAL
  BY <1>1 DEF Status
<1>10. CASE old = "queued"
  <2>1. new = "queued" \/ new \in TERMINAL
    BY <1>3, <1>10
  <2>2. QED  BY <1>6, <1>7, <1>10, <2>1
<1>11. CASE old \in OCCUPIED
  BY <1>3, <1>6, <1>8, <1>11
<1>12. CASE old \in TERMINAL
  BY <1>3, <1>6, <1>12
<1>13. QED  BY <1>9, <1>10, <1>11, <1>12

LEMMA SameQuiets ==
  ASSUME NEW q \in Image, NEW n \in Image, n.jobs = q.jobs
  PROVE  Quiets(q, n)
<1>1. \A i \in DOMAIN q.jobs : Moved(q.jobs[i], q.jobs[i])
  BY MovesFacts, ImageParts DEF Moved, Status, Job
<1>2. Books(q, n)
  BY DEF Books, Unmoved, Waiting, Active, Finished
<1>3. QED  BY <1>1, <1>2, OpenKept DEF Quiets

LEMMA PatchQuiets ==
  ASSUME NEW q \in Image, NEW i \in DOMAIN q.jobs, NEW job \in Job,
         Moved(q.jobs[i], job), OwnThread(q, i, job.thread)
  PROVE  Quiets(q, [q EXCEPT !.jobs[i] = job])
<1> DEFINE n == [q EXCEPT !.jobs[i] = job]
<1>1. /\ n \in Image /\ DOMAIN n.jobs = DOMAIN q.jobs
      /\ \A k \in DOMAIN q.jobs : n.jobs[k] = IF k = i THEN job ELSE q.jobs[k]
  BY PatchTyped
<1>2. \A k \in DOMAIN q.jobs : Moved(q.jobs[k], q.jobs[k])
  BY MovesFacts, ImageParts DEF Moved, Status, Job
<1> HIDE DEF n
<1>3. \A k \in DOMAIN q.jobs : Moved(q.jobs[k], n.jobs[k])
  BY <1>1, <1>2
<1>4. ASSUME NEW a \in DOMAIN q.jobs, NEW b \in DOMAIN q.jobs, a # b,
             n.jobs[a].thread # None, n.jobs[a].thread = n.jobs[b].thread
      PROVE  q.jobs[a].thread # None /\ q.jobs[a].thread = q.jobs[b].thread
  BY <1>1, <1>4 DEF OwnThread
<1>5. Books(q, n)
  BY <1>1, <1>3, PatchBooks
<1>6. QED  BY <1>1, <1>3, <1>4, <1>5, OpenKept DEF Quiets, n

LEMMA AppendQuiets ==
  ASSUME NEW q \in Image, NEW job \in Job, job.status = "queued", job.pending = {},
         Cardinality(Open(q)) < MaxOpen
  PROVE  Quiets(q, [q EXCEPT !.jobs = Append(@, job)])
<1> DEFINE n == [q EXCEPT !.jobs = Append(@, job)]
<1>1. /\ n \in Image /\ DOMAIN n.jobs = DOMAIN q.jobs \cup {Len(q.jobs) + 1}
      /\ \A i \in DOMAIN q.jobs : n.jobs[i] = q.jobs[i]
      /\ n.jobs[Len(q.jobs) + 1] = job
  BY AppendTyped
<1>2. \A k \in DOMAIN q.jobs : Moved(q.jobs[k], q.jobs[k])
  BY MovesFacts, ImageParts DEF Moved, Status, Job
<1>3. Open(n) \subseteq Open(q) \cup {Len(q.jobs) + 1}
  BY <1>1 DEF Open
<1>4. Len(q.jobs) + 1 \notin Open(q)
  BY ImageParts DEF Open
<1>5. Cardinality(Open(q) \cup {Len(q.jobs) + 1}) = Cardinality(Open(q)) + 1
      /\ IsFiniteSet(Open(q) \cup {Len(q.jobs) + 1})
  BY <1>4, OpenFinite, FS_AddElement
<1>6. Cardinality(Open(n)) <= Cardinality(Open(q)) + 1
  BY <1>3, <1>5, FS_Subset
<1> HIDE DEF n
<1>7. Cardinality(Open(n)) \in Nat /\ Cardinality(Open(q)) \in Nat /\ MaxOpen \in Nat
  BY <1>1, OpenFinite, LimitsAssumption
<1>8. Cardinality(Open(n)) <= MaxOpen
  BY <1>6, <1>7
<1>9. PendingFits(job)
  BY DEF PendingFits
<1>10. Books(q, n)
  <2>1. Len(q.jobs) + 1 \notin DOMAIN q.jobs
    BY ImageParts
  <2>2. /\ Waiting(n) = Waiting(q) \cup {Len(q.jobs) + 1}
        /\ Active(n) = Active(q) /\ Finished(n) = Finished(q)
    BY <1>1, <2>1 DEF Waiting, Active, Finished, OCCUPIED, TERMINAL
  <2>3. Len(q.jobs) + 1 \notin Waiting(q) \cup Active(q) \cup Finished(q)
    BY <2>1 DEF Waiting, Active, Finished
  <2>4. QED  BY <2>2, <2>3 DEF Books, Enqueues
<1>11. QED  BY <1>1, <1>2, <1>8, <1>9, <1>10 DEF Quiets, n

LEMMA FailBooks ==
  ASSUME NEW q \in Image, NEW S \in SUBSET Candidates(q)
  PROVE  LET n == Mark(q, S, "failed")
         IN  /\ S \subseteq Waiting(q) /\ Active(n) = Active(q)
             /\ Waiting(n) = Waiting(q) \ S /\ Finished(n) = Finished(q) \cup S
<1> DEFINE n == Mark(q, S, "failed")
<1>1. /\ DOMAIN n.jobs = DOMAIN q.jobs
      /\ \A i \in DOMAIN q.jobs :
           n.jobs[i].status = IF i \in S THEN "failed" ELSE q.jobs[i].status
  <2>1. /\ DOMAIN n.jobs = DOMAIN q.jobs
        /\ \A i \in DOMAIN q.jobs :
             n.jobs[i] = IF i \in S THEN [q.jobs[i] EXCEPT !.status = "failed"] ELSE q.jobs[i]
    BY MarkTyped DEF Status, TERMINAL
  <2>2. QED  BY <2>1, ImageParts DEF Job
<1> HIDE DEF n
<1>2. S \subseteq DOMAIN q.jobs /\ \A i \in S : q.jobs[i].status = "queued"
  BY DEF Candidates
<1>3. "failed" \in TERMINAL /\ "failed" \notin OCCUPIED /\ "queued" \notin OCCUPIED
      /\ "queued" \notin TERMINAL
  BY DEF TERMINAL, OCCUPIED
<1>4. QED  BY <1>1, <1>2, <1>3 DEF Waiting, Active, Finished, n

LEMMA FailQuiets ==
  ASSUME NEW q \in Image, NEW S \in SUBSET Candidates(q)
  PROVE  Quiets(q, Mark(q, S, "failed"))
<1> DEFINE n == Mark(q, S, "failed")
<1>1. /\ n \in Image /\ DOMAIN n.jobs = DOMAIN q.jobs
      /\ \A i \in DOMAIN q.jobs :
           n.jobs[i] = IF i \in S THEN [q.jobs[i] EXCEPT !.status = "failed"] ELSE q.jobs[i]
  BY MarkTyped DEF Status, TERMINAL
<1>2. \A i \in DOMAIN q.jobs : Moved(q.jobs[i], q.jobs[i])
  BY MovesFacts, ImageParts DEF Moved, Status, Job
<1>3. ASSUME NEW i \in S
      PROVE  Moved(q.jobs[i], [q.jobs[i] EXCEPT !.status = "failed"])
  <2>1. q.jobs[i] \in Job /\ q.jobs[i].status = "queued"
    BY ImageParts DEF Candidates
  <2>2. /\ [q.jobs[i] EXCEPT !.status = "failed"].status = "failed"
        /\ [q.jobs[i] EXCEPT !.status = "failed"].cwd = q.jobs[i].cwd
        /\ [q.jobs[i] EXCEPT !.status = "failed"].pending = q.jobs[i].pending
    BY <2>1 DEF Job
  <2>3. QED  BY ONLY <2>1, <2>2, MovesFacts DEF Moved, PendingFits, OCCUPIED
<1>4. \A i \in DOMAIN q.jobs : n.jobs[i].thread = q.jobs[i].thread
  BY <1>1, ImageParts DEF Job
<1> HIDE DEF n
<1>5. \A i \in DOMAIN q.jobs : Moved(q.jobs[i], n.jobs[i])
  BY <1>1, <1>2, <1>3
<1>6. Books(q, n)
  BY FailBooks DEF Books, Drops, n
<1>7. QED  BY <1>1, <1>4, <1>5, <1>6, OpenKept DEF Quiets, n

LEMMA RecoveredQuiets ==
  ASSUME NEW q \in Image
  PROVE  /\ Quiets(q, Recovered(q))
         /\ Running(Recovered(q)) = {}
<1> DEFINE n == Recovered(q)
<1>1. /\ n \in Image /\ DOMAIN n.jobs = DOMAIN q.jobs
      /\ \A i \in DOMAIN q.jobs :
           n.jobs[i] = IF i \in Active(q) THEN [q.jobs[i] EXCEPT !.status = "unknown", !.pending = {}]
                                          ELSE q.jobs[i]
  BY RecoveredTyped
<1>2. \A i \in DOMAIN q.jobs : Moved(q.jobs[i], q.jobs[i])
  BY MovesFacts, ImageParts DEF Moved, Status, Job
<1>3. \A i \in Active(q) :
        Moved(q.jobs[i], [q.jobs[i] EXCEPT !.status = "unknown", !.pending = {}])
  <2> SUFFICES ASSUME NEW i \in Active(q)
               PROVE  Moved(q.jobs[i], [q.jobs[i] EXCEPT !.status = "unknown", !.pending = {}])
    OBVIOUS
  <2>1. q.jobs[i] \in Job /\ q.jobs[i].status \in OCCUPIED
    BY ImageParts DEF Active
  <2> DEFINE new == [q.jobs[i] EXCEPT !.status = "unknown", !.pending = {}]
  <2>2. new.status = "unknown" /\ new.cwd = q.jobs[i].cwd /\ new.pending = {}
    BY <2>1 DEF Job
  <2> HIDE DEF new
  <2>3. Moved(q.jobs[i], new)
    BY <2>1, <2>2, MovesFacts DEF Moved, PendingFits, OCCUPIED
  <2>4. QED  BY <2>3 DEF new
<1>4. \A i \in DOMAIN q.jobs : n.jobs[i].thread = q.jobs[i].thread
  BY <1>1, ImageParts DEF Job
<1>5. \A i \in DOMAIN q.jobs : n.jobs[i].status \in OCCUPIED => n.jobs[i].status = "unknown"
  BY <1>1, ImageParts, ZenonT(30) DEF Job, Active
<1> HIDE DEF n
<1>6. \A i \in DOMAIN q.jobs : Moved(q.jobs[i], n.jobs[i])
  BY <1>1, <1>2, <1>3
<1>7. Running(n) = {}
  BY <1>1, <1>5 DEF Running, Active
<1>8. Books(q, n)
  <2>1. \A i \in DOMAIN q.jobs :
          /\ i \in Active(q) => n.jobs[i].status = "unknown"
          /\ i \notin Active(q) => n.jobs[i] = q.jobs[i]
    <3>1. \A job \in Job : [job EXCEPT !.status = "unknown", !.pending = {}].status = "unknown"
      BY DEF Job
    <3>2. \A i \in DOMAIN q.jobs : q.jobs[i] \in Job
      BY ImageParts
    <3>3. QED  BY ONLY <1>1, <3>1, <3>2
  <2>2. "unknown" \in OCCUPIED /\ "unknown" # "queued" /\ "unknown" \notin TERMINAL
        /\ "queued" \notin OCCUPIED /\ OCCUPIED \cap TERMINAL = {}
    BY DEF OCCUPIED, TERMINAL
  <2>3. Unmoved(q, n)
    BY <1>1, <2>1, <2>2 DEF Unmoved, Waiting, Active, Finished
  <2>4. QED  BY <2>3 DEF Books
<1>9. QED  BY <1>1, <1>4, <1>6, <1>7, <1>8, OpenKept DEF Quiets, n

-----------------------------------------------------------------------------
(* What a change keeps of the four invariants, as facts about images.       *)
Compatible(q) ==
  \A i, k \in Active(q) : i # k => ~Conflict(q.jobs[i], q.jobs[k])

LEMMA ConflictSymmetric ==
  ASSUME NEW a, NEW b
  PROVE  Conflict(a, b) <=> Conflict(b, a)
  BY DEF Conflict, Overlaps

LEMMA QuietActive ==
  ASSUME NEW q \in Image, NEW n, Quiets(q, n)
  PROVE  Active(n) \subseteq Active(q) /\ Running(n) \subseteq Running(q)
<1>1. "queued" \notin OCCUPIED
  BY DEF OCCUPIED
<1>2. QED  BY <1>1 DEF Quiets, Active, Running, Moved

LEMMA QuietCompatible ==
  ASSUME NEW q \in Image, NEW n, Quiets(q, n), Compatible(q)
  PROVE  Compatible(n)
<1> SUFFICES ASSUME NEW i \in Active(n), NEW k \in Active(n), i # k, Conflict(n.jobs[i], n.jobs[k])
             PROVE  FALSE
  BY DEF Compatible
<1>1. i \in Active(q) /\ k \in Active(q)
  BY QuietActive
<1>2. i \in DOMAIN q.jobs /\ k \in DOMAIN q.jobs
  BY <1>1 DEF Active
<1>3. n.jobs[i].cwd = q.jobs[i].cwd /\ n.jobs[k].cwd = q.jobs[k].cwd
  BY <1>2 DEF Quiets, Moved
<1>4. n.jobs[i].thread # None /\ n.jobs[i].thread = n.jobs[k].thread
        => q.jobs[i].thread # None /\ q.jobs[i].thread = q.jobs[k].thread
  BY <1>2 DEF Quiets
<1>5. Conflict(q.jobs[i], q.jobs[k])
  BY <1>3, <1>4 DEF Conflict
<1>6. QED  BY <1>1, <1>5 DEF Compatible

(* A claim after its drops: q is the image in which they have failed.       *)
LEMMA GrantFacts ==
  ASSUME NEW q \in Image, NEW i \in Candidates(q), NEW n, n = Mark(q, {i}, "starting")
  PROVE  /\ n \in Image /\ DOMAIN n.jobs = DOMAIN q.jobs
         /\ Active(n) = Active(q) \cup {i} /\ i \notin Active(q)
         /\ Running(n) = Running(q) \cup {i}
         /\ \A k \in DOMAIN q.jobs : k # i => n.jobs[k] = q.jobs[k]
         /\ n.jobs[i].cwd = q.jobs[i].cwd /\ n.jobs[i].thread = q.jobs[i].thread
         /\ q.jobs[i].status = "queued" /\ n.jobs[i].status = "starting"
         /\ n.jobs[i].pending = q.jobs[i].pending
<1>1. /\ n \in Image /\ DOMAIN n.jobs = DOMAIN q.jobs
      /\ \A k \in DOMAIN q.jobs :
           n.jobs[k] = IF k \in {i} THEN [q.jobs[k] EXCEPT !.status = "starting"] ELSE q.jobs[k]
  BY MarkTyped DEF Status, OCCUPIED
<1>2. i \in DOMAIN q.jobs /\ q.jobs[i].status = "queued" /\ q.jobs[i] \in Job
  BY ImageParts DEF Candidates
<1>3. /\ n.jobs[i].status = "starting" /\ n.jobs[i].cwd = q.jobs[i].cwd
      /\ n.jobs[i].thread = q.jobs[i].thread /\ n.jobs[i].pending = q.jobs[i].pending
  BY <1>1, <1>2 DEF Job
<1>4. \A k \in DOMAIN q.jobs : k # i => n.jobs[k] = q.jobs[k]
  BY <1>1
<1>5. Active(n) = Active(q) \cup {i} /\ i \notin Active(q)
  BY <1>1, <1>2, <1>3, <1>4 DEF Active, OCCUPIED
<1>6. Running(n) = Running(q) \cup {i}
  <2>1. \A k \in Active(q) : n.jobs[k] = q.jobs[k]
    BY <1>4, <1>5 DEF Active
  <2>2. QED  BY <1>3, <1>5, <2>1 DEF Running
<1>7. QED  BY <1>1, <1>2, <1>3, <1>4, <1>5, <1>6

LEMMA GrantCompatible ==
  ASSUME NEW q \in Image, NEW i \in Candidates(q), Compatible(q)
  PROVE  Compatible(Mark(q, {i}, "starting"))
<1> DEFINE n == Mark(q, {i}, "starting")
<1> SUFFICES ASSUME NEW a \in Active(n), NEW b \in Active(n), a # b
             PROVE  ~Conflict(n.jobs[a], n.jobs[b])
  BY DEF Compatible
<1>1. /\ Active(n) = Active(q) \cup {i}
      /\ \A k \in DOMAIN q.jobs : k # i => n.jobs[k] = q.jobs[k]
      /\ n.jobs[i].cwd = q.jobs[i].cwd /\ n.jobs[i].thread = q.jobs[i].thread
  BY GrantFacts
<1>2. Active(q) \subseteq DOMAIN q.jobs
  BY DEF Active
<1> HIDE DEF n
<1>3. \A k \in Active(q) : ~Conflict(q.jobs[i], q.jobs[k])
  BY DEF Candidates
<1>4. \A k \in Active(q) : k # i => ~Conflict(n.jobs[i], n.jobs[k])
  BY <1>1, <1>2, <1>3 DEF Conflict
<1>5. CASE a = i
  BY <1>1, <1>4, <1>5
<1>6. CASE b = i
  BY <1>1, <1>4, <1>6, ConflictSymmetric
<1>7. CASE a # i /\ b # i
  BY <1>1, <1>2, <1>7 DEF Compatible
<1>8. QED  BY <1>5, <1>6, <1>7

-----------------------------------------------------------------------------
(* What a step may write.  The memory, the image for the rollback and the   *)
(* file are always the same one.                                            *)
Aligned == data \in Image /\ data = disk /\ committed = disk

Writes(new) == data' = new /\ committed' = new /\ disk' = new

QuietStep == \E n \in Image : Quiets(data, n) /\ Writes(n)

LEMMA NothingQuiet ==
  ASSUME Aligned, Writes(data)
  PROVE  QuietStep
  BY SameQuiets DEF Aligned, QuietStep

LEMMA CommitQuiet ==
  ASSUME Aligned, NEW n, Quiets(data, n), Commit(n)
  PROVE  QuietStep
<1>1. CASE WriteOk(n)
  BY <1>1 DEF WriteOk, Writes, QuietStep, Quiets
<1>2. CASE WriteFails
  BY <1>2, NothingQuiet DEF WriteFails, Writes, Aligned
<1>3. QED  BY <1>1, <1>2 DEF Commit

LEMMA EditQuiet ==
  ASSUME Aligned, NEW i \in DOMAIN data.jobs, NEW job \in Job,
         Moved(data.jobs[i], job), OwnThread(data, i, job.thread),
         Commit([data EXCEPT !.jobs[i] = job])
  PROVE  QuietStep
<1>1. data \in Image
  BY DEF Aligned
<1>2. Quiets(data, [data EXCEPT !.jobs[i] = job])
  BY <1>1, PatchQuiets
<1>3. QED  BY <1>2, CommitQuiet

(* A report that is not ignored finds the job holding a slot.               *)
LEMMA EventQuiet ==
  ASSUME Aligned, NEW i \in DOMAIN data.jobs, StatusOf(i) # "queued",
         NEW job \in Job, job.thread = data.jobs[i].thread,
         data.jobs[i].status \in OCCUPIED => Moved(data.jobs[i], job),
         Event(i, [data EXCEPT !.jobs[i] = job])
  PROVE  QuietStep
<1>1. CASE Ignored(i)
  BY <1>1, NothingQuiet DEF Event, memory, Writes, Aligned
<1>2. CASE ~Ignored(i)
  <2>1. data.jobs[i].status \in OCCUPIED
    BY <1>2, ImageParts DEF Aligned, Ignored, StatusOf, Job
  <2>2. Commit([data EXCEPT !.jobs[i] = job])
    BY <1>2 DEF Event
  <2>3. QED  BY <2>1, <2>2, EditQuiet DEF OwnThread
<1>3. QED  BY <1>1, <1>2

LEMMA ReportQuiet ==
  ASSUME TypeOK, Aligned, NEW i \in DOMAIN data.jobs, Report(i)
  PROVE  QuietStep
<1> DEFINE job == data.jobs[i]
<1>1. /\ job \in Job /\ job.status # "queued" /\ data \in Image
      /\ DOMAIN data.jobs \subseteq Nat
  BY ImageParts DEF Aligned, Report, StatusOf
<1>2. ASSUME NEW thread \in OpenedFor(i), AttachThread(i, thread)
      PROVE  QuietStep
  <2> DEFINE new == [job EXCEPT !.thread = thread]
  <2>1. thread \in Threads /\ OwnThread(data, i, thread)
    BY <1>1, <1>2 DEF OpenedFor, OwnThread, InUse, Job, Aligned
  <2>2. [data EXCEPT !.jobs[i].thread = thread] = [data EXCEPT !.jobs[i] = new]
    BY <1>1 DEF Image, Job
  <2>3. /\ new \in Job /\ new.thread = thread /\ new.cwd = job.cwd
        /\ new.status = job.status /\ new.pending = job.pending
    BY <1>1, <2>1 DEF Job
  <2> HIDE DEF new
  <2>4. Moved(job, new)
    <3>1. PendingFits(job) => PendingFits(new)
      BY <2>3 DEF PendingFits
    <3>2. <<job.status, job.status>> \in Moves
      BY <1>1, MovesFacts DEF Job, Status
    <3>3. QED  BY <2>3, <3>1, <3>2 DEF Moved
  <2>5. QED  BY <1>2, <2>1, <2>2, <2>3, <2>4, EditQuiet DEF AttachThread
<1>3. ASSUME NEW turn \in TurnsFor(i), AttachTurn(i, turn)
      PROVE  QuietStep
  <2> DEFINE new == [job EXCEPT !.turn = turn,
                                !.status = IF @ = "starting" THEN "running" ELSE @]
  <2>1. turn \in Turns
    BY <1>1, <1>3 DEF TurnsFor, Job
  <2>2. [data EXCEPT !.jobs[i].turn = turn,
                     !.jobs[i].status = IF @ = "starting" THEN "running" ELSE @]
          = [data EXCEPT !.jobs[i] = new]
    BY <1>1 DEF Image, Job
  <2>3. /\ new \in Job /\ new.thread = job.thread /\ new.cwd = job.cwd
        /\ new.status = IF job.status = "starting" THEN "running" ELSE job.status
        /\ new.pending = job.pending
    BY <1>1, <2>1 DEF Job, OCCUPIED
  <2> HIDE DEF new
  <2>4. Moved(job, new)
    <3>1. PendingFits(job) => PendingFits(new)
      BY <2>3 DEF PendingFits
    <3>2. <<job.status, new.status>> \in Moves
      BY <1>1, <2>3, MovesFacts DEF Job, Status
    <3>3. QED  BY <1>1, <2>3, <3>1, <3>2 DEF Moved, OCCUPIED
  <2>5. QED  BY <1>3, <2>2, <2>3, <2>4, EditQuiet DEF AttachTurn, OwnThread
<1>4. ASSUME NEW status \in {"completed", "failed", "interrupted"}, EventComplete(i, status)
      PROVE  QuietStep
  <2> DEFINE new == [job EXCEPT !.status = status, !.pending = {}]
  <2>1. [data EXCEPT !.jobs[i].status = status, !.jobs[i].pending = {}]
          = [data EXCEPT !.jobs[i] = new]
    BY <1>1 DEF Image, Job
  <2>2. /\ new \in Job /\ new.thread = job.thread /\ new.cwd = job.cwd
        /\ new.status = status /\ new.pending = {}
    BY <1>1 DEF Job, TERMINAL
  <2> HIDE DEF new
  <2>3. job.status \in OCCUPIED => Moved(job, new)
    BY <2>2, MovesFacts DEF Moved, PendingFits, TERMINAL, OCCUPIED
  <2>4. QED  BY <1>1, <1>4, <2>1, <2>2, <2>3, EventQuiet DEF EventComplete, StatusOf
<1>5. ASSUME EventUnknown(i)
      PROVE  QuietStep
  <2> DEFINE new == [job EXCEPT !.status = "unknown", !.pending = {}]
  <2>1. [data EXCEPT !.jobs[i].status = "unknown", !.jobs[i].pending = {}]
          = [data EXCEPT !.jobs[i] = new]
    BY <1>1 DEF Image, Job
  <2>2. /\ new \in Job /\ new.thread = job.thread /\ new.cwd = job.cwd
        /\ new.status = "unknown" /\ new.pending = {}
    BY <1>1 DEF Job, OCCUPIED
  <2> HIDE DEF new
  <2>3. job.status \in OCCUPIED => Moved(job, new)
    BY <2>2, MovesFacts DEF Moved, PendingFits, OCCUPIED
  <2>4. QED  BY <1>1, <1>5, <2>1, <2>2, <2>3, EventQuiet DEF EventUnknown, StatusOf
<1>6. ASSUME NEW n, n = data, Event(i, n)
      PROVE  QuietStep
  <2>1. Quiets(data, data)
    BY <1>1, SameQuiets
  <2>2. CASE Ignored(i)
    BY <1>6, <2>2, NothingQuiet DEF Event, memory, Writes, Aligned
  <2>3. CASE ~Ignored(i)
    BY <1>6, <2>1, <2>3, CommitQuiet DEF Event
  <2>4. QED  BY <2>2, <2>3
<1>7. ASSUME NEW request \in Requests, EventApproval(i, request)
      PROVE  QuietStep
  <2>1. CASE job.status = "unknown"
    BY <1>6, <1>7, <2>1 DEF EventApproval, StatusOf
  <2>2. CASE job.status # "unknown"
    <3> DEFINE new == [job EXCEPT !.pending = @ \cup {request},
                                  !.status = IF @ = "cancelling" THEN @ ELSE "waiting_approval"]
    <3>1. [data EXCEPT !.jobs[i].pending = @ \cup {request},
                       !.jobs[i].status = IF @ = "cancelling" THEN @ ELSE "waiting_approval"]
            = [data EXCEPT !.jobs[i] = new]
      BY <1>1 DEF Image, Job
    <3>2. /\ new \in Job /\ new.thread = job.thread /\ new.cwd = job.cwd
          /\ new.status = IF job.status = "cancelling" THEN job.status ELSE "waiting_approval"
          /\ new.pending # {}
      BY <1>1 DEF Job, OCCUPIED
    <3> HIDE DEF new
    <3>3. job.status \in OCCUPIED => Moved(job, new)
      BY <2>2, <3>2, MovesFacts DEF Moved, PendingFits, OCCUPIED, Status
    <3>4. Event(i, [data EXCEPT !.jobs[i] = new])
      BY <1>7, <2>2, <3>1 DEF EventApproval, StatusOf
    <3>5. QED  BY <1>1, <3>2, <3>3, <3>4, EventQuiet DEF StatusOf
  <2>3. QED  BY <2>1, <2>2
<1>8. ASSUME NEW request \in Requests, EventResolved(i, request)
      PROVE  QuietStep
  <2> DEFINE left == job.pending \ {request}
             new == [job EXCEPT !.pending = left,
                                !.status = IF left = {} /\ @ = "waiting_approval"
                                           THEN "running" ELSE @]
  <2>1. [data EXCEPT !.jobs[i].pending = left,
                     !.jobs[i].status = IF left = {} /\ @ = "waiting_approval"
                                        THEN "running" ELSE @]
          = [data EXCEPT !.jobs[i] = new]
    BY <1>1, ZenonT(30) DEF Image, Job
  <2>2. /\ new \in Job /\ new.thread = job.thread /\ new.cwd = job.cwd
        /\ new.status = IF left = {} /\ job.status = "waiting_approval"
                        THEN "running" ELSE job.status
        /\ new.pending = left /\ (left # {} => job.pending # {})
    BY <1>1 DEF Job, OCCUPIED
  <2>3. Event(i, [data EXCEPT !.jobs[i] = new])
    BY <1>8, <2>1 DEF EventResolved
  <2> HIDE DEF new
  <2>4. job.status \in OCCUPIED => Moved(job, new)
    <3>1. PendingFits(job) => PendingFits(new)
      BY <2>2 DEF PendingFits
    <3>2. QED  BY <2>2, <3>1, MovesFacts DEF Moved, OCCUPIED, Status
  <2>5. QED  BY <1>1, <2>2, <2>3, <2>4, EventQuiet DEF StatusOf
<1>9. EventMessage(i) => QuietStep
  BY <1>6 DEF EventMessage
<1>10. QED  BY <1>2, <1>3, <1>4, <1>5, <1>7, <1>8, <1>9 DEF Report

LEMMA OwnQuiet ==
  ASSUME TypeOK, Aligned, Own
  PROVE  QuietStep
<1>1. data \in Image /\ \A i \in DOMAIN data.jobs : data.jobs[i] \in Job
  BY ImageParts DEF Aligned
<1>2. ASSUME NEW key \in Keys, NEW dir \in Dirs, NEW thread \in KnownThreads \cup InUse \cup {None},
             Submit(key, dir, thread)
      PROVE  QuietStep
  <2>1. thread \in Threads \cup {None}
    BY <1>1, ThreadsAssumption DEF InUse, Job
  <2>2. /\ NewJob(key, dir, thread) \in Job /\ NewJob(key, dir, thread).status = "queued"
        /\ NewJob(key, dir, thread).pending = {}
    BY <2>1 DEF NewJob, Job
  <2>3. Quiets(data, [data EXCEPT !.jobs = Append(@, NewJob(key, dir, thread))])
    BY <1>1, <1>2, <2>2, AppendQuiets DEF Submit
  <2>4. QED  BY <1>2, <2>3, CommitQuiet DEF Submit
<1>3. ASSUME NEW i \in DOMAIN data.jobs, Cancel(i)
      PROVE  QuietStep
  <2> DEFINE job == data.jobs[i]
             status == CASE job.status = "queued" -> "cancelled"
                         [] job.status \in {"running", "waiting_approval"} -> "cancelling"
                         [] OTHER -> job.status
             new == [job EXCEPT !.status = status]
  <2>1. [data EXCEPT !.jobs[i].status =
           CASE @ = "queued" -> "cancelled"
             [] @ \in {"running", "waiting_approval"} -> "cancelling"
             [] OTHER -> @] = [data EXCEPT !.jobs[i] = new]
    BY <1>1 DEF Image, Job
  <2>2. /\ status \in Status /\ status # "queued" /\ <<job.status, status>> \in Moves
        /\ status \in OCCUPIED => job.status \in OCCUPIED
        /\ status \in OCCUPIED \ {"unknown"} => job.status \in OCCUPIED \ {"unknown"}
        /\ status = "waiting_approval" => job.status = "waiting_approval"
        /\ job.status \in {"waiting_approval", "cancelling"} => status = "cancelling"
    <3>1. CASE job.status = "queued"
      BY <3>1, MovesFacts DEF Status, OCCUPIED, TERMINAL
    <3>2. CASE job.status \in {"running", "waiting_approval"}
      BY <3>2, MovesFacts DEF Status, OCCUPIED
    <3>3. CASE job.status \notin {"queued", "running", "waiting_approval"}
      BY <1>1, <3>3, MovesFacts DEF Job, Status
    <3>4. QED  BY <3>1, <3>2, <3>3
  <2> HIDE DEF status
  <2>3. new \in Job /\ new.thread = job.thread /\ new.cwd = job.cwd /\ new.status = status
        /\ new.pending = job.pending
    BY <1>1, <2>2 DEF Job, Status
  <2>4. Commit([data EXCEPT !.jobs[i] = new])
    BY <1>3, <2>1 DEF Cancel
  <2> HIDE DEF new
  <2>5. Moved(job, new)
    BY <2>2, <2>3 DEF Moved, PendingFits
  <2>6. QED  BY <2>3, <2>4, <2>5, EditQuiet DEF OwnThread
<1>4. ASSUME NEW i \in DOMAIN data.jobs, ConfirmStopped(i)
      PROVE  QuietStep
  <2> DEFINE new == [data.jobs[i] EXCEPT !.status = "interrupted"]
  <2>1. [data EXCEPT !.jobs[i].status = "interrupted"] = [data EXCEPT !.jobs[i] = new]
    BY <1>1 DEF Image, Job
  <2>2. /\ new \in Job /\ new.thread = data.jobs[i].thread /\ new.cwd = data.jobs[i].cwd
        /\ new.status = "interrupted" /\ new.pending = data.jobs[i].pending
    BY <1>1 DEF Job, TERMINAL
  <2>3. Commit([data EXCEPT !.jobs[i] = new])
    BY <1>4, <2>1 DEF ConfirmStopped
  <2> HIDE DEF new
  <2>4. Moved(data.jobs[i], new)
    BY <1>4, <2>2, MovesFacts DEF ConfirmStopped, StatusOf, Moved, PendingFits, OCCUPIED, TERMINAL
  <2>5. QED  BY <2>2, <2>3, <2>4, EditQuiet DEF OwnThread
<1>5. ASSUME NEW paused \in BOOLEAN, Pause(paused)
      PROVE  QuietStep
  <2>1. [data EXCEPT !.paused = paused] \in Image
        /\ [data EXCEPT !.paused = paused].jobs = data.jobs
    BY <1>1 DEF Image
  <2>2. Quiets(data, [data EXCEPT !.paused = paused])
    BY <1>1, <2>1, SameQuiets
  <2>3. QED  BY <1>5, <2>2, CommitQuiet DEF Pause
<1>6. QED  BY <1>2, <1>3, <1>4, <1>5 DEF Own

(* A claim first fails some queued jobs, then starts one that still has its *)
(* place in the image it leaves.                                            *)
GrantStep ==
  \E q \in Image : \E i \in Candidates(q) :
    /\ Quiets(data, q)
    /\ Unmoved(data, q) \/ Drops(data, q)
    /\ Cardinality(Active(q)) < capacity
    /\ Writes(Mark(q, {i}, "starting"))
    /\ claimed' = claimed \cup {i}

LEMMA ClaimSteps ==
  ASSUME TypeOK, Aligned, Claim
  PROVE  (QuietStep /\ UNCHANGED claimed) \/ GrantStep
<1>1. PICK missing \in SUBSET Dirs :
         \/ \E i \in DOMAIN data.jobs : ClaimReturns(i, missing)
         \/ ClaimReturnsNothing(missing)
         \/ ClaimRaises(missing)
  BY DEF Claim
<1>2. data \in Image /\ Dropped(missing) \in SUBSET Candidates(data)
  BY DEF Aligned, Dropped
<1>3. Quiets(data, Mark(data, Dropped(missing), "failed"))
  BY <1>2, FailQuiets
<1>4. ASSUME NEW i \in DOMAIN data.jobs, ClaimReturns(i, missing)
      PROVE  GrantStep
  <2> DEFINE q == Mark(data, Dropped(missing), "failed")
  <2>1. i \in Candidates(data) /\ i \notin Dropped(missing)
    BY <1>4 DEF ClaimReturns, Chosen, Sound, Dropped
  <2>2. /\ q \in Image /\ DOMAIN q.jobs = DOMAIN data.jobs
        /\ \A k \in DOMAIN data.jobs : k \notin Dropped(missing) => q.jobs[k] = data.jobs[k]
    <3>1. "failed" \in Status
      BY DEF Status, TERMINAL
    <3>2. /\ q \in Image /\ DOMAIN q.jobs = DOMAIN data.jobs
          /\ \A k \in DOMAIN data.jobs :
               q.jobs[k] = IF k \in Dropped(missing)
                           THEN [data.jobs[k] EXCEPT !.status = "failed"] ELSE data.jobs[k]
      BY <1>2, <3>1, MarkTyped
    <3>3. QED  BY <3>2
  <2> HIDE DEF q
  <2>3. Active(q) \subseteq Active(data)
    BY <1>2, <1>3, QuietActive DEF q
  <2>4. \A k \in Active(data) : q.jobs[k] = data.jobs[k]
    BY <1>2, <2>2 DEF Active, Candidates, OCCUPIED
  <2>5. i \in Candidates(q)
    BY <2>1, <2>2, <2>3, <2>4 DEF Candidates
  <2>6. Cardinality(Active(q)) < capacity
    <3>1. Cardinality(Active(data)) < capacity
      BY DEF Claim, Admits
    <3>2. Cardinality(Active(q)) <= Cardinality(Active(data))
      BY <1>2, <2>3, ActiveFinite, FS_Subset
    <3>3. Cardinality(Active(q)) \in Nat /\ Cardinality(Active(data)) \in Nat /\ capacity \in Nat
      BY <1>2, <2>2, ActiveFinite, LimitsAssumption DEF TypeOK
    <3>4. QED  BY <3>1, <3>2, <3>3
  <2>7. Writes(Mark(q, {i}, "starting")) /\ claimed' = claimed \cup {i}
    BY <1>4 DEF ClaimReturns, WriteOk, Writes, q
  <2>8. Drops(data, q)
    BY <1>2, FailBooks DEF Drops, q
  <2>9. QED  BY <1>3, <2>2, <2>5, <2>6, <2>7, <2>8 DEF GrantStep, q
<1>5. ASSUME ClaimReturnsNothing(missing)
      PROVE  QuietStep /\ UNCHANGED claimed
  <2>1. CASE Dropped(missing) = {}
    BY <1>5, <2>1, NothingQuiet DEF ClaimReturnsNothing, memory, Writes, Aligned
  <2>2. CASE Dropped(missing) # {}
    BY <1>3, <1>5, <2>2, CommitQuiet DEF ClaimReturnsNothing, Commit
  <2>3. QED  BY <2>1, <2>2
<1>6. ASSUME ClaimRaises(missing)
      PROVE  QuietStep /\ UNCHANGED claimed
  <2>1. PICK last \in Candidates(data) :
           LET kept == Mark(data, {i \in Dropped(missing) : i < last}, "failed")
           IN  data' = kept /\ committed' = kept /\ disk' = kept
    BY <1>6 DEF ClaimRaises
  <2> DEFINE S == {i \in Dropped(missing) : i < last}
  <2>2. S \in SUBSET Candidates(data)
    BY <1>2
  <2> HIDE DEF S
  <2>3. Quiets(data, Mark(data, S, "failed")) /\ Writes(Mark(data, S, "failed"))
    BY <1>2, <2>1, <2>2, FailQuiets DEF Writes, S
  <2>4. QED  BY <1>6, <2>3 DEF QuietStep, Quiets, ClaimRaises
<1>7. QED  BY <1>1, <1>4, <1>5, <1>6

(* The kinds of steps of the spool.                                         *)
LEMMA StepWrites ==
  ASSUME TypeOK, Aligned, [Next]_queueVars
  PROVE  \/ QuietStep /\ UNCHANGED <<capacity, claimed>> /\ (up' => up)
         \/ GrantStep /\ UNCHANGED capacity
         \/ Writes(Recovered(data)) /\ capacity' \in Limits /\ UNCHANGED claimed
<1>1. CASE Claim /\ UNCHANGED <<up, capacity>>
  BY <1>1, ClaimSteps
<1>2. CASE Own /\ UNCHANGED <<up, capacity, claimed>>
  BY <1>2, OwnQuiet
<1>3. CASE (\E i \in DOMAIN data.jobs : Report(i)) /\ UNCHANGED <<up, capacity, claimed>>
  BY <1>3, ReportQuiet
<1>4. CASE Crash \/ UNCHANGED queueVars
  BY <1>4, NothingQuiet DEF Crash, queueVars, memory, Writes, Aligned
<1>5. ASSUME NEW max_running \in Limits, Restart(max_running)
      PROVE  Writes(Recovered(data)) /\ capacity' \in Limits /\ UNCHANGED claimed
  BY <1>5 DEF Restart, Writes, Aligned
<1>6. QED  BY <1>1, <1>2, <1>3, <1>4, <1>5 DEF Next

-----------------------------------------------------------------------------
(* The inductive invariant.  NoReplay needs that whatever was handed out is *)
(* in the list, and every part needs that memory and file agree.            *)
SpoolInv ==
  /\ TypeOK /\ Aligned
  /\ Compatible(data)
  /\ Cardinality(Active(data)) <= MaxCapacity
  /\ up => Cardinality(Running(data)) <= capacity
  /\ claimed \subseteq DOMAIN data.jobs
  /\ \A i \in DOMAIN data.jobs : data.jobs[i].status = "queued" => i \notin claimed
  /\ \A i \in DOMAIN data.jobs : PendingFits(data.jobs[i])
  /\ Cardinality(Open(data)) <= MaxOpen

LEMMA InitSpool ==
  ASSUME Init
  PROVE  SpoolInv
<1>1. Empty \in Image /\ Empty.jobs = <<>>
  BY DEF Empty, Image
<1>2. Active(Empty) = {} /\ Running(Empty) = {} /\ Open(Empty) = {}
  BY <1>1 DEF Active, Running, Open
<1>3. capacity \in 1 .. MaxCapacity
  BY DEF Init, Limits
<1>4. TypeOK /\ Aligned
  BY <1>1, <1>3 DEF Init, TypeOK, Aligned
<1>5. Cardinality({}) = 0
  BY FS_EmptySet
<1>6. Compatible(data)
  BY <1>2 DEF Init, Compatible
<1>7. /\ Cardinality(Active(data)) <= MaxCapacity /\ Cardinality(Running(data)) <= capacity
      /\ Cardinality(Open(data)) <= MaxOpen
  BY <1>2, <1>3, <1>5, LimitsAssumption DEF Init
<1>8. QED  BY <1>1, <1>4, <1>6, <1>7 DEF SpoolInv, Init

(* The types of what a step does not write through an image.                *)
LEMMA ScalarsTyped ==
  ASSUME TypeOK, [Next]_queueVars
  PROVE  up' \in BOOLEAN /\ capacity' \in 1 .. MaxCapacity /\ storage_failed' \in BOOLEAN
<1>1. WriteFails => storage_failed' \in BOOLEAN
  BY DEF WriteFails
<1>2. \A n : WriteOk(n) => storage_failed' \in BOOLEAN
  BY DEF WriteOk, TypeOK
<1>3. \A n : Commit(n) => storage_failed' \in BOOLEAN
  BY <1>1, <1>2 DEF Commit
<1>4. \A i, n : Event(i, n) => storage_failed' \in BOOLEAN
  BY <1>3 DEF Event, memory, TypeOK
<1>5. \A i : Report(i) => storage_failed' \in BOOLEAN
  BY <1>3, <1>4 DEF Report, AttachThread, AttachTurn, EventComplete, EventUnknown,
     EventApproval, EventResolved, EventMessage
<1>6. Own => storage_failed' \in BOOLEAN
  BY <1>3 DEF Own, Submit, Cancel, ConfirmStopped, Pause
<1>7. Claim => storage_failed' \in BOOLEAN
  BY <1>2 DEF Claim, ClaimReturns, ClaimReturnsNothing, ClaimRaises, memory, TypeOK
<1>8. QED
  BY <1>5, <1>6, <1>7
  DEF Next, Crash, Restart, Limits, queueVars, memory, TypeOK

LEMMA QuietSpool ==
  ASSUME SpoolInv, NEW n \in Image, Quiets(data, n)
  PROVE  /\ Compatible(n)
         /\ Cardinality(Active(n)) <= MaxCapacity
         /\ Cardinality(Running(n)) <= Cardinality(Running(data))
         /\ claimed \subseteq DOMAIN n.jobs
         /\ \A i \in DOMAIN n.jobs : n.jobs[i].status = "queued" => i \notin claimed
         /\ \A i \in DOMAIN n.jobs : PendingFits(n.jobs[i])
         /\ Cardinality(Open(n)) <= MaxOpen
<1>1. data \in Image
  BY DEF SpoolInv, Aligned
<1>2. Compatible(n)
  BY <1>1, QuietCompatible DEF SpoolInv
<1>3. Active(n) \subseteq Active(data) /\ Running(n) \subseteq Running(data)
  BY <1>1, QuietActive
<1>4. /\ Cardinality(Active(n)) <= Cardinality(Active(data))
      /\ Cardinality(Running(n)) <= Cardinality(Running(data))
  BY <1>1, <1>3, ActiveFinite, FS_Subset
<1>5. Cardinality(Active(n)) \in Nat /\ Cardinality(Active(data)) \in Nat
  BY <1>1, ActiveFinite
<1>6. Cardinality(Active(n)) <= MaxCapacity
  BY <1>4, <1>5, LimitsAssumption DEF SpoolInv
<1>7. claimed \subseteq DOMAIN n.jobs
  BY DEF SpoolInv, Quiets
<1>8. \A i \in DOMAIN n.jobs : n.jobs[i].status = "queued" => i \notin claimed
  BY DEF SpoolInv, Quiets, Moved
<1>9. \A i \in DOMAIN n.jobs : PendingFits(n.jobs[i])
  BY DEF SpoolInv, Quiets, Moved
<1>10. Cardinality(Open(n)) <= MaxOpen
  <2>1. CASE Open(n) \subseteq Open(data)
    <3>1. Cardinality(Open(n)) <= Cardinality(Open(data))
      BY <1>1, <2>1, OpenFinite, FS_Subset
    <3>2. Cardinality(Open(data)) <= MaxOpen
      BY DEF SpoolInv
    <3>3. /\ Cardinality(Open(n)) \in Nat /\ Cardinality(Open(data)) \in Nat
          /\ MaxOpen \in Nat
      BY <1>1, OpenFinite, LimitsAssumption
    <3>4. QED  BY <3>1, <3>2, <3>3
  <2>2. QED  BY <2>1 DEF Quiets
<1>11. QED  BY <1>2, <1>4, <1>6, <1>7, <1>8, <1>9, <1>10

LEMMA NextSpool ==
  ASSUME SpoolInv, [Next]_queueVars
  PROVE  SpoolInv'
<1>1. TypeOK /\ Aligned /\ data \in Image
  BY DEF SpoolInv, Aligned
<1>2. up' \in BOOLEAN /\ capacity' \in 1 .. MaxCapacity /\ storage_failed' \in BOOLEAN
  BY <1>1, ScalarsTyped
<1>3. DOMAIN data.jobs \subseteq Nat
  BY <1>1, ImageParts
<1>4. ASSUME QuietStep, UNCHANGED <<capacity, claimed>>, up' => up
      PROVE  SpoolInv'
  <2>1. PICK n \in Image : Quiets(data, n) /\ Writes(n)
    BY <1>4 DEF QuietStep
  <2>2. TypeOK' /\ Aligned'
    BY <1>1, <1>2, <1>4, <2>1 DEF TypeOK, Aligned, Writes
  <2>3. /\ Compatible(n)
        /\ Cardinality(Active(n)) <= MaxCapacity
        /\ Cardinality(Running(n)) <= Cardinality(Running(data))
        /\ claimed \subseteq DOMAIN n.jobs
        /\ \A i \in DOMAIN n.jobs : n.jobs[i].status = "queued" => i \notin claimed
        /\ \A i \in DOMAIN n.jobs : PendingFits(n.jobs[i])
        /\ Cardinality(Open(n)) <= MaxOpen
    BY <2>1, QuietSpool
  <2>4. up' => Cardinality(Running(n)) <= capacity
    <3>1. Cardinality(Running(n)) \in Nat /\ Cardinality(Running(data)) \in Nat /\ capacity \in Nat
      BY <1>1, <2>1, ActiveFinite, LimitsAssumption DEF TypeOK
    <3>2. up => Cardinality(Running(data)) <= capacity
      BY DEF SpoolInv
    <3>3. QED  BY <1>4, <2>3, <3>1, <3>2
  <2>5. QED  BY <1>4, <2>1, <2>2, <2>3, <2>4 DEF SpoolInv, Writes, Compatible, Active, Running, Open
<1>5. ASSUME GrantStep, UNCHANGED capacity
      PROVE  SpoolInv'
  <2>0. PICK q \in Image : \E i \in Candidates(q) :
           /\ Quiets(data, q)
           /\ Cardinality(Active(q)) < capacity
           /\ Writes(Mark(q, {i}, "starting"))
           /\ claimed' = claimed \cup {i}
    BY <1>5 DEF GrantStep
  <2>1. PICK i \in Candidates(q) :
           /\ Quiets(data, q)
           /\ Cardinality(Active(q)) < capacity
           /\ Writes(Mark(q, {i}, "starting"))
           /\ claimed' = claimed \cup {i}
    BY <2>0
  <2> DEFINE n == Mark(q, {i}, "starting")
  <2>2. /\ n \in Image /\ DOMAIN n.jobs = DOMAIN q.jobs
        /\ Active(n) = Active(q) \cup {i} /\ i \notin Active(q)
        /\ Running(n) = Running(q) \cup {i}
        /\ \A k \in DOMAIN q.jobs : k # i => n.jobs[k] = q.jobs[k]
        /\ n.jobs[i].status = "starting" /\ q.jobs[i].status = "queued"
        /\ n.jobs[i].pending = q.jobs[i].pending
    BY GrantFacts
  <2>3. /\ Compatible(q) /\ claimed \subseteq DOMAIN q.jobs
        /\ \A k \in DOMAIN q.jobs : q.jobs[k].status = "queued" => k \notin claimed
        /\ \A k \in DOMAIN q.jobs : PendingFits(q.jobs[k])
        /\ Cardinality(Open(q)) <= MaxOpen
    BY <2>1, QuietSpool
  <2>4. Compatible(n)
    BY <2>3, GrantCompatible
  <2>5. data' = n /\ committed' = n /\ disk' = n
    BY <2>1 DEF Writes
  <2>6. i \in DOMAIN q.jobs
    BY DEF Candidates
  <2> HIDE DEF n
  <2>7. TypeOK' /\ Aligned'
    <3>1. claimed' \subseteq Nat
      BY <1>1, <2>1, <2>6, ImageParts DEF TypeOK
    <3>2. QED  BY <1>2, <2>2, <2>5, <3>1 DEF TypeOK, Aligned
  <2>8. /\ Cardinality(Active(n)) = Cardinality(Active(q)) + 1
        /\ Cardinality(Running(n)) <= Cardinality(Active(n))
        /\ Cardinality(Active(n)) \in Nat /\ Cardinality(Running(n)) \in Nat
        /\ Cardinality(Active(q)) \in Nat
    <3>1. /\ IsFiniteSet(Active(n)) /\ IsFiniteSet(Active(q)) /\ Running(n) \subseteq Active(n)
          /\ Cardinality(Active(n)) \in Nat /\ Cardinality(Running(n)) \in Nat
          /\ Cardinality(Active(q)) \in Nat
      BY <2>2, ActiveFinite
    <3>2. QED  BY <2>2, <3>1, FS_AddElement, FS_Subset
  <2>9. Cardinality(Active(n)) <= MaxCapacity /\ Cardinality(Running(n)) <= capacity
    BY <1>1, <2>1, <2>8, LimitsAssumption DEF TypeOK
  <2>10. claimed' \subseteq DOMAIN n.jobs
    BY <2>1, <2>2, <2>3, <2>6
  <2>11. \A k \in DOMAIN n.jobs : n.jobs[k].status = "queued" => k \notin claimed'
    BY <2>1, <2>2, <2>3
  <2>12. \A k \in DOMAIN n.jobs : PendingFits(n.jobs[k])
    BY <2>2, <2>3, <2>6 DEF PendingFits
  <2>13. Cardinality(Open(n)) <= MaxOpen
    <3>1. "queued" \notin TERMINAL /\ "starting" \notin TERMINAL
      BY DEF TERMINAL
    <3>2. \A k \in DOMAIN q.jobs : n.jobs[k].status \in TERMINAL <=> q.jobs[k].status \in TERMINAL
      BY <2>2, <3>1
    <3>3. Open(n) = Open(q)
      BY <2>2, <3>2 DEF Open
    <3>4. Cardinality(Open(n)) = Cardinality(Open(q))
      BY <3>3
    <3>5. Cardinality(Open(q)) <= MaxOpen
      BY <2>3
    <3>6. QED  BY ONLY <3>4, <3>5
  <2>14. QED
    BY <1>5, <2>4, <2>5, <2>7, <2>9, <2>10, <2>11, <2>12, <2>13 DEF SpoolInv, Compatible, Active, Running, Open
<1>6. ASSUME Writes(Recovered(data)), capacity' \in Limits, UNCHANGED claimed
      PROVE  SpoolInv'
  <2> DEFINE n == Recovered(data)
  <2>1. n \in Image /\ Quiets(data, n) /\ Running(n) = {}
    BY <1>1, RecoveredTyped, RecoveredQuiets
  <2>2. data' = n /\ committed' = n /\ disk' = n
    BY <1>6 DEF Writes
  <2> HIDE DEF n
  <2>3. TypeOK' /\ Aligned'
    BY <1>1, <1>2, <1>6, <2>1, <2>2 DEF TypeOK, Aligned
  <2>4. /\ Compatible(n)
        /\ Cardinality(Active(n)) <= MaxCapacity
        /\ claimed \subseteq DOMAIN n.jobs
        /\ \A i \in DOMAIN n.jobs : n.jobs[i].status = "queued" => i \notin claimed
        /\ \A i \in DOMAIN n.jobs : PendingFits(n.jobs[i])
        /\ Cardinality(Open(n)) <= MaxOpen
    BY <2>1, QuietSpool
  <2>5. Cardinality(Running(n)) <= capacity'
    BY <1>2, <2>1, FS_EmptySet, LimitsAssumption
  <2>6. QED
    BY <1>6, <2>2, <2>3, <2>4, <2>5 DEF SpoolInv, Compatible, Active, Running, Open
<1>7. QED  BY <1>1, <1>4, <1>5, <1>6, StepWrites

-----------------------------------------------------------------------------
(* The invariant holds in every reachable state.                            *)
THEOREM SpoolInvariant == Spec => []SpoolInv
<1>1. Init => SpoolInv
  BY InitSpool
<1>2. SpoolInv /\ [Next]_queueVars => SpoolInv'
  BY NextSpool
<1>3. QED  BY <1>1, <1>2, PTL DEF Spec

(* Types: every image that is read or written is a well-formed journal, and *)
(* the limit in force is between 1 and MaxCapacity.                         *)
THEOREM TypeCorrect == Spec => []TypeOK
<1>1. SpoolInv => TypeOK
  BY DEF SpoolInv
<1>2. QED  BY <1>1, SpoolInvariant, PTL

(* What the process shows and acts on is what it journalled.                *)
THEOREM JournalAlwaysMemory == Spec => []JournalIsMemory
<1>1. SpoolInv => JournalIsMemory
  BY DEF SpoolInv, Aligned, JournalIsMemory
<1>2. QED  BY <1>1, SpoolInvariant, PTL

(* The slots are never overcommitted, even across restarts with another     *)
(* limit.                                                                   *)
THEOREM CapacityAlwaysRespected == Spec => []CapacityRespected
<1>1. SpoolInv => CapacityRespected
  BY DEF SpoolInv, Aligned, CapacityRespected
<1>2. QED  BY <1>1, SpoolInvariant, PTL

(* Jobs that hold slots are on disjoint trees and different discussions.    *)
THEOREM ActiveAlwaysCompatible == Spec => []ActiveAreCompatible
<1>1. SpoolInv => ActiveAreCompatible
  BY DEF SpoolInv, Aligned, Compatible, ActiveAreCompatible
<1>2. QED  BY <1>1, SpoolInvariant, PTL

(* Requests are kept only by jobs that wait for a decision or are being     *)
(* interrupted, and a job that waits for one keeps a request, whatever      *)
(* order the reports of a turn arrive in (Queue.event, Queue.cancel).       *)
THEOREM PendingAlwaysMatches == Spec => []PendingMatchesStatus
<1>1. SpoolInv => PendingMatchesStatus
  BY DEF SpoolInv, Aligned, PendingMatchesStatus
<1>2. QED  BY <1>1, SpoolInvariant, PTL

(* The slots, their holders and their requests are sound together.          *)
THEOREM SlotsAlwaysSound == Spec => []SlotsAreSound
<1>1. CapacityRespected /\ ActiveAreCompatible /\ PendingMatchesStatus => SlotsAreSound
  BY DEF SlotsAreSound
<1>2. QED
  BY <1>1, CapacityAlwaysRespected, ActiveAlwaysCompatible, PendingAlwaysMatches, PTL

(* The list never holds more unfinished jobs than a submission may make,    *)
(* whatever is reported late and whatever crashes.                          *)
THEOREM OpenAlwaysBounded == Spec => []OpenBounded
<1>1. SpoolInv => OpenBounded
  BY DEF SpoolInv, Aligned, OpenBounded
<1>2. QED  BY <1>1, SpoolInvariant, PTL

(* No mission that was handed out is offered again by the journal.          *)
THEOREM NeverReplayed == Spec => []NoReplay
<1>1. SpoolInv => NoReplay
  BY DEF SpoolInv, Aligned, NoReplay
<1>2. QED  BY <1>1, SpoolInvariant, PTL

(* A job of the journal only moves along Moves, and is never forgotten.     *)
LEMMA StepMoves ==
  ASSUME SpoolInv, [Next]_queueVars
  PROVE  \A i \in DOMAIN disk.jobs :
           /\ i \in DOMAIN disk'.jobs
           /\ <<disk.jobs[i].status, disk'.jobs[i].status>> \in Moves
<1>1. TypeOK /\ Aligned /\ data \in Image /\ disk = data
  BY DEF SpoolInv, Aligned
<1>2. ASSUME NEW n \in Image, Quiets(data, n)
      PROVE  \A i \in DOMAIN data.jobs :
               i \in DOMAIN n.jobs /\ <<data.jobs[i].status, n.jobs[i].status>> \in Moves
  BY <1>2 DEF Quiets, Moved
<1>3. CASE QuietStep
  BY <1>1, <1>2, <1>3 DEF QuietStep, Writes
<1>4. CASE GrantStep
  <2>0. PICK q \in Image : \E i \in Candidates(q) :
           Quiets(data, q) /\ Writes(Mark(q, {i}, "starting"))
    BY <1>4 DEF GrantStep
  <2>1. PICK i \in Candidates(q) : Quiets(data, q) /\ Writes(Mark(q, {i}, "starting"))
    BY <2>0
  <2> DEFINE n == Mark(q, {i}, "starting")
  <2>2. /\ n \in Image /\ DOMAIN n.jobs = DOMAIN q.jobs
        /\ \A k \in DOMAIN q.jobs : k # i => n.jobs[k] = q.jobs[k]
        /\ q.jobs[i].status = "queued" /\ n.jobs[i].status = "starting"
    <3>1. n = Mark(q, {i}, "starting") /\ i \in Candidates(q) /\ q \in Image
      OBVIOUS
    <3> HIDE DEF n
    <3>2. QED  BY <3>1, GrantFacts, SMTT(30)
  <2>3. disk' = n
    BY <2>1 DEF Writes
  <2> HIDE DEF n
  <2>4. i \in DOMAIN data.jobs => data.jobs[i].status = "queued"
    BY <2>1, <2>2 DEF Quiets, Moved
  <2>5. QED  BY <1>1, <1>2, <2>1, <2>2, <2>3, <2>4, MovesFacts
<1>5. CASE Writes(Recovered(data))
  BY <1>1, <1>2, <1>5, RecoveredTyped, RecoveredQuiets DEF Writes
<1>6. QED  BY <1>1, <1>3, <1>4, <1>5, StepWrites

(* Finished jobs stay as they are, and an uncertain one is only released.   *)
THEOREM LifecycleHolds == Spec => Lifecycle
<1>1. SpoolInv /\ [Next]_queueVars
        => [\A i \in DOMAIN disk.jobs :
              /\ i \in DOMAIN disk'.jobs
              /\ <<disk.jobs[i].status, disk'.jobs[i].status>> \in Moves]_disk
  BY StepMoves
<1>2. QED  BY <1>1, SpoolInvariant, PTL DEF Spec, Lifecycle

-----------------------------------------------------------------------------
(* After a failed write.  The memory went back to the last commit, which is *)
(* the file, and every further commit ends the same way.                    *)
LEMMA FailedCommit ==
  ASSUME Aligned, storage_failed, NEW n, Commit(n)
  PROVE  UNCHANGED <<data, disk>>
  BY DEF Aligned, Commit, WriteOk, WriteFails

LEMMA FailedReport ==
  ASSUME Aligned, storage_failed, NEW i, Report(i)
  PROVE  UNCHANGED <<data, disk>>
<1>1. \A n : Event(i, n) => UNCHANGED <<data, disk>>
  BY FailedCommit DEF Event, memory
<1>2. QED
  BY <1>1, FailedCommit
  DEF Report, AttachThread, AttachTurn, EventComplete, EventUnknown, EventMessage,
      EventApproval, EventResolved

LEMMA FailedOwn ==
  ASSUME Aligned, storage_failed, Own
  PROVE  UNCHANGED <<data, disk>>
  BY FailedCommit DEF Own, Submit, Cancel, ConfirmStopped, Pause

(* Nothing is written and no mission starts until the supervisor restarts.  *)
THEOREM FailureAlwaysStopsAdmission == Spec => FailureStopsAdmission
<1>1. ASSUME SpoolInv, [Next]_queueVars, storage_failed, storage_failed'
      PROVE  UNCHANGED <<data, disk, claimed>>
  <2>1. Aligned
    BY <1>1 DEF SpoolInv
  <2>2. CASE Crash \/ UNCHANGED queueVars
    BY <2>2 DEF Crash, queueVars, memory
  <2>3. CASE Own /\ UNCHANGED claimed
    BY <1>1, <2>1, <2>3, FailedOwn
  <2>4. CASE (\E i \in DOMAIN data.jobs : Report(i)) /\ UNCHANGED claimed
    BY <1>1, <2>1, <2>4, FailedReport
  <2>5. ~Claim /\ \A limit : ~Restart(limit)
    BY <1>1 DEF Claim, Restart
  <2>6. QED  BY <1>1, <2>2, <2>3, <2>4, <2>5 DEF Next
<1>2. SpoolInv /\ [Next]_queueVars
        => [storage_failed /\ storage_failed' => UNCHANGED <<data, disk, claimed>>]_queueVars
  BY <1>1
<1>3. QED  BY <1>2, SpoolInvariant, PTL DEF Spec, FailureStopsAdmission

-----------------------------------------------------------------------------
(* The refinement.  What SlotLedger sees of the journal is Waiting, Active  *)
(* and Finished of the file.                                                *)
LEMMA LedgerView ==
  /\ {i \in DOMAIN disk.jobs : disk.jobs[i].status = "queued"} = Waiting(disk)
  /\ {i \in DOMAIN disk.jobs : disk.jobs[i].status \in TERMINAL} = Finished(disk)
  /\ {i \in DOMAIN disk'.jobs : disk'.jobs[i].status = "queued"} = Waiting(disk')
  /\ {i \in DOMAIN disk'.jobs : disk'.jobs[i].status \in TERMINAL} = Finished(disk')
  BY DEF Waiting, Finished

(* A step that hands out nothing is a step of the ledger, or nothing.       *)
LEMMA QuietLedger ==
  ASSUME NEW q, NEW n, Books(q, n), disk = q, disk' = n
  PROVE  \/ Ledger!LedgerNext
         \/ Waiting(n) = Waiting(q) /\ Active(n) = Active(q) /\ Finished(n) = Finished(q)
<1>1. CASE Unmoved(q, n)
  BY <1>1 DEF Unmoved
<1>2. CASE Enqueues(q, n)
  <2>1. PICK i : i \notin Waiting(q) \cup Active(q) \cup Finished(q) /\ Waiting(n) = Waiting(q) \cup {i}
    BY <1>2 DEF Enqueues
  <2>2. Ledger!Enqueue
    BY <1>2, <2>1, LedgerView DEF Ledger!Enqueue, Enqueues, Active
  <2>3. QED  BY <2>2 DEF Ledger!LedgerNext
<1>3. CASE Drops(q, n)
  <2>1. PICK lost \in SUBSET Waiting(q) :
           Waiting(n) = Waiting(q) \ lost /\ Finished(n) = Finished(q) \cup lost
    BY <1>3 DEF Drops
  <2>2. CASE lost = {}
    BY <1>3, <2>1, <2>2 DEF Drops
  <2>3. CASE lost # {}
    <3>1. Ledger!Drop(lost)
      BY <1>3, <2>1, <2>3, LedgerView DEF Ledger!Drop, Drops, Active
    <3>2. QED  BY <2>1, <3>1, LedgerView DEF Ledger!LedgerNext
  <2>4. QED  BY <2>2, <2>3
<1>4. CASE Releases(q, n)
  <2>1. PICK i \in Active(q) : Active(n) = Active(q) \ {i} /\ Finished(n) = Finished(q) \cup {i}
    BY <1>4 DEF Releases
  <2>2. Ledger!Release(i)
    BY <1>4, <2>1, LedgerView DEF Ledger!Release, Releases, Active
  <2>3. QED  BY <2>1, <2>2 DEF Ledger!LedgerNext, Active
<1>5. QED  BY <1>1, <1>2, <1>3, <1>4 DEF Books

(* A claim is the ledger's grant, with what it dropped on the way.          *)
LEMMA GrantLedger ==
  ASSUME SpoolInv, GrantStep
  PROVE  Ledger!LedgerNext
<1>1. TypeOK /\ data \in Image /\ disk = data
  BY DEF SpoolInv, Aligned
<1>2. PICK q \in Image : \E i \in Candidates(q) :
         /\ Unmoved(data, q) \/ Drops(data, q)
         /\ Cardinality(Active(q)) < capacity
         /\ Writes(Mark(q, {i}, "starting"))
  BY DEF GrantStep
<1>3. PICK i \in Candidates(q) :
         /\ Unmoved(data, q) \/ Drops(data, q)
         /\ Cardinality(Active(q)) < capacity
         /\ Writes(Mark(q, {i}, "starting"))
  BY <1>2
<1>4. PICK lost \in SUBSET Waiting(data) :
         Waiting(q) = Waiting(data) \ lost /\ Finished(q) = Finished(data) \cup lost
  <2>1. CASE Drops(data, q)
    BY <2>1 DEF Drops
  <2>2. CASE Unmoved(data, q)
    <3>1. Waiting(q) = Waiting(data) \ {} /\ Finished(q) = Finished(data) \cup {}
      BY <2>2 DEF Unmoved
    <3>2. {} \in SUBSET Waiting(data)
      OBVIOUS
    <3>3. QED  BY <3>1, <3>2
  <2>3. QED  BY <1>3, <2>1, <2>2
<1>5. Active(q) = Active(data)
  BY <1>3 DEF Unmoved, Drops
<1> DEFINE n == Mark(q, {i}, "starting")
<1>6. /\ DOMAIN n.jobs = DOMAIN q.jobs
      /\ Active(n) = Active(q) \cup {i}
      /\ \A k \in DOMAIN q.jobs : k # i => n.jobs[k] = q.jobs[k]
      /\ q.jobs[i].status = "queued" /\ n.jobs[i].status = "starting"
  <2>1. n = Mark(q, {i}, "starting") /\ i \in Candidates(q) /\ q \in Image
    OBVIOUS
  <2> HIDE DEF n
  <2>2. QED  BY <2>1, GrantFacts, SMTT(30)
<1>7. i \in DOMAIN q.jobs /\ disk' = n
  BY <1>3 DEF Candidates, Writes
<1> HIDE DEF n
<1>8. "starting" # "queued" /\ "starting" \notin TERMINAL /\ "queued" \notin TERMINAL
  BY DEF TERMINAL
<1>9. i \in Waiting(q) /\ Waiting(n) = Waiting(q) \ {i} /\ Finished(n) = Finished(q)
  BY <1>6, <1>7, <1>8 DEF Waiting, Finished
<1>10. Cardinality(Active(disk)) < MaxCapacity
  <2>1. Cardinality(Active(data)) < capacity
    BY <1>3, <1>5
  <2>2. Cardinality(Active(data)) \in Nat
    BY <1>1, ActiveFinite
  <2>3. capacity <= MaxCapacity /\ capacity \in Nat /\ MaxCapacity \in Nat
    BY <1>1, LimitsAssumption DEF TypeOK
  <2>4. QED  BY <1>1, <2>1, <2>2, <2>3
<1>11. /\ Waiting(n) = Waiting(data) \ (lost \cup {i}) /\ i \in Waiting(data) \ lost
       /\ Active(n) = Active(data) \cup {i} /\ Finished(n) = Finished(data) \cup lost
  BY <1>4, <1>5, <1>6, <1>9
<1>12. /\ Active(disk) = Active(data) /\ Waiting(disk) = Waiting(data)
       /\ Finished(disk) = Finished(data)
  BY <1>1
<1>13. Active(disk)' = Active(n) /\ Waiting(disk') = Waiting(n) /\ Finished(disk') = Finished(n)
  BY <1>7 DEF Active
<1>14. Ledger!Grant(i, lost)
  <2>1. lost \subseteq Waiting(disk) /\ i \in Waiting(disk) \ lost
    BY <1>4, <1>11, <1>12
  <2>2. /\ Waiting(disk') = Waiting(disk) \ (lost \cup {i})
        /\ Active(disk)' = Active(disk) \cup {i}
        /\ Finished(disk') = Finished(disk) \cup lost
    BY <1>11, <1>12, <1>13
  <2>3. Ledger!Cardinality(Active(disk)) = Cardinality(Active(disk))
    BY DEF Ledger!Cardinality, Cardinality
  <2>4. QED  BY <1>10, <2>1, <2>2, <2>3, LedgerView DEF Ledger!Grant
<1>15. QED  BY <1>4, <1>11, <1>12, <1>14, LedgerView DEF Ledger!LedgerNext

(* The journal implements SlotLedger: no crash, failed write or late report *)
(* forgets a mission, starts it twice or gives it a slot too many.          *)
THEOREM LedgerAlwaysKept == Spec => KeepsLedger
<1>1. Init => Ledger!LedgerInit
  BY DEF Init, Empty, Active, Ledger!LedgerInit
<1>2. ASSUME SpoolInv, [Next]_queueVars
      PROVE  [Ledger!LedgerNext]_<<{i \in DOMAIN disk.jobs : disk.jobs[i].status = "queued"},
                                   Active(disk),
                                   {i \in DOMAIN disk.jobs : disk.jobs[i].status \in TERMINAL}>>
  <2>1. TypeOK /\ Aligned /\ data \in Image /\ disk = data
    BY <1>2 DEF SpoolInv, Aligned
  <2>2. CASE QuietStep \/ Writes(Recovered(data))
    <3>1. PICK n : Books(data, n) /\ disk' = n
      BY <2>1, <2>2, RecoveredQuiets DEF QuietStep, Quiets, Writes
    <3>2. \/ Ledger!LedgerNext
          \/ /\ Waiting(n) = Waiting(data) /\ Active(n) = Active(data)
             /\ Finished(n) = Finished(data)
      BY <2>1, <3>1, QuietLedger
    <3>3. Active(disk)' = Active(n)
      BY <3>1 DEF Active
    <3>4. QED  BY <2>1, <3>1, <3>2, <3>3, LedgerView
  <2>3. CASE GrantStep
    BY <1>2, <2>3, GrantLedger
  <2>4. QED  BY <1>2, <2>1, <2>2, <2>3, StepWrites
<1>3. QED  BY <1>1, <1>2, SpoolInvariant, PTL DEF Spec, KeepsLedger, Ledger!LedgerSpec
=============================================================================
