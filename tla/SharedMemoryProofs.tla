------------------------- MODULE SharedMemoryProofs -------------------------
(* Theorems about SharedMemory, for all actors, rights, keys and texts. *)
EXTENDS SharedMemory, FiniteSetTheorems, TLAPS

(***************************************************************************)
(* Types.                                                                  *)
(***************************************************************************)

\* The current entry of a key is an entry, or there is none.
LEMMA RowType ==
  ASSUME NEW d \in Database, NEW k \in Keys
  PROVE  Row(d, k) \in Entry \cup {None}
BY DEF Row, Database

\* What a capture or a correction builds is an entry.
LEMMA BuiltType ==
  ASSUME NEW r \in Request, r.text \in Texts, NEW previous \in Entry \cup {None}
  PROVE  Built(r, previous) \in Entry
<1>1. 1 \in 1..MaxVersion BY MemoryAssumption
<1>2. Asks[r.text] \in VISIBILITY \cup {None} BY MemoryAssumption
<1>3. "proposal" \in STATUS /\ "private" \in VISIBILITY BY DEF STATUS, VISIBILITY
<1>4. r.actor \in Actors BY DEF Request
<1>5. previous # None => previous.owner \in Actors /\ previous.visibility \in VISIBILITY BY DEF Entry
<1> QED BY <1>1, <1>2, <1>3, <1>4, <1>5 DEF Built, Entry

\* The entry store() writes: one version more, and in quarantine if it must be.
StoredEntry(k, e) ==
  [e EXCEPT !.version = IF Current(k) = None THEN e.version ELSE Current(k).version + 1,
            !.quarantined = e.quarantined \/ e.text \in External]

\* A stored entry is an entry as long as the version stays below the bound.
LEMMA StoredEntryType ==
  ASSUME TypeOK, NEW k \in Keys, NEW e \in Entry,
         Current(k) # None => Current(k).version < MaxVersion
  PROVE  /\ StoredEntry(k, e) \in Entry
         /\ StoredEntry(k, e).text = e.text
         /\ StoredEntry(k, e).quarantined = (e.quarantined \/ e.text \in External)
<1>1. Current(k) \in Entry \cup {None} BY RowType DEF TypeOK, Current
<1>2. MaxVersion \in Nat BY MemoryAssumption
<1>3. (IF Current(k) = None THEN e.version ELSE Current(k).version + 1) \in 1..MaxVersion
  <2>1. e.version \in 1..MaxVersion BY DEF Entry
  <2>2. Current(k) # None => Current(k).version \in 1..MaxVersion BY <1>1 DEF Entry
  <2> QED BY <1>2, <2>1, <2>2
<1>4. (e.quarantined \/ e.text \in External) \in BOOLEAN OBVIOUS
<1> QED BY <1>3, <1>4 DEF StoredEntry, Entry

\* The tables after store().
LEMMA StoredTables ==
  ASSUME TypeOK, NEW k \in Keys, NEW e \in Entry,
         Current(k) # None => Current(k).version < MaxVersion
  PROVE  LET new == StoredEntry(k, e) IN
         /\ Stored(k, e) \in Database
         /\ Stored(k, e).trusted = [db.trusted EXCEPT ![k] = IF new.quarantined THEN None ELSE new]
         /\ Stored(k, e).quarantine = [db.quarantine EXCEPT ![k] = IF new.quarantined THEN new ELSE @]
         /\ Stored(k, e).vectors = db.vectors
         /\ Stored(k, e).revisions = db.revisions
         /\ Stored(k, e).receipts = db.receipts
         /\ Stored(k, e).tombstones = db.tombstones
         /\ Row(Stored(k, e), k) = new
<1> DEFINE new == StoredEntry(k, e)
           T == [db.trusted EXCEPT ![k] = IF new.quarantined THEN None ELSE new]
           Q == [db.quarantine EXCEPT ![k] = IF new.quarantined THEN new ELSE @]
<1>1. new \in Entry BY StoredEntryType
<1>2. db \in Database BY DEF TypeOK
<1>3. Stored(k, e) = [db EXCEPT !.trusted = T, !.quarantine = Q]
  BY <1>2 DEF Stored, StoredEntry, Database
<1>4. T \in [Keys -> Entry \cup {None}] /\ T[k] = IF new.quarantined THEN None ELSE new
  BY <1>1, <1>2 DEF Database
<1>5. Q \in [Keys -> Entry \cup {None}] /\ Q[k] = IF new.quarantined THEN new ELSE db.quarantine[k]
  BY <1>1, <1>2 DEF Database
<1>6. None # new BY <1>1, NoneIsNoEntry
<1> HIDE DEF T, Q, new
<1>7. /\ Stored(k, e) \in Database
      /\ Stored(k, e).trusted = T /\ Stored(k, e).quarantine = Q
      /\ Stored(k, e).vectors = db.vectors /\ Stored(k, e).revisions = db.revisions
      /\ Stored(k, e).receipts = db.receipts /\ Stored(k, e).tombstones = db.tombstones
  BY <1>2, <1>3, <1>4, <1>5 DEF Database
<1>8. Row(Stored(k, e), k) = new
  BY <1>4, <1>5, <1>6, <1>7 DEF Row
<1> QED BY <1>7, <1>8 DEF T, Q, new

\* What Write leaves, table by table.
LEMMA Written ==
  ASSUME TypeOK, NEW r \in Request, NEW e \in Entry,
         Current(r.key) # None => Current(r.key).version < MaxVersion,
         r.op # "forget",
         Write(r, e)
  PROVE  LET new == StoredEntry(r.key, e)
             before == IF Current(r.key) = None THEN db.revisions
                       ELSE Snapped(db.revisions, r.key, Current(r.key))
         IN
         /\ db' \in Database
         /\ db'.trusted = [db.trusted EXCEPT ![r.key] = IF new.quarantined THEN None ELSE new]
         /\ db'.quarantine = [db.quarantine EXCEPT ![r.key] = IF new.quarantined THEN new ELSE @]
         /\ db'.vectors = Vectors(r)
         /\ db'.revisions = Snapped(before, r.key, new)
         /\ db'.receipts = db.receipts \cup {Receipt(r, new)}
         /\ db'.tombstones = db.tombstones
         /\ Receipt(r, new) \in ReceiptRow
         /\ past' = past \cup {<<r.key, new>>}
         /\ applied' = applied \cup {[req |-> r, onto |-> Current(r.key), version |-> new.version]}
         /\ [req |-> r, onto |-> Current(r.key), version |-> new.version] \in Call
         /\ backup' = backup
<1> DEFINE new == StoredEntry(r.key, e)
           before == IF Current(r.key) = None THEN db.revisions
                     ELSE Snapped(db.revisions, r.key, Current(r.key))
           stored == Stored(r.key, e)
<1>1. r.key \in Keys /\ r.actor \in Actors /\ r.id \in Ids BY DEF Request
<1>2. new \in Entry BY <1>1, StoredEntryType
<1>3. /\ stored \in Database
      /\ stored.trusted = [db.trusted EXCEPT ![r.key] = IF new.quarantined THEN None ELSE new]
      /\ stored.quarantine = [db.quarantine EXCEPT ![r.key] = IF new.quarantined THEN new ELSE @]
      /\ stored.vectors = db.vectors
      /\ stored.revisions = db.revisions
      /\ stored.receipts = db.receipts
      /\ stored.tombstones = db.tombstones
      /\ Row(stored, r.key) = new
  BY <1>1, StoredTables
<1>4. Current(r.key) \in Entry \cup {None} BY <1>1, RowType DEF TypeOK, Current
<1>5. db \in Database BY DEF TypeOK
<1>6. Snapped(before, r.key, new) \subseteq Revision
  <2>1. before \subseteq Revision BY <1>1, <1>4, <1>5 DEF Snapped, Database, Revision
  <2> QED BY <1>1, <1>2, <2>1 DEF Snapped, Revision
<1>7. Vectors(r) \in [Keys -> Texts \cup {None}]
  BY <1>1, <1>5, MemoryAssumption DEF Vectors, Database, Request
<1>8. Receipt(r, new) \in ReceiptRow
  <2>1. Expected(r) \in 0..MaxVersion
    BY MemoryAssumption DEF Expected, Request, Entry
  <2>2. Fingerprint(r) \in [op: {"capture", "correct", "review"}, key: Keys, text: Texts \cup {None},
                            status: STATUS \cup {None}, expects: 0..MaxVersion]
    BY <2>1 DEF Fingerprint, Request
  <2>3. Answer(new) \in [version: 1..MaxVersion, status: STATUS, quarantined: BOOLEAN]
    BY <1>2 DEF Answer, Entry
  <2> QED BY <1>1, <2>2, <2>3 DEF Receipt, ReceiptRow
<1>9. /\ db' = [stored EXCEPT !.vectors = Vectors(r), !.revisions = Snapped(before, r.key, new),
                              !.receipts = @ \cup {Receipt(r, new)}]
      /\ past' = past \cup {<<r.key, new>>}
      /\ applied' = applied \cup {[req |-> r, onto |-> Current(r.key), version |-> new.version]}
      /\ backup' = backup
  BY <1>3 DEF Write
<1>10. [req |-> r, onto |-> Current(r.key), version |-> new.version] \in Call
  BY <1>2, <1>4 DEF Call, Entry
<1> HIDE DEF new, before, stored
<1>11. /\ db' \in Database
       /\ db'.trusted = stored.trusted /\ db'.quarantine = stored.quarantine
       /\ db'.vectors = Vectors(r) /\ db'.revisions = Snapped(before, r.key, new)
       /\ db'.receipts = db.receipts \cup {Receipt(r, new)} /\ db'.tombstones = db.tombstones
  BY <1>3, <1>5, <1>6, <1>7, <1>8, <1>9 DEF Database
<1> QED BY <1>3, <1>8, <1>9, <1>10, <1>11 DEF new, before

(***************************************************************************)
(* The invariant.  It is about a database and the calls whose effect the   *)
(* database carries, for it must hold of the backup as it holds of the     *)
(* database in use: a restored backup is used again.                       *)
(***************************************************************************)

OneRowIn(d) ==
  \A k \in Keys :
    /\ d.trusted[k] = None \/ d.quarantine[k] = None
    /\ d.trusted[k] # None => ~d.trusted[k].quarantined
    /\ d.quarantine[k] # None => d.quarantine[k].quarantined

NothingForgottenIn(d) ==
  \A k \in d.tombstones :
    /\ d.trusted[k] = None /\ d.quarantine[k] = None /\ d.vectors[k] = None
    /\ \A x \in d.revisions \cup d.receipts : x.key # k

VectorsIn(d) ==
  \A k \in Keys :
    d.vectors[k] = IF Row(d, k) # None /\ Row(d, k).text \in Embedded THEN Row(d, k).text ELSE None

\* What came from outside is never taken for the user's.
LabelledIn(d) == \A k \in Keys : Row(d, k) # None => (Row(d, k).text \in External => Row(d, k).quarantined)

\* The revisions of a key go from its first version to the current one, each once.
HistoryIn(d) ==
  \A k \in Keys :
    IF Row(d, k) = None THEN \A x \in d.revisions : x.key # k
    ELSE /\ [key |-> k, entry |-> Row(d, k)] \in d.revisions
         /\ \A v \in 1..Row(d, k).version : \E x \in d.revisions : x.key = k /\ x.entry.version = v
         /\ \A x \in d.revisions : x.key = k => x.entry.version <= Row(d, k).version
         /\ \A x, y \in d.revisions :
              (x.key = k /\ y.key = k /\ x.entry.version = y.entry.version) => x = y

QuarantineIn(d) ==
  \A x, y \in d.revisions :
    (x.key = y.key /\ x.entry.quarantined /\ x.entry.version <= y.entry.version) =>
      y.entry.quarantined /\ y.entry.status # "promoted"

\* Every call that took effect has its receipt, with the answer it was given.
AnsweredIn(d, calls) ==
  \A x \in calls :
    \/ x.req.key \in d.tombstones
    \/ \E y \in d.receipts, z \in d.revisions :
         /\ y.actor = x.req.actor /\ y.id = x.req.id /\ y.key = x.req.key
         /\ y.fingerprint = Fingerprint(x.req)
         /\ z.key = x.req.key /\ z.entry.version = x.version /\ y.answer = Answer(z.entry)

OnceIn(d, calls) ==
  \A x, y \in calls :
    (x.req.actor = y.req.actor /\ x.req.id = y.req.id /\ x # y) =>
      x.req.key \in d.tombstones \/ y.req.key \in d.tombstones

Sound(d, calls) ==
  /\ OneRowIn(d) /\ NothingForgottenIn(d) /\ VectorsIn(d) /\ LabelledIn(d)
  /\ HistoryIn(d) /\ QuarantineIn(d)
  /\ AnsweredIn(d, calls) /\ OnceIn(d, calls)

MemoryInv ==
  /\ TypeOK
  /\ Sound(db, applied)
  /\ backup # None => Sound(backup.db, backup.applied)

(***************************************************************************)
(* The three calls that write an entry.                                    *)
(***************************************************************************)

\* The author had read the entry the call is about, in the version it still has.
Informed(r) ==
  IF Current(r.key) = None THEN r.saw = None
  ELSE /\ r.saw \in Seen(r.key) /\ r.saw # None
       /\ Current(r.key).version = r.saw.version

\* What a call must have, to leave the entry e: a correction starts over, and a text
\* of the user's needs an actor that speaks for the user; a review changes the status.
Earns(r, e) ==
  /\ r.op # "review" =>
       /\ e.text = r.text /\ e.status = "proposal"
       /\ e.text \notin External => "user_ingress" \in Rights[r.actor]
  /\ r.op = "review" =>
       /\ "review" \in Rights[r.actor]
       /\ Current(r.key) # None /\ e.text = Current(r.key).text
       /\ e.status = r.status /\ r.status \in AllowedTransitions[Current(r.key).status]
       /\ Current(r.key).quarantined => e.quarantined

\* A call that is applied writes some entry, is no copy, and keeps to the versions.
Changes(r) ==
  /\ r.op # "forget"
  /\ IsNew(r) /\ Informed(r)
  /\ Current(r.key) # None => Current(r.key).version < MaxVersion
  /\ \E e \in Entry :
       /\ Current(r.key) = None => e.version = 1
       /\ Earns(r, e)
       /\ e.status = "promoted" => (~e.quarantined /\ e.text \notin External)
       /\ Write(r, e)

LEMMA CallsWrite ==
  ASSUME TypeOK, LabelledIn(db), NEW r \in Request, r.text \in Texts \/ r.status \in STATUS,
         r.op = "capture" => r.saw = None,
         r.op # "capture" => (r.saw \in Seen(r.key) /\ r.saw # None),
         \/ r.op = "capture" /\ r.text \in Texts /\ Capture(r)
         \/ r.op = "correct" /\ r.text \in Texts /\ Correct(r)
         \/ r.op = "review" /\ r.status \in STATUS /\ Review(r)
  PROVE  Changes(r)
<1> DEFINE old == Current(r.key)
<1>1. r.key \in Keys BY DEF Request
<1>2. old \in Entry \cup {None} BY <1>1, RowType DEF TypeOK, Current
<1>3. CASE r.op = "capture" /\ r.text \in Texts /\ Capture(r)
  <2>1. Built(r, None) \in Entry BY <1>3, BuiltType
  <2>2. /\ Built(r, None).status = "proposal" /\ Built(r, None).version = 1
        /\ Built(r, None).text = r.text
    BY DEF Built
  <2>3. IsNew(r) /\ Informed(r) BY <1>3 DEF Capture, Informed
  <2>4. Earns(r, Built(r, None)) BY <1>3, <2>2 DEF Capture, Sourced, Earns
  <2> QED BY <1>3, <2>1, <2>2, <2>3, <2>4 DEF Capture, Changes
<1>4. CASE r.op = "correct" /\ r.text \in Texts /\ Correct(r)
  <2>1. Built(r, old) \in Entry BY <1>2, <1>4, BuiltType
  <2>2. Built(r, old).status = "proposal" /\ Built(r, old).text = r.text BY DEF Built
  <2>3. IsNew(r) /\ Informed(r) BY <1>4 DEF Correct, MayChange, Informed, Expected
  <2>4. Earns(r, Built(r, old)) BY <1>4, <2>2 DEF Correct, Sourced, Earns
  <2> QED BY <1>4, <2>1, <2>2, <2>3, <2>4 DEF Correct, Changes, MayChange
<1>5. CASE r.op = "review" /\ r.status \in STATUS /\ Review(r)
  <2>1. old \in Entry BY <1>2, <1>5 DEF Review, MayChange
  <2> DEFINE e == [old EXCEPT !.status = r.status]
  <2>2. /\ e \in Entry /\ e.status = r.status
        /\ e.quarantined = old.quarantined /\ e.text = old.text
    BY <1>5, <2>1 DEF Entry
  <2>3. r.status = "promoted" => ~old.quarantined BY <1>5 DEF Review, MayBecome
  <2>4. ~old.quarantined => old.text \notin External
    BY <1>1, <2>1, NoneIsNoEntry DEF LabelledIn, Current
  <2>5. IsNew(r) /\ Informed(r) BY <1>5 DEF Review, MayChange, Informed, Expected
  <2>6. Earns(r, e)
    BY <1>5, <2>1, <2>2, NoneIsNoEntry DEF Review, MayChange, MayBecome, IsNew, Right, Earns
  <2> HIDE DEF e
  <2>7. Write(r, e) BY <1>5 DEF Review, e
  <2> QED BY <1>5, <2>2, <2>3, <2>4, <2>5, <2>6, <2>7 DEF Review, Changes, MayChange
<1> QED BY <1>3, <1>4, <1>5

\* Every call is one of these.
LEMMA Steps ==
  ASSUME TypeOK, LabelledIn(db), Serves
  PROVE  \/ \E r \in Request : Changes(r)
         \/ \E r \in Request : Forget(r)
<1>1. SUFFICES ASSUME NEW a \in Actors, NEW i \in Ids, NEW k \in Keys,
                      LET From(op, saw, text, status) ==
                            [actor |-> a, id |-> i, op |-> op, key |-> k,
                             saw |-> saw, text |-> text, status |-> status]
                      IN  \/ \E t \in Texts : Capture(From("capture", None, t, None))
                          \/ \E e \in Seen(k), t \in Texts : Correct(From("correct", e, t, None))
                          \/ \E e \in Seen(k), s \in STATUS \ {"proposal"} :
                               Review(From("review", e, None, s))
                          \/ \E e \in Seen(k) : Forget(From("forget", e, None, None))
               PROVE  \/ \E r \in Request : Changes(r)
                      \/ \E r \in Request : Forget(r)
  BY DEF Serves, Calls
<1>2. Seen(k) \subseteq Entry /\ None \notin Seen(k) BY NoneIsNoEntry DEF TypeOK, Seen
<1> DEFINE From(op, saw, text, status) ==
             [actor |-> a, id |-> i, op |-> op, key |-> k,
              saw |-> saw, text |-> text, status |-> status]
<1>3. CASE \E t \in Texts : Capture(From("capture", None, t, None))
  <2>1. PICK t \in Texts : Capture(From("capture", None, t, None)) BY <1>3
  <2>2. From("capture", None, t, None) \in Request BY DEF Request
  <2> QED BY <1>2, <2>1, <2>2, CallsWrite
<1>4. CASE \E e \in Seen(k), t \in Texts : Correct(From("correct", e, t, None))
  <2>1. PICK e \in Seen(k), t \in Texts : Correct(From("correct", e, t, None)) BY <1>4
  <2>2. From("correct", e, t, None) \in Request BY <1>2 DEF Request
  <2> QED BY <1>2, <2>1, <2>2, CallsWrite
<1>5. CASE \E e \in Seen(k), s \in STATUS \ {"proposal"} : Review(From("review", e, None, s))
  <2>1. PICK e \in Seen(k), s \in STATUS \ {"proposal"} : Review(From("review", e, None, s)) BY <1>5
  <2>2. From("review", e, None, s) \in Request BY <1>2 DEF Request
  <2> QED BY <1>2, <2>1, <2>2, CallsWrite
<1>6. CASE \E e \in Seen(k) : Forget(From("forget", e, None, None))
  <2>1. PICK e \in Seen(k) : Forget(From("forget", e, None, None)) BY <1>6
  <2>2. From("forget", e, None, None) \in Request BY <1>2 DEF Request
  <2> QED BY <2>1, <2>2
<1> QED BY <1>1, <1>3, <1>4, <1>5, <1>6

(***************************************************************************)
(* A database that loses the rows of some keys, and notes it, stays sound. *)
(***************************************************************************)

Erased(d, keys) == [Without(d, keys) EXCEPT !.tombstones = @ \cup keys]

LEMMA ErasedTables ==
  ASSUME NEW d \in Database, NEW keys \in SUBSET Keys
  PROVE  /\ Erased(d, keys) \in Database
         /\ Erased(d, keys).trusted = [k \in Keys |-> IF k \in keys THEN None ELSE d.trusted[k]]
         /\ Erased(d, keys).quarantine = [k \in Keys |-> IF k \in keys THEN None ELSE d.quarantine[k]]
         /\ Erased(d, keys).vectors = [k \in Keys |-> IF k \in keys THEN None ELSE d.vectors[k]]
         /\ Erased(d, keys).revisions = {x \in d.revisions : x.key \notin keys}
         /\ Erased(d, keys).receipts = {x \in d.receipts : x.key \notin keys}
         /\ Erased(d, keys).tombstones = d.tombstones \cup keys
         /\ \A k \in Keys : Row(Erased(d, keys), k) = IF k \in keys THEN None ELSE Row(d, k)
<1> DEFINE T == [k \in Keys |-> IF k \in keys THEN None ELSE d.trusted[k]]
           Q == [k \in Keys |-> IF k \in keys THEN None ELSE d.quarantine[k]]
           V == [k \in Keys |-> IF k \in keys THEN None ELSE d.vectors[k]]
           H == {x \in d.revisions : x.key \notin keys}
           R == {x \in d.receipts : x.key \notin keys}
<1>1. Erased(d, keys) = [d EXCEPT !.trusted = T, !.quarantine = Q, !.vectors = V, !.revisions = H,
                                  !.receipts = R, !.tombstones = d.tombstones \cup keys]
  BY DEF Erased, Without, Database
<1>2. /\ T \in [Keys -> Entry \cup {None}] /\ Q \in [Keys -> Entry \cup {None}]
      /\ V \in [Keys -> Texts \cup {None}]
      /\ H \subseteq Revision /\ R \subseteq ReceiptRow /\ d.tombstones \cup keys \subseteq Keys
  BY DEF Database
<1>3. \A k \in Keys : /\ T[k] = IF k \in keys THEN None ELSE d.trusted[k]
                      /\ Q[k] = IF k \in keys THEN None ELSE d.quarantine[k]
  OBVIOUS
<1> HIDE DEF T, Q, V, H, R
<1>4. /\ Erased(d, keys) \in Database
      /\ Erased(d, keys).trusted = T /\ Erased(d, keys).quarantine = Q
      /\ Erased(d, keys).vectors = V /\ Erased(d, keys).revisions = H
      /\ Erased(d, keys).receipts = R /\ Erased(d, keys).tombstones = d.tombstones \cup keys
  <2>1. Erased(d, keys) = [trusted |-> T, quarantine |-> Q, vectors |-> V, revisions |-> H,
                           receipts |-> R, tombstones |-> d.tombstones \cup keys]
    BY <1>1 DEF Database
  <2> QED BY <1>2, <2>1 DEF Database
<1>5. \A k \in Keys : Row(Erased(d, keys), k) = IF k \in keys THEN None ELSE Row(d, k)
  BY <1>3, <1>4 DEF Row
<1> QED BY <1>4, <1>5 DEF T, Q, V, H, R

LEMMA ErasedType ==
  ASSUME NEW d \in Database, NEW keys \in SUBSET Keys
  PROVE  Erased(d, keys) \in Database
BY ErasedTables

LEMMA ErasedSound ==
  ASSUME NEW d \in Database, NEW keys \in SUBSET Keys, NEW calls \in SUBSET Call, Sound(d, calls)
  PROVE  Sound(Erased(d, keys), calls)
<1> DEFINE n == Erased(d, keys)
<1>1. /\ n.trusted = [k \in Keys |-> IF k \in keys THEN None ELSE d.trusted[k]]
      /\ n.quarantine = [k \in Keys |-> IF k \in keys THEN None ELSE d.quarantine[k]]
      /\ n.vectors = [k \in Keys |-> IF k \in keys THEN None ELSE d.vectors[k]]
      /\ n.revisions = {x \in d.revisions : x.key \notin keys}
      /\ n.receipts = {x \in d.receipts : x.key \notin keys}
      /\ n.tombstones = d.tombstones \cup keys
      /\ \A k \in Keys : Row(n, k) = IF k \in keys THEN None ELSE Row(d, k)
  BY ErasedTables
<1>2. d.tombstones \subseteq Keys BY DEF Database
<1> HIDE DEF n
<1>3. OneRowIn(n) BY <1>1 DEF Sound, OneRowIn
<1>4. NothingForgottenIn(n) BY <1>1, <1>2 DEF Sound, NothingForgottenIn
<1>5. VectorsIn(n) BY <1>1 DEF Sound, VectorsIn
<1>6. LabelledIn(n) BY <1>1 DEF Sound, LabelledIn
<1>7. HistoryIn(n)
  <2> SUFFICES ASSUME NEW k \in Keys, k \notin keys, Row(d, k) # None
               PROVE  /\ [key |-> k, entry |-> Row(n, k)] \in n.revisions
                      /\ \A v \in 1..Row(n, k).version :
                           \E x \in n.revisions : x.key = k /\ x.entry.version = v
                      /\ \A x \in n.revisions : x.key = k => x.entry.version <= Row(n, k).version
                      /\ \A x, y \in n.revisions :
                           (x.key = k /\ y.key = k /\ x.entry.version = y.entry.version) => x = y
    BY <1>1 DEF Sound, HistoryIn
  <2>1. Row(n, k) = Row(d, k) BY <1>1
  <2>2. /\ [key |-> k, entry |-> Row(d, k)] \in d.revisions
        /\ \A v \in 1..Row(d, k).version : \E x \in d.revisions : x.key = k /\ x.entry.version = v
        /\ \A x \in d.revisions : x.key = k => x.entry.version <= Row(d, k).version
        /\ \A x, y \in d.revisions :
             (x.key = k /\ y.key = k /\ x.entry.version = y.entry.version) => x = y
    BY DEF Sound, HistoryIn
  <2>3. \A x \in d.revisions : x.key = k => x \in n.revisions BY <1>1
  <2>4. n.revisions \subseteq d.revisions BY <1>1
  <2> QED BY <2>1, <2>2, <2>3, <2>4
<1>8. QuarantineIn(n) BY <1>1 DEF Sound, QuarantineIn
<1>9. AnsweredIn(n, calls)
  <2> SUFFICES ASSUME NEW x \in calls, x.req.key \notin n.tombstones
               PROVE  \E y \in n.receipts, z \in n.revisions :
                        /\ y.actor = x.req.actor /\ y.id = x.req.id /\ y.key = x.req.key
                        /\ y.fingerprint = Fingerprint(x.req)
                        /\ z.key = x.req.key /\ z.entry.version = x.version
                        /\ y.answer = Answer(z.entry)
    BY DEF AnsweredIn
  <2>1. x.req.key \notin d.tombstones /\ x.req.key \notin keys BY <1>1
  <2>2. PICK y \in d.receipts, z \in d.revisions :
          /\ y.actor = x.req.actor /\ y.id = x.req.id /\ y.key = x.req.key
          /\ y.fingerprint = Fingerprint(x.req)
          /\ z.key = x.req.key /\ z.entry.version = x.version
          /\ y.answer = Answer(z.entry)
    BY <2>1 DEF Sound, AnsweredIn
  <2>3. y \in n.receipts /\ z \in n.revisions BY <1>1, <2>1, <2>2
  <2> QED BY <2>2, <2>3
<1>10. OnceIn(n, calls) BY <1>1 DEF Sound, OnceIn
<1> QED BY <1>3, <1>4, <1>5, <1>6, <1>7, <1>8, <1>9, <1>10 DEF Sound, n

(***************************************************************************)
(* A database in which a call writes an entry stays sound.                 *)
(***************************************************************************)

\* The call adds one entry to the history of its key, the next version.
Extends(r) ==
  \E n \in Entry :
    /\ n.version = IF Current(r.key) = None THEN 1 ELSE Current(r.key).version + 1
    /\ Earns(r, n)
    /\ Row(db', r.key) = n /\ \A j \in Keys \ {r.key} : Row(db', j) = Row(db, j)
    /\ db'.revisions = db.revisions \cup {[key |-> r.key, entry |-> n]}
    /\ db'.tombstones = db.tombstones
    /\ past' = past \cup {<<r.key, n>>}
    /\ applied' = applied \cup {[req |-> r, onto |-> Current(r.key), version |-> n.version]}

LEMMA WrittenSound ==
  ASSUME MemoryInv, NEW r \in Request, Changes(r)
  PROVE  Sound(db', applied') /\ TypeOK' /\ backup' = backup /\ Extends(r)
<1>1. PICK e \in Entry :
        /\ Current(r.key) = None => e.version = 1
        /\ Earns(r, e)
        /\ e.status = "promoted" => (~e.quarantined /\ e.text \notin External)
        /\ Write(r, e)
  BY DEF Changes
<1> DEFINE k == r.key
           old == Current(k)
           new == StoredEntry(k, e)
           before == IF old = None THEN db.revisions ELSE Snapped(db.revisions, k, old)
           call == [req |-> r, onto |-> old, version |-> new.version]
<1>2. TypeOK /\ Sound(db, applied) BY DEF MemoryInv
<1>3. k \in Keys BY DEF Request
<1>4. old # None => old.version < MaxVersion BY DEF Changes
<1>5. /\ db' \in Database
      /\ db'.trusted = [db.trusted EXCEPT ![k] = IF new.quarantined THEN None ELSE new]
      /\ db'.quarantine = [db.quarantine EXCEPT ![k] = IF new.quarantined THEN new ELSE @]
      /\ db'.vectors = Vectors(r)
      /\ db'.revisions = Snapped(before, k, new)
      /\ db'.receipts = db.receipts \cup {Receipt(r, new)}
      /\ db'.tombstones = db.tombstones
      /\ past' = past \cup {<<k, new>>}
      /\ applied' = applied \cup {call}
      /\ call \in Call
      /\ backup' = backup
  BY <1>1, <1>2, <1>4, Written DEF Changes
<1>6. /\ new \in Entry /\ new.text = e.text
      /\ new.quarantined = (e.quarantined \/ e.text \in External)
  BY <1>2, <1>3, <1>4, StoredEntryType
<1>7. new.version = (IF old = None THEN e.version ELSE old.version + 1) /\ new.status = e.status
  BY DEF StoredEntry, Entry
<1>8. old \in Entry \cup {None} BY <1>2, <1>3, RowType DEF TypeOK, Current
<1>9. new # None BY <1>6, NoneIsNoEntry
<1>10. db \in Database BY <1>2 DEF TypeOK
<1>11. Sound(db, applied) BY <1>2
<1>12. k \notin db.tombstones /\ Receipts(r) = {} BY DEF Changes, IsNew
<1>13. Storable(k, e) BY <1>1 DEF Write
<1>14. old = Row(db, k) BY DEF Current
<1>15. (old = None => new.version = 1) /\ (old # None => new.version = old.version + 1)
  BY <1>1, <1>7
<1>16. old # None => old \in Entry /\ old.version \in Nat BY <1>8 DEF Entry
<1>17. new.status = "promoted" => ~new.quarantined BY <1>1, <1>6, <1>7
<1>18. Receipt(r, new) = [actor |-> r.actor, id |-> r.id, fingerprint |-> Fingerprint(r),
                          key |-> k, answer |-> Answer(new)]
  BY DEF Receipt
<1>26. /\ call.req = r /\ call.version = new.version
       /\ Vectors(r) = IF r.op = "review" THEN db.vectors
                       ELSE [db.vectors EXCEPT ![k] = IF r.text \in Embedded THEN r.text ELSE None]
       /\ r.op = "review" => (old # None /\ new.text = old.text)
       /\ r.op # "review" => new.text = r.text
  BY <1>1, <1>6 DEF Vectors, Earns
<1>35. Earns(r, new) BY <1>1, <1>6, <1>7 DEF Earns
<1> HIDE DEF k, old, new, before, call
<1>19. /\ db'.trusted[k] = IF new.quarantined THEN None ELSE new
       /\ db'.quarantine[k] = IF new.quarantined THEN new ELSE None
       /\ \A j \in Keys \ {k} : /\ db'.trusted[j] = db.trusted[j]
                                /\ db'.quarantine[j] = db.quarantine[j]
  <2>1. /\ db'.trusted[k] = IF new.quarantined THEN None ELSE new
        /\ db'.quarantine[k] = IF new.quarantined THEN new ELSE db.quarantine[k]
        /\ \A j \in Keys \ {k} : /\ db'.trusted[j] = db.trusted[j]
                                 /\ db'.quarantine[j] = db.quarantine[j]
    BY <1>3, <1>5, <1>10 DEF Database
  <2>2. ~new.quarantined => db.quarantine[k] = None
    BY <1>3, <1>6, <1>11, <1>13 DEF Sound, OneRowIn, Storable, Current, Row
  <2> QED BY <2>1, <2>2
<1>20. Row(db', k) = new /\ \A j \in Keys \ {k} : Row(db', j) = Row(db, j)
  BY <1>9, <1>19 DEF Row
<1>21. \A x \in db.revisions : x.key = k => old # None /\ x.entry.version <= old.version
  BY <1>3, <1>11, <1>14 DEF Sound, HistoryIn
<1>22. db.revisions \subseteq Revision BY <1>10 DEF Database
<1>23. db'.revisions = db.revisions \cup {[key |-> k, entry |-> new]}
  <2>1. before = db.revisions
    <3>1. CASE old = None BY <3>1 DEF before
    <3>2. CASE old # None
      <4>1. [key |-> k, entry |-> old] \in db.revisions
        BY <1>3, <1>11, <1>14, <3>2 DEF Sound, HistoryIn
      <4>2. \E x \in db.revisions : x.key = k /\ x.entry.version = old.version BY <4>1
      <4> QED BY <3>2, <4>2 DEF before, Snapped
    <3> QED BY <3>1, <3>2
  <2>2. ~\E x \in db.revisions : x.key = k /\ x.entry.version = new.version
    <3> SUFFICES ASSUME NEW x \in db.revisions, x.key = k, x.entry.version = new.version
                 PROVE  FALSE
      OBVIOUS
    <3>1. old # None /\ x.entry.version <= old.version BY <1>21
    <3> QED BY <1>15, <1>16, <3>1
  <2> QED BY <1>5, <2>1, <2>2 DEF Snapped
<1>24. OneRowIn(db')
  <2> SUFFICES ASSUME NEW j \in Keys
               PROVE  /\ db'.trusted[j] = None \/ db'.quarantine[j] = None
                      /\ db'.trusted[j] # None => ~db'.trusted[j].quarantined
                      /\ db'.quarantine[j] # None => db'.quarantine[j].quarantined
    BY DEF OneRowIn
  <2>1. CASE j = k BY <1>19, <2>1
  <2>2. CASE j # k BY <1>11, <1>19, <2>2 DEF Sound, OneRowIn
  <2> QED BY <2>1, <2>2
<1>25. NothingForgottenIn(db')
  <2> SUFFICES ASSUME NEW j \in db.tombstones
               PROVE  /\ db'.trusted[j] = None /\ db'.quarantine[j] = None /\ db'.vectors[j] = None
                      /\ \A x \in db'.revisions \cup db'.receipts : x.key # j
    BY <1>5 DEF NothingForgottenIn
  <2>1. j # k /\ j \in Keys BY <1>10, <1>12 DEF Database
  <2>2. /\ db.trusted[j] = None /\ db.quarantine[j] = None /\ db.vectors[j] = None
        /\ \A x \in db.revisions \cup db.receipts : x.key # j
    BY <1>11 DEF Sound, NothingForgottenIn
  <2>3. db'.vectors[j] = db.vectors[j] BY <1>5, <1>10, <2>1 DEF Vectors, Database, k
  <2>4. \A x \in db'.receipts : x \in db.receipts \/ x.key = k BY <1>5, <1>18
  <2>5. \A x \in db'.revisions : x \in db.revisions \/ x.key = k BY <1>23
  <2> QED BY <1>19, <2>1, <2>2, <2>3, <2>4, <2>5
<1>27. LabelledIn(db')
  BY <1>6, <1>11, <1>20 DEF Sound, LabelledIn
<1>28. HistoryIn(db')
  <2> SUFFICES ASSUME NEW j \in Keys
               PROVE  IF Row(db', j) = None THEN \A x \in db'.revisions : x.key # j
                      ELSE /\ [key |-> j, entry |-> Row(db', j)] \in db'.revisions
                           /\ \A v \in 1..Row(db', j).version :
                                \E x \in db'.revisions : x.key = j /\ x.entry.version = v
                           /\ \A x \in db'.revisions : x.key = j => x.entry.version <= Row(db', j).version
                           /\ \A x, y \in db'.revisions :
                                (x.key = j /\ y.key = j /\ x.entry.version = y.entry.version) => x = y
    BY DEF HistoryIn
  <2>1. CASE j # k
    <3>1. \A x \in db'.revisions : x.key = j => x \in db.revisions BY <1>23, <2>1
    <3>2. Row(db', j) = Row(db, j) /\ db.revisions \subseteq db'.revisions BY <1>20, <1>23, <2>1
    <3> QED BY <1>11, <3>1, <3>2 DEF Sound, HistoryIn
  <2>2. CASE j = k
    <3>1. [key |-> k, entry |-> new] \in db'.revisions BY <1>23
    <3>2. \A v \in 1..new.version : \E x \in db'.revisions : x.key = k /\ x.entry.version = v
      <4> TAKE v \in 1..new.version
      <4>1. CASE v = new.version BY <3>1, <4>1
      <4>2. CASE v # new.version
        <5>1. old # None BY <1>15, <4>2
        <5>2. v \in 1..old.version BY <1>15, <1>16, <4>2, <5>1
        <5>3. \A w \in 1..old.version : \E x \in db.revisions : x.key = k /\ x.entry.version = w
          BY <1>3, <1>11, <1>14, <5>1 DEF Sound, HistoryIn
        <5>4. \E x \in db.revisions : x.key = k /\ x.entry.version = v BY <5>2, <5>3
        <5> QED BY <1>23, <5>4
      <4> QED BY <4>1, <4>2
    <3>3. new.version \in Nat BY <1>6, MemoryAssumption DEF Entry
    <3>4. \A x \in db.revisions : x.key = k => x.entry.version < new.version
      <4> TAKE x \in db.revisions
      <4> HAVE x.key = k
      <4>1. old # None /\ x.entry.version <= old.version BY <1>21
      <4>2. x.entry.version \in Nat BY <1>22, MemoryAssumption DEF Revision, Entry
      <4> QED BY <1>15, <1>16, <4>1, <4>2
    <3>5. \A x \in db'.revisions : x.key = k => x.entry.version <= new.version
      <4> TAKE x \in db'.revisions
      <4> HAVE x.key = k
      <4>1. CASE x \in db.revisions
        <5>1. x.entry.version \in Nat BY <1>22, <4>1, MemoryAssumption DEF Revision, Entry
        <5> QED BY <3>3, <3>4, <4>1, <5>1
      <4>2. CASE x \notin db.revisions BY <1>23, <3>3, <4>2
      <4> QED BY <4>1, <4>2
    <3>6. \A x, y \in db'.revisions :
            (x.key = k /\ y.key = k /\ x.entry.version = y.entry.version) => x = y
      <4> SUFFICES ASSUME NEW x \in db'.revisions, NEW y \in db'.revisions,
                          x.key = k, y.key = k, x.entry.version = y.entry.version
                   PROVE  x = y
        OBVIOUS
      <4>1. \A z \in db.revisions : z.key = k => z.entry.version # new.version BY <3>3, <3>4
      <4>2. CASE x \in db.revisions /\ y \in db.revisions
        <5>1. Row(db, k) # None BY <1>14, <1>21, <4>2
        <5>2. \A v, w \in db.revisions :
                (v.key = k /\ w.key = k /\ v.entry.version = w.entry.version) => v = w
          BY <1>3, <1>11, <5>1 DEF Sound, HistoryIn
        <5> QED BY <4>2, <5>2
      <4>3. CASE x \notin db.revisions
        <5>1. x = [key |-> k, entry |-> new] BY <1>23, <4>3
        <5>2. y \notin db.revisions BY <4>1, <5>1
        <5> QED BY <1>23, <5>1, <5>2
      <4>4. CASE y \notin db.revisions
        <5>1. y = [key |-> k, entry |-> new] BY <1>23, <4>4
        <5>2. x \notin db.revisions BY <4>1, <5>1
        <5> QED BY <1>23, <5>1, <5>2
      <4> QED BY <4>2, <4>3, <4>4
    <3> QED BY <1>9, <1>20, <2>2, <3>1, <3>2, <3>5, <3>6
  <2> QED BY <2>1, <2>2
<1>29. VectorsIn(db')
  <2> SUFFICES ASSUME NEW j \in Keys
               PROVE  db'.vectors[j] = IF Row(db', j) # None /\ Row(db', j).text \in Embedded
                                         THEN Row(db', j).text ELSE None
    BY DEF VectorsIn
  <2>1. db.vectors[j] = IF Row(db, j) # None /\ Row(db, j).text \in Embedded
                          THEN Row(db, j).text ELSE None
    BY <1>11 DEF Sound, VectorsIn
  <2>2. db.vectors \in [Keys -> Texts \cup {None}] BY <1>10 DEF Database
  <2>3. CASE j # k BY <1>5, <1>20, <1>26, <2>1, <2>2, <2>3
  <2>4. CASE j = k /\ r.op = "review" BY <1>5, <1>9, <1>14, <1>20, <1>26, <2>1, <2>4
  <2>5. CASE j = k /\ r.op # "review" BY <1>5, <1>9, <1>20, <1>26, <2>2, <2>5
  <2> QED BY <2>3, <2>4, <2>5
<1>30. QuarantineIn(db')
  <2> SUFFICES ASSUME NEW x \in db'.revisions, NEW y \in db'.revisions,
                      x.key = y.key, x.entry.quarantined, x.entry.version <= y.entry.version
               PROVE  y.entry.quarantined /\ y.entry.status # "promoted"
    BY DEF QuarantineIn
  <2>1. QuarantineIn(db) BY <1>11 DEF Sound
  <2>2. CASE x \in db.revisions /\ y \in db.revisions BY <2>1, <2>2 DEF QuarantineIn
  <2>3. CASE x \notin db.revisions /\ y \notin db.revisions
    <3>1. x = y /\ y.entry = new BY <1>23, <2>3
    <3> QED BY <1>17, <3>1
  <2>4. CASE x \in db.revisions /\ y \notin db.revisions
    <3>1. y.key = k /\ y.entry = new BY <1>23, <2>4
    <3>2. old # None /\ x.entry.version <= old.version BY <1>21, <2>4, <3>1
    <3>3. [key |-> k, entry |-> old] \in db.revisions
      BY <1>3, <1>11, <1>14, <3>2 DEF Sound, HistoryIn
    <3>4. old.quarantined
      <4> DEFINE z == [key |-> k, entry |-> old]
      <4>1. z \in db.revisions /\ z.key = k /\ z.entry = old BY <3>3
      <4> HIDE DEF z
      <4> QED BY <2>1, <2>4, <3>1, <3>2, <4>1 DEF QuarantineIn
    <3>5. db.trusted[k] = None
      BY <1>3, <1>11, <1>14, <3>2, <3>4 DEF Sound, OneRowIn, Row
    <3>6. e.quarantined BY <1>13, <1>14, <3>2, <3>5 DEF Storable, Current
    <3>7. new.quarantined BY <1>6, <3>6
    <3> QED BY <1>17, <3>1, <3>7
  <2>5. CASE x \notin db.revisions /\ y \in db.revisions
    <3>1. x.key = k /\ x.entry = new BY <1>23, <2>5
    <3>2. old # None /\ y.entry.version <= old.version BY <1>21, <2>5, <3>1
    <3>3. y.entry.version \in Nat BY <1>22, <2>5, MemoryAssumption DEF Revision, Entry
    <3> QED BY <1>15, <1>16, <3>1, <3>2, <3>3
  <2> QED BY <2>2, <2>3, <2>4, <2>5
<1>31. AnsweredIn(db', applied')
  <2> SUFFICES ASSUME NEW x \in applied', x.req.key \notin db.tombstones
               PROVE  \E y \in db'.receipts, z \in db'.revisions :
                        /\ y.actor = x.req.actor /\ y.id = x.req.id /\ y.key = x.req.key
                        /\ y.fingerprint = Fingerprint(x.req)
                        /\ z.key = x.req.key /\ z.entry.version = x.version
                        /\ y.answer = Answer(z.entry)
    BY <1>5 DEF AnsweredIn
  <2>1. CASE x \in applied
    <3>1. PICK y \in db.receipts, z \in db.revisions :
            /\ y.actor = x.req.actor /\ y.id = x.req.id /\ y.key = x.req.key
            /\ y.fingerprint = Fingerprint(x.req)
            /\ z.key = x.req.key /\ z.entry.version = x.version
            /\ y.answer = Answer(z.entry)
      BY <1>11, <2>1 DEF Sound, AnsweredIn
    <3>2. y \in db'.receipts /\ z \in db'.revisions BY <1>5, <1>23
    <3> QED BY <3>1, <3>2
  <2>2. CASE x \notin applied
    <3>1. x.req = r /\ x.version = new.version BY <1>5, <1>26, <2>2
    <3> DEFINE z == [key |-> k, entry |-> new]
    <3>2. z \in db'.revisions /\ z.key = k /\ z.entry = new BY <1>23
    <3>3. Receipt(r, new) \in db'.receipts BY <1>5
    <3>4. r.key = k BY DEF k
    <3> HIDE DEF z
    <3>5. /\ Receipt(r, new).actor = r.actor /\ Receipt(r, new).id = r.id
          /\ Receipt(r, new).key = k /\ Receipt(r, new).fingerprint = Fingerprint(r)
          /\ Receipt(r, new).answer = Answer(new)
      BY <1>18
    <3> QED BY <3>1, <3>2, <3>3, <3>4, <3>5
  <2> QED BY <2>1, <2>2
<1>32. OnceIn(db', applied')
  <2>1. \A x \in applied : (x.req.actor = r.actor /\ x.req.id = r.id) => x.req.key \in db.tombstones
    BY <1>11, <1>12 DEF Sound, AnsweredIn, Receipts
  <2> SUFFICES ASSUME NEW x \in applied', NEW y \in applied',
                      x.req.actor = y.req.actor, x.req.id = y.req.id, x # y
               PROVE  x.req.key \in db.tombstones \/ y.req.key \in db.tombstones
    BY <1>5 DEF OnceIn
  <2>2. CASE x \in applied /\ y \in applied BY <1>11, <2>2 DEF Sound, OnceIn
  <2>3. CASE x \in applied /\ y \notin applied BY <1>5, <1>26, <2>1, <2>3
  <2>4. CASE x \notin applied /\ y \in applied BY <1>5, <1>26, <2>1, <2>4
  <2>5. CASE x \notin applied /\ y \notin applied BY <1>5, <2>5
  <2> QED BY <2>2, <2>3, <2>4, <2>5
<1>33. TypeOK' BY <1>2, <1>3, <1>5, <1>6 DEF TypeOK
<1>34. Extends(r)
  <2>1. r.key = k /\ Current(r.key) = old /\ call = [req |-> r, onto |-> old, version |-> new.version]
    BY DEF k, old, call
  <2>2. new.version = IF old = None THEN 1 ELSE old.version + 1 BY <1>15
  <2> QED BY <1>5, <1>6, <1>20, <1>23, <1>35, <2>1, <2>2 DEF Extends
<1> QED BY <1>5, <1>24, <1>25, <1>27, <1>28, <1>29, <1>30, <1>31, <1>32, <1>33, <1>34 DEF Sound

(***************************************************************************)
(* The invariant holds.                                                    *)
(***************************************************************************)

LEMMA InitMemory == ASSUME Init PROVE MemoryInv
<1> USE DEF Init, Empty
<1>1. db \in Database BY DEF Database
<1>2. \A k \in Keys : Row(db, k) = None BY DEF Row
<1>3. TypeOK BY <1>1 DEF TypeOK
<1>4. Sound(db, applied)
  BY <1>2 DEF Sound, OneRowIn, NothingForgottenIn, VectorsIn, LabelledIn, HistoryIn,
              QuarantineIn, AnsweredIn, OnceIn
<1> QED BY <1>3, <1>4 DEF MemoryInv

LEMMA StepMemory == ASSUME MemoryInv, [Next]_vars PROVE MemoryInv'
<1>1. CASE UNCHANGED vars
  <2>1. TypeOK' BY <1>1 DEF MemoryInv, TypeOK, vars
  <2>2. db' = db /\ backup' = backup /\ applied' = applied BY <1>1 DEF vars
  <2>3. (Sound(db, applied))' BY <2>2 DEF MemoryInv, Sound, OneRowIn, NothingForgottenIn, VectorsIn,
          LabelledIn, HistoryIn, QuarantineIn, AnsweredIn, OnceIn
  <2> QED BY <2>1, <2>2, <2>3 DEF MemoryInv
<1>2. SUFFICES ASSUME Next PROVE MemoryInv' BY <1>1
<1>3. TypeOK /\ Sound(db, applied) BY DEF MemoryInv
<1>4. db \in Database /\ applied \in SUBSET Call BY <1>3 DEF TypeOK
<1>5. CASE \E r \in Request : Changes(r)
  <2>1. Sound(db', applied') /\ TypeOK' /\ backup' = backup BY <1>5, WrittenSound
  <2> QED BY <2>1 DEF MemoryInv
<1>6. CASE \E r \in Request : Forget(r)
  <2>1. PICK r \in Request : Forget(r) BY <1>6
  <2>2. {r.key} \in SUBSET Keys BY DEF Request
  <2>3. /\ db' = Erased(db, {r.key})
        /\ backup' = backup /\ past' = past /\ applied' = applied
    BY <2>1, <1>4, <2>2 DEF Forget, Erased
  <2>4. Erased(db, {r.key}) \in Database BY <1>4, <2>2, ErasedType
  <2>5. Sound(db', applied') BY <1>3, <1>4, <2>2, <2>3, ErasedSound
  <2>6. TypeOK' BY <1>3, <2>3, <2>4 DEF TypeOK
  <2> QED BY <2>3, <2>5, <2>6 DEF MemoryInv
<1>7. CASE Backup
  <2>1. /\ backup' = [db |-> db, applied |-> applied]
        /\ db' = db /\ past' = past /\ applied' = applied
    BY <1>7 DEF Backup
  <2>2. TypeOK' BY <1>3, <2>1 DEF TypeOK
  <2>3. backup'.db = db /\ backup'.applied = applied BY <2>1
  <2> QED BY <1>3, <2>1, <2>2, <2>3 DEF MemoryInv
<1>8. CASE Restore
  <2>1. /\ backup # None
        /\ db' = Erased(backup.db, db.tombstones)
        /\ applied' = backup.applied /\ backup' = backup /\ past' = past
    BY <1>8 DEF Restore, Erased
  <2>2. /\ backup.db \in Database /\ backup.applied \in SUBSET Call
        /\ Sound(backup.db, backup.applied)
    BY <1>3, <2>1 DEF TypeOK, MemoryInv
  <2>3. db.tombstones \in SUBSET Keys BY <1>4 DEF Database
  <2>4. Erased(backup.db, db.tombstones) \in Database BY <2>2, <2>3, ErasedType
  <2>5. Sound(db', applied') BY <2>1, <2>2, <2>3, ErasedSound
  <2>6. TypeOK' BY <1>3, <2>1, <2>2, <2>4 DEF TypeOK
  <2> QED BY <2>1, <2>2, <2>5, <2>6 DEF MemoryInv
<1>9. LabelledIn(db) BY <1>3 DEF Sound
<1> QED BY <1>2, <1>3, <1>5, <1>6, <1>7, <1>8, <1>9, Steps DEF Next

\* The invariant holds in every state, before and after any backup and restore.
THEOREM MemoryStaysSound == Spec => []MemoryInv
BY InitMemory, StepMemory, PTL DEF Spec

(***************************************************************************)
(* The theorems.                                                           *)
(***************************************************************************)

\* Every variable keeps its type.
THEOREM MemoryTypeCorrect == Spec => []TypeOK
<1>1. MemoryInv => TypeOK BY DEF MemoryInv
<1> QED BY <1>1, MemoryStaysSound, PTL

\* A row is in one table, the one its quarantine says.
THEOREM RowsAreInOneTable == Spec => []OneRow
<1>1. MemoryInv => OneRow BY DEF MemoryInv, Sound, OneRowIn, OneRow
<1> QED BY <1>1, MemoryStaysSound, PTL

\* A request has one effect, unless its key was forgotten.
THEOREM RequestsTakeEffectOnce == Spec => []AtMostOnce
<1>1. MemoryInv => AtMostOnce BY DEF MemoryInv, Sound, OnceIn, AtMostOnce
<1> QED BY <1>1, MemoryStaysSound, PTL

\* A copy of a request that took effect is answered as the request was.
THEOREM RetriesAreAnswered == Spec => []RetryIsAnswered
<1>1. ASSUME MemoryInv PROVE RetryIsAnswered
  <2> SUFFICES ASSUME NEW x \in applied, x.req.key \notin db.tombstones
               PROVE  \E y \in Replays(x.req), z \in db.revisions :
                        z.key = x.req.key /\ z.entry.version = x.version /\ y.answer = Answer(z.entry)
    BY DEF RetryIsAnswered
  <2>1. PICK y \in db.receipts, z \in db.revisions :
          /\ y.actor = x.req.actor /\ y.id = x.req.id /\ y.fingerprint = Fingerprint(x.req)
          /\ z.key = x.req.key /\ z.entry.version = x.version /\ y.answer = Answer(z.entry)
    BY <1>1 DEF MemoryInv, Sound, AnsweredIn
  <2>2. y \in Replays(x.req) BY <2>1 DEF Replays, Receipts
  <2> QED BY <2>1, <2>2
<1> QED BY <1>1, MemoryStaysSound, PTL

\* Once something from outside is under a key, no later version of it is trusted.
THEOREM QuarantineLasts == Spec => []QuarantineIsFinal
<1>1. MemoryInv => QuarantineIsFinal BY DEF MemoryInv, Sound, QuarantineIn, QuarantineIsFinal
<1> QED BY <1>1, MemoryStaysSound, PTL

\* The vector of an entry is that of its current text.
THEOREM VectorsStayCurrent == Spec => []VectorsAreCurrent
<1>1. MemoryInv => VectorsAreCurrent
  BY DEF MemoryInv, Sound, VectorsIn, VectorsAreCurrent, Current
<1> QED BY <1>1, MemoryStaysSound, PTL

\* Of a forgotten key nothing is left.
THEOREM ForgettingIsComplete == Spec => []ForgottenLeavesNothing
<1>1. MemoryInv => ForgottenLeavesNothing
  BY DEF MemoryInv, Sound, NothingForgottenIn, ForgottenLeavesNothing
<1> QED BY <1>1, MemoryStaysSound, PTL

\* No step, a restore included, takes a key off the ledger of what was forgotten.
THEOREM ForgettingIsForEver == Spec => ForgottenStaysForgotten
<1>1. ASSUME MemoryInv, [Next]_vars PROVE [db.tombstones \subseteq db'.tombstones]_vars
  <2>1. SUFFICES ASSUME Next PROVE db.tombstones \subseteq db'.tombstones BY <1>1
  <2>2. TypeOK /\ LabelledIn(db) BY <1>1 DEF MemoryInv, Sound
  <2>3. db \in Database BY <2>2 DEF TypeOK
  <2>4. CASE \E r \in Request : Changes(r)
    <3>1. PICK r \in Request, e \in Entry : Changes(r) /\ Write(r, e) BY <2>4 DEF Changes
    <3>2. db'.tombstones = db.tombstones BY <2>2, <3>1, Written DEF Changes
    <3> QED BY <3>2
  <2>5. CASE \E r \in Request : Forget(r)
    <3>1. PICK r \in Request : Forget(r) BY <2>5
    <3>2. db' = Erased(db, {r.key}) /\ {r.key} \in SUBSET Keys BY <3>1 DEF Forget, Erased, Request
    <3>3. db'.tombstones = db.tombstones \cup {r.key} BY <2>3, <3>2, ErasedTables
    <3> QED BY <3>3
  <2>6. CASE Backup BY <2>6 DEF Backup
  <2>7. CASE Restore
    <3>1. backup # None /\ db' = Erased(backup.db, db.tombstones) BY <2>7 DEF Restore, Erased
    <3>2. backup.db \in Database /\ db.tombstones \in SUBSET Keys BY <2>2, <2>3, <3>1 DEF TypeOK, Database
    <3>3. db'.tombstones = backup.db.tombstones \cup db.tombstones BY <3>1, <3>2, ErasedTables
    <3> QED BY <3>3
  <2> QED BY <2>1, <2>2, <2>4, <2>5, <2>6, <2>7, Steps DEF Next
<1> QED BY <1>1, MemoryStaysSound, PTL DEF Spec, ForgottenStaysForgotten

\* The history of an entry has each of its versions once, and ends with it.
THEOREM HistoriesAreComplete == Spec => []HistoryIsComplete
<1>1. ASSUME MemoryInv PROVE HistoryIsComplete
  <2> SUFFICES ASSUME NEW k \in Keys
               PROVE  LET versions == {x \in db.revisions : x.key = k}
                      IN  IF Current(k) = None THEN versions = {}
                          ELSE /\ [key |-> k, entry |-> Current(k)] \in versions
                               /\ {x.entry.version : x \in versions} = 1..Current(k).version
                               /\ Cardinality(versions) = Current(k).version
    BY DEF HistoryIsComplete
  <2> DEFINE versions == {x \in db.revisions : x.key = k}
             v == Current(k).version
  <2>1. db \in Database /\ HistoryIn(db) BY <1>1 DEF MemoryInv, Sound, TypeOK
  <2>2. CASE Current(k) = None BY <2>1, <2>2 DEF HistoryIn, Current
  <2>3. CASE Current(k) # None
    <3>1. /\ [key |-> k, entry |-> Current(k)] \in db.revisions
          /\ \A n \in 1..v : \E x \in db.revisions : x.key = k /\ x.entry.version = n
          /\ \A x \in db.revisions : x.key = k => x.entry.version <= v
          /\ \A x, y \in db.revisions :
               (x.key = k /\ y.key = k /\ x.entry.version = y.entry.version) => x = y
      BY <2>1, <2>3 DEF HistoryIn, Current
    <3>2. v \in Nat
      <4>1. Current(k) \in Entry BY <2>1, <2>3, RowType DEF Current
      <4> QED BY <4>1, MemoryAssumption DEF Entry
    <3>3. \A x \in versions : x.entry.version \in 1..v
      <4>1. \A x \in db.revisions : x.entry.version \in Nat /\ x.entry.version >= 1
        BY <2>1, MemoryAssumption DEF Database, Revision, Entry
      <4> QED BY <3>1, <3>2, <4>1
    <3>4. {x.entry.version : x \in versions} = 1..v BY <3>1, <3>3
    <3> DEFINE f == [n \in 1..v |-> CHOOSE x \in versions : x.entry.version = n]
    <3>5. \A n \in 1..v : f[n] \in versions /\ f[n].entry.version = n BY <3>1
    <3>6. \A x \in versions : x.entry.version \in 1..v /\ f[x.entry.version] = x BY <3>1, <3>3, <3>5
    <3>7. f \in [1..v -> versions] BY <3>5
    <3> HIDE DEF f, versions
    <3>8. \A n, m \in 1..v : f[n] = f[m] => n = m BY <3>5
    <3>9. ExistsBijection(1..v, versions)
      <4>1. DOMAIN f = 1..v BY <3>7
      <4>2. IsInjective(f) BY <3>8, <4>1 DEF IsInjective
      <4>3. \A x \in versions : \E n \in 1..v : f[n] = x BY <3>6
      <4> QED BY <3>7, <4>2, <4>3 DEF ExistsBijection, Bijection, Injection, Surjection
    <3>10. IsFiniteSet(1..v) /\ Cardinality(1..v) = v
      <4>1. IsFiniteSet(1..v) /\ Cardinality(1..v) = IF 1 > v THEN 0 ELSE v - 1 + 1
        BY <3>2, FS_Interval, SMTT(60)
      <4> QED BY <3>2, <4>1
    <3>11. Cardinality(versions) = v BY <3>9, <3>10, FS_Bijection
    <3>12. [key |-> k, entry |-> Current(k)] \in versions BY <3>1 DEF versions
    <3> QED BY <2>3, <3>4, <3>11, <3>12 DEF versions
  <2> QED BY <2>2, <2>3
<1> QED BY <1>1, MemoryStaysSound, PTL

\* The tables of the database never contradict one another, restores included.
THEOREM TablesAlwaysAgree == Spec => []TablesAgree
<1>1. OneRow /\ HistoryIsComplete /\ VectorsAreCurrent /\ ForgottenLeavesNothing => TablesAgree
  BY DEF TablesAgree
<1> QED
  BY <1>1, RowsAreInOneTable, HistoriesAreComplete, VectorsStayCurrent, ForgettingIsComplete, PTL

(***************************************************************************)
(* Without restores: what an author read under a version is what the key   *)
(* still holds under it, for every entry there ever was is in the history  *)
(* of its key.  A restore breaks this: it hands out versions anew.         *)
(***************************************************************************)

LineInv ==
  /\ MemoryInv
  /\ backup = None
  /\ \A x \in past : x[1] \in db.tombstones \/ [key |-> x[1], entry |-> x[2]] \in db.revisions
  /\ NoLostUpdate

LEMMA StepLine == ASSUME LineInv, [Serves]_vars PROVE LineInv'
<1>1. MemoryInv' BY StepMemory DEF LineInv, Next
<1>2. CASE UNCHANGED vars BY <1>1, <1>2 DEF vars, LineInv, NoLostUpdate
<1>3. CASE Serves
  <2>1. TypeOK /\ LabelledIn(db) /\ MemoryInv BY DEF LineInv, MemoryInv, Sound
  <2>2. db \in Database BY <2>1 DEF TypeOK
  <2>4. CASE \E r \in Request : Changes(r)
    <3>1. PICK r \in Request : Changes(r) BY <2>4
    <3>2. backup' = backup /\ Extends(r) BY <2>1, <3>1, WrittenSound
    <3> DEFINE k == r.key
               old == Current(k)
    <3>3. PICK n \in Entry :
            /\ n.version = IF old = None THEN 1 ELSE old.version + 1
            /\ db'.revisions = db.revisions \cup {[key |-> k, entry |-> n]}
            /\ db'.tombstones = db.tombstones
            /\ past' = past \cup {<<k, n>>}
            /\ applied' = applied \cup {[req |-> r, onto |-> old, version |-> n.version]}
      BY <3>2 DEF Extends
    <3>4. k \in Keys BY DEF Request
    <3>5. old \in Entry \cup {None} /\ old = Row(db, k) BY <2>2, <3>4, RowType DEF Current
    <3>6. k \notin db.tombstones BY <3>1 DEF Changes, IsNew
    <3>7. HistoryIn(db) BY <2>1 DEF MemoryInv, Sound
    <3> DEFINE call == [req |-> r, onto |-> old, version |-> n.version]
    <3> HIDE DEF k, old, call
    <3>8. \A x \in past' : x[1] \in db'.tombstones \/ [key |-> x[1], entry |-> x[2]] \in db'.revisions
      <4>1. \A x \in past : x[1] \in db.tombstones \/ [key |-> x[1], entry |-> x[2]] \in db.revisions
        BY DEF LineInv
      <4>2. \A x \in past : x[1] \in db'.tombstones \/ [key |-> x[1], entry |-> x[2]] \in db'.revisions
        BY <3>3, <4>1
      <4>3. [key |-> k, entry |-> n] \in db'.revisions BY <3>3
      <4>4. \A x \in past' : x \in past \/ x = <<k, n>> BY <3>3
      <4>5. \A x : x = <<k, n>> => x[1] = k /\ x[2] = n OBVIOUS
      <4> SUFFICES ASSUME NEW x \in past'
                   PROVE  x[1] \in db'.tombstones \/ [key |-> x[1], entry |-> x[2]] \in db'.revisions
        OBVIOUS
      <4>6. CASE x \in past BY <4>2, <4>6
      <4>7. CASE x = <<k, n>>
        <5>1. x[1] = k /\ x[2] = n BY <4>5, <4>7
        <5> QED BY <4>3, <5>1
      <4> QED BY <4>4, <4>6, <4>7
    <3>9. old = r.saw
      <4>1. Informed(r) BY <3>1 DEF Changes
      <4>2. CASE old = None BY <4>1, <4>2 DEF Informed, old, k
      <4>3. CASE old # None
        <5>1. <<k, r.saw>> \in past /\ old.version = r.saw.version
          BY <4>1, <4>3, <2>1 DEF Informed, Seen, old, k, TypeOK
        <5>2. [key |-> k, entry |-> r.saw] \in db.revisions BY <3>6, <5>1 DEF LineInv
        <5>3. [key |-> k, entry |-> old] \in db.revisions BY <3>4, <3>5, <3>7, <4>3 DEF HistoryIn
        <5>4. \A x, y \in db.revisions :
                (x.key = k /\ y.key = k /\ x.entry.version = y.entry.version) => x = y
          BY <3>4, <3>5, <3>7, <4>3 DEF HistoryIn
        <5>5. [key |-> k, entry |-> r.saw] = [key |-> k, entry |-> old] BY <5>1, <5>2, <5>3, <5>4
        <5> QED BY <5>5
      <4> QED BY <4>2, <4>3
    <3>10. \A x \in applied : x.req.key = k => x.version # n.version
      <4> SUFFICES ASSUME NEW x \in applied, x.req.key = k PROVE x.version # n.version
        OBVIOUS
      <4>1. PICK z \in db.revisions : z.key = k /\ z.entry.version = x.version
        BY <2>1, <3>6 DEF MemoryInv, Sound, AnsweredIn
      <4>2. old # None /\ z.entry.version <= old.version
        BY <3>4, <3>5, <3>7, <4>1 DEF HistoryIn
      <4>3. old.version \in Nat /\ z.entry.version \in Nat
        BY <2>2, <3>5, <4>2, MemoryAssumption DEF Database, Revision, Entry
      <4> QED BY <3>3, <4>1, <4>2, <4>3
    <3>11. NoLostUpdate'
      <4> SUFFICES ASSUME NEW x \in applied'
                   PROVE  /\ x.onto = x.req.saw
                          /\ \A y \in applied' :
                               (x.req.key = y.req.key /\ x.version = y.version) => x = y
        BY DEF NoLostUpdate
      <4>1. call.req = r /\ call.onto = old /\ call.version = n.version /\ r.key = k BY DEF k, call
      <4>2. applied' = applied \cup {call} BY <3>3 DEF call
      <4>3. /\ \A y \in applied : y.onto = y.req.saw
            /\ \A y, z \in applied : (y.req.key = z.req.key /\ y.version = z.version) => y = z
        BY DEF LineInv, NoLostUpdate
      <4>4. CASE x \in applied
        <5>1. \A y \in applied' : y \in applied \/ y = call BY <4>2
        <5> QED BY <3>10, <4>1, <4>3, <4>4, <5>1
      <4>5. CASE x = call
        <5>1. \A y \in applied' : y \in applied \/ y = call BY <4>2
        <5> QED BY <3>9, <3>10, <4>1, <4>5, <5>1
      <4> QED BY <4>2, <4>4, <4>5
    <3> QED BY <1>1, <3>2, <3>8, <3>11 DEF LineInv
  <2>5. CASE \E r \in Request : Forget(r)
    <3>1. PICK r \in Request : Forget(r) BY <2>5
    <3>2. /\ db' = Erased(db, {r.key}) /\ {r.key} \in SUBSET Keys
          /\ backup' = backup /\ past' = past /\ applied' = applied
      BY <3>1 DEF Forget, Erased, Request
    <3>3. /\ db'.tombstones = db.tombstones \cup {r.key}
          /\ db'.revisions = {x \in db.revisions : x.key \notin {r.key}}
      BY <2>2, <3>2, ErasedTables
    <3>4. \A x \in past' : x[1] \in db'.tombstones \/ [key |-> x[1], entry |-> x[2]] \in db'.revisions
      BY <3>2, <3>3 DEF LineInv
    <3> QED BY <1>1, <3>2, <3>4 DEF LineInv, NoLostUpdate
  <2> QED BY <1>3, <2>1, <2>4, <2>5, Steps
<1> QED BY <1>2, <1>3

\* Where no backup is restored, two changes are never made to one version, and every
\* change was made to the entry its author had read.
THEOREM UpdatesAreNotLost == ServiceSpec => []NoLostUpdate
<1>1. Init => LineInv
  <2>1. ASSUME Init PROVE past = {} /\ applied = {} /\ backup = None BY <2>1 DEF Init
  <2> QED BY <2>1, InitMemory DEF LineInv, NoLostUpdate
<1>2. LineInv /\ [Serves]_vars => LineInv' BY StepLine
<1>3. LineInv => NoLostUpdate BY DEF LineInv
<1> QED BY <1>1, <1>2, <1>3, PTL DEF ServiceSpec

(***************************************************************************)
(* Without restores: whose word a row rests on.                            *)
(***************************************************************************)

\* The text of version v of key k was said by an actor that speaks for the user.
SaidAt(calls, k, text, v) ==
  \E x \in calls :
    x.req.key = k /\ x.version = v /\ x.req.text = text /\ "user_ingress" \in Rights[x.req.actor]

\* Version v of key k is a review that gave it the status, by a reviewer that had read the text.
ReviewedAt(calls, k, text, status, v) ==
  \E x \in calls :
    /\ x.req.key = k /\ x.version = v
    /\ x.req.op = "review" /\ x.req.status = status
    /\ x.req.saw.text = text /\ "review" \in Rights[x.req.actor]

\* A row that is not quarantined has what its status asks for.
Vouched(calls, k, e) ==
  /\ e.status = "proposal" => SaidAt(calls, k, e.text, e.version)
  /\ e.status = "review_active" =>
       SaidAt(calls, k, e.text, e.version - 1) /\ ReviewedAt(calls, k, e.text, "review_active", e.version)
  /\ e.status = "promoted" =>
       /\ SaidAt(calls, k, e.text, e.version - 2)
       /\ ReviewedAt(calls, k, e.text, "review_active", e.version - 1)
       /\ ReviewedAt(calls, k, e.text, "promoted", e.version)

VouchedInv ==
  /\ LineInv
  /\ \A k \in Keys : Row(db, k) # None /\ ~Row(db, k).quarantined => Vouched(applied, k, Row(db, k))

\* Calls are only added.
LEMMA VouchedStays ==
  ASSUME NEW calls, NEW more, calls \subseteq more, NEW k
  PROVE  /\ \A text, v : SaidAt(calls, k, text, v) => SaidAt(more, k, text, v)
         /\ \A text, status, v : ReviewedAt(calls, k, text, status, v) => ReviewedAt(more, k, text, status, v)
         /\ \A e : Vouched(calls, k, e) => Vouched(more, k, e)
<1>1. \A text, v : SaidAt(calls, k, text, v) => SaidAt(more, k, text, v) BY DEF SaidAt
<1>2. \A text, status, v : ReviewedAt(calls, k, text, status, v) => ReviewedAt(more, k, text, status, v)
  BY DEF ReviewedAt
<1> QED BY <1>1, <1>2 DEF Vouched

LEMMA StepVouched == ASSUME VouchedInv, [Serves]_vars PROVE VouchedInv'
<1>1. LineInv' BY StepLine DEF VouchedInv
<1>2. CASE UNCHANGED vars
  BY <1>1, <1>2 DEF vars, VouchedInv
<1>3. CASE Serves
  <2>1. TypeOK /\ LabelledIn(db) /\ MemoryInv /\ db \in Database
    BY DEF VouchedInv, LineInv, MemoryInv, Sound, TypeOK
  <2>2. CASE \E r \in Request : Changes(r)
    <3>1. PICK r \in Request : Changes(r) BY <2>2
    <3>2. Extends(r) BY <2>1, <3>1, WrittenSound
    <3> DEFINE k == r.key
               old == Current(k)
    <3>3. PICK n \in Entry :
            /\ n.version = IF old = None THEN 1 ELSE old.version + 1
            /\ Earns(r, n)
            /\ Row(db', k) = n /\ \A j \in Keys \ {k} : Row(db', j) = Row(db, j)
            /\ applied' = applied \cup {[req |-> r, onto |-> old, version |-> n.version]}
      BY <3>2 DEF Extends
    <3>4. k \in Keys BY DEF Request
    <3>5. old \in Entry \cup {None} /\ old = Row(db, k) BY <2>1, <3>4, RowType DEF Current
    <3> DEFINE call == [req |-> r, onto |-> old, version |-> n.version]
    <3>6. /\ call \in applied' /\ applied \subseteq applied'
          /\ call.req = r /\ call.onto = old /\ call.version = n.version
      BY <3>3
    <3>7. old = r.saw BY <1>1, <3>6 DEF LineInv, NoLostUpdate
    <3>8. LabelledIn(db)' BY <1>1 DEF LineInv, MemoryInv, Sound
    <3>9. ASSUME ~n.quarantined PROVE Vouched(applied', k, n)
      <4>1. n.text \notin External
        BY <3>3, <3>4, <3>8, <3>9, NoneIsNoEntry DEF LabelledIn
      <4>2. CASE r.op # "review"
        <5>1. /\ r.text = n.text /\ n.status = "proposal" /\ "user_ingress" \in Rights[r.actor]
          BY <3>3, <4>1, <4>2 DEF Earns
        <5> HIDE DEF call
        <5>2. SaidAt(applied', k, n.text, n.version) BY <3>6, <5>1 DEF SaidAt
        <5> QED BY <5>1, <5>2 DEF Vouched
      <4>3. CASE r.op = "review"
        <5>1. /\ "review" \in Rights[r.actor] /\ old # None /\ n.text = old.text
              /\ n.status = r.status /\ r.status \in AllowedTransitions[old.status]
              /\ ~old.quarantined
          BY <3>3, <3>9, <4>3 DEF Earns
        <5>2. old \in Entry /\ old.status \in STATUS /\ old.version \in Nat /\ n.version = old.version + 1
          BY <3>3, <3>5, <5>1 DEF Entry
        <5>3. Vouched(applied, k, old) BY <3>4, <3>5, <5>1 DEF VouchedInv
        <5> HIDE DEF call, old
        <5>4. ReviewedAt(applied', k, n.text, r.status, n.version)
          BY <3>6, <3>7, <4>3, <5>1 DEF ReviewedAt
        <5>5. CASE n.status = "review_active"
          <6>1. old.status = "proposal" BY <5>1, <5>2, <5>5 DEF AllowedTransitions, STATUS
          <6>2. SaidAt(applied', k, n.text, old.version) BY <3>6, <5>1, <5>3, <6>1, VouchedStays DEF Vouched
          <6>3. n.version - 1 = old.version BY <5>2
          <6> QED BY <5>1, <5>4, <5>5, <6>2, <6>3 DEF Vouched
        <5>6. CASE n.status = "promoted"
          <6>1. old.status = "review_active" BY <5>1, <5>2, <5>6 DEF AllowedTransitions, STATUS
          <6>2. /\ SaidAt(applied', k, n.text, old.version - 1)
                /\ ReviewedAt(applied', k, n.text, "review_active", old.version)
            BY <3>6, <5>1, <5>3, <6>1, VouchedStays DEF Vouched
          <6>3. n.version - 1 = old.version /\ n.version - 2 = old.version - 1 BY <5>2
          <6> QED BY <5>1, <5>4, <5>6, <6>2, <6>3 DEF Vouched
        <5>7. n.status # "proposal" BY <5>1, <5>2 DEF AllowedTransitions, STATUS
        <5> QED BY <5>5, <5>6, <5>7 DEF Vouched
      <4> QED BY <4>2, <4>3
    <3> HIDE DEF k, old, call
    <3>10. ASSUME NEW j \in Keys, Row(db', j) # None /\ ~Row(db', j).quarantined
           PROVE  Vouched(applied', j, Row(db', j))
      <4>1. CASE j = k
        BY <3>3, <3>9, <3>10, <4>1
      <4>2. CASE j # k
        <5>1. Row(db', j) = Row(db, j) BY <3>3, <4>2
        <5>2. Vouched(applied, j, Row(db, j)) BY <3>10, <5>1 DEF VouchedInv
        <5> QED BY <3>6, <5>1, <5>2, VouchedStays
      <4> QED BY <4>1, <4>2
    <3> QED BY <1>1, <3>10 DEF VouchedInv
  <2>3. CASE \E r \in Request : Forget(r)
    <3>1. PICK r \in Request : Forget(r) BY <2>3
    <3>2. db' = Erased(db, {r.key}) /\ {r.key} \in SUBSET Keys /\ applied' = applied
      BY <3>1 DEF Forget, Erased, Request
    <3> DEFINE d == Erased(db, {r.key})
    <3>3. \A k \in Keys : Row(d, k) = IF k \in {r.key} THEN None ELSE Row(db, k)
      BY <2>1, <3>2, ErasedTables
    <3>4. db' = d BY <3>2
    <3> HIDE DEF d
    <3>5. \A k \in Keys : Row(db', k) # None => Row(db', k) = Row(db, k) BY <3>3, <3>4
    <3> QED BY <1>1, <3>2, <3>5 DEF VouchedInv
  <2> QED BY <1>3, <2>1, <2>2, <2>3, Steps
<1> QED BY <1>2, <1>3

\* Where no backup is restored, what recall, scribe and wiki show as context was said
\* through the user's own entrance and reviewed twice, by readers of this very text.
THEOREM ContextAlwaysReviewed == ServiceSpec => []ContextIsReviewed
<1>1. Init => VouchedInv
  <2>1. ASSUME Init PROVE past = {} /\ applied = {} /\ backup = None /\ \A k \in Keys : Row(db, k) = None
    BY <2>1 DEF Init, Empty, Row
  <2> QED BY <2>1, InitMemory DEF LineInv, NoLostUpdate, VouchedInv
<1>2. VouchedInv /\ [Serves]_vars => VouchedInv' BY StepVouched
<1>3. VouchedInv => ContextIsReviewed
  <2> SUFFICES ASSUME VouchedInv, NEW a \in Actors, NEW k \in Context(a)
               PROVE  LET e == db.trusted[k]
                          Step(x, distance) == x.req.key = k /\ x.version = e.version - distance
                          Reviewed(x, status) ==
                            /\ x.req.op = "review" /\ x.req.status = status
                            /\ x.req.saw.text = e.text /\ "review" \in Rights[x.req.actor]
                      IN  \E x, y, z \in applied :
                            /\ Step(x, 2) /\ x.req.text = e.text /\ "user_ingress" \in Rights[x.req.actor]
                            /\ Step(y, 1) /\ Reviewed(y, "review_active")
                            /\ Step(z, 0) /\ Reviewed(z, "promoted")
    BY DEF ContextIsReviewed
  <2> DEFINE e == db.trusted[k]
  <2>1. k \in Keys /\ e # None /\ e.status = "promoted" /\ ~e.quarantined BY DEF Context
  <2>2. e = Row(db, k) BY <2>1 DEF Row
  <2>3. Vouched(applied, k, e) BY <2>1, <2>2 DEF VouchedInv
  <2>4. e \in Entry /\ e.version \in Int
    BY <2>1 DEF VouchedInv, LineInv, MemoryInv, TypeOK, Database, Entry
  <2> HIDE DEF e
  <2>5. PICK x \in applied : /\ x.req.key = k /\ x.version = e.version - 2 /\ x.req.text = e.text
                             /\ "user_ingress" \in Rights[x.req.actor]
    BY <2>1, <2>3 DEF Vouched, SaidAt
  <2>6. PICK y \in applied : /\ y.req.key = k /\ y.version = e.version - 1
                             /\ y.req.op = "review" /\ y.req.status = "review_active"
                             /\ y.req.saw.text = e.text /\ "review" \in Rights[y.req.actor]
    BY <2>1, <2>3 DEF Vouched, ReviewedAt
  <2>7. PICK z \in applied : /\ z.req.key = k /\ z.version = e.version
                             /\ z.req.op = "review" /\ z.req.status = "promoted"
                             /\ z.req.saw.text = e.text /\ "review" \in Rights[z.req.actor]
    BY <2>1, <2>3 DEF Vouched, ReviewedAt
  <2>8. e.version - 0 = e.version BY <2>4
  <2> QED BY <2>5, <2>6, <2>7, <2>8 DEF e
<1> QED BY <1>1, <1>2, <1>3, PTL DEF ServiceSpec
(***************************************************************************)
(* Restores included: whose every row and every answer is.  The history    *)
(* past is not undone by a restore, and a backup is a copy of what was.    *)
(***************************************************************************)

\* Every row was written by a call, and every receipt tells of what its call wrote.
RemembersIn(d, entries) ==
  /\ \A k \in Keys : Row(d, k) # None => <<k, Row(d, k)>> \in entries
  /\ \A x \in d.receipts :
       /\ x.fingerprint.key = x.key
       /\ \E e \in Entry : <<x.key, e>> \in entries /\ x.answer = Answer(e)

MemoryRemembers ==
  RemembersIn(db, past) /\ (backup # None => RemembersIn(backup.db, past))

LEMMA SeenIs ==
  ASSUME NEW k, NEW e, TypeOK
  PROVE  e \in Seen(k) <=> <<k, e>> \in past
<1>1. ASSUME e \in Seen(k) PROVE <<k, e>> \in past
  <2>1. PICK x \in past : x[1] = k /\ x[2] = e BY <1>1 DEF Seen
  <2>2. x \in Keys \X Entry BY DEF TypeOK
  <2>3. x = <<x[1], x[2]>> BY <2>2
  <2> QED BY <2>1, <2>3
<1>2. ASSUME <<k, e>> \in past PROVE e \in Seen(k)
  BY <1>2 DEF Seen
<1> QED BY <1>1, <1>2

\* store() never changes the owner of a row, nor lets it out of quarantine.
LEMMA WriteKeeps ==
  ASSUME TypeOK, OneRowIn(db), NEW r \in Request, NEW e \in Entry,
         Current(r.key) # None => Current(r.key).version < MaxVersion,
         r.op # "forget", Write(r, e)
  PROVE  LET old == Current(r.key)
             new == StoredEntry(r.key, e)
         IN  /\ new \in Entry /\ new.owner = e.owner
             /\ e.quarantined => new.quarantined
             /\ old = None => new.version = e.version
             /\ old # None => new.owner = old.owner /\ (old.quarantined => new.quarantined)
             /\ Answer(new) = [version |-> new.version, status |-> e.status, quarantined |-> new.quarantined]
<1> DEFINE old == Current(r.key)
           new == StoredEntry(r.key, e)
<1>1. r.key \in Keys BY DEF Request
<1>2. new \in Entry /\ new.quarantined = (e.quarantined \/ e.text \in External)
  BY <1>1, StoredEntryType
<1>3. new.owner = e.owner /\ new.status = e.status /\ (old = None => new.version = e.version)
  BY DEF StoredEntry, Entry
<1>4. old # None => old.owner = e.owner /\ (db.trusted[r.key] = None => e.quarantined)
  BY DEF Write, Storable
<1>5. old # None /\ old.quarantined => db.trusted[r.key] = None
  BY <1>1 DEF OneRowIn, Current, Row
<1> HIDE DEF new, old
<1>6. Answer(new) = [version |-> new.version, status |-> e.status, quarantined |-> new.quarantined]
  BY <1>3 DEF Answer
<1> QED BY <1>2, <1>3, <1>4, <1>5, <1>6 DEF new, old

LEMMA RemembersMore ==
  ASSUME NEW d, NEW few, NEW many, few \subseteq many, RemembersIn(d, few)
  PROVE  RemembersIn(d, many)
BY DEF RemembersIn

LEMMA ErasedRemembers ==
  ASSUME NEW d \in Database, NEW keys \in SUBSET Keys, NEW entries, RemembersIn(d, entries)
  PROVE  RemembersIn(Erased(d, keys), entries)
<1> DEFINE n == Erased(d, keys)
<1>1. /\ n.receipts = {x \in d.receipts : x.key \notin keys}
      /\ \A k \in Keys : Row(n, k) = IF k \in keys THEN None ELSE Row(d, k)
  BY ErasedTables
<1> HIDE DEF n
<1>2. \A k \in Keys : Row(n, k) # None => <<k, Row(n, k)>> \in entries
  BY <1>1 DEF RemembersIn
<1>3. \A x \in n.receipts : x \in d.receipts BY <1>1
<1>4. RemembersIn(n, entries) BY <1>2, <1>3 DEF RemembersIn
<1> QED BY <1>4 DEF n

LEMMA WriteRemembers ==
  ASSUME TypeOK, NEW r \in Request, NEW e \in Entry,
         Current(r.key) # None => Current(r.key).version < MaxVersion,
         r.op # "forget", Write(r, e), RemembersIn(db, past)
  PROVE  RemembersIn(db', past') /\ past \subseteq past' /\ backup' = backup
<1> DEFINE k == r.key
           new == StoredEntry(k, e)
           receipt == Receipt(r, new)
<1>1. k \in Keys BY DEF Request
<1>2. new \in Entry BY <1>1, StoredEntryType
<1>3. /\ db'.trusted = [db.trusted EXCEPT ![k] = IF new.quarantined THEN None ELSE new]
      /\ db'.quarantine = [db.quarantine EXCEPT ![k] = IF new.quarantined THEN new ELSE @]
      /\ db'.receipts = db.receipts \cup {receipt}
      /\ past' = past \cup {<<k, new>>} /\ backup' = backup
  BY Written
<1>4. receipt.fingerprint.key = k /\ receipt.key = k /\ receipt.answer = Answer(new)
  BY DEF Receipt, Fingerprint
<1>5. db.trusted \in [Keys -> Entry \cup {None}] /\ db.quarantine \in [Keys -> Entry \cup {None}]
  BY DEF TypeOK, Database
<1> HIDE DEF k, new, receipt
<1>6. \A j \in Keys : Row(db', j) = IF j = k THEN new ELSE Row(db, j)
  BY <1>1, <1>2, <1>3, <1>5, NoneIsNoEntry DEF Row
<1>7. \A j \in Keys : Row(db', j) # None => <<j, Row(db', j)>> \in past'
  BY <1>3, <1>6 DEF RemembersIn
<1>8. ASSUME NEW x \in db'.receipts
      PROVE  /\ x.fingerprint.key = x.key
             /\ \E a \in Entry : <<x.key, a>> \in past' /\ x.answer = Answer(a)
  <2>1. CASE x \in db.receipts BY <1>3, <2>1 DEF RemembersIn
  <2>2. CASE x = receipt
    <3>1. <<x.key, new>> \in past' BY <1>3, <1>4, <2>2
    <3> QED BY <1>2, <1>4, <2>2, <3>1
  <2> QED BY <1>3, <2>1, <2>2
<1> QED BY <1>3, <1>7, <1>8 DEF RemembersIn

LEMMA StepRemembers ==
  ASSUME MemoryInv, MemoryRemembers, [Next]_vars
  PROVE  MemoryRemembers' /\ past \subseteq past'
<1>1. /\ TypeOK /\ LabelledIn(db) /\ db \in Database
      /\ RemembersIn(db, past) /\ (backup # None => RemembersIn(backup.db, past))
  BY DEF MemoryInv, Sound, TypeOK, MemoryRemembers
<1>2. CASE UNCHANGED vars
  BY <1>1, <1>2 DEF vars, MemoryRemembers
<1>3. ASSUME NEW r \in Request, Changes(r) PROVE MemoryRemembers' /\ past \subseteq past'
  <2>1. PICK e \in Entry : Write(r, e) BY <1>3 DEF Changes
  <2>2. RemembersIn(db', past') /\ past \subseteq past' /\ backup' = backup
    BY <1>1, <1>3, <2>1, WriteRemembers DEF Changes
  <2>3. backup # None => RemembersIn(backup.db, past') BY <1>1, <2>2, RemembersMore
  <2> QED BY <2>2, <2>3 DEF MemoryRemembers
<1>4. ASSUME NEW r \in Request, Forget(r) PROVE MemoryRemembers' /\ past \subseteq past'
  <2>1. {r.key} \in SUBSET Keys BY DEF Request
  <2>2. db' = Erased(db, {r.key}) /\ backup' = backup /\ past' = past
    BY <1>4 DEF Forget, Erased
  <2> QED BY <1>1, <2>1, <2>2, ErasedRemembers DEF MemoryRemembers
<1>5. CASE Backup
  <2>1. backup'.db = db /\ db' = db /\ past' = past BY <1>5 DEF Backup
  <2> QED BY <1>1, <2>1 DEF MemoryRemembers
<1>6. CASE Restore
  <2>1. /\ backup # None /\ db' = Erased(backup.db, db.tombstones)
        /\ backup' = backup /\ past' = past
    BY <1>6 DEF Restore, Erased
  <2>2. backup.db \in Database /\ db.tombstones \in SUBSET Keys
    BY <1>1, <2>1 DEF TypeOK, Database
  <2> QED BY <1>1, <2>1, <2>2, ErasedRemembers DEF MemoryRemembers
<1>7. CASE Serves BY <1>1, <1>3, <1>4, <1>7, Steps
<1> QED BY <1>2, <1>5, <1>6, <1>7 DEF Next

\* Whatever is restored, what the memory holds or answers was written by a call that
\* past remembers: no backup brings an entry that never was.
THEOREM NothingIsInvented == Spec => []MemoryRemembers
<1>1. Init => MemoryRemembers
  <2>1. ASSUME Init PROVE MemoryRemembers
    <3>1. db.receipts = {} /\ backup = None /\ \A k \in Keys : Row(db, k) = None
      BY <2>1 DEF Init, Row, Empty
    <3> QED BY <3>1 DEF MemoryRemembers, RemembersIn
  <2> QED BY <2>1
<1>2. MemoryInv /\ MemoryRemembers /\ [Next]_vars => MemoryRemembers' BY StepRemembers
<1> QED BY <1>1, <1>2, MemoryStaysSound, PTL DEF Spec
=============================================================================
