---------------------------- MODULE SharedMemory ----------------------------
(***************************************************************************)
(* The shared memory of several agents (skills/memory_hub:                 *)
(* shared_service.py over store.py, and the operator's recovery.py).       *)
(*                                                                         *)
(* A call that writes is one BEGIN IMMEDIATE transaction of one project's  *)
(* database, so it is one action; a refused call, a busy database, a crash *)
(* before the commit and a replayed receipt change nothing.  Between an    *)
(* agent's reading and its call anything may happen: a request may rest on *)
(* any entry there ever was, arrive late, arrive twice, or be sent again   *)
(* because its answer was lost.                                            *)
(*                                                                         *)
(* A text stands for a whole record: its source, its vector and the        *)
(* visibility it asks for are constants.  Capture stands for checkpoint    *)
(* too.  Sizes, times (and with them expiry), tags and ranking are left    *)
(* out, and so are the older local calls of store.py, which the document   *)
(* forbids on a shared directory.                                          *)
(*                                                                         *)
(* A definition named after another one with a suffix (StoredOver) is a    *)
(* wrong version of it, used only to see that the properties notice.       *)
(***************************************************************************)
EXTENDS Integers, FiniteSets

CONSTANTS
  Actors,      \* identities with a token
  Rights,      \* actor -> its rights
  Ids,         \* request identifiers an actor may use
  Keys,        \* keys of the project
  Texts,       \* records an agent may send
  External,    \* the texts whose source is not the user
  Embedded,    \* the texts that come with a vector
  Asks,        \* text -> the visibility its record asks for, or None
  MaxVersion,  \* bound: entries are changed up to this version
  None

RIGHTS == {"read", "write", "review", "forget", "curate", "user_ingress"}
STATUS == {"proposal", "review_active", "promoted", "expired", "obsoleted"}
VISIBILITY == {"private", "project"}

ASSUME MemoryAssumption ==
  /\ Rights \in [Actors -> SUBSET RIGHTS]
  /\ External \subseteq Texts /\ Embedded \subseteq Texts
  /\ Asks \in [Texts -> VISIBILITY \cup {None}]
  /\ MaxVersion \in Nat \ {0}
  /\ None \notin VISIBILITY /\ None \notin Texts /\ None \notin STATUS

Entry == [version: 1..MaxVersion, text: Texts, owner: Actors, status: STATUS,
          quarantined: BOOLEAN, visibility: VISIBILITY]

ASSUME NoneIsNoEntry == None \notin Entry

VARIABLES
  db,       \* the project's database: its six tables
  backup,   \* the operator's last backup, or None
  past,     \* history: every entry there ever was, with its key
  applied   \* history: the calls whose effect the database carries

vars == <<db, backup, past, applied>>

\* What a call says and, in saw, the entry its author had read: expected_version
\* is the version of that entry.
Request == [actor: Actors, id: Ids, key: Keys, saw: Entry \cup {None},
            op: {"capture", "correct", "review", "forget"},
            text: Texts \cup {None}, status: STATUS \cup {None}]

Expected(r) == IF r.saw = None THEN 0 ELSE r.saw.version

\* The digest of the operation and its arguments: saw is not among them.
Fingerprint(r) ==
  [op |-> r.op, key |-> r.key, text |-> r.text, status |-> r.status, expects |-> Expected(r)]

Answer(e) == [version |-> e.version, status |-> e.status, quarantined |-> e.quarantined]

Empty == [k \in Keys |-> None]

Init ==
  /\ db = [trusted |-> Empty, quarantine |-> Empty, vectors |-> Empty,
           revisions |-> {}, receipts |-> {}, tombstones |-> {}]
  /\ backup = None
  /\ past = {} /\ applied = {}

-----------------------------------------------------------------------------
(* Reading. *)

\* _get_raw looks for a row in memory_entries, then in memory_quarantine.
Row(d, k) == IF d.trusted[k] # None THEN d.trusted[k] ELSE d.quarantine[k]
Current(k) == Row(db, k)

CanRead(e, a) == e.owner = a \/ e.visibility = "project"
CanWrite(e, a) == e.owner = a \/ "curate" \in Rights[a]

\* What recall, scribe and wiki may show an actor as context.
Context(a) ==
  {k \in Keys : /\ db.trusted[k] # None
                /\ db.trusted[k].status = "promoted" /\ ~db.trusted[k].quarantined
                /\ CanRead(db.trusted[k], a)}

ReceiptsOfKey(r) == {x \in db.receipts : x.actor = r.actor /\ x.id = r.id /\ x.key = r.key}
Receipts(r) == {x \in db.receipts : x.actor = r.actor /\ x.id = r.id}

\* The receipt a copy of a request is answered with.
ReplaysIfCurrent(r) ==
  IF r.key \in db.tombstones \/ (r.op # "capture" /\ Current(r.key).version # Expected(r)) THEN {}
  ELSE {x \in Receipts(r) : x.fingerprint = Fingerprint(r)}
Replays(r) ==
  IF r.key \in db.tombstones THEN {}
  ELSE {x \in Receipts(r) : x.fingerprint = Fingerprint(r)}

-----------------------------------------------------------------------------
(* Writing. *)

Right(op) == CASE op = "review" -> "review" [] op = "forget" -> "forget" [] OTHER -> "write"

\* The request is not a copy, and its key was not forgotten.
IsNew(r) ==
  /\ Right(r.op) \in Rights[r.actor]
  /\ r.key \notin db.tombstones
  /\ Receipts(r) = {}

\* The request is about the entry as it is now, and its author may touch it.
MayChangeAnyVersion(r) ==
  /\ IsNew(r)
  /\ Current(r.key) # None
  /\ CanRead(Current(r.key), r.actor)
  /\ r.op # "review" => CanWrite(Current(r.key), r.actor)
MayChange(r) ==
  /\ IsNew(r)
  /\ Current(r.key) # None
  /\ CanRead(Current(r.key), r.actor)
  /\ r.op # "review" => CanWrite(Current(r.key), r.actor)
  /\ Current(r.key).version = Expected(r)

\* INSERT OR IGNORE: the first snapshot of a version stays.
Snapped(revisions, k, e) ==
  IF \E x \in revisions : x.key = k /\ x.entry.version = e.version
    THEN revisions ELSE revisions \cup {[key |-> k, entry |-> e]}

\* _build_entry: what a capture or a correction makes of its record.
BuiltAsReviewed(r, previous) ==
  [version |-> 1, text |-> r.text, owner |-> IF previous = None THEN r.actor ELSE previous.owner,
   status |-> IF previous = None THEN "proposal" ELSE previous.status,
   quarantined |-> r.text \in External, visibility |-> "project"]
Built(r, previous) ==
  [version |-> 1, text |-> r.text,
   owner |-> IF previous = None THEN r.actor ELSE previous.owner,
   status |-> "proposal",
   quarantined |-> r.text \in External,
   visibility |-> IF Asks[r.text] # None THEN Asks[r.text]
                  ELSE IF previous = None THEN "private" ELSE previous.visibility]

\* A user's words need an actor that may speak for the user, and never replace
\* what came from outside.
Sourced(r, previous) ==
  r.text \notin External =>
    "user_ingress" \in Rights[r.actor] /\ ~(previous # None /\ previous.quarantined)

\* store() refuses another owner and the way out of quarantine.
Storable(k, e) ==
  Current(k) # None =>
    /\ Current(k).owner = e.owner
    /\ db.trusted[k] = None => e.quarantined

\* store(): one version more, in the table its quarantine says.
StoredOver(k, e) ==
  LET new == [e EXCEPT !.version = IF Current(k) = None THEN e.version ELSE Current(k).version + 1]
  IN  IF new.quarantined THEN [db EXCEPT !.quarantine[k] = new] ELSE [db EXCEPT !.trusted[k] = new]
Stored(k, e) ==
  LET new == [e EXCEPT !.version = IF Current(k) = None THEN e.version ELSE Current(k).version + 1,
                       !.quarantined = e.quarantined \/ e.text \in External]
  IN  [db EXCEPT !.trusted[k] = IF new.quarantined THEN None ELSE new,
                 !.quarantine[k] = IF new.quarantined THEN new ELSE @]

\* The vector of the new content, or none; a review leaves it alone.
Vectors(r) ==
  IF r.op = "review" THEN db.vectors
  ELSE [db.vectors EXCEPT ![r.key] = IF r.text \in Embedded THEN r.text ELSE None]

Receipt(r, e) ==
  [actor |-> r.actor, id |-> r.id, fingerprint |-> Fingerprint(r), key |-> r.key, answer |-> Answer(e)]

\* The rest of the transaction, once e is known to be what the call leaves.
Write(r, e) ==
  LET old == Current(r.key)
      before == IF old = None THEN db.revisions ELSE Snapped(db.revisions, r.key, old)
      stored == Stored(r.key, e)
      new == Row(stored, r.key)
  IN  /\ Storable(r.key, e)
      /\ db' = [stored EXCEPT !.vectors = Vectors(r),
                              !.revisions = Snapped(before, r.key, new),
                              !.receipts = @ \cup {Receipt(r, new)}]
      /\ past' = past \cup {<<r.key, new>>}
      /\ applied' = applied \cup {[req |-> r, onto |-> old, version |-> new.version]}
      /\ UNCHANGED backup

Capture(r) ==
  /\ IsNew(r)
  /\ Current(r.key) = None
  /\ Sourced(r, None)
  /\ Write(r, Built(r, None))

Correct(r) ==
  /\ MayChange(r)
  /\ Current(r.key).version < MaxVersion
  /\ Sourced(r, Current(r.key))
  /\ Write(r, Built(r, Current(r.key)))

AllowedTransitions ==
  [proposal |-> {"review_active", "expired"}, review_active |-> {"promoted", "obsoleted"},
   promoted |-> {"obsoleted", "expired"}, expired |-> {}, obsoleted |-> {}]

MayBecomeAnywhere(e, status) == status \in AllowedTransitions[e.status]
MayBecome(e, status) ==
  /\ status \in AllowedTransitions[e.status]
  /\ ~(e.quarantined /\ status = "promoted")

Review(r) ==
  /\ MayChange(r)
  /\ Current(r.key).version < MaxVersion
  /\ MayBecome(Current(r.key), r.status)
  /\ Write(r, [Current(r.key) EXCEPT !.status = r.status])

\* Every row of the key, in the five tables that have one.
Without(d, keys) ==
  [d EXCEPT !.trusted = [k \in Keys |-> IF k \in keys THEN None ELSE @[k]],
            !.quarantine = [k \in Keys |-> IF k \in keys THEN None ELSE @[k]],
            !.vectors = [k \in Keys |-> IF k \in keys THEN None ELSE @[k]],
            !.revisions = {x \in @ : x.key \notin keys},
            !.receipts = {x \in @ : x.key \notin keys}]

Forget(r) ==
  /\ MayChange(r)
  /\ db' = [Without(db, {r.key}) EXCEPT !.tombstones = @ \cup {r.key}]
  /\ UNCHANGED <<backup, past, applied>>

-----------------------------------------------------------------------------
(* The operator. *)

\* A consistent copy, made while the service runs.
Backup ==
  /\ backup' = [db |-> db, applied |-> applied]
  /\ UNCHANGED <<db, past, applied>>

\* With the writers stopped, as the document requires: the copy without what the
\* current ledger says was forgotten.  Refused when the ledger has lost a key.
RestoreAsItWas ==
  /\ backup # None
  /\ db' = backup.db /\ applied' = backup.applied
  /\ UNCHANGED <<backup, past>>
Restore ==
  /\ backup # None
  /\ backup.db.tombstones \subseteq db.tombstones
  /\ db' = [Without(backup.db, db.tombstones) EXCEPT !.tombstones = @ \cup db.tombstones]
  /\ applied' = backup.applied
  /\ UNCHANGED <<backup, past>>

Seen(k) == {x[2] : x \in {y \in past : y[1] = k}}

\* The calls of some actors, who capture under some of the keys.
Calls(actors, ids, keys) ==
  \E a \in actors, i \in ids, k \in Keys :
    LET From(op, saw, text, status) ==
          [actor |-> a, id |-> i, op |-> op, key |-> k, saw |-> saw, text |-> text, status |-> status]
    IN  \/ k \in keys /\ \E t \in Texts : Capture(From("capture", None, t, None))
        \/ \E e \in Seen(k), t \in Texts : Correct(From("correct", e, t, None))
        \/ \E e \in Seen(k), s \in STATUS \ {"proposal"} : Review(From("review", e, None, s))
        \/ \E e \in Seen(k) : Forget(From("forget", e, None, None))

Serves == Calls(Actors, Ids, Keys)

Next == Serves \/ Backup \/ Restore

Spec == Init /\ [][Next]_vars

\* The service as long as nothing is restored.
ServiceSpec == Init /\ [][Serves]_vars

-----------------------------------------------------------------------------
(* Properties. *)

Revision == [key: Keys, entry: Entry]
ReceiptRow ==
  [actor: Actors, id: Ids, key: Keys,
   answer: [version: 1..MaxVersion, status: STATUS, quarantined: BOOLEAN],
   fingerprint: [op: {"capture", "correct", "review"}, key: Keys, text: Texts \cup {None},
                 status: STATUS \cup {None}, expects: 0..MaxVersion]]
Database ==
  [trusted: [Keys -> Entry \cup {None}], quarantine: [Keys -> Entry \cup {None}],
   vectors: [Keys -> Texts \cup {None}], revisions: SUBSET Revision,
   receipts: SUBSET ReceiptRow, tombstones: SUBSET Keys]
Call == [req: Request, onto: Entry \cup {None}, version: 1..MaxVersion]

\* Every variable has its type.
TypeOK ==
  /\ db \in Database
  /\ backup \in [db: Database, applied: SUBSET Call] \cup {None}
  /\ past \subseteq Keys \X Entry
  /\ applied \subseteq Call

\* A row is in the table its quarantine says and in no other: a correction or a
\* review never leaves the old one behind.
OneRow ==
  \A k \in Keys :
    /\ db.trusted[k] = None \/ db.quarantine[k] = None
    /\ db.trusted[k] # None => ~db.trusted[k].quarantined
    /\ db.quarantine[k] # None => db.quarantine[k].quarantined

\* A request has one effect, however often it arrives, unless its key was
\* forgotten, and with it the receipt.
AtMostOnce ==
  \A x, y \in applied :
    (x.req.actor = y.req.actor /\ x.req.id = y.req.id /\ x # y) =>
      x.req.key \in db.tombstones \/ y.req.key \in db.tombstones

\* Whoever changes an entry had read what was there: of two changes made to one
\* version only one is accepted.
NoLostUpdate ==
  \A x \in applied :
    /\ x.onto = x.req.saw
    /\ \A y \in applied : (x.req.key = y.req.key /\ x.version = y.version) => x = y

\* An agent that lost the answer to a call that took effect, and sends it again,
\* is told that it took effect, and as what, whatever happened since: never a
\* conflict that would make it try something else.
RetryIsAnswered ==
  \A x \in applied :
    \/ x.req.key \in db.tombstones
    \/ \E y \in Replays(x.req), z \in db.revisions :
         z.key = x.req.key /\ z.entry.version = x.version /\ y.answer = Answer(z.entry)

\* What is given as context was said through the user's own entrance, and looked at
\* twice by reviewers who had read this text, and nothing happened to it between.
ContextIsReviewed ==
  \A a \in Actors : \A k \in Context(a) :
    LET e == db.trusted[k]
        Step(x, distance) == x.req.key = k /\ x.version = e.version - distance
        Reviewed(x, status) ==
          /\ x.req.op = "review" /\ x.req.status = status
          /\ x.req.saw.text = e.text /\ "review" \in Rights[x.req.actor]
    IN  \E x, y, z \in applied :
          /\ Step(x, 2) /\ x.req.text = e.text /\ "user_ingress" \in Rights[x.req.actor]
          /\ Step(y, 1) /\ Reviewed(y, "review_active")
          /\ Step(z, 0) /\ Reviewed(z, "promoted")

\* Once something from outside is under a key, no later version of it is trusted
\* or promoted, whoever corrects or reviews it.
QuarantineIsFinal ==
  \A x, y \in db.revisions :
    (x.key = y.key /\ x.entry.quarantined /\ x.entry.version <= y.entry.version) =>
      y.entry.quarantined /\ y.entry.status # "promoted"

\* The history of an entry has each of its versions once, and ends with it.
HistoryIsComplete ==
  \A k \in Keys :
    LET versions == {x \in db.revisions : x.key = k}
    IN  IF Current(k) = None THEN versions = {}
        ELSE /\ [key |-> k, entry |-> Current(k)] \in versions
             /\ {x.entry.version : x \in versions} = 1..Current(k).version
             /\ Cardinality(versions) = Current(k).version

\* The vector recall compares is that of the current text, or there is none.
VectorsAreCurrent ==
  \A k \in Keys :
    db.vectors[k] = IF Current(k) # None /\ Current(k).text \in Embedded
                      THEN Current(k).text ELSE None

\* Of a forgotten key nothing is left, in any table.
ForgottenLeavesNothing ==
  \A k \in db.tombstones :
    /\ db.trusted[k] = None /\ db.quarantine[k] = None /\ db.vectors[k] = None
    /\ \A x \in db.revisions \cup db.receipts : x.key # k

\* The six tables tell one story, after any crash between two calls: each key has one
\* row, the history that led to it and the vector of its text, or was forgotten in all.
TablesAgree == OneRow /\ HistoryIsComplete /\ VectorsAreCurrent /\ ForgottenLeavesNothing

\* What was forgotten stays forgotten: late captures, retries and the restoring of
\* an older backup do not bring it back.
ForgottenStaysForgotten == [][db.tombstones \subseteq db'.tombstones]_vars
=============================================================================
