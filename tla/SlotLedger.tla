----------------------------- MODULE SlotLedger -----------------------------
(***************************************************************************)
(* What the Odin queue promises to whoever submits work: a mission waits,  *)
(* holds one of a fixed number of slots once, and is over.  Nothing is     *)
(* forgotten, nothing waits again, and nothing holds a slot twice,         *)
(* whatever crashes.                                                       *)
(***************************************************************************)
EXTENDS Naturals, FiniteSets

CONSTANT Slots

VARIABLES
  waiting,  \* missions not started
  held,     \* missions that hold a slot
  over      \* missions that ended, were withdrawn or could not start

LedgerInit == waiting = {} /\ held = {} /\ over = {}

(* A mission never seen before joins those that wait.                       *)
Enqueue ==
  /\ \E i \in waiting' \ (waiting \cup held \cup over) : waiting' = waiting \cup {i}
  /\ UNCHANGED <<held, over>>

Drop(lost) ==
  /\ lost # {} /\ lost \subseteq waiting
  /\ waiting' = waiting \ lost
  /\ over' = over \cup lost
  /\ UNCHANGED held

(* Missions found impossible on the way are dropped in the same step.       *)
Grant(i, lost) ==
  /\ lost \subseteq waiting /\ i \in waiting \ lost
  /\ Cardinality(held) < Slots
  /\ waiting' = waiting \ (lost \cup {i})
  /\ held' = held \cup {i}
  /\ over' = over \cup lost

Release(i) ==
  /\ i \in held
  /\ held' = held \ {i}
  /\ over' = over \cup {i}
  /\ UNCHANGED waiting

LedgerNext ==
  \/ Enqueue
  \/ \E lost \in SUBSET waiting : Drop(lost) \/ \E i \in waiting : Grant(i, lost)
  \/ \E i \in held : Release(i)

LedgerSpec == LedgerInit /\ [][LedgerNext]_<<waiting, held, over>>
=============================================================================
