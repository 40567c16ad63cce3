------------------------------ MODULE AppServer ------------------------------
(***************************************************************************)
(* The Codex app-server, as the supervisor of the Odin queue uses it       *)
(* (external: codex.py talks to it over its standard input and output).    *)
(* It may answer late or never, refuse a request, end a turn before it     *)
(* answers turn/start, ask for an approval, or die.                        *)
(*                                                                         *)
(* The turn that serves call i is turn i, and the request it may make is   *)
(* request i.                                                              *)
(***************************************************************************)
EXTENDS Naturals, Sequences

CONSTANTS
  Ids,     \* the callers of thread/start and turn/start
  Emits,   \* messages it sends: "completed", "approval" (a request of any method),
           \*   "bare" (a completion without threadId),
           \*   "odd" (a completion whose status is none of the known ones)
  Questions,  \* requests it makes: is the method one of the two that the engine
              \*   supports, and which decisions does it offer
  Askers,  \* bound: the turns that may make one, once each
  Faults   \* what may go wrong: "account", "refusal", "timeout", "server", "crash"

(* The decisions an owner may take; a request that lists none offers both.  *)
Decisions == {"accept", "decline"}

ASSUME EmitsAssumption == Emits \subseteq {"completed", "approval", "bare", "odd"}
ASSUME QuestionsAssumption ==
  /\ Questions \subseteq [supported: BOOLEAN, available: SUBSET Decisions]
  /\ Askers \subseteq Ids

VARIABLES
  server,  \* the process is alive
  turn,    \* [Ids -> what it does with the turn]
  question,  \* [Ids -> what its turn asks, or NoQuestion]
  inbox,   \* on the way to it: <<method, calling job, turn or discussion>>
  wire     \* messages on their way from it, in order

serverVars == <<server, turn, question, inbox, wire>>

NoQuestion == [supported |-> FALSE, available |-> {}]

Live == {i \in Ids : turn[i] \in {"live", "asking", "answered"}}

AppServerInit ==
  /\ server = TRUE /\ inbox = {} /\ wire = <<>>
  /\ turn = [i \in Ids |-> "none"] /\ question = [i \in Ids |-> NoQuestion]

Push(kind, i) == wire' = Append(wire, [kind |-> kind, turn |-> i])

ServeThread(i) ==
  /\ <<"thread", i, i>> \in inbox
  /\ inbox' = inbox \ {<<"thread", i, i>>}
  /\ Push("threadOk", i) \/ ("refusal" \in Faults /\ Push("startNo", i))
  /\ UNCHANGED turn

(* A turn starts before its request is answered, if it ever is.             *)
ServeTurn(i) ==
  /\ <<"turn", i, i>> \in inbox
  /\ \/ /\ inbox' = (inbox \ {<<"turn", i, i>>}) \cup {<<"reply", i, i>>}
        /\ turn' = [turn EXCEPT ![i] = "live"]
        /\ UNCHANGED wire
     \/ /\ "refusal" \in Faults
        /\ inbox' = inbox \ {<<"turn", i, i>>}
        /\ Push("startNo", i)
        /\ UNCHANGED turn

ReplyTurn(i) ==
  /\ <<"reply", i, i>> \in inbox
  /\ inbox' = inbox \ {<<"reply", i, i>>}
  /\ Push("turnOk", i)
  /\ UNCHANGED turn

EndTurn(i) ==
  /\ i \in Live
  /\ turn' = [turn EXCEPT ![i] = "ended"]
  /\ \E kind \in Emits \ {"approval"} : Push(kind, i)
  /\ UNCHANGED inbox

Ask(i) ==
  /\ "approval" \in Emits /\ i \in Askers
  /\ turn[i] = "live"
  /\ turn' = [turn EXCEPT ![i] = "asking"]
  /\ \E asked \in Questions : question' = [question EXCEPT ![i] = asked]
  /\ Push("approval", i)
  /\ UNCHANGED inbox

(* An answer of the owner, or the engine's refusal of the request.          *)
Answered(message) ==
  /\ message \in inbox /\ message[1] \in {"answer", "deny"}
  /\ inbox' = inbox \ {message}
  /\ IF turn[message[3]] = "asking"
     THEN turn' = [turn EXCEPT ![message[3]] = "answered"] /\ Push("resolved", message[3])
     ELSE UNCHANGED <<turn, wire>>

ServeInterrupt(message) ==
  /\ message \in inbox /\ message[1] = "interrupt"
  /\ inbox' = inbox \ {message}
  /\ Push(IF message[3] \in Live THEN "stopOk" ELSE "stopNo", message[2])
  /\ UNCHANGED turn

Serves ==
  /\ server
  /\ \/ \E i \in Ids : ServeThread(i) \/ ServeTurn(i) \/ ReplyTurn(i)
     \/ \E i \in Ids : turn[i] # "asking" /\ EndTurn(i)
     \/ \E message \in inbox : Answered(message) \/ ServeInterrupt(message)
  /\ UNCHANGED <<server, question>>

(* What it may also do, and may never do.                                   *)
MayServe ==
  /\ server
  /\ \E i \in Ids : Ask(i) \/ (turn[i] = "asking" /\ EndTurn(i) /\ UNCHANGED question)
  /\ UNCHANGED server

(* When the process or its connection ends, the requests under way are lost *)
(* or have had their effect.  What runs then stops on its own.              *)
Disappears ==
  /\ server' = FALSE
  /\ inbox' = {}
  /\ \E begun \in SUBSET {i \in Ids : <<"turn", i, i>> \in inbox} :
       turn' = [i \in Ids |-> IF i \in begun THEN "live" ELSE turn[i]]
  /\ UNCHANGED question

ServerDies ==
  /\ "server" \in Faults /\ server
  /\ Disappears
  /\ UNCHANGED wire

TurnStops(i) ==
  /\ ~server /\ i \in Live
  /\ turn' = [turn EXCEPT ![i] = "ended"]
  /\ UNCHANGED <<server, question, inbox, wire>>
=============================================================================
