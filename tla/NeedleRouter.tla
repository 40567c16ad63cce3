---------------------------- MODULE NeedleRouter ----------------------------
(***************************************************************************)
(* The optional Needle 2 router (skills/tool_router/needle2_adapter.py)    *)
(* and the private worker it talks to over two pipes (needle2_worker.py).  *)
(*                                                                         *)
(* Threads of one program call route() on one router; a lock lets one of   *)
(* them at a time start the worker, send it a line and wait for the answer.*)
(* Lines carry no identifier: which query an answer is about follows from  *)
(* the order alone.  The engine inside the worker may hang, raise, print   *)
(* to its output or kill its process at any moment, and a wait that lasts  *)
(* ends in a timeout.                                                      *)
(*                                                                         *)
(* A query is the number of its call.  The thread that reads the worker's  *)
(* output, and the delay it adds, are part of the output sequence.  Not    *)
(* modelled: a process that survives its kill, and exceptions raised from  *)
(* outside into a thread that waits (an interruption from the keyboard).   *)
(*                                                                         *)
(* A definition named after another one with a suffix (TimeoutKeeping) is  *)
(* a wrong version of it, used only to see that the properties notice.     *)
(***************************************************************************)
EXTENDS Integers, Sequences, FiniteSets

CONSTANTS
  Callers,     \* threads that use the router
  Tools,       \* tools a model may name
  Catalogs,    \* the sets of tools callers offer
  MaxTools,    \* MAX_TOOLS
  MaxCalls,    \* bound: calls to route
  MaxLines,    \* bound: lines waiting in a worker's output
  Faults,      \* what may go wrong: "noise", "dies", "full"
  None

ASSUME RouterAssumption ==
  /\ Catalogs \subseteq SUBSET Tools
  /\ MaxTools \in Nat /\ MaxCalls \in Nat /\ MaxLines \in Nat
  /\ Faults \subseteq {"noise", "dies", "full"}
  /\ None \notin Tools /\ None \notin Callers

Queries == 1..MaxCalls
Workers == 1..MaxCalls  \* a call starts at most one

VARIABLES
  holder,   \* _lock: the caller inside, or None
  process,  \* _process: the worker, or 0
  catalog,  \* _catalog: the one the worker was started with, or {}
  call,     \* caller -> the call it is in, or its last one
  worker,   \* worker -> its program point, engine and pipes
  asked,    \* calls made so far
  started   \* workers started so far

vars == <<holder, process, catalog, call, worker, asked, started>>

\* A proposal carries what it was computed from, and whether its worker had misled
\* the router.
Answers == [kind: {"none", "abstain", "raised"}] \cup [kind: {"proposal"}, tool: Tools,
              about: SUBSET Queries, given: SUBSET Tools, misled: BOOLEAN]
Abstained == [kind |-> "abstain"]
Raised == [kind |-> "raised"]

\* What the router writes: the catalog at first, then queries.
Messages == [query: {0} \cup Queries, tools: SUBSET Tools]
\* What the worker prints.  A response depends on what the engine heard; "garbage"
\* and "object" are the engine's own, the second a JSON object that decodes.
Lines == [kind: {"ready", "error", "garbage", "object"}] \cup
         [kind: {"response"}, about: SUBSET Queries, given: SUBSET Tools, tool: Tools \cup {None}]

\* "misled" is history: what the engine printed was taken for an answer.
NotStarted ==
  [at |-> "unborn", tools |-> {}, heard |-> {}, in |-> <<>>, out |-> <<>>, misled |-> FALSE]
Gone == [NotStarted EXCEPT !.at = "gone"]

Init ==
  /\ holder = None /\ process = 0 /\ catalog = {}
  /\ call = [c \in Callers |-> [at |-> "idle", query |-> 0, tools |-> {}, answer |-> [kind |-> "none"]]]
  /\ worker = [w \in Workers |-> NotStarted]
  /\ asked = 0 /\ started = 0

-----------------------------------------------------------------------------
(* A call of route. *)

Returns(c, answer) == call' = [call EXCEPT ![c] = [call[c] EXCEPT !.at = "idle", !.answer = answer]]
GoesTo(c, at) == call' = [call EXCEPT ![c].at = at]

\* An empty catalog, too many tools or a library that is not there is refused
\* before the lock.
Route(c) ==
  /\ call[c].at = "idle" /\ asked < MaxCalls
  /\ asked' = asked + 1
  /\ \E tools \in Catalogs, library \in BOOLEAN :
       LET accepted == tools # {} /\ Cardinality(tools) <= MaxTools /\ library
       IN  call' = [call EXCEPT ![c] = [at |-> IF accepted THEN "wait" ELSE "idle", query |-> asked',
                                        tools |-> tools,
                                        answer |-> IF accepted THEN [kind |-> "none"] ELSE Abstained]]
  /\ UNCHANGED <<holder, process, catalog, worker, started>>

Acquire(c) ==
  /\ call[c].at = "wait" /\ holder = None
  /\ holder' = c
  /\ GoesTo(c, IF process = 0 \/ catalog # call[c].tools THEN "start" ELSE "ask")
  /\ UNCHANGED <<process, catalog, worker, asked, started>>

\* _stop: the process is terminated, waited for, and its pipes are closed.
StoppedNever == worker
Stopped == IF process = 0 THEN worker ELSE [worker EXCEPT ![process] = Gone]

\* An exception of the call: stop, release the lock, return.
FailsKeeping(c, answer) ==
  /\ UNCHANGED <<process, catalog, worker>>
  /\ holder' = None
  /\ Returns(c, answer)
Fails(c, answer) ==
  /\ process' = 0 /\ catalog' = {} /\ worker' = Stopped
  /\ holder' = None
  /\ Returns(c, answer)

\* _start: the library may have vanished, the interpreter may not exist.
Start(c) ==
  /\ call[c].at = "start"
  /\ \/ Fails(c, Abstained) /\ UNCHANGED started
     \/ /\ started < MaxCalls
        /\ started' = started + 1
        /\ process' = started' /\ catalog' = {}
        /\ worker' = [Stopped EXCEPT ![started'] = [NotStarted EXCEPT !.at = "init"]]
        /\ GoesTo(c, "tell")
        /\ UNCHANGED holder
  /\ UNCHANGED asked

\* _send, bounded: the line is in the pipe, the worker is gone, or the pipe stays
\* full.  In both failures the stream keeps what it could not write, and closing
\* it in _stop raises in the middle of the handler.
Send(c) ==
  /\ call[c].at \in {"tell", "ask"}
  /\ \/ /\ worker[process].at # "gone"
        /\ worker' = [worker EXCEPT ![process].in = Append(@,
             [tools |-> call[c].tools, query |-> IF call[c].at = "tell" THEN 0 ELSE call[c].query])]
        /\ GoesTo(c, IF call[c].at = "tell" THEN "hear" ELSE "answer")
        /\ UNCHANGED <<holder, process, catalog>>
     \/ worker[process].at = "gone" /\ Fails(c, Raised)
     \/ "full" \in Faults /\ worker[process].at # "gone" /\ Fails(c, Raised)
  /\ UNCHANGED <<asked, started>>

\* parse_response: one call, of an offered tool, or an abstention.
Proposal(line, misled) ==
  [kind |-> "proposal", tool |-> line.tool, about |-> line.about, given |-> line.given, misled |-> misled]
ParsedUnchecked(line, tools, misled) ==
  IF line.kind = "response" THEN Proposal(line, misled) ELSE Abstained
Parsed(line, tools, misled) ==
  IF line.kind = "response" /\ line.tool \in tools THEN Proposal(line, misled) ELSE Abstained

Misleads(c, line) == call[c].at = "answer" /\ line.kind = "object"

\* _receive, with a line.  What decodes to an object without worker_error is taken
\* for the answer, whoever printed it, and the worker is kept.
Hear(c) ==
  /\ call[c].at \in {"hear", "answer"}
  /\ worker[process].out # <<>>
  /\ LET line == Head(worker[process].out)
         read == [worker EXCEPT ![process].out = Tail(@), ![process].misled = @ \/ Misleads(c, line)]
     IN  \/ /\ call[c].at = "hear" /\ line.kind = "ready"
            /\ catalog' = call[c].tools /\ worker' = read
            /\ GoesTo(c, "ask")
            /\ UNCHANGED <<holder, process>>
         \/ /\ call[c].at = "answer" /\ line.kind \in {"ready", "response", "object"}
            /\ worker' = read
            /\ Returns(c, Parsed(line, call[c].tools, worker[process].misled))
            /\ holder' = None
            /\ UNCHANGED <<process, catalog>>
         \/ /\ \/ line.kind \in {"error", "garbage"}
               \/ call[c].at = "hear" /\ line.kind \in {"response", "object"}
            /\ Fails(c, Abstained)
  /\ UNCHANGED <<asked, started>>

\* _receive, without: the output was closed, or nothing came in time.
TimeoutKeeping(c) ==
  /\ call[c].at \in {"hear", "answer"}
  /\ worker[process].out = <<>>
  /\ FailsKeeping(c, Abstained)
  /\ UNCHANGED <<asked, started>>
TimeoutNever(c) ==
  /\ call[c].at \in {"hear", "answer"}
  /\ worker[process].out = <<>> /\ worker[process].at = "gone"
  /\ Fails(c, Abstained)
  /\ UNCHANGED <<asked, started>>
Timeout(c) ==
  /\ call[c].at \in {"hear", "answer"}
  /\ worker[process].out = <<>>
  /\ Fails(c, Abstained)
  /\ UNCHANGED <<asked, started>>

Close ==
  /\ holder = None /\ process # 0
  /\ process' = 0 /\ catalog' = {} /\ worker' = Stopped
  /\ UNCHANGED <<holder, call, asked, started>>

-----------------------------------------------------------------------------
(* The worker. *)

Alive(w) == worker[w].at \notin {"unborn", "gone"}

Prints(w, line, at) == worker' = [worker EXCEPT ![w] = [worker[w] EXCEPT !.at = at, !.out = Append(@, line)]]

ReadsTools(w) ==
  /\ worker[w].at = "init" /\ worker[w].in # <<>>
  /\ worker' = [worker EXCEPT ![w] =
       [worker[w] EXCEPT !.at = "loading", !.tools = Head(worker[w].in).tools, !.in = Tail(@)]]

Loaded(w) ==
  /\ worker[w].at = "loading"
  /\ Prints(w, [kind |-> "ready"], "idle")

\* agent.reset(): the engine forgets the queries before this one.
ReadsQuery(w) ==
  /\ worker[w].at = "idle" /\ worker[w].in # <<>>
  /\ worker' = [worker EXCEPT ![w] =
       [worker[w] EXCEPT !.at = "busy", !.heard = {Head(worker[w].in).query}, !.in = Tail(@)]]

Completes(w) ==
  /\ worker[w].at = "busy"
  /\ \E tool \in Tools \cup {None} :
       Prints(w, [kind |-> "response", about |-> worker[w].heard, given |-> worker[w].tools,
                  tool |-> tool], "idle")

Raises(w) ==
  /\ worker[w].at \in {"init", "loading", "busy"}
  /\ Prints(w, [kind |-> "error"], "gone")

\* The native engine writes to the output, or ends the process.  Most of what it
\* may write does not decode; a JSON object does, and is no response of its own.
Noise(w) ==
  /\ "noise" \in Faults /\ Alive(w) /\ Len(worker[w].out) < MaxLines
  /\ \E kind \in {"garbage", "object"} : Prints(w, [kind |-> kind], worker[w].at)

Dies(w) ==
  /\ "dies" \in Faults /\ Alive(w)
  /\ worker' = [worker EXCEPT ![w].at = "gone"]

-----------------------------------------------------------------------------
Step(c) == Acquire(c) \/ Start(c) \/ Send(c) \/ Hear(c) \/ Timeout(c)

Works(w) == ReadsTools(w) \/ Loaded(w) \/ ReadsQuery(w) \/ Completes(w) \/ Raises(w) \/ Noise(w) \/ Dies(w)

Next ==
  \/ \E c \in Callers : Route(c) \/ Step(c)
  \/ Close
  \/ (\E w \in Workers : Works(w)) /\ UNCHANGED <<holder, process, catalog, call, asked, started>>

Spec == Init /\ [][Next]_vars

\* The program's own threads go on, and a wait ends; nothing is assumed of the worker.
FairSpec == Spec /\ \A c \in Callers : WF_vars(Step(c))

-----------------------------------------------------------------------------
(* Every variable has its type; who holds the lock is inside. *)
TypeOK ==
  /\ holder \in Callers \cup {None}
  /\ process \in {0} \cup Workers
  /\ catalog \in SUBSET Tools
  /\ call \in [Callers -> [at: {"idle", "wait", "start", "tell", "hear", "ask", "answer"},
                           query: {0} \cup Queries, tools: SUBSET Tools, answer: Answers]]
  /\ worker \in [Workers -> [at: {"unborn", "init", "loading", "idle", "busy", "gone"},
                             tools: SUBSET Tools, heard: SUBSET Queries,
                             in: Seq(Messages), out: Seq(Lines), misled: BOOLEAN]]
  /\ asked \in {0} \cup Queries /\ started \in {0} \cup Workers

(* What a caller is told was computed for the tools it offered, and is about *)
(* its own query and nothing that was asked before, whatever timed out, died *)
(* or was printed that does not decode.  A JSON object that the engine       *)
(* prints of its own accord ends the second half for its worker once route   *)
(* has taken it for a response: the worker is kept, and the next query gets  *)
(* the answer that was left in the pipe.                                     *)
AnswersTheQuery ==
  \A c \in Callers :
    LET answer == call[c].answer
    IN  answer.kind = "proposal" =>
          /\ answer.given = call[c].tools /\ answer.tool \in call[c].tools
          /\ ~answer.misled => answer.about = {call[c].query}

(* No worker outlives its use: the only process is the one the router knows.*)
OneWorker == \A w \in Workers : Alive(w) => w = process

(* A call of route ends, even if the worker never answers.                  *)
EveryRouteReturns == \A c \in Callers : (call[c].at # "idle") ~> (call[c].at = "idle")

(* "Return a safe route or an explicit abstention" (base.py): a call never  *)
(* ends in an exception.                                                    *)
RouteAnswers == \A c \in Callers : call[c].answer.kind # "raised"
=============================================================================
