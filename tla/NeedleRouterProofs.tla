------------------------- MODULE NeedleRouterProofs -------------------------
(* Theorems about NeedleRouter: for any number of callers, calls and tools,  *)
(* whatever the engine does to its worker.                                   *)
EXTENDS NeedleRouter, TLAPS

(***************************************************************************)
(* What a worker's pipes hold, by the place of the call that uses it.      *)
(***************************************************************************)

Points == {"unborn", "init", "loading", "idle", "busy", "gone"}
WorkerType == [at: Points, tools: SUBSET Tools, heard: SUBSET Queries,
               in: Seq(Messages), out: Seq(Lines), misled: BOOLEAN]
Chatter == {"error", "garbage", "object"}
Inside == {"start", "tell", "hear", "ask", "answer"}
CallType == [at: {"idle", "wait"} \cup Inside, query: {0} \cup Queries, tools: SUBSET Tools, answer: Answers]

\* The lines a call may go on with; at most one of them is ever in the pipe.
Solid(line) == line.kind \in {"ready", "response"}
Silent(out) == \A i \in DOMAIN out : ~Solid(out[i])
Single(out) == \A i, j \in DOMAIN out : Solid(out[i]) /\ Solid(out[j]) => i = j

\* Started, not yet told its catalog.
Fresh(w) ==
  /\ w.at \in {"init", "gone"}
  /\ w.at = "init" => w.in = <<>>
  /\ Silent(w.out)

\* Told its catalog, not yet heard to be ready.
Starting(w, tools) ==
  /\ Single(w.out) /\ \A i \in DOMAIN w.out : w.out[i].kind # "response"
  /\ w.at \in {"init", "loading", "idle", "gone"}
  /\ w.at = "init" => w.in = <<[tools |-> tools, query |-> 0]>> /\ Silent(w.out)
  /\ w.at = "loading" => w.in = <<>> /\ w.tools = tools /\ Silent(w.out)
  /\ w.at = "idle" => w.in = <<>>
  /\ w.at = "idle" \/ ~Silent(w.out) => w.tools = tools

\* Once ready: it keeps its catalog, and answers for it whatever it is asked.
Kept(w, tools) ==
  /\ w.tools = tools
  /\ w.at \in {"idle", "busy", "gone"}
  /\ w.at # "gone" => \A i \in DOMAIN w.in : w.in[i].query \in Queries
  /\ \A i \in DOMAIN w.out :
       w.out[i].kind # "ready" /\ (w.out[i].kind = "response" => w.out[i].given = tools)

\* Ready, with nothing in its pipes that a call could take for an answer.
Clean(w, tools) ==
  /\ w.tools = tools
  /\ w.at \in {"idle", "gone"}
  /\ w.at = "idle" => w.in = <<>>
  /\ Silent(w.out)

\* Told query q: the only answer it may print is about q.
OneAnswer(w, q, tools) ==
  /\ w.tools = tools
  /\ Single(w.out)
  /\ \A i \in DOMAIN w.out :
       /\ w.out[i].kind # "ready"
       /\ w.out[i].kind = "response" => w.out[i].about = {q} /\ w.out[i].given = tools
  /\ w.at \in {"idle", "busy", "gone"}
  /\ w.at = "idle" => w.in = <<>> \/ (w.in = <<[tools |-> tools, query |-> q]>> /\ Silent(w.out))
  /\ w.at = "busy" => w.in = <<>> /\ w.heard = {q} /\ Silent(w.out)

\* The same, for a worker whose own output may have been taken for an answer.
Waiting(w, tools) == Kept(w, tools) /\ (~w.misled => Clean(w, tools))
Answering(w, q, tools) == Kept(w, tools) /\ (~w.misled => OneAnswer(w, q, tools))

\* The worker w is as the call c, which holds the lock, expects.
AsExpected(w, c) ==
  /\ c.at = "tell" => Fresh(w)
  /\ c.at = "hear" => Starting(w, c.tools)
  /\ c.at = "ask" => Waiting(w, c.tools)
  /\ c.at = "answer" => Answering(w, c.query, c.tools)

Typed ==
  /\ holder \in Callers \cup {None}
  /\ process \in {0} \cup Workers
  /\ catalog \in SUBSET Tools
  /\ call \in [Callers -> CallType]
  /\ worker \in [Workers -> WorkerType]
  /\ asked \in {0} \cup Queries /\ started \in {0} \cup Workers

\* An answer is for the call's own tools, and about its query unless its worker
\* had misled the router.
Honest(c) ==
  c.answer.kind = "proposal" =>
    /\ c.answer.given = c.tools /\ c.answer.tool \in c.tools
    /\ ~c.answer.misled => c.answer.about = {c.query}

\* What the router knows while the call c is as it is.
CallSound(c) ==
  /\ Honest(c)
  /\ c.at # "idle" => c.query \in Queries
  /\ c.at \in Inside \ {"start"} => process # 0
  /\ c.at \in {"ask", "answer"} => catalog = c.tools
  /\ process # 0 =>
       /\ c.at = "start" => Waiting(worker[process], catalog)
       /\ AsExpected(worker[process], c)

RouterInv ==
  /\ Typed
  /\ \A c \in Callers : call[c].at \in Inside <=> holder = c
  /\ \A w \in Workers : w # process => worker[w].at \in {"unborn", "gone"}
  /\ process # 0 /\ holder = None => Waiting(worker[process], catalog)
  /\ \A c \in Callers : CallSound(call[c])

(***************************************************************************)
(* A step of a worker.                                                     *)
(***************************************************************************)

LEMMA LongerPipe ==
  ASSUME NEW out \in Seq(Lines), NEW line \in Lines
  PROVE  LET new == Append(out, line) IN
         /\ new \in Seq(Lines)
         /\ DOMAIN new = DOMAIN out \cup {Len(out) + 1}
         /\ new[Len(out) + 1] = line /\ Len(out) + 1 \notin DOMAIN out
         /\ \A i \in DOMAIN out : new[i] = out[i]
         /\ Silent(out) => Single(new)
         /\ ~Solid(line) => (Silent(new) <=> Silent(out)) /\ (Single(out) => Single(new))
<1> DEFINE new == Append(out, line)
<1>1. /\ new \in Seq(Lines)
      /\ DOMAIN new = DOMAIN out \cup {Len(out) + 1}
      /\ new[Len(out) + 1] = line /\ Len(out) + 1 \notin DOMAIN out
      /\ \A i \in DOMAIN out : new[i] = out[i]
  OBVIOUS
<1> HIDE DEF new
<1>2. Silent(out) => Single(new) BY <1>1 DEF Silent, Single
<1>3. ~Solid(line) => (Silent(new) <=> Silent(out)) /\ (Single(out) => Single(new))
  BY <1>1 DEF Silent, Single
<1> QED BY <1>1, <1>2, <1>3 DEF new

LEMMA ShorterPipe ==
  ASSUME NEW out \in Seq(Lines), out # <<>>
  PROVE  /\ Head(out) \in Lines /\ Tail(out) \in Seq(Lines)
         /\ Head(out) = out[1] /\ 1 \in DOMAIN out
         /\ Single(out) /\ Solid(Head(out)) => Silent(Tail(out))
<1>1. /\ Head(out) \in Lines /\ Tail(out) \in Seq(Lines) /\ Head(out) = out[1] /\ 1 \in DOMAIN out
      /\ DOMAIN out = 1..Len(out) /\ Len(out) \in Nat
      /\ DOMAIN Tail(out) = 1..(Len(out) - 1)
      /\ \A i \in DOMAIN Tail(out) : Tail(out)[i] = out[i + 1]
  OBVIOUS
<1>2. ASSUME Single(out), Solid(Head(out)), NEW i \in DOMAIN Tail(out), Solid(Tail(out)[i]) PROVE FALSE
  <2>1. i + 1 \in DOMAIN out /\ i + 1 # 1 /\ Solid(out[i + 1]) BY <1>1, <1>2
  <2> QED BY <1>1, <1>2, <2>1 DEF Single
<1> QED BY <1>1, <1>2 DEF Silent

\* What a step of a worker does to it.
Moved(x, y) ==
  \/ /\ x.at = "init" /\ x.in # <<>> /\ y.at = "loading"
     /\ y.tools = Head(x.in).tools /\ y.in = Tail(x.in) /\ y.out = x.out
  \/ /\ x.at = "loading" /\ y.at = "idle" /\ y.tools = x.tools /\ y.in = x.in
     /\ y.out = Append(x.out, [kind |-> "ready"])
  \/ /\ x.at = "idle" /\ x.in # <<>> /\ y.at = "busy" /\ y.tools = x.tools
     /\ y.heard = {Head(x.in).query} /\ y.in = Tail(x.in) /\ y.out = x.out
  \/ /\ x.at = "busy" /\ y.at = "idle" /\ y.tools = x.tools /\ y.in = x.in
     /\ \E tool \in Tools \cup {None} :
          y.out = Append(x.out, [kind |-> "response", about |-> x.heard, given |-> x.tools, tool |-> tool])
  \/ /\ y.at \in {x.at, "gone"} /\ y.tools = x.tools /\ y.heard = x.heard /\ y.in = x.in
     /\ \E kind \in Chatter : y.out = Append(x.out, [kind |-> kind])
  \/ y.at = "gone" /\ y.tools = x.tools /\ y.heard = x.heard /\ y.in = x.in /\ y.out = x.out

LEMMA Printed ==
  ASSUME Typed, NEW w \in Workers, NEW line \in Lines, NEW p \in Points, Prints(w, line, p)
  PROVE  /\ worker' \in [Workers -> WorkerType]
         /\ \A v \in Workers \ {w} : worker'[v] = worker[v]
         /\ worker'[w].at = p /\ worker'[w].tools = worker[w].tools /\ worker'[w].heard = worker[w].heard
         /\ worker'[w].in = worker[w].in /\ worker'[w].out = Append(worker[w].out, line)
         /\ worker'[w].misled = worker[w].misled
<1> DEFINE x == worker[w]
           y == [x EXCEPT !.at = p, !.out = Append(@, line)]
           u == [x EXCEPT !.at = p]
           v == [u EXCEPT !.out = Append(x.out, line)]
<1>1. worker \in [Workers -> WorkerType] /\ x \in WorkerType BY DEF Typed
<1>2. /\ u \in WorkerType /\ u.at = p /\ u.tools = x.tools /\ u.heard = x.heard /\ u.in = x.in
      /\ u.out = x.out /\ u.misled = x.misled
  BY <1>1 DEF WorkerType
<1>5. v = y BY <1>2 DEF u
<1> HIDE DEF u
<1>3. Append(x.out, line) \in Seq(Lines) BY <1>1 DEF WorkerType
<1>4. /\ v \in WorkerType /\ v.at = p /\ v.tools = x.tools /\ v.heard = x.heard /\ v.in = x.in
      /\ v.out = Append(x.out, line) /\ v.misled = x.misled
  BY <1>2, <1>3 DEF WorkerType
<1>6. worker' = [worker EXCEPT ![w] = y] BY DEF Prints
<1> HIDE DEF y, v, x
<1> QED BY <1>1, <1>4, <1>5, <1>6 DEF x

LEMMA WorksMoves ==
  ASSUME Typed, NEW w \in Workers, Works(w),
         worker[w].at = "idle" /\ worker[w].in # <<>> => Head(worker[w].in).query \in Queries
  PROVE  /\ worker' \in [Workers -> WorkerType]
         /\ \A v \in Workers \ {w} : worker'[v] = worker[v]
         /\ Alive(w) /\ Moved(worker[w], worker'[w]) /\ worker'[w].misled = worker[w].misled
<1> DEFINE x == worker[w]
<1>1. /\ worker \in [Workers -> WorkerType] /\ x \in WorkerType
      /\ x.in \in Seq(Messages) /\ x.tools \in SUBSET Tools /\ x.heard \in SUBSET Queries
  BY DEF Typed, WorkerType
<1>2. x.in # <<>> => Head(x.in) \in Messages /\ Tail(x.in) \in Seq(Messages) BY <1>1
<1>3. CASE ReadsTools(w)
  <2> DEFINE u == [x EXCEPT !.at = "loading", !.tools = Head(x.in).tools, !.in = Tail(@)]
             u1 == [x EXCEPT !.at = "loading"]
             u2 == [u1 EXCEPT !.tools = Head(x.in).tools]
             u3 == [u2 EXCEPT !.in = Tail(x.in)]
  <2>1. x.at = "init" /\ x.in # <<>> /\ worker' = [worker EXCEPT ![w] = u] BY <1>3 DEF ReadsTools
  <2>2. Head(x.in).tools \in SUBSET Tools BY <1>2, <2>1 DEF Messages
  <2>3. u1 \in WorkerType /\ u1.at = "loading" /\ u1.heard = x.heard /\ u1.in = x.in /\ u1.out = x.out
          /\ u1.misled = x.misled
    BY <1>1 DEF WorkerType, Points
  <2> HIDE DEF u1
  <2>4. /\ u2 \in WorkerType /\ u2.at = "loading" /\ u2.heard = x.heard /\ u2.in = x.in
        /\ u2.out = x.out /\ u2.tools = Head(x.in).tools
        /\ u2.misled = x.misled
    BY <2>2, <2>3 DEF WorkerType
  <2> HIDE DEF u2
  <2>5. /\ u3 \in WorkerType /\ u3.at = "loading" /\ u3.heard = x.heard /\ u3.in = Tail(x.in)
        /\ u3.out = x.out /\ u3.tools = Head(x.in).tools
        /\ u3.misled = x.misled
    BY <1>2, <2>1, <2>4 DEF WorkerType
  <2>6. u3 = u BY <2>4 DEF u1, u2, u3, u
  <2> HIDE DEF u, u3
  <2> QED BY <1>1, <2>1, <2>5, <2>6 DEF Moved, Alive
<1>4. CASE Loaded(w)
  <2>1. [kind |-> "ready"] \in Lines /\ "idle" \in Points BY DEF Lines, Points
  <2>2. x.at = "loading" /\ Prints(w, [kind |-> "ready"], "idle") BY <1>4 DEF Loaded
  <2> QED BY <2>1, <2>2, Printed DEF Moved, Alive
<1>5. CASE ReadsQuery(w)
  <2> DEFINE u == [x EXCEPT !.at = "busy", !.heard = {Head(x.in).query}, !.in = Tail(@)]
             u1 == [x EXCEPT !.at = "busy"]
             u2 == [u1 EXCEPT !.heard = {Head(x.in).query}]
             u3 == [u2 EXCEPT !.in = Tail(x.in)]
  <2>1. x.at = "idle" /\ x.in # <<>> /\ worker' = [worker EXCEPT ![w] = u] BY <1>5 DEF ReadsQuery
  <2>2. Head(x.in).query \in Queries BY <2>1
  <2>3. u1 \in WorkerType /\ u1.at = "busy" /\ u1.tools = x.tools /\ u1.in = x.in /\ u1.out = x.out
          /\ u1.misled = x.misled
    BY <1>1 DEF WorkerType, Points
  <2> HIDE DEF u1
  <2>4. /\ u2 \in WorkerType /\ u2.at = "busy" /\ u2.tools = x.tools /\ u2.in = x.in
        /\ u2.out = x.out /\ u2.heard = {Head(x.in).query}
        /\ u2.misled = x.misled
    BY <2>2, <2>3 DEF WorkerType
  <2> HIDE DEF u2
  <2>5. /\ u3 \in WorkerType /\ u3.at = "busy" /\ u3.tools = x.tools /\ u3.in = Tail(x.in)
        /\ u3.out = x.out /\ u3.heard = {Head(x.in).query}
        /\ u3.misled = x.misled
    BY <1>2, <2>1, <2>4 DEF WorkerType
  <2>6. u3 = u BY DEF u1, u2, u3, u
  <2> HIDE DEF u, u3
  <2> QED BY <1>1, <2>1, <2>5, <2>6 DEF Moved, Alive
<1>6. CASE Completes(w)
  <2>1. PICK tool \in Tools \cup {None} :
          Prints(w, [kind |-> "response", about |-> x.heard, given |-> x.tools, tool |-> tool], "idle")
    BY <1>6 DEF Completes
  <2> DEFINE line == [kind |-> "response", about |-> x.heard, given |-> x.tools, tool |-> tool]
  <2>2. line \in Lines /\ "idle" \in Points BY <1>1 DEF Lines, Points
  <2>3. x.at = "busy" BY <1>6 DEF Completes
  <2> HIDE DEF line
  <2>4. Prints(w, line, "idle") BY <2>1 DEF line
  <2>5. /\ worker' \in [Workers -> WorkerType]
        /\ \A v \in Workers \ {w} : worker'[v] = worker[v]
        /\ worker'[w].at = "idle" /\ worker'[w].tools = x.tools
        /\ worker'[w].in = x.in /\ worker'[w].out = Append(x.out, line)
        /\ worker'[w].misled = x.misled
    BY <2>2, <2>4, Printed
  <2> QED BY <2>3, <2>5 DEF Moved, Alive, line
<1>7. CASE Raises(w)
  <2>1. [kind |-> "error"] \in Lines /\ "gone" \in Points BY DEF Lines, Points
  <2>2. x.at \in {"init", "loading", "busy"} /\ Prints(w, [kind |-> "error"], "gone") BY <1>7 DEF Raises
  <2> QED BY <2>1, <2>2, Printed DEF Moved, Alive, Chatter
<1>8. CASE Noise(w)
  <2>1. PICK kind \in {"garbage", "object"} : Alive(w) /\ Prints(w, [kind |-> kind], x.at)
    BY <1>8 DEF Noise
  <2>2. [kind |-> kind] \in Lines /\ kind \in Chatter /\ x.at \in Points
    BY <1>1 DEF Lines, WorkerType, Chatter
  <2> QED BY <2>1, <2>2, Printed DEF Moved
<1>9. CASE Dies(w)
  <2> DEFINE u == [x EXCEPT !.at = "gone"]
  <2>1. Alive(w) /\ worker' = [worker EXCEPT ![w] = u] BY <1>9 DEF Dies
  <2>2. /\ u \in WorkerType /\ u.at = "gone" /\ u.tools = x.tools /\ u.heard = x.heard
        /\ u.in = x.in /\ u.out = x.out /\ u.misled = x.misled
    BY <1>1 DEF WorkerType, Points
  <2> HIDE DEF u
  <2> QED BY <1>1, <2>1, <2>2 DEF Moved
<1> QED BY <1>3, <1>4, <1>5, <1>6, <1>7, <1>8, <1>9 DEF Works

LEMMA FreshStays ==
  ASSUME NEW x \in WorkerType, NEW y \in WorkerType, Moved(x, y), Fresh(x)
  PROVE  Fresh(y)
<1>1. x.out \in Seq(Lines) BY DEF WorkerType
<1>2. \A kind \in Chatter : [kind |-> kind] \in Lines /\ ~Solid([kind |-> kind])
  BY DEF Lines, Solid, Chatter
<1>3. CASE \E kind \in Chatter : y.out = Append(x.out, [kind |-> kind])
           /\ y.at \in {x.at, "gone"} /\ y.in = x.in
  BY <1>1, <1>2, <1>3, LongerPipe DEF Fresh
<1>4. CASE y.at = "gone" /\ y.out = x.out BY <1>4 DEF Fresh
<1> QED BY <1>3, <1>4 DEF Fresh, Moved

LEMMA CleanStays ==
  ASSUME NEW x \in WorkerType, NEW y \in WorkerType, NEW tools, Moved(x, y), Clean(x, tools)
  PROVE  Clean(y, tools)
<1>1. x.out \in Seq(Lines) BY DEF WorkerType
<1>2. \A kind \in Chatter : [kind |-> kind] \in Lines /\ ~Solid([kind |-> kind])
  BY DEF Lines, Solid, Chatter
<1>3. CASE \E kind \in Chatter : y.out = Append(x.out, [kind |-> kind])
           /\ y.at \in {x.at, "gone"} /\ y.in = x.in /\ y.tools = x.tools
  BY <1>1, <1>2, <1>3, LongerPipe DEF Clean
<1>4. CASE y.at = "gone" /\ y.out = x.out /\ y.tools = x.tools BY <1>4 DEF Clean
<1> QED BY <1>3, <1>4 DEF Clean, Moved

LEMMA StartingStays ==
  ASSUME NEW x \in WorkerType, NEW y \in WorkerType, NEW tools, Moved(x, y), Starting(x, tools)
  PROVE  Starting(y, tools)
<1>1. x.out \in Seq(Lines) /\ y.out \in Seq(Lines) BY DEF WorkerType
<1>2. \A kind \in Chatter :
        [kind |-> kind] \in Lines /\ ~Solid([kind |-> kind]) /\ [kind |-> kind].kind # "response"
  BY DEF Lines, Solid, Chatter
<1>3. CASE x.at = "init" /\ x.in # <<>> /\ y.at = "loading"
           /\ y.tools = Head(x.in).tools /\ y.in = Tail(x.in) /\ y.out = x.out
  <2>1. x.in = <<[tools |-> tools, query |-> 0]>> BY <1>3 DEF Starting
  <2>2. Head(x.in) = [tools |-> tools, query |-> 0] /\ Tail(x.in) = <<>> BY <2>1
  <2>3. y.tools = tools /\ y.in = <<>> BY <1>3, <2>2
  <2> QED BY <1>3, <2>3 DEF Starting
<1>4. CASE x.at = "loading" /\ y.at = "idle" /\ y.tools = x.tools /\ y.in = x.in
           /\ y.out = Append(x.out, [kind |-> "ready"])
  <2>1. [kind |-> "ready"] \in Lines /\ [kind |-> "ready"].kind # "response" BY DEF Lines
  <2>2. Single(y.out) /\ \A i \in DOMAIN y.out : y.out[i].kind # "response"
    <3> DEFINE line == [kind |-> "ready"]
    <3>1. line \in Lines /\ line.kind # "response" BY <2>1
    <3>2. y.out = Append(x.out, line) BY <1>4
    <3> HIDE DEF line
    <3>3. Silent(x.out) BY <1>4 DEF Starting
    <3> QED BY <1>1, <3>1, <3>2, <3>3, LongerPipe DEF Starting
  <2> QED BY <1>4, <2>2 DEF Starting
<1>5. CASE y.at \in {x.at, "gone"} /\ y.tools = x.tools /\ y.in = x.in
           /\ \E kind \in Chatter : y.out = Append(x.out, [kind |-> kind])
  <2>1. PICK line \in Lines : ~Solid(line) /\ line.kind # "response" /\ y.out = Append(x.out, line)
    BY <1>2, <1>5
  <2>2. /\ Single(x.out) => Single(y.out)
        /\ Silent(x.out) <=> Silent(y.out)
        /\ (\A i \in DOMAIN x.out : x.out[i].kind # "response") =>
             \A i \in DOMAIN y.out : y.out[i].kind # "response"
    BY <1>1, <2>1, LongerPipe
  <2> QED BY <1>5, <2>2 DEF Starting
<1>6. CASE y.at = "gone" /\ y.tools = x.tools /\ y.in = x.in /\ y.out = x.out
  BY <1>6 DEF Starting
<1> QED BY <1>3, <1>4, <1>5, <1>6 DEF Starting, Moved

LEMMA OneAnswerStays ==
  ASSUME NEW x \in WorkerType, NEW y \in WorkerType, NEW q, NEW tools, Moved(x, y), OneAnswer(x, q, tools)
  PROVE  OneAnswer(y, q, tools)
<1> DEFINE Right(out) == \A i \in DOMAIN out :
             /\ out[i].kind # "ready"
             /\ out[i].kind = "response" => out[i].about = {q} /\ out[i].given = tools
<1>1. x.out \in Seq(Lines) /\ y.out \in Seq(Lines) /\ Right(x.out) BY DEF WorkerType, OneAnswer
<1>2. \A kind \in Chatter :
        [kind |-> kind] \in Lines /\ ~Solid([kind |-> kind])
  BY DEF Lines, Solid, Chatter
<1>3. CASE x.at = "idle" /\ x.in # <<>> /\ y.at = "busy" /\ y.tools = x.tools
           /\ y.heard = {Head(x.in).query} /\ y.in = Tail(x.in) /\ y.out = x.out
  <2>1. x.in = <<[tools |-> tools, query |-> q]>> /\ Silent(x.out) BY <1>3 DEF OneAnswer
  <2>2. Head(x.in) = [tools |-> tools, query |-> q] /\ Tail(x.in) = <<>> BY <2>1
  <2>3. y.heard = {q} /\ y.in = <<>> BY <1>3, <2>2
  <2> QED BY <1>3, <2>1, <2>3 DEF OneAnswer
<1>4. CASE x.at = "busy" /\ y.at = "idle" /\ y.tools = x.tools /\ y.in = x.in
           /\ \E tool \in Tools \cup {None} :
                y.out = Append(x.out, [kind |-> "response", about |-> x.heard, given |-> x.tools, tool |-> tool])
  <2>1. PICK tool \in Tools \cup {None} :
          y.out = Append(x.out, [kind |-> "response", about |-> x.heard, given |-> x.tools, tool |-> tool])
    BY <1>4
  <2> DEFINE line == [kind |-> "response", about |-> x.heard, given |-> x.tools, tool |-> tool]
  <2>2. line \in Lines BY DEF Lines, WorkerType
  <2>3. line.kind = "response" /\ line.about = {q} /\ line.given = tools BY <1>4 DEF OneAnswer
  <2>4. y.out = Append(x.out, line) BY <2>1
  <2> HIDE DEF line
  <2>5. Silent(x.out) BY <1>4 DEF OneAnswer
  <2>6. Single(y.out) /\ Right(y.out) BY <1>1, <2>2, <2>3, <2>4, <2>5, LongerPipe
  <2> QED BY <1>4, <2>6 DEF OneAnswer
<1>5. CASE y.at \in {x.at, "gone"} /\ y.tools = x.tools /\ y.in = x.in /\ y.heard = x.heard
           /\ \E kind \in Chatter : y.out = Append(x.out, [kind |-> kind])
  <2>1. PICK line \in Lines : ~Solid(line) /\ y.out = Append(x.out, line)
    BY <1>2, <1>5
  <2>2. /\ Single(x.out) => Single(y.out)
        /\ Silent(x.out) <=> Silent(y.out)
        /\ Right(y.out)
    BY <1>1, <2>1, LongerPipe DEF Solid
  <2> QED BY <1>5, <2>2 DEF OneAnswer
<1>6. CASE y.at = "gone" /\ y.tools = x.tools /\ y.in = x.in /\ y.out = x.out
  BY <1>6 DEF OneAnswer
<1> QED BY <1>3, <1>4, <1>5, <1>6 DEF OneAnswer, Moved

LEMMA KeptStays ==
  ASSUME NEW x \in WorkerType, NEW y \in WorkerType, NEW tools, Moved(x, y), Kept(x, tools)
  PROVE  Kept(y, tools)
<1> DEFINE Right(out) ==
      \A i \in DOMAIN out : out[i].kind # "ready" /\ (out[i].kind = "response" => out[i].given = tools)
<1>1. /\ x.in \in Seq(Messages) /\ x.out \in Seq(Lines) /\ y.out \in Seq(Lines)
      /\ x.tools = tools /\ x.at \in {"idle", "busy", "gone"} /\ Right(x.out)
  BY DEF WorkerType, Kept
<1>2. ASSUME NEW line \in Lines, line.kind # "ready", line.kind = "response" => line.given = tools,
             y.out = Append(x.out, line)
      PROVE  Right(y.out)
  BY <1>1, <1>2, LongerPipe
<1> HIDE DEF Right
<1>3. CASE x.at = "idle" /\ x.in # <<>> /\ y.at = "busy" /\ y.tools = x.tools
           /\ y.in = Tail(x.in) /\ y.out = x.out
  <2>1. \A i \in DOMAIN x.in : x.in[i].query \in Queries BY <1>3 DEF Kept
  <2>2. \A i \in DOMAIN Tail(x.in) : i + 1 \in DOMAIN x.in /\ Tail(x.in)[i] = x.in[i + 1]
    BY <1>1, <1>3
  <2> QED BY <1>1, <1>3, <2>1, <2>2 DEF Kept, Right
<1>4. CASE x.at = "busy" /\ y.at = "idle" /\ y.tools = x.tools /\ y.in = x.in
           /\ \E tool \in Tools \cup {None} :
                y.out = Append(x.out, [kind |-> "response", about |-> x.heard, given |-> x.tools, tool |-> tool])
  <2>1. PICK tool \in Tools \cup {None} :
          y.out = Append(x.out, [kind |-> "response", about |-> x.heard, given |-> x.tools, tool |-> tool])
    BY <1>4
  <2> DEFINE line == [kind |-> "response", about |-> x.heard, given |-> x.tools, tool |-> tool]
  <2>2. line \in Lines /\ line.kind = "response" /\ line.given = tools BY <1>1 DEF Lines, WorkerType
  <2>3. y.out = Append(x.out, line) BY <2>1
  <2> HIDE DEF line
  <2>4. Right(y.out) BY <1>2, <2>2, <2>3
  <2> QED BY <1>1, <1>4, <2>4 DEF Kept, Right
<1>5. CASE y.at \in {x.at, "gone"} /\ y.tools = x.tools /\ y.in = x.in
           /\ \E kind \in Chatter : y.out = Append(x.out, [kind |-> kind])
  <2>1. PICK line \in Lines : line.kind \notin {"ready", "response"} /\ y.out = Append(x.out, line)
    BY <1>5 DEF Lines, Chatter
  <2>2. Right(y.out) BY <1>2, <2>1
  <2> QED BY <1>1, <1>5, <2>2 DEF Kept, Right
<1>6. CASE y.at = "gone" /\ y.tools = x.tools /\ y.out = x.out
  BY <1>1, <1>6 DEF Kept, Right
<1> QED BY <1>1, <1>3, <1>4, <1>5, <1>6 DEF Moved

\* A worker's step leaves the rest as it expects it.
LEMMA StepOfWorker ==
  ASSUME RouterInv, NEW w \in Workers, Works(w),
         UNCHANGED <<holder, process, catalog, call, asked, started>>
  PROVE  RouterInv'
<1> DEFINE x == worker[w]
           y == worker'[w]
<1>1. /\ Typed /\ worker \in [Workers -> WorkerType] /\ x \in WorkerType
      /\ call \in [Callers -> CallType]
      /\ \A c \in Callers : CallSound(call[c])
  BY DEF RouterInv, Typed
<1>2. Alive(w) => w = process /\ process # 0
  <2>1. w # 0 BY DEF Workers
  <2>2. w # process => x.at \in {"unborn", "gone"} BY DEF RouterInv
  <2> QED BY <2>1, <2>2 DEF Alive
<1>3. Alive(w)
  BY DEF Works, ReadsTools, Loaded, ReadsQuery, Completes, Raises, Noise, Dies, Alive
<1>4. w = process /\ process # 0 BY <1>2, <1>3
<1>5. ASSUME x.at = "idle", x.in # <<>> PROVE Head(x.in).query \in Queries
  <2>1. \E tools : Kept(x, tools)
    <3>1. CASE holder = None BY <1>4, <3>1 DEF RouterInv, Waiting
    <3>2. CASE holder # None
      <4>1. holder \in Callers /\ call[holder].at \in Inside BY <1>1, <3>2 DEF RouterInv, Typed
      <4> DEFINE c == call[holder]
      <4>2. CallSound(c) BY <1>1, <4>1
      <4>3. c.at = "start" => Waiting(x, catalog) BY <1>4, <4>2 DEF CallSound
      <4>4. AsExpected(x, c) BY <1>4, <4>2 DEF CallSound
      <4>5. c.at \notin {"tell", "hear"} BY <1>5, <4>4 DEF AsExpected, Fresh, Starting
      <4>6. c.at = "ask" => Waiting(x, c.tools) BY <4>4 DEF AsExpected
      <4>7. c.at = "answer" => Answering(x, c.query, c.tools) BY <4>4 DEF AsExpected
      <4>8. c.at \in {"start", "ask", "answer"} BY <4>1, <4>5 DEF Inside
      <4> QED BY <4>3, <4>6, <4>7, <4>8 DEF Waiting, Answering
    <3> QED BY <3>1, <3>2
  <2>2. x.in \in Seq(Messages) BY <1>1 DEF WorkerType
  <2>3. Head(x.in) = x.in[1] /\ 1 \in DOMAIN x.in BY <1>5, <2>2
  <2> QED BY <1>5, <2>1, <2>3 DEF Kept
<1>6. /\ worker' \in [Workers -> WorkerType]
      /\ \A v \in Workers \ {w} : worker'[v] = worker[v]
      /\ Moved(x, y) /\ y.misled = x.misled
  BY <1>1, <1>5, WorksMoves
<1>7. y \in WorkerType BY <1>6
<1>8. \A tools : Waiting(x, tools) => Waiting(y, tools)
  BY <1>1, <1>6, <1>7, KeptStays, CleanStays DEF Waiting
<1>9. \A tools : Starting(x, tools) => Starting(y, tools) BY <1>1, <1>6, <1>7, StartingStays
<1>10. \A q, tools : Answering(x, q, tools) => Answering(y, q, tools)
  BY <1>1, <1>6, <1>7, KeptStays, OneAnswerStays DEF Answering
<1>11. Fresh(x) => Fresh(y) BY <1>1, <1>6, <1>7, FreshStays
<1>12. \A c \in Callers : CallSound(call[c])'
  <2> SUFFICES ASSUME NEW c \in Callers PROVE CallSound(call[c])' OBVIOUS
  <2>1. call' = call /\ process' = process /\ catalog' = catalog OBVIOUS
  <2>2. CallSound(call[c]) BY <1>1
  <2>3. AsExpected(x, call[c]) => AsExpected(y, call[c]) BY <1>8, <1>9, <1>10, <1>11 DEF AsExpected
  <2> QED BY <1>4, <1>8, <2>1, <2>2, <2>3 DEF CallSound
<1>13. Typed' BY <1>1, <1>6 DEF Typed
<1>14. \A v \in Workers : v # process' => worker'[v].at \in {"unborn", "gone"}
  BY <1>4, <1>6 DEF RouterInv
<1>15. process' # 0 /\ holder' = None => Waiting(worker'[process'], catalog')
  BY <1>4, <1>8 DEF RouterInv
<1>16. \A c \in Callers : call'[c].at \in Inside <=> holder' = c BY DEF RouterInv
<1> QED BY <1>12, <1>13, <1>14, <1>15, <1>16 DEF RouterInv

(***************************************************************************)
(* A step of a caller.                                                     *)
(***************************************************************************)

LEMMA Blank ==
  /\ NotStarted \in WorkerType /\ Gone \in WorkerType
  /\ [NotStarted EXCEPT !.at = "init"] \in WorkerType /\ Fresh([NotStarted EXCEPT !.at = "init"])
  /\ Gone.at = "gone"
<1>1. <<>> \in Seq(Messages) /\ <<>> \in Seq(Lines) /\ Silent(<<>>) BY DEF Silent
<1>2. NotStarted \in WorkerType BY <1>1 DEF NotStarted, WorkerType, Points
<1>3. Gone \in WorkerType /\ Gone.at = "gone" BY <1>1, <1>2 DEF Gone, NotStarted, WorkerType, Points
<1>4. [NotStarted EXCEPT !.at = "init"] \in WorkerType BY <1>2 DEF WorkerType, Points
<1>5. Fresh([NotStarted EXCEPT !.at = "init"]) BY <1>1 DEF NotStarted, Fresh
<1> QED BY <1>2, <1>3, <1>4, <1>5

\* Once stopped, no worker is left.
LEMMA AllStopped ==
  ASSUME RouterInv
  PROVE  Stopped \in [Workers -> WorkerType] /\ \A w \in Workers : Stopped[w].at \in {"unborn", "gone"}
<1>1. worker \in [Workers -> WorkerType] /\ process \in {0} \cup Workers BY DEF RouterInv, Typed
<1>2. \A w \in Workers : w # process => worker[w].at \in {"unborn", "gone"} BY DEF RouterInv
<1>3. CASE process = 0
  <2>1. \A w \in Workers : w # 0 BY DEF Workers
  <2> QED BY <1>1, <1>2, <1>3, <2>1 DEF Stopped
<1>4. CASE process # 0
  <2>1. Stopped = [worker EXCEPT ![process] = Gone] BY <1>4 DEF Stopped
  <2> QED BY <1>1, <1>2, <1>4, <2>1, Blank
<1> QED BY <1>3, <1>4

LEMMA Returned ==
  ASSUME Typed, NEW c \in Callers, NEW answer \in Answers, Returns(c, answer)
  PROVE  /\ call' \in [Callers -> CallType]
         /\ \A e \in Callers \ {c} : call'[e] = call[e]
         /\ call'[c].at = "idle" /\ call'[c].answer = answer
         /\ call'[c].query = call[c].query /\ call'[c].tools = call[c].tools
<1> DEFINE x == call[c]
           u == [x EXCEPT !.at = "idle"]
           v == [u EXCEPT !.answer = answer]
<1>1. call \in [Callers -> CallType] /\ x \in CallType BY DEF Typed
<1>2. u \in CallType /\ u.at = "idle" /\ u.query = x.query /\ u.tools = x.tools
  BY <1>1 DEF CallType
<1>3. call' = [call EXCEPT ![c] = v] BY DEF Returns
<1> HIDE DEF u
<1>4. v \in CallType /\ v.at = "idle" /\ v.query = x.query /\ v.tools = x.tools /\ v.answer = answer
  BY <1>2 DEF CallType
<1> HIDE DEF v, x
<1> QED BY <1>1, <1>3, <1>4 DEF x

LEMMA WentTo ==
  ASSUME Typed, NEW c \in Callers, NEW p \in Inside, GoesTo(c, p)
  PROVE  /\ call' \in [Callers -> CallType]
         /\ \A e \in Callers \ {c} : call'[e] = call[e]
         /\ call'[c].at = p /\ call'[c].answer = call[c].answer
         /\ call'[c].query = call[c].query /\ call'[c].tools = call[c].tools
<1> DEFINE x == call[c]
           u == [x EXCEPT !.at = p]
<1>1. call \in [Callers -> CallType] /\ x \in CallType BY DEF Typed
<1>2. /\ u \in CallType /\ u.at = p /\ u.query = x.query /\ u.tools = x.tools
      /\ u.answer = x.answer
  BY <1>1 DEF CallType
<1>3. call' = [call EXCEPT ![c] = u] BY DEF GoesTo
<1> HIDE DEF u, x
<1> QED BY <1>1, <1>2, <1>3 DEF x

\* What is left to show of a step of the caller that holds the lock, or takes it.
LEMMA Framed ==
  ASSUME RouterInv, Typed', NEW c \in Callers, holder \in {c, None},
         \A e \in Callers \ {c} : call'[e] = call[e],
         holder' = IF call'[c].at \in Inside THEN c ELSE None,
         \A w \in Workers : w # process' => worker'[w].at \in {"unborn", "gone"},
         process' # 0 /\ holder' = None => Waiting(worker'[process'], catalog'),
         CallSound(call[c])'
  PROVE  RouterInv'
<1>1. \A e \in Callers \ {c} : call[e].at \notin Inside
  BY RouterAssumption DEF RouterInv
<1>2. \A e \in Callers : call'[e].at \in Inside <=> holder' = e
  BY <1>1, RouterAssumption
<1>3. ASSUME NEW e \in Callers \ {c} PROVE CallSound(call[e])'
  <2>1. call'[e] = call[e] /\ call[e].at \notin Inside BY <1>1
  <2>2. Honest(call[e]) /\ (call[e].at # "idle" => call[e].query \in Queries)
    BY DEF RouterInv, CallSound
  <2>3. Honest(call[e])' BY <2>1, <2>2 DEF Honest
  <2> QED BY <2>1, <2>2, <2>3 DEF CallSound, AsExpected, Inside
<1> QED BY <1>2, <1>3 DEF RouterInv

LEMMA FailsSound ==
  ASSUME RouterInv, NEW c \in Callers, holder = c, NEW answer \in {Abstained, Raised},
         Fails(c, answer), asked' = asked, started' \in {0} \cup Workers
  PROVE  RouterInv'
<1>1. Typed /\ process' = 0 /\ catalog' = {} /\ worker' = Stopped /\ holder' = None
  BY DEF RouterInv, Fails
<1>2. answer \in Answers /\ answer.kind # "proposal" BY DEF Answers, Abstained, Raised
<1>3. /\ call' \in [Callers -> CallType]
      /\ \A e \in Callers \ {c} : call'[e] = call[e]
      /\ call'[c].at = "idle" /\ call'[c].answer = answer
  BY <1>1, <1>2, Returned DEF Fails
<1>4. /\ worker' \in [Workers -> WorkerType]
      /\ \A w \in Workers : worker'[w].at \in {"unborn", "gone"}
  BY <1>1, AllStopped
<1>5. Typed' BY <1>1, <1>3, <1>4 DEF Typed
<1>6. CallSound(call[c])' BY <1>1, <1>2, <1>3 DEF CallSound, Honest, Inside
<1>7. call'[c].at \notin Inside BY <1>3 DEF Inside
<1> QED BY <1>1, <1>3, <1>4, <1>5, <1>6, <1>7, Framed

LEMMA RouteSound ==
  ASSUME RouterInv, NEW c \in Callers, Route(c)
  PROVE  RouterInv'
<1>1. Typed /\ call[c].at = "idle" /\ asked' = asked + 1 /\ asked < MaxCalls
  BY DEF RouterInv, Route
<1>2. asked' \in Queries /\ Queries \subseteq Nat
  BY <1>1, RouterAssumption DEF Typed, Queries
<1>3. PICK tools \in Catalogs, at \in {"wait", "idle"}, answer \in {[kind |-> "none"], Abstained} :
        call' = [call EXCEPT ![c] = [at |-> at, query |-> asked', tools |-> tools, answer |-> answer]]
  BY DEF Route
<1> DEFINE x == [at |-> at, query |-> asked', tools |-> tools, answer |-> answer]
<1>4. x \in CallType
  <2>1. tools \in SUBSET Tools BY RouterAssumption
  <2>2. answer \in Answers BY DEF Answers, Abstained
  <2> QED BY <1>2, <2>1, <2>2 DEF CallType
<1>5. x.at \in {"wait", "idle"} /\ x.query \in Queries /\ x.answer.kind # "proposal"
  BY <1>2 DEF Abstained
<1> HIDE DEF x
<1>6. call' = [call EXCEPT ![c] = x] BY <1>3 DEF x
<1>7. /\ call' \in [Callers -> CallType] /\ call'[c] = x
      /\ \A e \in Callers \ {c} : call'[e] = call[e]
  BY <1>1, <1>4, <1>6 DEF Typed
<1>8. UNCHANGED <<holder, process, catalog, worker, started>> BY DEF Route
<1>9. Typed' BY <1>1, <1>2, <1>7, <1>8 DEF Typed
<1>10. call[c].at \notin Inside /\ call'[c].at \notin Inside BY <1>1, <1>5, <1>7 DEF Inside
<1>11. \A e \in Callers : call'[e].at \in Inside <=> holder' = e
  BY <1>7, <1>8, <1>10 DEF RouterInv
<1>12. ASSUME NEW e \in Callers PROVE CallSound(call[e])'
  <2>1. CASE e = c
    BY <1>5, <1>7, <1>10, <2>1 DEF CallSound, AsExpected, Honest, Inside
  <2>2. CASE e # c
    <3>1. call'[e] = call[e] /\ CallSound(call[e]) BY <1>7, <2>2 DEF RouterInv
    <3> QED BY <1>8, <3>1 DEF CallSound, AsExpected, Honest
  <2> QED BY <2>1, <2>2
<1> QED BY <1>8, <1>9, <1>11, <1>12 DEF RouterInv

LEMMA AcquireSound ==
  ASSUME RouterInv, NEW c \in Callers, Acquire(c)
  PROVE  RouterInv'
<1> DEFINE p == IF process = 0 \/ catalog # call[c].tools THEN "start" ELSE "ask"
<1>1. /\ Typed /\ holder = None /\ holder' = c /\ GoesTo(c, p)
      /\ UNCHANGED <<process, catalog, worker, asked, started>>
      /\ call[c].at = "wait"
  BY DEF RouterInv, Acquire
<1>2. p \in {"start", "ask"} /\ p \in Inside BY DEF Inside
<1>3. p = "ask" => process # 0 /\ catalog = call[c].tools OBVIOUS
<1> HIDE DEF p
<1>4. /\ call' \in [Callers -> CallType]
      /\ \A e \in Callers \ {c} : call'[e] = call[e]
      /\ call'[c].at = p /\ call'[c].answer = call[c].answer
      /\ call'[c].query = call[c].query /\ call'[c].tools = call[c].tools
  BY <1>1, <1>2, WentTo
<1>5. Typed' BY <1>1, <1>4 DEF Typed
<1>6. process # 0 => Waiting(worker[process], catalog) BY <1>1 DEF RouterInv
<1>7. Honest(call[c]) /\ call[c].query \in Queries BY <1>1 DEF RouterInv, CallSound
<1>8. Honest(call[c])' BY <1>4, <1>7 DEF Honest
<1>9. CallSound(call[c])'
  BY <1>1, <1>2, <1>3, <1>4, <1>6, <1>7, <1>8 DEF CallSound, AsExpected
<1>10. \A w \in Workers : w # process' => worker'[w].at \in {"unborn", "gone"}
  BY <1>1 DEF RouterInv
<1> QED BY <1>1, <1>2, <1>4, <1>5, <1>9, <1>10, RouterAssumption, Framed

\* The call inside, at a point of the code.
LEMMA InsideIs ==
  ASSUME RouterInv, NEW c \in Callers, call[c].at \in Inside
  PROVE  /\ Typed /\ holder = c /\ CallSound(call[c])
         /\ call[c].at # "start" => process \in Workers /\ process # 0
         /\ call[c] \in CallType /\ worker \in [Workers -> WorkerType]
BY DEF RouterInv, CallSound, Typed

LEMMA StartSound ==
  ASSUME RouterInv, NEW c \in Callers, Start(c)
  PROVE  RouterInv'
<1>1. Typed /\ holder = c /\ CallSound(call[c]) /\ call[c].at = "start" /\ asked' = asked
  BY InsideIs DEF Start, Inside
<1>2. CASE Fails(c, Abstained) /\ UNCHANGED started
  BY <1>1, <1>2, FailsSound DEF Typed
<1>3. CASE /\ started < MaxCalls
           /\ started' = started + 1
           /\ process' = started' /\ catalog' = {}
           /\ worker' = [Stopped EXCEPT ![started'] = [NotStarted EXCEPT !.at = "init"]]
           /\ GoesTo(c, "tell")
           /\ UNCHANGED holder
  <2>1. started' \in Workers /\ process' # 0
    BY <1>1, <1>3, RouterAssumption DEF Typed, Workers
  <2>2. /\ worker' \in [Workers -> WorkerType] /\ Fresh(worker'[process'])
        /\ \A w \in Workers : w # process' => worker'[w].at \in {"unborn", "gone"}
    <3> DEFINE new == [NotStarted EXCEPT !.at = "init"]
    <3>1. new \in WorkerType /\ Fresh(new) BY Blank
    <3>2. Stopped \in [Workers -> WorkerType] /\ \A w \in Workers : Stopped[w].at \in {"unborn", "gone"}
      BY AllStopped
    <3> HIDE DEF new
    <3>3. worker' = [Stopped EXCEPT ![started'] = new] BY <1>3 DEF new
    <3> QED BY <1>3, <2>1, <3>1, <3>2, <3>3
  <2>3. /\ call' \in [Callers -> CallType]
        /\ \A e \in Callers \ {c} : call'[e] = call[e]
        /\ call'[c].at = "tell" /\ call'[c].answer = call[c].answer
        /\ call'[c].query = call[c].query /\ call'[c].tools = call[c].tools
    BY <1>1, <1>3, WentTo DEF Inside
  <2>4. Typed' BY <1>1, <1>3, <2>1, <2>2, <2>3 DEF Typed
  <2>5. Honest(call[c])' BY <1>1, <2>3 DEF CallSound, Honest
  <2>6. call'[c].query \in Queries BY <1>1, <2>3 DEF CallSound
  <2>7. CallSound(call[c])' BY <2>1, <2>2, <2>3, <2>5, <2>6 DEF CallSound, AsExpected
  <2>8. holder' = IF call'[c].at \in Inside THEN c ELSE None BY <1>1, <1>3, <2>3 DEF Inside
  <2> QED BY <1>1, <1>3, <2>2, <2>3, <2>4, <2>7, <2>8, RouterAssumption, Framed
<1> QED BY <1>2, <1>3 DEF Start

LEMMA SendSound ==
  ASSUME RouterInv, NEW c \in Callers, Send(c)
  PROVE  RouterInv'
<1> DEFINE x == worker[process]
           msg == [tools |-> call[c].tools, query |-> IF call[c].at = "tell" THEN 0 ELSE call[c].query]
           p == IF call[c].at = "tell" THEN "hear" ELSE "answer"
<1>1. /\ Typed /\ holder = c /\ CallSound(call[c]) /\ call[c].at \in {"tell", "ask"}
      /\ asked' = asked /\ started' = started
      /\ process \in Workers /\ process # 0
      /\ call[c] \in CallType /\ worker \in [Workers -> WorkerType]
  BY InsideIs DEF Send, Inside
<1>2. CASE Fails(c, Raised)
  BY <1>1, <1>2, FailsSound DEF Typed
<1>3. CASE /\ x.at # "gone"
           /\ worker' = [worker EXCEPT ![process].in = Append(@, msg)]
           /\ GoesTo(c, p)
           /\ UNCHANGED <<holder, process, catalog>>
  <2> DEFINE y == [x EXCEPT !.in = Append(x.in, msg)]
  <2>1. x \in WorkerType /\ x.in \in Seq(Messages) BY <1>1 DEF WorkerType
  <2>2. call[c].query \in Queries /\ call[c].tools \in SUBSET Tools
    BY <1>1 DEF CallSound, CallType
  <2>3. msg \in Messages BY <2>2 DEF Messages
  <2>4. /\ msg.tools = call[c].tools
        /\ call[c].at = "tell" => msg = [tools |-> call[c].tools, query |-> 0]
        /\ call[c].at = "ask" => msg = [tools |-> call[c].tools, query |-> call[c].query]
    OBVIOUS
  <2>5. worker' = [worker EXCEPT ![process] = y] BY <1>3
  <2> HIDE DEF msg
  <2>6. Append(x.in, msg) \in Seq(Messages) BY <2>1, <2>3
  <2>7. /\ y \in WorkerType /\ y.at = x.at /\ y.tools = x.tools /\ y.heard = x.heard
        /\ y.out = x.out /\ y.in = Append(x.in, msg) /\ y.misled = x.misled
    BY <2>1, <2>6 DEF WorkerType
  <2> HIDE DEF y, x
  <2>8. /\ worker' \in [Workers -> WorkerType] /\ worker'[process] = y
        /\ \A w \in Workers : w # process => worker'[w] = worker[w]
    BY <1>1, <2>5, <2>7
  <2>9. p \in Inside BY DEF Inside
  <2>10. (call[c].at = "tell" => p = "hear") /\ (call[c].at = "ask" => p = "answer") OBVIOUS
  <2> HIDE DEF p
  <2>11. /\ call' \in [Callers -> CallType]
         /\ \A e \in Callers \ {c} : call'[e] = call[e]
         /\ call'[c].at = p /\ call'[c].answer = call[c].answer
         /\ call'[c].query = call[c].query /\ call'[c].tools = call[c].tools
    BY <1>1, <1>3, <2>9, WentTo
  <2>12. Typed' BY <1>1, <1>3, <2>8, <2>11 DEF Typed
  <2>13. Honest(call[c])' BY <1>1, <2>11 DEF CallSound, Honest
  <2>14. ASSUME call[c].at = "tell" PROVE CallSound(call[c])'
    <3>1. Fresh(x) BY <1>1, <2>14 DEF CallSound, AsExpected, x
    <3>2. x.at = "init" /\ x.in = <<>> /\ Silent(x.out) BY <1>3, <3>1 DEF Fresh, x
    <3>3. Append(x.in, msg) = <<msg>> BY <3>2
    <3>4. y.in = <<[tools |-> call[c].tools, query |-> 0]>> BY <2>4, <2>7, <2>14, <3>3
    <3>5. Starting(y, call[c].tools)
      BY <2>7, <3>2, <3>4 DEF Starting, Silent, Single, Solid
    <3>6. Starting(worker'[process'], call'[c].tools) BY <1>3, <2>8, <2>11, <3>5
    <3>7. call'[c].at = "hear" BY <2>10, <2>11, <2>14
    <3> QED BY <1>1, <1>3, <2>2, <2>11, <2>13, <3>6, <3>7 DEF CallSound, AsExpected
  <2>15. ASSUME call[c].at = "ask" PROVE CallSound(call[c])'
    <3>1. Waiting(x, call[c].tools) /\ catalog = call[c].tools
      BY <1>1, <2>15 DEF CallSound, AsExpected, x
    <3>2. /\ x.at \in {"idle", "busy"} /\ x.tools = call[c].tools
          /\ ~x.misled => x.at = "idle"
          /\ \A i \in DOMAIN x.in : x.in[i].query \in Queries
      BY <1>3, <3>1 DEF Waiting, Kept, Clean, x
    <3>3. Answering(y, call[c].query, call[c].tools)
      <4>1. \A i \in DOMAIN y.in : y.in[i].query \in Queries
        BY <2>1, <2>2, <2>3, <2>4, <2>7, <2>15, <3>2
      <4>2. Kept(y, call[c].tools) BY <2>7, <3>1, <4>1 DEF Waiting, Kept
      <4>3. ASSUME ~x.misled PROVE OneAnswer(y, call[c].query, call[c].tools)
        <5>1. x.at = "idle" /\ x.in = <<>> /\ Silent(x.out)
          BY <3>1, <3>2, <4>3 DEF Waiting, Clean
        <5>2. Append(x.in, msg) = <<msg>> BY <5>1
        <5>3. y.in = <<[tools |-> call[c].tools, query |-> call[c].query]>>
          BY <2>4, <2>7, <2>15, <5>2
        <5> QED BY <2>7, <3>2, <5>1, <5>3 DEF OneAnswer, Silent, Single, Solid
      <4> QED BY <2>7, <4>2, <4>3 DEF Answering
    <3>4. Answering(worker'[process'], call'[c].query, call'[c].tools) BY <1>3, <2>8, <2>11, <3>3
    <3>5. call'[c].at = "answer" BY <2>10, <2>11, <2>15
    <3>6. catalog' = call'[c].tools BY <1>3, <2>11, <3>1
    <3> QED BY <1>1, <1>3, <2>2, <2>11, <2>13, <3>4, <3>5, <3>6 DEF CallSound, AsExpected
  <2>16. \A w \in Workers : w # process' => worker'[w].at \in {"unborn", "gone"}
    BY <1>3, <2>8 DEF RouterInv
  <2>17. CallSound(call[c])' BY <1>1, <2>14, <2>15
  <2>18. holder' = IF call'[c].at \in Inside THEN c ELSE None BY <1>1, <1>3, <2>9, <2>11
  <2> QED BY <1>1, <1>3, <2>11, <2>12, <2>16, <2>17, <2>18, RouterAssumption, Framed
<1> QED BY <1>2, <1>3 DEF Send

\* Reading a line leaves the worker as it is, but for the line and what it did.
LEMMA Read ==
  ASSUME Typed, process \in Workers, worker[process].out # <<>>, NEW b \in BOOLEAN,
         worker' = [worker EXCEPT ![process].out = Tail(@), ![process].misled = @ \/ b]
  PROVE  LET x == worker[process]
             y == worker'[process] IN
         /\ worker' \in [Workers -> WorkerType]
         /\ \A w \in Workers : w # process => worker'[w] = worker[w]
         /\ y.at = x.at /\ y.tools = x.tools /\ y.heard = x.heard /\ y.in = x.in /\ y.out = Tail(x.out)
         /\ y.misled <=> x.misled \/ b
<1> DEFINE x == worker[process]
           u == [x EXCEPT !.out = Tail(x.out)]
           y == [u EXCEPT !.misled = x.misled \/ b]
<1>1. x \in WorkerType /\ x.out \in Seq(Lines) /\ worker \in [Workers -> WorkerType]
  BY DEF WorkerType, Typed
<1>2. Tail(x.out) \in Seq(Lines) BY <1>1, ShorterPipe
<1>3. /\ u \in WorkerType /\ u.at = x.at /\ u.tools = x.tools /\ u.heard = x.heard
      /\ u.in = x.in /\ u.out = Tail(x.out) /\ u.misled = x.misled
  BY <1>1, <1>2 DEF WorkerType
<1>4. worker' = [worker EXCEPT ![process] = y] BY <1>1, <1>3
<1> HIDE DEF u
<1>5. (x.misled \/ b) \in BOOLEAN OBVIOUS
<1>6. /\ y \in WorkerType /\ y.at = x.at /\ y.tools = x.tools /\ y.heard = x.heard
      /\ y.in = x.in /\ y.out = Tail(x.out) /\ y.misled = (x.misled \/ b)
  BY <1>3, <1>5 DEF WorkerType
<1> HIDE DEF y, x
<1> QED BY <1>1, <1>4, <1>6 DEF x

LEMMA HearSound ==
  ASSUME RouterInv, NEW c \in Callers, Hear(c)
  PROVE  RouterInv'
<1> DEFINE x == worker[process]
           y == worker'[process]
           line == Head(x.out)
           b == Misleads(c, line)
           read == [worker EXCEPT ![process].out = Tail(@), ![process].misled = @ \/ b]
<1>1. /\ Typed /\ holder = c /\ CallSound(call[c]) /\ call[c].at \in {"hear", "answer"}
      /\ asked' = asked /\ started' = started /\ x.out # <<>>
      /\ process \in Workers /\ process # 0
      /\ call[c] \in CallType /\ worker \in [Workers -> WorkerType] /\ x \in WorkerType
  BY InsideIs DEF Hear, Inside
<1>2. /\ line \in Lines /\ line = x.out[1] /\ 1 \in DOMAIN x.out
      /\ Single(x.out) /\ Solid(line) => Silent(Tail(x.out))
  BY <1>1, ShorterPipe DEF WorkerType
<1>3. call[c].query \in Queries /\ call[c].tools \in SUBSET Tools BY <1>1 DEF CallSound, CallType
<1>4. b \in BOOLEAN /\ (b <=> call[c].at = "answer" /\ line.kind = "object") BY DEF Misleads
<1>5. CASE Fails(c, Abstained)
  BY <1>1, <1>5, FailsSound DEF Typed
<1>6. CASE /\ call[c].at = "hear" /\ line.kind = "ready"
           /\ catalog' = call[c].tools /\ worker' = read
           /\ GoesTo(c, "ask")
           /\ UNCHANGED <<holder, process>>
  <2>1. /\ worker' \in [Workers -> WorkerType]
        /\ \A w \in Workers : w # process => worker'[w] = worker[w]
        /\ y.at = x.at /\ y.tools = x.tools /\ y.in = x.in /\ y.out = Tail(x.out)
    BY <1>1, <1>6, <1>4, Read
  <2>2. Starting(x, call[c].tools) BY <1>1, <1>6 DEF CallSound, AsExpected
  <2>3. Solid(line) /\ ~Silent(x.out) BY <1>2, <1>6 DEF Solid, Silent
  <2>4. Silent(Tail(x.out)) BY <1>2, <2>2, <2>3 DEF Starting
  <2> HIDE DEF y, x, line
  <2>5. Waiting(y, call[c].tools)
    <3>1. Clean(y, call[c].tools) BY <2>1, <2>2, <2>3, <2>4 DEF Starting, Clean
    <3> QED BY <3>1 DEF Clean, Waiting, Kept, Silent, Solid
  <2>6. /\ call' \in [Callers -> CallType]
        /\ \A e \in Callers \ {c} : call'[e] = call[e]
        /\ call'[c].at = "ask" /\ call'[c].answer = call[c].answer
        /\ call'[c].query = call[c].query /\ call'[c].tools = call[c].tools
    BY <1>1, <1>6, WentTo DEF Inside
  <2>7. Typed' BY <1>1, <1>3, <1>6, <2>1, <2>6 DEF Typed
  <2>8. Honest(call[c])' BY <1>1, <2>6 DEF CallSound, Honest
  <2>9. Waiting(worker'[process'], call'[c].tools) /\ catalog' = call'[c].tools /\ process' # 0
    BY <1>1, <1>6, <2>5, <2>6 DEF y
  <2>10. CallSound(call[c])' BY <1>3, <2>6, <2>8, <2>9 DEF CallSound, AsExpected
  <2>11. \A w \in Workers : w # process' => worker'[w].at \in {"unborn", "gone"}
    BY <1>6, <2>1 DEF RouterInv
  <2>12. holder' = IF call'[c].at \in Inside THEN c ELSE None BY <1>1, <1>6, <2>6 DEF Inside
  <2> QED BY <1>1, <1>6, <2>6, <2>7, <2>10, <2>11, <2>12, RouterAssumption, Framed
<1>7. CASE /\ call[c].at = "answer" /\ line.kind \in {"ready", "response", "object"}
           /\ worker' = read
           /\ Returns(c, Parsed(line, call[c].tools, x.misled))
           /\ holder' = None
           /\ UNCHANGED <<process, catalog>>
  <2> DEFINE answer == Parsed(line, call[c].tools, x.misled)
  <2>1. /\ worker' \in [Workers -> WorkerType]
        /\ \A w \in Workers : w # process => worker'[w] = worker[w]
        /\ y.at = x.at /\ y.tools = x.tools /\ y.in = x.in /\ y.out = Tail(x.out)
        /\ y.misled <=> x.misled \/ line.kind = "object"
    BY <1>1, <1>7, <1>4, Read
  <2>2. Answering(x, call[c].query, call[c].tools) /\ catalog = call[c].tools
    BY <1>1, <1>7 DEF CallSound, AsExpected
  <2>3. /\ Kept(x, call[c].tools)
        /\ line.kind # "ready" /\ (line.kind = "response" => line.given = call[c].tools)
    BY <1>2, <2>2 DEF Answering, Kept
  <2>4. line.kind = "response" /\ ~x.misled => line.about = {call[c].query}
    BY <1>2, <2>2 DEF Answering, OneAnswer
  <2>5. answer \in Answers /\ (answer.kind = "proposal" =>
          /\ answer.given = call[c].tools /\ answer.tool \in call[c].tools
          /\ ~answer.misled => answer.about = {call[c].query})
    <3>1. CASE line.kind = "response" /\ line.tool \in call[c].tools
      <4>1. answer = [kind |-> "proposal", tool |-> line.tool, about |-> line.about, given |-> line.given,
                      misled |-> x.misled]
        BY <3>1 DEF Parsed, Proposal
      <4>2. /\ line.tool \in Tools /\ line.about \in SUBSET Queries /\ line.given \in SUBSET Tools
            /\ x.misled \in BOOLEAN
        BY <1>1, <1>2, <1>3, <3>1 DEF Lines, WorkerType
      <4> HIDE DEF answer, line
      <4> QED BY <2>3, <2>4, <3>1, <4>1, <4>2 DEF Answers
    <3>2. CASE ~(line.kind = "response" /\ line.tool \in call[c].tools)
      BY <3>2 DEF Parsed, Abstained, Answers
    <3> QED BY <3>1, <3>2
  <2>6. ASSUME ~y.misled PROVE Clean(y, catalog)
    <3>1. line.kind = "response" /\ ~x.misled BY <1>7, <2>1, <2>3, <2>6
    <3>2. OneAnswer(x, call[c].query, call[c].tools) BY <2>2, <3>1 DEF Answering
    <3>3. Solid(line) /\ ~Silent(x.out) BY <1>2, <3>1 DEF Solid, Silent
    <3>4. Silent(Tail(x.out)) BY <1>2, <3>2, <3>3 DEF OneAnswer
    <3> HIDE DEF y, x, line
    <3> QED BY <2>1, <2>2, <3>2, <3>3, <3>4 DEF OneAnswer, Clean
  <2>7. Kept(y, catalog)
    <3>1. \A i \in DOMAIN Tail(x.out) : i + 1 \in DOMAIN x.out /\ Tail(x.out)[i] = x.out[i + 1]
      <4>1. x.out \in Seq(Lines) BY <1>1 DEF WorkerType
      <4> HIDE DEF x
      <4> QED BY <1>1, <4>1
    <3> HIDE DEF y, x, line
    <3> QED BY <2>1, <2>2, <2>3, <3>1 DEF Kept
  <2> HIDE DEF y, x, line, answer, b, read
  <2>8. Waiting(y, catalog) BY <2>6, <2>7 DEF Waiting
  <2>9. /\ call' \in [Callers -> CallType]
        /\ \A e \in Callers \ {c} : call'[e] = call[e]
        /\ call'[c].at = "idle" /\ call'[c].answer = answer
        /\ call'[c].query = call[c].query /\ call'[c].tools = call[c].tools
    BY <1>1, <1>7, <2>5, Returned DEF answer, line, x
  <2>10. Typed' BY <1>1, <1>7, <2>1, <2>9 DEF Typed
  <2>11. Honest(call[c])' BY <2>5, <2>9 DEF Honest
  <2>12. CallSound(call[c])' BY <2>9, <2>11 DEF CallSound, AsExpected, Inside
  <2>13. Waiting(worker'[process'], catalog') BY <1>7, <2>8 DEF y
  <2>14. \A w \in Workers : w # process' => worker'[w].at \in {"unborn", "gone"}
    BY <1>7, <2>1 DEF RouterInv
  <2>15. holder' = IF call'[c].at \in Inside THEN c ELSE None BY <1>7, <2>9 DEF Inside
  <2> QED BY <1>1, <2>9, <2>10, <2>12, <2>13, <2>14, <2>15, RouterAssumption, Framed
<1> QED BY <1>5, <1>6, <1>7 DEF Hear

LEMMA TimeoutSound ==
  ASSUME RouterInv, NEW c \in Callers, Timeout(c)
  PROVE  RouterInv'
<1>1. Typed /\ holder = c /\ asked' = asked /\ started' = started
  BY InsideIs DEF Timeout, Inside
<1>2. Fails(c, Abstained) BY DEF Timeout
<1> QED BY <1>1, <1>2, FailsSound DEF Typed

LEMMA CloseSound ==
  ASSUME RouterInv, Close
  PROVE  RouterInv'
<1>1. /\ Typed /\ holder = None /\ process' = 0 /\ catalog' = {} /\ worker' = Stopped
      /\ UNCHANGED <<holder, call, asked, started>>
  BY DEF RouterInv, Close
<1>2. /\ worker' \in [Workers -> WorkerType]
      /\ \A w \in Workers : worker'[w].at \in {"unborn", "gone"}
  BY <1>1, AllStopped
<1>3. Typed' BY <1>1, <1>2 DEF Typed
<1>4. ASSUME NEW e \in Callers PROVE CallSound(call[e])'
  <2>1. call'[e] = call[e] /\ call[e].at \notin Inside BY <1>1, RouterAssumption DEF RouterInv
  <2>2. CallSound(call[e]) BY DEF RouterInv
  <2> QED BY <2>1, <2>2 DEF CallSound, AsExpected, Honest, Inside
<1> QED BY <1>1, <1>2, <1>3, <1>4 DEF RouterInv

(***************************************************************************)
(* The theorems.                                                           *)
(***************************************************************************)

LEMMA InitRouter == Init => RouterInv
<1> SUFFICES ASSUME Init PROVE RouterInv OBVIOUS
<1>1. NotStarted \in WorkerType /\ NotStarted.at = "unborn"
  BY Blank DEF NotStarted
<1>2. [at |-> "idle", query |-> 0, tools |-> {}, answer |-> [kind |-> "none"]] \in CallType
  BY DEF CallType, Answers
<1>3. Typed BY <1>1, <1>2 DEF Init, Typed
<1>4. \A c \in Callers : call[c].at = "idle" /\ call[c].answer.kind = "none" BY DEF Init
<1>5. \A c \in Callers : CallSound(call[c])
  BY <1>4 DEF CallSound, AsExpected, Honest, Inside
<1>6. \A w \in Workers : worker[w].at = "unborn" BY <1>1 DEF Init
<1>7. holder = None /\ process = 0 BY DEF Init
<1> QED BY <1>3, <1>4, <1>5, <1>6, <1>7, RouterAssumption DEF RouterInv, Inside

LEMMA StepRouter == RouterInv /\ [Next]_vars => RouterInv'
<1> SUFFICES ASSUME RouterInv, [Next]_vars PROVE RouterInv' OBVIOUS
<1>1. CASE UNCHANGED vars
  BY <1>1 DEF vars, RouterInv, Typed, CallSound, AsExpected, Honest
<1>2. ASSUME NEW c \in Callers, Route(c) \/ Step(c) PROVE RouterInv'
  BY <1>2, RouteSound, AcquireSound, StartSound, SendSound, HearSound, TimeoutSound DEF Step
<1>3. CASE Close BY <1>3, CloseSound
<1>4. ASSUME NEW w \in Workers, Works(w), UNCHANGED <<holder, process, catalog, call, asked, started>>
      PROVE  RouterInv'
  BY <1>4, StepOfWorker
<1> QED BY <1>1, <1>2, <1>3, <1>4 DEF Next

\* What is in the pipes is what the call inside the lock may read there, whatever
\* timed out, died or was printed before: answers for its catalog, and for its query
\* alone while no object printed by the engine was taken for an answer (route,
\* _receive and the worker's loop).
THEOREM RouterStaysSound == Spec => []RouterInv
BY InitRouter, StepRouter, PTL DEF Spec

\* Every variable of the router and of its workers keeps its type.
THEOREM RouterTypeCorrect == Spec => []TypeOK
<1>1. RouterInv => TypeOK
  BY DEF RouterInv, Typed, TypeOK, CallType, WorkerType, Points, Inside
<1> QED BY <1>1, RouterStaysSound, PTL

\* A proposal was computed for the tools of the call that gets it, and names one of
\* them; it is about that call's query, though no line carries an identifier, as long
\* as no object printed by the engine was taken for an answer of this worker
\* (parse_response, _receive, route).
THEOREM AnswersAlwaysFit == Spec => []AnswersTheQuery
<1>1. RouterInv => AnswersTheQuery
  BY DEF RouterInv, CallSound, Honest, AnswersTheQuery
<1> QED BY <1>1, RouterStaysSound, PTL

\* A worker that lives is the one the router knows: every failure stops the process
\* it is about, and a new catalog the one before (_stop, _start).
THEOREM NoWorkerLeftBehind == Spec => []OneWorker
<1>1. RouterInv => OneWorker
  BY DEF RouterInv, OneWorker, Alive
<1> QED BY <1>1, RouterStaysSound, PTL
=============================================================================
