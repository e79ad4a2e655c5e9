----------------------------- MODULE CgiProofs -----------------------------
(***************************************************************************)
(* Proofs about scripts, for any number of sessions, processes, requests   *)
(* and outputs: the server has one child at a time, nothing it does kills  *)
(* a script that runs, a script's standard input holds the body, and what  *)
(* it means to answer reaches the client.                                  *)
(*                                                                         *)
(* The first part is about the processes (CgiInv), the second about what   *)
(* getCgiBody() and makeCgiResponse() find in an output that was laid out  *)
(* line by line, the third puts them together (Answering).                 *)
(***************************************************************************)
EXTENDS Cgi, Recursion, SequenceTheorems

\* Handlers whose response is not made yet.
LiveHandlers ==
  [state : {"ready", "running"}, req : Requests, pid : Pids \union {None},
   stdin : [size : Nat, from : Nat], out : Outputs \union {NoOutput}]

HandlerKnown(h) == h = NoHandler \/ h \in LiveHandlers \/ h.state = "answered"

Processes ==
  [kind : ProcKinds, of : Sessions \union {None}, exited : BOOLEAN, holds : SUBSET Sessions]

Shapes ==
  /\ DOMAIN handler = Sessions
  /\ \A s \in Sessions : HandlerKnown(handler[s]) /\ (s \in open \/ handler[s] = NoHandler)
  /\ proc \in [Pids -> Processes]
  /\ open \subseteq Sessions
  /\ at \in open \union {None}

\* The handler the thread is in has a process, and no other handler is running.
Waiting ==
  /\ \A s \in Sessions : handler[s].state = "running" => at = s
  /\ at # None =>
       /\ handler[at] \in LiveHandlers /\ handler[at].state = "running"
       /\ handler[at].pid \in Pids
       /\ proc[handler[at].pid].kind \in Ours /\ proc[handler[at].pid].of = at

\* The body's file is as runCgi() left it.
InputKept ==
  \A s \in Sessions :
    handler[s].state = "running" /\ handler[s].req.method = "POST" =>
      handler[s].stdin \in Stored(handler[s].req)

CgiInv == Shapes /\ Waiting /\ OneScript /\ InputKept

\* Init: there is no handler and no process.
LEMMA InitCgiInv == Init => CgiInv
BY NamesAssumption
DEF Init, CgiInv, Shapes, HandlerKnown, Processes, Process, NoProcess, ProcKinds, Ours,
    Waiting, OneScript, InputKept, NoHandler

\* The input that runCgi() stores has a size and stands at its start.
LEMMA StoredShape ==
  ASSUME NEW r \in Requests, NEW input \in Stored(r)
  PROVE  input \in [size : Nat, from : Nat] /\ input.from = 0
BY RequestsAssumption, SMTT(30) DEF Stored, BodySize, Rewound

\* While the thread is in the loop the server has no process.
LEMMA NoneInLoop ==
  ASSUME CgiInv, InLoop
  PROVE  /\ \A p \in Pids : proc[p].kind \notin Ours
         /\ \A s \in Sessions : handler[s].state # "running"
BY NamesAssumption DEF CgiInv, Shapes, Waiting, OneScript, InLoop

\* Accept
LEMMA AcceptInv ==
  ASSUME CgiInv, NEW s \in Sessions, Accept(s)
  PROVE  CgiInv'
BY NoneInLoop, NamesAssumption
DEF Accept, InLoop, CgiInv, Shapes, HandlerKnown, Waiting, OneScript, InputKept

\* Steps of the loop that change handlers and leave the processes alone.
LEMMA HandleRequestInv ==
  ASSUME CgiInv, NEW s \in Sessions, NEW r \in Requests, HandleRequest(s, r)
  PROVE  CgiInv'
<1>1. NewHandler(r) \in LiveHandlers /\ NewHandler(r).state = "ready"
  BY DEF NewHandler, LiveHandlers, NoInput
<1>2. /\ handler' = [handler EXCEPT ![s] = NewHandler(r)]
      /\ UNCHANGED <<open, at, proc>> /\ s \in open
  BY DEF HandleRequest
<1>3. \A t \in Sessions : t # s => handler'[t] = handler[t]
  BY <1>2 DEF CgiInv, Shapes
<1>4. handler'[s] = NewHandler(r) /\ DOMAIN handler' = Sessions
  BY <1>2 DEF CgiInv, Shapes
<1>5. Shapes'
  BY <1>1, <1>2, <1>3, <1>4 DEF CgiInv, Shapes, HandlerKnown
<1> QED
  BY <1>1, <1>2, <1>3, <1>4, <1>5, NoneInLoop, NamesAssumption
  DEF HandleRequest, InLoop, CgiInv, Waiting, OneScript, InputKept

\* A step of the loop that leaves s with an answer.
LEMMA AnsweredInLoop ==
  ASSUME CgiInv, InLoop, NEW s \in open, NEW h, h.state = "answered",
         handler' = [handler EXCEPT ![s] = h], UNCHANGED <<open, at, proc>>
  PROVE  CgiInv'
<1>1. \A t \in Sessions : t # s => handler'[t] = handler[t]
  BY DEF CgiInv, Shapes
<1>2. handler'[s] = h /\ DOMAIN handler' = Sessions
  BY DEF CgiInv, Shapes
<1>3. Shapes'
  BY <1>1, <1>2 DEF CgiInv, Shapes, HandlerKnown
<1> QED
  BY <1>1, <1>2, <1>3, NoneInLoop, NamesAssumption
  DEF InLoop, CgiInv, Waiting, OneScript, InputKept

LEMMA RunCgiFailsInv ==
  ASSUME CgiInv, NEW s \in Sessions, RunCgiFails(s)
  PROVE  CgiInv'
<1>1. InLoop /\ s \in open
  BY DEF RunCgiFails, CgiInv, Shapes, NoHandler
<1> QED
  BY <1>1, AnsweredInLoop, ZenonT(30) DEF RunCgiFails, Answered

\* runCgi(): a fork that fails, or one that leaves the thread waiting.
LEMMA RunCgiInv ==
  ASSUME CgiInv, NEW s \in Sessions, RunCgi(s)
  PROVE  CgiInv'
<1> DEFINE r == handler[s].req
<1>1. InLoop /\ s \in open /\ s # None /\ handler[s] \in LiveHandlers /\ r \in Requests
  <2>1. InLoop /\ handler[s].state = "ready" /\ HandlerKnown(handler[s])
    BY DEF RunCgi, CgiInv, Shapes
  <2>2. handler[s] # NoHandler /\ handler[s] \in LiveHandlers
    BY <2>1 DEF HandlerKnown, NoHandler
  <2>3. r \in Requests
    BY <2>2 DEF LiveHandlers
  <2> QED
    BY <2>1, <2>2, <2>3, NamesAssumption DEF CgiInv, Shapes
<1>2. PICK input \in IF r.method = "POST" THEN Stored(r) ELSE {NoInput} :
        \/ /\ handler' = [handler EXCEPT ![s] = Answered(NoPid, Failure(500))]
           /\ UNCHANGED <<at, proc>>
        \/ \E p \in FreePids :
             /\ handler' = [handler EXCEPT ![s].state = "running", ![s].pid = p,
                                           ![s].stdin = input]
             /\ proc' = [proc EXCEPT ![p] = Process("child", s, open)]
             /\ at' = Waits(s)
  BY DEF RunCgi
<1>3. UNCHANGED open
  BY DEF RunCgi
<1>4. CASE /\ handler' = [handler EXCEPT ![s] = Answered(NoPid, Failure(500))]
           /\ UNCHANGED <<at, proc>>
  BY <1>1, <1>3, <1>4, AnsweredInLoop, ZenonT(30) DEF Answered
<1>5. CASE \E p \in FreePids :
             /\ handler' = [handler EXCEPT ![s].state = "running", ![s].pid = p,
                                           ![s].stdin = input]
             /\ proc' = [proc EXCEPT ![p] = Process("child", s, open)]
             /\ at' = Waits(s)
  <2>1. PICK p \in FreePids :
             /\ handler' = [handler EXCEPT ![s].state = "running", ![s].pid = p,
                                           ![s].stdin = input]
             /\ proc' = [proc EXCEPT ![p] = Process("child", s, open)]
             /\ at' = Waits(s)
    BY <1>5
  <2>2. p \in Pids /\ at' = s /\ s \in open
    BY <1>1, <2>1 DEF FreePids, Waits
  <2>3. input \in [size : Nat, from : Nat]
    <3>1. CASE r.method = "POST"
      BY <1>1, <1>2, <3>1, StoredShape
    <3>2. CASE r.method # "POST"
      <4>1. input = NoInput
        BY <1>2, <3>2
      <4> QED
        BY <4>1 DEF NoInput
    <3> QED
      BY <3>1, <3>2
  <2>4. /\ DOMAIN handler' = Sessions
        /\ handler'[s] = [handler[s] EXCEPT !.state = "running", !.pid = p, !.stdin = input]
        /\ \A t \in Sessions : t # s => handler'[t] = handler[t]
    BY <2>1 DEF CgiInv, Shapes
  <2>5. /\ handler'[s] \in LiveHandlers /\ handler'[s].state = "running"
        /\ handler'[s].pid = p /\ handler'[s].stdin = input /\ handler'[s].req = r
    BY <1>1, <2>2, <2>3, <2>4 DEF LiveHandlers
  <2>6. /\ proc' \in [Pids -> Processes] /\ proc'[p] = Process("child", s, open)
        /\ \A q \in Pids : q # p => proc'[q] = proc[q]
    BY <2>1, <2>2 DEF CgiInv, Shapes, Processes, Process, ProcKinds
  <2>7. Shapes'
    BY <1>3, <2>2, <2>4, <2>5, <2>6 DEF CgiInv, Shapes, HandlerKnown
  <2>8. Waiting'
    BY <1>1, <2>2, <2>4, <2>5, <2>6, NoneInLoop DEF Waiting, Process, Ours
  <2>9. OneScript'
    BY <1>1, <1>3, <2>2, <2>5, <2>6, NoneInLoop DEF OneScript, Process
  <2>10. InputKept'
    <3>1. \A t \in Sessions : t # s => handler'[t].state # "running"
      BY <1>1, <2>4, NoneInLoop
    <3>2. r.method = "POST" => input \in Stored(r)
      BY <1>2
    <3> QED
      BY <2>5, <3>1, <3>2 DEF InputKept, Stored, BodySize, Rewound
  <2> QED
    BY <2>7, <2>8, <2>9, <2>10 DEF CgiInv
<1> QED
  BY <1>2, <1>4, <1>5

\* The thread waits for the script that p stands for.
LEMMA WaitsFor ==
  ASSUME CgiInv, NEW p \in Pids, proc[p].kind \in Ours
  PROVE  /\ at \in Sessions /\ at = proc[p].of /\ at # None
         /\ handler[at] \in LiveHandlers /\ handler[at].pid = p
BY DEF CgiInv, Shapes, Waiting, OneScript

\* forkCgi() in the child: the same process, still the one that is waited for.
LEMMA ForkCgiInv ==
  ASSUME CgiInv, NEW p \in Pids, ForkCgi(p)
  PROVE  CgiInv'
<1>1. PICK kind \in {"script", "zombie"} : proc' = [proc EXCEPT ![p].kind = kind]
  BY DEF ForkCgi
<1>2. proc[p].kind \in Ours /\ UNCHANGED <<handler, open, at>>
  BY DEF ForkCgi, Ours
<1>3. /\ proc'[p] = [proc[p] EXCEPT !.kind = kind]
      /\ \A q \in Pids : q # p => proc'[q] = proc[q]
      /\ proc' \in [Pids -> Processes]
  BY <1>1 DEF CgiInv, Shapes, Processes, ProcKinds
<1>4. proc'[p].kind \in Ours /\ proc'[p].of = proc[p].of /\ proc'[p].holds = proc[p].holds
  BY <1>3 DEF CgiInv, Shapes, Processes, Ours
<1> QED
  BY <1>2, <1>3, <1>4, WaitsFor, ZenonT(60)
     DEF CgiInv, Shapes, Waiting, OneScript, InputKept

\* The script ends: its output is where the waiting handler looks for it.
LEMMA ScriptEndsInv ==
  ASSUME CgiInv, NEW p \in Pids, ScriptEnds(p)
  PROVE  CgiInv'
<1>1. proc[p].kind \in Ours /\ UNCHANGED <<open, at>>
  BY DEF ScriptEnds, Ours
<1>2. PICK w \in Outputs, exited \in BOOLEAN :
        /\ handler' = [handler EXCEPT ![at].out = w]
        /\ proc' = [proc EXCEPT ![p].kind = "zombie", ![p].exited = exited]
  BY <1>1, WaitsFor DEF ScriptEnds
<1>3. at \in Sessions /\ handler[at] \in LiveHandlers /\ handler[at].pid = p /\ at = proc[p].of
  BY <1>1, WaitsFor
<1>4. /\ proc'[p] = [proc[p] EXCEPT !.kind = "zombie", !.exited = exited]
      /\ \A q \in Pids : q # p => proc'[q] = proc[q]
      /\ proc' \in [Pids -> Processes]
  <2> DEFINE q == [proc[p] EXCEPT !.kind = "zombie", !.exited = exited]
  <2>1. proc \in [Pids -> Processes] /\ proc[p] \in Processes
    BY DEF CgiInv, Shapes
  <2>2. q \in Processes
    BY <1>2, <2>1 DEF Processes, ProcKinds
  <2>3. proc' = [proc EXCEPT ![p] = q]
    BY <1>2, <2>1
  <2> HIDE DEF q
  <2>4. proc'[p] = q /\ proc' \in [Pids -> Processes]
    BY <2>1, <2>2, <2>3
  <2> QED
    BY <2>1, <2>3, <2>4 DEF q
<1>5. proc'[p].kind \in Ours /\ proc'[p].of = proc[p].of /\ proc'[p].holds = proc[p].holds
  BY <1>4 DEF CgiInv, Shapes, Processes, Ours
<1>6. /\ DOMAIN handler' = Sessions
      /\ handler'[at] = [handler[at] EXCEPT !.out = w]
      /\ \A t \in Sessions : t # at => handler'[t] = handler[t]
  BY <1>2, <1>3 DEF CgiInv, Shapes
<1>7. /\ handler'[at] \in LiveHandlers
      /\ handler'[at].state = handler[at].state /\ handler'[at].pid = p
      /\ handler'[at].stdin = handler[at].stdin /\ handler'[at].req = handler[at].req
  BY <1>3, <1>6 DEF LiveHandlers
<1>8. Shapes'
  BY <1>1, <1>3, <1>4, <1>6, <1>7, NamesAssumption DEF CgiInv, Shapes, HandlerKnown
<1>9. Waiting'
  BY <1>1, <1>3, <1>4, <1>5, <1>6, <1>7 DEF CgiInv, Waiting
<1>10. OneScript'
  BY <1>1, <1>3, <1>4, <1>5, <1>6, <1>7 DEF CgiInv, OneScript
<1>11. InputKept'
  <2>1. ASSUME NEW t \in Sessions, handler'[t].state = "running", handler'[t].req.method = "POST"
        PROVE  handler'[t].stdin \in Stored(handler'[t].req)
    <3>1. handler'[t].state = handler[t].state /\ handler'[t].stdin = handler[t].stdin
      BY <1>6, <1>7
    <3>2. handler'[t].req = handler[t].req
      BY <1>6, <1>7
    <3> QED
      BY <2>1, <3>1, <3>2 DEF CgiInv, InputKept
  <2> QED
    BY <2>1 DEF InputKept, Stored, BodySize, Rewound
<1> QED
  BY <1>8, <1>9, <1>10, <1>11 DEF CgiInv

\* parentCgi(): the process is reaped and the handler answered.
LEMMA ParentCgiInv ==
  ASSUME CgiInv, NEW s \in Sessions, ParentCgi(s)
  PROVE  CgiInv'
<1> DEFINE p == handler[s].pid
<1>1. /\ at = s /\ p \in Pids /\ s \in open /\ proc[p].kind \in Ours
      /\ at' = None /\ UNCHANGED open
      /\ proc' = [proc EXCEPT ![p] = NoProcess]
  BY NamesAssumption DEF ParentCgi, CgiInv, Shapes, Waiting
<1>2. PICK response : handler' = [handler EXCEPT ![s] = Answered(p, response)]
  BY ZenonT(30) DEF ParentCgi
<1>3. /\ proc'[p] = NoProcess /\ proc' \in [Pids -> Processes]
      /\ \A q \in Pids : q # p => proc'[q] = proc[q]
  BY <1>1 DEF CgiInv, Shapes, Processes, Process, NoProcess, ProcKinds
<1>4. \A q \in Pids : proc'[q].kind \notin Ours
  BY <1>1, <1>3 DEF CgiInv, OneScript, NoProcess, Process, Ours
<1>5. /\ DOMAIN handler' = Sessions /\ handler'[s].state = "answered"
      /\ \A t \in Sessions : t # s => handler'[t] = handler[t]
  BY <1>2 DEF CgiInv, Shapes, Answered
<1>6. Shapes'
  BY <1>1, <1>3, <1>5 DEF CgiInv, Shapes, HandlerKnown
<1>7. \A t \in Sessions : handler'[t].state # "running"
  BY <1>1, <1>5 DEF CgiInv, Waiting
<1> QED
  BY <1>1, <1>4, <1>6, <1>7 DEF CgiInv, Waiting, OneScript, InputKept

\* ~ACgiHandler() frees numbers, and changes no process of the server's,
\* because there is none.
LEMMA KilledSpares ==
  ASSUME CgiInv, InLoop, NEW pid
  PROVE  /\ Killed(pid) \in [Pids -> Processes]
         /\ \A p \in Pids : Killed(pid)[p].kind \notin Ours
BY NoneInLoop
DEF CgiInv, Shapes, Killed, NoProcess, Process, Processes, ProcKinds, Ours

\* The session is done with its request.
LEMMA OverInv ==
  ASSUME CgiInv, NEW s \in Sessions, NEW keeps \in BOOLEAN, Over(s, keeps)
  PROVE  CgiInv'
<1>1. /\ InLoop /\ UNCHANGED at
      /\ handler' = [handler EXCEPT ![s] = NoHandler]
      /\ proc' = proc \/ proc' = Killed(handler[s].pid)
      /\ open' = open \/ open' = open \ {s}
  BY DEF Over
<1>2. proc' \in [Pids -> Processes] /\ \A p \in Pids : proc'[p].kind \notin Ours
  BY <1>1, KilledSpares, NoneInLoop DEF CgiInv, Shapes
<1>3. /\ DOMAIN handler' = Sessions /\ handler'[s] = NoHandler
      /\ \A t \in Sessions : t # s => handler'[t] = handler[t]
  BY <1>1 DEF CgiInv, Shapes
<1>4. Shapes'
  BY <1>1, <1>2, <1>3 DEF InLoop, CgiInv, Shapes, HandlerKnown
<1>5. \A t \in Sessions : handler'[t].state # "running"
  BY <1>1, <1>3, NoneInLoop DEF NoHandler
<1> QED
  BY <1>1, <1>2, <1>4, <1>5 DEF InLoop, CgiInv, Waiting, OneScript, InputKept

\* Processes the server knows nothing of.
LEMMA ElsewhereInv ==
  ASSUME CgiInv, NEW p \in Pids, Elsewhere(p)
  PROVE  CgiInv'
<1>1. /\ UNCHANGED <<handler, open, at>> /\ proc[p].kind \notin Ours
      /\ \/ proc' = [proc EXCEPT ![p] = Process("stranger", None, {})]
         \/ proc' = [proc EXCEPT ![p] = NoProcess]
  BY DEF Elsewhere, Ours
<1>2. PICK new \in {Process("stranger", None, {}), NoProcess} : proc' = [proc EXCEPT ![p] = new]
  BY <1>1
<1>3. new \in Processes /\ new.kind \notin Ours
  <2>1. \A holds \in SUBSET Sessions :
          /\ Process("stranger", None, holds) \in Processes
          /\ Process("stranger", None, holds).kind \notin Ours
    BY DEF Processes, Process, ProcKinds, Ours
  <2>2. NoProcess \in Processes /\ NoProcess.kind \notin Ours
    BY DEF Processes, NoProcess, Process, ProcKinds, Ours
  <2> QED
    BY <1>2, <2>1, <2>2
<1>4. /\ proc' \in [Pids -> Processes] /\ proc'[p].kind \notin Ours
      /\ \A q \in Pids : q # p => proc'[q] = proc[q]
  BY <1>2, <1>3 DEF CgiInv, Shapes
<1> QED
  BY <1>1, <1>4 DEF CgiInv, Shapes, Waiting, OneScript, InputKept

LEMMA StepCgiInv ==
  ASSUME CgiInv, [Next]_vars
  PROVE  CgiInv'
<1>1. CASE \E s \in Sessions : Accept(s)
  BY <1>1, AcceptInv
<1>2. CASE \E s \in Sessions, r \in Requests : HandleRequest(s, r)
  BY <1>2, HandleRequestInv
<1>3. CASE \E s \in Sessions : RunCgiFails(s)
  BY <1>3, RunCgiFailsInv
<1>4. CASE \E s \in Sessions : RunCgi(s)
  BY <1>4, RunCgiInv
<1>5. CASE \E p \in Pids : ForkCgi(p)
  BY <1>5, ForkCgiInv
<1>6. CASE \E p \in Pids : ScriptEnds(p)
  BY <1>6, ScriptEndsInv
<1>7. CASE \E s \in Sessions : ParentCgi(s)
  BY <1>7, ParentCgiInv
<1>8. CASE \E s \in Sessions, keeps \in BOOLEAN : Over(s, keeps)
  BY <1>8, OverInv
<1>9. CASE \E p \in Pids : Elsewhere(p)
  BY <1>9, ElsewhereInv
<1>10. CASE UNCHANGED vars
  BY <1>10 DEF vars, CgiInv, Shapes, Waiting, OneScript, InputKept
<1> QED
  BY <1>1, <1>2, <1>3, <1>4, <1>5, <1>6, <1>7, <1>8, <1>9, <1>10 DEF Next

LEMMA CgiInvariant == Spec => []CgiInv
<1>1. Init => CgiInv
  BY InitCgiInv
<1>2. CgiInv /\ [Next]_vars => CgiInv'
  BY StepCgiInv
<1> QED
  BY <1>1, <1>2, PTL DEF Spec

-----------------------------------------------------------------------------
(* What a script writes.                                                   *)

\* The equation FlattenSeq chooses its function by, and that there is one.
FlattensTo(flatten, seqs) ==
  flatten = [i \in 1..Len(seqs) |-> IF i = 1 THEN seqs[i] ELSE flatten[i - 1] \o seqs[i]]

LEMMA FlattenExists ==
  ASSUME NEW X, NEW seqs \in Seq(Seq(X)), Len(seqs) > 0
  PROVE  \E flatten : FlattensTo(flatten, seqs)
<1> DEFINE S == 1..Len(seqs)
           V == Seq(X)
           size == [i \in S |-> i]
           next == [i \in S |-> IF i = 1 THEN 1 ELSE i - 1]
           step == [i \in S |-> [v \in V |-> v \o seqs[i]]]
<1>1. Len(seqs) \in Nat /\ seqs \in [S -> V]
  OBVIOUS
<1>2. size \in [S -> Nat] /\ next \in [S -> S] /\ {1} \in SUBSET S
  BY <1>1
<1>3. step \in [S -> [V -> V]]
  BY <1>1
<1>4. \A i \in S \ {1} : size[next[i]] < size[i]
  BY <1>1
<1>5. \A i \in S : /\ next[i] = IF i = 1 THEN 1 ELSE i - 1
                   /\ \A v \in V : step[i][v] = v \o seqs[i]
  OBVIOUS
<1> HIDE DEF size, next, step
<1>6. PICK g \in [S -> V] : \A i \in S : Recursive(g, i, {1}, seqs, next, step)
  <2> HIDE DEF S, V
  <2> QED
    BY <1>1, <1>2, <1>3, <1>4, RecursionExists
<1>7. ASSUME NEW i \in S
      PROVE  g[i] = IF i = 1 THEN seqs[i] ELSE g[i - 1] \o seqs[i]
  <2>1. CASE i = 1
    BY <1>6, <2>1 DEF Recursive
  <2>2. CASE i # 1
    <3>0. i - 1 \in S
      BY <1>1, <2>2
    <3>1. next[i] = i - 1 /\ i - 1 \in S /\ g[i - 1] \in V
      BY <1>5, <2>2, <3>0
    <3>2. g[i] = step[i][g[i - 1]]
      BY <1>6, <2>2, <3>1 DEF Recursive
    <3> QED
      BY <1>5, <2>2, <3>1, <3>2
  <2> QED
    BY <2>1, <2>2
<1>8. FlattensTo(g, seqs)
  BY <1>7 DEF FlattensTo
<1> QED
  BY <1>8

LEMMA FlattenEquation ==
  ASSUME NEW X, NEW seqs \in Seq(Seq(X)), Len(seqs) > 0
  PROVE  \E flatten : FlattensTo(flatten, seqs) /\ FlattenSeq(seqs) = flatten[Len(seqs)]
<1> DEFINE flatten[i \in 1..Len(seqs)] == IF i = 1 THEN seqs[i] ELSE flatten[i - 1] \o seqs[i]
<1>1. Len(seqs) # 0
  OBVIOUS
<1>2. FlattenSeq(seqs) = flatten[Len(seqs)]
  BY <1>1, Zenon DEF FlattenSeq
<1>3. flatten = [i \in 1..Len(seqs) |-> IF i = 1 THEN seqs[i] ELSE flatten[i - 1] \o seqs[i]]
  BY FlattenExists, Zenon DEF FlattensTo
<1> HIDE DEF flatten
<1>4. FlattensTo(flatten, seqs)
  BY <1>3, Zenon DEF FlattensTo
<1> QED
  BY <1>2, <1>4

\* Where line m of a header of lines of d symbols begins.
FieldAt(d, m) == IF d = 2 THEN 2 * m - 1 ELSE 3 * m - 2

LEMMA Places ==
  ASSUME NEW d \in {2, 3}
  PROVE  /\ FieldAt(d, 1) = 1
         /\ \A m \in Nat : m >= 1 => /\ FieldAt(d, m) \in Nat /\ FieldAt(d, m) >= 1
                                     /\ FieldAt(d, m + 1) = FieldAt(d, m) + d
         /\ \A m, k \in Nat : 1 <= m /\ m < k => FieldAt(d, m) + d <= FieldAt(d, k)
         /\ \A n \in Nat : \A i \in 1..(FieldAt(d, n + 1) - 1) :
              \E m \in 1..n : FieldAt(d, m) <= i /\ i < FieldAt(d, m) + d
<1>1. /\ FieldAt(d, 1) = 1
      /\ \A m \in Nat : m >= 1 => /\ FieldAt(d, m) \in Nat /\ FieldAt(d, m) >= 1
                                  /\ FieldAt(d, m + 1) = FieldAt(d, m) + d
      /\ \A m, k \in Nat : 1 <= m /\ m < k => FieldAt(d, m) + d <= FieldAt(d, k)
  BY DEF FieldAt
<1> DEFINE In(n) == \A i \in 1..(FieldAt(d, n + 1) - 1) :
                      \E m \in 1..n : FieldAt(d, m) <= i /\ i < FieldAt(d, m) + d
           T == {n \in Nat : In(n)}
<1>2. 0 \in T
  BY <1>1
<1>3. ASSUME NEW n \in Nat, n \in T PROVE n + 1 \in T
  <2>1. FieldAt(d, n + 1) \in Nat /\ FieldAt(d, n + 2) = FieldAt(d, n + 1) + d
    BY <1>1, SMTT(30)
  <2>2. ASSUME NEW i \in 1..(FieldAt(d, n + 2) - 1)
        PROVE  \E m \in 1..(n + 1) : FieldAt(d, m) <= i /\ i < FieldAt(d, m) + d
    <3>1. CASE i < FieldAt(d, n + 1)
      <4>1. i \in 1..(FieldAt(d, n + 1) - 1)
        BY <2>1, <3>1
      <4> QED
        BY <1>3, <4>1
    <3>2. CASE i >= FieldAt(d, n + 1)
      <4>1. n + 1 \in 1..(n + 1) /\ i < FieldAt(d, n + 1) + d
        BY <2>1, <2>2
      <4> QED
        BY <3>2, <4>1
    <3> QED
      BY <2>1, <3>1, <3>2
  <2>3. n + 2 = (n + 1) + 1
    OBVIOUS
  <2> QED
    BY <2>2, <2>3
<1>4. Nat \subseteq T
  <2> HIDE DEF T
  <2> QED
    BY <1>2, <1>3, SetInduction
<1> QED
  BY <1>1, <1>4

\* c is a with b behind it.
Joined(X, c, a, b) ==
  /\ c \in Seq(X) /\ Len(c) = Len(a) + Len(b)
  /\ \A i \in 1..Len(a) : c[i] = a[i]
  /\ \A i \in 1..Len(b) : c[Len(a) + i] = b[i]

LEMMA ConcatAt ==
  ASSUME NEW X, NEW a \in Seq(X), NEW b \in Seq(X)
  PROVE  Joined(X, a \o b, a, b)
BY DEF Joined

\* The first k lines of a header.
HasLines(s, d, fields, k) ==
  \A m \in 1..k : /\ s[FieldAt(d, m)] = fields[m]
                  /\ s[FieldAt(d, m) + d - 1] = LF
                  /\ d = 3 => s[FieldAt(d, m) + 1] = CR

\* An output: the lines of its header, the empty line at e, the body.
LaidOut(s, d, fields, e, body) ==
  /\ d \in {2, 3} /\ fields \in Seq(FieldSymbols) /\ Len(fields) >= 1
  /\ body \in Seq({CR, LF, Text} \union FieldSymbols)
  /\ e = FieldAt(d, Len(fields) + 1)
  /\ s \in Seq(Symbols) /\ Len(s) = e + d - 2 + Len(body)
  /\ HasLines(s, d, fields, Len(fields))
  /\ s[e + d - 2] = LF
  /\ d = 3 => s[e] = CR
  /\ \A j \in 1..Len(body) : s[e + d - 2 + j] = body[j]

LineLength(w) == IF w.eol = "crlf" THEN 3 ELSE 2

\* FlattenSeq puts the lines there, one after the other.
LEMMA LinesLaidOut ==
  ASSUME NEW d \in {2, 3}, NEW fields \in Seq(FieldSymbols), Len(fields) >= 1,
         NEW lines \in Seq(Seq(Symbols)), Len(lines) = Len(fields),
         \A i \in 1..Len(fields) :
           /\ Len(lines[i]) = d /\ lines[i][1] = fields[i] /\ lines[i][d] = LF
           /\ d = 3 => lines[i][2] = CR
  PROVE  LET h == FlattenSeq(lines)
         IN  /\ h \in Seq(Symbols) /\ Len(h) = FieldAt(d, Len(fields) + 1) - 1
             /\ HasLines(h, d, fields, Len(fields))
<1> DEFINE n == Len(fields)
<1>1. n \in Nat /\ n >= 1
  OBVIOUS
<1>2. PICK flatten : FlattensTo(flatten, lines) /\ FlattenSeq(lines) = flatten[n]
  <2>1. Len(lines) > 0
    OBVIOUS
  <2>2. \E flatten : FlattensTo(flatten, lines) /\ FlattenSeq(lines) = flatten[Len(lines)]
    BY <2>1, FlattenEquation
  <2> QED
    BY <2>2
<1>3. \A k \in 1..n : flatten[k] = IF k = 1 THEN lines[k] ELSE flatten[k - 1] \o lines[k]
  BY <1>2 DEF FlattensTo
<1> DEFINE Laid(k) == /\ flatten[k] \in Seq(Symbols) /\ Len(flatten[k]) = FieldAt(d, k + 1) - 1
                      /\ HasLines(flatten[k], d, fields, k)
           T == {k \in Nat : k >= 1 /\ k <= n => Laid(k)}
<1>4. 0 \in T
  OBVIOUS
<1>5. ASSUME NEW k \in Nat, k \in T PROVE k + 1 \in T
  <2> SUFFICES ASSUME k + 1 <= n PROVE Laid(k + 1)
    OBVIOUS
  <2> DEFINE line == lines[k + 1]
             at_ == FieldAt(d, k + 1)
  <2>1. /\ k + 1 \in 1..n /\ line \in Seq(Symbols) /\ Len(line) = d
        /\ line[1] = fields[k + 1] /\ line[d] = LF /\ (d = 3 => line[2] = CR)
    <3>1. k + 1 \in 1..n
      BY <1>1
    <3>2. line \in Seq(Symbols)
      BY <3>1
    <3> QED
      BY <3>1, <3>2
  <2>2. at_ \in Nat /\ at_ >= 1 /\ FieldAt(d, k + 2) = at_ + d /\ FieldAt(d, 1) = 1
    <3>1. k + 1 \in Nat /\ k + 1 >= 1 /\ (k + 1) + 1 = k + 2
      OBVIOUS
    <3> QED
      BY <3>1, Places
  <2>3. CASE k = 0
    <3>1. flatten[1] = line
      BY <1>3, <2>1, <2>3
    <3>2. HasLines(flatten[1], d, fields, 1)
      BY <2>1, <2>2, <2>3, <3>1, SMTT(30) DEF HasLines
    <3> QED
      BY <2>1, <2>2, <2>3, <3>1, <3>2
  <2>4. CASE k # 0
    <3> DEFINE before == flatten[k]
               after == flatten[k + 1]
    <3>1. after = before \o line /\ Laid(k)
      <4>1. k >= 1 /\ k <= n /\ k + 1 # 1 /\ (k + 1) - 1 = k
        BY <1>1, <2>4
      <4>2. after = before \o line
        BY <1>3, <2>1, <4>1
      <4> QED
        BY <1>5, <4>1, <4>2
    <3>2. before \in Seq(Symbols) /\ Len(before) = at_ - 1 /\ HasLines(before, d, fields, k)
      BY <3>1
    <3> HIDE DEF before, after, line, at_
    <3>3. /\ after \in Seq(Symbols) /\ Len(after) = at_ - 1 + d
          /\ \A i \in 1..(at_ - 1) : after[i] = before[i]
          /\ \A i \in 1..d : after[at_ - 1 + i] = line[i]
      <4>1. Joined(Symbols, after, before, line)
        BY <2>1, <3>1, <3>2, ConcatAt
      <4> QED
        BY <2>1, <3>2, <4>1 DEF Joined
    <3>4. ASSUME NEW m \in 1..(k + 1)
          PROVE  /\ after[FieldAt(d, m)] = fields[m]
                 /\ after[FieldAt(d, m) + d - 1] = LF
                 /\ d = 3 => after[FieldAt(d, m) + 1] = CR
      <4>1. CASE m = k + 1
        <5>1. after[at_ - 1 + 1] = line[1] /\ after[at_ - 1 + d] = line[d]
              /\ (d = 3 => after[at_ - 1 + 2] = line[2])
          <6>1. 1 \in 1..d /\ d \in 1..d /\ (d = 3 => 2 \in 1..d)
            OBVIOUS
          <6> QED
            BY <3>3, <6>1
        <5>2. /\ FieldAt(d, m) = at_ /\ at_ - 1 + 1 = at_ /\ at_ - 1 + d = at_ + d - 1
              /\ at_ - 1 + 2 = at_ + 1
          BY <2>2, <4>1, SMTT(30) DEF at_
        <5> QED
          BY <2>1, <4>1, <5>1, <5>2
      <4>2. CASE m # k + 1
        <5>1. m \in 1..k /\ m \in Nat /\ 1 <= m /\ m < k + 1
          BY <4>2
        <5>2. FieldAt(d, m) \in Nat /\ FieldAt(d, m) >= 1 /\ FieldAt(d, m) + d <= at_
          BY <5>1 DEF at_, FieldAt
        <5>3. /\ before[FieldAt(d, m)] = fields[m] /\ before[FieldAt(d, m) + d - 1] = LF
              /\ d = 3 => before[FieldAt(d, m) + 1] = CR
          BY <3>2, <5>1 DEF HasLines
        <5>4. /\ FieldAt(d, m) \in 1..(at_ - 1) /\ FieldAt(d, m) + d - 1 \in 1..(at_ - 1)
              /\ d = 3 => FieldAt(d, m) + 1 \in 1..(at_ - 1)
          BY <2>2, <5>2, SMTT(60)
        <5> QED
          BY <3>3, <5>3, <5>4
      <4> QED
        BY <4>1, <4>2
    <3>5. HasLines(after, d, fields, k + 1)
      BY <3>4 DEF HasLines
    <3>6. Len(after) = FieldAt(d, k + 2) - 1 /\ k + 2 = (k + 1) + 1
      BY <2>2, <3>3
    <3> QED
      BY <3>3, <3>5, <3>6 DEF after
  <2> QED
    BY <2>3, <2>4
<1>6. Nat \subseteq T
  <2> HIDE DEF T
  <2> QED
    BY <1>4, <1>5, SetInduction
<1>7. Laid(n)
  BY <1>1, <1>6
<1> QED
  BY <1>2, <1>7

LEMMA WrittenLaidOut ==
  ASSUME NEW w \in Outputs, w.eol # "none"
  PROVE  LaidOut(Written(w), LineLength(w), w.fields,
                 FieldAt(LineLength(w), Len(w.fields) + 1), w.body)
<1> DEFINE d == LineLength(w)
           fields == w.fields
           n == Len(fields)
           e == FieldAt(d, n + 1)
           eol == Eol(w)
           lines == [i \in DOMAIN fields |-> <<fields[i]>> \o eol]
           h == FlattenSeq(lines)
           head == h \o eol
           s == head \o w.body
<1>1. /\ fields \in Seq(FieldSymbols) /\ fields # <<>>
      /\ w.body \in Seq({CR, LF, Text} \union FieldSymbols)
  BY OutputsAssumption
<1>2. d \in {2, 3} /\ n \in Nat /\ n >= 1 /\ DOMAIN fields = 1..n
  BY <1>1 DEF LineLength
<1>3. /\ eol \in Seq(Symbols) /\ Len(eol) = d - 1 /\ eol[d - 1] = LF
      /\ d = 3 => eol[1] = CR
  <2>1. CR \in Symbols /\ LF \in Symbols
    BY DEF Symbols
  <2> HIDE DEF eol, d
  <2>2. CASE w.eol = "crlf"
    <3>1. d = 3 /\ eol = <<CR, LF>>
      BY <2>2 DEF d, eol, Eol, LineLength
    <3> QED
      BY <2>1, <3>1
  <2>3. CASE w.eol # "crlf"
    <3>1. d = 2 /\ eol = <<LF>>
      BY <2>3 DEF d, eol, Eol, LineLength
    <3> QED
      BY <2>1, <3>1
  <2> QED
    BY <2>2, <2>3
<1>4. ASSUME NEW i \in 1..n
      PROVE  /\ lines[i] \in Seq(Symbols) /\ Len(lines[i]) = d
             /\ lines[i][1] = fields[i] /\ lines[i][d] = LF /\ (d = 3 => lines[i][2] = CR)
  <2> DEFINE one == <<fields[i]>>
  <2>1. one \in Seq(Symbols) /\ Len(one) = 1 /\ one[1] = fields[i]
    BY <1>1, <1>2 DEF Symbols
  <2> HIDE DEF one, eol, d
  <2>2. /\ one \o eol \in Seq(Symbols) /\ Len(one \o eol) = d
        /\ (one \o eol)[1] = one[1]
        /\ \A k \in 1..(d - 1) : (one \o eol)[1 + k] = eol[k]
    <3> DEFINE c == one \o eol
    <3>1. Joined(Symbols, c, one, eol)
      BY <1>3, <2>1, ConcatAt
    <3> HIDE DEF c
    <3>2. /\ c \in Seq(Symbols) /\ Len(c) = 1 + (d - 1) /\ c[1] = one[1]
          /\ \A k \in 1..(d - 1) : c[1 + k] = eol[k]
      BY <1>2, <1>3, <2>1, <3>1 DEF Joined
    <3> QED
      BY <1>2, <3>2 DEF c
  <2>3. (one \o eol)[d] = LF /\ (d = 3 => (one \o eol)[2] = CR)
    BY <1>2, <1>3, <2>2
  <2>4. lines[i] = one \o eol
    BY <1>2 DEF one
  <2> QED
    BY <2>1, <2>2, <2>3, <2>4
<1>5. lines \in Seq(Seq(Symbols)) /\ Len(lines) = n
  <2>1. DOMAIN lines = 1..n
    BY <1>2
  <2>2. lines = [i \in 1..n |-> lines[i]]
    BY <1>2
  <2> HIDE DEF lines, n
  <2>3. lines \in [1..n -> Seq(Symbols)]
    BY <1>4, <2>1, <2>2
  <2> QED
    BY <1>2, <2>1, <2>3
<1> HIDE DEF lines, d
<1>6. h \in Seq(Symbols) /\ Len(h) = e - 1 /\ HasLines(h, d, fields, n)
  BY <1>1, <1>2, <1>4, <1>5, LinesLaidOut
<1>7. e \in Nat /\ e >= 1
  <2>1. n + 1 \in Nat /\ n + 1 >= 1
    BY <1>2
  <2> QED
    BY <1>2, <2>1 DEF FieldAt
<1> HIDE DEF h, e, eol
<1>8. /\ head \in Seq(Symbols) /\ Len(head) = e + d - 2
      /\ \A i \in 1..(e - 1) : head[i] = h[i]
      /\ \A i \in 1..(d - 1) : head[e - 1 + i] = eol[i]
  <2>1. Joined(Symbols, head, h, eol)
    BY <1>3, <1>6, ConcatAt
  <2> HIDE DEF head
  <2> QED
    BY <1>2, <1>3, <1>6, <1>7, <2>1, SMTT(60) DEF Joined
<1> HIDE DEF head
<1>9. /\ s \in Seq(Symbols) /\ Len(s) = e + d - 2 + Len(w.body)
      /\ \A i \in 1..(e + d - 2) : s[i] = head[i]
      /\ \A j \in 1..Len(w.body) : s[e + d - 2 + j] = w.body[j]
  <2>1. w.body \in Seq(Symbols)
    BY <1>1 DEF Symbols
  <2> QED
    <3>1. Joined(Symbols, s, head, w.body)
      BY <1>8, <2>1, ConcatAt
    <3> QED
      BY <1>8, <3>1 DEF Joined
<1> HIDE DEF s
<1>10. \A i \in 1..(e - 1) : s[i] = h[i]
  BY <1>2, <1>7, <1>8, <1>9
<1>11. \A m \in 1..n : /\ FieldAt(d, m) \in 1..(e - 1) /\ FieldAt(d, m) + d - 1 \in 1..(e - 1)
                       /\ d = 3 => FieldAt(d, m) + 1 \in 1..(e - 1)
  <2> SUFFICES ASSUME NEW m \in 1..n
               PROVE  /\ FieldAt(d, m) \in 1..(e - 1) /\ FieldAt(d, m) + d - 1 \in 1..(e - 1)
                      /\ d = 3 => FieldAt(d, m) + 1 \in 1..(e - 1)
    OBVIOUS
  <2>1. m \in Nat /\ n + 1 \in Nat /\ 1 <= m /\ m < n + 1
    BY <1>2
  <2>2. FieldAt(d, m) \in Nat /\ FieldAt(d, m) >= 1 /\ FieldAt(d, m) + d <= e
    BY <1>2, <2>1 DEF e, FieldAt
  <2> QED
    BY <1>2, <1>7, <2>2, SMTT(30)
<1>12. HasLines(s, d, fields, n)
  BY <1>6, <1>10, <1>11 DEF HasLines
<1>13. s[e + d - 2] = LF /\ (d = 3 => s[e] = CR)
  <2>1. head[e - 1 + (d - 1)] = eol[d - 1] /\ head[e - 1 + 1] = eol[1]
    BY <1>2, <1>8
  <2>2. e - 1 + (d - 1) = e + d - 2 /\ e - 1 + 1 = e /\ e + d - 2 \in 1..(e + d - 2) /\ e \in 1..(e + d - 2)
    BY <1>2, <1>7
  <2> QED
    BY <1>3, <1>9, <2>1, <2>2
<1>14. Written(w) = s
  BY DEF Written, s, head, h, lines, eol
<1> QED
  BY <1>1, <1>2, <1>9, <1>12, <1>13, <1>14 DEF LaidOut, d, e

-----------------------------------------------------------------------------
(* The end of the header.                                                  *)

LEMMA SymbolsDiffer ==
  /\ CR # LF /\ ~IsField(CR) /\ ~IsField(LF)
  /\ \A x \in FieldSymbols : x # CR /\ x # LF /\ IsField(x) /\ x.value \in Nat
BY DEF CR, LF, IsField, FieldSymbols

\* k is where pat first stands in s, 0 if nowhere.
Finds(k, s, pat) ==
  /\ k \in Nat
  /\ k # 0 => k \in 1..(Len(s) - Len(pat) + 1) /\ SubSeq(s, k, k + Len(pat) - 1) = pat
  /\ \A i \in 1..(Len(s) - Len(pat) + 1) : SubSeq(s, i, i + Len(pat) - 1) = pat => k # 0 /\ k <= i

LEMMA SearchFinds ==
  ASSUME NEW s, NEW pat, Len(s) \in Nat, Len(pat) \in Nat
  PROVE  Finds(Search(s, pat), s, pat)
<1> DEFINE at_ == {i \in 1..(Len(s) - Len(pat) + 1) : SubSeq(s, i, i + Len(pat) - 1) = pat}
<1>1. Search(s, pat) = IF at_ = {} THEN 0 ELSE Min(at_)
  BY DEF Search
<1>2. at_ \in SUBSET Nat /\ \A i \in at_ : i >= 1
  OBVIOUS
<1>3. CASE at_ = {}
  <2>1. Search(s, pat) = 0
    BY <1>1, <1>3
  <2>2. \A i \in 1..(Len(s) - Len(pat) + 1) : SubSeq(s, i, i + Len(pat) - 1) # pat
    BY <1>3
  <2>3. Search(s, pat) \in Nat
    BY <2>1
  <2> QED
    BY <2>1, <2>2, <2>3, Zenon DEF Finds
<1>4. CASE at_ # {}
  <2>1. Min(at_) \in at_ /\ \A k \in at_ : Min(at_) <= k
    <3> HIDE DEF at_
    <3> QED
      BY <1>2, <1>4, MinOf
  <2>2. Search(s, pat) \in at_ /\ \A k \in at_ : Search(s, pat) <= k
    BY <1>1, <1>4, <2>1
  <2> QED
    BY <1>2, <2>2, SMTT(30) DEF Finds
<1> QED
  BY <1>3, <1>4

\* pat first stands at k.
FirstAt(s, pat, k) ==
  /\ k \in 1..(Len(s) - Len(pat) + 1) /\ SubSeq(s, k, k + Len(pat) - 1) = pat
  /\ \A i \in 1..(k - 1) : SubSeq(s, i, i + Len(pat) - 1) # pat

LEMMA SearchFirst ==
  ASSUME NEW s, NEW pat, Len(s) \in Nat, Len(pat) \in Nat, NEW k, FirstAt(s, pat, k)
  PROVE  Search(s, pat) = k
<1> DEFINE found == Search(s, pat)
<1>1. Finds(found, s, pat)
  BY SearchFinds
<1> HIDE DEF found
<1>2. found # 0 /\ found <= k /\ found \in Nat /\ k \in Nat
  BY <1>1 DEF Finds, FirstAt
<1>3. SubSeq(s, found, found + Len(pat) - 1) = pat
  BY <1>1, <1>2 DEF Finds
<1>4. ~(found \in 1..(k - 1))
  BY <1>3 DEF FirstAt
<1>5. found = k
  BY <1>2, <1>4
<1> QED
  BY <1>5 DEF found

\* What two or four symbols in a row are.
Pairs(s, x, y) ==
  \A i \in 1..(Len(s) - 1) : SubSeq(s, i, i + 1) = <<x, y>> <=> s[i] = x /\ s[i + 1] = y
Fours(s, x, y) ==
  \A i \in 1..(Len(s) - 3) :
    SubSeq(s, i, i + 3) = <<x, y, x, y>> <=>
      s[i] = x /\ s[i + 1] = y /\ s[i + 2] = x /\ s[i + 3] = y

LEMMA PairAt ==
  ASSUME NEW X, NEW s \in Seq(X), NEW x, NEW y
  PROVE  Pairs(s, x, y)
<1> SUFFICES ASSUME NEW i \in 1..(Len(s) - 1)
             PROVE  SubSeq(s, i, i + 1) = <<x, y>> <=> s[i] = x /\ s[i + 1] = y
  BY DEF Pairs
<1> DEFINE t == SubSeq(s, i, i + 1)
<1>1. t \in Seq(X) /\ Len(t) = 2 /\ t[1] = s[i] /\ t[2] = s[i + 1]
  BY SubSeqProperties
<1> HIDE DEF t
<1>2. t = <<t[1], t[2]>>
  BY <1>1
<1> QED
  BY <1>1, <1>2 DEF t

LEMMA FourAt ==
  ASSUME NEW X, NEW s \in Seq(X), NEW x, NEW y
  PROVE  Fours(s, x, y)
<1> SUFFICES ASSUME NEW i \in 1..(Len(s) - 3)
             PROVE  SubSeq(s, i, i + 3) = <<x, y, x, y>> <=>
                      s[i] = x /\ s[i + 1] = y /\ s[i + 2] = x /\ s[i + 3] = y
  BY DEF Fours
<1> DEFINE t == SubSeq(s, i, i + 3)
<1>1. t \in Seq(X) /\ Len(t) = 4 /\ t[1] = s[i] /\ t[2] = s[i + 1] /\ t[3] = s[i + 2] /\ t[4] = s[i + 3]
  BY SubSeqProperties
<1> HIDE DEF t
<1>2. t = <<t[1], t[2], t[3], t[4]>>
  BY <1>1
<1> QED
  BY <1>1, <1>2 DEF t

\* The symbols of a header: each is where a line has it.
Header(h, d, fields, e) ==
  /\ d \in {2, 3} /\ fields \in Seq(FieldSymbols) /\ Len(fields) >= 1
  /\ e = FieldAt(d, Len(fields) + 1)
  /\ h \in Seq(Symbols) /\ Len(h) = e + d - 2
  /\ HasLines(h, d, fields, Len(fields))
  /\ h[e + d - 2] = LF
  /\ d = 3 => h[e] = CR

Placed(h, d, fields, e) ==
  /\ Len(fields) \in Nat /\ e \in Nat /\ e >= 1
  /\ \A m \in 1..Len(fields) :
       /\ FieldAt(d, m) \in Nat /\ FieldAt(d, m) >= 1 /\ FieldAt(d, m) + d <= e
       /\ FieldAt(d, m + 1) = FieldAt(d, m) + d
       /\ m = Len(fields) <=> FieldAt(d, m) + d = e
       /\ h[FieldAt(d, m)] = fields[m] /\ fields[m] \in FieldSymbols
       /\ h[FieldAt(d, m) + d - 1] = LF
       /\ d = 3 => h[FieldAt(d, m) + 1] = CR
  /\ \A i \in 1..(e - 1) :
       \E m \in 1..Len(fields) : FieldAt(d, m) <= i /\ i < FieldAt(d, m) + d

LEMMA LinePlaces ==
  ASSUME NEW h, NEW d, NEW fields, NEW e, Header(h, d, fields, e)
  PROVE  Placed(h, d, fields, e)
<1> DEFINE n == Len(fields)
<1>1. d \in {2, 3} /\ n \in Nat /\ n >= 1 /\ e = FieldAt(d, n + 1)
  BY DEF Header
<1>2. e \in Nat /\ e >= 1
  BY <1>1 DEF FieldAt
<1>3. ASSUME NEW m \in 1..n
      PROVE  /\ FieldAt(d, m) \in Nat /\ FieldAt(d, m) >= 1 /\ FieldAt(d, m) + d <= e
             /\ FieldAt(d, m + 1) = FieldAt(d, m) + d
             /\ m = n <=> FieldAt(d, m) + d = e
  BY <1>1 DEF FieldAt
<1>4. ASSUME NEW m \in 1..n
      PROVE  /\ h[FieldAt(d, m)] = fields[m] /\ fields[m] \in FieldSymbols
             /\ h[FieldAt(d, m) + d - 1] = LF
             /\ d = 3 => h[FieldAt(d, m) + 1] = CR
  BY SMTT(30) DEF Header, HasLines
<1>5. \A i \in 1..(FieldAt(d, n + 1) - 1) :
        \E m \in 1..n : FieldAt(d, m) <= i /\ i < FieldAt(d, m) + d
  BY <1>1, Places
<1> QED
  BY <1>1, <1>2, <1>3, <1>4, <1>5 DEF Placed

LEMMA HeaderSymbols ==
  ASSUME NEW h, NEW d, NEW fields, NEW e, Header(h, d, fields, e), NEW i \in 1..(e + d - 2)
  PROVE  \/ \E m \in 1..Len(fields) : i = FieldAt(d, m) /\ h[i] = fields[m] /\ h[i] \in FieldSymbols
         \/ h[i] = LF /\ \E m \in 1..Len(fields) : i = FieldAt(d, m) + d - 1
         \/ d = 3 /\ h[i] = CR /\ \E m \in 1..Len(fields) : i = FieldAt(d, m) + 1
         \/ d = 3 /\ h[i] = CR /\ i = e
         \/ h[i] = LF /\ i = e + d - 2
<1>1. d \in {2, 3} /\ h[e + d - 2] = LF /\ (d = 3 => h[e] = CR) /\ e \in Nat /\ e >= 1
  BY LinePlaces, SMTT(30) DEF Header, Placed
<1>2. CASE i <= e - 1
  <2>1. PICK m \in 1..Len(fields) : FieldAt(d, m) <= i /\ i < FieldAt(d, m) + d
    <3>1. i \in 1..(e - 1)
      BY <1>1, <1>2
    <3>2. \A k \in 1..(e - 1) :
            \E m \in 1..Len(fields) : FieldAt(d, m) <= k /\ k < FieldAt(d, m) + d
      BY LinePlaces DEF Placed
    <3> QED
      BY <3>1, <3>2
  <2>2. /\ FieldAt(d, m) \in Nat
        /\ h[FieldAt(d, m)] = fields[m] /\ fields[m] \in FieldSymbols
        /\ h[FieldAt(d, m) + d - 1] = LF
        /\ d = 3 => h[FieldAt(d, m) + 1] = CR
    BY LinePlaces DEF Placed
  <2>3. i = FieldAt(d, m) \/ i = FieldAt(d, m) + d - 1 \/ (d = 3 /\ i = FieldAt(d, m) + 1)
    BY <1>1, <2>1, <2>2, SMTT(30)
  <2> QED
    BY <2>2, <2>3
<1>3. CASE i > e - 1
  <2>1. i = e + d - 2 \/ (d = 3 /\ i = e)
    BY <1>1, <1>3
  <2> QED
    BY <1>1, <2>1
<1> QED
  BY <1>1, <1>2, <1>3

\* An output begins with its header.
LEMMA OutputHeader ==
  ASSUME NEW s, NEW d, NEW fields, NEW e, NEW body, LaidOut(s, d, fields, e, body)
  PROVE  /\ Header(SubSeq(s, 1, e + d - 2), d, fields, e)
         /\ \A i \in 1..(e + d - 2) : SubSeq(s, 1, e + d - 2)[i] = s[i]
<1> DEFINE h == SubSeq(s, 1, e + d - 2)
           n == Len(fields)
<1>1. /\ d \in {2, 3} /\ n \in Nat /\ n >= 1 /\ e = FieldAt(d, n + 1)
      /\ s \in Seq(Symbols) /\ Len(s) = e + d - 2 + Len(body) /\ Len(body) \in Nat
  BY DEF LaidOut
<1>2. e \in Nat /\ e >= 1
  BY <1>1 DEF FieldAt
<1>3. h \in Seq(Symbols) /\ Len(h) = e + d - 2 /\ \A i \in 1..(e + d - 2) : h[i] = s[i]
  <2>1. e + d - 2 \in Nat /\ e + d - 2 <= Len(s)
    BY <1>1, <1>2, SMTT(30)
  <2> QED
    BY <1>1, <2>1, SMTT(30)
<1> HIDE DEF h
<1>4. \A m \in 1..n : /\ FieldAt(d, m) \in 1..(e + d - 2)
                      /\ FieldAt(d, m) + d - 1 \in 1..(e + d - 2)
                      /\ d = 3 => FieldAt(d, m) + 1 \in 1..(e + d - 2)
  BY <1>1, <1>2, SMTT(30) DEF FieldAt
<1>5. HasLines(h, d, fields, n)
  BY <1>3, <1>4 DEF LaidOut, HasLines
<1>6. h[e + d - 2] = LF /\ (d = 3 => h[e] = CR)
  <2>1. e + d - 2 \in 1..(e + d - 2) /\ e \in 1..(e + d - 2)
    BY <1>1, <1>2, SMTT(30)
  <2> QED
    BY <1>3, <2>1 DEF LaidOut
<1>7. Header(h, d, fields, e)
  BY <1>1, <1>3, <1>5, <1>6 DEF Header, LaidOut
<1> QED
  BY <1>3, <1>7 DEF h

\* getCgiBody finds the end of the header.
LEMMA HeaderEnds ==
  ASSUME NEW s, NEW d, NEW fields, NEW e, NEW body, LaidOut(s, d, fields, e, body),
         d = 3 => Search(<<LF>> \o body, <<LF, LF>>) = 0
  PROVE  GetCgiBody(s) = e + d - 1
<1> DEFINE n == Len(fields)
           h == SubSeq(s, 1, e + d - 2)
<1>1. /\ d \in {2, 3} /\ s \in Seq(Symbols) /\ Len(s) = e + d - 2 + Len(body)
      /\ Len(body) \in Nat /\ Len(s) \in Nat
  BY DEF LaidOut
<1>2. Header(h, d, fields, e) /\ \A i \in 1..(e + d - 2) : h[i] = s[i]
  BY OutputHeader, ZenonT(90)
<1> HIDE DEF h
<1>3. /\ n \in Nat /\ e \in Nat /\ e >= 1 /\ n >= 1
      /\ \A m \in 1..n :
           /\ FieldAt(d, m) \in Nat /\ FieldAt(d, m) >= 1 /\ FieldAt(d, m) + d <= e
           /\ FieldAt(d, m + 1) = FieldAt(d, m) + d
           /\ m = n <=> FieldAt(d, m) + d = e
           /\ h[FieldAt(d, m)] = fields[m] /\ fields[m] \in FieldSymbols
           /\ h[FieldAt(d, m) + d - 1] = LF
           /\ d = 3 => h[FieldAt(d, m) + 1] = CR
  <2>1. Placed(h, d, fields, e)
    BY <1>2, LinePlaces
  <2> QED
    BY <2>1 DEF Placed, LaidOut
<1>4. FieldAt(d, n) + d = e
  BY <1>3, SMTT(30)
\* Behind the last symbol of a line is the next field, or the empty line.
<1>5. ASSUME NEW m \in 1..n, m # n
      PROVE  /\ h[FieldAt(d, m) + d] \in FieldSymbols
             /\ FieldAt(d, m) + d <= e + d - 2 /\ FieldAt(d, m) + d < e
  <2>1. m + 1 \in 1..n
    BY <1>3, <1>5
  <2>2. h[FieldAt(d, m + 1)] \in FieldSymbols /\ FieldAt(d, m + 1) + d <= e
    BY <1>3, <2>1
  <2>3. /\ FieldAt(d, m) \in Nat /\ FieldAt(d, m + 1) = FieldAt(d, m) + d
        /\ FieldAt(d, m + 1) \in Nat
    BY <1>3, <2>1
  <2>4. h[FieldAt(d, m) + d] \in FieldSymbols
    BY <2>2, <2>3
  <2>5. FieldAt(d, m) + d <= e + d - 2 /\ FieldAt(d, m) + d < e
    <3> DEFINE x == FieldAt(d, m)
               y == FieldAt(d, m + 1)
    <3>1. x \in Nat /\ y \in Nat /\ y = x + d /\ y + d <= e /\ d \in {2, 3} /\ e \in Nat
      BY <1>1, <1>3, <2>2, <2>3
    <3> HIDE DEF x, y
    <3>2. x + d <= e + d - 2 /\ x + d < e
      BY <3>1
    <3> QED
      BY <3>2 DEF x
  <2> QED
    BY <2>4, <2>5
<1>6. CASE d = 2
  <2>1. s[e - 1] = LF /\ s[e] = LF /\ e - 1 \in 1..(Len(s) - 1)
    <3>1. n \in 1..n
      BY <1>3
    <3>2. h[FieldAt(d, n) + d - 1] = LF /\ FieldAt(d, n) >= 1 /\ FieldAt(d, n) \in Nat
      BY <1>3, <3>1
    <3>3. h[e - 1] = LF /\ e - 1 >= 1
      <4>1. FieldAt(d, n) + d - 1 = e - 1
        BY <1>4, <1>6, <3>2
      <4> QED
        BY <1>4, <1>6, <3>2, <4>1
    <3>4. h[e] = LF
      <4>1. e + d - 2 = e
        BY <1>3, <1>6
      <4> QED
        BY <1>2, <4>1 DEF Header
    <3>5. e - 1 \in 1..(e + d - 2) /\ e \in 1..(e + d - 2)
      BY <1>3, <1>6, <3>3
    <3> QED
      BY <1>1, <1>2, <1>3, <1>6, <3>3, <3>4, <3>5
  <2>2. ASSUME NEW i \in 1..(e - 2) PROVE ~(s[i] = LF /\ s[i + 1] = LF)
    <3>1. i \in 1..(e + d - 2) /\ i + 1 \in 1..(e + d - 2) /\ i \in Nat
      BY <1>3, <1>6
    <3>2. \/ \E m \in 1..n : i = FieldAt(d, m) /\ h[i] \in FieldSymbols
          \/ \E m \in 1..n : i = FieldAt(d, m) + d - 1
          \/ i = e + d - 2
      BY <1>2, <1>6, <3>1, HeaderSymbols
    <3>3. CASE \E m \in 1..n : i = FieldAt(d, m) /\ h[i] \in FieldSymbols
      BY <1>2, <3>1, <3>3, SymbolsDiffer
    <3>4. ASSUME NEW m \in 1..n, i = FieldAt(d, m) + d - 1 PROVE s[i + 1] # LF
      <4>1. i + 1 = FieldAt(d, m) + d /\ m # n
        <5>1. FieldAt(d, m) \in Nat
          BY <1>3
        <5> QED
          BY <1>3, <1>4, <1>6, <3>4, <5>1, SMTT(30)
      <4>2. h[i + 1] \in FieldSymbols
        BY <1>5, <4>1
      <4> QED
        BY <1>2, <3>1, <4>2, SymbolsDiffer
    <3>5. i # e + d - 2
      BY <1>3, <1>6
    <3> QED
      BY <3>2, <3>3, <3>4, <3>5
  <2>3. \A i \in 1..(Len(s) - 1) : SubSeq(s, i, i + 1) = <<LF, LF>> <=> s[i] = LF /\ s[i + 1] = LF
    <3>1. Pairs(s, LF, LF)
      BY <1>1, PairAt
    <3> QED
      BY <3>1 DEF Pairs
  <2>4. Search(s, <<LF, LF>>) = e - 1
    <3> DEFINE pat == <<LF, LF>>
    <3>1. Len(pat) = 2
      OBVIOUS
    <3>2. \A i \in Nat : i + Len(pat) - 1 = i + 1 /\ Len(s) - Len(pat) + 1 = Len(s) - 1
      BY <1>1, <3>1
    <3> HIDE DEF pat
    <3>3. SubSeq(s, e - 1, e - 1 + Len(pat) - 1) = pat
      <4>1. e - 1 \in Nat /\ (e - 1) + 1 = e
        BY <1>3, <2>1
      <4> QED
        BY <2>1, <2>3, <3>2, <4>1 DEF pat
    <3>4. \A i \in 1..((e - 1) - 1) : SubSeq(s, i, i + Len(pat) - 1) # pat
      <4> SUFFICES ASSUME NEW i \in 1..((e - 1) - 1) PROVE SubSeq(s, i, i + Len(pat) - 1) # pat
        OBVIOUS
      <4>1. i \in Nat /\ i \in 1..(e - 2) /\ i \in 1..(Len(s) - 1)
        BY <1>3, <2>1
      <4> QED
        BY <2>2, <2>3, <3>2, <4>1 DEF pat
    <3>5. e - 1 \in 1..(Len(s) - Len(pat) + 1)
      BY <2>1, <3>2
    <3>6. Search(s, pat) = e - 1
      <4>1. FirstAt(s, pat, e - 1)
        BY <3>3, <3>4, <3>5 DEF FirstAt
      <4> QED
        BY <1>1, <3>1, <4>1, SearchFirst
    <3> QED
      BY <3>6 DEF pat
  <2> QED
    BY <1>3, <1>6, <2>1, <2>4 DEF GetCgiBody
<1>7. CASE d = 3
  <2>1. Search(s, <<LF, LF>>) = 0
    <3> DEFINE pat == <<LF, LF>>
               t == <<LF>> \o body
    <3>1. Len(pat) = 2
      OBVIOUS
    <3>2. ASSUME NEW i \in 1..(Len(s) - 1), s[i] = LF, s[i + 1] = LF PROVE FALSE
      <4>1. CASE i <= e
        <5>1. i \in 1..(e + d - 2) /\ i + 1 \in 1..(e + d - 2) /\ i \in Nat
          BY <1>3, <1>7, <4>1
        <5>2. \/ h[i] \in FieldSymbols
              \/ h[i] = CR
              \/ \E m \in 1..n : i = FieldAt(d, m) + d - 1
              \/ i = e + d - 2
          BY <1>2, <5>1, HeaderSymbols
        <5>3. ASSUME NEW m \in 1..n, i = FieldAt(d, m) + d - 1 PROVE s[i + 1] # LF
          <6>1. i + 1 = FieldAt(d, m) + d
            BY <1>3, <1>7, <5>3, SMTT(30)
          <6>2. CASE m = n
            <7>1. h[i + 1] = CR
              BY <1>2, <1>4, <1>7, <6>1, <6>2 DEF Header
            <7> QED
              BY <1>2, <5>1, <7>1, SymbolsDiffer
          <6>3. CASE m # n
            BY <1>2, <1>5, <5>1, <6>1, <6>3, SymbolsDiffer
          <6> QED
            BY <6>2, <6>3
        <5> QED
          BY <1>2, <1>3, <1>7, <3>2, <4>1, <5>1, <5>2, <5>3, SymbolsDiffer
      <4>2. CASE i > e
        <5> DEFINE j == i - e
        <5>1. t \in Seq({CR, LF, Text} \union FieldSymbols) /\ Len(t) = 1 + Len(body)
              /\ t[1] = LF /\ \A k \in 1..Len(body) : t[1 + k] = body[k]
          <6> DEFINE one == <<LF>>
                     X == {CR, LF, Text} \union FieldSymbols
          <6>1. one \in Seq(X) /\ Len(one) = 1 /\ one[1] = LF
            OBVIOUS
          <6>2. body \in Seq(X)
            BY DEF LaidOut
          <6> HIDE DEF one, X
          <6>3. Joined(X, one \o body, one, body)
            BY <6>1, <6>2, ConcatAt
          <6>4. /\ one \o body \in Seq(X) /\ Len(one \o body) = 1 + Len(body)
                /\ (one \o body)[1] = LF /\ \A k \in 1..Len(body) : (one \o body)[1 + k] = body[k]
            <7> DEFINE c == one \o body
            <7>1. Joined(X, c, one, body)
              BY <6>3
            <7> HIDE DEF c
            <7>2. /\ c \in Seq(X) /\ Len(c) = 1 + Len(body)
                  /\ c[1] = LF /\ \A k \in 1..Len(body) : c[1 + k] = body[k]
              BY <6>1, <7>1 DEF Joined
            <7> QED
              BY <7>2 DEF c
          <6> QED
            BY <6>4 DEF one, X
        <5> HIDE DEF t
        <5>2. \A k \in 1..Len(body) : s[e + 1 + k] = body[k]
          <6>1. e + d - 2 = e + 1
            BY <1>3, <1>7
          <6> QED
            BY <6>1 DEF LaidOut
        <5>3. j \in 1..(Len(t) - 1) /\ j \in Nat /\ j >= 1 /\ j <= Len(body) /\ Len(t) \in Nat
          BY <1>1, <1>3, <1>7, <3>2, <4>2, <5>1
        <5>4. t[j + 1] = body[j] /\ body[j] = s[i + 1]
          <6>1. e + 1 + j = i + 1 /\ 1 + j = j + 1
            BY <1>3
          <6> QED
            BY <5>1, <5>2, <5>3, <6>1
        <5>5. t[j] = LF
          <6>1. CASE j = 1
            BY <5>1, <6>1
          <6>2. CASE j # 1
            <7>1. j - 1 \in 1..Len(body) /\ 1 + (j - 1) = j /\ e + 1 + (j - 1) = i
              BY <1>1, <1>3, <5>3, <6>2, SMTT(30)
            <7> QED
              BY <3>2, <5>1, <5>2, <7>1, SMTT(30)
          <6> QED
            BY <6>1, <6>2
        <5>6. SubSeq(t, j, j + 1) = pat
          <6>1. Pairs(t, LF, LF) /\ t[j + 1] = LF
            BY <3>2, <5>1, <5>4, PairAt
          <6> QED
            BY <5>3, <5>5, <6>1 DEF Pairs
        <5>7. Search(t, pat) # 0
          <6>1. j + Len(pat) - 1 = j + 1 /\ Len(t) - Len(pat) + 1 = Len(t) - 1
            BY <3>1, <5>3
          <6> HIDE DEF pat, j
          <6> QED
            <7>1. Finds(Search(t, pat), t, pat)
              BY <3>1, <5>3, SearchFinds
            <7> QED
              BY <5>3, <5>6, <6>1, <7>1 DEF Finds
        <5> QED
          BY <1>7, <5>7 DEF t
      <4> QED
        BY <1>3, <4>1, <4>2
    <3> HIDE DEF pat, t
    <3>3. ASSUME Search(s, pat) # 0 PROVE FALSE
      <4> DEFINE k == Search(s, pat)
      <4>1. k \in 1..(Len(s) - 1) /\ SubSeq(s, k, k + 1) = <<LF, LF>>
        <5>1. k \in 1..(Len(s) - Len(pat) + 1) /\ SubSeq(s, k, k + Len(pat) - 1) = pat
          <6>1. Finds(k, s, pat)
            BY <1>1, <3>1, SearchFinds
          <6> HIDE DEF k
          <6> QED
            BY <3>3, <6>1 DEF Finds, k
        <5>2. k + Len(pat) - 1 = k + 1 /\ Len(s) - Len(pat) + 1 = Len(s) - 1
          BY <1>1, <3>1, <5>1
        <5> QED
          BY <5>1, <5>2 DEF pat
      <4> HIDE DEF k
      <4>2. s[k] = LF /\ s[k + 1] = LF
        <5>1. Pairs(s, LF, LF)
          BY <1>1, PairAt
        <5> QED
          BY <4>1, <5>1 DEF Pairs
      <4> QED
        BY <3>2, <4>1, <4>2
    <3> QED
      BY <3>3 DEF pat
  <2>2. /\ s[e - 2] = CR /\ s[e - 1] = LF /\ s[e] = CR /\ s[e + 1] = LF
        /\ e - 2 \in 1..(Len(s) - 3)
    <3>1. n \in 1..n
      BY <1>3
    <3>2. /\ h[FieldAt(d, n) + d - 1] = LF /\ h[FieldAt(d, n) + 1] = CR
          /\ FieldAt(d, n) >= 1 /\ FieldAt(d, n) \in Nat
      BY <1>3, <1>7, <3>1
    <3>3. FieldAt(d, n) + d - 1 = e - 1 /\ FieldAt(d, n) + 1 = e - 2 /\ e + d - 2 = e + 1 /\ e - 2 >= 1
      BY <1>3, <1>4, <1>7, <3>2
    <3>4. h[e - 2] = CR /\ h[e - 1] = LF /\ h[e] = CR /\ h[e + 1] = LF
      BY <1>2, <1>7, <3>2, <3>3 DEF Header
    <3>5. \A k \in {e - 2, e - 1, e, e + 1} : k \in 1..(e + d - 2)
      BY <1>3, <1>7, <3>3
    <3> QED
      BY <1>1, <1>2, <1>3, <1>7, <3>3, <3>4, <3>5, SMTT(30)
  <2>3. ASSUME NEW i \in 1..(e - 3) PROVE ~(s[i] = CR /\ s[i + 2] = CR)
    <3>1. i \in 1..(e + d - 2) /\ i + 2 \in 1..(e + d - 2) /\ i \in Nat
      BY <1>3, <1>7
    <3>2. \/ h[i] \in FieldSymbols
          \/ h[i] = LF
          \/ \E m \in 1..n : i = FieldAt(d, m) + 1
          \/ i = e
      BY <1>2, <3>1, HeaderSymbols
    <3>3. ASSUME NEW m \in 1..n, i = FieldAt(d, m) + 1 PROVE s[i + 2] # CR
      <4>1. i + 2 = FieldAt(d, m) + d /\ m # n
        BY <1>3, <1>4, <1>7, <3>3, SMTT(30)
      <4> QED
        BY <1>2, <1>5, <3>1, <4>1, SymbolsDiffer
    <3> QED
      BY <1>2, <1>3, <3>1, <3>2, <3>3, SymbolsDiffer
  <2>4. \A i \in 1..(Len(s) - 3) :
          SubSeq(s, i, i + 3) = <<CR, LF, CR, LF>> <=>
            s[i] = CR /\ s[i + 1] = LF /\ s[i + 2] = CR /\ s[i + 3] = LF
    <3>1. Fours(s, CR, LF)
      BY <1>1, FourAt
    <3> QED
      BY <3>1 DEF Fours
  <2>5. Search(s, <<CR, LF, CR, LF>>) = e - 2
    <3> DEFINE pat == <<CR, LF, CR, LF>>
    <3>1. Len(pat) = 4
      OBVIOUS
    <3>2. \A i \in Nat : i + Len(pat) - 1 = i + 3 /\ Len(s) - Len(pat) + 1 = Len(s) - 3
      BY <1>1, <3>1
    <3> HIDE DEF pat
    <3>3. SubSeq(s, e - 2, e - 2 + Len(pat) - 1) = pat
      <4>1. e - 2 \in Nat /\ (e - 2) + 1 = e - 1 /\ (e - 2) + 2 = e /\ (e - 2) + 3 = e + 1
        BY <1>3, <2>2
      <4> QED
        BY <2>2, <2>4, <3>2, <4>1 DEF pat
    <3>4. \A i \in 1..((e - 2) - 1) : SubSeq(s, i, i + Len(pat) - 1) # pat
      <4> SUFFICES ASSUME NEW i \in 1..((e - 2) - 1) PROVE SubSeq(s, i, i + Len(pat) - 1) # pat
        OBVIOUS
      <4>1. i \in Nat /\ i \in 1..(e - 3) /\ i \in 1..(Len(s) - 3)
        BY <1>3, <2>2
      <4> QED
        BY <2>3, <2>4, <3>2, <4>1 DEF pat
    <3>5. e - 2 \in 1..(Len(s) - Len(pat) + 1)
      BY <2>2, <3>2
    <3>6. Search(s, pat) = e - 2
      <4>1. FirstAt(s, pat, e - 2)
        BY <3>3, <3>4, <3>5 DEF FirstAt
      <4> QED
        BY <1>1, <3>1, <4>1, SearchFirst
    <3> QED
      BY <3>6 DEF pat
  <2> QED
    BY <1>3, <1>7, <2>1, <2>2, <2>5 DEF GetCgiBody
<1> QED
  BY <1>1, <1>6, <1>7

-----------------------------------------------------------------------------
(* The fields of the header.                                               *)

\* The colons are those of the fields.
LEMMA ColonsOfFields ==
  ASSUME NEW h, NEW d, NEW fields, NEW e, Header(h, d, fields, e)
  PROVE  Colons(h) = {FieldAt(d, m) : m \in 1..Len(fields)}
<1> DEFINE n == Len(fields)
           places == {FieldAt(d, m) : m \in 1..n}
<1>1. d \in {2, 3} /\ DOMAIN h = 1..(e + d - 2)
  BY DEF Header
<1>2. Placed(h, d, fields, e)
  BY LinePlaces
<1>3. ASSUME NEW i \in DOMAIN h, IsField(h[i]) PROVE \E m \in 1..n : i = FieldAt(d, m)
  <2>1. i \in 1..(e + d - 2)
    BY <1>1
  <2>2. \/ \E m \in 1..n : i = FieldAt(d, m)
        \/ h[i] = LF \/ h[i] = CR
    BY <2>1, HeaderSymbols
  <2> QED
    BY <1>3, <2>2, SymbolsDiffer
<1>4. ASSUME NEW m \in 1..n
      PROVE  FieldAt(d, m) \in DOMAIN h /\ IsField(h[FieldAt(d, m)])
  <2>1. /\ FieldAt(d, m) \in Nat /\ FieldAt(d, m) >= 1 /\ FieldAt(d, m) + d <= e /\ e \in Nat
        /\ h[FieldAt(d, m)] \in FieldSymbols
    BY <1>2 DEF Placed
  <2> QED
    BY <1>1, <2>1, SymbolsDiffer
<1>5. ASSUME NEW m \in 1..n, NEW j \in 1..(FieldAt(d, m) - 1), IsField(h[j])
      PROVE  \E k \in j..FieldAt(d, m) : h[k] = LF
  <2>1. j \in DOMAIN h /\ FieldAt(d, m) \in Nat
    BY <1>1, <1>2, <1>4 DEF Placed
  <2>2. PICK p \in 1..n : j = FieldAt(d, p)
    BY <1>3, <1>5, <2>1
  <2>3. FieldAt(d, p) + d <= FieldAt(d, m)
    BY <1>1, <1>2, <1>5, <2>2 DEF FieldAt, Placed
  <2>4. h[j + d - 1] = LF /\ j + d - 1 \in j..FieldAt(d, m)
    BY <1>1, <1>2, <2>1, <2>2, <2>3, SMTT(30) DEF Placed
  <2> QED
    BY <2>4
<1>6. Colons(h) \subseteq places
  BY <1>3 DEF Colons
<1>7. places \subseteq Colons(h)
  BY <1>4, <1>5 DEF Colons
<1> QED
  BY <1>6, <1>7

\* The key of a field begins on its own line.
LEMMA KeyOnItsLine ==
  ASSUME NEW h, NEW d, NEW fields, NEW e, Header(h, d, fields, e), NEW m \in 1..Len(fields)
  PROVE  Before(h, FieldAt(d, m)) = FieldAt(d, m)
<1> DEFINE n == Len(fields)
           i == FieldAt(d, m)
           ends == {k \in 1..i : h[k] = LF /\ \E j \in Colons(h) : j < k}
           near == {k \in ends : \A j \in Colons(h) : j < i => j < k}
<1>1. d \in {2, 3} /\ n \in Nat
  BY DEF Header
<1>2. Placed(h, d, fields, e) /\ Colons(h) = {FieldAt(d, p) : p \in 1..n}
  BY LinePlaces, ColonsOfFields
<1>3. i \in Nat /\ i >= 1 /\ h[i] # LF
  BY <1>2, SymbolsDiffer DEF Placed
<1>4. Before(h, i) = IF ends = {} THEN 1 ELSE Min(near) + 1
  BY DEF Before
<1>5. CASE m = 1
  <2>1. i = 1
    BY <1>1, <1>5 DEF FieldAt
  <2>2. ends = {}
    BY <1>3, <2>1
  <2> QED
    BY <1>4, <2>1, <2>2
<1>6. CASE m # 1
  <2> DEFINE q == FieldAt(d, m - 1)
  <2>1. m - 1 \in 1..n /\ (m - 1) + 1 = m
    BY <1>1, <1>6
  <2>2. q \in Nat /\ q >= 1 /\ q + d = i /\ h[q + d - 1] = LF /\ (d = 3 => h[q + 1] = CR)
    BY <1>2, <2>1 DEF Placed
  <2>3. q \in Colons(h)
    BY <1>2, <2>1
  <2>4. \A j \in Colons(h) : j \in Nat /\ (j < i => j <= q)
    <3> SUFFICES ASSUME NEW p \in 1..n
                 PROVE  FieldAt(d, p) \in Nat /\ (FieldAt(d, p) < i => FieldAt(d, p) <= q)
      BY <1>2
    <3> QED
      BY <1>1 DEF FieldAt
  <2> HIDE DEF i, q
  <2>5. i - 1 \in near
    <3>1. i - 1 \in 1..i /\ h[i - 1] = LF /\ q < i - 1
      BY <1>1, <1>3, <2>2
    <3>2. i - 1 \in ends
      BY <2>3, <3>1
    <3>3. \A j \in Colons(h) : j < i => j < i - 1
      BY <1>3, <2>2, <2>4, <3>1
    <3> QED
      BY <3>2, <3>3
  <2>6. ASSUME NEW k \in near PROVE k = i - 1
    <3>1. k \in 1..i /\ h[k] = LF /\ q < k
      <4>1. q < i
        BY <1>1, <2>2
      <4> QED
        BY <2>3, <2>6, <4>1
    <3>2. k # i
      BY <1>3, <3>1
    <3>3. d = 3 => k # q + 1
      BY <2>2, <3>1, SymbolsDiffer
    <3> QED
      BY <1>1, <1>3, <2>2, <3>1, <3>2, <3>3
  <2>7. near = {i - 1} /\ i - 1 \in Nat
    BY <1>3, <2>5, <2>6
  <2>8. Min({i - 1}) = i - 1
    <3> DEFINE one == {i - 1}
    <3>1. one \in SUBSET Nat /\ one # {}
      BY <2>7
    <3>2. Min(one) \in one
      <4> HIDE DEF one
      <4> QED
        BY <3>1, MinOf
    <3> QED
      BY <3>2
  <2>9. ends # {} /\ Min(near) = i - 1
    <3>1. ends # {}
      BY <2>5
    <3> HIDE DEF near
    <3> QED
      BY <2>7, <2>8, <3>1
  <2> HIDE DEF ends, near
  <2>10. Before(h, i) = i
    BY <1>3, <1>4, <2>9
  <2> QED
    BY <2>10 DEF i
<1> QED
  BY <1>5, <1>6

\* What makeCgiResponse reads of a field.
LEMMA FieldRead ==
  ASSUME NEW h, NEW d, NEW fields, NEW e, Header(h, d, fields, e), NEW m \in 1..Len(fields)
  PROVE  /\ KeyOf(h, FieldAt(d, m)) = fields[m].key
         /\ ValueOf(h, FieldAt(d, m)) = fields[m].value
<1> DEFINE i == FieldAt(d, m)
<1>1. Placed(h, d, fields, e) /\ d \in {2, 3} /\ Len(h) = e + d - 2
  BY LinePlaces DEF Header
<1>2. /\ i \in Nat /\ h[i] = fields[m] /\ h[i + d - 1] = LF /\ (d = 3 => h[i + 1] = CR)
      /\ e \in Nat
  BY <1>1 DEF Placed
<1>3. Before(h, i) = i
  BY KeyOnItsLine
<1> HIDE DEF i
<1>4. KeyOf(h, i) = h[i].key
  BY <1>2, <1>3 DEF KeyOf
<1>5. ASSUME NEW k \in (i + 1)..Len(h), \A l \in i..k : h[l] # LF PROVE h[k] = CR
  <2>1. i + d - 1 \notin i..k
    BY <1>2, <1>5
  <2>2. d = 3 /\ k = i + 1
    BY <1>1, <1>2, <2>1
  <2> QED
    BY <1>2, <2>2
<1>6. ValueOf(h, i) = h[i].value
  BY <1>5 DEF ValueOf
<1> QED
  BY <1>2, <1>4, <1>6 DEF i

\* What the header h of w says under key.
Counts(h, w, key, default) ==
  (IF LastGiven(h, key) # 0 THEN ValueOf(h, LastGiven(h, key)) ELSE default)
    = Says(w, key, default)

\* A field given twice counts as the last one says.
LEMMA LastCounts ==
  ASSUME NEW h, NEW d, NEW w, NEW e, Header(h, d, w.fields, e), NEW key, NEW default
  PROVE  Counts(h, w, key, default)
<1> DEFINE n == Len(w.fields)
           read == {i \in Colons(h) : KeyOf(h, i) = key}
           given == {m \in DOMAIN w.fields : w.fields[m].key = key}
<1>1. d \in {2, 3} /\ n \in Nat /\ DOMAIN w.fields = 1..n
  BY DEF Header
<1>2. Colons(h) = {FieldAt(d, m) : m \in 1..n}
  BY ColonsOfFields
<1>3. \A m \in 1..n : /\ KeyOf(h, FieldAt(d, m)) = w.fields[m].key
                      /\ ValueOf(h, FieldAt(d, m)) = w.fields[m].value
  BY FieldRead
<1>4. read = {FieldAt(d, m) : m \in given}
  <2>1. \A m \in given : m \in 1..n /\ w.fields[m].key = key
    BY <1>1
  <2>2. \A m \in 1..n : w.fields[m].key = key => m \in given
    BY <1>1
  <2> HIDE DEF given
  <2> QED
    BY <1>2, <1>3, <2>1, <2>2
<1>5. /\ LastGiven(h, key) = IF read = {} THEN 0 ELSE Max(read)
      /\ Says(w, key, default) = IF given = {} THEN default ELSE w.fields[Max(given)].value
  BY DEF LastGiven, Says
<1>6. given \in SUBSET Nat /\ \A k \in given : k <= n /\ k \in 1..n
  BY <1>1
<1> HIDE DEF read, given
<1>7. CASE given = {}
  BY <1>4, <1>5, <1>7 DEF Counts
<1>8. CASE given # {}
  <2>1. Max(given) \in given /\ \A k \in given : k <= Max(given)
    BY <1>1, <1>6, <1>8, MaxOf
  <2>2. FieldAt(d, Max(given)) \in read /\ \A i \in read : i <= FieldAt(d, Max(given))
    <3>1. ASSUME NEW m \in given PROVE FieldAt(d, m) <= FieldAt(d, Max(given))
      <4> DEFINE last == Max(given)
      <4>1. m \in Nat /\ last \in Nat /\ m <= last
        BY <1>6, <2>1
      <4> HIDE DEF last
      <4>2. FieldAt(d, m) <= FieldAt(d, last)
        BY <1>1, <4>1 DEF FieldAt
      <4> QED
        BY <4>2 DEF last
    <3> QED
      BY <1>4, <2>1, <3>1
  <2>3. read \in SUBSET Nat /\ FieldAt(d, Max(given)) \in Nat /\ FieldAt(d, Max(given)) >= 1
    <3>1. \A m \in given : FieldAt(d, m) \in Nat /\ FieldAt(d, m) >= 1
      BY <1>1, <1>6 DEF FieldAt
    <3> QED
      BY <1>4, <2>1, <3>1
  <2>4. Max(read) \in read /\ \A i \in read : i <= Max(read)
    BY <2>2, <2>3, MaxOf
  <2>5. Max(read) = FieldAt(d, Max(given))
    <3> DEFINE a == FieldAt(d, Max(given))
               b == Max(read)
    <3>1. a \in Nat /\ b \in Nat /\ a <= b /\ b <= a
      BY <2>2, <2>3, <2>4
    <3> HIDE DEF a, b
    <3>2. a = b
      BY <3>1
    <3> QED
      BY <3>2 DEF a, b
  <2>6. LastGiven(h, key) = FieldAt(d, Max(given)) /\ LastGiven(h, key) # 0
    BY <1>5, <2>2, <2>3, <2>5
  <2> QED
    BY <1>3, <1>5, <1>6, <1>8, <2>1, <2>6 DEF Counts
<1> QED
  BY <1>7, <1>8

\* Says is a number, and no more than the body if the script is honest.
LEMMA SaidLength ==
  ASSUME NEW w, w.fields \in Seq(FieldSymbols), w.body \in Seq(Symbols), Honest(w)
  PROVE  /\ Says(w, "length", Len(w.body)) \in Nat
         /\ Says(w, "length", Len(w.body)) <= Len(w.body)
<1> DEFINE given == {i \in DOMAIN w.fields : w.fields[i].key = "length"}
           n == Len(w.fields)
<1>1. \A default : Says(w, "length", default) =
                     IF given = {} THEN default ELSE w.fields[Max(given)].value
  BY DEF Says
<1>2. n \in Nat /\ given \in SUBSET (1..n) /\ Len(w.body) \in Nat
  OBVIOUS
<1> HIDE DEF given
<1>3. given # {} => Max(given) \in 1..n
  <2>1. given \in SUBSET Nat /\ \A k \in given : k <= n
    BY <1>2
  <2>2. given # {} => Max(given) \in given
    BY <1>2, <2>1, MaxOf
  <2> QED
    BY <1>2, <2>2
<1>4. given # {} => w.fields[Max(given)].value \in Nat
  <2>1. \A i \in 1..n : w.fields[i] \in FieldSymbols
    OBVIOUS
  <2> QED
    BY <1>3, <2>1, SymbolsDiffer
<1> QED
  BY <1>1, <1>2, <1>4 DEF Honest

\* What stands behind the header.
LEMMA BodyThere ==
  ASSUME NEW s, NEW d, NEW fields, NEW e, NEW body, LaidOut(s, d, fields, e, body),
         NEW length \in Nat, length <= Len(body)
  PROVE  SubSeq(s, e + d - 1, e + d - 1 + length - 1) = SubSeq(body, 1, length)
<1> DEFINE g == e + d - 1
           a == SubSeq(s, g, g + length - 1)
           b == SubSeq(body, 1, length)
<1>1. /\ d \in {2, 3} /\ e \in Nat /\ e >= 1
      /\ s \in Seq(Symbols) /\ Len(body) \in Nat /\ Len(s) = g - 1 + Len(body)
      /\ body \in Seq(Symbols)
      /\ \A j \in 1..Len(body) : s[g - 1 + j] = body[j]
  BY SMTT(30) DEF LaidOut, FieldAt, Symbols
<1>2. g \in Nat /\ g >= 1 /\ g + length - 1 \in Nat
  BY <1>1
<1> HIDE DEF g
<1>3. a \in Seq(Symbols) /\ Len(a) = length /\ \A i \in 1..length : a[i] = s[g + i - 1]
  <2>1. \A i \in g..(g + length - 1) : s[i] \in Symbols
    <3>1. \A i \in g..(g + length - 1) : i \in 1..Len(s)
      BY <1>1, <1>2
    <3>2. \A i \in 1..Len(s) : s[i] \in Symbols
      BY <1>1
    <3> QED
      BY <3>1, <3>2
  <2>2. /\ a \in Seq(Symbols)
        /\ Len(a) = IF g <= g + length - 1 THEN g + length - 1 - g + 1 ELSE 0
        /\ \A i \in 1..(g + length - 1 - g + 1) : a[i] = s[g + i - 1]
    BY <1>2, <2>1, SubSeqProperties
  <2> HIDE DEF a
  <2> QED
    BY <1>2, <2>2
<1>4. b \in Seq(Symbols) /\ Len(b) = length /\ \A i \in 1..length : b[i] = body[i]
  <2>1. \A i \in 1..length : body[i] \in Symbols
    BY <1>1
  <2>2. /\ b \in Seq(Symbols) /\ Len(b) = IF 1 <= length THEN length - 1 + 1 ELSE 0
        /\ \A i \in 1..(length - 1 + 1) : b[i] = body[1 + i - 1]
    BY <2>1, SubSeqProperties
  <2> HIDE DEF b
  <2> QED
    BY <2>2
<1> HIDE DEF a, b
<1>5. \A i \in 1..length : a[i] = b[i]
  <2>1. ASSUME NEW i \in 1..length PROVE a[i] = b[i]
    <3>1. i \in 1..Len(body) /\ g + i - 1 = g - 1 + i
      BY <1>1, <1>2
    <3> QED
      BY <1>1, <1>3, <1>4, <3>1
  <2> QED
    BY <2>1
<1>6. a = b
  BY <1>3, <1>4, <1>5
<1> QED
  BY <1>6 DEF a, b, g

\* makeCgiResponse: the status, the length and the body are those meant.
LEMMA ResponseMeant ==
  ASSUME NEW w \in Outputs, NEW r, EndFound(w), Honest(w)
  PROVE  MakeCgiResponse(Written(w), r.method) = Meant(w, r)
<1> DEFINE s == Written(w)
           d == LineLength(w)
           e == FieldAt(d, Len(w.fields) + 1)
           h == SubSeq(s, 1, e + d - 2)
           g == GetCgiBody(s)
           n == Len(w.body)
           length == Says(w, "length", n)
<1>1. LaidOut(s, d, w.fields, e, w.body)
  BY WrittenLaidOut DEF EndFound
<1>2. d = 3 => Search(<<LF>> \o w.body, <<LF, LF>>) = 0
  BY DEF EndFound, LineLength
<1>3. /\ d \in {2, 3} /\ e \in Nat /\ e >= 1 /\ n \in Nat
      /\ s \in Seq(Symbols) /\ Len(s) = e + d - 2 + n
      /\ w.fields \in Seq(FieldSymbols) /\ w.body \in Seq(Symbols)
  BY <1>1, SMTT(30) DEF LaidOut, FieldAt, Symbols
<1> HIDE DEF e, d, s
<1>4. g = e + d - 1
  BY <1>1, <1>2, HeaderEnds
<1>5. Header(h, d, w.fields, e)
  BY <1>1, OutputHeader
<1>6. SubSeq(s, 1, g - 1) = h /\ Len(s) - g + 1 = n /\ g # 0 /\ g \in Nat
  <2>1. g - 1 = e + d - 2
    BY <1>3, <1>4
  <2>2. Len(s) - g + 1 = n /\ g # 0 /\ g \in Nat
    <3>1. d \in {2, 3} /\ e \in Nat /\ e >= 1 /\ n \in Nat /\ Len(s) = e + d - 2 + n
      BY <1>3
    <3> HIDE DEF g, n
    <3> QED
      BY <1>4, <3>1
  <2> QED
    BY <2>1, <2>2
<1> HIDE DEF h, g
<1>7. /\ \A default : (IF LastGiven(h, "length") # 0 THEN ValueOf(h, LastGiven(h, "length"))
                       ELSE default) = Says(w, "length", default)
      /\ \A default : (IF LastGiven(h, "status") # 0 THEN ValueOf(h, LastGiven(h, "status"))
                       ELSE default) = Says(w, "status", default)
  <2>1. ASSUME NEW key, NEW default
        PROVE  Counts(h, w, key, default)
    BY <1>5, LastCounts
  <2> QED
    BY <2>1 DEF Counts
<1>8. BodyLength(s) = length
  <2>1. BodyLength(s) = IF LastGiven(h, "length") # 0 THEN ValueOf(h, LastGiven(h, "length")) ELSE n
    BY <1>6 DEF BodyLength, g
  <2> QED
    BY <1>7, <2>1
<1>9. length \in Nat /\ length <= n
  BY <1>3, SaidLength
<1> HIDE DEF length
<1>10. Overread(s) = length - n
  BY <1>6, <1>8 DEF Overread, g
<1>11. Max({0, Overread(s)}) = 0
  <2> DEFINE over == length - n
  <2>1. over \in Int /\ over <= 0
    BY <1>3, <1>9
  <2> HIDE DEF over
  <2>2. Max({0, over}) = 0
    BY <2>1 DEF Max
  <2> QED
    BY <1>10, <2>2 DEF over
<1>12. s \o [i \in 1..Max({0, Overread(s)}) |-> Zero] = s
  <2>1. [i \in 1..0 |-> Zero] = <<>>
    OBVIOUS
  <2> QED
    BY <1>3, <1>11, <2>1, ConcatEmptySeq
<1>13. SubSeq(s, g, g + length - 1) = SubSeq(w.body, 1, length)
  BY <1>1, <1>4, <1>9, BodyThere, SMTT(30)
<1>14. MakeCgiResponse(s, r.method) =
         Response(IF LastGiven(h, "status") # 0 THEN ValueOf(h, LastGiven(h, "status")) ELSE 200,
                  length, IF r.method = "HEAD" THEN <<>> ELSE SubSeq(w.body, 1, length))
  BY <1>6, <1>8, <1>12, <1>13, ZenonT(30) DEF MakeCgiResponse, g
<1>15. Meant(w, r) =
         Response(Says(w, "status", 200), length,
                  IF r.method = "HEAD" THEN <<>> ELSE SubSeq(w.body, 1, length))
  BY DEF Meant, length
<1> QED
  BY <1>7, <1>14, <1>15 DEF s

\* An output without an end of a header is a failure.
LEMMA HeadlessFails ==
  ASSUME NEW w \in Headless, NEW method
  PROVE  MakeCgiResponse(Written(w), method) = Failure(502)
<1>1. Search(Written(w), <<LF, LF>>) = 0 /\ Search(Written(w), <<CR, LF, CR, LF>>) = 0
  BY DEF Headless
<1>2. GetCgiBody(Written(w)) = 0
  BY <1>1 DEF GetCgiBody
<1> QED
  BY <1>2 DEF MakeCgiResponse

-----------------------------------------------------------------------------
(* The types of responses.                                                 *)

LEMMA SearchWithin ==
  ASSUME NEW s \in Seq(Symbols), NEW pat, Len(pat) \in Nat, Search(s, pat) # 0
  PROVE  Search(s, pat) \in Nat /\ Search(s, pat) + Len(pat) - 1 <= Len(s)
<1> DEFINE k == Search(s, pat)
<1>1. Finds(k, s, pat)
  BY SearchFinds
<1>2. Len(s) \in Nat
  OBVIOUS
<1> HIDE DEF k
<1>3. k # 0 => k \in Nat /\ k + Len(pat) - 1 <= Len(s)
  BY <1>1, <1>2 DEF Finds
<1> QED
  BY <1>3 DEF k

\* A body starts within the output or at its end.
LEMMA BodyWithin ==
  ASSUME NEW s \in Seq(Symbols)
  PROVE  GetCgiBody(s) \in 0..(Len(s) + 1)
<1> DEFINE lf == <<LF, LF>>
           crlf == <<CR, LF, CR, LF>>
<1>1. Len(lf) = 2 /\ Len(crlf) = 4 /\ Len(s) \in Nat
  OBVIOUS
<1>2. GetCgiBody(s) = IF Search(s, lf) # 0 THEN Search(s, lf) + 2
                      ELSE IF Search(s, crlf) # 0 THEN Search(s, crlf) + 4 ELSE 0
  BY DEF GetCgiBody
<1> HIDE DEF lf, crlf
<1>3. Search(s, lf) # 0 => Search(s, lf) \in Nat /\ Search(s, lf) + 1 <= Len(s)
  <2>1. ASSUME Search(s, lf) # 0
        PROVE  Search(s, lf) \in Nat /\ Search(s, lf) + Len(lf) - 1 <= Len(s)
    <3>1. Len(lf) \in Nat
      BY <1>1
    <3> QED
      BY <2>1, <3>1, SearchWithin, Zenon
  <2> QED
    BY <1>1, <2>1
<1>4. Search(s, crlf) # 0 => Search(s, crlf) \in Nat /\ Search(s, crlf) + 3 <= Len(s)
  <2>1. ASSUME Search(s, crlf) # 0
        PROVE  Search(s, crlf) \in Nat /\ Search(s, crlf) + Len(crlf) - 1 <= Len(s)
    <3>1. Len(crlf) \in Nat
      BY <1>1
    <3> QED
      BY <2>1, <3>1, SearchWithin, Zenon
  <2> QED
    BY <1>1, <2>1
<1> QED
  BY <1>1, <1>2, <1>3, <1>4

\* What a header says is a number.
LEMMA ValuesAreNumbers ==
  ASSUME NEW h \in Seq(Symbols), NEW key, LastGiven(h, key) # 0
  PROVE  ValueOf(h, LastGiven(h, key)) \in Nat
<1> DEFINE given == {i \in Colons(h) : KeyOf(h, i) = key}
           n == Len(h)
<1>1. LastGiven(h, key) = IF given = {} THEN 0 ELSE Max(given)
  BY DEF LastGiven
<1>2. n \in Nat /\ given \in SUBSET (1..n) /\ \A i \in given : IsField(h[i])
  BY DEF Colons
<1> HIDE DEF given
<1>3. LastGiven(h, key) \in given
  <2>1. given # {} /\ given \in SUBSET Nat /\ \A k \in given : k <= n
    BY <1>1, <1>2
  <2>2. Max(given) \in given
    BY <1>2, <2>1, MaxOf
  <2> QED
    BY <1>1, <2>1, <2>2
<1> DEFINE i == LastGiven(h, key)
<1> HIDE DEF i
<1>4. i \in 1..n /\ IsField(h[i])
  BY <1>2, <1>3 DEF i
<1>5. h[i] \in Symbols
  BY <1>4
<1>6. h[i] \in FieldSymbols
  BY <1>4, <1>5 DEF Symbols, IsField, CR, LF, Text, Zero
<1>7. h[i].value \in Nat
  BY <1>6, SymbolsDiffer
<1>8. ValueOf(h, i) \in Nat
  BY <1>7 DEF ValueOf
<1> QED
  BY <1>8 DEF i

\* Whatever was written, the response is one.
LEMMA ResponseType ==
  ASSUME NEW s \in Seq(Symbols), NEW method
  PROVE  MakeCgiResponse(s, method) \in Responses
<1> DEFINE g == GetCgiBody(s)
           h == SubSeq(s, 1, g - 1)
           length == BodyLength(s)
           over == Overread(s)
           most == Max({0, over})
           zeros == [i \in 1..most |-> Zero]
           t == s \o zeros
           there == SubSeq(t, g, g + length - 1)
           status == IF LastGiven(h, "status") # 0 THEN ValueOf(h, LastGiven(h, "status")) ELSE 200
           n == Len(s)
<1>1. n \in Nat /\ g \in 0..(n + 1)
  BY BodyWithin
<1>2. MakeCgiResponse(s, method) =
        IF g = 0 THEN Failure(502)
        ELSE Response(status, length, IF method = "HEAD" THEN <<>> ELSE there)
  BY DEF MakeCgiResponse
<1>3. length = IF LastGiven(h, "length") # 0 THEN ValueOf(h, LastGiven(h, "length"))
               ELSE n - g + 1
  BY DEF BodyLength
<1>4. over = length - (n - g + 1)
  BY DEF Overread
<1> HIDE DEF g, length, over
<1>5. h \in Seq(Symbols)
  <2>1. \A i \in 1..(g - 1) : s[i] \in Symbols
    BY <1>1
  <2>2. 1 \in Int /\ g - 1 \in Int
    BY <1>1
  <2> QED
    BY <2>1, <2>2, SubSeqProperties
<1> HIDE DEF h
<1>6. status \in Nat /\ length \in Nat
  BY <1>1, <1>3, <1>5, ValuesAreNumbers
<1>7. most \in Nat /\ over <= most
  <2>1. over \in Int
    BY <1>1, <1>4, <1>6
  <2>2. \E x \in {0, over} : \A y \in {0, over} : x >= y
    BY <2>1
  <2>3. most \in {0, over} /\ \A y \in {0, over} : most >= y
    BY <2>2 DEF Max
  <2> HIDE DEF most
  <2> QED
    BY <2>1, <2>3
<1> HIDE DEF most
<1>8. zeros \in Seq(Symbols) /\ Len(zeros) = most
  BY <1>7 DEF Symbols
<1> HIDE DEF zeros
<1>9. t \in Seq(Symbols) /\ Len(t) = n + most
  BY <1>8, ConcatProperties
<1> HIDE DEF t
<1>10. g # 0 => there \in Seq(Symbols)
  <2>1. ASSUME g # 0, NEW i \in g..(g + length - 1) PROVE t[i] \in Symbols
    <3>1. i \in 1..Len(t)
      BY <1>1, <1>4, <1>6, <1>7, <1>9, <2>1
    <3> QED
      BY <1>9, <3>1
  <2>2. g \in Int /\ g + length - 1 \in Int
    BY <1>1, <1>6
  <2> QED
    BY <2>1, <2>2, SubSeqProperties
<1> HIDE DEF there, status
<1>11. Failure(502) \in Responses /\ <<>> \in Seq(Symbols)
  BY DEF Failure, Response, Responses
<1>12. \A body \in Seq(Symbols) : Response(status, length, body) \in Responses
  BY <1>6 DEF Response, Responses
<1> QED
  BY <1>2, <1>10, <1>11, <1>12, ZenonT(30)

LEMMA WrittenType ==
  ASSUME NEW w \in Outputs
  PROVE  Written(w) \in Seq(Symbols)
<1>1. CASE w.eol = "none"
  <2>1. w.body \in Seq({CR, LF, Text} \union FieldSymbols)
    BY OutputsAssumption
  <2>2. w.body \in Seq(Symbols)
    BY <2>1 DEF Symbols
  <2> QED
    BY <1>1, <2>2 DEF Written
<1>2. CASE w.eol # "none"
  BY <1>2, WrittenLaidOut DEF LaidOut
<1> QED
  BY <1>1, <1>2

-----------------------------------------------------------------------------
(* What handlers answer.                                                   *)

\* A response is made, and what the script wrote is where it is made from.
Answering ==
  /\ \A s \in Sessions :
       handler[s].state = "answered" =>
         handler[s] \in [state : {"answered"}, pid : Pids \union {None, NoPid},
                         response : Responses]
  /\ \A p \in Pids :
       proc[p].kind \in Ours /\ proc[p].exited => handler[proc[p].of].out \in Outputs
  /\ crashed \in BOOLEAN

\* What parentCgi answers with.
Reply(s) ==
  IF proc[handler[s].pid].exited THEN MakeCgiResponse(Written(handler[s].out), handler[s].req.method)
  ELSE Failure(502)

LEMMA ReplyMade ==
  ASSUME CgiInv, Answering, NEW s \in Sessions, ParentCgi(s)
  PROVE  /\ handler' = [handler EXCEPT ![s] = Answered(handler[s].pid, Reply(s))]
         /\ Reply(s) \in Responses /\ handler[s].pid \in Pids
         /\ handler[s].req \in Requests
         /\ proc[handler[s].pid].exited => handler[s].out \in Outputs
         /\ crashed' \in BOOLEAN
<1> DEFINE p == handler[s].pid
           w == handler[s].out
           answer == ResponseTo[w][handler[s].req.method]
<1>1. /\ at = s /\ p \in Pids /\ proc[p].kind \in Ours /\ proc[p].of = s
      /\ handler[s] \in LiveHandlers /\ handler[s].req \in Requests
  BY NamesAssumption DEF ParentCgi, CgiInv, Waiting, LiveHandlers
<1>2. proc[p].exited => w \in Outputs
  BY <1>1 DEF Answering
<1>3. handler[s].req.method \in Methods
  BY <1>1, RequestsAssumption
<1>4. proc[p].exited => answer.response = MakeCgiResponse(Written(w), handler[s].req.method)
  BY <1>2, <1>3 DEF ResponseTo
<1>5. /\ handler' = [handler EXCEPT
           ![s] = Answered(p, IF proc[p].exited THEN answer.response ELSE Failure(502))]
      /\ crashed' \in BOOLEAN
  BY DEF ParentCgi
<1>6. (IF proc[p].exited THEN answer.response ELSE Failure(502)) = Reply(s)
  BY <1>4 DEF Reply
<1>7. Reply(s) \in Responses
  <2>1. Failure(502) \in Responses
    BY DEF Failure, Response, Responses
  <2> QED
    BY <1>2, <2>1, WrittenType, ResponseType DEF Reply
<1> HIDE DEF answer
<1> QED
  BY <1>1, <1>2, <1>5, <1>6, <1>7, ZenonT(30)

\* A step of the loop after which no process is the server's.
LEMMA LoopAnswering ==
  ASSUME CgiInv', Answering, at' = None, crashed' \in BOOLEAN,
         \A s \in Sessions :
           \/ handler'[s] = handler[s]
           \/ handler'[s].state = "answered" =>
                handler'[s] \in [state : {"answered"}, pid : Pids \union {None, NoPid},
                                 response : Responses]
  PROVE  Answering'
<1>1. \A p \in Pids : proc'[p].kind \notin Ours
  BY DEF CgiInv, OneScript
<1> QED
  BY <1>1 DEF Answering

LEMMA StepAnswering ==
  ASSUME CgiInv, CgiInv', Answering, [Next]_vars
  PROVE  Answering'
<1>0. /\ crashed \in BOOLEAN /\ DOMAIN handler = Sessions
      /\ proc \in [Pids -> Processes]
  BY DEF Answering, CgiInv, Shapes
<1>1. CASE \E s \in Sessions : Accept(s)
  BY <1>0, <1>1, LoopAnswering DEF Accept, InLoop
<1>2. CASE \E s \in Sessions, r \in Requests : HandleRequest(s, r)
  <2>1. PICK s \in Sessions, r \in Requests : HandleRequest(s, r)
    BY <1>2
  <2>2. handler' = [handler EXCEPT ![s] = NewHandler(r)] /\ at' = None /\ crashed' = crashed
    BY <2>1 DEF HandleRequest, InLoop
  <2>3. NewHandler(r).state # "answered"
    BY DEF NewHandler
  <2>4. \A t \in Sessions : handler'[t] = handler[t] \/ handler'[t].state # "answered"
    BY <1>0, <2>2, <2>3
  <2> QED
    BY <1>0, <2>2, <2>4, LoopAnswering
<1>3. CASE \E s \in Sessions : RunCgiFails(s)
  <2>1. PICK s \in Sessions : RunCgiFails(s)
    BY <1>3
  <2>2. /\ handler' = [handler EXCEPT ![s] = Answered(None, Failure(500))]
        /\ at' = None /\ crashed' = crashed
    BY <2>1 DEF RunCgiFails, InLoop
  <2>3. Answered(None, Failure(500)) \in
          [state : {"answered"}, pid : Pids \union {None, NoPid}, response : Responses]
    BY DEF Answered, Failure, Response, Responses
  <2> QED
    BY <1>0, <2>2, <2>3, LoopAnswering
<1>4. CASE \E s \in Sessions : RunCgi(s)
  <2>1. PICK s \in Sessions : RunCgi(s)
    BY <1>4
  <2>2. /\ at = None /\ crashed' = crashed /\ InLoop
        /\ \/ handler' = [handler EXCEPT ![s] = Answered(NoPid, Failure(500))] /\ at' = at
           \/ \E p \in FreePids : \E input :
                /\ handler' = [handler EXCEPT ![s].state = "running", ![s].pid = p,
                                              ![s].stdin = input]
                /\ proc' = [proc EXCEPT ![p] = Process("child", s, open)]
    BY <2>1 DEF RunCgi, InLoop
  <2>3. CASE handler' = [handler EXCEPT ![s] = Answered(NoPid, Failure(500))] /\ at' = at
    <3>1. Answered(NoPid, Failure(500)) \in
            [state : {"answered"}, pid : Pids \union {None, NoPid}, response : Responses]
      BY DEF Answered, Failure, Response, Responses
    <3> QED
      BY <1>0, <2>2, <2>3, <3>1, LoopAnswering
  <2>4. CASE \E p \in FreePids : \E input :
               /\ handler' = [handler EXCEPT ![s].state = "running", ![s].pid = p,
                                             ![s].stdin = input]
               /\ proc' = [proc EXCEPT ![p] = Process("child", s, open)]
    <3>0. PICK p \in FreePids : \E input :
               /\ handler' = [handler EXCEPT ![s].state = "running", ![s].pid = p,
                                             ![s].stdin = input]
               /\ proc' = [proc EXCEPT ![p] = Process("child", s, open)]
      BY <2>4
    <3>1. PICK input :
               /\ handler' = [handler EXCEPT ![s].state = "running", ![s].pid = p,
                                             ![s].stdin = input]
               /\ proc' = [proc EXCEPT ![p] = Process("child", s, open)]
      BY <3>0
    <3>2. \A q \in Pids : proc'[q].kind \in Ours => ~proc'[q].exited
      BY <1>0, <2>2, <3>1, NoneInLoop DEF Process, FreePids
    <3>3. \A t \in Sessions : t # s => handler'[t] = handler[t]
      BY <1>0, <3>1
    <3>4. handler'[s].state # "answered"
      <4>1. handler[s].state = "ready" /\ HandlerKnown(handler[s])
        BY <2>1 DEF RunCgi, CgiInv, Shapes
      <4>2. handler[s] \in LiveHandlers
        BY <4>1 DEF HandlerKnown, NoHandler
      <4> QED
        BY <1>0, <3>1, <4>2 DEF LiveHandlers
    <3> QED
      <4>1. \A t \in Sessions : handler'[t] = handler[t] \/ handler'[t].state # "answered"
        BY <3>3, <3>4
      <4>2. crashed' \in BOOLEAN
        BY <1>0, <2>2
      <4> QED
        BY <3>2, <4>1, <4>2 DEF Answering
  <2> QED
    BY <2>2, <2>3, <2>4
<1>5. CASE \E p \in Pids : ForkCgi(p)
  <2>1. PICK p \in Pids : ForkCgi(p)
    BY <1>5
  <2>2. PICK kind \in {"script", "zombie"} : proc' = [proc EXCEPT ![p].kind = kind]
    BY <2>1 DEF ForkCgi
  <2>3. /\ proc[p].kind \in Ours /\ UNCHANGED <<handler, crashed>>
        /\ proc'[p].exited = proc[p].exited /\ proc'[p].of = proc[p].of
        /\ \A q \in Pids : q # p => proc'[q] = proc[q]
    BY <1>0, <2>1, <2>2 DEF ForkCgi, Ours, Processes
  <2> QED
    BY <2>3 DEF Answering
<1>6. CASE \E p \in Pids : ScriptEnds(p)
  <2>1. PICK p \in Pids : ScriptEnds(p)
    BY <1>6
  <2>2. proc[p].kind \in Ours
    BY <2>1 DEF ScriptEnds, Ours
  <2>3. /\ at \in Sessions /\ at = proc[p].of
        /\ handler[at] \in LiveHandlers
    BY <2>2, WaitsFor
  <2>4. PICK w \in Outputs, exited \in BOOLEAN :
          /\ handler' = [handler EXCEPT ![at].out = w]
          /\ proc' = [proc EXCEPT ![p].kind = "zombie", ![p].exited = exited]
    BY <2>1, <2>3 DEF ScriptEnds
  <2>5. UNCHANGED <<at, crashed>>
    BY <2>1 DEF ScriptEnds
  <2>6. \A q \in Pids : proc'[q].kind \in Ours => proc'[q].of = at
    BY <2>5 DEF CgiInv, OneScript
  <2>7. /\ handler'[at].out = w /\ handler'[at].state = handler[at].state
        /\ handler[at].state # "answered"
        /\ \A t \in Sessions : t # at => handler'[t] = handler[t]
    BY <1>0, <2>3, <2>4 DEF LiveHandlers
  <2> QED
    BY <1>0, <2>5, <2>6, <2>7 DEF Answering
<1>7. CASE \E s \in Sessions : ParentCgi(s)
  <2>1. PICK s \in Sessions : ParentCgi(s)
    BY <1>7
  <2>2. /\ handler' = [handler EXCEPT ![s] = Answered(handler[s].pid, Reply(s))]
        /\ Reply(s) \in Responses /\ handler[s].pid \in Pids /\ crashed' \in BOOLEAN
    BY <2>1, ReplyMade
  <2>3. Answered(handler[s].pid, Reply(s)) \in
          [state : {"answered"}, pid : Pids \union {None, NoPid}, response : Responses]
    BY <2>2 DEF Answered
  <2>4. at' = None
    BY <2>1 DEF ParentCgi
  <2> QED
    BY <1>0, <2>2, <2>3, <2>4, LoopAnswering
<1>8. CASE \E s \in Sessions, keeps \in BOOLEAN : Over(s, keeps)
  <2>1. PICK s \in Sessions, keeps \in BOOLEAN : Over(s, keeps)
    BY <1>8
  <2>2. handler' = [handler EXCEPT ![s] = NoHandler] /\ at' = None /\ crashed' = crashed
    BY <2>1 DEF Over, InLoop
  <2>3. NoHandler.state # "answered"
    BY DEF NoHandler
  <2>4. \A t \in Sessions : handler'[t] = handler[t] \/ handler'[t].state # "answered"
    BY <1>0, <2>2, <2>3
  <2> QED
    BY <1>0, <2>2, <2>4, LoopAnswering
<1>9. CASE \E p \in Pids : Elsewhere(p)
  <2>1. PICK p \in Pids : Elsewhere(p)
    BY <1>9
  <2>2. /\ UNCHANGED <<handler, crashed>>
        /\ \A q \in Pids : q # p => proc'[q] = proc[q]
        /\ proc'[p].kind \notin Ours
    BY <1>0, <2>1 DEF Elsewhere, Process, NoProcess, Ours
  <2> QED
    BY <2>2 DEF Answering
<1>10. CASE UNCHANGED vars
  BY <1>10 DEF vars, Answering
<1> QED
  BY <1>1, <1>2, <1>3, <1>4, <1>5, <1>6, <1>7, <1>8, <1>9, <1>10 DEF Next

LEMMA AnsweringInvariant == Spec => []Answering
<1>1. Init => Answering
  <2> SUFFICES ASSUME Init PROVE Answering
    OBVIOUS
  <2>1. \A s \in Sessions : handler[s].state # "answered"
    BY DEF Init, NoHandler
  <2>2. \A p \in Pids : proc[p].kind \notin Ours
    BY DEF Init, NoProcess, Process, Ours
  <2>3. crashed \in BOOLEAN
    BY DEF Init
  <2> QED
    BY <2>1, <2>2, <2>3 DEF Answering
<1>2. CgiInv /\ CgiInv' /\ Answering /\ [Next]_vars => Answering'
  BY StepAnswering
<1> QED
  BY <1>1, <1>2, CgiInvariant, PTL DEF Spec

-----------------------------------------------------------------------------
(* The theorems.                                                           *)

\* However many sessions ask for scripts, and whatever numbers the kernel
\* gives: the server has one child at most, the one runCgi() is waiting for,
\* and it holds just the connections that are open.
THEOREM OneScriptAtATime == Spec => []OneScript
<1>1. CgiInv => OneScript
  BY DEF CgiInv
<1> QED
  BY <1>1, CgiInvariant, PTL

\* The destructor kills a number it kept, or every process when fork() failed;
\* no step of any session ever kills a script that runs.
THEOREM ScriptsRunOn == Spec => ScriptsUndisturbed
<1> DEFINE Undisturbed ==
      \A p \in Pids :
        proc[p].kind = "script" =>
          proc'[p].kind \in {"script", "zombie"} /\ proc'[p].of = proc[p].of
<1>1. ASSUME CgiInv, [Next]_vars, NEW p \in Pids, proc[p].kind = "script"
      PROVE  proc'[p].kind \in {"script", "zombie"} /\ proc'[p].of = proc[p].of
  <2>1. proc \in [Pids -> Processes] /\ proc[p].kind \in Ours /\ ~InLoop
    BY <1>1, NoneInLoop DEF CgiInv, Shapes, Ours
  <2>2. CASE \E q \in Pids : ForkCgi(q)
    BY <1>1, <2>1, <2>2 DEF ForkCgi, Processes
  <2>3. CASE \E q \in Pids : ScriptEnds(q)
    BY <1>1, <2>1, <2>3 DEF ScriptEnds, Processes
  <2>4. CASE \E s \in Sessions : ParentCgi(s)
    <3>1. PICK s \in Sessions : ParentCgi(s)
      BY <2>4
    <3>2. handler[s].pid = p /\ proc[p].kind = "zombie"
      BY <1>1, <2>1, <3>1, WaitsFor DEF ParentCgi
    <3> QED
      BY <1>1, <3>2
  <2>5. CASE \E q \in Pids : Elsewhere(q)
    BY <1>1, <2>1, <2>5 DEF Elsewhere, Processes
  <2>6. CASE UNCHANGED vars
    BY <1>1, <2>6 DEF vars
  <2> QED
    BY <1>1, <2>1, <2>2, <2>3, <2>4, <2>5, <2>6
    DEF Next, Accept, HandleRequest, RunCgiFails, RunCgi, Over
<1>2. CgiInv /\ [Next]_vars => [Undisturbed]_vars
  BY <1>1
<1>3. Spec => [][Undisturbed]_vars
  BY <1>2, CgiInvariant, PTL DEF Spec
<1> QED
  BY <1>3 DEF ScriptsUndisturbed

\* A script's standard input gives it the whole body and nothing else, for
\* bodies of any length, with any number of bytes behind them; and all that
\* stands behind the header of a request that has neither length nor chunks.
THEOREM BodyReachesScript == Spec => []ScriptGetsBody
<1>1. ASSUME CgiInv, NEW s \in Sessions,
             handler[s].state = "running", handler[s].req.method = "POST",
             handler[s].stdin.size = BodySize(handler[s].req),
             handler[s].req.chunked => handler[s].req.stated = -1
      PROVE  BodyRead(handler[s]) =
               IF Delimited(handler[s].req) THEN handler[s].req.body ELSE handler[s].req.extra
  <2>1. handler[s] \in LiveHandlers /\ handler[s].stdin \in Stored(handler[s].req)
    BY <1>1 DEF CgiInv, Shapes, Waiting, HandlerKnown, InputKept, NoHandler
  <2>2. handler[s].req \in Requests
    BY <2>1 DEF LiveHandlers
  <2>3. handler[s].stdin.from = 0
    BY <2>1, <2>2, StoredShape
  <2> QED
    BY <1>1, <2>2, <2>3, RequestsAssumption DEF BodyRead, ContentLength, BodySize, Delimited
<1>2. CgiInv => ScriptGetsBody
  BY <1>1 DEF ScriptGetsBody
<1> QED
  BY <1>2, CgiInvariant, PTL

\* The types: a handler is as its constructor made it, waits for a process or
\* has a response, whose fields makeCgiResponse() made of whatever the script
\* wrote; and the thread is in the one handler that waits.
THEOREM CgiTyped == Spec => []TypeOK
<1>1. ASSUME CgiInv, Answering, NEW s \in Sessions
      PROVE  handler[s] \in Handlers
  <2>1. HandlerKnown(handler[s])
    BY <1>1 DEF CgiInv, Shapes
  <2>2. handler[s] \in LiveHandlers => handler[s] \in Handlers
    BY DEF LiveHandlers, Handlers, Reads
  <2>3. handler[s] = NoHandler => handler[s] \in Handlers
    BY DEF Handlers
  <2>4. handler[s].state = "answered" => handler[s] \in Handlers
    BY <1>1 DEF Answering, Handlers
  <2> QED
    BY <2>1, <2>2, <2>3, <2>4 DEF HandlerKnown
<1>2. ASSUME CgiInv, Answering, NEW s \in Sessions
      PROVE  handler[s].state = "running" <=> at = s
  BY <1>2, NamesAssumption DEF CgiInv, Waiting
<1>3. CgiInv /\ Answering =>
        /\ open \subseteq Sessions /\ at \in open \union {None} /\ crashed \in BOOLEAN
        /\ \A p \in Pids :
             proc[p] \in [kind : ProcKinds, of : Sessions \union {None}, exited : BOOLEAN,
                         holds : SUBSET Sessions]
  BY DEF CgiInv, Shapes, Answering, Processes
<1>4. CgiInv /\ Answering => TypeOK
  BY <1>1, <1>2, <1>3 DEF TypeOK
<1> QED
  BY <1>4, CgiInvariant, AnsweringInvariant, PTL

\* The client gets what the script meant, for headers of any number of fields
\* in any order and bodies of anything, as long as the end of the header is
\* found where it is and the length that is stated is there; and 502 for an
\* output without a header, or a script that was killed.
THEOREM OutputReachesClient == Spec => OutputKept
<1> DEFINE Kept(s) ==
      handler[s].state = "running" /\ handler'[s].state = "answered" =>
        LET w == handler[s].out
            response == handler'[s].response
        IN  IF ~proc[handler[s].pid].exited \/ w \in Headless
            THEN response = Failure(502)
            ELSE EndFound(w) /\ Honest(w) => response = Meant(w, handler[s].req)
<1>1. ASSUME CgiInv, Answering, [Next]_vars, NEW s \in Sessions,
             handler[s].state = "running", handler'[s].state = "answered"
      PROVE  ParentCgi(s)
  <2>1. at = s /\ ~InLoop /\ DOMAIN handler = Sessions /\ handler[s] \in LiveHandlers
    BY <1>1, NoneInLoop, NamesAssumption DEF CgiInv, Shapes, Waiting
  <2>2. CASE \E p \in Pids : ScriptEnds(p)
    <3>1. PICK p \in Pids : \E w : handler' = [handler EXCEPT ![proc[p].of].out = w]
      BY <2>2 DEF ScriptEnds
    <3>2. PICK w : handler' = [handler EXCEPT ![proc[p].of].out = w]
      BY <3>1
    <3>3. handler'[s].state = handler[s].state
      BY <2>1, <3>2 DEF LiveHandlers
    <3> QED
      BY <1>1, <3>3
  <2>3. CASE \E t \in Sessions : ParentCgi(t)
    <3>1. PICK t \in Sessions : ParentCgi(t)
      BY <2>3
    <3>2. at = t
      BY <3>1 DEF ParentCgi
    <3> QED
      BY <2>1, <3>1, <3>2
  <2>4. CASE \E p \in Pids : ForkCgi(p)
    BY <1>1, <2>4 DEF ForkCgi
  <2>5. CASE \E p \in Pids : Elsewhere(p)
    BY <1>1, <2>5 DEF Elsewhere
  <2>6. CASE UNCHANGED vars
    BY <1>1, <2>6 DEF vars
  <2> QED
    BY <1>1, <2>1, <2>2, <2>3, <2>4, <2>5, <2>6
    DEF Next, Accept, HandleRequest, RunCgiFails, RunCgi, Over
<1>2. ASSUME CgiInv, Answering, [Next]_vars, NEW s \in Sessions
      PROVE  Kept(s)
  <2>1. SUFFICES ASSUME handler[s].state = "running", handler'[s].state = "answered"
                 PROVE  Kept(s)
    OBVIOUS
  <2> DEFINE w == handler[s].out
             r == handler[s].req
             exited == proc[handler[s].pid].exited
  <2>2. ParentCgi(s)
    BY <1>1, <1>2, <2>1
  <2>3. /\ handler' = [handler EXCEPT ![s] = Answered(handler[s].pid, Reply(s))]
        /\ exited => w \in Outputs
    BY <1>2, <2>2, ReplyMade
  <2>4. handler'[s].response = Reply(s)
    BY <1>2, <2>3 DEF CgiInv, Shapes, Answered
  <2>5. Reply(s) = IF exited THEN MakeCgiResponse(Written(w), r.method) ELSE Failure(502)
    BY DEF Reply
  <2>6. w \in Headless => MakeCgiResponse(Written(w), r.method) = Failure(502)
    BY HeadlessFails
  <2>7. exited /\ EndFound(w) /\ Honest(w) => MakeCgiResponse(Written(w), r.method) = Meant(w, r)
    BY <2>3, ResponseMeant
  <2> QED
    BY <2>4, <2>5, <2>6, <2>7
<1>3. CgiInv /\ Answering /\ [Next]_vars => [\A s \in Sessions : Kept(s)]_vars
  <2> HIDE DEF Kept
  <2> QED
    BY <1>2
<1>4. Spec => [][\A s \in Sessions : Kept(s)]_vars
  BY <1>3, CgiInvariant, AnsweringInvariant, PTL DEF Spec
<1> QED
  BY <1>4, SMTT(30) DEF OutputKept
=============================================================================
