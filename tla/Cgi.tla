-------------------------------- MODULE Cgi --------------------------------
(***************************************************************************)
(* Scripts (srcs/handlers/ACgiHandler.cpp): the one thread of the server   *)
(* forks a process for a script, waits for it, turns what it wrote into a  *)
(* response, and deletes the handler when the response is sent.  Process   *)
(* numbers are used again by the kernel, also for processes that have      *)
(* nothing to do with the server.                                          *)
(*                                                                         *)
(* A script's output is a sequence of symbols: line ends, the fields of a  *)
(* header (each a key, a colon and a value) and other text.  Each symbol   *)
(* counts as one unit of length.                                           *)
(***************************************************************************)
EXTENDS Integers, Sequences, FiniteSets, FiniteSetsExt, SequencesExt

CONSTANTS
  Sessions,   \* connections with a session, each with one request at a time
  Pids,       \* process numbers
  Requests,   \* what clients ask of a script: see RequestsAssumption
  Outputs,    \* what scripts write: see OutputsAssumption
  MaxBuffer,  \* units a FILE holds back, so that fwrite() cannot fail on them
  None        \* no session, no process

Methods == {"GET", "HEAD", "POST"}  \* those that run scripts

\* body is the number of units of the request's body, extra those the client
\* sent after it.  stated is the value of the Content-Length field, -1 if
\* there is none; chunked tells whether the body came in chunks.  A request
\* with neither has no body, but HTTPRequest::recv takes it, with what has
\* come behind its header; a POST with nothing there runs no script.
ASSUME RequestsAssumption ==
  \A r \in Requests :
    /\ r.method \in Methods /\ r.chunked \in BOOLEAN
    /\ r.body \in Nat /\ r.extra \in Nat /\ r.stated \in Nat \union {-1}
    /\ ~r.chunked => r.stated = r.body \/ (r.stated = -1 /\ r.body = 0)
    /\ r.chunked => r.extra = 0
    /\ r.method = "POST" => r.body + r.extra > 0

\* The symbols.  A field: its key, and its value as a number.
CR == [is |-> "cr"]
LF == [is |-> "lf"]
Text == [is |-> "text"]
Zero == [is |-> "zero"]  \* what the memory behind the output holds
Field(key, n) == [is |-> "field", key |-> key, value |-> n]
FieldSymbols == [is : {"field"}, key : {"status", "length", "other"}, value : Nat]
IsField(x) == x.is = "field"

\* The fields and the body a script means to send, and the line end it uses;
\* "none" if it writes the body alone.
ASSUME OutputsAssumption ==
  \A w \in Outputs :
    /\ w.eol \in {"lf", "crlf", "none"}
    /\ w.fields \in Seq(FieldSymbols) /\ w.fields # <<>>
    /\ w.body \in Seq({CR, LF, Text} \union FieldSymbols)

ASSUME NamesAssumption == None \notin Sessions /\ None \notin Pids /\ MaxBuffer \in Nat

VARIABLES
  handler,   \* the ACgiHandler object of each session, and its response
  open,      \* sessions whose connection the server has open
  at,        \* the session whose runCgi() the thread is in, or None
  proc,      \* the process table
  crashed    \* the server read memory that is not there

vars == <<handler, open, at, proc, crashed>>

-----------------------------------------------------------------------------
(* What a script writes, and what becomes of it.                           *)

Eol(w) == IF w.eol = "crlf" THEN <<CR, LF>> ELSE <<LF>>

\* The output: each field on a line, an empty line, the body.
Written(w) ==
  IF w.eol = "none" THEN w.body
  ELSE FlattenSeq([i \in DOMAIN w.fields |-> <<w.fields[i]>> \o Eol(w)]) \o Eol(w) \o w.body

\* std::search: where pat first stands in s, 0 if nowhere.
Search(s, pat) ==
  LET at_ == {i \in 1..(Len(s) - Len(pat) + 1) : SubSeq(s, i, i + Len(pat) - 1) = pat}
  IN IF at_ = {} THEN 0 ELSE Min(at_)

\* getCgiBody: where the body starts, 0 if no end of a header is found.  The
\* end of a header of LF lines is looked for in the whole output first.
GetCgiBody(s) ==
  IF Search(s, <<LF, LF>>) # 0 THEN Search(s, <<LF, LF>>) + 2
  ELSE IF Search(s, <<CR, LF, CR, LF>>) # 0 THEN Search(s, <<CR, LF, CR, LF>>) + 4
  ELSE 0

\* The fields makeCgiResponse finds in header h: it goes from a colon to the
\* end of its line and on to the next colon.
Colons(h) ==
  {i \in DOMAIN h : IsField(h[i]) /\
     \A j \in 1..(i - 1) : IsField(h[j]) => \E k \in j..i : h[k] = LF}

\* The key is what stands before the colon since the last line that had one,
\* the value what follows on the line; strTrim takes the line ends off both.
Before(h, i) ==
  LET ends == {k \in 1..i : h[k] = LF /\ \E j \in Colons(h) : j < k}
  IN IF ends = {} THEN 1
     ELSE Min({k \in ends : \A j \in Colons(h) : j < i => j < k}) + 1
KeyOf(h, i) ==
  IF \A k \in Before(h, i)..(i - 1) : h[k] \in {CR, LF} THEN h[i].key ELSE "other"
ValueOf(h, i) ==
  IF \A k \in (i + 1)..Len(h) : (\A l \in i..k : h[l] # LF) => h[k] = CR
  THEN h[i].value ELSE 0

\* A field given twice counts as the last one says.
LastGiven(h, key) ==
  LET given == {i \in Colons(h) : KeyOf(h, i) = key}
  IN IF given = {} THEN 0 ELSE Max(given)

Response(status, length, body) == [status |-> status, length |-> length, body |-> body]

\* AHandler::error, whose page is not modelled here.
Failure(status) == Response(status, 0, <<>>)

\* A variant of BodyLength: the field is passed on and not used.
BodyLengthWritten(s) == Len(s) - GetCgiBody(s) + 1

\* The length of the body, as the script's header or its output has it.
BodyLength(s) ==
  LET h == SubSeq(s, 1, GetCgiBody(s) - 1)
  IN IF LastGiven(h, "length") # 0 THEN ValueOf(h, LastGiven(h, "length"))
     ELSE Len(s) - GetCgiBody(s) + 1

\* What a header states beyond the end of the output.
Overread(s) == BodyLength(s) - (Len(s) - GetCgiBody(s) + 1)

\* makeCgiResponse: the script's status, and as many units as were stated from
\* where the body starts, whatever is there.
MakeCgiResponse(s, method) ==
  LET h == SubSeq(s, 1, GetCgiBody(s) - 1)
      there == SubSeq(s \o [i \in 1..Max({0, Overread(s)}) |-> Zero],
                      GetCgiBody(s), GetCgiBody(s) + BodyLength(s) - 1)
      status == IF LastGiven(h, "status") # 0 THEN ValueOf(h, LastGiven(h, "status")) ELSE 200
  IN IF GetCgiBody(s) = 0 THEN Failure(502)
     ELSE Response(status, BodyLength(s), IF method = "HEAD" THEN <<>> ELSE there)

\* The response to each method, and whether it is put together from memory
\* behind the output.
ResponseTo ==
  [w \in Outputs |-> [method \in Methods |->
     [response |-> MakeCgiResponse(Written(w), method),
      overread |-> /\ method # "HEAD" /\ GetCgiBody(Written(w)) # 0
                   /\ Overread(Written(w)) > 0]]]

-----------------------------------------------------------------------------
(* The request's body, as the script gets it.                              *)

\* A variant of Rewound: the file is left at its end.
NotRewound(n) == n

\* Where the file stands that becomes the script's standard input, when n
\* units have been written to it: fseek() sets it back.
Rewound(n) == 0

\* HTTPRequest::body_size: everything behind the header.
BodySize(r) == r.body + r.extra

\* The standard input after fwrite() and fflush().  A full disk is noticed
\* only by fflush(), which knows of no more than the FILE holds back.
Stored(r) ==
  {[size |-> n, from |-> Rewound(n)] :
     n \in IF BodySize(r) > MaxBuffer THEN 0..BodySize(r) ELSE {BodySize(r)}}

\* makeCgiEnv: CONTENT_LENGTH is the field the client sent.  The length of an
\* unchunked body was stored under a key that is never looked up.
ContentLength(r) == r.stated

\* The units a script takes for the body: CONTENT_LENGTH, or up to the end.
BodyRead(h) ==
  LET there == h.stdin.size - h.stdin.from
  IN IF ContentLength(h.req) # -1 /\ ContentLength(h.req) < there
     THEN ContentLength(h.req) ELSE there

-----------------------------------------------------------------------------
(* Processes.                                                              *)

\* Nobody has the number; or the server's child before execve(), the script,
\* what is left of it until waitpid(); or a process the server knows nothing
\* of, as one that a script left behind.
ProcKinds == {"free", "child", "script", "zombie", "stranger"}
Ours == {"child", "script", "zombie"}

\* holds: the connections the process has open, as its parent had.
Process(kind, s, holds) == [kind |-> kind, of |-> s, exited |-> FALSE, holds |-> holds]
NoProcess == Process("free", None, {})

FreePids == {p \in Pids : proc[p].kind = "free"}

\* What fork() returns when it fails; the destructor does not know it.
NoPid == -1

NoHandler == [state |-> "none"]
NoInput == [size |-> 0, from |-> 0]
NoOutput == [eol |-> "none", fields |-> <<Field("other", 0)>>, body |-> <<>>]

\* A variant of NewHandler: the process number starts as what fork() returns.
NewHandlerNoPid(r) ==
  [state |-> "ready", req |-> r, pid |-> NoPid, stdin |-> NoInput, out |-> NoOutput]

\* What the constructor leaves.
NewHandler(r) ==
  [state |-> "ready", req |-> r, pid |-> None, stdin |-> NoInput, out |-> NoOutput]

\* The response is made; of what it was made from, only the process number is
\* used again.
Answered(pid, response) == [state |-> "answered", pid |-> pid, response |-> response]

Init ==
  /\ handler = [s \in Sessions |-> NoHandler]
  /\ open = {}
  /\ at = None
  /\ proc = [p \in Pids |-> NoProcess]
  /\ crashed = FALSE

\* The thread is in the loop.
InLoop == at = None /\ ~crashed

Accept(s) ==
  /\ InLoop /\ s \notin open
  /\ open' = open \union {s}
  /\ UNCHANGED <<handler, at, proc, crashed>>

\* Server::handleRequest
HandleRequest(s, r) ==
  /\ InLoop /\ s \in open /\ handler[s] = NoHandler
  /\ handler' = [handler EXCEPT ![s] = NewHandler(r)]
  /\ UNCHANGED <<open, at, proc, crashed>>

\* runCgi: tmpfile(), or for a POST fflush(), fails.
RunCgiFails(s) ==
  /\ InLoop /\ handler[s].state = "ready"
  /\ handler' = [handler EXCEPT ![s] = Answered(None, Failure(500))]
  /\ UNCHANGED <<open, at, proc, crashed>>

\* A variant of Waits: waitpid() with WNOHANG.
WaitsNot(s) == None

\* The thread stays in waitpid() until the process of s has ended.
Waits(s) == s

\* runCgi: the body is in its file, and fork() fails or gives a process that
\* has everything open that the server has.  -1 is kept as the process number.
RunCgi(s) ==
  /\ InLoop /\ handler[s].state = "ready"
  /\ LET r == handler[s].req
     IN \E input \in IF r.method = "POST" THEN Stored(r) ELSE {NoInput} :
          \/ /\ handler' = [handler EXCEPT ![s] = Answered(NoPid, Failure(500))]
             /\ UNCHANGED <<at, proc>>
          \/ \E p \in FreePids :
               /\ handler' = [handler EXCEPT ![s].state = "running", ![s].pid = p,
                                             ![s].stdin = input]
               /\ proc' = [proc EXCEPT ![p] = Process("child", s, open)]
               /\ at' = Waits(s)
  /\ UNCHANGED <<open, crashed>>

\* forkCgi in the child: the script takes over, or dup2() or execve() fails
\* and the child kills itself.
ForkCgi(p) ==
  /\ proc[p].kind = "child"
  /\ \E kind \in {"script", "zombie"} : proc' = [proc EXCEPT ![p].kind = kind]
  /\ UNCHANGED <<handler, open, at, crashed>>

\* The script ends with an exit status or by a signal; it has written w.
ScriptEnds(p) ==
  /\ proc[p].kind = "script"
  /\ \E w \in Outputs, exited \in BOOLEAN :
       /\ handler' = [handler EXCEPT ![proc[p].of].out = w]
       /\ proc' = [proc EXCEPT ![p].kind = "zombie", ![p].exited = exited]
  /\ UNCHANGED <<open, at, crashed>>

\* parentCgi: waitpid() has returned; if the script was not killed its output
\* is answered with, whatever its exit status.  Reading behind the output
\* finds zeros or ends the server.
ParentCgi(s) ==
  /\ at = s /\ ~crashed
  /\ LET p == handler[s].pid
         answer == ResponseTo[handler[s].out][handler[s].req.method]
     IN /\ proc[p].kind = "zombie"
        /\ handler' = [handler EXCEPT
             ![s] = Answered(p, IF proc[p].exited THEN answer.response ELSE Failure(502))]
        /\ proc' = [proc EXCEPT ![p] = NoProcess]
        /\ crashed' \in (IF proc[p].exited /\ answer.overread THEN BOOLEAN ELSE {FALSE})
  /\ at' = None
  /\ UNCHANGED open

\* ~ACgiHandler: kill() the number that was kept, which by then may be another
\* process's; -1 is every process but the server.  Then waitpid().
Killed(pid) == [p \in Pids |-> IF pid \in {p, NoPid} THEN NoProcess ELSE proc[p]]

\* The session is done with its request, before or after the response was
\* made: the handler is deleted, and the connection closed or kept.
Over(s, keeps) ==
  /\ InLoop /\ s \in open
  /\ handler[s] # NoHandler \/ ~keeps
  /\ handler' = [handler EXCEPT ![s] = NoHandler]
  /\ proc' = IF handler[s] = NoHandler THEN proc ELSE Killed(handler[s].pid)
  /\ open' = IF keeps THEN open ELSE open \ {s}
  /\ UNCHANGED <<at, crashed>>

\* A process the server knows nothing of starts, or ends.
Elsewhere(p) ==
  /\ \/ proc[p].kind = "free" /\ proc' = [proc EXCEPT ![p] = Process("stranger", None, {})]
     \/ proc[p].kind = "stranger" /\ proc' = [proc EXCEPT ![p] = NoProcess]
  /\ UNCHANGED <<handler, open, at, crashed>>

Next ==
  \/ \E s \in Sessions : Accept(s)
  \/ \E s \in Sessions, r \in Requests : HandleRequest(s, r)
  \/ \E s \in Sessions : RunCgiFails(s)
  \/ \E s \in Sessions : RunCgi(s)
  \/ \E p \in Pids : ForkCgi(p)
  \/ \E p \in Pids : ScriptEnds(p)
  \/ \E s \in Sessions : ParentCgi(s)
  \/ \E s \in Sessions, keeps \in BOOLEAN : Over(s, keeps)
  \/ \E p \in Pids : Elsewhere(p)

Spec == Init /\ [][Next]_vars

(***************************************************************************)
(* The thread does not stop on its own, and a round of the loop gives each *)
(* session its turn; scripts are assumed to end.                           *)
(***************************************************************************)
FairSpec ==
  /\ Spec
  /\ \A s \in Sessions : SF_vars(RunCgi(s) \/ RunCgiFails(s)) /\ WF_vars(ParentCgi(s))
  /\ \A p \in Pids : WF_vars(ForkCgi(p)) /\ WF_vars(ScriptEnds(p))

-----------------------------------------------------------------------------
(* Properties.                                                             *)

Reads == [size : Nat, from : Nat]
Symbols == {CR, LF, Text, Zero} \union FieldSymbols
Responses == [status : Nat, length : Nat, body : Seq(Symbols)]
Handlers ==
  {NoHandler}
  \union [state : {"ready", "running"}, req : Requests, pid : Pids \union {None},
          stdin : Reads, out : Outputs \union {NoOutput}]
  \union [state : {"answered"}, pid : Pids \union {None, NoPid}, response : Responses]

\* The type invariant; a handler and the process it waits for know each other.
TypeOK ==
  /\ \A s \in Sessions : handler[s] \in Handlers
  /\ open \subseteq Sessions /\ at \in open \union {None} /\ crashed \in BOOLEAN
  /\ \A p \in Pids :
       proc[p] \in [kind : ProcKinds, of : Sessions \union {None}, exited : BOOLEAN,
                   holds : SUBSET Sessions]
  /\ \A s \in Sessions : handler[s].state = "running" <=> at = s

\* The server has one child process at most, the one it waits for at this
\* moment, so none is ever left unreaped (waitpid() in the destructor has
\* nothing to wait for) and none of its own can be the one that the destructor
\* kills by mistake; and that child holds just the connections that are open:
\* to close one really ends it, unless the script has left a process behind.
OneScript ==
  \A p \in Pids :
    proc[p].kind \in Ours =>
      /\ at # None /\ at = proc[p].of /\ handler[at].pid = p
      /\ proc[p].holds = open

\* Whatever the server's sessions do, a script runs until it ends on its own.
ScriptsUndisturbed ==
  [][\A p \in Pids :
       proc[p].kind = "script" =>
         proc'[p].kind \in {"script", "zombie"} /\ proc'[p].of = proc[p].of]_vars

\* A request that tells in one way or the other where its body ends.
Delimited(r) == r.chunked \/ r.stated # -1

\* A script that goes by CONTENT_LENGTH, or reads to the end if there is none,
\* gets the whole body and nothing else: neither what another request left in
\* a file, nor what the client has sent since.  A request that does not tell
\* where its body ends gives its script all that had come behind the header
\* when it was taken, which may be the client's next request.  Nothing is said
\* of a full disk and of a client that gives a length and sends chunks too.
ScriptGetsBody ==
  \A s \in Sessions :
    LET h == handler[s]
    IN  /\ h.state = "running" /\ h.req.method = "POST"
        /\ h.stdin.size = BodySize(h.req)
        /\ h.req.chunked => h.req.stated = -1
        => BodyRead(h) = IF Delimited(h.req) THEN h.req.body ELSE h.req.extra

\* What the last field of a name says.
Says(w, key, default) ==
  LET given == {i \in DOMAIN w.fields : w.fields[i].key = key}
  IN  IF given = {} THEN default ELSE w.fields[Max(given)].value

\* What a script that writes w wants to be answered to request r.
Meant(w, r) ==
  LET length == Says(w, "length", Len(w.body))
  IN  Response(Says(w, "status", 200), length,
               IF r.method = "HEAD" THEN <<>> ELSE SubSeq(w.body, 1, length))

\* The end of the header is where the script put it, and it states no more
\* than it writes.
EndFound(w) ==
  \/ w.eol = "lf"
  \/ w.eol = "crlf" /\ Search(<<LF>> \o w.body, <<LF, LF>>) = 0
Honest(w) == Says(w, "length", 0) <= Len(w.body)

Headless == {w \in Outputs : \A pat \in {<<LF, LF>>, <<CR, LF, CR, LF>>} : Search(Written(w), pat) = 0}

\* The client gets the status, the length and the body the script meant, with
\* fields of any order and number, texts that look like fields and empty lines
\* in the body; and 502, never a part of the output, if the script was killed
\* or wrote no header.
OutputKept ==
  [][\A s \in Sessions :
       handler[s].state = "running" /\ handler'[s].state = "answered" =>
         LET w == handler[s].out
             response == handler'[s].response
         IN  IF ~proc[handler[s].pid].exited \/ w \in Headless
             THEN response = Failure(502)
             ELSE EndFound(w) /\ Honest(w) => response = Meant(w, handler[s].req)]_vars

\* The same of every header that states no length: the end of the output ends
\* the body.  False: see the README.
EofEndsBody ==
  [][\A s \in Sessions :
       handler[s].state = "running" /\ handler'[s].state = "answered" =>
         LET w == handler[s].out
         IN  /\ w.eol # "none" /\ Says(w, "length", -1) = -1
             /\ proc[handler[s].pid].exited
             => handler'[s].response = Meant(w, handler[s].req)]_vars

\* Every request for a script is answered, or its session ends, or the server
\* does: it cannot wait for a process that is not there, nor for itself.
AnsweredInTheEnd ==
  \A s \in Sessions :
    handler[s].state \in {"ready", "running"} ~>
      handler[s].state \in {"none", "answered"} \/ crashed
=============================================================================
