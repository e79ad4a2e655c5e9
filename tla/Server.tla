------------------------------- MODULE Server -------------------------------
(***************************************************************************)
(* The event loop of webserv (srcs/Server.cpp) with the sockets it drives  *)
(* (srcs/sockets): one thread that polls every socket, walks the array     *)
(* poll() filled and lets each ready socket accept, receive or send, while *)
(* clients and the kernel change what the sockets hold at any moment.      *)
(*                                                                         *)
(* A request is a sequence of symbols: "part" is a piece that does not     *)
(* complete it; "end" and "close" complete it (a "close" request carries   *)
(* "Connection: close"); "bad" is one HTTPRequest::read rejects with an    *)
(* exception.  How bytes become a complete request is the subject of the   *)
(* module HTTPRequest.  A response is ResponseSize units long.             *)
(***************************************************************************)
EXTENDS Integers, Sequences, FiniteSets

CONSTANTS
  Addrs,         \* the host:port pairs the server listens on
  Conns,         \* the TCP connections clients may open, each one once
  MaxFd,         \* the descriptor limit of the process: fds are 1..MaxFd
  ListenFd,      \* the descriptor each listening socket got at start-up
  CONN_LIMIT,    \* the length of a listen queue
  BUFFER_SIZE,   \* symbols or units one recv() or send() moves at most
  ResponseSize,  \* units of a response
  SendSpace,     \* units the kernel buffers for a connection to send
  TmpFiles,      \* temporary files a response may need (a CGI takes 1 or 2)
  MaxRequests,   \* bound: requests a client begins on a connection
  Pipelining,    \* may a client begin a request before the last is answered
  OutOfMemory,   \* may an allocation throw std::bad_alloc
  LogBlocks,     \* does a line at level info lock a mutex that is held
  Absent,        \* no entry in _sockets for a descriptor
  Null,          \* an entry in _sockets whose pointer is NULL
  Free,          \* a descriptor that is not open
  Tmp            \* a descriptor open on a temporary file of a handler

Fds == 1..MaxFd
Owners == Conns \union Addrs

ASSUME BoundsAssumption ==
  /\ MaxFd \in Nat \ {0} /\ CONN_LIMIT \in Nat \ {0}
  /\ BUFFER_SIZE \in Nat \ {0} /\ ResponseSize \in Nat \ {0}
  /\ SendSpace \in Nat \ {0} /\ MaxRequests \in Nat
  /\ TmpFiles \subseteq 0..2 /\ TmpFiles # {}
  /\ Pipelining \in BOOLEAN /\ OutOfMemory \in BOOLEAN /\ LogBlocks \in BOOLEAN

ASSUME ListenAssumption ==
  /\ ListenFd \in [Addrs -> Fds]
  /\ \A a, b \in Addrs : ListenFd[a] = ListenFd[b] => a = b

ASSUME NamesAssumption ==
  /\ Conns \intersect Addrs = {}
  /\ Absent \notin Owners /\ Null \notin Owners /\ Absent # Null
  /\ Free \notin Owners /\ Tmp \notin Owners /\ Free # Tmp

VARIABLES
  server_on,   \* the flag the SIGINT handler clears
  pc,          \* where the thread is, see PcValues
  cur,         \* descriptor of the socket whose action() runs, 0 if none
  sockets,     \* Server::_sockets, the object each descriptor maps to
  session,     \* the SessionSocket object of each connection
  polled,      \* the events of poll_array, "none" where there is no entry
  revents,     \* the revents of poll_array
  snap,        \* history: the object an entry of poll_array stood for
  capacity,    \* the most entries poll_array has held
  is_locked,   \* the log: a line was begun and logger::end is still to come
  fdtab,       \* kernel: what each descriptor is open on
  backlog,     \* kernel: connections each listening socket has not accepted
  client,      \* kernel and peer: the state of each connection
  asked,       \* history: requests received from the kernel
  answered     \* history: responses handed to the kernel completely

process == <<server_on, pc, cur, sockets, session, capacity, is_locked>>
pollArray == <<polled, revents, snap>>
vars == <<process, pollArray, fdtab, backlog, client, asked, answered>>

-----------------------------------------------------------------------------
(* Data.                                                                   *)

Ends == {"end", "close", "bad"}
Symbols == Ends \union {"part"}

\* What decides a request buffer: the first symbol that ends a request.
FirstEnd(buf) ==
  IF \E i \in DOMAIN buf : buf[i] \in Ends
  THEN buf[CHOOSE i \in DOMAIN buf :
             /\ buf[i] \in Ends
             /\ \A j \in 1..(i - 1) : buf[j] \notin Ends]
  ELSE "none"

Complete(buf) == Cardinality({i \in DOMAIN buf : buf[i] \in {"end", "close"}})

Least(a, b) == IF a < b THEN a ELSE b

PcValues == {"pass",      \* walking poll_array, or at the loop's head
             "prepared",  \* poll_array is built, poll() not yet entered
             "polling",   \* in poll()
             "action",    \* eventCheck() accepted the entry of cur
             "acted",     \* action() returned, the rest of eventAction() is due
             "blocked",   \* in an accept() with nothing to return, or on the log's mutex
             "crashed",   \* a null pointer was used, or main() caught an exception
             "stopped"}   \* the process has ended as asked

SocketState == {"Read", "Write", "Handle", "Disconnect"}

\* A SessionSocket that does not exist (not yet, or no longer).
NoSession == [fd |-> 0, state |-> "Freed", buffer |-> <<>>, handler |-> FALSE,
              ready |-> FALSE, left |-> 0, tmp |-> {}]

\* What the constructor leaves: state Read, no handler, an empty request.
NewSession(fd) == [NoSession EXCEPT !.fd = fd, !.state = "Read"]

Live(c) == session[c].state # "Freed"
FreeFds == {f \in Fds : fdtab[f] = Free}

Phases == {"new",     \* not connected yet
           "open",    \* connected: in a listen queue, or accepted
           "fin",     \* the peer has closed its end in order
           "reset",   \* the peer has reset the connection
           "closed"}  \* the server has closed its end

NoPolled == [f \in Fds |-> "none"]
NoRevents == [f \in Fds |-> {}]
NoSnap == [f \in Fds |-> Absent]

Init ==
  /\ server_on = TRUE
  /\ pc = "pass"
  /\ cur = 0
  /\ sockets = [f \in Fds |->
                 IF \E a \in Addrs : ListenFd[a] = f
                 THEN CHOOSE a \in Addrs : ListenFd[a] = f ELSE Absent]
  /\ session = [c \in Conns |-> NoSession]
  /\ polled = NoPolled /\ revents = NoRevents /\ snap = NoSnap
  /\ capacity = 0
  /\ is_locked = FALSE
  /\ fdtab = [f \in Fds |-> IF sockets[f] = Absent THEN Free ELSE sockets[f]]
  /\ backlog = [a \in Addrs |-> <<>>]
  /\ client = [c \in Conns |->
                [phase |-> "new", rx |-> <<>>, out |-> 0, begun |-> 0, mid |-> FALSE]]
  /\ asked = [c \in Conns |-> 0]
  /\ answered = [c \in Conns |-> 0]

-----------------------------------------------------------------------------
(* The clients and the kernel.                                             *)

\* connect(): the kernel queues the connection if the listen queue has room.
Connect(c, a) ==
  /\ client[c].phase = "new"
  /\ pc # "stopped" /\ pc # "crashed"
  /\ Len(backlog[a]) < CONN_LIMIT
  /\ backlog' = [backlog EXCEPT ![a] = Append(@, c)]
  /\ client' = [client EXCEPT ![c].phase = "open"]
  /\ UNCHANGED <<process, pollArray, fdtab, asked, answered>>

\* A client that does not pipeline begins a request when the last one has
\* been answered and it has taken the answer.
MayBegin(c) ==
  /\ client[c].begun < MaxRequests
  /\ \/ Pipelining
     \/ client[c].begun = answered[c] /\ client[c].out = 0

Send(c, s) ==
  /\ client[c].phase = "open"
  /\ client[c].mid \/ MayBegin(c)
  /\ client[c].mid => s # "part"
  /\ client' = [client EXCEPT ![c].rx = Append(@, s),
                              ![c].mid = (s = "part"),
                              ![c].begun = IF client[c].mid THEN @ ELSE @ + 1]
  /\ UNCHANGED <<process, pollArray, fdtab, backlog, asked, answered>>

\* The client takes what the server has sent.
Receive(c) ==
  /\ client[c].phase = "open"
  /\ client[c].out > 0
  /\ client' = [client EXCEPT ![c].out = 0]
  /\ UNCHANGED <<process, pollArray, fdtab, backlog, asked, answered>>

\* The client closes its end: the server will read what is left, then 0.
PeerClose(c) ==
  /\ client[c].phase = "open"
  /\ client' = [client EXCEPT ![c].phase = "fin"]
  /\ UNCHANGED <<process, pollArray, fdtab, backlog, asked, answered>>

\* The connection breaks: what the kernel held for it is gone.
PeerReset(c) ==
  /\ client[c].phase \in {"open", "fin"}
  /\ client' = [client EXCEPT ![c].phase = "reset", ![c].rx = <<>>, ![c].out = 0]
  /\ UNCHANGED <<process, pollArray, fdtab, backlog, asked, answered>>

\* SIGINT: the handler clears the flag; poll() returns -1 with EINTR, and
\* accept() is restarted.
StopServer ==
  /\ pc # "stopped" /\ pc # "crashed"
  /\ server_on' = FALSE
  /\ IF pc = "polling"
     THEN pc' = "pass" /\ polled' = NoPolled /\ snap' = NoSnap
     ELSE UNCHANGED <<pc, polled, snap>>
  /\ UNCHANGED <<cur, sockets, session, capacity, is_locked, revents,
                 fdtab, backlog, client, asked, answered>>

-----------------------------------------------------------------------------
(* The main loop: Server::mainLoopRun.                                     *)

Walked == \A f \in Fds : polled[f] = "none"

\* A variant of Running: a loop that does not test the flag.
RunningForever == pc = "pass" /\ Walked

\* The head of the loop: the flag is tested once per round.
Running == pc = "pass" /\ Walked /\ server_on

\* The socket a descriptor maps to, as eventArrayPrepare sees its state.
StateOf(o) == IF o \in Conns THEN session[o].state ELSE "Read"

\* Variants of EventsFor: a response under way is not polled for, or it is
\* polled for the wrong event.
EventsForIn(o) ==
  IF o # Absent /\ StateOf(o) \in {"Read", "Write"} THEN "IN" ELSE "none"
EventsForReadOnly(o) == IF o # Absent /\ StateOf(o) = "Read" THEN "IN" ELSE "none"

EventsFor(o) ==
  IF o = Absent THEN "none"
  ELSE IF StateOf(o) = "Read" THEN "IN"
  ELSE IF StateOf(o) = "Write" THEN "OUT"
  ELSE "none"

Entries == {f \in Fds : sockets[f] # Absent}

\* eventArrayPrepare: one entry for each socket in state Read or Write.
EventArrayPrepare ==
  /\ Running
  /\ \A f \in Fds : sockets[f] # Null
  /\ pc' = "prepared"
  /\ polled' = [f \in Fds |-> EventsFor(sockets[f])]
  /\ snap' = [f \in Fds |->
               IF EventsFor(sockets[f]) = "none" THEN Absent ELSE sockets[f]]
  /\ capacity' = IF Cardinality(Entries) > capacity
                 THEN Cardinality(Entries) ELSE capacity
  /\ UNCHANGED <<server_on, is_locked, cur, sockets, session, revents,
                 fdtab, backlog, client, asked, answered>>

\* eventArrayPrepare at an entry whose pointer is NULL: it asks the socket
\* that is not there for its state.
EventArrayPrepareCrashes ==
  /\ Running
  /\ \E f \in Fds : sockets[f] = Null
  /\ pc' = "crashed"
  /\ UNCHANGED <<server_on, is_locked, cur, sockets, session, capacity, pollArray,
                 fdtab, backlog, client, asked, answered>>

\* eventArrayPrepare when resize() needs memory and there is none: it returns
\* 0 and poll() is called with no entry and no timeout.
EventArrayPrepareFails ==
  /\ OutOfMemory
  /\ Running
  /\ Cardinality(Entries) > capacity
  /\ pc' = "prepared"
  /\ UNCHANGED <<server_on, is_locked, cur, sockets, session, capacity, pollArray,
                 fdtab, backlog, client, asked, answered>>

PollEnter ==
  /\ pc = "prepared"
  /\ pc' = "polling"
  /\ UNCHANGED <<server_on, is_locked, cur, sockets, session, capacity, pollArray,
                 fdtab, backlog, client, asked, answered>>

\* What the kernel reports for a descriptor: the requested event if it is
\* ready, and an error (POLLERR, POLLHUP) whether requested or not.
Ready(o, event) ==
  IF o \in Addrs
  THEN event = "IN" /\ backlog[o] # <<>>
  ELSE \/ client[o].phase = "reset"
       \/ event = "IN" /\ (client[o].rx # <<>> \/ client[o].phase = "fin")
       \/ event = "OUT" /\ client[o].out < SendSpace

Broken(o) == o \in Conns /\ client[o].phase = "reset"

ReventsOf(f) ==
  IF polled[f] = "none" \/ fdtab[f] \notin Owners THEN {}
  ELSE {e \in {polled[f]} : Ready(fdtab[f], e)}
       \union (IF Broken(fdtab[f]) THEN {"ERR"} ELSE {})

PollReturn ==
  /\ pc = "polling"
  /\ \E f \in Fds : ReventsOf(f) # {}
  /\ pc' = "pass"
  /\ revents' = [f \in Fds |-> ReventsOf(f)]
  /\ UNCHANGED <<server_on, is_locked, cur, sockets, session, capacity, polled, snap,
                 fdtab, backlog, client, asked, answered>>

\* The loop ends: ~Server deletes every socket and the process exits.
ShutDown ==
  /\ pc = "pass" /\ Walked /\ ~server_on
  /\ pc' = "stopped"
  /\ sockets' = [f \in Fds |-> Absent]
  /\ session' = [c \in Conns |-> NoSession]
  /\ fdtab' = [f \in Fds |-> Free]
  /\ backlog' = [a \in Addrs |-> <<>>]
  /\ client' = [c \in Conns |->
                 IF client[c].phase = "new" THEN client[c]
                 ELSE [client[c] EXCEPT !.phase = "closed", !.rx = <<>>, !.out = 0]]
  /\ UNCHANGED <<server_on, is_locked, cur, capacity, pollArray, asked, answered>>

-----------------------------------------------------------------------------
(* One entry of the walk.                                                  *)

\* The next entry: _sockets is a std::map, so the array is in fd order.
NextEntry(f) == polled[f] # "none" /\ \A g \in Fds : g < f => polled[g] = "none"

\* An entry that has been walked is not read again.
Forget(f) ==
  /\ polled' = [polled EXCEPT ![f] = "none"]
  /\ revents' = [revents EXCEPT ![f] = {}]
  /\ snap' = [snap EXCEPT ![f] = Absent]

\* Variants of Erase: the entry of a deleted socket stays in the map; the
\* entries from f to the end of the map go.
EraseNothing(f) == UNCHANGED sockets
EraseFrom(f) == sockets' = [g \in Fds |-> IF g < f THEN sockets[g] ELSE Absent]

\* _sockets.erase(f)
Erase(f) == sockets' = [sockets EXCEPT ![f] = Absent]

\* close() of the descriptor of connection c, as its peer sees it.
Closed(c) == [client EXCEPT ![c].phase = "closed", ![c].rx = <<>>, ![c].out = 0]

\* A variant of Delete: no handler is deleted with the socket.
DeleteSocketOnly(c) ==
  /\ session' = [session EXCEPT ![c] = NoSession]
  /\ fdtab' = [fdtab EXCEPT ![session[c].fd] = Free]
  /\ client' = Closed(c)

\* `delete` of a SessionSocket: the handler's destructor closes its temporary
\* files, ASocket's destructor the descriptor.
Delete(c) ==
  /\ session' = [session EXCEPT ![c] = NoSession]
  /\ fdtab' = [g \in Fds |-> IF g = session[c].fd \/ g \in session[c].tmp
                             THEN Free ELSE fdtab[g]]
  /\ client' = Closed(c)

\* A variant of Accepted: the bit is tested instead of equality.
AcceptedAny(f) == polled[f] \in revents[f]

\* What eventCheck() returns.
Accepted(f) == revents[f] = {polled[f]}

\* eventCheck: a terminating event deletes the socket.  The kernel reports
\* none for a listening socket.  If it returns true, mainLoopRun looks the
\* socket up again; an entry that is gone gives a null pointer.
EventCheck(f) ==
  LET gone == "ERR" \in revents[f] /\ sockets[f] \in Conns
  IN
  /\ pc = "pass" /\ NextEntry(f)
  /\ IF gone
     THEN Delete(sockets[f]) /\ Erase(f)
     ELSE UNCHANGED <<session, fdtab, client, sockets>>
  /\ IF Accepted(f)
     THEN IF gone \/ sockets[f] \notin Owners
          THEN pc' = "crashed" /\ UNCHANGED cur
          ELSE pc' = "action" /\ cur' = f
     ELSE UNCHANGED <<pc, cur>>
  /\ Forget(f)
  /\ UNCHANGED <<server_on, is_locked, capacity, backlog, asked, answered>>

\* `_sockets[fd] = new SessionSocket(...)` for connection c, just accepted on
\* fd.  C++98 leaves open which side is evaluated first, so a bad_alloc on the
\* right may find operator[] done: its NULL entry stays, the catch only logs.
\* Thrown by operator new or by operator[], nobody closes fd; thrown by the
\* constructor (_response fills a map), ~ASocket has closed it.
Inserted(c, fd) ==
  \/ /\ sockets' = [sockets EXCEPT ![fd] = c]
     /\ session' = [session EXCEPT ![c] = NewSession(fd)]
     /\ fdtab' = [fdtab EXCEPT ![fd] = c]
     /\ UNCHANGED client
  \/ /\ OutOfMemory
     /\ UNCHANGED sockets \/ sockets' = [sockets EXCEPT ![fd] = Null]
     /\ UNCHANGED session
     /\ \/ fdtab' = [fdtab EXCEPT ![fd] = c] /\ UNCHANGED client
        \/ UNCHANGED fdtab /\ client' = Closed(c)

\* ListenSocket::action and the branch of eventAction that stores the new
\* socket.  accept() takes the lowest free descriptor, returns -1 when there
\* is none, and waits when the queue is empty: the socket is a blocking one.
Accept(a) ==
  /\ pc = "action" /\ sockets[cur] = a
  /\ IF backlog[a] = <<>>
     THEN pc' = "blocked" /\ UNCHANGED <<cur, sockets, session, fdtab, backlog, client>>
     ELSE /\ pc' = "pass" /\ cur' = 0
          /\ IF FreeFds = {}
             THEN UNCHANGED <<sockets, session, fdtab, backlog, client>>
             ELSE \E fd \in FreeFds :
                    /\ \A g \in FreeFds : fd <= g
                    /\ backlog' = [backlog EXCEPT ![a] = Tail(@)]
                    /\ Inserted(Head(backlog[a]), fd)
  /\ UNCHANGED <<server_on, is_locked, capacity, pollArray, asked, answered>>

\* A variant of AfterAction: a complete request is not handled at once.
AfterActionLate(state) ==
  IF state = "Disconnect"
  THEN pc' = "acted" /\ UNCHANGED cur
  ELSE pc' = "pass" /\ cur' = 0

\* Where action() leaves the thread: eventAction has more to do for a socket
\* in state Handle or Disconnect.
AfterAction(state) ==
  IF state \in {"Handle", "Disconnect"}
  THEN pc' = "acted" /\ UNCHANGED cur
  ELSE pc' = "pass" /\ cur' = 0

\* SessionSocket::read: one recv().  Nothing to take means 0 (the peer closed)
\* or -1 (reset, or EAGAIN): the request object throws either way.
Received(c) == SubSeq(client[c].rx, 1, Least(Len(client[c].rx), BUFFER_SIZE))
Left(c) == SubSeq(client[c].rx, Len(Received(c)) + 1, Len(client[c].rx))

ReadOutcome(c) ==
  LET first == FirstEnd(session[c].buffer \o Received(c))
  IN IF Received(c) = <<>> \/ first = "bad" THEN "Disconnect"
     ELSE IF first = "none" THEN "Read" ELSE "Handle"

\* A variant of ReadRaises: every line that is begun is ended.
ReadEndsLine(c) == FALSE

\* What makes read() throw a runtime_error, whose message SessionSocket::read
\* sends to the log without a logger::end: recv() returned -1, or the request
\* is not well-formed.  At the peer's close it throws a plain exception.
ReadRaises(c) ==
  \/ Received(c) = <<>> /\ client[c].phase # "fin"
  \/ FirstEnd(session[c].buffer \o Received(c)) = "bad"

\* A log line of level info begins: it locks the mutex, and nobody else could
\* unlock it.
LogWaits == is_locked /\ LogBlocks

SessionRead(c) ==
  /\ pc = "action" /\ sockets[cur] = c /\ session[c].state = "Read"
  /\ client' = [client EXCEPT ![c].rx = Left(c)]
  /\ \/ /\ session' = [session EXCEPT ![c].buffer = @ \o Received(c),
                                       ![c].state = ReadOutcome(c)]
        /\ asked' = [asked EXCEPT ![c] = @ + Complete(Received(c))]
        /\ is_locked' = ReadRaises(c)
        /\ AfterAction(ReadOutcome(c))
     \/ /\ OutOfMemory
        /\ session' = [session EXCEPT ![c].state = "Disconnect"]
        /\ AfterAction("Disconnect")
        /\ UNCHANGED <<asked, is_locked>>
  /\ UNCHANGED <<server_on, sockets, capacity, pollArray, fdtab, backlog, answered>>

\* The temporary files a handler opens while it makes the response: the
\* lowest free descriptors, as many of k as there are.
Opened(k, T) ==
  /\ T \subseteq FreeFds
  /\ Cardinality(T) = Least(k, Cardinality(FreeFds))
  /\ \A t \in T, g \in FreeFds \ T : t < g

\* A variant of AfterResponse: HTTP/1.0, every connection is closed.
AfterResponseClose(c) == "Disconnect"

\* A variant of AfterResponse: "Connection: close" is not looked at.
AfterResponseKeep(c) == "Read"

\* Where a session goes when its response has been sent.
AfterResponse(c) ==
  IF FirstEnd(session[c].buffer) = "close" THEN "Disconnect" ELSE "Read"

\* A variant of Sent: send() is taken to accept all it is given.
SentAll(c, left) == left

\* What one send() takes of the `left` units of the response.
Sent(c, left) == Least(Least(left, BUFFER_SIZE), SendSpace - client[c].out)

\* Variants of Reset: the handler, or the request, of the answered request stays.
ResetKeepingHandler(s, state) ==
  [NewSession(s.fd) EXCEPT !.state = state, !.handler = s.handler]
ResetKeepingRequest(s, state) ==
  [NewSession(s.fd) EXCEPT !.state = state, !.buffer = s.buffer]

\* The last byte is out: request, response and handler start afresh.
Reset(s, state) == [NewSession(s.fd) EXCEPT !.state = state]

\* SessionSocket::write: makes the response the first time, then one send().
SessionWrite(c) ==
  LET s == session[c]
      left == IF s.ready THEN s.left ELSE ResponseSize
      n == Sent(c, left)
      failed == client[c].phase = "reset" \/ n = 0
  IN
  /\ pc = "action" /\ sockets[cur] = c /\ s.state # "Read"
  /\ \E k \in IF s.ready THEN {0} ELSE TmpFiles :
     \E T \in SUBSET FreeFds :
     \E throws \in {failed} \union (IF OutOfMemory THEN {TRUE} ELSE {}) :
       /\ Opened(k, T)
       /\ IF throws
          THEN /\ session' = [session EXCEPT
                    ![c] = [s EXCEPT !.state = "Disconnect", !.ready = TRUE,
                                     !.left = left, !.tmp = @ \union T]]
               /\ fdtab' = [f \in Fds |-> IF f \in T THEN Tmp ELSE fdtab[f]]
               /\ AfterAction("Disconnect")
               /\ UNCHANGED <<client, answered>>
          ELSE /\ client' = [client EXCEPT ![c].out = @ + n]
               /\ IF n < left
                  THEN /\ session' = [session EXCEPT
                            ![c] = [s EXCEPT !.ready = TRUE, !.left = left - n,
                                             !.tmp = @ \union T]]
                       /\ fdtab' = [f \in Fds |-> IF f \in T THEN Tmp ELSE fdtab[f]]
                       /\ AfterAction("Write")
                       /\ UNCHANGED answered
                  ELSE /\ answered' = [answered EXCEPT ![c] = @ + 1]
                       /\ \/ /\ session' = [session EXCEPT
                                 ![c] = Reset(s, AfterResponse(c))]
                             /\ fdtab' = [f \in Fds |-> IF f \in s.tmp THEN Free
                                                       ELSE fdtab[f]]
                             /\ AfterAction(AfterResponse(c))
                          \* No memory for the next response's header.
                          \/ /\ OutOfMemory
                             /\ session' = [session EXCEPT
                                  ![c] = [s EXCEPT !.state = "Disconnect", !.buffer = <<>>,
                                                   !.ready = TRUE, !.left = 0,
                                                   !.tmp = @ \union T]]
                             /\ fdtab' = [f \in Fds |-> IF f \in T THEN Tmp ELSE fdtab[f]]
                             /\ AfterAction("Disconnect")
  /\ UNCHANGED <<server_on, is_locked, sockets, capacity, pollArray, backlog, asked>>

\* The rest of eventAction for a socket that asked to be disconnected.  The
\* last thing ~ASocket does is to log a line: if another one was begun and not
\* ended, the thread waits for the mutex it holds itself, or, where the level
\* or the mutex lets it pass, the logger::end of this line ends both.  No
\* other action writes to the log while a line is open.
Disconnect(c) ==
  /\ pc = "acted" /\ sockets[cur] = c /\ session[c].state = "Disconnect"
  /\ Erase(cur)
  /\ Delete(c)
  /\ IF LogWaits
     THEN pc' = "blocked" /\ UNCHANGED <<cur, is_locked>>
     ELSE pc' = "pass" /\ cur' = 0 /\ is_locked' = FALSE
  /\ UNCHANGED <<server_on, capacity, pollArray, backlog, asked, answered>>

\* handleRequest: a handler is chosen and the session will write.
HandleRequest(c) ==
  /\ pc = "acted" /\ sockets[cur] = c /\ session[c].state = "Handle"
  /\ session' = [session EXCEPT ![c].handler = TRUE, ![c].state = "Write"]
  /\ pc' = "pass" /\ cur' = 0
  /\ UNCHANGED <<server_on, is_locked, sockets, capacity, pollArray,
                 fdtab, backlog, client, asked, answered>>

\* handleRequest when there is no memory: for the handler, which it catches
\* and answers by dropping the session, or for the strings it looks the
\* server up with, outside its try block: the exception leaves main().
HandleRequestFails(c) ==
  /\ OutOfMemory
  /\ pc = "acted" /\ sockets[cur] = c /\ session[c].state = "Handle"
  /\ \/ /\ Erase(cur)
        /\ Delete(c)
        /\ pc' = "pass" /\ cur' = 0
     \/ /\ pc' = "crashed"
        /\ UNCHANGED <<cur, sockets, session, fdtab, client>>
  /\ UNCHANGED <<server_on, is_locked, capacity, pollArray, backlog, asked, answered>>

-----------------------------------------------------------------------------

\* The process has ended.
Terminated == pc \in {"stopped", "crashed"} /\ UNCHANGED vars

Loop ==
  \/ EventArrayPrepare
  \/ EventArrayPrepareCrashes
  \/ EventArrayPrepareFails
  \/ PollEnter
  \/ PollReturn
  \/ ShutDown

Event ==
  \/ \E f \in Fds : EventCheck(f)
  \/ \E a \in Addrs : Accept(a)
  \/ \E c \in Conns : SessionRead(c)
  \/ \E c \in Conns : SessionWrite(c)
  \/ \E c \in Conns : Disconnect(c)
  \/ \E c \in Conns : HandleRequest(c)
  \/ \E c \in Conns : HandleRequestFails(c)

Environment ==
  \/ \E c \in Conns, a \in Addrs : Connect(c, a)
  \/ \E c \in Conns, s \in Symbols : Send(c, s)
  \/ \E c \in Conns : Receive(c)
  \/ \E c \in Conns : PeerClose(c)
  \/ \E c \in Conns : PeerReset(c)
  \/ StopServer

Next == Loop \/ Event \/ Environment \/ Terminated

Spec == Init /\ [][Next]_vars

(***************************************************************************)
(* The thread takes its next step whenever it has one; a client whose      *)
(* connection is up takes what it is sent.                                 *)
(***************************************************************************)
FairSpec ==
  /\ Spec
  /\ WF_vars(Loop \/ Event)
  /\ \A c \in Conns : WF_vars(Receive(c))

-----------------------------------------------------------------------------
(* Properties.                                                             *)

SessionType ==
  [fd : Fds \union {0}, state : SocketState \union {"Freed"},
   buffer : Seq(Symbols),   \* _request
   handler : BOOLEAN,       \* _handler is not NULL
   ready : BOOLEAN,         \* _response is ready
   left : 0..ResponseSize,  \* what is left of it to send
   tmp : SUBSET Fds]        \* temporary files of the handler

ClientType ==
  [phase : Phases,
   rx : Seq(Symbols),       \* sent by the client, not received yet
   out : 0..SendSpace,      \* sent by the server, not taken yet
   begun : 0..MaxRequests,  \* requests begun
   mid : BOOLEAN]           \* the last of them is not complete

\* The type invariant.
TypeOK ==
  /\ server_on \in BOOLEAN
  /\ pc \in PcValues
  /\ cur \in Fds \union {0}
  /\ sockets \in [Fds -> Owners \union {Absent, Null}]
  /\ session \in [Conns -> SessionType]
  /\ polled \in [Fds -> {"none", "IN", "OUT"}]
  /\ revents \in [Fds -> SUBSET {"IN", "OUT", "ERR"}]
  /\ snap \in [Fds -> Owners \union {Absent}]
  /\ capacity \in 0..MaxFd
  /\ is_locked \in BOOLEAN
  /\ fdtab \in [Fds -> Owners \union {Free, Tmp}]
  /\ backlog \in [Addrs -> Seq(Conns)]
  /\ client \in [Conns -> ClientType]
  /\ asked \in [Conns -> Nat]
  /\ answered \in [Conns -> Nat]

\* An entry of the map _sockets stands for the very connection its descriptor
\* is open on, and the object it holds knows that descriptor: none is used
\* after close(), closed twice, or taken for the connection that had the
\* number before it was reused.
NoDanglingFd ==
  /\ \A f \in Fds : sockets[f] \in Owners => fdtab[f] = sockets[f]
  /\ \A f \in Fds : sockets[f] \in Conns => session[sockets[f]].fd = f
  /\ \A c \in Conns : Live(c) => sockets[session[c].fd] = c
  /\ \A c \in Conns : \A f \in session[c].tmp : fdtab[f] = Tmp

\* The converse: every open descriptor is that of a socket in the map or a
\* temporary file of a session in the map, of exactly one of them.  Nothing
\* leaks, however sessions end.
NoLeakedFd ==
  /\ \A f \in Fds : fdtab[f] \in Owners => sockets[f] = fdtab[f]
  /\ \A f \in Fds : fdtab[f] = Tmp => \E c \in Conns : Live(c) /\ f \in session[c].tmp
  /\ \A c, d \in Conns : c # d => session[c].tmp \intersect session[d].tmp = {}

\* While the array is walked sockets are closed, accepted and descriptors
\* reused, yet each entry still to come stands for the socket it was built
\* from, and asks for the event that socket's state calls for: the action
\* it triggers is the one the poll was about.
PollEntriesCurrent ==
  \A f \in Fds : polled[f] # "none" =>
    /\ sockets[f] = snap[f]
    /\ polled[f] = EventsFor(sockets[f])

\* eventArrayPrepare passes over a socket in state Handle or Disconnect, so
\* one left in such a state would hold its descriptor and never be served.
\* Only the socket being worked on is ever in one.
NoStrandedSocket ==
  \A f \in Fds : sockets[f] \in Conns /\ session[sockets[f]].state \in {"Handle", "Disconnect"}
    => pc \in {"acted", "crashed"} /\ cur = f

\* What poll() said of a connection still holds when its entry is reached and
\* its action runs, although the entries before it were served and clients
\* went on: recv() finds something to take, send() takes something, and only
\* a connection that is broken is deleted for an error.
PollStillTrue ==
  \A f \in Fds : sockets[f] \in Conns =>
    LET c == sockets[f]
        acting == pc = "action" /\ cur = f
    IN  /\ "ERR" \in revents[f] => client[c].phase = "reset"
        /\ "IN" \in revents[f] \/ (acting /\ session[c].state = "Read") => Ready(c, "IN")
        /\ "OUT" \in revents[f] \/ (acting /\ session[c].state = "Write") => Ready(c, "OUT")

\* The response state of a session fits its state: a handler exists exactly
\* from handleRequest until the response is sent (write() dereferences it),
\* and what a finished or idle session leaves behind is nothing.
HandlerMatchesState ==
  \A c \in Conns :
    /\ session[c].state = "Write" => session[c].handler
    /\ session[c].state \in {"Read", "Handle"} =>
         ~session[c].handler /\ ~session[c].ready /\ session[c].tmp = {}
    /\ session[c].ready /\ session[c].state # "Disconnect" => session[c].left > 0

\* The thread waits nowhere but in poll(): not in accept() (the listening
\* sockets are blocking ones), not for the mutex of the log.  It never acts on
\* an entry eventCheck() has just erased, and no exception leaves the loop.
NeverStuck == pc # "blocked" /\ pc # "crashed"

\* A request whose last byte the server has taken from the kernel is the one
\* it is working on or has been answered: none is lost with the request
\* buffer, and no answer goes out that nobody asked for.
NoRequestLost ==
  \A c \in Conns : Live(c) =>
    asked[c] = answered[c] + (IF session[c].state \in {"Handle", "Write"} THEN 1
                              ELSE Complete(session[c].buffer))

HasEnd(q) == \E i \in DOMAIN q : q[i] \in Ends

\* From clients that wait for each answer there is one request under way, in
\* one place: what the kernel holds ends with its end, what a session has read
\* has none while it reads on, and while a request is worked on nothing is
\* left behind it that the next reset of the session would throw away.
OneUnderWay ==
  \A c \in Conns :
    LET s == session[c]
        k == client[c]
        taken == s.state \in {"Handle", "Write"}
    IN  /\ \A i \in DOMAIN k.rx : k.rx[i] \in Ends => i = Len(k.rx)
        /\ HasEnd(k.rx) \/ taken => ~k.mid
        /\ HasEnd(k.rx) \/ taken \/ k.mid => k.begun # answered[c]
        /\ s.state = "Read" => ~HasEnd(s.buffer)
        /\ taken => k.rx = <<>> /\ Complete(s.buffer) = 1

\* A connection whose peer is there is closed by the server only after a bad
\* request, after the answer to a request that asked for it, or at shutdown.
HealthyStaysOpen ==
  [][\A c \in Conns :
       (/\ session[c].state # "Disconnect" /\ client[c].phase = "open" /\ Live(c)
        /\ session'[c].state \in {"Disconnect", "Freed"})
       => \/ pc' = "stopped"
          \/ FirstEnd(session'[c].buffer) = "bad"
          \/ FirstEnd(session[c].buffer) = "close" /\ answered'[c] = answered[c] + 1]_vars

\* The server serves each connection as RequestResponse promises.
Status(c) ==
  CASE session[c].state = "Read" -> "idle"
    [] session[c].state \in {"Handle", "Write"} ->
         IF FirstEnd(session[c].buffer) = "close" THEN "last" ELSE "asked"
    [] session[c].state = "Disconnect" -> "ended"
    [] OTHER -> IF client[c].phase = "closed" THEN "ended" ELSE "none"

Service == INSTANCE RequestResponse WITH status <- [c \in Conns |-> Status(c)]

ImplementsRequestResponse == Service!Spec

\* Every request a connected client has completed is answered, or the
\* connection ends.
Completed(c) == client[c].begun - (IF client[c].mid THEN 1 ELSE 0)

RequestAnswered ==
  \A c \in Conns, n \in 1..MaxRequests :
    (client[c].phase = "open" /\ Completed(c) >= n)
      ~> (client[c].phase # "open" \/ answered[c] >= n)

\* SIGINT ends the loop, unless it came just before poll() was entered and
\* nothing is ready: then the thread sleeps on.
StopsUnlessIdle ==
  ~server_on ~> (pc = "stopped" \/ (pc = "polling" /\ \A f \in Fds : ReventsOf(f) = {}))

-----------------------------------------------------------------------------
(* What the invariants above rest on; together they are inductive.         *)

\* A session that is not there has no state, one that is has a descriptor;
\* temporary files are private.
SessionsApart ==
  /\ \A c \in Conns : IF Live(c) THEN session[c].fd # 0 ELSE session[c] = NoSession
  /\ \A c, d \in Conns : c # d => session[c].tmp \intersect session[d].tmp = {}

\* A connection waits in one place of one listen queue, and has no session.
QueuesApart ==
  /\ \A c \in Conns : client[c].phase = "new" => ~Live(c)
  /\ \A a \in Addrs : \A i \in DOMAIN backlog[a] :
       /\ ~Live(backlog[a][i])
       /\ client[backlog[a][i]].phase \notin {"new", "closed"}
  /\ \A a, b \in Addrs : \A i \in DOMAIN backlog[a], j \in DOMAIN backlog[b] :
       backlog[a][i] = backlog[b][j] => a = b /\ i = j

\* Listening sockets stay where they are, and what poll() said of them holds
\* until they are served: nobody else takes from their queues.
ListenersReady ==
  /\ \A f \in Fds : sockets[f] \in Addrs => ListenFd[sockets[f]] = f
  /\ \A f \in Fds : "IN" \in revents[f] /\ sockets[f] \in Addrs => backlog[sockets[f]] # <<>>
  /\ pc = "action" /\ sockets[cur] \in Addrs => backlog[sockets[cur]] # <<>>

\* Where the walk is: events are those of entries to come, and the socket at
\* work has no entry any more and is in a state its step handles.
WalkInPlace ==
  /\ \A f \in Fds : polled[f] # "none" => snap[f] \in Owners
  /\ \A f \in Fds : polled[f] = "none" \/ pc \in {"prepared", "polling"} => revents[f] = {}
  /\ pc \in {"action", "acted"} => cur \in Fds /\ sockets[cur] \in Owners /\ polled[cur] = "none"
  /\ pc = "action" /\ sockets[cur] \in Conns => session[sockets[cur]].state \in {"Read", "Write"}
  /\ pc = "acted" => sockets[cur] \in Conns /\ session[sockets[cur]].state \in {"Handle", "Disconnect"}
  /\ pc = "crashed" => OutOfMemory

\* A line of the log is left open only for a session that is about to be
\* deleted, and the thread waits nowhere but where it has left one open.
LogLineOpen ==
  /\ is_locked => pc \in {"acted", "blocked"}
  /\ is_locked /\ pc = "acted" => session[sockets[cur]].state = "Disconnect"
  /\ pc = "blocked" => is_locked /\ LogBlocks

\* A NULL entry is what a bad_alloc left where a connection was accepted.
NullEntries ==
  \A f \in Fds : sockets[f] = Null => OutOfMemory /\ fdtab[f] \notin Addrs

\* The inductive invariant: what the loop relies on from step to step.  It
\* speaks of the entries that hold a socket; of those that hold NULL it says
\* only where they come from.
LoopInv ==
  /\ TypeOK
  /\ NoDanglingFd
  /\ SessionsApart
  /\ QueuesApart
  /\ ListenersReady
  /\ WalkInPlace
  /\ LogLineOpen
  /\ PollEntriesCurrent
  /\ NoStrandedSocket
  /\ HandlerMatchesState
  /\ NullEntries
=============================================================================
