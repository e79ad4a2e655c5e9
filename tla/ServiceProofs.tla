---------------------------- MODULE ServiceProofs ----------------------------
(***************************************************************************)
(* Server, for every value of its constants: what poll() said still holds  *)
(* when it is acted upon; while allocations succeed no descriptor leaks    *)
(* and no connection is closed without a reason; and Server implements     *)
(* RequestResponse when clients wait for each answer, with and without     *)
(* std::bad_alloc, and whatever the log does.  The last argument follows   *)
(* one connection at a time: each step of Server is one of a few moves for *)
(* one connection, and for the others no move at all.                      *)
(***************************************************************************)
EXTENDS ServerProofs

-----------------------------------------------------------------------------
(* What poll() said.                                                       *)

\* What poll() said of one connection, by the descriptor it has.
Still(f) ==
  LET c == sockets[f]
      acting == pc = "action" /\ cur = f
  IN  /\ "ERR" \in revents[f] => client[c].phase = "reset"
      /\ "IN" \in revents[f] \/ (acting /\ session[c].state = "Read") => Ready(c, "IN")
      /\ "OUT" \in revents[f] \/ (acting /\ session[c].state = "Write") => Ready(c, "OUT")

\* A step after which no action is due, and which changes one connection whose
\* entry has been walked.
LEMMA StillFrame ==
  ASSUME LoopInv, PollStillTrue, NEW f \in Fds, pc' # "action", UNCHANGED revents,
         revents[f] = {},
         \A g \in Fds : g # f =>
           /\ sockets'[g] = sockets[g]
           /\ sockets[g] \in Conns => client'[sockets[g]] = client[sockets[g]]
  PROVE  PollStillTrue'
<1> SUFFICES ASSUME NEW g \in Fds, sockets'[g] \in Conns PROVE Still(g)'
  BY DEF PollStillTrue, Still
<1>1. CASE g = f
  BY <1>1 DEF Still
<1>2. CASE g # f
  <2>1. sockets'[g] = sockets[g] /\ client'[sockets[g]] = client[sockets[g]] /\ Still(g)
    BY <1>2 DEF PollStillTrue, Still
  <2>2. sockets[g] \notin Addrs
    BY <2>1, NamesAssumption
  <2> QED
    BY <2>1, <2>2 DEF Still, Ready
<1> QED
  BY <1>1, <1>2

\* A connection becomes no less ready.
Keeps(c) ==
  /\ client[c].phase = "reset" => client'[c].phase = "reset"
  /\ Ready(c, "IN") => Ready(c, "IN")'
  /\ Ready(c, "OUT") => Ready(c, "OUT")'

\* The clients and the kernel make nothing less ready.
LEMMA StillEnvironment ==
  ASSUME LoopInv, PollStillTrue, Environment
  PROVE  PollStillTrue'
<1>1. client \in [Conns -> ClientType] /\ \A c \in Conns : client[c] \in ClientType /\ c \notin Addrs
  BY NamesAssumption DEF LoopInv, TypeOK
<1>2. UNCHANGED <<sockets, session, cur, revents>> /\ (pc' = "action" => pc = "action")
  BY DEF Environment, Connect, Send, Receive, PeerClose, PeerReset, StopServer, process, pollArray
<1>3. ASSUME NEW c \in Conns, client'[c] = client[c] PROVE Keeps(c)
  BY <1>1, <1>3 DEF Keeps, Ready
<1>4. \A c \in Conns : Keeps(c)
  <2>1. CASE StopServer
    BY <1>3, <2>1 DEF StopServer
  <2>2. ASSUME NEW c \in Conns, NEW a \in Addrs, Connect(c, a) PROVE \A d \in Conns : Keeps(d)
    <3>1. /\ client[c].phase = "new" /\ client' = [client EXCEPT ![c].phase = "open"]
      BY <2>2 DEF Connect
    <3>2. Keeps(c)
      BY <1>1, <3>1 DEF Keeps, Ready, ClientType
    <3> QED
      BY <1>1, <1>3, <3>1, <3>2
  <2>3. ASSUME NEW c \in Conns, NEW s \in Symbols, Send(c, s) PROVE \A d \in Conns : Keeps(d)
    <3>1. /\ client'[c].phase = client[c].phase /\ client'[c].out = client[c].out
          /\ client'[c].rx = Append(client[c].rx, s)
          /\ \A d \in Conns : d # c => client'[d] = client[d]
      BY <1>1, <2>3 DEF Send, ClientType
    <3>2. client[c].rx \in Seq(Symbols)
      BY <1>1 DEF ClientType
    <3>3. Append(client[c].rx, s) # <<>>
      BY <3>2
    <3>4. Keeps(c)
      BY <1>1, <3>1, <3>3 DEF Keeps, Ready
    <3> QED
      BY <1>3, <3>1, <3>4
  <2>4. ASSUME NEW c \in Conns, Receive(c) PROVE \A d \in Conns : Keeps(d)
    <3>1. client' = [client EXCEPT ![c].out = 0]
      BY <2>4 DEF Receive
    <3>2. Keeps(c)
      BY <1>1, <3>1, BoundsAssumption DEF Keeps, Ready, ClientType
    <3> QED
      BY <1>1, <1>3, <3>1, <3>2
  <2>5. ASSUME NEW c \in Conns, PeerClose(c) PROVE \A d \in Conns : Keeps(d)
    <3>1. client[c].phase = "open" /\ client' = [client EXCEPT ![c].phase = "fin"]
      BY <2>5 DEF PeerClose
    <3>2. Keeps(c)
      BY <1>1, <3>1 DEF Keeps, Ready, ClientType
    <3> QED
      BY <1>1, <1>3, <3>1, <3>2
  <2>6. ASSUME NEW c \in Conns, PeerReset(c) PROVE \A d \in Conns : Keeps(d)
    <3>1. client' = [client EXCEPT ![c].phase = "reset", ![c].rx = <<>>, ![c].out = 0]
      BY <2>6 DEF PeerReset
    <3>2. client'[c].phase = "reset" /\ \A d \in Conns : d # c => client'[d] = client[d]
      BY <1>1, <3>1 DEF ClientType
    <3>3. Keeps(c)
      BY <1>1, <3>2 DEF Keeps, Ready
    <3> QED
      BY <1>3, <3>2, <3>3
  <2> QED
    BY <2>1, <2>2, <2>3, <2>4, <2>5, <2>6 DEF Environment
<1> QED
  BY <1>1, <1>2, <1>4 DEF PollStillTrue, Keeps, Ready

\* poll() reports what is so.
LEMMA StillLoop ==
  ASSUME LoopInv, PollStillTrue, Loop
  PROVE  PollStillTrue'
<1>1. CASE EventArrayPrepare \/ EventArrayPrepareCrashes \/ EventArrayPrepareFails \/ PollEnter
  <2>1. UNCHANGED <<sockets, session, client, backlog, revents>> /\ pc' # "action"
    BY <1>1 DEF EventArrayPrepare, EventArrayPrepareCrashes, EventArrayPrepareFails, PollEnter,
       pollArray
  <2> QED
    BY <2>1 DEF PollStillTrue, Ready
<1>2. CASE PollReturn
  <2>1. /\ UNCHANGED <<sockets, session, client, backlog>> /\ pc' = "pass"
        /\ \A f \in Fds : revents'[f] = ReventsOf(f)
    BY <1>2 DEF PollReturn
  <2>2. \A f \in Fds : sockets[f] \in Conns => fdtab[f] = sockets[f]
    BY DEF LoopInv, NoDanglingFd, Owners
  <2>3. ASSUME NEW f \in Fds, sockets[f] \in Conns
        PROVE  /\ "ERR" \in ReventsOf(f) => client[sockets[f]].phase = "reset"
               /\ "IN" \in ReventsOf(f) => Ready(sockets[f], "IN")
               /\ "OUT" \in ReventsOf(f) => Ready(sockets[f], "OUT")
    <3>1. polled[f] \in {"none", "IN", "OUT"}
      BY DEF LoopInv, TypeOK
    <3> QED
      BY <2>2, <2>3, <3>1, Zenon DEF ReventsOf, Broken
  <2> QED
    BY <2>1, <2>3 DEF PollStillTrue, Ready
<1>3. CASE ShutDown
  <2>1. \A f \in Fds : sockets'[f] \notin Conns
    BY <1>3, NamesAssumption DEF ShutDown, Owners
  <2> QED
    BY <2>1 DEF PollStillTrue
<1> QED
  BY <1>1, <1>2, <1>3 DEF Loop

\* eventCheck: the event that was asked for is what makes the action due.
LEMMA StillEventCheck ==
  ASSUME LoopInv, PollStillTrue, NEW f \in Fds, EventCheck(f)
  PROVE  PollStillTrue'
<1>t. /\ sockets \in [Fds -> Owners \union {Absent, Null}] /\ client \in [Conns -> ClientType]
      /\ revents \in [Fds -> SUBSET {"IN", "OUT", "ERR"}] /\ session \in [Conns -> SessionType]
  BY DEF LoopInv, TypeOK
<1>1. /\ pc = "pass" /\ revents' = [revents EXCEPT ![f] = {}]
      /\ pc' = "action" => cur' = f /\ revents[f] = {polled[f]} /\ polled[f] # "none"
  BY DEF EventCheck, Forget, Accepted, NextEntry
<1>2. revents'[f] = {} /\ \A g \in Fds : g # f => revents'[g] = revents[g]
  BY <1>1, <1>t
<1>3. CASE "ERR" \in revents[f] /\ sockets[f] \in Conns
  <2>1. Delete(sockets[f]) /\ Erase(f) /\ pc' # "action"
    BY <1>1, <1>3 DEF EventCheck
  <2>2. sockets'[f] = Absent /\ \A g \in Fds : g # f => sockets'[g] = sockets[g]
    BY <1>t, <2>1 DEF Erase
  <2>3. \A d \in Conns : d # sockets[f] => client'[d] = client[d]
    BY <1>t, <2>1 DEF Delete, Closed
  <2>4. \A g \in Fds : g # f => sockets[g] # sockets[f]
    BY <1>3, OneEntry
  <2>5. Absent \notin Conns
    BY NamesAssumption DEF Owners
  <2> QED
    BY <1>2, <2>1, <2>2, <2>3, <2>4, <2>5, NamesAssumption DEF PollStillTrue, Ready
<1>4. CASE ~("ERR" \in revents[f] /\ sockets[f] \in Conns)
  <2>1. UNCHANGED <<sockets, session, client>>
    BY <1>4 DEF EventCheck
  <2>2. ASSUME NEW g \in Fds, sockets[g] \in Conns PROVE Still(g)'
    <3>1. Still(g) /\ sockets[g] \notin Addrs
      BY <2>2, NamesAssumption DEF PollStillTrue, Still
    <3>2. CASE g # f
      BY <1>1, <1>2, <2>1, <3>1, <3>2 DEF Still, Ready
    <3>3. CASE g = f
      <4>1. ASSUME pc' = "action"
            PROVE  /\ session[sockets[f]].state = "Read" => "IN" \in revents[f]
                   /\ session[sockets[f]].state = "Write" => "OUT" \in revents[f]
        <5>1. polled[f] = EventsFor(sockets[f]) /\ sockets[f] # Absent
          BY <1>1, <2>2, <3>3, <4>1, NamesAssumption DEF LoopInv, PollEntriesCurrent, Owners
        <5> QED
          BY <1>1, <2>2, <3>3, <4>1, <5>1 DEF EventsFor, StateOf
      <4> QED
        BY <1>2, <2>1, <3>1, <3>3, <4>1 DEF Still, Ready
    <3> QED
      BY <3>2, <3>3
  <2> QED
    BY <2>1, <2>2 DEF PollStillTrue, Still
<1> QED
  BY <1>3, <1>4

\* The actions: only the socket at work changes, or a new one is there.
LEMMA StillAction ==
  ASSUME LoopInv, PollStillTrue, Event, \A f \in Fds : ~EventCheck(f)
  PROVE  PollStillTrue'
<1>t. /\ sockets \in [Fds -> Owners \union {Absent, Null}] /\ client \in [Conns -> ClientType]
      /\ session \in [Conns -> SessionType] /\ backlog \in [Addrs -> Seq(Conns)]
  BY DEF LoopInv, TypeOK
<1>n. Absent \notin Conns /\ \A c \in Conns : c \notin Addrs
  BY NamesAssumption DEF Owners
<1>1. ASSUME NEW a \in Addrs, Accept(a) PROVE PollStillTrue'
  <2>1. UNCHANGED revents /\ pc' # "action"
    BY <1>1 DEF Accept, pollArray
  <2>2. CASE UNCHANGED <<sockets, client>>
    BY <1>n, <2>1, <2>2 DEF PollStillTrue, Ready
  <2>3. CASE ~UNCHANGED <<sockets, client>>
    <3>1. backlog[a] # <<>> /\ \E fd \in FreeFds : Inserted(Head(backlog[a]), fd)
      BY <1>1, <2>3 DEF Accept
    <3>5. PICK fd \in FreeFds, c \in Conns :
            /\ c = Head(backlog[a]) /\ c = backlog[a][1] /\ 1 \in DOMAIN backlog[a]
            /\ Inserted(c, fd)
      BY <1>t, <3>1
    <3>2. fd \in Fds /\ fdtab[fd] = Free /\ sockets[fd] \notin Owners
      BY NamesAssumption DEF FreeFds, LoopInv, NoDanglingFd
    <3>3. revents[fd] = {}
      BY <3>2 DEF LoopInv, PollEntriesCurrent, WalkInPlace
    <3>4. \A g \in Fds : g # fd => sockets'[g] = sockets[g]
      BY <1>t, <3>5 DEF Inserted
    <3>6. \A d \in Conns : d # c => client'[d] = client[d]
      BY <1>t, <3>5 DEF Inserted, Closed
    <3>7. \A g \in Fds : sockets[g] # c
      BY <3>5, OneEntry DEF LoopInv, QueuesApart
    <3> QED
      BY <2>1, <3>2, <3>3, <3>4, <3>6, <3>7, StillFrame
  <2> QED
    BY <2>2, <2>3
<1>2. ASSUME NEW c \in Conns,
             SessionRead(c) \/ SessionWrite(c) \/ Disconnect(c)
               \/ HandleRequest(c) \/ HandleRequestFails(c)
      PROVE  PollStillTrue'
  <2>1. pc \in {"action", "acted"} /\ sockets[cur] = c /\ UNCHANGED revents
    BY <1>2 DEF SessionRead, SessionWrite, Disconnect, HandleRequest, HandleRequestFails, pollArray
  <2>2. pc' # "action"
    BY <1>2, Zenon DEF SessionRead, SessionWrite, Disconnect, HandleRequest, HandleRequestFails, AfterAction
  <2>3. cur \in Fds /\ revents[cur] = {}
    BY <2>1 DEF LoopInv, WalkInPlace
  <2>4. \A g \in Fds : g # cur => sockets[g] # c
    BY <2>1, <2>3, OneEntry
  <2>5. \A d \in Conns : d # c => client'[d] = client[d]
    <3>1. UNCHANGED client \/ \E new : client' = [client EXCEPT ![c] = new]
      <4>1. CASE SessionRead(c)
        BY <1>t, <4>1 DEF SessionRead
      <4>2. CASE SessionWrite(c)
        <5>1. UNCHANGED client \/ \E n : client' = [client EXCEPT ![c].out = @ + n]
          BY <4>2, Zenon DEF SessionWrite
        <5> QED
          BY <1>t, <5>1
      <4>3. CASE Disconnect(c) \/ HandleRequest(c) \/ HandleRequestFails(c)
        <5>1. UNCHANGED client \/ Delete(c)
          BY <4>3 DEF Disconnect, HandleRequest, HandleRequestFails
        <5> QED
          BY <1>t, <5>1 DEF Delete, Closed
      <4> QED
        BY <1>2, <4>1, <4>2, <4>3
    <3> QED
      BY <1>t, <3>1
  <2>6. \A g \in Fds : g # cur => sockets'[g] = sockets[g]
    BY <1>t, <1>2, Zenon DEF SessionRead, SessionWrite, Disconnect, HandleRequest, HandleRequestFails, Erase
  <2>7. \A g \in Fds : g # cur =>
          sockets'[g] = sockets[g] /\ (sockets[g] \in Conns => client'[sockets[g]] = client[sockets[g]])
    BY <2>4, <2>5, <2>6
  <2> QED
    BY <2>1, <2>2, <2>3, <2>7, StillFrame
<1> QED
  BY <1>1, <1>2 DEF Event

LEMMA StillNext == LoopInv /\ PollStillTrue /\ [Next]_vars => PollStillTrue'
<1> SUFFICES ASSUME LoopInv, PollStillTrue, [Next]_vars PROVE PollStillTrue'
  OBVIOUS
<1>1. CASE Terminated \/ UNCHANGED vars
  <2>1. UNCHANGED <<sockets, session, client, backlog, revents, pc, cur>>
    BY <1>1 DEF Terminated, vars, process, pollArray
  <2> QED
    BY <2>1 DEF PollStillTrue, Ready
<1> QED
  BY <1>1, StillEnvironment, StillLoop, StillEventCheck, StillAction DEF Next

\* poll()'s word holds until it is acted upon, for any number of connections
\* served between the two, also when memory runs out.
THEOREM WordKept == Spec => []PollStillTrue
<1>1. Init => PollStillTrue
  BY NamesAssumption DEF Init, PollStillTrue, NoRevents
<1> QED
  BY <1>1, StillNext, LoopInvariant, PTL DEF Spec

-----------------------------------------------------------------------------
(* Connections whose peer is there.                                        *)

\* What a step that ends such a connection must be.
Reasoned(c) ==
  (/\ session[c].state # "Disconnect" /\ client[c].phase = "open" /\ Live(c)
   /\ session'[c].state \in {"Disconnect", "Freed"})
  => \/ pc' = "stopped"
     \/ FirstEnd(session'[c].buffer) = "bad"
     \/ FirstEnd(session[c].buffer) = "close" /\ answered'[c] = answered[c] + 1

\* A session that polled ready to read has something to read, and reads on
\* unless what it has read is bad.
LEMMA ReadReasoned ==
  ASSUME LoopInv, PollStillTrue, ~OutOfMemory, NEW c \in Conns, SessionRead(c)
  PROVE  Reasoned(c)
<1> SUFFICES ASSUME client[c].phase = "open", session'[c].state \in {"Disconnect", "Freed"}
             PROVE  FirstEnd(session'[c].buffer) = "bad"
  BY DEF Reasoned
<1>t. /\ session \in [Conns -> SessionType] /\ session[c] \in SessionType
      /\ client[c].rx \in Seq(Symbols) /\ c \notin Addrs
  BY NamesAssumption DEF LoopInv, TypeOK, ClientType
<1>1. /\ pc = "action" /\ sockets[cur] = c /\ session[c].state = "Read"
      /\ session' = [session EXCEPT ![c].buffer = @ \o Received(c), ![c].state = ReadOutcome(c)]
  BY DEF SessionRead
<1>2. session'[c].buffer = session[c].buffer \o Received(c) /\ session'[c].state = ReadOutcome(c)
  BY <1>t, <1>1 DEF SessionType
<1>3. cur \in Fds
  BY <1>1 DEF LoopInv, WalkInPlace
<1>4. client[c].rx # <<>>
  BY <1>t, <1>1, <1>3 DEF PollStillTrue, Ready
<1>5. Received(c) # <<>>
  <2>1. Len(client[c].rx) \in Nat \ {0}
    BY <1>t, <1>4
  <2>2. Least(Len(client[c].rx), BUFFER_SIZE) \in 1..Len(client[c].rx)
    BY <2>1, BoundsAssumption DEF Least
  <2>3. Len(Received(c)) = Least(Len(client[c].rx), BUFFER_SIZE)
    BY <1>t, <2>2 DEF Received
  <2> QED
    BY <2>2, <2>3
<1> QED
  BY <1>2, <1>5 DEF ReadOutcome

\* A session that polled ready to write writes something, and goes on unless
\* its answer is complete and was asked to be the last.
LEMMA WriteReasoned ==
  ASSUME LoopInv, PollStillTrue, ~OutOfMemory, NEW c \in Conns, SessionWrite(c)
  PROVE  Reasoned(c)
<1> DEFINE s == session[c]
           left == IF s.ready THEN s.left ELSE ResponseSize
           n == Sent(c, left)
<1> SUFFICES ASSUME client[c].phase = "open", session'[c].state \in {"Disconnect", "Freed"}
             PROVE  FirstEnd(s.buffer) = "close" /\ answered'[c] = answered[c] + 1
  BY DEF Reasoned
<1>t. /\ session \in [Conns -> SessionType] /\ s \in SessionType /\ answered \in [Conns -> Nat]
      /\ client[c] \in ClientType /\ c \notin Addrs
  BY NamesAssumption DEF LoopInv, TypeOK
<1>1. pc = "action" /\ sockets[cur] = c /\ s.state = "Write" /\ cur \in Fds
  BY DEF SessionWrite, LoopInv, WalkInPlace
<1>2. client[c].out < SendSpace
  BY <1>t, <1>1 DEF PollStillTrue, Ready
<1>3. left \in Nat /\ left > 0
  <2>1. left \in Nat
    BY <1>t, BoundsAssumption DEF SessionType
  <2>2. left > 0
    BY <1>1, BoundsAssumption DEF LoopInv, HandlerMatchesState
  <2> QED
    BY <2>1, <2>2
<1> HIDE DEF left
<1>4. n # 0
  <2>1. client[c].out \in Nat
    BY <1>t, BoundsAssumption DEF ClientType
  <2> QED
    BY <1>2, <1>3, <2>1, BoundsAssumption DEF Sent, Least
<1> HIDE DEF n
<1>5. PICK T \in SUBSET FreeFds :
        \/ session' = [session EXCEPT ![c] =
             [s EXCEPT !.ready = TRUE, !.left = left - n, !.tmp = @ \union T]]
        \/ /\ session' = [session EXCEPT ![c] = Reset(s, AfterResponse(c))]
           /\ answered' = [answered EXCEPT ![c] = @ + 1]
  <2>1. ~(client[c].phase = "reset" \/ n = 0)
    BY <1>4
  <2> QED
    BY <2>1, ZenonT(30) DEF SessionWrite, left, n
<1>6. CASE session' = [session EXCEPT ![c] =
             [s EXCEPT !.ready = TRUE, !.left = left - n, !.tmp = @ \union T]]
  BY <1>t, <1>1, <1>6 DEF SessionType
<1>7. CASE /\ session' = [session EXCEPT ![c] = Reset(s, AfterResponse(c))]
           /\ answered' = [answered EXCEPT ![c] = @ + 1]
  <2>1. session'[c].state = AfterResponse(c)
    BY <1>t, <1>7 DEF Reset, NewSession, NoSession
  <2> QED
    BY <1>t, <1>7, <2>1 DEF AfterResponse
<1> QED
  BY <1>5, <1>6, <1>7

\* A session that does not change, or changes to a new one, is not ended.
LEMMA RestReasoned ==
  ASSUME NEW c \in Conns, session'[c] = session[c] \/ session'[c].state \in {"Read", "Write"}
  PROVE  Reasoned(c)
BY DEF Reasoned, Live

LEMMA StepReasoned ==
  ASSUME LoopInv, PollStillTrue, ~OutOfMemory, [Next]_vars, NEW c \in Conns
  PROVE  Reasoned(c)
<1>t. session \in [Conns -> SessionType] /\ backlog \in [Addrs -> Seq(Conns)]
  BY DEF LoopInv, TypeOK
<1>1. CASE Loop
  BY <1>1, RestReasoned
  DEF Loop, EventArrayPrepare, EventArrayPrepareCrashes, EventArrayPrepareFails, PollEnter,
      PollReturn, ShutDown, Reasoned
<1>2. CASE Environment \/ Terminated \/ UNCHANGED vars
  <2>1. UNCHANGED session
    BY <1>2 DEF Environment, Connect, Send, Receive, PeerClose, PeerReset, StopServer,
                Terminated, vars, process
  <2> QED
    BY <2>1, RestReasoned
<1>3. ASSUME NEW f \in Fds, EventCheck(f) PROVE Reasoned(c)
  <2>1. CASE "ERR" \in revents[f] /\ sockets[f] \in Conns
    <3>1. client[sockets[f]].phase = "reset" /\ Delete(sockets[f])
      BY <1>3, <2>1 DEF EventCheck, PollStillTrue
    <3>2. c # sockets[f] => session'[c] = session[c]
      BY <1>t, <3>1 DEF Delete
    <3> QED
      BY <3>1, <3>2, RestReasoned DEF Reasoned
  <2>2. CASE ~("ERR" \in revents[f] /\ sockets[f] \in Conns)
    BY <1>3, <2>2, RestReasoned DEF EventCheck
  <2> QED
    BY <2>1, <2>2
<1>4. ASSUME NEW a \in Addrs, Accept(a) PROVE Reasoned(c)
  <2>1. UNCHANGED session
        \/ \E d, fd : session' = [session EXCEPT ![d] = NewSession(fd)]
    BY <1>4, ZenonT(30) DEF Accept, Inserted
  <2>2. \A fd : NewSession(fd).state = "Read"
    BY DEF NewSession, NoSession
  <2>3. session'[c] = session[c] \/ session'[c].state = "Read"
    BY <1>t, <2>1, <2>2
  <2> QED
    BY <2>3, RestReasoned
<1>5. ASSUME NEW d \in Conns,
             SessionRead(d) \/ SessionWrite(d) \/ Disconnect(d)
               \/ HandleRequest(d) \/ HandleRequestFails(d)
      PROVE  Reasoned(c)
  <2>1. CASE d # c
    <3>1. \E new : session' = [session EXCEPT ![d] = new]
      <4>1. CASE SessionRead(d)
        BY <1>t, <4>1 DEF SessionRead
      <4>2. CASE SessionWrite(d)
        BY <4>2, Zenon DEF SessionWrite
      <4>3. CASE Disconnect(d)
        BY <4>3 DEF Disconnect, Delete
      <4>4. CASE HandleRequest(d)
        BY <1>t, <4>4 DEF HandleRequest
      <4>5. CASE HandleRequestFails(d)
        BY <4>5 DEF HandleRequestFails
      <4> QED
        BY <1>5, <4>1, <4>2, <4>3, <4>4, <4>5
    <3> QED
      BY <1>t, <2>1, <3>1, RestReasoned
  <2>2. CASE d = c
    <3>1. CASE SessionRead(c)
      BY <3>1, ReadReasoned
    <3>2. CASE SessionWrite(c)
      BY <3>2, WriteReasoned
    <3>3. CASE Disconnect(c)
      BY <3>3 DEF Disconnect, Reasoned
    <3>4. CASE HandleRequest(c)
      <4>1. session'[c].state = "Write"
        BY <1>t, <3>4 DEF HandleRequest, SessionType
      <4> QED
        BY <4>1, RestReasoned
    <3>5. CASE HandleRequestFails(c)
      BY <3>5 DEF HandleRequestFails
    <3> QED
      BY <1>5, <2>2, <3>1, <3>2, <3>3, <3>4, <3>5
  <2> QED
    BY <2>1, <2>2
<1> QED
  BY <1>1, <1>2, <1>3, <1>4, <1>5 DEF Next, Event

\* While allocations succeed, a client that is there loses its connection only
\* after a bad request, after the answer to a request that asked for it, or
\* because the server stops; a slow one never does.
THEOREM NoneDropped == Spec /\ ~OutOfMemory => HealthyStaysOpen
<1>1. CASE ~OutOfMemory
  <2>1. LoopInv /\ PollStillTrue /\ [Next]_vars => \A c \in Conns : Reasoned(c)
    BY <1>1, StepReasoned
  <2>2. LoopInv /\ PollStillTrue /\ [Next]_vars => [\A c \in Conns : Reasoned(c)]_vars
    BY <2>1
  <2>3. Spec => [][\A c \in Conns : Reasoned(c)]_vars
    BY <2>2, LoopInvariant, WordKept, PTL DEF Spec
  <2> QED
    BY <2>3 DEF HealthyStaysOpen, Reasoned
<1>2. CASE OutOfMemory
  BY <1>2
<1> QED
  BY <1>1, <1>2

-----------------------------------------------------------------------------
(* Descriptors.                                                            *)

\* What a descriptor is open on is held by the server.
Held(f) ==
  /\ fdtab[f] \in Owners => sockets[f] = fdtab[f]
  /\ fdtab[f] = Tmp => \E c \in Conns : Live(c) /\ f \in session[c].tmp

AllHeld == \A f \in Fds : Held(f)

\* A session goes with its descriptors and its entry; the others keep theirs.
LEMMA HeldDelete ==
  ASSUME LoopInv, AllHeld, NEW f \in Fds, sockets[f] \in Conns, Delete(sockets[f]), Erase(f)
  PROVE  AllHeld'
<1> DEFINE c == sockets[f]
<1>t. session \in [Conns -> SessionType] /\ sockets \in [Fds -> Owners \union {Absent, Null}]
  BY DEF LoopInv, TypeOK
<1>1. session[c].fd = f
  BY OneEntry
<1>2. \A g \in Fds : fdtab'[g] = IF g = f \/ g \in session[c].tmp THEN Free ELSE fdtab[g]
  BY <1>1 DEF Delete
<1>3. \A g \in Fds : g # f => sockets'[g] = sockets[g]
  BY <1>t DEF Erase
<1>4. \A d \in Conns : d # c => session'[d] = session[d]
  BY <1>t DEF Delete
<1> SUFFICES ASSUME NEW g \in Fds PROVE Held(g)'
  BY DEF AllHeld
<1>5. CASE g = f \/ g \in session[c].tmp
  BY <1>2, <1>5, NamesAssumption DEF Held
<1>6. CASE g # f /\ g \notin session[c].tmp
  <2>1. Held(g) /\ fdtab'[g] = fdtab[g] /\ sockets'[g] = sockets[g]
    BY <1>2, <1>3, <1>6 DEF AllHeld
  <2>2. \A d \in Conns : Live(d) /\ g \in session[d].tmp => Live(d)' /\ g \in session'[d].tmp
    BY <1>4, <1>6 DEF Live
  <2> QED
    BY <2>1, <2>2 DEF Held
<1> QED
  BY <1>5, <1>6

\* A session opens files of its own and lets go of the ones it closes.
LEMMA HeldSession ==
  ASSUME AllHeld, NEW c \in Conns, Live(c), Live(c)', UNCHANGED sockets,
         \A d \in Conns : d # c => session'[d] = session[d],
         \A f \in Fds : \/ fdtab'[f] = Tmp /\ f \in session'[c].tmp
                        \/ fdtab'[f] = Free
                        \/ /\ fdtab'[f] = fdtab[f]
                           /\ f \in session[c].tmp => f \in session'[c].tmp
  PROVE  AllHeld'
<1> SUFFICES ASSUME NEW f \in Fds PROVE Held(f)'
  BY DEF AllHeld
<1>1. CASE fdtab'[f] = Tmp /\ f \in session'[c].tmp
  BY <1>1, NamesAssumption DEF Held
<1>2. CASE fdtab'[f] = Free
  BY <1>2, NamesAssumption DEF Held
<1>3. CASE fdtab'[f] = fdtab[f] /\ (f \in session[c].tmp => f \in session'[c].tmp)
  <2>1. Held(f)
    BY DEF AllHeld
  <2>2. \A d \in Conns : Live(d) /\ f \in session[d].tmp => Live(d)' /\ f \in session'[d].tmp
    BY <1>3 DEF Live
  <2> QED
    BY <1>3, <2>1, <2>2 DEF Held
<1> QED
  BY <1>1, <1>2, <1>3

\* Nothing that holds a descriptor changes.
LEMMA HeldFrame == AllHeld /\ UNCHANGED <<fdtab, sockets, session>> => AllHeld'
BY DEF AllHeld, Held, Live

LEMMA HeldAccept ==
  ASSUME LoopInv, AllHeld, ~OutOfMemory, NEW a \in Addrs, Accept(a)
  PROVE  AllHeld'
<1>1. CASE backlog[a] = <<>> \/ FreeFds = {}
  BY <1>1, HeldFrame DEF Accept
<1>2. CASE backlog[a] # <<>> /\ FreeFds # {}
  <2>1. PICK fd \in FreeFds, c \in Conns :
          /\ c = backlog[a][1] /\ 1 \in DOMAIN backlog[a]
          /\ fdtab' = [fdtab EXCEPT ![fd] = c]
          /\ sockets' = [sockets EXCEPT ![fd] = c]
          /\ session' = [session EXCEPT ![c] = NewSession(fd)]
    <3>1. backlog[a] \in Seq(Conns)
      BY DEF LoopInv, TypeOK
    <3>2. Head(backlog[a]) = backlog[a][1] /\ 1 \in DOMAIN backlog[a] /\ Head(backlog[a]) \in Conns
      BY <1>2, <3>1
    <3> QED
      BY <1>2, <3>2 DEF Accept, Inserted
  <2>2. ~Live(c) /\ fd \in Fds
    BY <2>1 DEF LoopInv, QueuesApart, FreeFds
  <2>3. /\ fdtab'[fd] = c /\ sockets'[fd] = c
        /\ \A f \in Fds : f # fd => fdtab'[f] = fdtab[f] /\ sockets'[f] = sockets[f]
        /\ \A d \in Conns : d # c => session'[d] = session[d]
    BY <2>1, <2>2 DEF LoopInv, TypeOK
  <2>4. ASSUME NEW f \in Fds PROVE Held(f)'
    <3>1. CASE f = fd
      BY <2>3, <3>1, NamesAssumption DEF Held, Owners
    <3>2. CASE f # fd
      <4>1. Held(f)
        BY DEF AllHeld
      <4>2. \A d \in Conns : Live(d) /\ f \in session[d].tmp => Live(d)' /\ f \in session'[d].tmp
        BY <2>2, <2>3 DEF Live
      <4> QED
        BY <2>3, <3>2, <4>1, <4>2 DEF Held
    <3> QED
      BY <3>1, <3>2
  <2> QED
    BY <2>4 DEF AllHeld
<1> QED
  BY <1>1, <1>2

LEMMA HeldWrite ==
  ASSUME LoopInv, AllHeld, NEW c \in Conns, SessionWrite(c)
  PROVE  AllHeld'
<1> DEFINE s == session[c]
           left == IF s.ready THEN s.left ELSE ResponseSize
           n == Sent(c, left)
<1>t. session \in [Conns -> SessionType] /\ s \in SessionType
  BY DEF LoopInv, TypeOK
<1>1. pc = "action" /\ sockets[cur] = c /\ s.state = "Write" /\ UNCHANGED sockets
  BY DEF SessionWrite, LoopInv, WalkInPlace
<1>2. PICK T \in SUBSET FreeFds :
        \/ /\ session' = [session EXCEPT ![c] =
                [s EXCEPT !.state = "Disconnect", !.ready = TRUE, !.left = left, !.tmp = @ \union T]]
           /\ fdtab' = [f \in Fds |-> IF f \in T THEN Tmp ELSE fdtab[f]]
        \/ /\ session' = [session EXCEPT ![c] =
                [s EXCEPT !.ready = TRUE, !.left = left - n, !.tmp = @ \union T]]
           /\ fdtab' = [f \in Fds |-> IF f \in T THEN Tmp ELSE fdtab[f]]
        \/ /\ session' = [session EXCEPT ![c] = Reset(s, AfterResponse(c))]
           /\ fdtab' = [f \in Fds |-> IF f \in s.tmp THEN Free ELSE fdtab[f]]
        \/ /\ session' = [session EXCEPT ![c] =
                [s EXCEPT !.state = "Disconnect", !.buffer = <<>>, !.ready = TRUE, !.left = 0,
                          !.tmp = @ \union T]]
           /\ fdtab' = [f \in Fds |-> IF f \in T THEN Tmp ELSE fdtab[f]]
  BY ZenonT(60) DEF SessionWrite
<1> HIDE DEF left, n
<1>3. Live(c)
  BY <1>1 DEF Live
<1>4. \A d \in Conns : d # c => session'[d] = session[d]
  BY <1>t, <1>2
<1>5. CASE /\ session'[c].tmp = s.tmp \union T /\ session'[c].state # "Freed"
           /\ fdtab' = [f \in Fds |-> IF f \in T THEN Tmp ELSE fdtab[f]]
  <2>1. Live(c)'
    BY <1>5 DEF Live
  <2>2. \A f \in Fds : \/ fdtab'[f] = Tmp /\ f \in session'[c].tmp
                       \/ fdtab'[f] = fdtab[f] /\ (f \in s.tmp => f \in session'[c].tmp)
    BY <1>5
  <2> QED
    BY <1>1, <1>3, <1>4, <2>1, <2>2, HeldSession
<1>6. CASE /\ session' = [session EXCEPT ![c] = Reset(s, AfterResponse(c))]
           /\ fdtab' = [f \in Fds |-> IF f \in s.tmp THEN Free ELSE fdtab[f]]
  <2>1. Live(c)'
    BY <1>t, <1>6 DEF Live, Reset, NewSession, AfterResponse
  <2>2. \A f \in Fds : fdtab'[f] = Free \/ (fdtab'[f] = fdtab[f] /\ f \notin s.tmp)
    BY <1>6
  <2> QED
    BY <1>1, <1>3, <1>4, <2>1, <2>2, HeldSession
<1>7. \/ /\ session'[c].tmp = s.tmp \union T /\ session'[c].state # "Freed"
         /\ fdtab' = [f \in Fds |-> IF f \in T THEN Tmp ELSE fdtab[f]]
      \/ /\ session' = [session EXCEPT ![c] = Reset(s, AfterResponse(c))]
         /\ fdtab' = [f \in Fds |-> IF f \in s.tmp THEN Free ELSE fdtab[f]]
  <2> DEFINE opened == fdtab' = [f \in Fds |-> IF f \in T THEN Tmp ELSE fdtab[f]]
             wrote(new) == session' = [session EXCEPT ![c] = new]
  <2>1. CASE /\ wrote([s EXCEPT !.state = "Disconnect", !.ready = TRUE, !.left = left,
                                !.tmp = @ \union T])
             /\ opened
    BY <1>t, <2>1 DEF SessionType
  <2>2. CASE /\ wrote([s EXCEPT !.ready = TRUE, !.left = left - n, !.tmp = @ \union T])
             /\ opened
    BY <1>t, <1>1, <2>2 DEF SessionType
  <2>3. CASE /\ wrote([s EXCEPT !.state = "Disconnect", !.buffer = <<>>, !.ready = TRUE,
                                !.left = 0, !.tmp = @ \union T])
             /\ opened
    BY <1>t, <2>3 DEF SessionType
  <2> QED
    BY <1>2, <2>1, <2>2, <2>3, Zenon
<1> QED
  BY <1>5, <1>6, <1>7

LEMMA HeldNext == LoopInv /\ AllHeld /\ ~OutOfMemory /\ [Next]_vars => AllHeld'
<1> SUFFICES ASSUME LoopInv, AllHeld, ~OutOfMemory, [Next]_vars PROVE AllHeld'
  OBVIOUS
<1>t. session \in [Conns -> SessionType]
  BY DEF LoopInv, TypeOK
<1>1. CASE Environment \/ Terminated \/ UNCHANGED vars
  <2>1. UNCHANGED <<fdtab, sockets, session>>
    BY <1>1 DEF Environment, Connect, Send, Receive, PeerClose, PeerReset, StopServer,
                Terminated, vars, process
  <2> QED
    BY <2>1, HeldFrame
<1>2. CASE Loop
  <2>1. CASE ShutDown
    <3>1. \A f \in Fds : fdtab'[f] = Free
      BY <2>1 DEF ShutDown
    <3> QED
      BY <3>1, NamesAssumption DEF AllHeld, Held
  <2>2. CASE ~ShutDown
    <3>1. UNCHANGED <<fdtab, sockets, session>>
      BY <1>2, <2>2 DEF Loop, EventArrayPrepare, EventArrayPrepareCrashes,
         EventArrayPrepareFails, PollEnter, PollReturn
    <3> QED
      BY <3>1, HeldFrame
  <2> QED
    BY <2>1, <2>2
<1>3. ASSUME NEW f \in Fds, EventCheck(f) PROVE AllHeld'
  <2>1. CASE "ERR" \in revents[f] /\ sockets[f] \in Conns
    BY <1>3, <2>1, HeldDelete DEF EventCheck
  <2>2. CASE ~("ERR" \in revents[f] /\ sockets[f] \in Conns)
    BY <1>3, <2>2, HeldFrame DEF EventCheck
  <2> QED
    BY <2>1, <2>2
<1>4. ASSUME NEW a \in Addrs, Accept(a) PROVE AllHeld'
  BY <1>4, HeldAccept
<1>5. ASSUME NEW c \in Conns, SessionWrite(c) PROVE AllHeld'
  BY <1>5, HeldWrite
<1>6. ASSUME NEW c \in Conns, Disconnect(c) PROVE AllHeld'
  <2>1. cur \in Fds /\ sockets[cur] = c
    BY <1>6 DEF Disconnect, LoopInv, WalkInPlace
  <2> QED
    BY <1>6, <2>1, HeldDelete DEF Disconnect
<1>7. ASSUME NEW c \in Conns, SessionRead(c) \/ HandleRequest(c) PROVE AllHeld'
  <2>1. session[c].state # "Freed" /\ UNCHANGED <<sockets, fdtab>>
    BY <1>7 DEF SessionRead, HandleRequest
  <2>2. /\ session'[c].state # "Freed" /\ session'[c].tmp = session[c].tmp
        /\ \A d \in Conns : d # c => session'[d] = session[d]
    BY <1>7, <1>t DEF SessionRead, HandleRequest, ReadOutcome, SessionType
  <2> QED
    BY <2>1, <2>2, HeldSession DEF Live
<1> QED
  BY <1>1, <1>2, <1>3, <1>4, <1>5, <1>6, <1>7 DEF Next, Event, HandleRequestFails

\* While allocations succeed every open descriptor is that of a socket in the
\* map or a file of one session: however sessions end and handlers fail, the
\* server leaks none.
THEOREM NothingLeaks == Spec /\ ~OutOfMemory => []NoLeakedFd
<1>1. CASE ~OutOfMemory
  <2>1. Init => AllHeld
    BY NamesAssumption DEF Init, AllHeld, Held, Owners
  <2>2. LoopInv /\ AllHeld /\ [Next]_vars => AllHeld'
    BY <1>1, HeldNext
  <2>3. LoopInv /\ AllHeld => NoLeakedFd
    BY DEF LoopInv, SessionsApart, AllHeld, Held, NoLeakedFd
  <2> QED
    BY <2>1, <2>2, <2>3, LoopInvariant, PTL DEF Spec
<1>2. CASE OutOfMemory
  BY <1>2
<1> QED
  BY <1>1, <1>2

-----------------------------------------------------------------------------
(* Symbols with at most one end, in the last place.                        *)

OnlyLast(q) == \A i \in DOMAIN q : q[i] \in Ends => i = Len(q)

\* No end: the buffer completes nothing.
LEMMA WithoutEnd ==
  ASSUME NEW q \in Seq(Symbols), ~HasEnd(q)
  PROVE  Complete(q) = 0 /\ FirstEnd(q) = "none"
<1>1. {i \in DOMAIN q : q[i] \in {"end", "close"}} = {}
  BY DEF HasEnd, Ends
<1>2. Complete(q) = 0
  BY <1>1, FS_EmptySet DEF Complete
<1> QED
  BY <1>2 DEF HasEnd, FirstEnd

\* One end, and it comes last: it decides the buffer, and completes one request
\* unless it is a bad one.
LEMMA WithLastEnd ==
  ASSUME NEW q \in Seq(Symbols), HasEnd(q), OnlyLast(q)
  PROVE  /\ q[Len(q)] \in Ends
         /\ FirstEnd(q) = q[Len(q)]
         /\ Complete(q) = IF q[Len(q)] = "bad" THEN 0 ELSE 1
<1> DEFINE D == {i \in DOMAIN q : q[i] \in {"end", "close"}}
<1>1. Len(q) \in DOMAIN q /\ q[Len(q)] \in Ends
  BY DEF HasEnd, OnlyLast
<1>2. FirstEnd(q) = q[Len(q)]
  <2> DEFINE First(i) == q[i] \in Ends /\ \A j \in 1..(i - 1) : q[j] \notin Ends
  <2>1. First(Len(q))
    BY <1>1, LenProperties DEF OnlyLast
  <2>2. \A i \in DOMAIN q : First(i) => i = Len(q)
    BY DEF OnlyLast
  <2>3. (CHOOSE i \in DOMAIN q : First(i)) = Len(q)
    BY <1>1, <2>1, <2>2
  <2> QED
    BY <1>1, <2>3 DEF FirstEnd
<1>3. CASE q[Len(q)] = "bad"
  <2>1. D = {}
    BY <1>3 DEF OnlyLast, Ends
  <2> QED
    BY <1>1, <1>2, <1>3, <2>1, FS_EmptySet DEF Complete
<1>4. CASE q[Len(q)] # "bad"
  <2>1. D = {Len(q)}
    <3> DEFINE n == Len(q)
    <3>1. n \in DOMAIN q /\ q[n] \in {"end", "close"}
      BY <1>1, <1>4 DEF Ends
    <3>2. \A i \in DOMAIN q : q[i] \in {"end", "close"} => i = n
      BY DEF OnlyLast, Ends
    <3> HIDE DEF n
    <3>3. D = {n}
      BY <3>1, <3>2
    <3> QED
      BY <3>3 DEF n
  <2>2. Cardinality({Len(q)}) = 1
    BY FS_Singleton
  <2> HIDE DEF D
  <2>3. Cardinality(D) = 1
    BY <2>1, <2>2
  <2>4. Complete(q) = 1
    BY <2>3 DEF D, Complete
  <2> QED
    BY <1>1, <1>2, <1>4, <2>4
<1> QED
  BY <1>3, <1>4

\* What a session has read, and then what it receives.
LEMMA Joined ==
  ASSUME NEW b \in Seq(Symbols), NEW r \in Seq(Symbols), ~HasEnd(b), OnlyLast(r)
  PROVE  /\ b \o r \in Seq(Symbols)
         /\ OnlyLast(b \o r)
         /\ HasEnd(b \o r) <=> HasEnd(r)
         /\ HasEnd(r) => (b \o r)[Len(b \o r)] = r[Len(r)]
<1>1. /\ b \o r \in Seq(Symbols) /\ Len(b \o r) = Len(b) + Len(r)
      /\ Len(b) \in Nat /\ Len(r) \in Nat
      /\ DOMAIN b = 1..Len(b) /\ DOMAIN r = 1..Len(r) /\ DOMAIN (b \o r) = 1..(Len(b) + Len(r))
      /\ \A i \in 1..(Len(b) + Len(r)) : (b \o r)[i] = IF i <= Len(b) THEN b[i] ELSE r[i - Len(b)]
  BY ConcatProperties, LenProperties
<1>2. \A i \in 1..(Len(b) + Len(r)) :
        (b \o r)[i] \in Ends => i - Len(b) \in 1..Len(r) /\ r[i - Len(b)] \in Ends
  BY <1>1 DEF HasEnd
<1>3. OnlyLast(b \o r)
  BY <1>1, <1>2 DEF OnlyLast
<1>4. ASSUME HasEnd(r) PROVE HasEnd(b \o r) /\ (b \o r)[Len(b \o r)] = r[Len(r)]
  <2>1. Len(r) \in 1..Len(r) /\ r[Len(r)] \in Ends
    BY <1>1, <1>4 DEF HasEnd, OnlyLast
  <2>2. Len(b) + Len(r) \in 1..(Len(b) + Len(r)) /\ (b \o r)[Len(b) + Len(r)] = r[Len(r)]
    BY <1>1, <2>1
  <2> QED
    BY <1>1, <2>1, <2>2 DEF HasEnd
<1>5. HasEnd(b \o r) => HasEnd(r)
  BY <1>1, <1>2 DEF HasEnd
<1> QED
  BY <1>1, <1>3, <1>4, <1>5

\* What one recv() takes of symbols that end with their end, and leaves.
LEMMA Cut ==
  ASSUME TypeOK, NEW c \in Conns, OnlyLast(client[c].rx)
  PROVE  /\ OnlyLast(Received(c)) /\ OnlyLast(Left(c))
         /\ HasEnd(Received(c)) => HasEnd(client[c].rx) /\ Left(c) = <<>>
         /\ HasEnd(Left(c)) => HasEnd(client[c].rx)
<1> DEFINE rx == client[c].rx
           n == Least(Len(rx), BUFFER_SIZE)
<1>1. rx \in Seq(Symbols) /\ Len(rx) \in Nat /\ DOMAIN rx = 1..Len(rx)
  BY LenProperties DEF TypeOK, ClientType
<1>2. n \in Nat /\ n <= Len(rx)
  BY <1>1, BoundsAssumption DEF Least
<1>3. /\ Len(Received(c)) = n /\ DOMAIN Received(c) = 1..n
      /\ \A i \in 1..n : Received(c)[i] = rx[i]
  BY <1>1, <1>2 DEF Received
<1>4. /\ Len(Left(c)) = Len(rx) - n /\ DOMAIN Left(c) = 1..(Len(rx) - n)
      /\ \A i \in 1..(Len(rx) - n) : Left(c)[i] = rx[i + n]
  <2> DEFINE m == n + 1
  <2>1. Left(c) = SubSeq(rx, m, Len(rx)) /\ m \in 1..(Len(rx) + 1)
    BY <1>1, <1>2, <1>3 DEF Left
  <2>2. Len(rx) - m + 1 = Len(rx) - n /\ \A i \in Int : m + i - 1 = i + n
    BY <1>1, <1>2, SMTT(30)
  <2> HIDE DEF m, n
  <2>3. /\ Len(SubSeq(rx, m, Len(rx))) = Len(rx) - m + 1
        /\ DOMAIN SubSeq(rx, m, Len(rx)) = 1..(Len(rx) - m + 1)
        /\ \A i \in 1..(Len(rx) - m + 1) : SubSeq(rx, m, Len(rx))[i] = rx[m + i - 1]
    BY <1>1, <2>1
  <2>4. Len(Left(c)) = Len(rx) - n /\ DOMAIN Left(c) = 1..(Len(rx) - n)
    BY <2>1, <2>2, <2>3
  <2>5. ASSUME NEW i \in 1..(Len(rx) - n) PROVE Left(c)[i] = rx[i + n]
    <3>1. Left(c)[i] = rx[m + i - 1]
      BY <2>1, <2>2, <2>3
    <3>2. m + i - 1 = i + n
      BY <2>2
    <3> QED
      BY <3>1, <3>2
  <2> QED
    BY <2>4, <2>5
<1> HIDE DEF n
<1>e. ASSUME NEW i \in 1..(Len(rx) - n), Left(c)[i] \in Ends
      PROVE  i + n \in DOMAIN rx /\ rx[i + n] \in Ends
  <2>1. i + n \in DOMAIN rx
    BY <1>1, <1>2
  <2>2. Left(c)[i] = rx[i + n]
    BY <1>4
  <2> QED
    BY <1>e, <2>1, <2>2
<1>5. OnlyLast(Received(c)) /\ OnlyLast(Left(c))
  <2>1. OnlyLast(Received(c))
    BY <1>1, <1>2, <1>3 DEF OnlyLast
  <2>2. ASSUME NEW i \in 1..(Len(rx) - n), Left(c)[i] \in Ends PROVE i = Len(rx) - n
    <3>1. i + n = Len(rx)
      BY <1>e, <2>2 DEF OnlyLast
    <3> QED
      BY <1>1, <1>2, <3>1
  <2>3. OnlyLast(Left(c))
    BY <1>4, <2>2 DEF OnlyLast
  <2> QED
    BY <2>1, <2>3
<1>6. ASSUME HasEnd(Received(c)) PROVE HasEnd(rx) /\ Left(c) = <<>>
  <2>1. PICK i \in 1..n : rx[i] \in Ends
    BY <1>3, <1>6 DEF HasEnd
  <2>2. i \in DOMAIN rx /\ i = Len(rx)
    BY <1>1, <1>2, <2>1 DEF OnlyLast
  <2>3. Len(Left(c)) = 0
    BY <1>1, <1>2, <1>4, <2>2
  <2>4. Left(c) \in Seq(Symbols)
    BY ReceivedType
  <2> QED
    BY <2>1, <2>2, <2>3, <2>4, EmptySeq DEF HasEnd
<1>7. HasEnd(Left(c)) => HasEnd(rx)
  BY <1>4, <1>e DEF HasEnd
<1> QED
  BY <1>5, <1>6, <1>7

\* What a client sends while no end of a request of its own is on the way.
LEMMA Appended ==
  ASSUME NEW x \in Seq(Symbols), NEW s \in Symbols, ~HasEnd(x)
  PROVE  /\ OnlyLast(Append(x, s))
         /\ HasEnd(Append(x, s)) => s \in Ends
<1>1. /\ Len(Append(x, s)) = Len(x) + 1 /\ DOMAIN Append(x, s) = 1..(Len(x) + 1)
      /\ Len(x) \in Nat /\ DOMAIN x = 1..Len(x)
      /\ \A i \in 1..Len(x) : Append(x, s)[i] = x[i]
      /\ Append(x, s)[Len(x) + 1] = s
  BY AppendProperties, LenProperties
<1> QED
  BY <1>1 DEF OnlyLast, HasEnd

-----------------------------------------------------------------------------
(* The invariant, for one connection.                                      *)

\* One request under way; what was asked and what was answered agree.
Fits(c) ==
  LET s == session[c]
      k == client[c]
      taken == s.state \in {"Handle", "Write"}
  IN  /\ OnlyLast(k.rx)
      /\ HasEnd(k.rx) \/ taken => ~k.mid
      /\ HasEnd(k.rx) \/ taken \/ k.mid => k.begun # answered[c]
      /\ s.state = "Read" => ~HasEnd(s.buffer)
      /\ taken => k.rx = <<>> /\ Complete(s.buffer) = 1
      /\ Live(c) => asked[c] = answered[c] + (IF taken THEN 1 ELSE Complete(s.buffer))
      /\ ~Live(c) /\ k.phase # "closed" => asked[c] = answered[c]

ServiceInv == LoopInv /\ \A c \in Conns : Fits(c)

\* What an abstract step is for one connection.
Same(c) == UNCHANGED <<Status(c), asked[c], answered[c]>>

Steps(c) ==
  \/ /\ Status(c) = "none" /\ Status(c)' = "idle"
     /\ UNCHANGED <<asked[c], answered[c]>>
  \/ /\ Status(c) = "idle" /\ Status(c)' \in {"asked", "last"}
     /\ asked'[c] = asked[c] + 1 /\ UNCHANGED answered[c]
  \/ /\ Status(c) \in {"asked", "last"}
     /\ Status(c)' \in {IF Status(c) = "asked" THEN "idle" ELSE "ended", "ended"}
     /\ answered'[c] = answered[c] + 1 /\ UNCHANGED asked[c]
  \/ /\ Status(c) # "ended" /\ Status(c)' = "ended"
     /\ UNCHANGED <<asked[c], answered[c]>>

\* One connection steps and the others do not.
LEMMA Lifted ==
  ASSUME TypeOK, TypeOK', NEW c \in Conns, Same(c) \/ Steps(c),
         \A d \in Conns : d # c => Same(d)
  PROVE  [Service!Next]_(Service!vars)
<1> DEFINE status == [d \in Conns |-> Status(d)]
<1>1. /\ status' = [d \in Conns |-> Status(d)']
      /\ \A d \in Conns : d # c => status'[d] = status[d]
  BY DEF Same
<1>2. \A x : status'[c] = x => status' = [status EXCEPT ![c] = x]
  BY <1>1
<1>3. asked \in [Conns -> Nat] /\ asked' \in [Conns -> Nat]
      /\ answered \in [Conns -> Nat] /\ answered' \in [Conns -> Nat]
  BY DEF TypeOK
<1>4. /\ UNCHANGED asked[c] => UNCHANGED asked
      /\ UNCHANGED answered[c] => UNCHANGED answered
      /\ \A x : asked'[c] = x => asked' = [asked EXCEPT ![c] = x]
      /\ \A x : answered'[c] = x => answered' = [answered EXCEPT ![c] = x]
  BY <1>3 DEF Same
<1>5. status[c] = Status(c) /\ status'[c] = Status(c)'
  BY <1>1
<1>6. CASE Same(c)
  <2>1. status' = status
    BY <1>1, <1>6 DEF Same
  <2> QED
    BY <1>4, <1>6, <2>1 DEF Same, Service!vars
<1> HIDE DEF status
<1>7. CASE Steps(c)
  <2>1. CASE /\ Status(c) = "none" /\ Status(c)' = "idle"
             /\ UNCHANGED <<asked[c], answered[c]>>
    <3>1. Service!Open(c)
      BY <1>2, <1>4, <1>5, <2>1 DEF Service!Open, status
    <3> QED
      BY <3>1 DEF Service!Next
  <2>2. CASE /\ Status(c) = "idle" /\ Status(c)' \in {"asked", "last"}
             /\ asked'[c] = asked[c] + 1 /\ UNCHANGED answered[c]
    <3>1. Service!Ask(c)
      BY <1>2, <1>4, <1>5, <2>2 DEF Service!Ask, status
    <3> QED
      BY <3>1 DEF Service!Next
  <2>3. CASE /\ Status(c) \in {"asked", "last"}
             /\ Status(c)' \in {IF Status(c) = "asked" THEN "idle" ELSE "ended", "ended"}
             /\ answered'[c] = answered[c] + 1 /\ UNCHANGED asked[c]
    <3>1. Service!Answer(c)
      BY <1>2, <1>4, <1>5, <2>3 DEF Service!Answer, status
    <3> QED
      BY <3>1 DEF Service!Next
  <2>4. CASE /\ Status(c) # "ended" /\ Status(c)' = "ended"
             /\ UNCHANGED <<asked[c], answered[c]>>
    <3>1. Service!Drop(c)
      BY <1>2, <1>4, <1>5, <2>4 DEF Service!Drop, status
    <3> QED
      BY <3>1 DEF Service!Next
  <2> QED
    BY <1>7, <2>1, <2>2, <2>3, <2>4 DEF Steps
<1> QED
  BY <1>6, <1>7

\* The sequences of a connection.
LEMMA Shapes ==
  ASSUME TypeOK, NEW c \in Conns
  PROVE  /\ client[c] \in ClientType /\ session[c] \in SessionType
         /\ client[c].rx \in Seq(Symbols) /\ session[c].buffer \in Seq(Symbols)
         /\ client[c].begun \in Nat /\ asked[c] \in Nat /\ answered[c] \in Nat
BY BoundsAssumption DEF TypeOK, ClientType, SessionType

LEMMA NothingHeld == OnlyLast(<<>>) /\ ~HasEnd(<<>>) /\ Complete(<<>>) = 0 /\ FirstEnd(<<>>) = "none"
<1>1. <<>> \in Seq(Symbols) /\ DOMAIN <<>> = {}
  BY EmptySeq
<1>2. OnlyLast(<<>>) /\ ~HasEnd(<<>>)
  BY <1>1 DEF OnlyLast, HasEnd
<1> QED
  BY <1>1, <1>2, WithoutEnd

-----------------------------------------------------------------------------
(* The moves of one connection.                                            *)

\* The session rests; what the kernel holds for it stays or is lost.
LEMMA QuietMove ==
  ASSUME NEW c \in Conns, Fits(c),
         session'[c] = session[c], UNCHANGED <<asked[c], answered[c]>>,
         client'[c].rx = client[c].rx \/ client'[c].rx = <<>>,
         client'[c].mid = client[c].mid, client'[c].begun = client[c].begun,
         (client'[c].phase = "closed") <=> (client[c].phase = "closed")
  PROVE  Fits(c)' /\ Same(c)
<1>1. Same(c)
  BY DEF Same, Status
<1>2. Live(c)' <=> Live(c)
  BY DEF Live
<1> QED
  BY <1>1, <1>2, NothingHeld DEF Fits

\* The connection ends.
LEMMA GoneMove ==
  ASSUME NEW c \in Conns, Fits(c), session[c].state \in SocketState \union {"Freed"},
         session'[c] = NoSession, UNCHANGED <<asked[c], answered[c]>>,
         client'[c].rx = <<>>, client'[c].phase = "closed",
         client'[c].mid = client[c].mid, client'[c].begun = client[c].begun
  PROVE  Fits(c)' /\ Status(c)' = "ended" /\ (Same(c) \/ Steps(c))
<1>1. Fits(c)'
  BY NothingHeld DEF Fits, Live, NoSession
<1>2. Status(c)' = "ended"
  BY DEF Status, NoSession
<1> QED
  BY <1>1, <1>2 DEF Same, Steps

\* A session is made for a connection that had none.
LEMMA OpenMove ==
  ASSUME NEW c \in Conns, Fits(c), TypeOK, NEW fd, ~Live(c), client[c].phase # "closed",
         session'[c] = NewSession(fd), UNCHANGED <<asked[c], answered[c], client[c]>>
  PROVE  Fits(c)' /\ Steps(c)
<1>1. session'[c].state = "Read" /\ session'[c].buffer = <<>>
  BY DEF NewSession, NoSession
<1>2. Status(c) = "none" /\ Status(c)' = "idle"
  BY <1>1 DEF Status, Live
<1>3. Fits(c)'
  BY <1>1, NothingHeld, Shapes DEF Fits, Live
<1> QED
  BY <1>2, <1>3 DEF Steps

\* The client sends a symbol.
LEMMA SendMove ==
  ASSUME TypeOK, ~Pipelining, NEW c \in Conns, NEW s \in Symbols, Fits(c), Send(c, s)
  PROVE  Fits(c)' /\ Same(c)
<1>1. /\ session'[c] = session[c] /\ UNCHANGED <<asked[c], answered[c]>>
      /\ client'[c].rx = Append(client[c].rx, s) /\ client'[c].mid = (s = "part")
      /\ client'[c].begun = IF client[c].mid THEN client[c].begun ELSE client[c].begun + 1
      /\ client'[c].phase = client[c].phase
  BY DEF Send, process, TypeOK, ClientType
<1>2. Same(c)
  BY <1>1 DEF Same, Status
<1>3. ~HasEnd(client[c].rx) /\ session[c].state \notin {"Handle", "Write"}
  BY DEF Send, MayBegin, Fits
<1>4. OnlyLast(Append(client[c].rx, s)) /\ (HasEnd(Append(client[c].rx, s)) => s \in Ends)
  BY <1>3, Appended, Shapes
<1>5. client'[c].begun # answered'[c]
  <2>1. CASE client[c].mid
    BY <1>1, <2>1 DEF Fits
  <2>2. CASE ~client[c].mid
    <3>1. client[c].begun = answered[c] /\ client[c].begun \in Nat
      BY <2>2, Shapes DEF Send, MayBegin
    <3> QED
      BY <1>1, <2>2, <3>1
  <2> QED
    BY <2>1, <2>2
<1>6. s \in Ends => ~client'[c].mid
  BY <1>1 DEF Ends
<1>7. Live(c)' <=> Live(c)
  BY <1>1 DEF Live
<1> QED
  BY <1>1, <1>2, <1>3, <1>4, <1>5, <1>6, <1>7 DEF Fits

\* The session reads.
LEMMA ReadMove ==
  ASSUME TypeOK, NEW c \in Conns, Fits(c), SessionRead(c)
  PROVE  Fits(c)' /\ (Same(c) \/ Steps(c))
<1> DEFINE b == session[c].buffer
           r == Received(c)
<1>t. /\ b \in Seq(Symbols) /\ r \in Seq(Symbols) /\ asked[c] \in Nat /\ answered[c] \in Nat
      /\ session[c] \in SessionType /\ client[c] \in ClientType
  BY Shapes, ReceivedType
<1>1. /\ session[c].state = "Read" /\ Status(c) = "idle" /\ ~HasEnd(b)
      /\ UNCHANGED answered[c]
      /\ asked[c] = answered[c]
  <2>1. session[c].state = "Read" /\ ~HasEnd(b) /\ UNCHANGED answered[c]
    BY DEF SessionRead, Fits
  <2>2. asked[c] = answered[c] + Complete(b) /\ Complete(b) = 0
    BY <2>1, <1>t, WithoutEnd DEF Fits, Live
  <2> QED
    BY <1>t, <2>1, <2>2 DEF Status
<1>2. /\ client'[c].rx = Left(c) /\ client'[c].mid = client[c].mid
      /\ client'[c].begun = client[c].begun /\ client'[c].phase = client[c].phase
  BY <1>t DEF SessionRead, TypeOK, ClientType
<1>3. /\ OnlyLast(client[c].rx) /\ OnlyLast(r) /\ OnlyLast(Left(c))
      /\ HasEnd(r) => HasEnd(client[c].rx) /\ Left(c) = <<>>
      /\ HasEnd(Left(c)) => HasEnd(client[c].rx)
  BY Cut DEF Fits
<1>4. CASE /\ session' = [session EXCEPT ![c].buffer = @ \o Received(c),
                                        ![c].state = ReadOutcome(c)]
           /\ asked' = [asked EXCEPT ![c] = @ + Complete(Received(c))]
  <2>1. /\ session'[c].buffer = b \o r /\ session'[c].state = ReadOutcome(c)
        /\ asked'[c] = asked[c] + Complete(r)
    BY <1>4, <1>t DEF TypeOK, SessionType
  <2>2. /\ b \o r \in Seq(Symbols) /\ OnlyLast(b \o r) /\ (HasEnd(b \o r) <=> HasEnd(r))
        /\ HasEnd(r) => (b \o r)[Len(b \o r)] = r[Len(r)]
    BY <1>t, <1>1, <1>3, Joined, SMTT(30)
  <2>3. CASE ~HasEnd(r)
    <3>1. Complete(r) = 0 /\ Complete(b \o r) = 0 /\ FirstEnd(b \o r) = "none"
      BY <1>t, <2>2, <2>3, WithoutEnd
    <3>2. session'[c].state \in {"Read", "Disconnect"}
      BY <2>1, <3>1 DEF ReadOutcome
    <3>3. Same(c) \/ Steps(c)
      BY <1>t, <1>1, <2>1, <3>1, <3>2 DEF Same, Steps, Status
    <3>4. Fits(c)'
      BY <1>t, <1>1, <1>2, <1>3, <2>1, <2>2, <2>3, <3>1, <3>2 DEF Fits, Live
    <3> QED
      BY <3>3, <3>4
  <2>4. CASE HasEnd(r)
    <3>1. /\ r[Len(r)] \in Ends /\ FirstEnd(b \o r) = r[Len(r)]
          /\ Complete(r) = (IF r[Len(r)] = "bad" THEN 0 ELSE 1)
          /\ Complete(b \o r) = Complete(r)
      BY <1>t, <1>3, <2>2, <2>4, WithLastEnd
    <3>2. r # <<>>
      BY <2>4, NothingHeld
    <3>3. CASE r[Len(r)] = "bad"
      <4>1. session'[c].state = "Disconnect" /\ asked'[c] = asked[c] /\ Complete(b \o r) = 0
        BY <1>t, <2>1, <3>1, <3>3 DEF ReadOutcome
      <4>2. Steps(c)
        BY <1>1, <4>1 DEF Steps, Status
      <4>3. Fits(c)'
        BY <1>t, <1>1, <1>2, <1>3, <2>1, <2>4, <4>1 DEF Fits, Live
      <4> QED
        BY <4>2, <4>3
    <3>4. CASE r[Len(r)] # "bad"
      <4>1. session'[c].state = "Handle" /\ asked'[c] = asked[c] + 1 /\ Complete(b \o r) = 1
        BY <1>t, <2>1, <3>1, <3>2, <3>4 DEF ReadOutcome, Ends
      <4>2. Steps(c)
        BY <1>1, <4>1 DEF Steps, Status
      <4>3. Fits(c)'
        BY <1>t, <1>1, <1>2, <1>3, <2>1, <2>4, <4>1, NothingHeld DEF Fits, Live
      <4> QED
        BY <4>2, <4>3
    <3> QED
      BY <3>3, <3>4
  <2> QED
    BY <2>3, <2>4
<1>5. CASE session' = [session EXCEPT ![c].state = "Disconnect"] /\ UNCHANGED asked
  <2>1. session'[c].state = "Disconnect" /\ session'[c].buffer = b /\ UNCHANGED asked[c]
    BY <1>5, <1>t DEF TypeOK, SessionType
  <2>2. Steps(c)
    BY <1>1, <2>1 DEF Steps, Status
  <2>3. Fits(c)'
    BY <1>t, <1>1, <1>2, <1>3, <2>1, WithoutEnd DEF Fits, Live
  <2> QED
    BY <2>2, <2>3
<1> QED
  BY <1>4, <1>5 DEF SessionRead

\* The request goes to its handler.
LEMMA HandleMove ==
  ASSUME TypeOK, NEW c \in Conns, Fits(c), HandleRequest(c)
  PROVE  Fits(c)' /\ Same(c)
<1>1. /\ session[c].state = "Handle" /\ session'[c].state = "Write"
      /\ session'[c].buffer = session[c].buffer
      /\ UNCHANGED <<asked[c], answered[c], client[c]>>
  BY DEF HandleRequest, TypeOK, SessionType
<1>2. Same(c)
  BY <1>1 DEF Same, Status
<1>3. Fits(c)'
  BY <1>1 DEF Fits, Live
<1> QED
  BY <1>2, <1>3

\* The session writes: its answer is out, or a part of it, or the connection is
\* given up.
LEMMA WriteMove ==
  ASSUME TypeOK, NEW c \in Conns, Fits(c), SessionWrite(c), session[c].state = "Write"
  PROVE  Fits(c)' /\ (Same(c) \/ Steps(c))
<1> DEFINE s == session[c]
<1>t. /\ asked[c] \in Nat /\ answered[c] \in Nat /\ s \in SessionType
      /\ session \in [Conns -> SessionType] /\ client \in [Conns -> ClientType]
      /\ answered \in [Conns -> Nat]
  BY Shapes DEF TypeOK
<1>1. /\ UNCHANGED asked[c]
      /\ client'[c].rx = client[c].rx /\ client'[c].mid = client[c].mid
      /\ client'[c].begun = client[c].begun /\ client'[c].phase = client[c].phase
  <2>1. UNCHANGED client \/ \E n : client' = [client EXCEPT ![c].out = @ + n]
    BY DEF SessionWrite
  <2> QED
    BY <1>t, <2>1 DEF SessionWrite, ClientType
<1>2. \/ /\ session'[c].buffer = s.buffer /\ session'[c].state \in {"Write", "Disconnect"}
         /\ UNCHANGED answered[c]
      \/ /\ session'[c].buffer = <<>> /\ session'[c].state \in {AfterResponse(c), "Disconnect"}
         /\ answered'[c] = answered[c] + 1
  <2> DEFINE left == IF s.ready THEN s.left ELSE ResponseSize
             n == Sent(c, left)
             wrote(new) == session' = [session EXCEPT ![c] = new]
  <2>1. PICK T \in SUBSET FreeFds :
          \/ /\ wrote([s EXCEPT !.state = "Disconnect", !.ready = TRUE,
                                !.left = left, !.tmp = @ \union T])
             /\ UNCHANGED answered
          \/ /\ wrote([s EXCEPT !.ready = TRUE, !.left = left - n, !.tmp = @ \union T])
             /\ UNCHANGED answered
          \/ /\ wrote(Reset(s, AfterResponse(c)))
             /\ answered' = [answered EXCEPT ![c] = @ + 1]
          \/ /\ wrote([s EXCEPT !.state = "Disconnect", !.buffer = <<>>, !.ready = TRUE,
                                !.left = 0, !.tmp = @ \union T])
             /\ answered' = [answered EXCEPT ![c] = @ + 1]
    BY ZenonT(60) DEF SessionWrite
  <2> HIDE DEF n, left
  <2>2. CASE /\ wrote([s EXCEPT !.state = "Disconnect", !.ready = TRUE,
                                !.left = left, !.tmp = @ \union T])
             /\ UNCHANGED answered
    BY <1>t, <2>2 DEF SessionType
  <2>3. CASE /\ wrote([s EXCEPT !.ready = TRUE, !.left = left - n, !.tmp = @ \union T])
             /\ UNCHANGED answered
    BY <1>t, <2>3 DEF SessionType
  <2>4. CASE /\ wrote(Reset(s, AfterResponse(c)))
             /\ answered' = [answered EXCEPT ![c] = @ + 1]
    BY <1>t, <2>4 DEF Reset, NewSession, NoSession
  <2>5. CASE /\ wrote([s EXCEPT !.state = "Disconnect", !.buffer = <<>>, !.ready = TRUE,
                                !.left = 0, !.tmp = @ \union T])
             /\ answered' = [answered EXCEPT ![c] = @ + 1]
    BY <1>t, <2>5 DEF SessionType
  <2> QED
    BY <2>1, <2>2, <2>3, <2>4, <2>5, Zenon
<1>3. Status(c) = IF FirstEnd(s.buffer) = "close" THEN "last" ELSE "asked"
  BY DEF Status
<1>4. CASE /\ session'[c].buffer = s.buffer /\ session'[c].state \in {"Write", "Disconnect"}
           /\ UNCHANGED answered[c]
  <2>1. Same(c) \/ Steps(c)
    BY <1>1, <1>3, <1>4 DEF Same, Steps, Status
  <2>2. Fits(c)'
    BY <1>t, <1>1, <1>4, NothingHeld DEF Fits, Live
  <2> QED
    BY <2>1, <2>2
<1>5. CASE /\ session'[c].buffer = <<>> /\ session'[c].state \in {AfterResponse(c), "Disconnect"}
           /\ answered'[c] = answered[c] + 1
  <2>1. session'[c].state \in {IF FirstEnd(s.buffer) = "close" THEN "Disconnect" ELSE "Read",
                               "Disconnect"}
    BY <1>5 DEF AfterResponse
  <2>2. Steps(c)
    BY <1>1, <1>3, <1>5, <2>1 DEF Steps, Status
  <2>3. Fits(c)'
    BY <1>t, <1>1, <1>5, <2>1, NothingHeld DEF Fits, Live
  <2> QED
    BY <2>2, <2>3
<1> QED
  BY <1>2, <1>4, <1>5

-----------------------------------------------------------------------------
(* The steps of all connections together.                                  *)

Goal == (\A c \in Conns : Fits(c)') /\ [Service!Next]_(Service!vars)

\* A step that is a move of one connection.
LEMMA OneMoves ==
  ASSUME ServiceInv, TypeOK', NEW c \in Conns, Fits(c)', Same(c) \/ Steps(c),
         \A d \in Conns : d # c =>
           UNCHANGED <<session[d], client[d], asked[d], answered[d]>>
  PROVE  Goal
<1>1. \A d \in Conns : d # c => Fits(d)' /\ Same(d)
  BY QuietMove DEF ServiceInv
<1>2. \A d \in Conns : Fits(d)'
  BY <1>1
<1>3. TypeOK
  BY DEF ServiceInv, LoopInv
<1> QED
  BY <1>1, <1>2, <1>3, Lifted DEF Goal

\* A step that is no move of any.
LEMMA NoneMoves ==
  ASSUME ServiceInv, TypeOK', \A c \in Conns : Fits(c)' /\ Same(c)
  PROVE  Goal
<1>1. asked \in [Conns -> Nat] /\ asked' \in [Conns -> Nat]
      /\ answered \in [Conns -> Nat] /\ answered' \in [Conns -> Nat]
  BY DEF ServiceInv, LoopInv, TypeOK
<1>2. UNCHANGED <<asked, answered>>
  BY <1>1 DEF Same
<1>3. UNCHANGED [c \in Conns |-> Status(c)]
  BY DEF Same
<1> QED
  BY <1>2, <1>3 DEF Goal, Service!vars

\* A connection is deleted, the others rest.
LEMMA DeleteMoves ==
  ASSUME ServiceInv, TypeOK', NEW c \in Conns, Live(c), Delete(c), UNCHANGED <<asked, answered>>
  PROVE  Goal
<1>1. TypeOK /\ Fits(c)
  BY DEF ServiceInv, LoopInv
<1>2. /\ session'[c] = NoSession /\ client'[c].rx = <<>> /\ client'[c].phase = "closed"
      /\ client'[c].mid = client[c].mid /\ client'[c].begun = client[c].begun
      /\ \A d \in Conns : d # c => session'[d] = session[d] /\ client'[d] = client[d]
  BY <1>1 DEF Delete, Closed, TypeOK, ClientType
<1>3. session[c].state \in SocketState \union {"Freed"}
  BY <1>1, Shapes DEF SessionType
<1>4. Fits(c)' /\ (Same(c) \/ Steps(c))
  BY <1>1, <1>2, <1>3, GoneMove
<1> QED
  BY <1>2, <1>4, OneMoves

\* The clients and the kernel.
LEMMA EnvironmentMoves ==
  ASSUME ServiceInv, TypeOK', ~Pipelining, Environment
  PROVE  Goal
<1>t. TypeOK /\ \A c \in Conns : Fits(c)
  BY DEF ServiceInv, LoopInv
<1>1. ASSUME NEW c \in Conns, NEW s \in Symbols, Send(c, s) PROVE Goal
  <2>1. \A d \in Conns : d # c => UNCHANGED <<session[d], client[d], asked[d], answered[d]>>
    BY <1>1, <1>t DEF Send, process, TypeOK
  <2> QED
    BY <1>1, <1>t, <2>1, SendMove, OneMoves
<1>2. CASE \/ \E c \in Conns, a \in Addrs : Connect(c, a)
           \/ \E c \in Conns : Receive(c) \/ PeerClose(c) \/ PeerReset(c)
           \/ StopServer
  <2>1. UNCHANGED <<session, asked, answered>>
    BY <1>2 DEF Connect, Receive, PeerClose, PeerReset, StopServer, process
  <2>2. \A c \in Conns :
          /\ client'[c].rx = client[c].rx \/ client'[c].rx = <<>>
          /\ client'[c].mid = client[c].mid /\ client'[c].begun = client[c].begun
          /\ (client'[c].phase = "closed") <=> (client[c].phase = "closed")
    <3>1. client \in [Conns -> ClientType]
      BY <1>t DEF TypeOK
    <3>2. CASE StopServer
      BY <3>2 DEF StopServer
    <3>3. CASE \E c \in Conns, a \in Addrs : Connect(c, a)
      BY <3>1, <3>3 DEF Connect, ClientType
    <3>4. CASE \E c \in Conns : Receive(c)
      BY <3>1, <3>4 DEF Receive, ClientType
    <3>5. CASE \E c \in Conns : PeerClose(c)
      BY <3>1, <3>5 DEF PeerClose, ClientType
    <3>6. CASE \E c \in Conns : PeerReset(c)
      <4>1. PICK c \in Conns : PeerReset(c)
        BY <3>6
      <4>2. client' = [client EXCEPT ![c] = [client[c] EXCEPT !.phase = "reset",
                                                             !.rx = <<>>, !.out = 0]]
        BY <3>1, <4>1 DEF PeerReset
      <4>3. client[c].phase # "closed" /\ client[c] \in ClientType
        BY <3>1, <4>1 DEF PeerReset
      <4> QED
        BY <3>1, <4>2, <4>3 DEF ClientType
    <3> QED
      BY <1>2, <3>2, <3>3, <3>4, <3>5, <3>6
  <2>3. \A c \in Conns : Fits(c)' /\ Same(c)
    BY <1>t, <2>1, <2>2, QuietMove
  <2> QED
    BY <2>3, NoneMoves
<1> QED
  BY <1>1, <1>2 DEF Environment

\* The loop between two walks, and its end.
LEMMA LoopMoves ==
  ASSUME ServiceInv, TypeOK', Loop
  PROVE  Goal
<1>t. TypeOK /\ \A c \in Conns : Fits(c)
  BY DEF ServiceInv, LoopInv
<1>1. CASE \/ EventArrayPrepare \/ EventArrayPrepareCrashes \/ EventArrayPrepareFails
           \/ PollEnter \/ PollReturn
  <2>1. UNCHANGED <<session, client, asked, answered>>
    BY <1>1 DEF EventArrayPrepare, EventArrayPrepareCrashes, EventArrayPrepareFails, PollEnter,
       PollReturn
  <2>2. \A c \in Conns : Fits(c)' /\ Same(c)
    BY <1>t, <2>1, QuietMove
  <2> QED
    BY <2>2, NoneMoves
<1>2. CASE ShutDown
  <2>1. /\ UNCHANGED <<asked, answered>>
        /\ \A c \in Conns :
             /\ session'[c] = NoSession
             /\ client'[c] = IF client[c].phase = "new" THEN client[c]
                             ELSE [client[c] EXCEPT !.phase = "closed", !.rx = <<>>, !.out = 0]
    BY <1>2 DEF ShutDown
  <2>2. ASSUME NEW c \in Conns, client[c].phase = "new"
        PROVE  Fits(c)' /\ Same(c) /\ Status(c) = "none"
    <3>1. session[c] = NoSession
      BY <2>2 DEF ServiceInv, LoopInv, QueuesApart, SessionsApart
    <3>2. Fits(c)' /\ Same(c)
      BY <1>t, <2>1, <2>2, <3>1, QuietMove
    <3> QED
      BY <2>2, <3>1, <3>2 DEF Status, NoSession
  <2>3. ASSUME NEW c \in Conns, client[c].phase # "new"
        PROVE  Fits(c)' /\ Status(c)' = "ended"
    <3>1. /\ client'[c].phase = "closed" /\ client'[c].rx = <<>>
          /\ client'[c].mid = client[c].mid /\ client'[c].begun = client[c].begun
      BY <1>t, <2>1, <2>3, Shapes DEF ClientType
    <3>2. session[c].state \in SocketState \union {"Freed"}
      BY <1>t, Shapes DEF SessionType
    <3> QED
      BY <1>t, <2>1, <3>1, <3>2, GoneMove
  <2>4. Service!Stop
    <3> DEFINE ended == {c \in Conns : client[c].phase # "new"}
               status == [c \in Conns |-> Status(c)]
    <3>1. ended \in SUBSET Conns /\ \A c \in Conns : status[c] # "none" => c \in ended
      BY <2>2
    <3>2. \A c \in Conns : Status(c)' = IF c \in ended THEN "ended" ELSE Status(c)
      BY <2>2, <2>3 DEF Same
    <3>3. status' = [c \in Conns |-> IF c \in ended THEN "ended" ELSE status[c]]
      BY <3>2
    <3> QED
      BY <2>1, <3>1, <3>3 DEF Service!Stop
  <2> QED
    BY <2>2, <2>3, <2>4 DEF Goal, Service!Next
<1> QED
  BY <1>1, <1>2 DEF Loop

\* The actions of sockets.
LEMMA EventMoves ==
  ASSUME ServiceInv, TypeOK', Event
  PROVE  Goal
<1>t. TypeOK /\ LoopInv /\ \A c \in Conns : Fits(c)
  BY DEF ServiceInv, LoopInv
<1>s. ASSUME UNCHANGED <<session, client, asked, answered>> PROVE Goal
  <2>1. \A c \in Conns : Fits(c)' /\ Same(c)
    BY <1>t, <1>s, QuietMove
  <2> QED
    BY <2>1, NoneMoves
<1>1. ASSUME NEW f \in Fds, EventCheck(f) PROVE Goal
  <2>1. CASE "ERR" \in revents[f] /\ sockets[f] \in Conns
    <3>1. Delete(sockets[f]) /\ UNCHANGED <<asked, answered>>
      BY <1>1, <2>1 DEF EventCheck
    <3>2. Live(sockets[f])
      BY <1>t, <2>1, OneEntry
    <3> QED
      BY <2>1, <3>1, <3>2, DeleteMoves
  <2>2. CASE ~("ERR" \in revents[f] /\ sockets[f] \in Conns)
    BY <1>1, <1>s, <2>2 DEF EventCheck
  <2> QED
    BY <2>1, <2>2
<1>2. ASSUME NEW a \in Addrs, Accept(a) PROVE Goal
  <2>1. UNCHANGED <<asked, answered>>
    BY <1>2 DEF Accept
  <2>2. CASE UNCHANGED <<session, client>>
    BY <1>s, <2>1, <2>2
  <2>3. CASE ~UNCHANGED <<session, client>>
    <3>1. backlog[a] # <<>> /\ \E fd \in FreeFds : Inserted(Head(backlog[a]), fd)
      BY <1>2, <2>3 DEF Accept
    <3>2. backlog[a] \in Seq(Conns)
      BY <1>t DEF TypeOK
    <3>3. PICK fd \in FreeFds, c \in Conns :
            c = backlog[a][1] /\ 1 \in DOMAIN backlog[a] /\ Inserted(c, fd)
      BY <3>1, <3>2
    <3>4. ~Live(c) /\ session[c] = NoSession /\ client[c].phase # "closed"
      BY <1>t, <3>3 DEF LoopInv, QueuesApart, SessionsApart
    <3>5. CASE session' = [session EXCEPT ![c] = NewSession(fd)] /\ UNCHANGED client
      <4>1. session'[c] = NewSession(fd) /\ \A d \in Conns : d # c => session'[d] = session[d]
        BY <1>t, <3>3, <3>5 DEF TypeOK
      <4>2. Fits(c)' /\ Steps(c)
        BY <1>t, <2>1, <3>3, <3>4, <3>5, <4>1, OpenMove
      <4> QED
        BY <2>1, <3>3, <3>5, <4>1, <4>2, OneMoves
    <3>6. CASE UNCHANGED session /\ client' = Closed(c)
      <4>1. /\ client'[c].rx = <<>> /\ client'[c].phase = "closed"
            /\ client'[c].mid = client[c].mid /\ client'[c].begun = client[c].begun
            /\ \A d \in Conns : d # c => client'[d] = client[d]
        BY <1>t, <3>6 DEF Closed, TypeOK, ClientType
      <4>2. Fits(c)' /\ (Same(c) \/ Steps(c))
        BY <1>t, <2>1, <3>4, <3>6, <4>1, GoneMove DEF NoSession
      <4> QED
        BY <2>1, <3>3, <3>6, <4>1, <4>2, OneMoves
    <3> QED
      BY <2>3, <3>3, <3>5, <3>6 DEF Inserted
  <2> QED
    BY <2>2, <2>3
<1>3. ASSUME NEW c \in Conns, SessionRead(c) PROVE Goal
  <2>1. \A d \in Conns : d # c => UNCHANGED <<session[d], client[d], asked[d], answered[d]>>
    BY <1>3, <1>t DEF SessionRead, TypeOK
  <2> QED
    BY <1>3, <1>t, <2>1, ReadMove, OneMoves
<1>4. ASSUME NEW c \in Conns, SessionWrite(c) PROVE Goal
  <2>1. session[c].state = "Write"
    BY <1>4, <1>t DEF SessionWrite, LoopInv, WalkInPlace
  <2>2. \A d \in Conns : d # c => UNCHANGED <<session[d], client[d], asked[d], answered[d]>>
    <3>1. /\ UNCHANGED asked
          /\ UNCHANGED client \/ \E n : client' = [client EXCEPT ![c].out = @ + n]
          /\ UNCHANGED answered \/ answered' = [answered EXCEPT ![c] = @ + 1]
          /\ \E new : session' = [session EXCEPT ![c] = new]
      BY <1>4, ZenonT(30) DEF SessionWrite
    <3> QED
      BY <1>t, <3>1 DEF TypeOK
  <2> QED
    BY <1>4, <1>t, <2>1, <2>2, WriteMove, OneMoves
<1>5. ASSUME NEW c \in Conns, Disconnect(c) \/ HandleRequestFails(c) PROVE Goal
  <2>1. CASE Delete(c)
    <3>1. Live(c) /\ UNCHANGED <<asked, answered>>
      BY <1>5 DEF Disconnect, HandleRequestFails, Live
    <3> QED
      BY <2>1, <3>1, DeleteMoves
  <2>2. CASE ~Delete(c)
    BY <1>5, <1>s, <2>2 DEF Disconnect, HandleRequestFails
  <2> QED
    BY <2>1, <2>2
<1>6. ASSUME NEW c \in Conns, HandleRequest(c) PROVE Goal
  <2>1. \A d \in Conns : d # c => UNCHANGED <<session[d], client[d], asked[d], answered[d]>>
    BY <1>6, <1>t DEF HandleRequest, TypeOK
  <2> QED
    BY <1>6, <1>t, <2>1, HandleMove, OneMoves
<1> QED
  BY <1>1, <1>2, <1>3, <1>4, <1>5, <1>6 DEF Event

LEMMA StepMoves ==
  ASSUME ServiceInv, TypeOK', ~Pipelining, [Next]_vars
  PROVE  Goal
<1>1. CASE Terminated \/ UNCHANGED vars
  <2>1. UNCHANGED <<session, client, asked, answered>>
    BY <1>1 DEF Terminated, vars, process
  <2>2. \A c \in Conns : Fits(c)' /\ Same(c)
    BY <2>1, QuietMove DEF ServiceInv
  <2> QED
    BY <2>2, NoneMoves
<1> QED
  BY <1>1, EnvironmentMoves, LoopMoves, EventMoves DEF Next

\* At the start no connection is known, as RequestResponse has it.
LEMMA ServiceInit == Init => ServiceInv /\ Service!Init
<1> SUFFICES ASSUME Init PROVE ServiceInv /\ Service!Init
  OBVIOUS
<1>1. /\ \A c \in Conns : session[c] = NoSession /\ asked[c] = 0 /\ answered[c] = 0
                          /\ client[c].phase = "new" /\ client[c].rx = <<>> /\ ~client[c].mid
      /\ asked = [c \in Conns |-> 0] /\ answered = [c \in Conns |-> 0]
  BY DEF Init
<1>2. \A c \in Conns : Status(c) = "none" /\ ~Live(c)
  BY <1>1 DEF Status, Live, NoSession
<1>3. \A c \in Conns : Fits(c)
  BY <1>1, <1>2, NothingHeld DEF Fits, NoSession, Live
<1>4. [c \in Conns |-> Status(c)] = [c \in Conns |-> "none"]
  BY <1>2
<1>5. Service!Init
  BY <1>1, <1>4 DEF Service!Init
<1> QED
  BY <1>3, <1>5, InvInit DEF ServiceInv

LEMMA ServiceInvariant == ~Pipelining /\ Spec => []ServiceInv
<1>1. CASE ~Pipelining
  <2>1. Init => ServiceInv
    BY ServiceInit
  <2>2. ServiceInv /\ [Next]_vars => ServiceInv'
    <3> SUFFICES ASSUME ServiceInv, [Next]_vars PROVE ServiceInv'
      OBVIOUS
    <3>1. LoopInv'
      BY InvNext DEF ServiceInv
    <3>2. Goal
      BY <1>1, <3>1, StepMoves DEF LoopInv
    <3> QED
      BY <3>1, <3>2 DEF Goal, ServiceInv
  <2> QED
    BY <2>1, <2>2, PTL DEF Spec
<1>2. CASE Pipelining
  BY <1>2
<1> QED
  BY <1>1, <1>2

-----------------------------------------------------------------------------
(* The theorems.                                                           *)

\* From clients that wait for each answer, one request is under way at a time,
\* and nothing the server has read or has yet to read is thrown away.
THEOREM OneRequestUnderWay == Spec /\ ~Pipelining => []OneUnderWay
<1>1. ServiceInv => OneUnderWay
  BY DEF ServiceInv, Fits, OneUnderWay, OnlyLast
<1> QED
  BY <1>1, ServiceInvariant, PTL

\* Every request that was taken is under way or answered, and every answer has
\* its request.
THEOREM NoneLost == Spec /\ ~Pipelining => []NoRequestLost
<1>1. ServiceInv => NoRequestLost
  BY DEF ServiceInv, Fits, NoRequestLost
<1> QED
  BY <1>1, ServiceInvariant, PTL

\* The event loop serves each connection as RequestResponse promises: however
\* connections interleave, descriptors and temporary files run out, clients
\* break off, memory fails and the process is told to stop.
THEOREM KeepsItsPromise == Spec /\ ~Pipelining => ImplementsRequestResponse
<1>1. CASE ~Pipelining
  <2>1. Init => Service!Init
    BY ServiceInit
  <2>2. LoopInv /\ LoopInv' /\ ServiceInv /\ [Next]_vars => [Service!Next]_(Service!vars)
    BY <1>1, StepMoves DEF LoopInv, Goal
  <2>3. Spec => [][Service!Next]_(Service!vars)
    BY <1>1, <2>2, ServiceInvariant, LoopInvariant, PTL DEF Spec
  <2>4. Spec => Service!Init
    BY <2>1 DEF Spec
  <2> QED
    BY <2>3, <2>4 DEF ImplementsRequestResponse, Service!Spec
<1>2. CASE Pipelining
  BY <1>2
<1> QED
  BY <1>1, <1>2
=============================================================================
