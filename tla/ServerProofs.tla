---------------------------- MODULE ServerProofs ----------------------------
(***************************************************************************)
(* Proofs about Server, for every value of its constants: type correctness *)
(* and the inductive invariant of the loop, with the safety properties it  *)
(* gives.                                                                  *)
(***************************************************************************)
EXTENDS Server, FiniteSetTheorems, SequenceTheorems, TLAPS

-----------------------------------------------------------------------------
(* What the operators of the model return.                                 *)

\* At most as many sockets as descriptors are entered in the poll array.
LEMMA EntriesBounded ==
  ASSUME TypeOK
  PROVE  Cardinality(Entries) \in 0..MaxFd
<1>1. IsFiniteSet(Fds) /\ Cardinality(Fds) = MaxFd
  BY FS_Interval, BoundsAssumption DEF Fds
<1>2. Entries \in SUBSET Fds
  BY DEF Entries
<1>3. IsFiniteSet(Entries) /\ Cardinality(Entries) <= MaxFd
  BY <1>1, <1>2, FS_Subset
<1> QED
  BY <1>3, FS_CardinalityType, BoundsAssumption

\* The number of requests that symbols complete is a number.
LEMMA CompleteIsNat ==
  ASSUME NEW S, NEW buf \in Seq(S)
  PROVE  Complete(buf) \in Nat
<1> DEFINE D == {i \in DOMAIN buf : buf[i] \in {"end", "close"}}
<1>1. IsFiniteSet(DOMAIN buf)
  BY LenProperties, FS_Interval
<1>2. IsFiniteSet(D)
  BY <1>1, FS_Subset
<1> QED
  BY <1>2, FS_CardinalityType DEF Complete

\* What recv() takes and what it leaves are symbols.
LEMMA ReceivedType ==
  ASSUME TypeOK, NEW c \in Conns
  PROVE  /\ Received(c) \in Seq(Symbols)
         /\ Left(c) \in Seq(Symbols)
<1> DEFINE rx == client[c].rx
           n == Least(Len(rx), BUFFER_SIZE)
<1>1. rx \in Seq(Symbols) /\ Len(rx) \in Nat
  <2>1. client[c] \in ClientType
    BY DEF TypeOK
  <2>2. rx \in Seq(Symbols)
    BY <2>1 DEF ClientType
  <2> QED
    BY <2>2
<1>2. n \in Nat /\ n <= Len(rx)
  BY <1>1, BoundsAssumption DEF Least
<1>3. \A i \in 1..Len(rx) : rx[i] \in Symbols
  BY <1>1
<1>4. Received(c) \in Seq(Symbols) /\ Len(Received(c)) \in Nat
  BY <1>2, <1>3, SubSeqProperties DEF Received
<1>5. Left(c) \in Seq(Symbols)
  <2> DEFINE m == Len(Received(c)) + 1
  <2>1. m \in Int /\ Len(rx) \in Int /\ 1 <= m
    BY <1>1, <1>4
  <2>2. \A i \in m..Len(rx) : rx[i] \in Symbols
    BY <1>3, <2>1
  <2>3. SubSeq(rx, m, Len(rx)) \in Seq(Symbols)
    BY <2>1, <2>2, SubSeqProperties
  <2> QED
    BY <2>3 DEF Left
<1> QED
  BY <1>4, <1>5
\* A connection that has been closed or reset.
LEMMA ClientCut ==
  ASSUME NEW r \in ClientType, NEW p \in Phases
  PROVE  [r EXCEPT !.phase = p, !.rx = <<>>, !.out = 0] \in ClientType
<1>1. <<>> \in Seq(Symbols)
  BY EmptySeq
<1>2. 0 \in 0..SendSpace
  BY BoundsAssumption
<1> QED
  BY <1>1, <1>2 DEF ClientType

-----------------------------------------------------------------------------
(* Type correctness.                                                       *)

LEMMA TypeInit == Init => TypeOK
<1> SUFFICES ASSUME Init PROVE TypeOK
  OBVIOUS
<1>1. sockets \in [Fds -> Owners \union {Absent, Null}]
  BY DEF Init, Owners
<1>2. fdtab \in [Fds -> Owners \union {Free, Tmp}]
  <2>1. ASSUME NEW f \in Fds, sockets[f] # Absent PROVE sockets[f] \in Owners
    BY <2>1 DEF Init, Owners
  <2> QED
    BY <2>1 DEF Init
<1>3. NoSession \in SessionType
  BY BoundsAssumption, EmptySeq, SMTT(60) DEF NoSession, SessionType
<1>4. client \in [Conns -> ClientType]
  BY BoundsAssumption, EmptySeq DEF Init, Phases, ClientType
<1>5. backlog \in [Addrs -> Seq(Conns)]
  BY EmptySeq DEF Init
<1>6. /\ server_on \in BOOLEAN /\ pc \in PcValues /\ cur \in Fds \union {0}
      /\ capacity \in 0..MaxFd /\ is_locked \in BOOLEAN
  <2>1. server_on = TRUE /\ pc = "pass" /\ cur = 0 /\ capacity = 0 /\ is_locked = FALSE
    BY DEF Init
  <2>2. server_on \in BOOLEAN /\ is_locked \in BOOLEAN
    BY <2>1
  <2>3. pc \in PcValues
    BY <2>1 DEF PcValues
  <2>4. cur \in Fds \union {0} /\ capacity \in 0..MaxFd
    BY <2>1, BoundsAssumption
  <2> QED
    BY <2>2, <2>3, <2>4
<1>7. session \in [Conns -> SessionType]
  BY <1>3 DEF Init
<1>8. /\ polled \in [Fds -> {"none", "IN", "OUT"}]
      /\ revents \in [Fds -> SUBSET {"IN", "OUT", "ERR"}]
      /\ snap \in [Fds -> Owners \union {Absent}]
  BY DEF Init, NoPolled, NoRevents, NoSnap
<1>9. asked \in [Conns -> Nat] /\ answered \in [Conns -> Nat]
  BY DEF Init
<1> QED
  BY <1>1, <1>2, <1>4, <1>5, <1>6, <1>7, <1>8, <1>9 DEF TypeOK

\* The steps of the clients and the kernel.
LEMMA TypeEnvironment == TypeOK /\ Environment => TypeOK'
<1> SUFFICES ASSUME TypeOK, Environment PROVE TypeOK'
  OBVIOUS
<1> USE BoundsAssumption
<1>c. \A c \in Conns : client[c] \in ClientType
  BY DEF TypeOK
<1>1. ASSUME NEW c \in Conns, NEW a \in Addrs, Connect(c, a) PROVE TypeOK'
  <2>1. [client[c] EXCEPT !.phase = "open"] \in ClientType
    BY <1>c DEF ClientType, Phases
  <2>2. client' \in [Conns -> ClientType]
    BY <1>1, <2>1 DEF TypeOK, Connect
  <2>3. Append(backlog[a], c) \in Seq(Conns)
    BY AppendProperties DEF TypeOK
  <2>4. backlog' \in [Addrs -> Seq(Conns)]
    BY <1>1, <2>3 DEF TypeOK, Connect
  <2> QED
    BY <1>1, <2>2, <2>4 DEF TypeOK, Connect, process, pollArray
<1>2. ASSUME NEW c \in Conns, NEW s \in Symbols, Send(c, s) PROVE TypeOK'
  <2> DEFINE new == [client[c] EXCEPT
                       !.rx = Append(@, s), !.mid = (s = "part"),
                       !.begun = IF client[c].mid THEN @ ELSE @ + 1]
  <2>1. client' = [client EXCEPT ![c] = new]
    BY <1>2, <1>c, SMTT(30) DEF Send, TypeOK, ClientType
  <2>2. Append(client[c].rx, s) \in Seq(Symbols)
    BY <1>c, AppendProperties DEF ClientType
  <2>3. (IF client[c].mid THEN client[c].begun ELSE client[c].begun + 1) \in 0..MaxRequests
    BY <1>2, <1>c, SMTT(30) DEF Send, MayBegin, ClientType
  <2>4. new \in ClientType
    BY <1>c, <2>2, <2>3, ZenonT(30) DEF ClientType
  <2> QED
    BY <1>2, <2>1, <2>4, SMTT(30) DEF TypeOK, Send, process, pollArray
<1>3. ASSUME NEW c \in Conns, Receive(c) PROVE TypeOK'
  <2>1. [client[c] EXCEPT !.out = 0] \in ClientType
    BY <1>c, SMTT(30) DEF ClientType
  <2> QED
    BY <1>3, <2>1 DEF TypeOK, Receive, process, pollArray
<1>4. ASSUME NEW c \in Conns, PeerClose(c) PROVE TypeOK'
  <2>1. [client[c] EXCEPT !.phase = "fin"] \in ClientType
    BY <1>c DEF ClientType, Phases
  <2> QED
    BY <1>4, <2>1 DEF TypeOK, PeerClose, process, pollArray
<1>5. ASSUME NEW c \in Conns, PeerReset(c) PROVE TypeOK'
  <2> DEFINE new == [client[c] EXCEPT !.phase = "reset", !.rx = <<>>, !.out = 0]
  <2>1. new \in ClientType
    BY <1>c, ClientCut DEF Phases
  <2>2. client' = [client EXCEPT ![c] = new]
    BY <1>5, <1>c, ZenonT(30) DEF PeerReset, TypeOK, ClientType
  <2> QED
    BY <1>5, <2>1, <2>2, SMTT(30) DEF TypeOK, PeerReset, process, pollArray
<1>6. ASSUME StopServer PROVE TypeOK'
  BY <1>6 DEF TypeOK, StopServer, NoPolled, NoSnap, PcValues
<1> QED
  BY <1>1, <1>2, <1>3, <1>4, <1>5, <1>6 DEF Environment

\* The steps of the loop itself.
LEMMA TypeLoop == TypeOK /\ Loop => TypeOK'
<1> SUFFICES ASSUME TypeOK, Loop PROVE TypeOK'
  OBVIOUS
<1> USE BoundsAssumption
<1>1. CASE EventArrayPrepare
  <2>1. polled' \in [Fds -> {"none", "IN", "OUT"}]
    BY <1>1 DEF EventArrayPrepare, EventsFor
  <2>2. \A f \in Fds : EventsFor(sockets[f]) # "none" => sockets[f] \in Owners
    BY <1>1 DEF TypeOK, EventsFor, EventArrayPrepare
  <2>3. snap' \in [Fds -> Owners \union {Absent}]
    BY <1>1, <2>2 DEF EventArrayPrepare
  <2>4. capacity' \in 0..MaxFd
    BY <1>1, EntriesBounded DEF TypeOK, EventArrayPrepare
  <2> QED
    BY <1>1, <2>1, <2>3, <2>4 DEF TypeOK, EventArrayPrepare, PcValues
<1>2. CASE EventArrayPrepareCrashes \/ EventArrayPrepareFails
  BY <1>2 DEF TypeOK, EventArrayPrepareCrashes, EventArrayPrepareFails, pollArray, PcValues
<1>3. CASE PollEnter
  BY <1>3 DEF TypeOK, PollEnter, pollArray, PcValues
<1>4. CASE PollReturn
  <2>1. \A f \in Fds : ReventsOf(f) \subseteq {"IN", "OUT", "ERR"}
    BY DEF TypeOK, ReventsOf
  <2> QED
    BY <1>4, <2>1 DEF TypeOK, PollReturn, PcValues
<1>5. CASE ShutDown
  <2>1. NoSession \in SessionType
    BY EmptySeq, SMTT(60) DEF NoSession, SessionType
  <2>2. ASSUME NEW c \in Conns
        PROVE  [client[c] EXCEPT !.phase = "closed", !.rx = <<>>, !.out = 0] \in ClientType
    BY ClientCut DEF TypeOK, Phases
  <2>3. client' \in [Conns -> ClientType]
    BY <1>5, <2>2 DEF TypeOK, ShutDown
  <2>4. backlog' \in [Addrs -> Seq(Conns)]
    BY <1>5, EmptySeq DEF ShutDown
  <2> QED
    BY <1>5, <2>1, <2>3, <2>4 DEF TypeOK, ShutDown, pollArray, PcValues
<1> QED
  BY <1>1, <1>2, <1>3, <1>4, <1>5 DEF Loop

\* What close() leaves of a connection, and deleting a session.
LEMMA ClosedPhase ==
  ASSUME TypeOK, NEW c \in Conns
  PROVE  \A d \in Conns : Closed(c)[d].phase = IF d = c THEN "closed" ELSE client[d].phase
BY DEF TypeOK, Closed, ClientType

LEMMA DeleteType ==
  ASSUME TypeOK, NEW c \in Conns, Delete(c)
  PROVE  /\ session' \in [Conns -> SessionType]
         /\ fdtab' \in [Fds -> Owners \union {Free, Tmp}]
         /\ client' \in [Conns -> ClientType]
<1>1. NoSession \in SessionType
  BY BoundsAssumption, EmptySeq, SMTT(60) DEF NoSession, SessionType
<1> DEFINE new == [client[c] EXCEPT !.phase = "closed", !.rx = <<>>, !.out = 0]
<1>2. new \in ClientType
  BY ClientCut DEF TypeOK, Phases
<1>3. client' = [client EXCEPT ![c] = new]
  BY DEF Delete, Closed, TypeOK, ClientType
<1> QED
  BY <1>1, <1>2, <1>3 DEF Delete, TypeOK

\* Where action() may leave the thread.
LEMMA AfterActionType ==
  ASSUME TypeOK, NEW state, AfterAction(state)
  PROVE  pc' \in PcValues /\ cur' \in Fds \union {0}
BY DEF AfterAction, TypeOK, PcValues

\* A session that starts, or starts afresh.
LEMMA NewSessionType ==
  ASSUME NEW fd \in Fds \union {0}, NEW state \in SocketState
  PROVE  /\ NewSession(fd) \in SessionType
         /\ [NewSession(fd) EXCEPT !.state = state] \in SessionType
<1>1. <<>> \in Seq(Symbols)
  BY EmptySeq
<1>2. 0 \in 0..ResponseSize
  BY BoundsAssumption
<1> QED
  BY <1>1, <1>2 DEF NewSession, NoSession, SessionType, SocketState

\* The steps of eventCheck, action() and the rest of eventAction.
LEMMA TypeEventCheck ==
  ASSUME TypeOK, NEW f \in Fds, EventCheck(f)
  PROVE  TypeOK'
<1>1. /\ session' \in [Conns -> SessionType]
      /\ fdtab' \in [Fds -> Owners \union {Free, Tmp}]
      /\ client' \in [Conns -> ClientType]
      /\ sockets' \in [Fds -> Owners \union {Absent, Null}]
  <2>1. CASE "ERR" \in revents[f] /\ sockets[f] \in Conns
    BY <2>1, DeleteType DEF EventCheck, Erase, TypeOK
  <2>2. CASE ~("ERR" \in revents[f] /\ sockets[f] \in Conns)
    BY <2>2 DEF EventCheck, TypeOK
  <2> QED
    BY <2>1, <2>2
<1>2. pc' \in PcValues /\ cur' \in Fds \union {0}
  BY DEF EventCheck, TypeOK, PcValues
<1>3. /\ polled' \in [Fds -> {"none", "IN", "OUT"}]
      /\ revents' \in [Fds -> SUBSET {"IN", "OUT", "ERR"}]
      /\ snap' \in [Fds -> Owners \union {Absent}]
  BY DEF EventCheck, Forget, TypeOK
<1> QED
  BY <1>1, <1>2, <1>3 DEF EventCheck, TypeOK

LEMMA TypeAccept ==
  ASSUME TypeOK, NEW a \in Addrs, Accept(a)
  PROVE  TypeOK'
<1>1. CASE backlog[a] = <<>> \/ FreeFds = {}
  BY <1>1 DEF Accept, TypeOK, pollArray, PcValues
<1>2. CASE backlog[a] # <<>> /\ FreeFds # {}
  <2>1. PICK fd \in FreeFds :
          /\ backlog' = [backlog EXCEPT ![a] = Tail(@)]
          /\ Inserted(Head(backlog[a]), fd)
    BY <1>2 DEF Accept
  <2>2. fd \in Fds
    BY DEF FreeFds
  <2>3. Head(backlog[a]) \in Conns /\ Tail(backlog[a]) \in Seq(Conns)
    BY <1>2, HeadTailProperties DEF TypeOK
  <2>4. session' \in [Conns -> SessionType]
    <3>1. NewSession(fd) \in SessionType
      BY <2>2, NewSessionType DEF SocketState
    <3> QED
      BY <2>1, <3>1 DEF TypeOK, Inserted
  <2>5. sockets' \in [Fds -> Owners \union {Absent, Null}]
    BY <2>1, <2>3 DEF TypeOK, Owners, Inserted
  <2>6. fdtab' \in [Fds -> Owners \union {Free, Tmp}]
    BY <2>1, <2>3 DEF TypeOK, Owners, Inserted
  <2>7. client' \in [Conns -> ClientType]
    <3>1. [client[Head(backlog[a])] EXCEPT !.phase = "closed", !.rx = <<>>, !.out = 0] \in ClientType
      BY <2>3, ClientCut DEF TypeOK, Phases
    <3>2. client' = client \/ client' = Closed(Head(backlog[a]))
      BY <2>1 DEF Inserted
    <3> QED
      BY <3>1, <3>2 DEF TypeOK, Closed
  <2>8. backlog' \in [Addrs -> Seq(Conns)]
    BY <2>1, <2>3 DEF TypeOK
  <2> QED
    BY <1>2, <2>4, <2>5, <2>6, <2>7, <2>8 DEF Accept, TypeOK, pollArray, PcValues
<1> QED
  BY <1>1, <1>2

LEMMA TypeSessionRead ==
  ASSUME TypeOK, NEW c \in Conns, SessionRead(c)
  PROVE  TypeOK'
<1>1. session[c] \in SessionType /\ client[c] \in ClientType
  BY DEF TypeOK
<1>2. [client[c] EXCEPT !.rx = Left(c)] \in ClientType
  BY <1>1, ReceivedType DEF ClientType
<1>3. client' \in [Conns -> ClientType]
  BY <1>2 DEF SessionRead, TypeOK
<1>4. ReadOutcome(c) \in SocketState
  BY DEF ReadOutcome, SocketState
<1>5. session[c].buffer \o Received(c) \in Seq(Symbols)
  BY <1>1, ReceivedType, ConcatProperties DEF SessionType
<1>6. CASE /\ session' = [session EXCEPT ![c].buffer = @ \o Received(c),
                                        ![c].state = ReadOutcome(c)]
           /\ asked' = [asked EXCEPT ![c] = @ + Complete(Received(c))]
           /\ is_locked' = ReadRaises(c)
           /\ AfterAction(ReadOutcome(c))
  <2> DEFINE new == [session[c] EXCEPT !.buffer = session[c].buffer \o Received(c),
                                      !.state = ReadOutcome(c)]
  <2>1. new \in SessionType
    BY <1>1, <1>4, <1>5 DEF SessionType
  <2>2. session' = [session EXCEPT ![c] = new]
    BY <1>6, <1>1 DEF TypeOK, SessionType
  <2>3. Complete(Received(c)) \in Nat
    BY CompleteIsNat, ReceivedType
  <2>4. asked' \in [Conns -> Nat]
    BY <1>6, <2>3 DEF TypeOK
  <2>5. is_locked' \in BOOLEAN
    BY <1>6 DEF ReadRaises
  <2> QED
    BY <1>3, <1>6, <2>1, <2>2, <2>4, <2>5, AfterActionType DEF SessionRead, TypeOK, pollArray
<1>7. CASE /\ session' = [session EXCEPT ![c].state = "Disconnect"]
           /\ AfterAction("Disconnect")
           /\ UNCHANGED <<asked, is_locked>>
  <2>1. [session[c] EXCEPT !.state = "Disconnect"] \in SessionType
    BY <1>1 DEF SessionType, SocketState
  <2> QED
    BY <1>3, <1>7, <2>1, AfterActionType DEF SessionRead, TypeOK, pollArray
<1> QED
  BY <1>6, <1>7 DEF SessionRead

\* What one send() takes is no more than what is left, and fits the kernel.
LEMMA SentType ==
  ASSUME TypeOK, NEW c \in Conns, NEW left \in 0..ResponseSize
  PROVE  /\ Sent(c, left) \in 0..left
         /\ client[c].out + Sent(c, left) \in 0..SendSpace
<1>1. client[c].out \in 0..SendSpace
  BY DEF TypeOK, ClientType
<1> QED
  BY <1>1, BoundsAssumption DEF Sent, Least

LEMMA TypeSessionWrite ==
  ASSUME TypeOK, NEW c \in Conns, SessionWrite(c)
  PROVE  TypeOK'
<1> DEFINE s == session[c]
           left == IF s.ready THEN s.left ELSE ResponseSize
           n == Sent(c, left)
<1>1. s \in SessionType /\ client[c] \in ClientType
  BY DEF TypeOK
<1>2. left \in 0..ResponseSize
  BY <1>1, BoundsAssumption DEF SessionType
<1>3. n \in 0..left /\ client[c].out + n \in 0..SendSpace
  BY <1>2, SentType
<1>4. PICK T \in SUBSET FreeFds :
        \/ /\ session' = [session EXCEPT
                 ![c] = [s EXCEPT !.state = "Disconnect", !.ready = TRUE,
                                  !.left = left, !.tmp = @ \union T]]
           /\ fdtab' = [f \in Fds |-> IF f \in T THEN Tmp ELSE fdtab[f]]
           /\ AfterAction("Disconnect")
           /\ UNCHANGED <<client, answered>>
        \/ /\ client' = [client EXCEPT ![c].out = @ + n]
           /\ n < left
           /\ session' = [session EXCEPT
                 ![c] = [s EXCEPT !.ready = TRUE, !.left = left - n, !.tmp = @ \union T]]
           /\ fdtab' = [f \in Fds |-> IF f \in T THEN Tmp ELSE fdtab[f]]
           /\ AfterAction("Write")
           /\ UNCHANGED answered
        \/ /\ client' = [client EXCEPT ![c].out = @ + n]
           /\ session' = [session EXCEPT ![c] = Reset(s, AfterResponse(c))]
           /\ fdtab' = [f \in Fds |-> IF f \in s.tmp THEN Free ELSE fdtab[f]]
           /\ AfterAction(AfterResponse(c))
           /\ answered' = [answered EXCEPT ![c] = @ + 1]
        \/ /\ client' = [client EXCEPT ![c].out = @ + n]
           /\ session' = [session EXCEPT
                 ![c] = [s EXCEPT !.state = "Disconnect", !.buffer = <<>>, !.ready = TRUE,
                                  !.left = 0, !.tmp = @ \union T]]
           /\ fdtab' = [f \in Fds |-> IF f \in T THEN Tmp ELSE fdtab[f]]
           /\ AfterAction("Disconnect")
           /\ answered' = [answered EXCEPT ![c] = @ + 1]
  BY ZenonT(60) DEF SessionWrite
<1>5. T \subseteq Fds
  BY DEF FreeFds
<1>6. session' \in [Conns -> SessionType]
  <2>1. [s EXCEPT !.state = "Disconnect", !.ready = TRUE,
                  !.left = left, !.tmp = @ \union T] \in SessionType
    BY <1>1, <1>2, <1>5 DEF SessionType, SocketState
  <2>2. n < left => [s EXCEPT !.ready = TRUE, !.left = left - n, !.tmp = @ \union T] \in SessionType
    <3> HIDE DEF n, left
    <3>1. n < left => left - n \in 0..ResponseSize
      BY <1>2, <1>3, BoundsAssumption
    <3>2. s.tmp \union T \in SUBSET Fds
      BY <1>1, <1>5 DEF SessionType
    <3> QED
      BY <1>1, <3>1, <3>2 DEF SessionType
  <2>3. Reset(s, AfterResponse(c)) \in SessionType
    <3>1. s.fd \in Fds \union {0}
      BY <1>1 DEF SessionType
    <3> QED
      BY <3>1, NewSessionType DEF Reset, AfterResponse, SocketState
  <2>4. [s EXCEPT !.state = "Disconnect", !.buffer = <<>>, !.ready = TRUE,
                  !.left = 0, !.tmp = @ \union T] \in SessionType
    <3>1. s.tmp \union T \in SUBSET Fds /\ 0 \in 0..ResponseSize /\ <<>> \in Seq(Symbols)
      BY <1>1, <1>5, BoundsAssumption, EmptySeq DEF SessionType
    <3> QED
      BY <1>1, <3>1 DEF SessionType, SocketState
  <2> QED
    BY <1>4, <2>1, <2>2, <2>3, <2>4, ZenonT(60) DEF TypeOK
<1>7. client' \in [Conns -> ClientType]
  <2>1. [client[c] EXCEPT !.out = client[c].out + n] \in ClientType
    BY <1>1, <1>3 DEF ClientType
  <2> QED
    BY <1>4, <2>1 DEF TypeOK
<1>8. fdtab' \in [Fds -> Owners \union {Free, Tmp}]
  BY <1>4 DEF TypeOK
<1>9. pc' \in PcValues /\ cur' \in Fds \union {0}
  BY <1>4, AfterActionType
<1>10. answered' \in [Conns -> Nat]
  BY <1>4 DEF TypeOK
<1> QED
  BY <1>6, <1>7, <1>8, <1>9, <1>10 DEF SessionWrite, TypeOK, pollArray

LEMMA TypeDisconnect ==
  ASSUME TypeOK, NEW c \in Conns, Disconnect(c)
  PROVE  TypeOK'
<1>1. sockets' \in [Fds -> Owners \union {Absent, Null}]
  BY DEF Disconnect, Erase, TypeOK
<1> QED
  BY <1>1, DeleteType DEF Disconnect, TypeOK, pollArray, PcValues

LEMMA TypeHandleRequest ==
  ASSUME TypeOK, NEW c \in Conns, HandleRequest(c) \/ HandleRequestFails(c)
  PROVE  TypeOK'
<1>1. CASE HandleRequest(c)
  <2> DEFINE new == [session[c] EXCEPT !.handler = TRUE, !.state = "Write"]
  <2>0. session[c] \in SessionType
    BY DEF TypeOK
  <2>1. new \in SessionType /\ session' = [session EXCEPT ![c] = new]
    BY <1>1, <2>0 DEF HandleRequest, SessionType, SocketState
  <2>2. session' \in [Conns -> SessionType]
    BY <2>1 DEF TypeOK
  <2> QED
    BY <1>1, <2>2 DEF HandleRequest, TypeOK, pollArray, PcValues
<1>2. CASE HandleRequestFails(c) /\ pc' = "pass" /\ cur' = 0 /\ Erase(cur) /\ Delete(c)
  <2>1. sockets' \in [Fds -> Owners \union {Absent, Null}]
    BY <1>2 DEF Erase, TypeOK
  <2> QED
    BY <1>2, <2>1, DeleteType DEF HandleRequestFails, TypeOK, pollArray, PcValues
<1>3. CASE HandleRequestFails(c) /\ pc' = "crashed"
           /\ UNCHANGED <<cur, sockets, session, fdtab, client>>
  BY <1>3 DEF HandleRequestFails, TypeOK, pollArray, PcValues
<1> QED
  BY <1>1, <1>2, <1>3 DEF HandleRequestFails

LEMMA TypeNext == TypeOK /\ [Next]_vars => TypeOK'
<1> SUFFICES ASSUME TypeOK, [Next]_vars PROVE TypeOK'
  OBVIOUS
<1>1. CASE Loop
  BY <1>1, TypeLoop
<1>2. CASE Event
  BY <1>2, TypeEventCheck, TypeAccept, TypeSessionRead, TypeSessionWrite,
     TypeDisconnect, TypeHandleRequest DEF Event
<1>3. CASE Environment
  BY <1>3, TypeEnvironment
<1>4. CASE UNCHANGED vars
  BY <1>4 DEF TypeOK, vars, process, pollArray
<1> QED
  BY <1>1, <1>2, <1>3, <1>4 DEF Next, Terminated

\* Every variable keeps its type: no descriptor, send offset or queue of the
\* server leaves its range, whatever the number of clients and descriptors.
THEOREM TypeCorrect == Spec => []TypeOK
BY TypeInit, TypeNext, PTL DEF Spec

-----------------------------------------------------------------------------
(* The inductive invariant of the loop.                                    *)

LEMMA InvInit == Init => LoopInv
<1> SUFFICES ASSUME Init PROVE LoopInv
  OBVIOUS
<1>1. TypeOK
  BY TypeInit
<1>2. \A c \in Conns : ~Live(c) /\ session[c].fd = 0 /\ session[c].tmp = {}
                       /\ session[c].state = "Freed" /\ ~session[c].ready
  BY DEF Init, Live, NoSession
<1>3. \A f \in Fds : sockets[f] \in Addrs \union {Absent} /\ sockets[f] \notin Conns
                     /\ (sockets[f] \in Addrs => ListenFd[sockets[f]] = f)
  BY NamesAssumption, ListenAssumption DEF Init, Owners
<1>4. NoDanglingFd
  <2>1. \A f \in Fds : sockets[f] \in Owners => fdtab[f] = sockets[f]
    BY NamesAssumption DEF Init
  <2> QED
    BY <1>2, <1>3, <2>1 DEF NoDanglingFd
<1>5. SessionsApart /\ HandlerMatchesState
  BY <1>2 DEF Init, SessionsApart, HandlerMatchesState
<1>6. QueuesApart
  BY <1>2 DEF Init, QueuesApart
<1>7. ListenersReady /\ WalkInPlace /\ LogLineOpen
  BY <1>3 DEF Init, ListenersReady, WalkInPlace, LogLineOpen, NoRevents, NoPolled
<1>8. PollEntriesCurrent /\ NoStrandedSocket /\ NullEntries
  BY <1>3, NamesAssumption DEF Init, PollEntriesCurrent, NoStrandedSocket, NoPolled, NullEntries,
     Owners
<1> QED
  BY <1>1, <1>4, <1>5, <1>6, <1>7, <1>8 DEF LoopInv

-----------------------------------------------------------------------------
(* The log.                                                                *)

\* A line is left open only by a read() that failed, and the thread goes from
\* there to the deletion of that session.
LEMMA LogInv == LoopInv /\ [Next]_vars => LogLineOpen'
<1> SUFFICES ASSUME LoopInv, [Next]_vars PROVE LogLineOpen'
  OBVIOUS
<1> USE DEF LoopInv
<1>1. CASE Loop
  <2>1. /\ pc \in {"pass", "prepared", "polling"} /\ is_locked' = is_locked
        /\ pc' \in {"pass", "prepared", "polling", "stopped", "crashed"}
    BY <1>1 DEF Loop, EventArrayPrepare, EventArrayPrepareCrashes, EventArrayPrepareFails,
                PollEnter, PollReturn,
                ShutDown, Running
  <2> QED
    BY <2>1 DEF LogLineOpen
<1>2. CASE Environment
  <2>1. UNCHANGED <<is_locked, cur, sockets, session>>
    BY <1>2 DEF Environment, Connect, Send, Receive, PeerClose, PeerReset, StopServer, process
  <2>2. pc' = pc \/ (pc = "polling" /\ pc' = "pass")
    BY <1>2 DEF Environment, Connect, Send, Receive, PeerClose, PeerReset, StopServer, process
  <2> QED
    BY <2>1, <2>2 DEF LogLineOpen
<1>3. ASSUME NEW f \in Fds, EventCheck(f) PROVE LogLineOpen'
  <2>1. pc = "pass" /\ pc' \in {"pass", "action", "crashed"} /\ is_locked' = is_locked
    BY <1>3 DEF EventCheck
  <2> QED
    BY <2>1 DEF LogLineOpen
<1>4. ASSUME NEW a \in Addrs, Accept(a) PROVE LogLineOpen'
  <2>1. pc = "action" /\ pc' = "pass" /\ is_locked' = is_locked
    BY <1>4 DEF Accept, ListenersReady
  <2> QED
    BY <2>1 DEF LogLineOpen
<1>5. ASSUME NEW c \in Conns, SessionRead(c) PROVE LogLineOpen'
  <2>1. pc = "action" /\ sockets[cur] = c /\ UNCHANGED sockets /\ ~is_locked
    BY <1>5 DEF SessionRead, LogLineOpen
  <2>2. \/ is_locked' = ReadRaises(c) /\ session'[c].state = ReadOutcome(c)
           /\ AfterAction(ReadOutcome(c))
        \/ UNCHANGED is_locked /\ AfterAction("Disconnect")
    BY <1>5 DEF SessionRead, TypeOK, SessionType
  <2>3. ReadRaises(c) => ReadOutcome(c) = "Disconnect"
    BY DEF ReadRaises, ReadOutcome
  <2>4. \A state : AfterAction(state) =>
          \/ pc' = "acted" /\ cur' = cur
          \/ pc' = "pass" /\ state # "Disconnect"
    BY DEF AfterAction
  <2> QED
    BY <2>1, <2>2, <2>3, <2>4 DEF LogLineOpen
<1>6. ASSUME NEW c \in Conns, SessionWrite(c) PROVE LogLineOpen'
  <2>1. pc = "action" /\ is_locked' = is_locked
    BY <1>6 DEF SessionWrite
  <2>2. pc' \in {"acted", "pass"}
    BY <1>6 DEF SessionWrite, AfterAction
  <2> QED
    BY <2>1, <2>2 DEF LogLineOpen
<1>7. ASSUME NEW c \in Conns, Disconnect(c) PROVE LogLineOpen'
  BY <1>7 DEF Disconnect, LogWaits, LogLineOpen
<1>8. ASSUME NEW c \in Conns, HandleRequest(c) \/ HandleRequestFails(c) PROVE LogLineOpen'
  <2>1. ~is_locked
    BY <1>8 DEF HandleRequest, HandleRequestFails, LogLineOpen
  <2>2. is_locked' = is_locked /\ pc' \in {"pass", "crashed"}
    BY <1>8 DEF HandleRequest, HandleRequestFails
  <2> QED
    BY <2>1, <2>2 DEF LogLineOpen
<1>9. CASE UNCHANGED vars
  BY <1>9 DEF LogLineOpen, vars, process
<1> QED
  BY <1>1, <1>2, <1>3, <1>4, <1>5, <1>6, <1>7, <1>8, <1>9 DEF Next, Event, Terminated

-----------------------------------------------------------------------------
(* NULL entries.                                                           *)

\* Only a bad_alloc where a connection is accepted leaves one, and no listening
\* socket is ever opened on its descriptor.
LEMMA NullInv == LoopInv /\ [Next]_vars => NullEntries'
<1> SUFFICES ASSUME LoopInv, [Next]_vars PROVE NullEntries'
  OBVIOUS
<1>t. TypeOK /\ NullEntries /\ \A f \in Fds : fdtab[f] = Free => fdtab[f] \notin Owners
  BY NamesAssumption DEF LoopInv
<1> DEFINE Kept == \A f \in Fds : /\ sockets'[f] = Null => sockets[f] = Null
                                  /\ fdtab'[f] \in {fdtab[f], Free, Tmp}
<1>k. Kept => NullEntries'
  BY <1>t, NamesAssumption DEF NullEntries, Owners
<1>1. CASE Loop
  BY <1>1, <1>k, NamesAssumption, ZenonT(60) DEF Loop, EventArrayPrepare, EventArrayPrepareCrashes,
     EventArrayPrepareFails, PollEnter, PollReturn, ShutDown
<1>2. CASE Environment \/ UNCHANGED vars
  <2>1. UNCHANGED <<sockets, fdtab>>
    BY <1>2 DEF Environment, Connect, Send, Receive, PeerClose, PeerReset, StopServer,
       process, vars
  <2> QED
    BY <1>k, <2>1
<1>3. ASSUME NEW f \in Fds, EventCheck(f) PROVE NullEntries'
  <2>1. UNCHANGED <<sockets, fdtab>> \/ (Delete(sockets[f]) /\ Erase(f))
    BY <1>3 DEF EventCheck
  <2> QED
    BY <1>k, <1>t, <2>1, NamesAssumption DEF Delete, Erase, TypeOK
<1>4. ASSUME NEW a \in Addrs, Accept(a) PROVE NullEntries'
  <2>1. backlog[a] # <<>> => Head(backlog[a]) \in Conns
    BY <1>t, HeadTailProperties DEF TypeOK
  <2>2. CASE UNCHANGED <<sockets, fdtab>>
    BY <1>k, <2>2
  <2>3. ASSUME NEW fd \in FreeFds, Inserted(Head(backlog[a]), fd), backlog[a] # <<>>
        PROVE  NullEntries'
    <3>1. fd \in Fds /\ fdtab[fd] = Free
      BY DEF FreeFds
    <3>2. fdtab'[fd] \notin Addrs /\ (sockets'[fd] = Null => OutOfMemory)
      BY <1>t, <2>1, <2>3, <3>1, NamesAssumption DEF Inserted, TypeOK, Owners
    <3>3. \A g \in Fds : g # fd => sockets'[g] = sockets[g] /\ fdtab'[g] = fdtab[g]
      BY <1>t, <2>3 DEF Inserted, TypeOK
    <3> QED
      BY <1>t, <3>2, <3>3 DEF NullEntries
  <2> QED
    BY <1>4, <2>2, <2>3, Zenon DEF Accept
<1>5. ASSUME NEW c \in Conns, SessionRead(c) PROVE NullEntries'
  BY <1>5, <1>k DEF SessionRead
<1>6. ASSUME NEW c \in Conns, SessionWrite(c) PROVE NullEntries'
  <2>1. UNCHANGED sockets
    BY <1>6 DEF SessionWrite
  <2>2. \E T : \/ fdtab' = [f \in Fds |-> IF f \in T THEN Tmp ELSE fdtab[f]]
              \/ fdtab' = [f \in Fds |-> IF f \in T THEN Free ELSE fdtab[f]]
    BY <1>6, ZenonT(60) DEF SessionWrite
  <2> QED
    BY <1>k, <2>1, <2>2
<1>7. ASSUME NEW c \in Conns, Disconnect(c) \/ HandleRequest(c) \/ HandleRequestFails(c)
      PROVE  NullEntries'
  <2>1. UNCHANGED <<sockets, fdtab>> \/ (Delete(c) /\ Erase(cur))
    BY <1>7 DEF Disconnect, HandleRequest, HandleRequestFails
  <2> QED
    BY <1>k, <1>t, <2>1, NamesAssumption DEF Delete, Erase, TypeOK
<1> QED
  BY <1>1, <1>2, <1>3, <1>4, <1>5, <1>6, <1>7 DEF Next, Event, Terminated

-----------------------------------------------------------------------------
(* The clients and the kernel disturb the listen queues and nothing else.  *)

\* A step that leaves the process and its descriptors alone.
LEMMA InvFrame ==
  ASSUME LoopInv, TypeOK', QueuesApart', UNCHANGED <<process, pollArray, fdtab>>,
         \A a \in Addrs : backlog[a] # <<>> => backlog'[a] # <<>>
  PROVE  LoopInv'
<1>1. UNCHANGED <<server_on, is_locked, pc, cur, sockets, session, capacity, polled, revents, snap, fdtab>>
  BY DEF process, pollArray
<1>2. NoDanglingFd' /\ SessionsApart' /\ HandlerMatchesState'
  BY <1>1 DEF LoopInv, NoDanglingFd, SessionsApart, HandlerMatchesState, Live
<1>3. ListenersReady'
  BY <1>1 DEF LoopInv, ListenersReady
<1>4. WalkInPlace' /\ LogLineOpen' /\ NullEntries'
  BY <1>1 DEF LoopInv, WalkInPlace, LogLineOpen, NullEntries
<1>5. PollEntriesCurrent' /\ NoStrandedSocket'
  BY <1>1 DEF LoopInv, PollEntriesCurrent, NoStrandedSocket, EventsFor, StateOf
<1> QED
  BY <1>2, <1>3, <1>4, <1>5 DEF LoopInv

LEMMA InvEnvironment == LoopInv /\ Environment => LoopInv'
<1> SUFFICES ASSUME LoopInv, Environment PROVE LoopInv'
  OBVIOUS
<1>t. TypeOK /\ TypeOK' /\ LogLineOpen' /\ NullEntries'
  BY TypeEnvironment, LogInv, NullInv DEF LoopInv, Next
<1>q. /\ client \in [Conns -> ClientType] /\ backlog \in [Addrs -> Seq(Conns)]
      /\ \A c \in Conns : client[c] \in ClientType
  BY <1>t DEF TypeOK
<1>1. ASSUME NEW c \in Conns, NEW a \in Addrs, Connect(c, a) PROVE LoopInv'
  <2>1. backlog' = [backlog EXCEPT ![a] = Append(@, c)] /\ UNCHANGED session
    BY <1>1 DEF Connect, process
  <2>2. client' = [client EXCEPT ![c].phase = "open"] /\ client[c].phase = "new"
    BY <1>1 DEF Connect
  <2>3. \A d \in Conns : client'[d].phase = IF d = c THEN "open" ELSE client[d].phase
    BY <2>2, <1>q DEF ClientType
  <2>4. \A b \in Addrs : \A i \in DOMAIN backlog[b] : backlog[b][i] \in Conns /\ backlog[b][i] # c
    BY <2>2, <1>q DEF LoopInv, QueuesApart
  <2>5. /\ DOMAIN backlog'[a] = DOMAIN backlog[a] \union {Len(backlog[a]) + 1}
        /\ backlog'[a][Len(backlog[a]) + 1] = c
        /\ \A i \in DOMAIN backlog[a] : backlog'[a][i] = backlog[a][i] /\ i # Len(backlog[a]) + 1
        /\ backlog'[a] # <<>>
    BY <2>1, <1>q, AppendProperties
  <2>6. \A b \in Addrs : b # a => backlog'[b] = backlog[b]
    BY <2>1, <1>q
  <2>7. QueuesApart'
    <3>1. \A d \in Conns : client'[d].phase = "new" => ~Live(d)'
      BY <2>1, <2>3 DEF LoopInv, QueuesApart, Live
    <3>2. ASSUME NEW b \in Addrs, NEW i \in DOMAIN backlog'[b]
          PROVE  /\ session'[backlog'[b][i]].state = "Freed"
                 /\ client'[backlog'[b][i]].phase \notin {"new", "closed"}
      BY <2>1, <2>2, <2>3, <2>4, <2>5, <2>6 DEF LoopInv, QueuesApart, Live
    <3>3. ASSUME NEW b \in Addrs, NEW e \in Addrs,
                 NEW i \in DOMAIN backlog'[b], NEW j \in DOMAIN backlog'[e],
                 backlog'[b][i] = backlog'[e][j]
          PROVE  b = e /\ i = j
      BY <2>4, <2>5, <2>6, <3>3 DEF LoopInv, QueuesApart
    <3> QED
      BY <3>1, <3>2, <3>3, Zenon DEF QueuesApart, Live
  <2> QED
    BY <1>t, <1>1, <2>5, <2>6, <2>7, InvFrame DEF Connect
<1>2. ASSUME NEW c \in Conns, UNCHANGED <<process, pollArray, fdtab, backlog>>,
             \A d \in Conns : \/ client'[d].phase = client[d].phase
                              \/ /\ client[d].phase \in {"open", "fin"}
                                 /\ client'[d].phase \in {"fin", "reset"}
      PROVE  LoopInv'
  <2>1. QueuesApart'
    BY <1>2, <1>q DEF LoopInv, QueuesApart, Live, process
  <2> QED
    BY <1>t, <1>2, <2>1, InvFrame
<1>3. ASSUME NEW c \in Conns, NEW s \in Symbols, Send(c, s) PROVE LoopInv'
  <2>1. \A d \in Conns : client'[d].phase = client[d].phase
    BY <1>3, <1>q DEF Send, ClientType
  <2> QED
    BY <1>2, <1>3, <2>1 DEF Send
<1>4. ASSUME NEW c \in Conns, Receive(c) PROVE LoopInv'
  <2>1. \A d \in Conns : client'[d].phase = client[d].phase
    BY <1>4, <1>q DEF Receive, ClientType
  <2> QED
    BY <1>2, <1>4, <2>1 DEF Receive
<1>5. ASSUME NEW c \in Conns, PeerClose(c) PROVE LoopInv'
  <2>1. \A d \in Conns : client'[d].phase = IF d = c THEN "fin" ELSE client[d].phase
    BY <1>5, <1>q DEF PeerClose, ClientType
  <2> QED
    BY <1>2, <1>5, <2>1 DEF PeerClose
<1>6. ASSUME NEW c \in Conns, PeerReset(c) PROVE LoopInv'
  <2>1. \A d \in Conns : client'[d].phase = IF d = c THEN "reset" ELSE client[d].phase
    BY <1>6, <1>q DEF PeerReset, ClientType
  <2> QED
    BY <1>2, <1>6, <2>1 DEF PeerReset
<1>7. ASSUME StopServer PROVE LoopInv'
  <2>1. NoDanglingFd' /\ SessionsApart' /\ HandlerMatchesState' /\ QueuesApart'
    BY <1>7 DEF StopServer, LoopInv, NoDanglingFd, SessionsApart, HandlerMatchesState,
                QueuesApart, Live
  <2>2. ListenersReady' /\ WalkInPlace'
    BY <1>7 DEF StopServer, LoopInv, ListenersReady, WalkInPlace, NoPolled
  <2>3. PollEntriesCurrent' /\ NoStrandedSocket'
    BY <1>7 DEF StopServer, LoopInv, PollEntriesCurrent, NoStrandedSocket, EventsFor, StateOf,
                NoPolled
  <2> QED
    BY <1>t, <2>1, <2>2, <2>3 DEF LoopInv
<1> QED
  BY <1>1, <1>3, <1>4, <1>5, <1>6, <1>7 DEF Environment

-----------------------------------------------------------------------------
(* The loop: building the array, poll(), the end.                          *)

\* A step of the thread that touches no socket, session or queue.
LEMMA InvSockets ==
  ASSUME LoopInv, UNCHANGED <<sockets, session, fdtab, backlog, client>>
  PROVE  NoDanglingFd' /\ SessionsApart' /\ HandlerMatchesState' /\ QueuesApart'
BY DEF LoopInv, NoDanglingFd, SessionsApart, HandlerMatchesState, QueuesApart, Live

LEMMA InvLoop == LoopInv /\ Loop => LoopInv'
<1> SUFFICES ASSUME LoopInv, Loop PROVE LoopInv'
  OBVIOUS
<1>t. TypeOK /\ TypeOK' /\ LogLineOpen' /\ NullEntries'
  BY TypeLoop, LogInv, NullInv DEF LoopInv, Next
<1>1. CASE EventArrayPrepare
  <2>1. UNCHANGED <<sockets, session, fdtab, backlog, client, cur, revents>> /\ pc' = "prepared"
    BY <1>1 DEF EventArrayPrepare
  <2>2. \A f \in Fds : revents[f] = {}
    BY <1>1 DEF EventArrayPrepare, Running, Walked, LoopInv, WalkInPlace
  <2>3. \A f \in Fds : /\ polled'[f] = EventsFor(sockets[f])
                       /\ polled'[f] # "none" => snap'[f] = sockets[f] /\ snap'[f] \in Owners
    BY <1>1, <1>t DEF EventArrayPrepare, EventsFor, TypeOK
  <2>4. NoDanglingFd' /\ SessionsApart' /\ HandlerMatchesState' /\ QueuesApart'
    BY <2>1, InvSockets
  <2>5. ListenersReady'
    BY <2>1 DEF LoopInv, ListenersReady
  <2>8. WalkInPlace'
    <3>1. \A f \in Fds : polled'[f] # "none" => snap'[f] \in Owners
      BY <2>3
    <3>2. \A f \in Fds : revents'[f] = {}
      BY <2>1, <2>2
    <3> QED
      BY <2>1, <3>1, <3>2 DEF WalkInPlace
  <2>9. \A f \in Fds : EventsFor(sockets[f])' = EventsFor(sockets[f])
    BY <2>1 DEF EventsFor, StateOf
  <2>6. PollEntriesCurrent'
    <3> SUFFICES ASSUME NEW f \in Fds, polled'[f] # "none"
                 PROVE  sockets'[f] = snap'[f] /\ polled'[f] = EventsFor(sockets[f])'
      BY DEF PollEntriesCurrent
    <3>1. sockets'[f] = snap'[f]
      BY <2>1, <2>3
    <3>2. polled'[f] = EventsFor(sockets[f])'
      BY <2>3, <2>9
    <3> QED
      BY <3>1, <3>2
  <2>7. NoStrandedSocket'
    BY <1>1, <2>1 DEF EventArrayPrepare, Running, LoopInv, NoStrandedSocket
  <2> QED
    BY <1>t, <2>4, <2>5, <2>6, <2>7, <2>8 DEF LoopInv
<1>2. CASE EventArrayPrepareFails \/ PollEnter
  <2>1. /\ UNCHANGED <<sockets, session, fdtab, backlog, client, cur, polled, revents, snap>>
        /\ pc \in {"pass", "prepared"} /\ pc' \in {"prepared", "polling"}
    BY <1>2 DEF EventArrayPrepareFails, PollEnter, Running, pollArray
  <2>2. \A f \in Fds : revents[f] = {}
    BY <1>2 DEF EventArrayPrepareFails, PollEnter, Running, Walked, LoopInv, WalkInPlace
  <2>3. NoDanglingFd' /\ SessionsApart' /\ HandlerMatchesState' /\ QueuesApart'
    BY <2>1, InvSockets
  <2>4. ListenersReady' /\ WalkInPlace'
    BY <2>1, <2>2 DEF LoopInv, ListenersReady, WalkInPlace
  <2>5. PollEntriesCurrent' /\ NoStrandedSocket'
    BY <2>1 DEF LoopInv, PollEntriesCurrent, NoStrandedSocket, EventsFor, StateOf
  <2> QED
    BY <1>t, <2>3, <2>4, <2>5 DEF LoopInv
<1>3. CASE PollReturn
  <2>1. /\ UNCHANGED <<sockets, session, fdtab, backlog, client, cur, polled, snap>>
        /\ pc = "polling" /\ pc' = "pass"
        /\ \A f \in Fds : revents'[f] = ReventsOf(f)
    BY <1>3 DEF PollReturn
  <2>2. \A f \in Fds : polled[f] = "none" => revents'[f] = {}
    BY <2>1 DEF ReventsOf
  <2>3. ASSUME NEW f \in Fds, "IN" \in revents'[f], sockets[f] \in Addrs
        PROVE  backlog[sockets[f]] # <<>>
    <3>1. fdtab[f] = sockets[f]
      BY <2>3 DEF LoopInv, NoDanglingFd, Owners
    <3> QED
      <4>1. "IN" \in {e \in {polled[f]} : Ready(sockets[f], e)}
        <5>1. "IN" \in ReventsOf(f)
          BY <2>1, <2>3
        <5>2. "IN" \notin (IF Broken(fdtab[f]) THEN {"ERR"} ELSE {})
          OBVIOUS
        <5> QED
          BY <3>1, <5>1, <5>2 DEF ReventsOf
      <4> QED
        BY <2>3, <4>1 DEF Ready
  <2>4. NoDanglingFd' /\ SessionsApart' /\ HandlerMatchesState' /\ QueuesApart'
    BY <2>1, InvSockets
  <2>5. ListenersReady' /\ WalkInPlace'
    BY <2>1, <2>2, <2>3 DEF LoopInv, ListenersReady, WalkInPlace
  <2>6. PollEntriesCurrent' /\ NoStrandedSocket'
    BY <2>1 DEF LoopInv, PollEntriesCurrent, NoStrandedSocket, EventsFor, StateOf
  <2> QED
    BY <1>t, <2>4, <2>5, <2>6 DEF LoopInv
<1>5. CASE EventArrayPrepareCrashes
  <2>1. /\ UNCHANGED <<sockets, session, fdtab, backlog, client, cur, polled, revents, snap>>
        /\ pc = "pass" /\ pc' = "crashed" /\ OutOfMemory
    BY <1>5 DEF EventArrayPrepareCrashes, Running, pollArray, LoopInv, NullEntries
  <2>2. NoDanglingFd' /\ SessionsApart' /\ HandlerMatchesState' /\ QueuesApart'
    BY <2>1, InvSockets
  <2>3. ListenersReady' /\ WalkInPlace'
    BY <2>1 DEF LoopInv, ListenersReady, WalkInPlace
  <2>4. PollEntriesCurrent' /\ NoStrandedSocket'
    BY <2>1 DEF LoopInv, PollEntriesCurrent, NoStrandedSocket, EventsFor, StateOf
  <2> QED
    BY <1>t, <2>2, <2>3, <2>4 DEF LoopInv
<1>4. CASE ShutDown
  <2>1. /\ \A f \in Fds : sockets'[f] = Absent /\ sockets'[f] \notin Owners
        /\ \A c \in Conns : /\ session'[c] = NoSession /\ session'[c].tmp = {}
                            /\ session'[c].state = "Freed" /\ ~session'[c].ready
        /\ \A a \in Addrs : backlog'[a] = <<>>
        /\ pc' = "stopped" /\ UNCHANGED <<cur, polled, revents, snap>>
        /\ \A f \in Fds : polled[f] = "none"
    BY <1>4, NamesAssumption DEF ShutDown, NoSession, pollArray, Walked
  <2>2. NoDanglingFd' /\ SessionsApart' /\ HandlerMatchesState' /\ QueuesApart'
    <3>1. NoDanglingFd'
      BY <2>1 DEF NoDanglingFd, Live, Owners
    <3>2. SessionsApart' /\ HandlerMatchesState'
      BY <2>1 DEF SessionsApart, HandlerMatchesState, Live
    <3>3. QueuesApart'
      BY <2>1 DEF QueuesApart, Live
    <3> QED
      BY <3>1, <3>2, <3>3
  <2>3. ListenersReady' /\ WalkInPlace'
    BY <2>1 DEF LoopInv, ListenersReady, WalkInPlace, Owners
  <2>4. PollEntriesCurrent' /\ NoStrandedSocket'
    BY <2>1 DEF PollEntriesCurrent, NoStrandedSocket, Owners
  <2> QED
    BY <1>t, <2>2, <2>3, <2>4 DEF LoopInv
<1> QED
  BY <1>1, <1>2, <1>3, <1>4, <1>5 DEF Loop

-----------------------------------------------------------------------------
(* One entry of the walk.                                                  *)

\* No two entries of _sockets are the same session.
LEMMA OneEntry ==
  ASSUME LoopInv, NEW f \in Fds, NEW g \in Fds, sockets[f] \in Conns, sockets[g] = sockets[f]
  PROVE  g = f /\ session[sockets[f]].fd = f /\ Live(sockets[f])
<1>1. session[sockets[f]].fd = f /\ session[sockets[f]].fd = g
  BY DEF LoopInv, NoDanglingFd
<1>2. f # 0
  BY BoundsAssumption DEF Fds
<1> QED
  BY <1>1, <1>2 DEF LoopInv, SessionsApart, NoSession

\* Deleting a session and erasing its entry leaves the other sessions, their
\* descriptors and the listen queues as they are.
LEMMA DeleteInv ==
  ASSUME LoopInv, NEW f \in Fds, sockets[f] \in Conns, Delete(sockets[f]), Erase(f),
         UNCHANGED backlog
  PROVE  /\ NoDanglingFd' /\ SessionsApart' /\ HandlerMatchesState' /\ QueuesApart'
         /\ sockets'[f] = Absent /\ sockets'[f] \notin Owners
         /\ \A g \in Fds : g # f =>
              /\ sockets'[g] = sockets[g]
              /\ sockets[g] \in Conns => session'[sockets[g]] = session[sockets[g]]
<1> DEFINE c == sockets[f]
<1>t. /\ sockets \in [Fds -> Owners \union {Absent, Null}] /\ session \in [Conns -> SessionType]
      /\ fdtab \in [Fds -> Owners \union {Free, Tmp}]
      /\ client \in [Conns -> ClientType] /\ backlog \in [Addrs -> Seq(Conns)]
  BY DEF LoopInv, TypeOK
<1>1. session[c].fd = f /\ Live(c)
  BY OneEntry
<1>2. /\ session'[c] = NoSession
      /\ \A d \in Conns : d # c => session'[d] = session[d]
  BY <1>t DEF Delete
<1>3. /\ sockets'[f] = Absent
      /\ \A g \in Fds : g # f => sockets'[g] = sockets[g]
  BY <1>t DEF Erase
<1>4. \A g \in Fds : fdtab'[g] = IF g = f \/ g \in session[c].tmp THEN Free ELSE fdtab[g]
  BY <1>1 DEF Delete
<1>5. \A d \in Conns : client'[d].phase = IF d = c THEN "closed" ELSE client[d].phase
  BY <1>t DEF Delete, Closed, ClientType
<1>6. \A g \in Fds : g # f => sockets[g] # c
  BY OneEntry
<1>7. Absent \notin Owners
  BY NamesAssumption
<1>8. \A d \in Conns : session[d].tmp \subseteq Fds /\ session[d].fd \in Fds \union {0}
  BY <1>t DEF SessionType
<1>9. NoDanglingFd'
  <2>1. ASSUME NEW g \in Fds, sockets'[g] \in Owners
        PROVE  fdtab'[g] = sockets'[g]
    <3>1. g # f /\ sockets'[g] = sockets[g] /\ fdtab[g] = sockets[g]
      BY <1>3, <1>7, <2>1 DEF LoopInv, NoDanglingFd
    <3>2. g \notin session[c].tmp
      BY <2>1, <3>1, NamesAssumption DEF LoopInv, NoDanglingFd
    <3> QED
      BY <1>4, <3>1, <3>2
  <2>2. ASSUME NEW g \in Fds, sockets'[g] \in Conns
        PROVE  session'[sockets'[g]].fd = g
    BY <1>2, <1>3, <1>6, <1>7, <2>2 DEF LoopInv, NoDanglingFd, Owners
  <2>3. ASSUME NEW d \in Conns, session'[d].state # "Freed"
        PROVE  sockets'[session'[d].fd] = d
    <3>1. d # c /\ session'[d] = session[d]
      BY <1>2, <2>3 DEF NoSession
    <3>2. sockets[session[d].fd] = d /\ session[d].fd \in Fds
      <4>1. sockets[session[d].fd] = d
        BY <2>3, <3>1 DEF LoopInv, NoDanglingFd, Live
      <4>2. session[d].fd # 0
        BY <2>3, <3>1 DEF LoopInv, SessionsApart, Live
      <4> QED
        BY <1>8, <4>1, <4>2
    <3> QED
      BY <1>3, <3>1, <3>2
  <2>4. ASSUME NEW d \in Conns, NEW g \in session'[d].tmp
        PROVE  fdtab'[g] = Tmp
    <3>1. d # c /\ g \in session[d].tmp /\ g \in Fds
      BY <1>2, <1>8, <2>4 DEF NoSession
    <3>2. fdtab[g] = Tmp
      BY <3>1 DEF LoopInv, NoDanglingFd
    <3>3. g # f /\ g \notin session[c].tmp
      BY <3>1, <3>2, NamesAssumption DEF LoopInv, NoDanglingFd, SessionsApart, Owners
    <3> QED
      BY <1>4, <3>1, <3>2, <3>3
  <2> QED
    BY <2>1, <2>2, <2>3, <2>4 DEF NoDanglingFd, Live
<1>10. SessionsApart'
  BY <1>2 DEF LoopInv, SessionsApart, Live, NoSession
<1>11. HandlerMatchesState'
  BY <1>2 DEF LoopInv, HandlerMatchesState, NoSession
<1>12. QueuesApart'
  <2>1. \A a \in Addrs : \A i \in DOMAIN backlog[a] : backlog[a][i] \in Conns /\ backlog[a][i] # c
    BY <1>1, <1>t DEF LoopInv, QueuesApart
  <2> QED
    BY <1>1, <1>2, <1>5, <2>1 DEF LoopInv, QueuesApart, Live
<1> QED
  BY <1>2, <1>3, <1>6, <1>7, <1>9, <1>10, <1>11, <1>12

\* Entries still to come are current when only the socket at work changed.
LEMMA OthersCurrent ==
  ASSUME LoopInv, NEW f \in Fds, UNCHANGED <<polled, snap>>, polled[f] = "none",
         \A g \in Fds : g # f =>
           /\ sockets'[g] = sockets[g]
           /\ sockets[g] \in Conns => session'[sockets[g]] = session[sockets[g]]
  PROVE  PollEntriesCurrent'
<1> SUFFICES ASSUME NEW g \in Fds, polled'[g] # "none"
             PROVE  sockets'[g] = snap'[g] /\ polled'[g] = EventsFor(sockets[g])'
  BY DEF PollEntriesCurrent
<1>1. g # f /\ sockets[g] = snap[g] /\ polled[g] = EventsFor(sockets[g])
  BY DEF LoopInv, PollEntriesCurrent
<1>2. EventsFor(sockets[g])' = EventsFor(sockets[g])
  BY <1>1 DEF EventsFor, StateOf
<1> QED
  BY <1>1, <1>2

LEMMA InvEventCheck ==
  ASSUME LoopInv, NEW f \in Fds, EventCheck(f)
  PROVE  LoopInv'
<1>t. TypeOK /\ TypeOK' /\ LogLineOpen' /\ NullEntries'
  BY TypeEventCheck, LogInv, NullInv DEF LoopInv, Next, Event
<1>f. /\ polled'[f] = "none" /\ revents'[f] = {}
      /\ \A g \in Fds : g # f =>
           polled'[g] = polled[g] /\ revents'[g] = revents[g] /\ snap'[g] = snap[g]
  BY <1>t DEF EventCheck, Forget, TypeOK
<1>g. pc = "pass" /\ polled[f] # "none" /\ UNCHANGED backlog
  BY DEF EventCheck, NextEntry
<1>e. /\ sockets[f] = snap[f] /\ sockets[f] \in Owners
      /\ polled[f] = EventsFor(sockets[f]) /\ polled[f] \in {"IN", "OUT"}
  BY <1>g, <1>t DEF LoopInv, PollEntriesCurrent, WalkInPlace, TypeOK
<1>1. CASE "ERR" \in revents[f] /\ sockets[f] \in Conns
  <2>1. Delete(sockets[f]) /\ Erase(f)
    BY <1>1 DEF EventCheck
  <2>2. ~Accepted(f)
    BY <1>1, <1>e DEF Accepted
  <2>3. pc' = "pass" /\ cur' = cur
    BY <1>g, <2>2 DEF EventCheck
  <2>4. /\ NoDanglingFd' /\ SessionsApart' /\ HandlerMatchesState' /\ QueuesApart'
        /\ sockets'[f] = Absent /\ sockets'[f] \notin Owners
        /\ \A g \in Fds : g # f =>
             /\ sockets'[g] = sockets[g]
             /\ sockets[g] \in Conns => session'[sockets[g]] = session[sockets[g]]
    BY <1>1, <1>g, <2>1, DeleteInv
  <2>5. PollEntriesCurrent'
    <3> SUFFICES ASSUME NEW g \in Fds, polled'[g] # "none"
                 PROVE  sockets'[g] = snap'[g] /\ polled'[g] = EventsFor(sockets[g])'
      BY DEF PollEntriesCurrent
    <3>1. g # f /\ sockets[g] = snap[g] /\ polled[g] = EventsFor(sockets[g])
      BY <1>f DEF LoopInv, PollEntriesCurrent
    <3>2. EventsFor(sockets[g])' = EventsFor(sockets[g])
      BY <2>4, <3>1 DEF EventsFor, StateOf
    <3> QED
      BY <1>f, <2>4, <3>1, <3>2
  <2>6. NoStrandedSocket'
    BY <1>g, <2>3, <2>4 DEF LoopInv, NoStrandedSocket, Owners
  <2>7. ListenersReady' /\ WalkInPlace'
    BY <1>f, <1>g, <2>3, <2>4 DEF LoopInv, ListenersReady, WalkInPlace, Owners
  <2> QED
    BY <1>t, <2>4, <2>5, <2>6, <2>7 DEF LoopInv
<1>2. CASE ~("ERR" \in revents[f] /\ sockets[f] \in Conns)
  <2>1. UNCHANGED <<sockets, session, fdtab, client, backlog>>
    BY <1>2 DEF EventCheck
  <2>2. \/ pc' = "pass" /\ cur' = cur
        \/ pc' = "action" /\ cur' = f /\ Accepted(f)
    BY <1>2, <1>e, <1>g DEF EventCheck
  <2>3. NoDanglingFd' /\ SessionsApart' /\ HandlerMatchesState' /\ QueuesApart'
    BY <2>1, InvSockets
  <2>4. \A g \in Fds : EventsFor(sockets[g])' = EventsFor(sockets[g])
    BY <2>1 DEF EventsFor, StateOf
  <2>5. PollEntriesCurrent'
    BY <1>f, <2>1, <2>4 DEF LoopInv, PollEntriesCurrent
  <2>6. NoStrandedSocket'
    BY <1>g, <2>1, <2>2 DEF LoopInv, NoStrandedSocket
  <2>7. ASSUME pc' = "action"
        PROVE  /\ sockets[f] \in Addrs => backlog[sockets[f]] # <<>>
               /\ sockets[f] \in Conns => session[sockets[f]].state \in {"Read", "Write"}
    <3>1. sockets[f] \in Addrs => polled[f] = "IN"
      BY <1>e, NamesAssumption DEF EventsFor, StateOf, Owners
    <3>2. sockets[f] \in Addrs => backlog[sockets[f]] # <<>>
      BY <1>g, <2>2, <2>7, <3>1 DEF LoopInv, ListenersReady, Accepted
    <3>3. sockets[f] \in Conns => session[sockets[f]].state \in {"Read", "Write"}
      BY <1>e DEF EventsFor, StateOf
    <3> QED
      BY <3>2, <3>3
  <2>8. ListenersReady'
    BY <1>f, <1>g, <2>1, <2>2, <2>7 DEF LoopInv, ListenersReady
  <2>9. WalkInPlace'
    BY <1>f, <1>g, <1>e, <2>1, <2>2, <2>7 DEF LoopInv, WalkInPlace
  <2> QED
    BY <1>t, <2>3, <2>5, <2>6, <2>8, <2>9 DEF LoopInv
<1> QED
  BY <1>1, <1>2

LEMMA InvAccept ==
  ASSUME LoopInv, NEW a \in Addrs, Accept(a)
  PROVE  LoopInv'
<1>t. TypeOK /\ TypeOK' /\ LogLineOpen' /\ NullEntries'
  BY TypeAccept, LogInv, NullInv DEF LoopInv, Next, Event
<1>u. /\ sockets \in [Fds -> Owners \union {Absent, Null}] /\ session \in [Conns -> SessionType]
      /\ fdtab \in [Fds -> Owners \union {Free, Tmp}] /\ backlog \in [Addrs -> Seq(Conns)]
  BY <1>t DEF TypeOK
<1>a. /\ pc = "action" /\ sockets[cur] = a /\ cur \in Fds /\ polled[cur] = "none"
      /\ backlog[a] # <<>> /\ pc' = "pass" /\ cur' = 0
      /\ UNCHANGED <<polled, revents, snap>>
  BY DEF Accept, LoopInv, ListenersReady, WalkInPlace, pollArray
\* No other socket listens on the same address.
<1>o. \A f \in Fds : sockets[f] = a => f = cur
  BY <1>a DEF LoopInv, ListenersReady
<1>1. CASE UNCHANGED <<sockets, session, fdtab, backlog, client>>
  <2>1. NoDanglingFd' /\ SessionsApart' /\ HandlerMatchesState' /\ QueuesApart'
    BY <1>1, <1>a, InvSockets
  <2>2. PollEntriesCurrent'
    BY <1>1, <1>a, OthersCurrent
  <2>3. ListenersReady' /\ WalkInPlace' /\ NoStrandedSocket'
    BY <1>1, <1>a DEF LoopInv, ListenersReady, WalkInPlace, NoStrandedSocket
  <2> QED
    BY <1>t, <2>1, <2>2, <2>3 DEF LoopInv
<1>2. ASSUME NEW fd \in FreeFds,
             backlog' = [backlog EXCEPT ![a] = Tail(@)],
             Inserted(Head(backlog[a]), fd)
      PROVE  LoopInv'
  <2> DEFINE c == Head(backlog[a])
  <2>1. /\ c \in Conns /\ c = backlog[a][1] /\ 1 \in DOMAIN backlog[a]
        /\ \A i \in DOMAIN Tail(backlog[a]) :
             /\ i + 1 \in DOMAIN backlog[a] /\ Tail(backlog[a])[i] = backlog[a][i + 1]
             /\ i \in Nat \ {0}
    BY <1>a, <1>u, HeadTailProperties
  <2>2. ~Live(c) /\ session[c] = NoSession
    BY <2>1 DEF LoopInv, QueuesApart, SessionsApart
  <2>3. fd \in Fds /\ fdtab[fd] = Free /\ fd # 0
    BY BoundsAssumption DEF FreeFds, Fds
  <2>4. sockets[fd] \notin Owners /\ \A d \in Conns : fd \notin session[d].tmp
    BY <2>3, NamesAssumption DEF LoopInv, NoDanglingFd
  <2>5. /\ \A g \in Fds : g # fd => fdtab'[g] = fdtab[g]
        /\ sockets'[fd] = c => fdtab'[fd] = c
    BY <1>2, <1>u, <2>1, <2>3, <2>4, NamesAssumption DEF Inserted, Owners
  \* The new session, or what a bad_alloc leaves of it.
  <2>6. /\ \A g \in Fds : g # fd => sockets'[g] = sockets[g]
        /\ \A d \in Conns : d # c => session'[d] = session[d]
        /\ \/ sockets'[fd] = c /\ session'[c] = NewSession(fd)
           \/ sockets'[fd] \notin Owners /\ session'[c] = session[c]
    BY <1>2, <1>u, <2>1, <2>3, <2>4, NamesAssumption DEF Inserted
  <2>18. \A d \in Conns : d # c => client'[d] = client[d]
    BY <1>2, <1>t, <2>1 DEF Inserted, Closed, TypeOK
  <2>19. client'[c] = client[c] \/ client'[c].phase = "closed"
    BY <1>2, <1>t, <2>1, ClosedPhase DEF Inserted
  <2>7. /\ NewSession(fd).fd = fd /\ NewSession(fd).state = "Read" /\ NewSession(fd).tmp = {}
        /\ NewSession(fd).handler = FALSE /\ NewSession(fd).ready = FALSE
        /\ NoSession.tmp = {} /\ NoSession.fd = 0 /\ NoSession.state = "Freed"
    BY DEF NewSession, NoSession
  <2>8. \A d \in Conns : session'[d].tmp = session[d].tmp
    BY <2>2, <2>6, <2>7
  <2>9. \A g \in Fds : sockets[g] # c
    BY <2>1, <2>2, OneEntry
  <2>10. NoDanglingFd'
    <3>1. \A g \in Fds : sockets'[g] \in Owners => fdtab'[g] = sockets'[g]
      BY <2>4, <2>5, <2>6 DEF LoopInv, NoDanglingFd
    <3>2. \A g \in Fds : sockets'[g] \in Conns => session'[sockets'[g]].fd = g
      BY <2>4, <2>6, <2>7, <2>9 DEF LoopInv, NoDanglingFd, Owners
    <3>3. ASSUME NEW d \in Conns, session'[d].state # "Freed"
          PROVE  sockets'[session'[d].fd] = d
      <4>1. CASE d = c
        BY <2>2, <2>6, <2>7, <3>3, <4>1
      <4>2. CASE d # c
        <5>1. session'[d] = session[d] /\ sockets[session[d].fd] = d
          BY <2>6, <3>3, <4>2 DEF LoopInv, NoDanglingFd, Live
        <5>2. session[d].fd \in Fds
          BY <1>u, <3>3, <5>1 DEF LoopInv, SessionsApart, Live, SessionType
        <5>3. session[d].fd # fd
          BY <2>4, <5>1 DEF Owners
        <5> QED
          BY <2>6, <5>1, <5>2, <5>3
      <4> QED
        BY <4>1, <4>2
    <3>4. \A d \in Conns : \A g \in session'[d].tmp : fdtab'[g] = Tmp
      <4>1. \A d \in Conns : session[d].tmp \subseteq Fds
        BY <1>u DEF SessionType
      <4> QED
        BY <2>4, <2>5, <2>8, <4>1 DEF LoopInv, NoDanglingFd
    <3> QED
      BY <3>1, <3>2, <3>3, <3>4 DEF NoDanglingFd, Live
  <2>11. SessionsApart'
    BY <2>2, <2>3, <2>6, <2>7, <2>8 DEF LoopInv, SessionsApart, Live
  <2>12. HandlerMatchesState'
    BY <2>6, <2>7 DEF LoopInv, HandlerMatchesState
  <2>13. QueuesApart'
    <3>1. \A b \in Addrs : b # a => backlog'[b] = backlog[b]
      BY <1>2, <1>u
    <3>2. backlog'[a] = Tail(backlog[a])
      BY <1>2, <1>u
    \* Where each connection that still waits was before.
    <3>8. ASSUME NEW b \in Addrs, NEW i \in DOMAIN backlog'[b]
          PROVE  LET k == IF b = a THEN i + 1 ELSE i
                 IN  k \in DOMAIN backlog[b] /\ backlog'[b][i] = backlog[b][k]
      <4>1. CASE b = a
        BY <2>1, <3>2, <4>1
      <4>2. CASE b # a
        BY <3>1, <4>2
      <4> QED
        BY <4>1, <4>2
    <3>3. \A b \in Addrs : \A i \in DOMAIN backlog'[b] : backlog'[b][i] # c /\ backlog'[b][i] \in Conns
      <4>1. \A b \in Addrs : \A i \in DOMAIN backlog[b] : backlog[b][i] \in Conns
        BY <1>u
      <4>2. \A i \in DOMAIN backlog'[a] : backlog'[a][i] # c /\ backlog'[a][i] \in Conns
        BY <2>1, <3>2, <4>1 DEF LoopInv, QueuesApart
      <4>3. \A b \in Addrs : b # a => \A i \in DOMAIN backlog'[b] : backlog'[b][i] # c
        BY <2>1, <3>1 DEF LoopInv, QueuesApart
      <4> QED
        BY <3>1, <4>1, <4>2, <4>3
    <3>4. client[c].phase \notin {"new", "closed"}
      BY <2>1 DEF LoopInv, QueuesApart
    <3>5. \A d \in Conns : client'[d].phase = "new" => session'[d].state = "Freed"
      BY <2>6, <2>18, <2>19, <3>4 DEF LoopInv, QueuesApart, Live
    <3>6. ASSUME NEW b \in Addrs, NEW i \in DOMAIN backlog'[b]
          PROVE  /\ session'[backlog'[b][i]].state = "Freed"
                 /\ client'[backlog'[b][i]].phase \notin {"new", "closed"}
      <4>1. \E j \in DOMAIN backlog[b] : backlog'[b][i] = backlog[b][j]
        BY <3>8
      <4> QED
        BY <2>6, <2>18, <3>3, <4>1 DEF LoopInv, QueuesApart, Live
    <3>7. ASSUME NEW b \in Addrs, NEW e \in Addrs,
                 NEW i \in DOMAIN backlog'[b], NEW j \in DOMAIN backlog'[e],
                 backlog'[b][i] = backlog'[e][j]
          PROVE  b = e /\ i = j
      <4> DEFINE m == IF b = a THEN i + 1 ELSE i
                 n == IF e = a THEN j + 1 ELSE j
      <4>1. /\ m \in DOMAIN backlog[b] /\ backlog'[b][i] = backlog[b][m]
            /\ n \in DOMAIN backlog[e] /\ backlog'[e][j] = backlog[e][n]
        BY <3>8
      <4>2. b = e /\ m = n
        <5> HIDE DEF m, n
        <5>1. \A i1 \in DOMAIN backlog[b], i2 \in DOMAIN backlog[e] :
                backlog[b][i1] = backlog[e][i2] => b = e /\ i1 = i2
          BY Zenon DEF LoopInv, QueuesApart
        <5> QED
          BY <3>7, <4>1, <5>1
      <4>3. i \in Nat /\ j \in Nat
        <5>1. backlog' \in [Addrs -> Seq(Conns)]
          BY <1>t DEF TypeOK
        <5> QED
          BY <5>1
      <4> QED
        BY <4>2, <4>3
    <3> QED
      BY <3>5, <3>6, <3>7, Zenon DEF QueuesApart, Live
  <2>14. PollEntriesCurrent'
    <3> SUFFICES ASSUME NEW g \in Fds, polled'[g] # "none"
                 PROVE  sockets'[g] = snap'[g] /\ polled'[g] = EventsFor(sockets[g])'
      BY DEF PollEntriesCurrent
    <3>1. /\ g # fd /\ sockets'[g] = sockets[g] /\ sockets[g] = snap[g]
          /\ polled[g] = EventsFor(sockets[g])
      BY <1>a, <2>4, <2>6 DEF LoopInv, PollEntriesCurrent, WalkInPlace
    <3>2. EventsFor(sockets[g])' = EventsFor(sockets[g])
      BY <2>6, <2>9, <3>1 DEF EventsFor, StateOf
    <3> QED
      BY <1>a, <3>1, <3>2
  <2>15. NoStrandedSocket'
    BY <1>a, <2>4, <2>6, <2>7, <2>9, NamesAssumption DEF LoopInv, NoStrandedSocket, Owners
  <2>16. ListenersReady'
    <3>1. \A b \in Addrs : b # a => backlog'[b] = backlog[b]
      BY <1>2, <1>u
    <3>2. \A g \in Fds : sockets'[g] \in Addrs => sockets'[g] = sockets[g] /\ g # fd
      BY <2>1, <2>4, <2>6, NamesAssumption DEF Owners
    <3>3. \A g \in Fds : "IN" \in revents'[g] /\ sockets'[g] \in Addrs => sockets[g] # a
      BY <1>a, <1>o, <3>2 DEF LoopInv, WalkInPlace
    <3> QED
      BY <1>a, <3>1, <3>2, <3>3 DEF LoopInv, ListenersReady
  <2>17. WalkInPlace'
    BY <1>a DEF LoopInv, WalkInPlace
  <2> QED
    BY <1>t, <2>10, <2>11, <2>12, <2>13, <2>14, <2>15, <2>16, <2>17 DEF LoopInv
<1>3. \/ UNCHANGED <<sockets, session, fdtab, backlog, client>>
      \/ \E fd \in FreeFds : /\ backlog' = [backlog EXCEPT ![a] = Tail(@)]
                             /\ Inserted(Head(backlog[a]), fd)
  BY <1>a DEF Accept
<1> QED
  BY <1>1, <1>2, <1>3

-----------------------------------------------------------------------------
(* One step of a session.                                                  *)

\* A step that changes one session, keeps its descriptor, and opens or closes
\* temporary files of its own only.
LEMMA OneSession ==
  ASSUME LoopInv, TypeOK', NEW c \in Conns, Live(c), Live(c)',
         session'[c].fd = session[c].fd,
         \A d \in Conns : d # c => session'[d] = session[d],
         session'[c].tmp \subseteq session[c].tmp \union FreeFds,
         \A g \in Fds : fdtab'[g] = IF g \in session'[c].tmp THEN Tmp
                                    ELSE IF g \in session[c].tmp THEN Free ELSE fdtab[g],
         \A d \in Conns : client'[d].phase = client[d].phase,
         UNCHANGED <<sockets, backlog>>
  PROVE  NoDanglingFd' /\ SessionsApart' /\ QueuesApart'
<1>t. TypeOK
  BY DEF LoopInv
<1>1. \A d \in Conns : session[d].tmp \subseteq Fds
  BY <1>t DEF TypeOK, SessionType
<1>2. \A g \in FreeFds : g \in Fds /\ fdtab[g] = Free
  BY DEF FreeFds
<1>3. \A d \in Conns : \A g \in session[d].tmp : fdtab[g] = Tmp
  BY DEF LoopInv, NoDanglingFd
<1>4. \A d \in Conns : d # c => session[d].tmp \intersect (session[c].tmp \union FreeFds) = {}
  BY <1>2, <1>3, NamesAssumption DEF LoopInv, SessionsApart
<1>5. NoDanglingFd'
  <2>1. ASSUME NEW f \in Fds, sockets'[f] \in Owners
        PROVE  fdtab'[f] = sockets'[f]
    <3>1. fdtab[f] = sockets[f] /\ sockets[f] \in Owners
      BY <2>1 DEF LoopInv, NoDanglingFd
    <3>2. f \notin session[c].tmp /\ f \notin FreeFds
      BY <1>2, <1>3, <3>1, NamesAssumption
    <3> QED
      BY <3>1, <3>2
  <2>2. \A f \in Fds : sockets'[f] \in Conns => session'[sockets'[f]].fd = f
    BY DEF LoopInv, NoDanglingFd
  <2>3. \A d \in Conns : Live(d)' => sockets'[session'[d].fd] = d
    BY DEF LoopInv, NoDanglingFd, Live
  <2>4. ASSUME NEW d \in Conns, NEW g \in session'[d].tmp
        PROVE  fdtab'[g] = Tmp
    <3>1. CASE d = c
      BY <1>1, <1>2, <2>4, <3>1
    <3>2. CASE d # c
      <4>1. g \in session[d].tmp /\ g \in Fds /\ fdtab[g] = Tmp
        BY <1>1, <1>3, <2>4, <3>2
      <4>2. g \notin session[c].tmp /\ g \notin session'[c].tmp
        BY <1>4, <3>2, <4>1
      <4> QED
        BY <4>1, <4>2
    <3> QED
      BY <3>1, <3>2
  <2> QED
    BY <2>1, <2>2, <2>3, <2>4 DEF NoDanglingFd
<1>6. SessionsApart'
  <2>1. \A d \in Conns : IF Live(d)' THEN session'[d].fd # 0 ELSE session'[d] = NoSession
    BY DEF LoopInv, SessionsApart, Live
  <2>2. \A d, e \in Conns : d # e => session'[d].tmp \intersect session'[e].tmp = {}
    BY <1>4 DEF LoopInv, SessionsApart
  <2> QED
    BY <2>1, <2>2 DEF SessionsApart
<1>7. QueuesApart'
  <2>1. \A d \in Conns : Live(d)' <=> Live(d)
    BY DEF Live
  <2>2. \A a \in Addrs : \A i \in DOMAIN backlog[a] : backlog[a][i] \in Conns
    BY <1>t DEF TypeOK
  <2> QED
    BY <2>1, <2>2 DEF LoopInv, QueuesApart, Live
<1> QED
  BY <1>5, <1>6, <1>7

\* Where the thread goes after action() fits the state it left the session in.
LEMMA ActionInv ==
  ASSUME LoopInv, NEW c \in Conns, sockets[cur] = c, pc = "action",
         session'[c].state \in SocketState, AfterAction(session'[c].state),
         \A d \in Conns : d # c => session'[d] = session[d],
         UNCHANGED <<sockets, backlog, polled, revents, snap>>
  PROVE  ListenersReady' /\ WalkInPlace' /\ PollEntriesCurrent' /\ NoStrandedSocket'
<1>1. cur \in Fds /\ polled[cur] = "none" /\ c \in Owners /\ c \notin Addrs
  BY NamesAssumption DEF LoopInv, WalkInPlace, Owners
<1>2. \A g \in Fds : sockets[g] = c => g = cur
  BY <1>1, OneEntry
<1>3. PollEntriesCurrent'
  BY <1>1, <1>2, OthersCurrent
<1>4. \/ pc' = "acted" /\ cur' = cur /\ session'[c].state \in {"Handle", "Disconnect"}
      \/ pc' = "pass" /\ session'[c].state \in {"Read", "Write"}
  BY DEF AfterAction, SocketState
<1>5. ListenersReady'
  BY <1>1, <1>4 DEF LoopInv, ListenersReady
<1>6. WalkInPlace'
  BY <1>1, <1>4 DEF LoopInv, WalkInPlace
<1>7. NoStrandedSocket'
  BY <1>1, <1>2, <1>4 DEF LoopInv, NoStrandedSocket
<1> QED
  BY <1>3, <1>5, <1>6, <1>7

LEMMA InvSessionRead ==
  ASSUME LoopInv, NEW c \in Conns, SessionRead(c)
  PROVE  LoopInv'
<1>t. TypeOK /\ TypeOK' /\ LogLineOpen' /\ NullEntries'
  BY TypeSessionRead, LogInv, NullInv DEF LoopInv, Next, Event
<1>a. /\ pc = "action" /\ sockets[cur] = c /\ session[c].state = "Read"
      /\ UNCHANGED <<sockets, backlog, fdtab, polled, revents, snap>>
      /\ client' = [client EXCEPT ![c].rx = Left(c)]
  BY DEF SessionRead, pollArray
<1>1. \A d \in Conns : client'[d].phase = client[d].phase
  BY <1>t, <1>a DEF TypeOK, ClientType
<1>2. /\ session'[c].fd = session[c].fd /\ session'[c].tmp = session[c].tmp
      /\ session'[c].handler = session[c].handler /\ session'[c].ready = session[c].ready
      /\ session'[c].state \in {"Read", "Handle", "Disconnect"}
      /\ AfterAction(session'[c].state)
      /\ \A d \in Conns : d # c => session'[d] = session[d]
  <2>1. ReadOutcome(c) \in {"Read", "Handle", "Disconnect"}
    BY DEF ReadOutcome
  <2> QED
    BY <1>t, <2>1 DEF SessionRead, TypeOK, SessionType
<1>3. /\ ~session'[c].handler /\ ~session'[c].ready /\ session'[c].tmp = {}
  BY <1>a, <1>2 DEF LoopInv, HandlerMatchesState
<1>4. HandlerMatchesState'
  BY <1>2, <1>3 DEF LoopInv, HandlerMatchesState
<1>5. NoDanglingFd' /\ SessionsApart' /\ QueuesApart'
  BY <1>t, <1>a, <1>1, <1>2, <1>3, OneSession DEF Live
<1>6. ListenersReady' /\ WalkInPlace' /\ PollEntriesCurrent' /\ NoStrandedSocket'
  BY <1>a, <1>2, ActionInv DEF SocketState
<1> QED
  BY <1>t, <1>4, <1>5, <1>6 DEF LoopInv

LEMMA InvSessionWrite ==
  ASSUME LoopInv, NEW c \in Conns, SessionWrite(c)
  PROVE  LoopInv'
<1> DEFINE s == session[c]
           left == IF s.ready THEN s.left ELSE ResponseSize
           n == Sent(c, left)
<1>t. TypeOK /\ TypeOK' /\ LogLineOpen' /\ NullEntries'
  BY TypeSessionWrite, LogInv, NullInv DEF LoopInv, Next, Event
<1>a. /\ pc = "action" /\ sockets[cur] = c /\ s.state = "Write" /\ s.handler
      /\ UNCHANGED <<sockets, backlog, polled, revents, snap>>
  BY DEF SessionWrite, pollArray, LoopInv, WalkInPlace, HandlerMatchesState
<1>1. s \in SessionType /\ left \in 0..ResponseSize /\ left > 0 /\ n \in Int
  <2>1. s \in SessionType
    BY <1>t DEF TypeOK
  <2>2. left \in 0..ResponseSize
    BY <2>1, BoundsAssumption DEF SessionType
  <2>3. left > 0
    BY <1>a, BoundsAssumption DEF LoopInv, HandlerMatchesState
  <2> QED
    BY <1>t, <2>1, <2>2, <2>3, SentType
<1>2. PICK T \in SUBSET FreeFds :
        \/ /\ session' = [session EXCEPT
                 ![c] = [s EXCEPT !.state = "Disconnect", !.ready = TRUE,
                                  !.left = left, !.tmp = @ \union T]]
           /\ fdtab' = [f \in Fds |-> IF f \in T THEN Tmp ELSE fdtab[f]]
           /\ AfterAction("Disconnect")
           /\ UNCHANGED <<client, answered>>
        \/ /\ client' = [client EXCEPT ![c].out = @ + n]
           /\ n < left
           /\ session' = [session EXCEPT
                 ![c] = [s EXCEPT !.ready = TRUE, !.left = left - n, !.tmp = @ \union T]]
           /\ fdtab' = [f \in Fds |-> IF f \in T THEN Tmp ELSE fdtab[f]]
           /\ AfterAction("Write")
        \/ /\ client' = [client EXCEPT ![c].out = @ + n]
           /\ session' = [session EXCEPT ![c] = Reset(s, AfterResponse(c))]
           /\ fdtab' = [f \in Fds |-> IF f \in s.tmp THEN Free ELSE fdtab[f]]
           /\ AfterAction(AfterResponse(c))
        \/ /\ client' = [client EXCEPT ![c].out = @ + n]
           /\ session' = [session EXCEPT
                 ![c] = [s EXCEPT !.state = "Disconnect", !.buffer = <<>>, !.ready = TRUE,
                                  !.left = 0, !.tmp = @ \union T]]
           /\ fdtab' = [f \in Fds |-> IF f \in T THEN Tmp ELSE fdtab[f]]
           /\ AfterAction("Disconnect")
  BY ZenonT(60) DEF SessionWrite
<1>3. \A d \in Conns : client'[d].phase = client[d].phase
  <2>1. client \in [Conns -> ClientType]
    BY <1>t DEF TypeOK
  <2>2. UNCHANGED client \/ client' = [client EXCEPT ![c].out = @ + n]
    BY <1>2, Zenon
  <2> HIDE DEF n
  <2> QED
    BY <2>1, <2>2, ZenonT(60) DEF ClientType
<1>4. /\ session'[c].fd = s.fd
      /\ session'[c].state \in SocketState /\ AfterAction(session'[c].state)
      /\ session'[c].tmp = s.tmp \union T \/ session'[c].tmp = {}
      /\ \A g \in Fds : fdtab'[g] = IF g \in session'[c].tmp \ s.tmp THEN Tmp
                                    ELSE IF g \in s.tmp \ session'[c].tmp THEN Free ELSE fdtab[g]
      /\ \A d \in Conns : d # c => session'[d] = session[d]
  <2>1. \A g \in T : g \notin s.tmp
    BY NamesAssumption DEF FreeFds, LoopInv, NoDanglingFd
  <2>2. AfterResponse(c) \in SocketState
    BY DEF AfterResponse, SocketState
  <2>3. CASE /\ session' = [session EXCEPT
                  ![c] = [s EXCEPT !.state = "Disconnect", !.ready = TRUE,
                                   !.left = left, !.tmp = @ \union T]]
             /\ fdtab' = [f \in Fds |-> IF f \in T THEN Tmp ELSE fdtab[f]]
             /\ AfterAction("Disconnect")
    BY <1>t, <1>1, <2>1, <2>3, SMTT(30) DEF TypeOK, SessionType, SocketState
  <2>4. CASE /\ session' = [session EXCEPT
                  ![c] = [s EXCEPT !.ready = TRUE, !.left = left - n, !.tmp = @ \union T]]
             /\ fdtab' = [f \in Fds |-> IF f \in T THEN Tmp ELSE fdtab[f]]
             /\ AfterAction("Write")
    BY <1>t, <1>a, <1>1, <2>1, <2>4, SMTT(30)
       DEF TypeOK, SessionType, SocketState
  <2>5. CASE /\ session' = [session EXCEPT ![c] = Reset(s, AfterResponse(c))]
             /\ fdtab' = [f \in Fds |-> IF f \in s.tmp THEN Free ELSE fdtab[f]]
             /\ AfterAction(AfterResponse(c))
    BY <1>t, <2>2, <2>5 DEF TypeOK, Reset, NewSession, NoSession
  <2>6. CASE /\ session' = [session EXCEPT
                  ![c] = [s EXCEPT !.state = "Disconnect", !.buffer = <<>>, !.ready = TRUE,
                                   !.left = 0, !.tmp = @ \union T]]
             /\ fdtab' = [f \in Fds |-> IF f \in T THEN Tmp ELSE fdtab[f]]
             /\ AfterAction("Disconnect")
    BY <1>t, <1>1, <2>1, <2>6, SMTT(30) DEF TypeOK, SessionType, SocketState
  <2> QED
    BY <1>2, <2>3, <2>4, <2>5, <2>6
<1>5. HandlerMatchesState'
  <2>1. \/ session'[c].state = "Disconnect"
        \/ session'[c].state = "Write" /\ session'[c].handler /\ session'[c].left > 0
        \/ /\ session'[c].state \in {"Read", "Disconnect"} /\ ~session'[c].handler
           /\ ~session'[c].ready /\ session'[c].tmp = {}
    <3>1. AfterResponse(c) \in {"Read", "Disconnect"}
      BY DEF AfterResponse
    <3>2. n < left => left - n > 0
      BY <1>1
    <3>3. session \in [Conns -> SessionType]
      BY <1>t DEF TypeOK
    <3> HIDE DEF n, left
    <3>4. CASE session' = [session EXCEPT
                 ![c] = [s EXCEPT !.state = "Disconnect", !.ready = TRUE,
                                  !.left = left, !.tmp = @ \union T]]
      BY <1>1, <3>3, <3>4 DEF SessionType
    <3>5. CASE /\ n < left
               /\ session' = [session EXCEPT
                    ![c] = [s EXCEPT !.ready = TRUE, !.left = left - n, !.tmp = @ \union T]]
      BY <1>1, <1>a, <3>2, <3>3, <3>5 DEF SessionType
    <3>6. CASE session' = [session EXCEPT ![c] = Reset(s, AfterResponse(c))]
      BY <3>1, <3>3, <3>6 DEF Reset, NewSession, NoSession
    <3>7. CASE session' = [session EXCEPT
                 ![c] = [s EXCEPT !.state = "Disconnect", !.buffer = <<>>, !.ready = TRUE,
                                  !.left = 0, !.tmp = @ \union T]]
      BY <1>1, <3>3, <3>7 DEF SessionType
    <3> QED
      BY <1>2, <3>4, <3>5, <3>6, <3>7, Zenon
  <2> QED
    BY <1>4, <2>1 DEF LoopInv, HandlerMatchesState
<1>6. \A g \in s.tmp : fdtab[g] = Tmp
  BY DEF LoopInv, NoDanglingFd
<1>7. NoDanglingFd' /\ SessionsApart' /\ QueuesApart'
  <2>1. Live(c) /\ Live(c)'
    BY <1>a, <1>4 DEF Live, SocketState
  <2>2. session'[c].tmp \subseteq s.tmp \union FreeFds
    BY <1>4
  <2>3. \A g \in Fds : fdtab'[g] = IF g \in session'[c].tmp THEN Tmp
                                   ELSE IF g \in s.tmp THEN Free ELSE fdtab[g]
    BY <1>4, <1>6
  <2> QED
    BY <1>t, <1>a, <1>3, <1>4, <2>1, <2>2, <2>3, OneSession
<1>8. ListenersReady' /\ WalkInPlace' /\ PollEntriesCurrent' /\ NoStrandedSocket'
  BY <1>a, <1>4, ActionInv
<1> QED
  BY <1>t, <1>5, <1>7, <1>8 DEF LoopInv

LEMMA InvDisconnect ==
  ASSUME LoopInv, NEW c \in Conns, TypeOK', LogLineOpen', NullEntries', pc = "acted", sockets[cur] = c,
         Erase(cur), Delete(c), pc' \in {"pass", "blocked"},
         UNCHANGED <<backlog, polled, revents, snap>>
  PROVE  LoopInv'
<1>1. cur \in Fds /\ sockets[cur] \in Conns /\ polled[cur] = "none"
  BY DEF LoopInv, WalkInPlace
<1>2. /\ NoDanglingFd' /\ SessionsApart' /\ HandlerMatchesState' /\ QueuesApart'
      /\ sockets'[cur] = Absent /\ sockets'[cur] \notin Owners
      /\ \A g \in Fds : g # cur =>
           /\ sockets'[g] = sockets[g]
           /\ sockets[g] \in Conns => session'[sockets[g]] = session[sockets[g]]
  BY <1>1, DeleteInv
<1>3. PollEntriesCurrent'
  BY <1>1, <1>2, OthersCurrent
<1>4. ListenersReady'
  BY <1>2 DEF LoopInv, ListenersReady, Owners
<1>5. WalkInPlace'
  BY DEF LoopInv, WalkInPlace
<1>6. NoStrandedSocket'
  BY <1>2 DEF LoopInv, NoStrandedSocket, Owners
<1> QED
  BY <1>2, <1>3, <1>4, <1>5, <1>6 DEF LoopInv

LEMMA InvHandleRequest ==
  ASSUME LoopInv, NEW c \in Conns, HandleRequest(c)
  PROVE  LoopInv'
<1>t. TypeOK /\ TypeOK' /\ LogLineOpen' /\ NullEntries'
  BY TypeHandleRequest, LogInv, NullInv DEF LoopInv, Next, Event
<1>a. /\ pc = "acted" /\ sockets[cur] = c /\ session[c].state = "Handle" /\ pc' = "pass"
      /\ session' = [session EXCEPT ![c].handler = TRUE, ![c].state = "Write"]
      /\ UNCHANGED <<sockets, fdtab, client, backlog, polled, revents, snap>>
  BY DEF HandleRequest, pollArray
<1>1. cur \in Fds /\ polled[cur] = "none" /\ c \in Owners
  BY <1>a DEF LoopInv, WalkInPlace, Owners
<1>2. \A g \in Fds : sockets[g] = c => g = cur
  BY <1>a, <1>1, OneEntry
<1>3. /\ \A d \in Conns : d # c => session'[d] = session[d]
      /\ session'[c].fd = session[c].fd /\ session'[c].tmp = session[c].tmp
      /\ session'[c].state = "Write" /\ session'[c].handler
      /\ session'[c].ready = session[c].ready
  BY <1>t, <1>a DEF TypeOK, SessionType
<1>4. ~session[c].ready /\ session[c].tmp = {}
  BY <1>a DEF LoopInv, HandlerMatchesState
<1>5. HandlerMatchesState'
  BY <1>3, <1>4 DEF LoopInv, HandlerMatchesState
<1>6. NoDanglingFd' /\ SessionsApart' /\ QueuesApart'
  BY <1>t, <1>a, <1>3, <1>4, OneSession DEF Live
<1>7. PollEntriesCurrent'
  BY <1>a, <1>1, <1>2, <1>3, OthersCurrent
<1>8. ListenersReady' /\ WalkInPlace'
  BY <1>a DEF LoopInv, ListenersReady, WalkInPlace
<1>9. NoStrandedSocket'
  BY <1>a, <1>2, <1>3, ZenonT(30) DEF LoopInv, NoStrandedSocket
<1> QED
  BY <1>t, <1>5, <1>6, <1>7, <1>8, <1>9 DEF LoopInv

LEMMA InvNext == LoopInv /\ [Next]_vars => LoopInv'
<1> SUFFICES ASSUME LoopInv, [Next]_vars PROVE LoopInv'
  OBVIOUS
<1>t. TypeOK /\ TypeOK' /\ LogLineOpen' /\ NullEntries'
  BY TypeNext, LogInv, NullInv DEF LoopInv
<1>1. CASE Loop
  BY <1>1, InvLoop
<1>2. ASSUME NEW f \in Fds, EventCheck(f) PROVE LoopInv'
  BY <1>2, InvEventCheck
<1>3. ASSUME NEW a \in Addrs, Accept(a) PROVE LoopInv'
  BY <1>3, InvAccept
<1>4. ASSUME NEW c \in Conns, SessionRead(c) PROVE LoopInv'
  BY <1>4, InvSessionRead
<1>5. ASSUME NEW c \in Conns, SessionWrite(c) PROVE LoopInv'
  BY <1>5, InvSessionWrite
<1>6. ASSUME NEW c \in Conns, Disconnect(c) PROVE LoopInv'
  BY <1>6, <1>t, InvDisconnect DEF Disconnect, pollArray
<1>7. ASSUME NEW c \in Conns, HandleRequest(c) PROVE LoopInv'
  BY <1>7, InvHandleRequest
<1>8. ASSUME NEW c \in Conns, HandleRequestFails(c) PROVE LoopInv'
  <2>1. CASE Erase(cur) /\ Delete(c) /\ pc' = "pass"
    BY <1>8, <1>t, <2>1, InvDisconnect DEF HandleRequestFails, pollArray
  <2>2. CASE pc' = "crashed" /\ UNCHANGED <<cur, sockets, session, fdtab, client>>
    <3>1. /\ UNCHANGED <<backlog, polled, revents, snap>> /\ OutOfMemory /\ pc = "acted"
      BY <1>8 DEF HandleRequestFails, pollArray
    <3>2. NoDanglingFd' /\ SessionsApart' /\ HandlerMatchesState' /\ QueuesApart'
      BY <2>2, <3>1, InvSockets
    <3>3. ListenersReady' /\ WalkInPlace'
      BY <2>2, <3>1 DEF LoopInv, ListenersReady, WalkInPlace
    <3>4. PollEntriesCurrent' /\ NoStrandedSocket'
      BY <2>2, <3>1 DEF LoopInv, PollEntriesCurrent, NoStrandedSocket, EventsFor, StateOf
    <3> QED
      BY <1>t, <3>2, <3>3, <3>4 DEF LoopInv
  <2> QED
    BY <1>8, <2>1, <2>2 DEF HandleRequestFails
<1>9. CASE UNCHANGED vars
  <2>1. UNCHANGED <<pc, cur, sockets, session, polled, revents, snap, fdtab, backlog, client>>
    BY <1>9 DEF vars, process, pollArray
  <2>2. \A a \in Addrs : backlog[a] # <<>> => backlog'[a] # <<>>
    BY <2>1
  <2> QED
    BY <1>9, <1>t, <2>1, <2>2, InvSockets, InvFrame DEF vars
<1> QED
  BY <1>1, <1>2, <1>3, <1>4, <1>5, <1>6, <1>7, <1>8, <1>9, InvEnvironment
  DEF Next, Event, Terminated

\* The inductive invariant holds in every reachable state, for any number of
\* listening sockets, connections, descriptors and requests, and whether or
\* not memory runs out.
THEOREM LoopInvariant == Spec => []LoopInv
<1>1. Init => LoopInv
  BY InvInit
<1>2. LoopInv /\ [Next]_vars => LoopInv'
  BY InvNext
<1> QED
  BY <1>1, <1>2, PTL DEF Spec

\* Server::_sockets, the descriptors and the session objects agree at every
\* step: no descriptor is used after it was closed, none is closed twice, and
\* none is taken for the one that had its number before.
THEOREM DescriptorsCoherent == Spec => []NoDanglingFd
<1>1. LoopInv => NoDanglingFd
  BY DEF LoopInv
<1> QED
  BY <1>1, LoopInvariant, PTL

\* Every entry of poll_array still to be walked stands for the socket it was
\* built from, in the state it was polled for.
THEOREM WalkCurrent == Spec => []PollEntriesCurrent
<1>1. LoopInv => PollEntriesCurrent
  BY DEF LoopInv
<1> QED
  BY <1>1, LoopInvariant, PTL

\* No socket is left where eventArrayPrepare passes over it.
THEOREM NothingStranded == Spec => []NoStrandedSocket
<1>1. LoopInv => NoStrandedSocket
  BY DEF LoopInv
<1> QED
  BY <1>1, LoopInvariant, PTL

\* write() finds the handler it dereferences, and an idle session holds nothing.
THEOREM HandlerThere == Spec => []HandlerMatchesState
<1>1. LoopInv => HandlerMatchesState
  BY DEF LoopInv
<1> QED
  BY <1>1, LoopInvariant, PTL

\* Unless memory runs out or a line of the log can wait for the one before it,
\* the thread never waits outside poll(), uses a socket that is gone, or leaves
\* the loop by an exception.
THEOREM StaysUp == Spec /\ ~OutOfMemory /\ ~LogBlocks => []NeverStuck
<1>1. LoopInv /\ ~OutOfMemory /\ ~LogBlocks => NeverStuck
  BY DEF LoopInv, WalkInPlace, LogLineOpen, NeverStuck
<1>2. CASE ~OutOfMemory /\ ~LogBlocks
  <2>1. LoopInv => NeverStuck
    BY <1>1, <1>2
  <2> QED
    BY <2>1, LoopInvariant, PTL
<1>3. CASE OutOfMemory \/ LogBlocks
  BY <1>3
<1> QED
  BY <1>2, <1>3
=============================================================================
