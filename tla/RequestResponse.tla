-------------------------- MODULE RequestResponse --------------------------
(***************************************************************************)
(* What webserv promises to each of its clients, whatever the event loop,  *)
(* the descriptors and the packets do: a connection is served one request  *)
(* at a time, each answer follows the request it answers, the connection   *)
(* goes on after the answer unless the request asked to close it, and a    *)
(* connection that has ended is never served again.  Server implements it. *)
(***************************************************************************)
EXTENDS Naturals

CONSTANT Conns

VARIABLES
  status,    \* what the server is doing for each connection
  asked,     \* requests it has taken
  answered   \* answers it has given

vars == <<status, asked, answered>>

Statuses == {"none",      \* not accepted (yet)
             "idle",      \* waiting for a request, or in the middle of one
             "asked",     \* a request is complete, its answer is not
             "last",      \* the same, and the request asks to close
             "ended"}     \* over, or about to be

Init ==
  /\ status = [c \in Conns |-> "none"]
  /\ asked = [c \in Conns |-> 0]
  /\ answered = [c \in Conns |-> 0]

Open(c) ==
  /\ status[c] = "none"
  /\ status' = [status EXCEPT ![c] = "idle"]
  /\ UNCHANGED <<asked, answered>>

\* A request is complete: it asks to keep the connection or to close it.
Ask(c) ==
  /\ status[c] = "idle"
  /\ \E s \in {"asked", "last"} : status' = [status EXCEPT ![c] = s]
  /\ asked' = [asked EXCEPT ![c] = @ + 1]
  /\ UNCHANGED answered

\* The answer is given; the server may drop the connection with it.
Answer(c) ==
  /\ status[c] \in {"asked", "last"}
  /\ \E s \in {IF status[c] = "asked" THEN "idle" ELSE "ended", "ended"} :
       status' = [status EXCEPT ![c] = s]
  /\ answered' = [answered EXCEPT ![c] = @ + 1]
  /\ UNCHANGED asked

\* The peer is gone or sends what is not a request, or the server has not
\* what it needs to serve it (any more).
Drop(c) ==
  /\ status[c] # "ended"
  /\ status' = [status EXCEPT ![c] = "ended"]
  /\ UNCHANGED <<asked, answered>>

\* The server stops: every connection ends, one it has not accepted too.
Stop ==
  /\ \E ended \in SUBSET Conns :
       /\ \A c \in Conns : status[c] # "none" => c \in ended
       /\ status' = [c \in Conns |-> IF c \in ended THEN "ended" ELSE status[c]]
  /\ UNCHANGED <<asked, answered>>

Next ==
  \/ \E c \in Conns : Open(c) \/ Ask(c) \/ Answer(c) \/ Drop(c)
  \/ Stop

Spec == Init /\ [][Next]_vars
=============================================================================
