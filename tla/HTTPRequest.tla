---------------------------- MODULE HTTPRequest ----------------------------
(***************************************************************************)
(* How a request is put together from what recv() returns                  *)
(* (srcs/http/HTTPRequest.cpp): the header block is looked for, then the   *)
(* body is waited for, by its Content-Length or chunk by chunk, and the    *)
(* chunked coding is taken out of the buffer where it stands.  A recv()    *)
(* may end anywhere, between the CR and the LF of a terminator too.        *)
(*                                                                         *)
(* The bytes are symbols: CR, LF, the digits chunk sizes are made of (any  *)
(* of them may be data as well), the start line and one symbol for each    *)
(* header field.  Positions count from 0, as in the code.                  *)
(***************************************************************************)
EXTENDS Integers, Sequences, FiniteSets, FiniteSetsExt

CONSTANTS
  Messages,     \* what a client may send: its header fields and what follows
  Base,         \* what a digit of a chunk size counts
  MaxSize,      \* the largest size_t
  BUFFER_SIZE   \* symbols one recv() returns at most

ASSUME SizesAssumption ==
  /\ Base \in Nat \ {0} /\ BUFFER_SIZE \in Nat \ {0} /\ MaxSize \in Nat \ {0}

VARIABLES
  request,   \* the HTTPRequest object
  status,    \* what read() came to: see Statuses
  message,   \* what the client sends
  received   \* how many symbols of it recv() has returned

vars == <<request, status, message, received>>

-----------------------------------------------------------------------------
(* Symbols.                                                                *)

Symbol(kind, n) == [kind |-> kind, n |-> n]
CR == Symbol("CR", 0)
LF == Symbol("LF", 0)
StartLine == Symbol("start", 0)

\* Header fields: "chunked" is Transfer-Encoding: chunked, "length" is
\* Content-Length: n, "badlength" one that is no number, "form" the
\* Content-Type of a form.
FieldKinds == {"chunked", "length", "badlength", "form", "field"}
Kinds == FieldKinds \union {"start", "CR", "LF", "digit", "boundary", "name"}
Bytes == [kind : Kinds, n : Nat]

Terminator == <<CR, LF>>
HeaderEnd == Terminator \o Terminator

\* The header block a client sends: every line ends in a terminator.
Lines(fields) ==
  [i \in 1..(3 * Len(fields)) |->
     IF i % 3 = 1 THEN fields[(i + 2) \div 3] ELSE IF i % 3 = 2 THEN CR ELSE LF]
Header(m) == <<StartLine>> \o Terminator \o Lines(m.fields) \o Terminator
Symbols(m) == Header(m) \o m.body

\* A std::string holds fewer bytes than size_t counts.  Two lengths are not
\* sent, unless they are the same.
ASSUME MessagesAssumption ==
  \A m \in Messages :
    /\ m.fields \in Seq([kind : FieldKinds, n : Nat]) /\ m.body \in Seq(Bytes)
    /\ Len(Symbols(m)) < MaxSize
    /\ \A i, j \in DOMAIN m.fields :
         m.fields[i].kind = "length" /\ m.fields[j].kind = "length" => m.fields[i] = m.fields[j]

Statuses == {"reading",  \* more is needed: the session stays in Read
             "done",     \* read() returned true: the session goes to Handle
             "thrown",   \* an exception: the session goes to Disconnect
             "lost"}     \* the same, because recv() returned 0 or -1

\* std::string::find: the places where pat stands in buf from `from` on.
Found(buf, pat, from) ==
  {i \in from..(Len(buf) - Len(pat)) : SubSeq(buf, i + 1, i + Len(pat)) = pat}

\* std::string::erase of the symbols from..(to - 1)
Erased(buf, from, to) == SubSeq(buf, 1, from) \o SubSeq(buf, to + 1, Len(buf))

BadNumber == -1

\* A variant of Number: the stream is not asked whether it failed.
NumberUnchecked(line) ==
  LET value[i \in 0..Len(line)] == IF i = 0 THEN 0 ELSE Base * value[i - 1] + line[i].n
  IN  IF line # <<>> THEN value[Len(line)] ELSE BadNumber

\* A line read as a number: nothing but digits, and small enough.
Number(line) ==
  LET value[i \in 0..Len(line)] == IF i = 0 THEN 0 ELSE Base * value[i - 1] + line[i].n
  IN  IF /\ line # <<>>
         /\ \A i \in DOMAIN line : line[i].kind = "digit"
         /\ value[Len(line)] <= MaxSize
      THEN value[Len(line)] ELSE BadNumber

-----------------------------------------------------------------------------
(* The object.                                                             *)

\* _chunk_size when no chunk has been begun: the largest size_t.
NoSize == MaxSize

\* size_t arithmetic
Wrap(n) == n % (MaxSize + 1)

NewRequest ==
  [buffer |-> <<>>, fields |-> {}, header_size |-> 0, body_size |-> 0,
   chunk_size |-> NoSize, chunk_pos |-> 0]

Requests ==
  [buffer : Seq(Bytes), fields : SUBSET Bytes,   \* _header
   header_size : Nat, body_size : Nat, chunk_size : Nat, chunk_pos : Nat]

\* A variant of FillHeaderMap: the header block is looked for every time.
FillHeaderMapAgain(r) ==
  LET ends == Found(r.buffer, HeaderEnd, 0)
      end == Min(ends)
  IN  IF ends = {} THEN r
      ELSE [r EXCEPT !.header_size = end + 4, !.chunk_pos = end + 4,
                     !.fields = {r.buffer[i] : i \in 2..end} \ {CR, LF}]

\* The header block is looked for until fields have been found in it.
FillHeaderMap(r) ==
  LET ends == Found(r.buffer, HeaderEnd, 0)
      end == Min(ends)
  IN  IF r.fields # {} \/ ends = {} THEN r
      ELSE [r EXCEPT !.header_size = end + 4, !.chunk_pos = end + 4,
                     !.fields = {r.buffer[i] : i \in 2..end} \ {CR, LF}]

MeasureBody(r) ==
  IF r.fields = {} THEN r
  ELSE [r EXCEPT !.body_size = Wrap(Len(r.buffer) - r.header_size)]

\* A variant of ChunkIncomplete: the terminator is not waited for.
ChunkIncompleteNoTerminator(r) == Len(r.buffer) < Wrap(r.chunk_pos + r.chunk_size)

ChunkIncomplete(r) == Len(r.buffer) < Wrap(r.chunk_pos + r.chunk_size + 2)

\* The chunk that ends at pos is complete.
NextChunk(r, pos) ==
  [r EXCEPT !.chunk_pos = pos, !.chunk_size = NoSize, !.buffer = Erased(@, pos, pos + 2)]

\* dechunk(): what the loop does from object r on, with the object it leaves
\* (and the body measured again when it is done).
Dechunk[r \in Requests] ==
  LET ends == Found(r.buffer, Terminator, r.chunk_pos)
      line == SubSeq(r.buffer, r.chunk_pos + 1, Min(ends))
      pos == Wrap(r.chunk_pos + r.chunk_size)
  IN
  CASE r.chunk_size = 0 ->
         IF ends = {} THEN <<"reading", r>>
         ELSE <<"done", MeasureBody([r EXCEPT !.buffer = SubSeq(@, 1, r.chunk_pos)])>>
    [] r.chunk_size = NoSize ->
         IF ends = {} THEN <<"reading", r>>
         ELSE IF Number(line) = BadNumber THEN <<"thrown", r>>
         ELSE Dechunk[[r EXCEPT !.chunk_size = Number(line),
                                !.buffer = Erased(@, r.chunk_pos, Min(ends) + 2)]]
    [] OTHER ->
         IF ChunkIncomplete(r) THEN <<"reading", r>>
         ELSE IF pos \notin Found(r.buffer, Terminator, 0) THEN <<"thrown", r>>
         ELSE Dechunk[NextChunk(r, pos)]

HasField(r, kind) == \E f \in r.fields : f.kind = kind
ContentLength(r) == (CHOOSE f \in r.fields : f.kind = "length").n

IsRequestReceived(r) ==
  IF r.fields = {} THEN <<"reading", r>>
  ELSE IF HasField(r, "chunked") THEN Dechunk[r]
  ELSE IF HasField(r, "badlength") THEN <<"thrown", r>>
  ELSE IF HasField(r, "length") /\ ContentLength(r) > r.body_size THEN <<"reading", r>>
  ELSE <<"done", r>>

\* What read() does to the object with the data one recv() returned.
ReadData(r, data) ==
  IsRequestReceived(MeasureBody(FillHeaderMap([r EXCEPT !.buffer = @ \o data])))

-----------------------------------------------------------------------------
(* One object from its construction to the end of the request.             *)

Init ==
  /\ request = NewRequest
  /\ status = "reading"
  /\ message \in Messages
  /\ received = 0

\* One recv(): as many symbols as have arrived by then.
Read ==
  /\ status = "reading"
  /\ \E n \in 1..BUFFER_SIZE :
       LET data == SubSeq(Symbols(message), received + 1, received + n)
       IN  /\ received + n <= Len(Symbols(message))
           /\ received' = received + n
           /\ status' = ReadData(request, data)[1]
           /\ request' = ReadData(request, data)[2]
  /\ UNCHANGED message

\* The peer has closed, or the connection is broken.
ReadNothing ==
  /\ status = "reading"
  /\ status' = "lost"
  /\ UNCHANGED <<request, message, received>>

Next == Read \/ ReadNothing

Spec == Init /\ [][Next]_vars

-----------------------------------------------------------------------------
(* What a message means, read as a whole: nothing is erased or remembered. *)

\* A chunked body: its verdict and its data.  A size so large that positions
\* in the buffer may wrap is given no meaning.
Chunked(s) ==
  LET End(p) == Min(Found(s, Terminator, p))
      Size(p) == Number(SubSeq(s, p + 1, End(p)))
      After(p) == End(p) + 2 + Size(p)
      parse[p \in 0..Len(s)] ==
        IF Found(s, Terminator, p) = {} THEN <<"reading", <<>>>>
        ELSE IF Size(p) = BadNumber THEN <<"thrown", <<>>>>
        ELSE IF Size(p) + Len(Symbols(message)) + 2 > MaxSize THEN <<"huge", <<>>>>
        ELSE IF Size(p) = 0
        THEN <<IF Found(s, Terminator, End(p) + 2) = {} THEN "reading" ELSE "done", <<>>>>
        ELSE IF After(p) + 2 > Len(s) THEN <<"reading", <<>>>>
        ELSE IF After(p) \notin Found(s, Terminator, 0) THEN <<"thrown", <<>>>>
        ELSE <<parse[After(p) + 2][1],
               SubSeq(s, End(p) + 3, After(p)) \o parse[After(p) + 2][2]>>
  IN parse[0]

\* What has been received of the message, read as a whole.
Meaning ==
  LET body == SubSeq(message.body, 1, received - Len(Header(message)))
      Sent(kind) == \E i \in DOMAIN message.fields : message.fields[i].kind = kind
      lengths == {i \in DOMAIN message.fields : message.fields[i].kind = "length"}
      length == message.fields[CHOOSE i \in lengths : TRUE].n
  IN  IF received < Len(Header(message)) THEN <<"reading", <<>>>>
      ELSE IF Sent("chunked") THEN Chunked(body)
      ELSE IF Sent("badlength") THEN <<"thrown", <<>>>>
      ELSE IF ~Sent("length") THEN <<"done", <<>>>>
      ELSE IF Len(body) < length THEN <<"reading", <<>>>>
      ELSE <<"done", SubSeq(body, 1, length)>>

Body(r) == SubSeq(r.buffer, r.header_size + 1, r.header_size + r.body_size)
IsPrefixOf(s, t) == Len(s) <= Len(t) /\ SubSeq(t, 1, Len(s)) = s

-----------------------------------------------------------------------------
(* Properties.                                                             *)

\* The type invariant.
TypeOK ==
  /\ request \in Requests
  /\ request.fields \subseteq [kind : FieldKinds, n : Nat]
  /\ request.chunk_size <= MaxSize /\ request.body_size <= MaxSize
  /\ status \in Statuses
  /\ received \in 0..Len(Symbols(message))

\* However the packets cut the message, read() waits, succeeds or throws as
\* the message received so far, read as a whole, calls for; a chunked body
\* comes out as the data of its chunks, and a body of known length begins
\* with as many symbols as were announced.  Not so without any header field:
\* then read() takes the header for one that has not arrived.
DecodesAsWhole ==
  message.fields # <<>> /\ status # "lost" /\ Meaning[1] # "huge" =>
    /\ status = Meaning[1]
    /\ status = "done" =>
         IF HasField(request, "chunked") THEN Body(request) = Meaning[2]
         ELSE IsPrefixOf(Meaning[2], Body(request))

\* The object itself does not depend on the packets: it is the one a single
\* recv() of everything would have left, half-decoded chunks included.  Only
\* the size of a body that is not complete does, and nobody reads that.
PacketsDoNotMatter ==
  LET once == ReadData(NewRequest, SubSeq(Symbols(message), 1, received))
  IN  status # "lost" /\ received > 0 =>
        /\ status = once[1]
        /\ IF status = "done" THEN request = once[2]
           ELSE request = [once[2] EXCEPT !.body_size = request.body_size]
=============================================================================
