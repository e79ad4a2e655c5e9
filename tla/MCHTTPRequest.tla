--------------------------- MODULE MCHTTPRequest ---------------------------
(* The instances of HTTPRequest and RequestText that TLC checks. *)
EXTENDS RequestText

Digit(n) == Symbol("digit", n)
Alphabet == {CR, LF, Digit(1), Digit(2)}
Message(kind, n, body) == [fields |-> <<Symbol(kind, n)>>, body |-> body, target |-> <<"/">>]

\* The chunked coding of a list of chunks, of one digit lengths.
Coded(chunk) == <<Digit(Len(chunk))>> \o Terminator \o chunk \o Terminator
Coding(chunks) ==
  FlattenSeq([i \in DOMAIN chunks |-> Coded(chunks[i])])
    \o <<Digit(0)>> \o Terminator \o Terminator

Chunks == {<<Digit(1)>>, <<LF>>, <<Digit(0), CR>>, <<CR, LF>>}
Codings == {Coding(chunks) : chunks \in UNION {[1..n -> Chunks] : n \in 0..2}}

\* One symbol of a coding lost or taken for another.
Damaged(s) ==
  {RemoveAt(s, i) : i \in DOMAIN s}
  \union {[s EXCEPT ![i] = a] : i \in DOMAIN s, a \in Alphabet}

\* Sizes near the end of the range of size_t.
Large == {size \o Terminator \o Coding(<<>>) :
            size \in {<<Digit(9), Digit(d)>> : d \in 0..9} \union {<<Digit(9), Digit(9), Digit(1)>>}}

Bodies ==
  {Message("chunked", 0, s) : s \in Codings \union Large \union UNION {Damaged(t) : t \in Codings}}
  \union {Message("length", n, body) :
            n \in 0..3, body \in UNION {[1..k -> Alphabet] : k \in 0..3}}
  \union {Message(kind, 0, <<>>) : kind \in {"field", "badlength"}}
  \union {[Message("field", 0, <<LF>>) EXCEPT !.fields = @ \o <<Symbol("length", 1)>>]}

\* A start line and the empty line, nothing between.
NoFields == {[Message("field", 0, <<>>) EXCEPT !.fields = <<>>]}

\* Uris: all short ones, and some with several escapes or a path for a script.
SomeChars == {"/", "?", ".", "%", "2", "5", "p", "q", "nul", "ctl"}
SomeByte == [d \in {"2", "5"} |-> [e \in {"2", "5"} |->
               IF d = "5" THEN "/" ELSE IF e = "5" THEN "%" ELSE "?"]]
SomeTypes == <<"p", "q">>
Escape == <<"%", "2", "2">>
Percent == <<"%", "2", "5">>
Targets ==
  {<<"/">> \o t : t \in UNION {[1..k -> {"/", "?", "%", "2", "5"}] : k \in 0..3}}
  \union {<<"/">> \o s \o t : s, t \in {Escape, Percent, <<"%", "5", "5">>}}
  \union {<<"/", ".", type, "/">> \o t :
            type \in {"p", "2"}, t \in {<<>>, <<"p">>, Escape, <<"?", "/">>, <<".", "q", "/">>}}
  \union {<<"/", ".", "q", "/", ".", "p", "/">>}
UriMessages == {[Message("field", 0, <<>>) EXCEPT !.target = t] : t \in Targets}

\* Forms: the first part has a name or not, and any data of up to two symbols,
\* with the terminator before the boundary or not.
FormOf(header, data, end) ==
  <<Boundary>> \o Terminator \o header \o HeaderEnd \o data \o end \o <<Boundary, Digit(2)>>
FormBodies ==
  {FormOf(<<Name>>, data, end) :
     data \in UNION {[1..k -> {CR, LF, Digit(1)}] : k \in 0..2}, end \in {<<>>, Terminator}}
  \union {FormOf(<<Digit(1)>>, <<Digit(1)>>, Terminator), HeaderEnd \o <<Boundary>>, <<Boundary>>}
Sent(fields, body) == [fields |-> fields \o <<Symbol("form", 0)>>, body |-> body, target |-> <<"/">>]
Forms ==
  {Sent(<<Symbol("length", Len(b))>>, b) : b \in FormBodies}
  \union {Sent(<<Symbol("chunked", 0)>>,
                <<Digit(1), Digit(2)>> \o Terminator \o SubSeq(b, 1, 12) \o Terminator
                  \o Coding(<<SubSeq(b, 13, Len(b))>>)) :
            b \in {c \in FormBodies : Len(c) \in 13..21}}

SomeMessages == Bodies \union NoFields \union UriMessages \union Forms
=============================================================================
