------------------------------- MODULE MCCgi -------------------------------
(* The instances of Cgi that TLC checks. *)
EXTENDS Cgi

Ask(method, chunked, body, extra, stated) ==
  [method |-> method, chunked |-> chunked, body |-> body, extra |-> extra, stated |-> stated]

\* Bodies within the buffer of a FILE and beyond it, with something behind
\* them, in chunks, in chunks with a length stated that is wrong, and a request
\* with neither length nor chunks that has something behind its header.
SomeRequests ==
  {Ask("GET", FALSE, 0, 0, -1), Ask("HEAD", FALSE, 0, 0, -1), Ask("POST", FALSE, 1, 1, 1),
   Ask("POST", FALSE, 2, 0, 2), Ask("POST", TRUE, 1, 0, -1), Ask("POST", TRUE, 1, 0, 0),
   Ask("POST", FALSE, 0, 1, -1)}

Status == Field("status", 404)
Other == Field("other", 0)
Length(n) == Field("length", n)

Output(eol, fields, body) == [eol |-> eol, fields |-> fields, body |-> body]

FieldLists ==
  {<<Other>>, <<Field("status", 200), Status>>, <<Length(1)>>, <<Length(2), Status>>}

\* Bodies: nothing, text, an empty line, texts that look like fields.
Bodies == {<<>>, <<Text>>, <<LF, Text>>, <<Other, LF, LF, Status>>}

SomeOutputs ==
  {Output(eol, fields, body) : eol \in {"lf", "crlf"}, fields \in FieldLists, body \in Bodies}
  \union {Output("none", <<Other>>, body) : body \in Bodies}
=============================================================================
