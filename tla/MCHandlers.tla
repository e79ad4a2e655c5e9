----------------------------- MODULE MCHandlers ----------------------------
(* The instances of Handlers that TLC checks. *)
EXTENDS Handlers, TLC

\* a file, a directory with an index file, and a script
F == <<"f">>
D == <<"d">>
I == <<"d", "i">>
S == <<"s">>
SomePaths == {F, D, I, S}

Open == [methods |-> {"GET", "HEAD", "POST", "PUT", "DELETE"}, redirect |-> 0, limit |-> 3,
         index |-> <<"i">>, autoindex |-> TRUE, cgi |-> {S, I},
         pages |-> [status \in {404} |-> F]]
ReadOnly == [Open EXCEPT !.methods = {"GET"}, !.autoindex = FALSE]
Moved == [Open EXCEPT !.redirect = 301]
\* The directory's own name is that of a script.
Named == [Open EXCEPT !.cgi = {D}]

Asks(method, path, size) ==
  [method |-> method, path |-> path, file |-> path, size |-> size, part |-> 0, http11 |-> TRUE,
   form |-> "none", atLocation |-> TRUE, loc |-> Open]

\* Nothing, a body within the limit and one beyond it.
Upload(size, part) == [Asks("POST", D, size) EXCEPT !.form = "whole", !.file = I, !.part = part]
Uploads == {Upload(0, 0), Upload(3, 2), Upload(4, 2)}

SomeRequests ==
  {Asks(m, p, 0) : m \in {"GET", "HEAD"}, p \in {F, D}} \union
  {Asks("GET", S, 0), Asks("POST", S, 1), Asks("POST", I, 1), Asks("POST", D, 1)} \union
  {Asks("DELETE", p, 0) : p \in {F, D, I}} \union
  {Asks("PUT", F, 1), Asks("PUT", D, 1), Asks("PUT", I, 2)} \union
  Uploads \union
  {[Asks("POST", D, 1) EXCEPT !.form = "broken"],
   [Asks("POST", D, 1) EXCEPT !.form = "crossed", !.file = I],
   [Asks("POST", D, 1) EXCEPT !.form = "whole", !.atLocation = FALSE],
   [Asks("GET", D, 0) EXCEPT !.loc = ReadOnly],
   [Asks("GET", D, 0) EXCEPT !.loc = Named],
   [Asks("DELETE", S, 0) EXCEPT !.loc = ReadOnly],
   [Asks("PUT", S, 1) EXCEPT !.loc = Moved],
   [Asks("PUT", S, 1) EXCEPT !.http11 = FALSE],
   Asks("OTHER", S, 0)}

\* The index file has the type "bla".
SomeBla == {I}

Start == [p \in SomePaths |-> IF p = D THEN Directory ELSE IF p = S THEN File(1) ELSE NotThere]
SomeStores == {Start, [Start EXCEPT ![F] = [File(2) EXCEPT !.readable = FALSE]]}
SomeResults == {[status |-> 201, size |-> 3]}

\* Nothing, the file, the index file, and everything.
SomeDenials == {{}, {F}, {I}, SomePaths}

Symmetry == Permutations(Sessions)
=============================================================================
