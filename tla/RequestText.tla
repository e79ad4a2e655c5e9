---------------------------- MODULE RequestText ----------------------------
(***************************************************************************)
(* What is read out of a request that has been received: the constructor   *)
(* of its handler takes the uri apart and decodes it, in one loop over the *)
(* escapes of each part (srcs/handlers/AHandler.cpp), and an upload is cut *)
(* out of the form it came in (srcs/handlers/PostHandler.cpp).             *)
(*                                                                         *)
(* A uri is a sequence of characters.  In a form the boundary, with its    *)
(* two dashes, and the file's name are one symbol each.                    *)
(***************************************************************************)
EXTENDS HTTPRequest, SequencesExt

CONSTANTS
  Chars,     \* the characters of uris and those that escapes stand for
  HexDigits, \* those that are hexadecimal digits
  Byte,      \* the character with a code of two digits
  Types      \* the file types of the location's scripts, in the map's order

\* "nul" has code 0, "ctl" any code of one digit; there are no signs and no
\* spaces, which operator>> would take for parts of a number.
ASSUME CharsAssumption ==
  /\ {"/", "?", ".", "%", "nul", "ctl"} \subseteq Chars
  /\ HexDigits \subseteq Chars \ {"/", "?", ".", "%"}
  /\ Byte \in [HexDigits -> [HexDigits -> Chars]] /\ Types \in Seq(Chars)
  /\ \A m \in Messages : m.target \in Seq(Chars)

VARIABLES
  stage,   \* where the constructor is: see Stages
  parts,   \* pure_uri_, query_string_ and path_info_ of the handler
  code     \* the number normalizeUri has read last, as a character

textVars == <<stage, parts, code>>

Stages == {"none", "path_info", "pure_uri", "constructed"}

-----------------------------------------------------------------------------
(* The uri.                                                                *)

\* strRemoveDoubled, of slashes: the first of two is erased until there are
\* none next to each other.
RemoveDoubled[s \in Seq(Chars)] ==
  LET doubled == Found(s, <<"/", "/">>, 0)
  IN  IF doubled = {} THEN s ELSE RemoveDoubled[Erased(s, Min(doubled), Min(doubled) + 1)]

\* Before and after the first "?".
Path(uri) == LET marks == Found(uri, <<"?">>, 0)
             IN  IF marks = {} THEN uri ELSE SubSeq(uri, 1, Min(marks))
Query(uri) == SubSeq(uri, Len(Path(uri)) + 2, Len(uri))

\* A variant of ScriptEnd: the place of the dot.
ScriptEndAtDot(path) ==
  LET Ends(t) == Found(path, <<".", t, "/">>, 0)
      given == {i \in DOMAIN Types : Ends(Types[i]) # {}}
  IN  IF given = {} THEN Len(path) ELSE Min(Ends(Types[Min(given)]))

\* Where the name of a script ends and the path for the script begins: at the
\* first place of the first file type, in the map's order, that occurs.
ScriptEnd(path) ==
  LET Ends(t) == Found(path, <<".", t, "/">>, 0)
      given == {i \in DOMAIN Types : Ends(Types[i]) # {}}
  IN  IF given = {} THEN Len(path) ELSE Min(Ends(Types[Min(given)])) + 2

\* AHandler::AHandler, before the parts are decoded.
Parts(uri) ==
  LET path == Path(uri)
      info == SubSeq(path, ScriptEnd(path) + 1, Len(path))
  IN  [pure_uri |-> SubSeq(path, 1, ScriptEnd(path)), query |-> Query(uri),
       path_info |-> IF info = <<"/">> THEN <<>> ELSE info]

\* A variant of Converted: the number is not read into the variable, which
\* starts as the character that is replaced.
ConvertedNot(hex, old) == "%"

\* What the stream makes of the characters behind a "%".  From none it reads
\* nothing and the variable stays what it was.
Converted(hex, old) ==
  IF hex = <<>> THEN old
  ELSE IF hex[1] \notin HexDigits THEN "nul"
  ELSE IF Len(hex) = 1 \/ hex[2] \notin HexDigits THEN "ctl"
  ELSE Byte[hex[1]][hex[2]]

\* HTTPRequest::parseStartLine and the constructor, for each message.
PartsOf == [m \in Messages |-> Parts(RemoveDoubled[m.target])]

UInit == Init /\ stage = "none" /\ parts = <<>> /\ code = "nul"

UReceive == stage = "none" /\ Next /\ UNCHANGED textVars

\* The handler is constructed as soon as the request is complete.  Each call
\* of normalizeUri finds something in the variable it does not initialise.
Construct ==
  /\ status = "done" /\ stage = "none"
  /\ parts' = PartsOf[message] /\ stage' = "path_info" /\ code' \in Chars
  /\ UNCHANGED vars

\* normalizeUri: one turn of the loop replaces the first "%" and looks for one
\* from the start again; without one the next part follows.
NormalizeUri ==
  /\ stage \in {"path_info", "pure_uri"}
  /\ LET s == parts[stage]
         percents == Found(s, <<"%">>, 0)
         percent == Min(percents)
         read == Converted(SubSeq(s, percent + 2, Min({percent + 3, Len(s)})), code)
     IN  IF percents = {}
         THEN /\ \/ stage = "path_info" /\ stage' = "pure_uri" /\ code' \in Chars
                 \/ stage = "pure_uri" /\ stage' = "constructed" /\ code' = code
              /\ UNCHANGED parts
         ELSE /\ parts' = [parts EXCEPT
                   ![stage] = SubSeq(s, 1, percent) \o <<read>> \o SubSeq(s, percent + 4, Len(s))]
              /\ code' = read /\ UNCHANGED stage
  /\ UNCHANGED vars

UFinished ==
  /\ status \in {"thrown", "lost"} \/ stage = "constructed"
  /\ UNCHANGED <<vars, textVars>>

UNext == UReceive \/ Construct \/ NormalizeUri \/ UFinished

USpec == UInit /\ [][UNext]_<<vars, textVars>>

\* The thread does nothing else until the handler is constructed.
UFairSpec == USpec /\ WF_<<vars, textVars>>(Construct \/ NormalizeUri)

-----------------------------------------------------------------------------
(* The form of an upload.                                                  *)

Boundary == Symbol("boundary", 0)
Name == Symbol("name", 0)

BadForm == [verdict |-> "broken", data |-> <<>>]

\* A variant of DataEnd: the line end before the boundary is taken as data.
DataEndAtBoundary(end) == end

\* The line end before the boundary belongs to the boundary.
DataEnd(end) == end - 2

\* postFile and getFormFileName: the data of the first part, which has to be
\* the file's.  "crossed": the boundary comes at once, the length to write is
\* negative and write() fails, when the file is already there.  Where the form
\* begins with an empty line, the part's header is the rest of the buffer.
Form(r) ==
  LET starts == Found(r.buffer, HeaderEnd, r.header_size)
      start == Min(starts)
      ends == IF starts = {} THEN {} ELSE Found(r.buffer, <<Boundary>>, start)
      first == r.header_size + 3
      header == SubSeq(r.buffer, first + 1, IF start < first THEN Len(r.buffer) ELSE start)
      end == DataEnd(Min(ends))
  IN  IF ends = {} THEN BadForm
      ELSE IF Found(header, <<Name>>, 0) = {} THEN BadForm
      ELSE IF end < start + 4 THEN [BadForm EXCEPT !.verdict = "crossed"]
      ELSE [verdict |-> "whole", data |-> SubSeq(r.buffer, start + 5, end)]

-----------------------------------------------------------------------------
(* Properties.                                                             *)

\* The type invariant.
TextTypeOK ==
  /\ TypeOK
  /\ stage \in Stages /\ code \in Chars
  /\ stage # "none" => parts \in [pure_uri : Seq(Chars), query : Seq(Chars), path_info : Seq(Chars)]

\* The character an escape stands for, and a text whose escapes are read once,
\* from left to right.
IsEscape(s, i) ==
  s[i] = "%" /\ i + 2 <= Len(s) /\ s[i + 1] \in HexDigits /\ s[i + 2] \in HexDigits
Decoded(s) ==
  LET from[i \in 1..(Len(s) + 3)] ==
        IF i > Len(s) THEN <<>>
        ELSE IF IsEscape(s, i) THEN <<Byte[s[i + 1]][s[i + 2]]>> \o from[i + 3]
        ELSE <<s[i]>> \o from[i + 1]
  IN  from[1]

\* Every "%" begins an escape; and none stands for another "%".
WellFormed(s) == \A i \in DOMAIN s : s[i] = "%" => IsEscape(s, i)
WellEscaped(s) ==
  WellFormed(s) /\ \A i \in DOMAIN s : s[i] = "%" => Byte[s[i + 1]][s[i + 2]] # "%"

\* A uri without doubled slashes is taken apart without loss: the path is the
\* script's name and what follows it, each decoded once however its escapes
\* lie and whatever they stand for (a "?", a "/"), and the query is untouched.
UriMeaning ==
  LET path == Path(message.target)
  IN  /\ stage = "constructed" /\ WellEscaped(path)
      /\ Found(message.target, <<"/", "/">>, 0) = {}
      => /\ Decoded(path) \in {parts.pure_uri \o parts.path_info, parts.pure_uri \o <<"/">>}
         /\ parts.path_info # <<>> =>
              \E i \in DOMAIN Types : IsSuffix(<<".", Types[i]>>, parts.pure_uri)
         /\ \/ path \o <<"?">> \o parts.query = message.target
            \/ parts.query = <<>> /\ path = message.target

\* The data of an upload is that between the header of the form's first part
\* and the line end before the next boundary, whatever line ends and sizes it
\* consists of, and in chunks too, unless their sizes make positions wrap.
UploadExtracted ==
  LET b == Body(request)
      header == <<Boundary>> \o Terminator \o <<Name>> \o HeaderEnd
      ends == {i \in DOMAIN b : b[i] = Boundary /\ i > 1}
      end == Min(ends)
  IN  /\ status = "done" /\ HasField(request, "form") /\ Meaning[1] # "huge"
      /\ IsPrefix(header, b) /\ ends # {}
      /\ end > Len(header) + 2 /\ SubSeq(b, end - 2, end - 1) = Terminator
      => Form(request) = [verdict |-> "whole", data |-> SubSeq(b, Len(header) + 1, end - 3)]

\* While normalizeUri is at a part, each turn of its loop uses up one escape and
\* makes none, where it starts to look again from the beginning too: the loop
\* ends after as many turns as the part had escapes, if none stands for a "%".
Escapes(s) == Cardinality({i \in DOMAIN s : s[i] = "%"})
EscapesRunOut ==
  [][WellEscaped(Path(message.target)) /\ stage \in {"path_info", "pure_uri"} /\ stage' = stage
     => Escapes(parts'[stage]) = Escapes(parts[stage]) - 1]_<<vars, textVars>>

\* Every request whose uri is well-formed gets its handler.  False when an
\* escape stands for a "%": see the README.
HandlerConstructed ==
  status = "done" /\ WellFormed(Path(message.target)) ~> stage = "constructed"

\* It does when no escape stands for a "%", which would be decoded again.
PlainConstructed ==
  status = "done" /\ WellEscaped(Path(message.target)) ~> stage = "constructed"
=============================================================================
