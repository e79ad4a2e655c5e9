---------------------------- MODULE ServerConfig ----------------------------
(***************************************************************************)
(* The configuration (srcs/config): the parser that reads nested blocks    *)
(* directive by directive, the completion of every location by what its    *)
(* parent says, and the two look-ups a request goes through: the virtual   *)
(* server of a host:port and name, and the location of a URI.              *)
(*                                                                         *)
(* A block sets fields.  What tells them apart is what a second setting in *)
(* the same block does, and what completion does with a field that both a  *)
(* location and its parent set: see Kind.  Each code of error_page and     *)
(* each file type of cgi is a field of its own.  The value of a field is a *)
(* set of words, empty while the field is unset.  A path or a URI is a     *)
(* sequence of characters, numbers whose order is that of the characters.  *)
(***************************************************************************)
EXTENDS Integers, Sequences, FiniteSets, SequencesExt

CONSTANTS
  Fields,         \* the fields of a Location
  Kind,           \* for each: "once" (root, autoindex, body_size and upload_store),
                  \* "many" (index and methods), "code" (error_page) or "cgi"
  Words,          \* what a directive may say
  Default,        \* the built-in value of each field
  Root,           \* the path "/"
  Paths,          \* the paths a location directive may name
  Uris,           \* the URIs looked up
  Addrs,          \* host:port pairs
  Names,          \* server names
  DefaultAddr,    \* where a server listens that does not say
  MaxServers,     \* bound: server blocks in a file
  MaxDirectives   \* bound: directives in a file

ASSUME FieldsAssumption ==
  /\ Kind \in [Fields -> {"once", "many", "code", "cgi"}]
  /\ Default \in [Fields -> SUBSET Words]

ASSUME PathsAssumption ==
  /\ Root \in Seq(Nat) /\ Root # <<>>
  /\ Paths \subseteq Seq(Nat) /\ Uris \subseteq Seq(Nat)
  /\ DefaultAddr \in Addrs

VARIABLES
  status,      \* "parsing", "loaded", or "failed": an exception
  stack,       \* the blocks the parser is in, the server block first
  listen,      \* the addresses of the server block
  names,       \* its server names
  locations,   \* *server_locations_: the blocks parsed to the end
  servers,     \* servers_
  declared,    \* history: servers_ before completion
  directives   \* history: how many directives have been parsed

vars == <<status, stack, listen, names, locations, servers, declared, directives>>

-----------------------------------------------------------------------------
(* Blocks.                                                                 *)

Unset == {}
Settings == [Fields -> SUBSET Words]
Blocks == [path : Paths \union {Root}, parent : Paths \union {Root, <<>>}, set : Settings]

NewBlock(path, parent) == [path |-> path, parent |-> parent, set |-> [f \in Fields |-> Unset]]

Top == stack[Len(stack)]
InServerBlock == Len(stack) = 1

\* The order of std::string, and so of the map of locations.
Less(p, q) ==
  \/ IsStrictPrefix(p, q)
  \/ \E i \in DOMAIN p \intersect DOMAIN q :
       p[i] < q[i] /\ SubSeq(p, 1, i - 1) = SubSeq(q, 1, i - 1)

\* A variant of CompletedFrom: what the parent says comes first.
CompletedFromParent(parent, set) ==
  [f \in Fields |-> IF parent[f] = Unset THEN set[f] ELSE parent[f]]

\* completeLocation: the parent says what the location does not.
CompletedFrom(parent, set) ==
  [f \in Fields |-> IF set[f] = Unset THEN parent[f] ELSE set[f]]

\* completeLocation throws: the types of cgi they share have other paths.
CgiMismatch(parent, set) ==
  \E f \in Fields : /\ Kind[f] = "cgi" /\ set[f] # Unset
                    /\ parent[f] # Unset /\ parent[f] # set[f]

\* A variant of Order: the locations from the end of the map.
OrderReversed(paths) ==
  CHOOSE s \in SetToSeqs(paths) : \A i, j \in DOMAIN s : i < j => Less(s[j], s[i])

\* The order completeServer visits the locations in.
Order(paths) ==
  CHOOSE s \in SetToSeqs(paths) : \A i, j \in DOMAIN s : i < j => Less(s[i], s[j])

\* completeServer: what the locations say when each has had its turn in the
\* order of the map (said[i]: when the first i have); the server itself becomes
\* location "/".
Completed(set, locs) ==
  LET base == [NewBlock(Root, <<>>) EXCEPT !.set = CompletedFrom(Default, set)]
      all == [p \in DOMAIN locs \union {Root} |-> IF p = Root THEN base ELSE locs[p]]
      order == Order(DOMAIN all \ {Root})
      said[i \in 0..Len(order)] ==
        IF i = 0 THEN [p \in DOMAIN all |-> all[p].set]
        ELSE [said[i - 1] EXCEPT
                ![order[i]] = CompletedFrom(said[i - 1][all[order[i]].parent], @)]
  IN  [p \in DOMAIN all |-> [all[p] EXCEPT !.set = said[Len(order)][p]]]

\* A variant of CompletionFails: it looks at the parent as the file has it.
CompletionFailsDeclared(set, locs) ==
  \E p \in DOMAIN locs \ {Root} :
    LET parent == locs[p].parent
    IN  CgiMismatch(IF parent \in DOMAIN locs \ {Root} THEN locs[parent].set ELSE set,
                    locs[p].set)

\* Some location meets a mismatch when its turn comes: its parent is
\* completed by then.
CompletionFails(set, locs) ==
  \E p \in DOMAIN locs \ {Root} :
    CgiMismatch(Completed(set, locs)[locs[p].parent].set, locs[p].set)

-----------------------------------------------------------------------------
(* The parser.                                                             *)

Init ==
  /\ status = "parsing"
  /\ stack = <<>> /\ listen = {} /\ names = {} /\ locations = <<>>
  /\ servers = <<>> /\ declared = <<>>
  /\ directives = 0

\* One directive more, in a block or outside of all.
Parsing ==
  /\ status = "parsing" /\ directives < MaxDirectives
  /\ directives' = directives + 1

Fail ==
  /\ status' = "failed"
  /\ UNCHANGED <<stack, listen, names, locations, servers, declared>>

\* parseServer, its first half: a new VirtualServer.
ParseServer ==
  /\ Parsing
  /\ stack = <<>> /\ Len(servers) < MaxServers
  /\ stack' = <<NewBlock(Root, <<>>)>>
  /\ listen' = {} /\ names' = {} /\ locations' = <<>>
  /\ UNCHANGED <<status, servers, declared>>

\* A variant of ParseLocation: the block may lie anywhere.
ParseLocationAnywhere(path) ==
  /\ Parsing
  /\ stack # <<>>
  /\ stack' = Append(stack, NewBlock(path, Top.path))
  /\ UNCHANGED <<status, listen, names, locations, servers, declared>>

\* parseLocation, before parseBlock.
ParseLocation(path) ==
  /\ Parsing
  /\ stack # <<>>
  /\ IF IsPrefix(Top.path, path)
     THEN /\ stack' = Append(stack, NewBlock(path, Top.path))
          /\ UNCHANGED <<status, listen, names, locations, servers, declared>>
     ELSE Fail

\* parseLocation, after parseBlock: a path comes once.
LocationEnds ==
  /\ status = "parsing" /\ Len(stack) > 1
  /\ IF Top.path \in DOMAIN locations
     THEN Fail
     ELSE /\ locations' = [p \in DOMAIN locations \union {Top.path} |->
                            IF p = Top.path THEN Top ELSE locations[p]]
          /\ stack' = Front(stack)
          /\ UNCHANGED <<status, listen, names, servers, declared>>
  /\ UNCHANGED directives

\* parseRoot, parseIndex, ... : one field of the innermost block.
ParseField(f, word) ==
  /\ Parsing
  /\ stack # <<>>
  /\ IF Top.set[f] # Unset /\ Kind[f] \in {"once", "cgi"}
     THEN Fail
     ELSE /\ stack' = [stack EXCEPT ![Len(stack)].set[f] =
                        IF Kind[f] = "many" THEN @ \union {word} ELSE {word}]
          /\ UNCHANGED <<status, listen, names, locations, servers, declared>>

\* parseListen and parseServerName belong in a server block.
ParseListen(a) ==
  /\ Parsing
  /\ stack # <<>>
  /\ IF InServerBlock /\ a \notin listen
     THEN /\ listen' = listen \union {a}
          /\ UNCHANGED <<status, stack, names, locations, servers, declared>>
     ELSE Fail

ParseServerName(n) ==
  /\ Parsing
  /\ stack # <<>>
  /\ IF InServerBlock
     THEN /\ names' = names \union {n}
          /\ UNCHANGED <<status, stack, listen, locations, servers, declared>>
     ELSE Fail

\* parseServer, its second half.
ServerEnds ==
  /\ status = "parsing" /\ InServerBlock
  /\ IF CompletionFails(Top.set, locations)
     THEN Fail
     ELSE /\ servers' = Append(servers,
               [listen |-> IF listen = {} THEN {DefaultAddr} ELSE listen,
                names |-> names, locations |-> Completed(Top.set, locations)])
          /\ declared' = Append(declared, [set |-> Top.set, locations |-> locations])
          /\ stack' = <<>> /\ listen' = {} /\ names' = {} /\ locations' = <<>>
          /\ UNCHANGED status
  /\ UNCHANGED directives

\* A directive nobody knows, or one with values it cannot have.
BadDirective == Parsing /\ Fail

\* The file ends: between servers, or inside a block.
EndOfFile ==
  /\ status = "parsing"
  /\ IF stack = <<>>
     THEN status' = "loaded" /\ UNCHANGED <<stack, listen, names, locations, servers, declared>>
     ELSE Fail
  /\ UNCHANGED directives

Over == status # "parsing" /\ UNCHANGED vars

Next ==
  \/ ParseServer
  \/ \E path \in Paths : ParseLocation(path)
  \/ LocationEnds
  \/ \E f \in Fields, word \in Words : ParseField(f, word)
  \/ \E a \in Addrs : ParseListen(a)
  \/ \E n \in Names : ParseServerName(n)
  \/ BadDirective
  \/ ServerEnds
  \/ EndOfFile
  \/ Over

Spec == Init /\ [][Next]_vars

-----------------------------------------------------------------------------
(* The look-ups of Server::handleRequest.                                  *)

\* A variant of GetLocation: the map is searched from its beginning.
GetLocationForward(server, uri) ==
  LET at == {p \in DOMAIN server.locations : IsPrefix(p, uri)}
  IN  IF at = {} THEN Root
      ELSE CHOOSE p \in at : \A q \in at : q = p \/ Less(p, q)

\* The path of VirtualServer::getLocation: the map is searched from its end;
\* the server itself where no location is found.
GetLocation(server, uri) ==
  LET at == {p \in DOMAIN server.locations : IsPrefix(p, uri)}
  IN  IF at = {} THEN Root
      ELSE CHOOSE p \in at : \A q \in at : q = p \/ Less(q, p)

\* A variant of GetVirtualServer: the last server that listens is the default.
GetVirtualServerLast(addr, name) ==
  LET at == {i \in DOMAIN servers : addr \in servers[i].listen}
      named == {i \in at : name \in servers[i].names}
  IN  IF named # {} THEN CHOOSE i \in named : \A j \in named : i <= j
      ELSE CHOOSE i \in at : \A j \in at : i >= j

\* The index of ServerConfig::getVirtualServer: the first server with the
\* name among those that listen there, else the first of those.
GetVirtualServer(addr, name) ==
  LET at == {i \in DOMAIN servers : addr \in servers[i].listen}
      named == {i \in at : name \in servers[i].names}
  IN  IF named # {} THEN CHOOSE i \in named : \A j \in named : i <= j
      ELSE CHOOSE i \in at : \A j \in at : i <= j

\* getListened
Listened == UNION {servers[i].listen : i \in DOMAIN servers}

-----------------------------------------------------------------------------
(* Properties.                                                             *)

\* The type invariant; a loaded location has every field that has a default.
TypeOK ==
  /\ status \in {"parsing", "loaded", "failed"}
  /\ stack \in Seq(Blocks)
  /\ listen \subseteq Addrs /\ names \subseteq Names
  /\ \A p \in DOMAIN locations : locations[p] \in Blocks /\ locations[p].path = p
  /\ \A i \in DOMAIN servers : \A p \in DOMAIN servers[i].locations :
       /\ servers[i].locations[p] \in Blocks
       /\ \A f \in Fields : Default[f] # Unset => servers[i].locations[p].set[f] # Unset
  /\ Len(declared) = Len(servers)

\* In a loaded server the parent of every location is a location that was
\* completed before it, above it in the tree: completeServer never makes an
\* empty Location by looking for one that is not there.
ParentsExist ==
  \A i \in DOMAIN servers :
    LET locs == servers[i].locations
    IN  /\ Root \in DOMAIN locs
        /\ \A p \in DOMAIN locs \ {Root} :
             locs[p].parent \in DOMAIN locs /\ Less(locs[p].parent, p)
        /\ DOMAIN locs = DOMAIN declared[i].locations \union {Root}

\* After completion each location says what its own block says, and for the
\* rest what its parent says in the end, grandparents included, though each
\* was completed once, in the order of the map.
Inherited ==
  \A i \in DOMAIN servers : \A p \in DOMAIN servers[i].locations \ {Root} :
    LET locs == servers[i].locations
    IN  \A f \in Fields :
          locs[p].set[f] = IF declared[i].locations[p].set[f] # Unset
                           THEN declared[i].locations[p].set[f]
                           ELSE locs[locs[p].parent].set[f]

\* A file type of cgi has one path from the server down to the location.
OneCgiPath ==
  \A i \in DOMAIN servers : \A p \in DOMAIN servers[i].locations :
    LET locs == servers[i].locations
    IN  \A f \in Fields :
          /\ Kind[f] = "cgi" /\ p # Root
          /\ locs[locs[p].parent].set[f] # Unset
          => locs[p].set[f] = locs[locs[p].parent].set[f]

\* A URI is served by the most specific of the locations it lies in, however
\* they are nested in the file.
MostSpecificLocation ==
  \A i \in DOMAIN servers : \A uri \in {u \in Uris : IsPrefix(Root, u)} :
    LET found == GetLocation(servers[i], uri)
    IN  \A p \in DOMAIN servers[i].locations :
          IsPrefix(p, uri) => IsPrefix(p, found) /\ IsPrefix(found, uri)

\* A connection to a listening socket always finds a server that listens
\* there, and without a name the first one of the file.
EveryListenedServed ==
  \A addr \in Listened : \A name \in Names \union {"no name"} :
    LET i == GetVirtualServer(addr, name)
        at == {j \in DOMAIN servers : addr \in servers[j].listen}
    IN  /\ i \in at
        /\ (\E j \in at : name \in servers[j].names) => name \in servers[i].names
        /\ \A j \in at : j < i => name \notin servers[j].names /\ name \in servers[i].names

\* What a location block says holds for the location.
DeclaredWins ==
  \A i \in DOMAIN servers : \A p \in DOMAIN declared[i].locations : \A f \in Fields :
    declared[i].locations[p].set[f] # Unset =>
      servers[i].locations[p].set[f] = declared[i].locations[p].set[f]
=============================================================================
