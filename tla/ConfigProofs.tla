---------------------------- MODULE ConfigProofs ---------------------------
(***************************************************************************)
(* Proofs about the configuration, for any file: the tree of locations     *)
(* the parser builds, what completion makes of the settings, and the       *)
(* look-ups of the server of an address and of the location of a URI.      *)
(***************************************************************************)
EXTENDS ServerConfig, Recursion, FiniteSetTheorems, SequenceTheorems

-----------------------------------------------------------------------------
(* The server of an address.                                               *)

LEMMA GetVirtualServerFinds ==
  ASSUME DOMAIN servers \subseteq Nat, NEW addr \in Listened, NEW name
  PROVE  LET i == GetVirtualServer(addr, name)
             at == {j \in DOMAIN servers : addr \in servers[j].listen}
             named == {j \in at : name \in servers[j].names}
         IN  /\ i \in at
             /\ named # {} => i \in named
             /\ \A j \in IF named # {} THEN named ELSE at : i <= j
<1> DEFINE at == {j \in DOMAIN servers : addr \in servers[j].listen}
           named == {j \in at : name \in servers[j].names}
<1>1. at # {} /\ at \subseteq Nat /\ named \subseteq at
  BY DEF Listened
<1>2. CASE named # {}
  <2>1. GetVirtualServer(addr, name) = CHOOSE i \in named : \A j \in named : i <= j
    BY <1>2 DEF GetVirtualServer
  <2> HIDE DEF named, at
  <2>2. \E i \in named : \A j \in named : i <= j
    BY <1>1, <1>2, LeastOf
  <2>3. /\ GetVirtualServer(addr, name) \in named
        /\ \A j \in named : GetVirtualServer(addr, name) <= j
    BY <2>1, <2>2
  <2> QED
    BY <1>1, <1>2, <2>3 DEF named, at
<1>3. CASE named = {}
  <2>1. GetVirtualServer(addr, name) = CHOOSE i \in at : \A j \in at : i <= j
    BY <1>3 DEF GetVirtualServer
  <2> HIDE DEF named, at
  <2>2. \E i \in at : \A j \in at : i <= j
    BY <1>1, LeastOf
  <2>3. /\ GetVirtualServer(addr, name) \in at
        /\ \A j \in at : GetVirtualServer(addr, name) <= j
    BY <2>1, <2>2
  <2> QED
    BY <1>1, <1>3, <2>3 DEF named, at
<1> QED
  BY <1>2, <1>3

\* servers_ is a vector: its indices are numbers.
Indexed == \E S : servers \in Seq(S)

LEMMA IndexedInvariant == Spec => []Indexed
<1>1. Init => Indexed
  BY DEF Init, Indexed
<1>2. Indexed /\ [Next]_vars => Indexed'
  <2> SUFFICES ASSUME Indexed, [Next]_vars PROVE Indexed'
    OBVIOUS
  <2>1. PICK S : servers \in Seq(S)
    BY DEF Indexed
  <2>2. CASE servers' = servers
    BY <2>1, <2>2 DEF Indexed
  <2>3. ASSUME NEW new, servers' = Append(servers, new) PROVE Indexed'
    <3>1. servers \in Seq(S \union {new})
      BY <2>1
    <3>2. servers' \in Seq(S \union {new})
      BY <2>3, <3>1
    <3> QED
      BY <3>2 DEF Indexed
  <2>4. servers' = servers \/ \E new : servers' = Append(servers, new)
    BY DEF Next, vars, ParseServer, ParseLocation, LocationEnds, ParseField, ParseListen,
           ParseServerName, BadDirective, ServerEnds, EndOfFile, Over, Fail
  <2> QED
    BY <2>2, <2>3, <2>4
<1> QED
  BY <1>1, <1>2, PTL DEF Spec

LEMMA RightServer ==
  ASSUME Indexed, NEW addr \in Listened, NEW name
  PROVE  LET i == GetVirtualServer(addr, name)
             at == {j \in DOMAIN servers : addr \in servers[j].listen}
         IN  /\ i \in at
             /\ (\E j \in at : name \in servers[j].names) => name \in servers[i].names
             /\ \A j \in at : j < i =>
                  name \notin servers[j].names /\ name \in servers[i].names
<1>1. DOMAIN servers \subseteq Nat
  <2>1. PICK S : servers \in Seq(S)
    BY DEF Indexed
  <2>2. DOMAIN servers = 1..Len(servers) /\ Len(servers) \in Nat
    BY <2>1, LenProperties
  <2> QED
    BY <2>2
<1> DEFINE i == GetVirtualServer(addr, name)
           at == {j \in DOMAIN servers : addr \in servers[j].listen}
           named == {j \in at : name \in servers[j].names}
<1>2. /\ i \in at
      /\ named # {} => i \in named
      /\ \A j \in IF named # {} THEN named ELSE at : i <= j
  BY <1>1, GetVirtualServerFinds
<1> HIDE DEF i
<1>3. i \in Nat /\ \A j \in at : j \in Nat
  BY <1>1, <1>2
<1>4. CASE named # {}
  <2>1. i \in named /\ \A j \in named : i <= j
    BY <1>2, <1>4
  <2>2. \A j \in at : j < i => j \notin named
    BY <1>3, <2>1
  <2> QED
    BY <1>2, <2>1, <2>2 DEF i
<1>5. CASE named = {}
  <2>1. \A j \in at : ~(j < i)
    BY <1>2, <1>3, <1>5
  <2> QED
    BY <1>2, <1>5, <2>1 DEF i
<1> QED
  BY <1>4, <1>5

-----------------------------------------------------------------------------
(* The tree of the locations.                                              *)

\* The blocks the parser is in lie within each other, the server first.
StackNested ==
  /\ stack \in Seq(Blocks)
  /\ stack # <<>> => stack[1].path = Root
  /\ \A j \in 2..Len(stack) :
       /\ stack[j].parent = stack[j - 1].path
       /\ IsPrefix(stack[j].parent, stack[j].path)

Open(blocks, p) == \E j \in 1..Len(blocks) : blocks[j].path = p

\* The parent of a location is another location, the server, or still open;
\* a block within one of the same path waits for that one's end, which fails.
ParentsKnown ==
  /\ stack = <<>> => DOMAIN locations = {}
  /\ \A p \in DOMAIN locations :
       LET parent == locations[p].parent
       IN  /\ p \in Paths \union {Root} /\ locations[p] \in Blocks
           /\ IsPrefix(parent, p)
           /\ parent \in DOMAIN locations \union {Root} \/ Open(stack, parent)
           /\ parent = p => p = Root \/ \E j \in 2..Len(stack) : stack[j].path = p

\* What ParentsExist says of one server.
Rooted(server, said) ==
  LET locs == server.locations
  IN  /\ DOMAIN locs = DOMAIN said.locations \union {Root}
      /\ DOMAIN locs \subseteq Paths \union {Root}
      /\ \A p \in DOMAIN locs \ {Root} :
           /\ locs[p].parent \in DOMAIN locs
           /\ IsPrefix(locs[p].parent, p) /\ locs[p].parent # p

ServersRooted ==
  /\ \E S : servers \in Seq(S)
  /\ \E S : declared \in Seq(S)
  /\ Len(servers) = Len(declared)
  /\ \A i \in 1..Len(servers) : Rooted(servers[i], declared[i])

ParserInv ==
  /\ status = "parsing" => StackNested /\ ParentsKnown
  /\ ServersRooted

\* The settings are all that completion changes: the tree stays as it is.
LEMMA CompletedTree ==
  ASSUME NEW set, NEW locs, \A p \in DOMAIN locs : locs[p] \in Blocks
  PROVE  /\ DOMAIN Completed(set, locs) = DOMAIN locs \union {Root}
         /\ \A p \in DOMAIN locs \ {Root} : Completed(set, locs)[p].parent = locs[p].parent
<1> DEFINE base == [NewBlock(Root, <<>>) EXCEPT !.set = CompletedFrom(Default, set)]
           all == [p \in DOMAIN locs \union {Root} |-> IF p = Root THEN base ELSE locs[p]]
           order == Order(DOMAIN all \ {Root})
           said[i \in 0..Len(order)] ==
             IF i = 0 THEN [p \in DOMAIN all |-> all[p].set]
             ELSE [said[i - 1] EXCEPT
                     ![order[i]] = CompletedFrom(said[i - 1][all[order[i]].parent], @)]
<1>1. Completed(set, locs) = [p \in DOMAIN all |-> [all[p] EXCEPT !.set = said[Len(order)][p]]]
  BY Zenon DEF Completed
<1> HIDE DEF said
<1>2. ASSUME NEW p \in DOMAIN locs \ {Root}
      PROVE  all[p] = locs[p] /\ locs[p] \in Blocks
  OBVIOUS
<1>3. DOMAIN all = DOMAIN locs \union {Root}
  OBVIOUS
<1> HIDE DEF all
<1> QED
  BY <1>1, <1>2, <1>3 DEF Blocks

LEMMA InitParser == Init => ParserInv
<1> SUFFICES ASSUME Init PROVE ParserInv
  OBVIOUS
<1>1. stack = <<>> /\ locations = <<>> /\ servers = <<>> /\ declared = <<>>
  BY DEF Init
<1>2. stack \in Seq(Blocks) /\ Len(stack) = 0 /\ DOMAIN locations = {}
  BY <1>1
<1>3. StackNested /\ ParentsKnown
  BY <1>1, <1>2 DEF StackNested, ParentsKnown
<1>4. servers \in Seq({}) /\ declared \in Seq({}) /\ Len(servers) = 0 /\ Len(declared) = 0
  BY <1>1
<1>5. ServersRooted
  BY <1>4 DEF ServersRooted
<1> QED
  BY <1>3, <1>5 DEF ParserInv

\* Steps that touch neither the blocks nor the servers, exceptions included.
LEMMA KeepsParser ==
  ASSUME ParserInv, UNCHANGED <<stack, locations, servers, declared>>,
         status' = "parsing" => status = "parsing"
  PROVE  ParserInv'
BY DEF ParserInv, StackNested, ParentsKnown, Open, ServersRooted, Rooted

LEMMA KeepsServers ==
  ASSUME ServersRooted, UNCHANGED <<servers, declared>>
  PROVE  ServersRooted'
BY DEF ServersRooted, Rooted

LEMMA NewBlockKnown ==
  ASSUME NEW path \in Paths \union {Root}, NEW parent \in Paths \union {Root, <<>>}
  PROVE  /\ NewBlock(path, parent) \in Blocks
         /\ NewBlock(path, parent).path = path /\ NewBlock(path, parent).parent = parent
BY DEF NewBlock, Blocks, Settings, Unset

LEMMA ParseServerInv ==
  ASSUME ParserInv, ParseServer
  PROVE  ParserInv'
<1> DEFINE block == NewBlock(Root, <<>>)
<1>1. stack' = <<block>> /\ locations' = <<>> /\ UNCHANGED <<servers, declared>>
  BY DEF ParseServer
<1>2. block \in Blocks /\ block.path = Root
  BY NewBlockKnown
<1> HIDE DEF block
<1>3. stack' \in Seq(Blocks) /\ Len(stack') = 1 /\ stack'[1] = block
  BY <1>1, <1>2
<1>4. StackNested'
  BY <1>2, <1>3 DEF StackNested
<1>5. ParentsKnown'
  BY <1>1 DEF ParentsKnown
<1> QED
  BY <1>1, <1>4, <1>5, KeepsServers DEF ParserInv

LEMMA ParseLocationInv ==
  ASSUME ParserInv, NEW path \in Paths, ParseLocation(path)
  PROVE  ParserInv'
<1>1. CASE IsPrefix(Top.path, path)
  <2> DEFINE block == NewBlock(path, Top.path)
             n == Len(stack)
  <2>1. /\ stack' = Append(stack, block) /\ stack # <<>>
        /\ UNCHANGED <<status, locations, servers, declared>> /\ status = "parsing"
    BY <1>1 DEF ParseLocation, Parsing
  <2>2. StackNested /\ ParentsKnown /\ stack \in Seq(Blocks)
    BY <2>1 DEF ParserInv, StackNested
  <2>3. n \in Nat /\ n >= 1 /\ Top = stack[n] /\ Top \in Blocks
    BY <2>1, <2>2 DEF Top
  <2>4. Top.path \in Paths \union {Root}
    BY <2>3 DEF Blocks
  <2>5. block \in Blocks /\ block.path = path /\ block.parent = Top.path
    BY <2>4, NewBlockKnown
  <2> HIDE DEF block
  <2>6. /\ stack' \in Seq(Blocks) /\ Len(stack') = n + 1 /\ stack'[n + 1] = block
        /\ \A j \in 1..n : stack'[j] = stack[j]
    BY <2>1, <2>2, <2>5
  <2>7. StackNested'
    <3>1. stack'[1].path = Root
      BY <2>1, <2>2, <2>3, <2>6 DEF StackNested
    <3>2. ASSUME NEW j \in 2..(n + 1)
          PROVE  stack'[j].parent = stack'[j - 1].path /\ IsPrefix(stack'[j].parent, stack'[j].path)
      <4>1. CASE j = n + 1
        BY <1>1, <2>3, <2>5, <2>6, <4>1
      <4>2. CASE j # n + 1
        BY <2>2, <2>3, <2>6, <3>2, <4>2, SMTT(30) DEF StackNested
      <4> QED
        BY <4>1, <4>2
    <3> QED
      BY <2>6, <3>1, <3>2 DEF StackNested
  <2>8. ParentsKnown'
    <3>1. \A q : Open(stack, q) => Open(stack', q)
      BY <2>3, <2>6 DEF Open
    <3>2. \A q : (\E j \in 2..Len(stack) : stack[j].path = q)
                  => \E j \in 2..Len(stack') : stack'[j].path = q
      BY <2>3, <2>6
    <3>3. stack' # <<>>
      BY <2>3, <2>6
    <3> QED
      BY <2>1, <2>2, <3>1, <3>2, <3>3 DEF ParentsKnown
  <2> QED
    BY <2>1, <2>7, <2>8, KeepsServers DEF ParserInv
<1>2. CASE ~IsPrefix(Top.path, path)
  BY <1>2, KeepsParser DEF ParseLocation, Fail
<1> QED
  BY <1>1, <1>2

\* The end of a location: what had it for parent, still open, now has it as a
\* location; that of one of its own path fails.
LEMMA LocationEndsInv ==
  ASSUME ParserInv, LocationEnds
  PROVE  ParserInv'
<1>1. CASE Top.path \in DOMAIN locations
  BY <1>1, KeepsParser DEF LocationEnds, Fail
<1>2. CASE Top.path \notin DOMAIN locations
  <2> DEFINE n == Len(stack)
             path == Top.path
  <2>1. /\ stack' = Front(stack) /\ n > 1 /\ status = "parsing"
        /\ locations' = [p \in DOMAIN locations \union {path} |->
                           IF p = path THEN Top ELSE locations[p]]
        /\ UNCHANGED <<servers, declared>>
    BY <1>2 DEF LocationEnds
  <2>2. StackNested /\ ParentsKnown /\ stack \in Seq(Blocks)
    BY <2>1 DEF ParserInv, StackNested
  <2>3. n \in Nat /\ Top = stack[n] /\ Top \in Blocks /\ path \in Paths \union {Root}
    <3>1. n \in Nat /\ Top = stack[n] /\ Top \in Blocks
      BY <2>1, <2>2 DEF Top
    <3> QED
      BY <3>1 DEF Blocks
  <2>4. /\ stack' \in Seq(Blocks) /\ Len(stack') = n - 1
        /\ \A j \in 1..(n - 1) : stack'[j] = stack[j]
    BY <2>1, <2>2, <2>3 DEF Front
  <2>5. StackNested'
    BY <2>1, <2>2, <2>3, <2>4, SMTT(30) DEF StackNested
  <2>6. /\ DOMAIN locations' = DOMAIN locations \union {path}
        /\ locations'[path] = Top
        /\ \A p \in DOMAIN locations : p # path /\ locations'[p] = locations[p]
    BY <1>2, <2>1
  <2>7. Top.parent = stack[n - 1].path /\ IsPrefix(Top.parent, path)
    BY <2>1, <2>2, <2>3 DEF StackNested
  <2>8. ASSUME NEW q, Open(stack, q) PROVE q = path \/ Open(stack', q)
    BY <2>3, <2>4, <2>8 DEF Open
  <2>9. ASSUME NEW p \in DOMAIN locations'
        PROVE  LET parent == locations'[p].parent
               IN  /\ p \in Paths \union {Root} /\ locations'[p] \in Blocks
                   /\ IsPrefix(parent, p)
                   /\ parent \in DOMAIN locations' \union {Root} \/ Open(stack', parent)
                   /\ parent = p => p = Root \/ \E j \in 2..Len(stack') : stack'[j].path = p
    <3>1. CASE p = path
      <4>1. stack'[n - 1].path = Top.parent /\ n - 1 \in 1..Len(stack')
        BY <2>1, <2>3, <2>4, <2>7
      <4>2. Open(stack', Top.parent)
        BY <4>1 DEF Open
      <4>3. n - 1 = 1 => Top.parent = Root
        <5>1. stack[1].path = Root
          BY <2>1, <2>2 DEF StackNested
        <5> QED
          BY <2>3, <2>7, <5>1
      <4>4. n - 1 # 1 => n - 1 \in 2..Len(stack')
        BY <2>1, <2>3, <2>4
      <4> QED
        BY <2>3, <2>6, <2>7, <3>1, <4>1, <4>2, <4>3, <4>4
    <3>2. CASE p # path
      <4>1. p \in DOMAIN locations /\ locations'[p] = locations[p]
        BY <2>6, <3>2
      <4>2. /\ p \in Paths \union {Root} /\ locations[p] \in Blocks
            /\ IsPrefix(locations[p].parent, p)
            /\ locations[p].parent \in DOMAIN locations \union {Root} \/ Open(stack, locations[p].parent)
            /\ locations[p].parent = p => p = Root \/ \E j \in 2..Len(stack) : stack[j].path = p
        BY <2>2, <4>1 DEF ParentsKnown
      <4>3. ASSUME NEW j \in 2..Len(stack), stack[j].path = p
            PROVE  j \in 2..Len(stack') /\ stack'[j].path = p
        BY <2>3, <2>4, <3>2, <4>3
      <4> QED
        BY <2>6, <2>8, <4>1, <4>2, <4>3
    <3> QED
      BY <3>1, <3>2
  <2>10. stack' # <<>>
    BY <2>1, <2>3, <2>4
  <2>11. ParentsKnown'
    BY <2>9, <2>10 DEF ParentsKnown
  <2> QED
    BY <2>1, <2>5, <2>11, KeepsServers DEF ParserInv
<1> QED
  BY <1>1, <1>2

LEMMA ParseFieldInv ==
  ASSUME ParserInv, NEW f \in Fields, NEW word \in Words, ParseField(f, word)
  PROVE  ParserInv'
<1> DEFINE n == Len(stack)
           fails == Top.set[f] # Unset /\ Kind[f] \in {"once", "cgi"}
           said == IF Kind[f] = "many" THEN Top.set[f] \union {word} ELSE {word}
           block == [Top EXCEPT !.set = [Top.set EXCEPT ![f] = said]]
<1>1. CASE fails
  BY <1>1, KeepsParser DEF ParseField, Fail
<1>2. CASE ~fails
  <2>1. /\ stack' = [stack EXCEPT ![n].set[f] =
                       IF Kind[f] = "many" THEN @ \union {word} ELSE {word}]
        /\ stack # <<>> /\ status = "parsing"
        /\ UNCHANGED <<status, locations, servers, declared>>
    BY <1>2 DEF ParseField, Parsing
  <2>2. StackNested /\ ParentsKnown /\ stack \in Seq(Blocks)
    BY <2>1 DEF ParserInv, StackNested
  <2>3. n \in Nat /\ n >= 1 /\ Top = stack[n] /\ Top \in Blocks
    BY <2>1, <2>2 DEF Top
  <2>4. Top.set \in [Fields -> SUBSET Words]
    BY <2>3 DEF Blocks, Settings
  <2>5. stack' = [stack EXCEPT ![n] = block]
    BY <2>1, <2>3
  <2>6. said \in SUBSET Words
    BY <2>4
  <2> HIDE DEF said
  <2>7. [Top.set EXCEPT ![f] = said] \in Settings
    BY <2>4, <2>6 DEF Settings
  <2>8. block \in Blocks /\ block.path = Top.path /\ block.parent = Top.parent
    BY <2>3, <2>7 DEF Blocks
  <2> HIDE DEF block
  <2>9. /\ stack' \in Seq(Blocks) /\ Len(stack') = n /\ stack'[n] = block
        /\ \A j \in 1..n : j # n => stack'[j] = stack[j]
    BY <2>2, <2>3, <2>5, <2>8
  <2>10. \A j \in 1..n : stack'[j].path = stack[j].path /\ stack'[j].parent = stack[j].parent
    BY <2>3, <2>8, <2>9
  <2>11. StackNested'
    BY <2>1, <2>2, <2>3, <2>9, <2>10 DEF StackNested
  <2>12. \A q : /\ Open(stack', q) <=> Open(stack, q)
                /\ (\E j \in 2..Len(stack') : stack'[j].path = q)
                     <=> \E j \in 2..Len(stack) : stack[j].path = q
    BY <2>3, <2>9, <2>10 DEF Open
  <2>13. ParentsKnown'
    <3>1. stack' # <<>>
      BY <2>3, <2>9
    <3> QED
      BY <2>1, <2>2, <2>12, <3>1, ZenonT(30) DEF ParentsKnown
  <2> QED
    BY <2>1, <2>11, <2>13, KeepsServers DEF ParserInv
<1> QED
  BY <1>1, <1>2

\* When the server's block ends no location is open, so every parent is a
\* location, and none is its own.
LEMMA ServerEndsInv ==
  ASSUME ParserInv, ServerEnds
  PROVE  ParserInv'
<1>1. CASE CompletionFails(Top.set, locations)
  BY <1>1, KeepsParser DEF ServerEnds, Fail
<1>2. CASE ~CompletionFails(Top.set, locations)
  <2> DEFINE locs == Completed(Top.set, locations)
             server == [listen |-> IF listen = {} THEN {DefaultAddr} ELSE listen,
                        names |-> names, locations |-> locs]
             said == [set |-> Top.set, locations |-> locations]
  <2>1. /\ servers' = Append(servers, server) /\ declared' = Append(declared, said)
        /\ stack' = <<>> /\ locations' = <<>> /\ Len(stack) = 1 /\ status = "parsing"
    BY <1>2 DEF ServerEnds, InServerBlock
  <2>2. StackNested /\ ParentsKnown /\ stack \in Seq(Blocks) /\ ServersRooted
    BY <2>1 DEF ParserInv, StackNested
  <2>3. \A q : Open(stack, q) => q = Root
    <3>1. stack # <<>>
      <4>1. Len(stack) = 1
        BY <2>1
      <4> QED
        BY <4>1
    <3>2. stack[1].path = Root
      BY <2>2, <3>1 DEF StackNested
    <3> QED
      BY <2>1, <3>2 DEF Open
  <2>4. \A p \in DOMAIN locations :
          /\ p \in Paths \union {Root} /\ locations[p] \in Blocks
          /\ IsPrefix(locations[p].parent, p)
          /\ locations[p].parent \in DOMAIN locations \union {Root}
          /\ locations[p].parent = p => p = Root
    BY <2>1, <2>2, <2>3 DEF ParentsKnown
  <2>5. /\ DOMAIN locs = DOMAIN locations \union {Root}
        /\ \A p \in DOMAIN locations \ {Root} : locs[p].parent = locations[p].parent
    <3>1. \A p \in DOMAIN locations : locations[p] \in Blocks
      BY <2>4
    <3> QED
      BY <3>1, CompletedTree, Zenon
  <2> HIDE DEF locs
  <2>6. Rooted(server, said)
    BY <2>4, <2>5 DEF Rooted
  <2> HIDE DEF server, said
  <2>7. ServersRooted'
    <3>1. PICK S : servers \in Seq(S)
      BY <2>2 DEF ServersRooted
    <3>2. PICK T : declared \in Seq(T)
      BY <2>2 DEF ServersRooted
    <3>3. servers \in Seq(S \union {server}) /\ declared \in Seq(T \union {said})
      BY <3>1, <3>2
    <3>4. /\ servers' \in Seq(S \union {server}) /\ Len(servers') = Len(servers) + 1
          /\ servers'[Len(servers) + 1] = server /\ Len(servers) \in Nat
          /\ \A i \in 1..Len(servers) : servers'[i] = servers[i]
      BY <2>1, <3>3
    <3>5. /\ declared' \in Seq(T \union {said}) /\ Len(declared') = Len(declared) + 1
          /\ declared'[Len(declared) + 1] = said
          /\ \A i \in 1..Len(declared) : declared'[i] = declared[i]
      BY <2>1, <3>3
    <3>6. Len(servers) = Len(declared) /\ \A i \in 1..Len(servers) : Rooted(servers[i], declared[i])
      BY <2>2 DEF ServersRooted
    <3>7. \A i \in 1..(Len(servers) + 1) : Rooted(servers'[i], declared'[i])
      BY <2>6, <3>4, <3>5, <3>6
    <3> QED
      BY <3>4, <3>5, <3>6, <3>7 DEF ServersRooted
  <2>8. StackNested' /\ ParentsKnown'
    <3>1. stack' \in Seq(Blocks) /\ Len(stack') = 0 /\ DOMAIN locations' = {}
      BY <2>1
    <3> QED
      BY <2>1, <3>1 DEF StackNested, ParentsKnown
  <2> QED
    BY <2>7, <2>8 DEF ParserInv
<1> QED
  BY <1>1, <1>2

LEMMA ParserInvariant == Spec => []ParserInv
<1>1. Init => ParserInv
  BY InitParser
<1>2. ParserInv /\ [Next]_vars => ParserInv'
  <2> SUFFICES ASSUME ParserInv, [Next]_vars PROVE ParserInv'
    OBVIOUS
  <2>1. CASE UNCHANGED vars \/ Over \/ BadDirective \/ EndOfFile
    BY <2>1, KeepsParser DEF vars, Over, BadDirective, EndOfFile, Fail
  <2>2. ASSUME NEW a \in Addrs, ParseListen(a) PROVE ParserInv'
    BY <2>2, KeepsParser DEF ParseListen, Fail
  <2>3. ASSUME NEW m \in Names, ParseServerName(m) PROVE ParserInv'
    BY <2>3, KeepsParser DEF ParseServerName, Fail
  <2> QED
    BY <2>1, <2>2, <2>3, ParseServerInv, ParseLocationInv, LocationEndsInv, ParseFieldInv,
       ServerEndsInv DEF Next
<1> QED
  BY <1>1, <1>2, PTL DEF Spec

-----------------------------------------------------------------------------
(* The location of a URI.                                                  *)

\* Of two prefixes of a string the shorter one is a prefix of the longer one,
\* and comes first in the order of the map.
LEMMA PrefixesNest ==
  ASSUME NEW uri \in Seq(Nat), NEW p \in Seq(Nat), NEW q \in Seq(Nat),
         IsPrefix(p, uri), IsPrefix(q, uri)
  PROVE  /\ Len(p) <= Len(q) => IsPrefix(p, q)
         /\ Len(p) = Len(q) => p = q
         /\ Less(p, q) => IsPrefix(p, q)
         /\ Len(p) < Len(q) => Less(p, q)
<1>1. \A i \in 1..Len(p) : p[i] = uri[i]
  <2>1. \A i \in 1..Len(p) : SubSeq(p, 1, Len(p))[i] = p[i] /\ SubSeq(uri, 1, Len(p))[i] = uri[i]
    BY SMTT(30) DEF IsPrefix
  <2> QED
    BY <2>1 DEF IsPrefix
<1>2. \A i \in 1..Len(q) : q[i] = uri[i]
  <2>1. \A i \in 1..Len(q) : SubSeq(q, 1, Len(q))[i] = q[i] /\ SubSeq(uri, 1, Len(q))[i] = uri[i]
    BY SMTT(30) DEF IsPrefix
  <2> QED
    BY <2>1 DEF IsPrefix
<1>3. ASSUME Len(p) <= Len(q) PROVE IsPrefix(p, q)
  <2>1. \A i \in 1..Len(p) : p[i] = q[i]
    BY <1>1, <1>2, <1>3
  <2>2. SubSeq(p, 1, Len(p)) = SubSeq(q, 1, Len(p))
    BY <1>3, <2>1
  <2> QED
    BY <1>3, <2>2 DEF IsPrefix
<1>4. ASSUME Len(p) = Len(q) PROVE p = q
  <2>1. \A i \in 1..Len(p) : p[i] = q[i]
    BY <1>1, <1>2, <1>4
  <2> QED
    BY <1>4, <2>1, SeqEqual
<1>5. ASSUME Less(p, q) PROVE IsPrefix(p, q)
  <2>1. CASE IsStrictPrefix(p, q)
    BY <2>1 DEF IsStrictPrefix
  <2>2. CASE \E i \in DOMAIN p \intersect DOMAIN q : p[i] < q[i]
    <3>1. PICK i \in 1..Len(p) : i \in 1..Len(q) /\ p[i] < q[i]
      <4>1. DOMAIN p = 1..Len(p) /\ DOMAIN q = 1..Len(q)
        BY LenProperties
      <4> QED
        BY <2>2, <4>1
    <3>2. p[i] = q[i] /\ p[i] \in Nat
      BY <1>1, <1>2, <3>1
    <3> QED
      BY <3>1, <3>2
  <2> QED
    BY <1>5, <2>1, <2>2 DEF Less
<1>6. ASSUME Len(p) < Len(q) PROVE Less(p, q)
  BY <1>3, <1>6 DEF Less, IsStrictPrefix
<1> QED
  BY <1>3, <1>4, <1>5, <1>6

\* The longest of some prefixes of a string.
LEMMA LongestOf ==
  ASSUME NEW uri \in Seq(Nat), NEW at \in SUBSET Seq(Nat), at # {},
         \A p \in at : IsPrefix(p, uri)
  PROVE  \E p \in at : \A q \in at : Len(q) <= Len(p)
<1> DEFINE rests == {Len(uri) - Len(p) : p \in at}
<1>1. \A p \in at : Len(p) \in Nat /\ Len(p) <= Len(uri) /\ Len(uri) \in Nat
  BY DEF IsPrefix
<1>2. rests \in SUBSET Nat /\ rests # {}
  BY <1>1
<1>3. PICK m \in rests : \A k \in rests : m <= k
  <2> HIDE DEF rests
  <2> QED
    BY <1>2, LeastOf
<1>4. PICK p \in at : m = Len(uri) - Len(p)
  BY <1>3
<1>5. \A q \in at : Len(uri) - Len(p) <= Len(uri) - Len(q)
  BY <1>3, <1>4
<1>6. \A q \in at : Len(q) <= Len(p)
  BY <1>1, <1>5
<1> QED
  BY <1>6

\* The look-up from the end of the map, in the order of strings, finds the
\* most specific location, for any tree of locations and any URI.
LEMMA LongestPrefixFound ==
  ASSUME NEW server, DOMAIN server.locations \subseteq Seq(Nat), NEW uri \in Seq(Nat),
         NEW p \in DOMAIN server.locations, IsPrefix(p, uri)
  PROVE  LET found == GetLocation(server, uri)
         IN  /\ found \in DOMAIN server.locations
             /\ IsPrefix(p, found) /\ IsPrefix(found, uri)
<1> DEFINE at == {q \in DOMAIN server.locations : IsPrefix(q, uri)}
           found == CHOOSE q \in at : \A r \in at : r = q \/ Less(r, q)
<1>1. at # {} /\ at \in SUBSET Seq(Nat) /\ \A q \in at : IsPrefix(q, uri)
  OBVIOUS
<1>2. GetLocation(server, uri) = found
  BY <1>1 DEF GetLocation
<1>3. p \in at /\ at \subseteq DOMAIN server.locations
  OBVIOUS
<1> HIDE DEF at
<1>4. PICK q \in at : \A r \in at : Len(r) <= Len(q)
  BY <1>1, LongestOf
<1>5. ASSUME NEW r \in at PROVE r = q \/ Less(r, q)
  <2>1. Len(r) <= Len(q) /\ Len(r) \in Nat /\ Len(q) \in Nat
    BY <1>1, <1>4, <1>5
  <2> QED
    BY <1>1, <1>4, <1>5, <2>1, PrefixesNest
<1>6. found \in at /\ \A r \in at : r = found \/ Less(r, found)
  BY <1>4, <1>5
<1> HIDE DEF found
<1>7. IsPrefix(p, found)
  <2>1. CASE p = found
    BY <1>1, <1>3, <2>1 DEF IsPrefix
  <2>2. CASE Less(p, found)
    BY <1>1, <1>3, <1>6, <2>2, PrefixesNest
  <2> QED
    BY <1>3, <1>6, <2>1, <2>2
<1> QED
  BY <1>1, <1>2, <1>3, <1>6, <1>7

-----------------------------------------------------------------------------
(* The order of the map.                                                   *)

\* Two strings differ first at k, where p ends or has the smaller character.
Differ(p, q, k) ==
  /\ k \in 1..Len(q) /\ k - 1 <= Len(p)
  /\ \A i \in 1..(k - 1) : p[i] = q[i]
  /\ k <= Len(p) => p[k] < q[k]

LEMMA LessDiffers ==
  ASSUME NEW p \in Seq(Nat), NEW q \in Seq(Nat)
  PROVE  Less(p, q) <=> \E k \in Nat : Differ(p, q, k)
<1>1. /\ Len(p) \in Nat /\ DOMAIN p = 1..Len(p) /\ \A i \in 1..Len(p) : p[i] \in Nat
      /\ Len(q) \in Nat /\ DOMAIN q = 1..Len(q) /\ \A i \in 1..Len(q) : q[i] \in Nat
  OBVIOUS
<1>2. ASSUME IsStrictPrefix(p, q) PROVE Differ(p, q, Len(p) + 1)
  <2>1. Len(p) <= Len(q) /\ SubSeq(p, 1, Len(p)) = SubSeq(q, 1, Len(p)) /\ p # q
    BY <1>2 DEF IsStrictPrefix, IsPrefix
  <2>2. \A i \in 1..Len(p) : p[i] = q[i]
    <3>1. \A i \in 1..Len(p) : SubSeq(p, 1, Len(p))[i] = p[i] /\ SubSeq(q, 1, Len(p))[i] = q[i]
      BY <2>1, SMTT(30)
    <3> QED
      BY <2>1, <3>1
  <2>3. Len(p) # Len(q)
    BY <2>1, <2>2, SeqEqual
  <2>4. Len(p) <= Len(q)
    BY <2>1
  <2>5. Len(p) + 1 \in 1..Len(q) /\ (Len(p) + 1) - 1 = Len(p)
    BY <2>3, <2>4
  <2> QED
    BY <1>1, <2>2, <2>5 DEF Differ
<1>3. ASSUME NEW i \in 1..Len(p), i \in 1..Len(q), p[i] < q[i],
             SubSeq(p, 1, i - 1) = SubSeq(q, 1, i - 1)
      PROVE  Differ(p, q, i)
  <2>1. \A j \in 1..(i - 1) : SubSeq(p, 1, i - 1)[j] = p[j] /\ SubSeq(q, 1, i - 1)[j] = q[j]
    BY <1>3
  <2>2. \A j \in 1..(i - 1) : p[j] = q[j]
    BY <1>3, <2>1
  <2> QED
    BY <1>1, <1>3, <2>2 DEF Differ
<1>4. ASSUME NEW k \in Nat, Differ(p, q, k) PROVE Less(p, q)
  <2>1. CASE k <= Len(p)
    <3>1. SubSeq(p, 1, k - 1) = SubSeq(q, 1, k - 1)
      BY <1>1, <1>4, <2>1 DEF Differ
    <3>2. k \in DOMAIN p \intersect DOMAIN q /\ p[k] < q[k]
      BY <1>1, <1>4, <2>1 DEF Differ
    <3> QED
      BY <3>1, <3>2 DEF Less
  <2>2. CASE k = Len(p) + 1
    <3>1. SubSeq(p, 1, Len(p)) = SubSeq(q, 1, Len(p)) /\ Len(p) < Len(q)
      BY <1>1, <1>4, <2>2 DEF Differ
    <3> QED
      BY <1>1, <3>1 DEF Less, IsStrictPrefix, IsPrefix
  <2> QED
    BY <1>1, <1>4, <2>1, <2>2 DEF Differ
<1>5. ASSUME Less(p, q) PROVE \E k \in Nat : Differ(p, q, k)
  <2>1. CASE IsStrictPrefix(p, q)
    <3>1. Len(p) + 1 \in Nat
      BY <1>1
    <3> QED
      BY <1>2, <2>1, <3>1
  <2>2. ASSUME NEW i \in DOMAIN p \intersect DOMAIN q, p[i] < q[i],
               SubSeq(p, 1, i - 1) = SubSeq(q, 1, i - 1)
        PROVE  \E k \in Nat : Differ(p, q, k)
    <3>1. i \in 1..Len(p) /\ i \in 1..Len(q) /\ i \in Nat
      BY <1>1
    <3> QED
      BY <1>3, <2>2, <3>1
  <2> QED
    BY <1>5, <2>1, <2>2 DEF Less
<1> QED
  BY <1>4, <1>5

\* It is a strict total order.
LEMMA LessOrders ==
  ASSUME NEW p \in Seq(Nat), NEW q \in Seq(Nat), NEW r \in Seq(Nat)
  PROVE  /\ ~(Less(p, q) /\ Less(q, p))
         /\ ~Less(p, p)
         /\ Less(p, q) /\ Less(q, r) => Less(p, r)
         /\ p = q \/ Less(p, q) \/ Less(q, p)
<1>1. /\ Len(p) \in Nat /\ \A i \in 1..Len(p) : p[i] \in Nat
      /\ Len(q) \in Nat /\ \A i \in 1..Len(q) : q[i] \in Nat
      /\ Len(r) \in Nat /\ \A i \in 1..Len(r) : r[i] \in Nat
  OBVIOUS
<1>2. ASSUME Less(p, q), Less(q, p) PROVE FALSE
  <2>1. PICK k \in Nat : Differ(p, q, k)
    BY <1>2, LessDiffers
  <2>2. PICK l \in Nat : Differ(q, p, l)
    BY <1>2, LessDiffers
  <2>3. k < l => FALSE
    BY <1>1, <2>1, <2>2, SMTT(30) DEF Differ
  <2>4. l < k => FALSE
    BY <1>1, <2>1, <2>2, SMTT(30) DEF Differ
  <2>5. k = l => FALSE
    BY <1>1, <2>1, <2>2, SMTT(30) DEF Differ
  <2> QED
    BY <2>3, <2>4, <2>5
<1>3. ~Less(p, p)
  <2>1. ASSUME NEW k \in Nat, Differ(p, p, k) PROVE FALSE
    BY <1>1, <2>1 DEF Differ
  <2> QED
    BY <2>1, LessDiffers
<1>4. ASSUME Less(p, q), Less(q, r) PROVE Less(p, r)
  <2>1. PICK k \in Nat : Differ(p, q, k)
    BY <1>4, LessDiffers
  <2>2. PICK l \in Nat : Differ(q, r, l)
    BY <1>4, LessDiffers
  <2>3. CASE k < l
    <3>1. Differ(p, r, k)
      BY <1>1, <2>1, <2>2, <2>3, SMTT(30) DEF Differ
    <3> QED
      BY <3>1, LessDiffers
  <2>4. CASE l < k
    <3>1. Differ(p, r, l)
      BY <1>1, <2>1, <2>2, <2>4, SMTT(60) DEF Differ
    <3> QED
      BY <3>1, LessDiffers
  <2>5. CASE k = l
    <3>1. k <= Len(p) => p[k] < r[k]
      BY <1>1, <2>1, <2>2, <2>5, SMTT(60) DEF Differ
    <3>2. Differ(p, r, k)
      BY <1>1, <2>1, <2>2, <2>5, <3>1 DEF Differ
    <3> QED
      BY <3>2, LessDiffers
  <2> QED
    BY <2>3, <2>4, <2>5
<1>5. ASSUME p # q PROVE Less(p, q) \/ Less(q, p)
  <2> DEFINE T == {k \in Nat : k >= 1 /\ (k > Len(p) \/ k > Len(q) \/ p[k] # q[k])}
  <2>1. Len(p) + 1 \in T /\ T \in SUBSET Nat
    BY <1>1
  <2>2. PICK k \in T : \A l \in T : k <= l
    <3> HIDE DEF T
    <3> QED
      BY <2>1, LeastOf
  <2>3. k \in Nat /\ k >= 1 /\ k <= Len(p) + 1 /\ \A i \in 1..(k - 1) : i \notin T
    BY <2>1, <2>2, SMTT(30)
  <2>4. \A i \in 1..(k - 1) : i <= Len(p) /\ i <= Len(q) /\ p[i] = q[i]
    BY <2>3, SMTT(30)
  <2>5. CASE k <= Len(p) /\ k <= Len(q)
    <3>1. p[k] < q[k] \/ q[k] < p[k]
      BY <1>1, <2>2, <2>3, <2>5, SMTT(30)
    <3>2. Differ(p, q, k) \/ Differ(q, p, k)
      BY <1>1, <2>3, <2>4, <2>5, <3>1, SMTT(30) DEF Differ
    <3> QED
      BY <2>3, <3>2, LessDiffers
  <2>6. CASE k <= Len(p) /\ k > Len(q)
    <3>1. Differ(q, p, k)
      BY <1>1, <2>3, <2>4, <2>6 DEF Differ
    <3> QED
      BY <2>3, <3>1, LessDiffers
  <2>7. CASE k > Len(p) /\ k <= Len(q)
    <3>1. Differ(p, q, k)
      BY <1>1, <2>3, <2>4, <2>7 DEF Differ
    <3> QED
      BY <2>3, <3>1, LessDiffers
  <2>8. CASE k > Len(p) /\ k > Len(q)
    <3>1. k - 1 = Len(p) /\ k - 1 = Len(q)
      <4>1. k - 1 <= Len(p)
        BY <1>1, <2>3
      <4>2. k - 1 <= Len(q)
        BY <1>1, <2>3, <2>4
      <4> QED
        BY <1>1, <2>3, <2>8, <4>1, <4>2
    <3>2. p = q
      BY <2>4, <3>1, SeqEqual
    <3> QED
      BY <1>5, <3>2
  <2> QED
    BY <1>1, <2>3, <2>5, <2>6, <2>7, <2>8
<1> QED
  BY <1>2, <1>3, <1>4, <1>5

\* Any finite number of strings can be put in order, in one way or more.
Sorted(s, paths) ==
  /\ s \in SetToSeqs(paths)
  /\ \A i, j \in DOMAIN s : i < j => Less(s[i], s[j])

LEMMA LastOfMap ==
  \A n \in Nat : \A paths \in SUBSET Seq(Nat) :
    IsFiniteSet(paths) /\ Cardinality(paths) = n + 1 =>
      \E p \in paths : \A q \in paths : q = p \/ Less(q, p)
<1> DEFINE Has(paths) == \E p \in paths : \A q \in paths : q = p \/ Less(q, p)
           T == {n \in Nat : \A paths \in SUBSET Seq(Nat) :
                   IsFiniteSet(paths) /\ Cardinality(paths) = n + 1 => Has(paths)}
<1>1. 0 \in T
  BY FS_Singleton
<1>2. ASSUME NEW n \in Nat, n \in T PROVE n + 1 \in T
  <2> SUFFICES ASSUME NEW paths \in SUBSET Seq(Nat), IsFiniteSet(paths),
                      Cardinality(paths) = n + 2
               PROVE  Has(paths)
    OBVIOUS
  <2>1. paths # {}
    BY FS_EmptySet
  <2>2. PICK p \in paths : TRUE
    BY <2>1
  <2>3. IsFiniteSet(paths \ {p}) /\ Cardinality(paths \ {p}) = n + 1
    <3>1. /\ IsFiniteSet(paths \ {p})
          /\ Cardinality(paths \ {p}) =
               IF p \in paths THEN Cardinality(paths) - 1 ELSE Cardinality(paths)
      BY FS_RemoveElement, Zenon
    <3> QED
      BY <2>2, <3>1
  <2>4. PICK q \in paths \ {p} : \A r \in paths \ {p} : r = q \/ Less(r, q)
    BY <1>2, <2>3
  <2>5. CASE Less(p, q)
    BY <2>4, <2>5
  <2>6. CASE ~Less(p, q)
    <3>1. p \in Seq(Nat) /\ q \in Seq(Nat) /\ p # q
      BY <2>4
    <3>2. Less(q, p)
      BY <2>6, <3>1, LessOrders
    <3>3. \A r \in paths : r = p \/ Less(r, p)
      BY <2>4, <3>1, <3>2, LessOrders
    <3> QED
      BY <3>3
  <2> QED
    BY <2>5, <2>6
<1>3. Nat \subseteq T
  <2> HIDE DEF T
  <2> QED
    BY <1>1, <1>2, SetInduction
<1> QED
  BY <1>3

LEMMA SortedExists ==
  \A n \in Nat : \A paths \in SUBSET Seq(Nat) :
    IsFiniteSet(paths) /\ Cardinality(paths) = n => \E s : Sorted(s, paths)
<1> DEFINE T == {n \in Nat : \A paths \in SUBSET Seq(Nat) :
                   IsFiniteSet(paths) /\ Cardinality(paths) = n => \E s : Sorted(s, paths)}
<1>1. 0 \in T
  <2> SUFFICES ASSUME NEW paths, IsFiniteSet(paths), Cardinality(paths) = 0
               PROVE  \E s : Sorted(s, paths)
    OBVIOUS
  <2> DEFINE s == [i \in 1..0 |-> {}]
  <2>1. paths = {} /\ s \in [1..0 -> paths] /\ DOMAIN s = {}
    BY FS_EmptySet
  <2>2. Sorted(s, paths)
    BY <2>1 DEF Sorted, SetToSeqs
  <2> QED
    BY <2>2
<1>2. ASSUME NEW n \in Nat, n \in T PROVE n + 1 \in T
  <2> SUFFICES ASSUME NEW paths \in SUBSET Seq(Nat), IsFiniteSet(paths),
                      Cardinality(paths) = n + 1
               PROVE  \E s : Sorted(s, paths)
    OBVIOUS
  <2>1. PICK p \in paths : \A q \in paths : q = p \/ Less(q, p)
    BY LastOfMap
  <2>2. IsFiniteSet(paths \ {p}) /\ Cardinality(paths \ {p}) = n
    <3>1. /\ IsFiniteSet(paths \ {p})
          /\ Cardinality(paths \ {p}) =
               IF p \in paths THEN Cardinality(paths) - 1 ELSE Cardinality(paths)
      BY FS_RemoveElement, Zenon
    <3> QED
      BY <2>1, <3>1
  <2>3. PICK t : Sorted(t, paths \ {p})
    BY <1>2, <2>2
  <2>4. /\ t \in [1..n -> paths \ {p}]
        /\ \A i, j \in 1..n : i # j => t[i] # t[j]
        /\ \A i, j \in 1..n : i < j => Less(t[i], t[j])
    BY <2>2, <2>3 DEF Sorted, SetToSeqs
  <2> DEFINE s == [i \in 1..(n + 1) |-> IF i = n + 1 THEN p ELSE t[i]]
  <2>5. s \in [1..(n + 1) -> paths]
    BY <2>4
  <2>6. \A i, j \in 1..(n + 1) : i # j => s[i] # s[j]
    BY <2>4
  <2>7. \A i, j \in 1..(n + 1) : i < j => Less(s[i], s[j])
    BY <2>1, <2>4
  <2> HIDE DEF s
  <2>8. Sorted(s, paths)
    BY <2>5, <2>6, <2>7 DEF Sorted, SetToSeqs
  <2> QED
    BY <2>8
<1>3. Nat \subseteq T
  <2> HIDE DEF T
  <2> QED
    BY <1>1, <1>2, SetInduction
<1> QED
  BY <1>3

\* Order lists each path once, and each after those that are less.
LEMMA Ordered ==
  ASSUME NEW paths \in SUBSET Seq(Nat), IsFiniteSet(paths)
  PROVE  LET s == Order(paths)
             n == Cardinality(paths)
         IN  /\ n \in Nat /\ s \in [1..n -> paths] /\ Len(s) = n
             /\ \A p \in paths : \E i \in 1..n : s[i] = p
             /\ \A i, j \in 1..n : i < j => Less(s[i], s[j])
<1> DEFINE s == Order(paths)
           n == Cardinality(paths)
<1>1. n \in Nat
  BY FS_CardinalityType
<1>2. \E t : Sorted(t, paths)
  BY <1>1, SortedExists
<1>3. Sorted(s, paths)
  BY <1>2 DEF Sorted, Order
<1> HIDE DEF s
<1>4. /\ s \in [1..n -> paths]
      /\ \A i, j \in 1..n : i # j => s[i] # s[j]
      /\ \A i, j \in 1..n : i < j => Less(s[i], s[j])
  BY <1>3 DEF Sorted, SetToSeqs
<1>5. s \in Injection(1..n, paths)
  BY <1>4 DEF Injection, IsInjective
<1>6. IsFiniteSet(1..n) /\ Cardinality(1..n) = n
  BY <1>1, FS_Interval
<1>7. s \in Surjection(1..n, paths)
  BY <1>5, <1>6, FS_Injection
<1>8. \A p \in paths : \E i \in 1..n : s[i] = p
  BY <1>7 DEF Surjection
<1>9. Len(s) = n
  BY <1>1, <1>4
<1> QED
  BY <1>1, <1>4, <1>8, <1>9 DEF s

-----------------------------------------------------------------------------
(* Completion.                                                             *)

LEMMA CompletedFromType ==
  ASSUME NEW parent \in Settings, NEW set \in Settings
  PROVE  CompletedFrom(parent, set) \in Settings
BY DEF CompletedFrom, Settings

\* What the locations say while they have their turns, as a function that meets
\* its equation: start says what they say before, above[p] is where p takes
\* what it does not say.
TakesTurns(turns, A, start, n, order, above) ==
  turns = [i \in 0..n |->
            IF i = 0 THEN start
            ELSE [turns[i - 1] EXCEPT
                    ![order[i]] = CompletedFrom(turns[i - 1][above[order[i]]], @)]]

LEMMA TurnsExist ==
  ASSUME NEW A, NEW start \in [A -> Settings], NEW n \in Nat, NEW order \in [1..n -> A],
         NEW above \in [A -> A]
  PROVE  \E turns \in [0..n -> [A -> Settings]] : TakesTurns(turns, A, start, n, order, above)
<1> DEFINE S == 0..n
           V == [A -> Settings]
           size == [i \in S |-> i]
           next == [i \in S |-> IF i = 0 THEN 0 ELSE i - 1]
           given == [i \in S |-> start]
           step == [i \in S |-> [v \in V |->
                      IF i = 0 THEN v
                      ELSE [v EXCEPT ![order[i]] = CompletedFrom(v[above[order[i]]], v[order[i]])]]]
<1>1. size \in [S -> Nat] /\ next \in [S -> S] /\ {0} \in SUBSET S /\ given \in [S -> V]
  OBVIOUS
<1>2. step \in [S -> [V -> V]]
  <2>1. ASSUME NEW i \in S, NEW v \in V, i # 0
        PROVE  [v EXCEPT ![order[i]] = CompletedFrom(v[above[order[i]]], v[order[i]])] \in V
    <3>1. i \in 1..n
      BY <2>1
    <3>2. order[i] \in A /\ above[order[i]] \in A
      BY <3>1
    <3>3. CompletedFrom(v[above[order[i]]], v[order[i]]) \in Settings
      BY <3>2, CompletedFromType
    <3> QED
      BY <3>2, <3>3
  <2> QED
    BY <2>1
<1>3. \A i \in S \ {0} : size[next[i]] < size[i]
  OBVIOUS
<1>4. \A i \in S : /\ given[i] = start /\ next[i] = IF i = 0 THEN 0 ELSE i - 1
                   /\ \A v \in V : i # 0 => step[i][v] =
                        [v EXCEPT ![order[i]] = CompletedFrom(v[above[order[i]]], v[order[i]])]
  OBVIOUS
<1> HIDE DEF size, next, given, step
<1>5. PICK g \in [S -> V] : \A i \in S : Recursive(g, i, {0}, given, next, step)
  <2> HIDE DEF S, V
  <2> QED
    BY <1>1, <1>2, <1>3, RecursionExists, ZenonT(60)
<1>6. \A i \in S : g[i] = IF i = 0 THEN start
                          ELSE [g[i - 1] EXCEPT
                                  ![order[i]] = CompletedFrom(g[i - 1][above[order[i]]], @)]
  <2> SUFFICES ASSUME NEW i \in S
               PROVE  g[i] = IF i = 0 THEN start
                             ELSE [g[i - 1] EXCEPT
                                     ![order[i]] = CompletedFrom(g[i - 1][above[order[i]]], @)]
    OBVIOUS
  <2>1. CASE i = 0
    BY <1>4, <1>5, <2>1 DEF Recursive
  <2>2. CASE i # 0
    <3>1. next[i] = i - 1 /\ i - 1 \in S /\ g[i - 1] \in V
      BY <1>4, <2>2
    <3>2. g[i] = step[i][g[i - 1]]
      BY <1>5, <2>2, <3>1 DEF Recursive
    <3> QED
      BY <1>4, <2>2, <3>1, <3>2
  <2> QED
    BY <2>1, <2>2
<1>7. TakesTurns(g, A, start, n, order, above)
  BY <1>6 DEF TakesTurns
<1> QED
  BY <1>5, <1>7

\* Each comes once, after the one above it.
InTurn(A, root, start, n, order, above) ==
  /\ root \in A /\ start \in [A -> Settings] /\ n \in Nat
  /\ order \in [1..n -> A] /\ above \in [A -> A]
  /\ \A i \in 1..n : order[i] # root
  /\ \A i, j \in 1..n : i # j => order[i] # order[j]
  /\ \A i \in 1..n : above[order[i]] = root \/ \E j \in 1..(i - 1) : above[order[i]] = order[j]

Taken(turns, root, start, n, order, above) ==
  /\ turns[n][root] = start[root]
  /\ \A i \in 1..n :
       turns[n][order[i]] = CompletedFrom(turns[n][above[order[i]]], start[order[i]])

\* When each comes once, after the one above it, every location has in the end
\* what it said and the rest from what the one above it has in the end.
LEMMA TurnsTaken ==
  ASSUME NEW A, NEW root, NEW start, NEW n, NEW order, NEW above,
         InTurn(A, root, start, n, order, above), NEW turns \in [0..n -> [A -> Settings]],
         TakesTurns(turns, A, start, n, order, above)
  PROVE  Taken(turns, root, start, n, order, above)
<1> DEFINE Done(k) ==
             /\ turns[k][root] = start[root]
             /\ \A i \in 1..n :
                  turns[k][order[i]] =
                    IF i > k THEN start[order[i]]
                    ELSE CompletedFrom(turns[k][above[order[i]]], start[order[i]])
           T == {k \in Nat : k <= n => Done(k)}
<1> USE DEF InTurn
<1>1. turns[0] = start
  BY DEF TakesTurns
<1>2. 0 \in T
  BY <1>1
<1>3. ASSUME NEW k \in Nat, k \in T PROVE k + 1 \in T
  <2> SUFFICES ASSUME k + 1 <= n PROVE Done(k + 1)
    OBVIOUS
  <2> DEFINE m == k + 1
             p == order[m]
  <2>1. Done(k) /\ k \in 0..n /\ m \in 1..n /\ p \in A /\ m \in 0..n /\ m # 0 /\ m - 1 = k
    BY <1>3
  <2>2. turns[m] = [turns[k] EXCEPT ![p] = CompletedFrom(turns[k][above[p]], turns[k][p])]
    <3>1. turns[m] = IF m = 0 THEN start
                     ELSE [turns[m - 1] EXCEPT
                             ![p] = CompletedFrom(turns[m - 1][above[p]], @)]
      BY <2>1, ZenonT(60) DEF TakesTurns
    <3> HIDE DEF m, p
    <3> QED
      BY <2>1, <3>1
  <2>3. turns[k] \in [A -> Settings]
    BY <2>1
  <2>4. /\ turns[m][p] = CompletedFrom(turns[k][above[p]], turns[k][p])
        /\ \A q \in A : q # p => turns[m][q] = turns[k][q]
    BY <2>1, <2>2, <2>3
  <2>5. ASSUME NEW i \in 1..n, i <= m
        PROVE  above[order[i]] # p /\ above[order[i]] \in A
    <3>1. order[i] \in A
      OBVIOUS
    <3>2. CASE above[order[i]] = root
      BY <2>1, <3>1, <3>2
    <3>3. ASSUME NEW j \in 1..(i - 1), above[order[i]] = order[j] PROVE order[j] # p
      BY <2>1, <2>5, <3>3
    <3> QED
      BY <2>1, <3>1, <3>2, <3>3
  <2>6. turns[m][root] = start[root]
    BY <2>1, <2>4
  <2>7. ASSUME NEW i \in 1..n
        PROVE  turns[m][order[i]] =
                 IF i > m THEN start[order[i]]
                 ELSE CompletedFrom(turns[m][above[order[i]]], start[order[i]])
    <3>1. CASE i > m
      <4>1. order[i] # p /\ order[i] \in A /\ i > k
        BY <2>1, <3>1
      <4> QED
        BY <2>1, <2>4, <3>1, <4>1
    <3>2. CASE i = m
      <4>1. turns[m][above[p]] = turns[k][above[p]]
        BY <2>4, <2>5, <3>2
      <4>2. turns[k][p] = start[p]
        BY <2>1
      <4> QED
        BY <2>4, <3>2, <4>1, <4>2
    <3>3. CASE i < m
      <4>1. order[i] # p /\ order[i] \in A /\ ~(i > k) /\ ~(i > m)
        BY <2>1, <3>3
      <4>2. turns[m][above[order[i]]] = turns[k][above[order[i]]]
        BY <2>4, <2>5, <3>3
      <4> QED
        BY <2>1, <2>4, <4>1, <4>2
    <3> QED
      BY <2>1, <3>1, <3>2, <3>3
  <2> QED
    BY <2>6, <2>7
<1>4. Nat \subseteq T
  <2> HIDE DEF T
  <2> QED
    BY <1>2, <1>3, SetInduction
<1>5. Done(n)
  BY <1>4
<1> QED
  BY <1>5 DEF Taken

LEMMA TurnsUnique ==
  ASSUME NEW A, NEW start, NEW n \in Nat, NEW order, NEW above, NEW g, NEW h,
         TakesTurns(g, A, start, n, order, above), TakesTurns(h, A, start, n, order, above)
  PROVE  g = h
<1> DEFINE T == {k \in Nat : k <= n => g[k] = h[k]}
<1>1. 0 \in T
  BY DEF TakesTurns
<1>2. ASSUME NEW k \in Nat, k \in T PROVE k + 1 \in T
  <2> SUFFICES ASSUME k + 1 <= n PROVE g[k + 1] = h[k + 1]
    OBVIOUS
  <2>1. g[k] = h[k] /\ k + 1 \in 0..n /\ k + 1 # 0 /\ (k + 1) - 1 = k
    BY <1>2
  <2>2. \A f : TakesTurns(f, A, start, n, order, above) =>
          f[k + 1] = [f[k] EXCEPT ![order[k + 1]] = CompletedFrom(f[k][above[order[k + 1]]], @)]
    <3> SUFFICES ASSUME NEW f, TakesTurns(f, A, start, n, order, above)
                 PROVE  f[k + 1] = [f[k] EXCEPT ![order[k + 1]] =
                                      CompletedFrom(f[k][above[order[k + 1]]], @)]
      OBVIOUS
    <3>1. \A i \in 0..n : f[i] = IF i = 0 THEN start
                                ELSE [f[i - 1] EXCEPT
                                        ![order[i]] = CompletedFrom(f[i - 1][above[order[i]]], @)]
      BY DEF TakesTurns
    <3> QED
      BY <2>1, <3>1
  <2> QED
    BY <2>1, <2>2
<1>3. Nat \subseteq T
  <2> HIDE DEF T
  <2> QED
    BY <1>1, <1>2, SetInduction
<1>4. \A k \in 0..n : g[k] = h[k]
  BY <1>3
<1>5. /\ g = [i \in 0..n |-> g[i]] /\ h = [i \in 0..n |-> h[i]]
  BY Zenon DEF TakesTurns
<1> QED
  BY <1>4, <1>5

\* Where the blocks lie in each other, each below its parent.
Tree(locs) ==
  /\ IsFiniteSet(DOMAIN locs) /\ DOMAIN locs \subseteq Paths \union {Root}
  /\ \A p \in DOMAIN locs : locs[p] \in Blocks /\ locs[p].path = p
  /\ \A p \in DOMAIN locs \ {Root} :
       locs[p].parent \in DOMAIN locs \union {Root} /\ IsStrictPrefix(locs[p].parent, p)

\* What completion makes of such a tree: each block takes what it does not say
\* from what its parent says in the end.
Inherits(c, set, locs) ==
  /\ DOMAIN c = DOMAIN locs \union {Root}
  /\ c[Root] = [NewBlock(Root, <<>>) EXCEPT !.set = CompletedFrom(Default, set)]
  /\ \A p \in DOMAIN locs \ {Root} :
       c[p] = [locs[p] EXCEPT !.set = CompletedFrom(c[locs[p].parent].set, locs[p].set)]
  /\ \A p \in DOMAIN c : c[p].set \in Settings

LEMMA CompletionInherits ==
  ASSUME NEW set \in Settings, NEW locs, Tree(locs)
  PROVE  Inherits(Completed(set, locs), set, locs)
<1> DEFINE base == [NewBlock(Root, <<>>) EXCEPT !.set = CompletedFrom(Default, set)]
           A == DOMAIN locs \union {Root}
           all == [p \in A |-> IF p = Root THEN base ELSE locs[p]]
           order == Order(DOMAIN all \ {Root})
           said[i \in 0..Len(order)] ==
             IF i = 0 THEN [p \in DOMAIN all |-> all[p].set]
             ELSE [said[i - 1] EXCEPT
                     ![order[i]] = CompletedFrom(said[i - 1][all[order[i]].parent], @)]
           c == Completed(set, locs)
           n == Len(order)
           start == [p \in DOMAIN all |-> all[p].set]
           above == [p \in A |-> IF p = Root THEN Root ELSE all[p].parent]
<1>1. c = [p \in DOMAIN all |-> [all[p] EXCEPT !.set = said[Len(order)][p]]]
  BY Zenon DEF Completed
<1>2. DOMAIN all = A /\ all[Root] = base /\ \A p \in DOMAIN locs \ {Root} : all[p] = locs[p]
  OBVIOUS
<1>3. base.set \in Settings /\ base.set = CompletedFrom(Default, set)
  <2>1. Default \in Settings
    BY FieldsAssumption DEF Settings
  <2>2. CompletedFrom(Default, set) \in Settings
    BY <2>1, CompletedFromType
  <2> QED
    BY <2>2 DEF NewBlock
<1>4. \A p \in A : all[p].set \in Settings
  BY <1>2, <1>3 DEF Tree, Blocks
<1>5. /\ n \in Nat /\ order \in [1..n -> A \ {Root}]
      /\ \A p \in A \ {Root} : \E i \in 1..n : order[i] = p
      /\ \A i, j \in 1..n : i < j => Less(order[i], order[j])
  <2>1. IsFiniteSet(A \ {Root}) /\ A \ {Root} \in SUBSET Seq(Nat)
    <3>1. A \ {Root} = DOMAIN locs \ {Root}
      OBVIOUS
    <3>2. IsFiniteSet(DOMAIN locs \ {Root})
      BY FS_RemoveElement DEF Tree
    <3> QED
      BY <3>1, <3>2, PathsAssumption DEF Tree
  <2> HIDE DEF order
  <2>2. order = Order(A \ {Root})
    BY <1>2 DEF order
  <2> HIDE DEF A
  <2> QED
    BY <2>1, <2>2, Ordered
<1> HIDE DEF order, n
<1>6. start \in [A -> Settings] /\ above \in [A -> A]
  BY <1>2, <1>4 DEF Tree
<1>7. \A i \in 1..n : above[order[i]] = all[order[i]].parent
  BY <1>5
<1>8. \A i, j \in 1..n : i # j => order[i] # order[j]
  <2> SUFFICES ASSUME NEW i \in 1..n, NEW j \in 1..n, i < j PROVE order[i] # order[j]
    BY <1>5
  <2>1. Less(order[i], order[j]) /\ order[i] \in Seq(Nat)
    BY <1>5, PathsAssumption DEF Tree
  <2> QED
    BY <2>1, LessOrders
<1>9. ASSUME NEW i \in 1..n
      PROVE  above[order[i]] = Root \/ \E j \in 1..(i - 1) : above[order[i]] = order[j]
  <2>1. order[i] \in DOMAIN locs \ {Root} /\ above[order[i]] = locs[order[i]].parent
    BY <1>2, <1>5
  <2>2. CASE above[order[i]] # Root
    <3>1. above[order[i]] \in A \ {Root} /\ Less(above[order[i]], order[i])
      BY <2>1, <2>2 DEF Tree, Less
    <3>2. PICK j \in 1..n : order[j] = above[order[i]]
      BY <1>5, <3>1
    <3>3. order[i] \in Seq(Nat) /\ order[j] \in Seq(Nat)
      BY <2>1, <3>1, <3>2, PathsAssumption DEF Tree
    <3>4. ~Less(order[i], order[j]) /\ order[i] # order[j]
      BY <3>1, <3>2, <3>3, LessOrders
    <3>5. j < i
      BY <1>5, <3>4
    <3>6. j \in 1..(i - 1)
      BY <1>5, <3>5
    <3> QED
      BY <3>2, <3>6
  <2> QED
    BY <2>2
<1>10. said \in [0..n -> [A -> Settings]] /\ TakesTurns(said, A, start, n, order, above)
  <2>1. order \in [1..n -> A]
    BY <1>5
  <2>2. PICK g \in [0..n -> [A -> Settings]] : TakesTurns(g, A, start, n, order, above)
    <3> HIDE DEF A, start, above, n, order
    <3> QED
      BY <1>5, <1>6, <2>1, TurnsExist
  <2>3. \A h : TakesTurns(h, A, start, n, order, above) <=>
          h = [i \in 0..Len(order) |->
                IF i = 0 THEN [p \in DOMAIN all |-> all[p].set]
                ELSE [h[i - 1] EXCEPT
                        ![order[i]] = CompletedFrom(h[i - 1][all[order[i]].parent], @)]]
    <3> SUFFICES ASSUME NEW h
                 PROVE  [i \in 0..n |->
                          IF i = 0 THEN start
                          ELSE [h[i - 1] EXCEPT
                                  ![order[i]] = CompletedFrom(h[i - 1][above[order[i]]], @)]]
                      = [i \in 0..n |->
                          IF i = 0 THEN start
                          ELSE [h[i - 1] EXCEPT
                                  ![order[i]] = CompletedFrom(h[i - 1][all[order[i]].parent], @)]]
      BY Zenon DEF TakesTurns, n
    <3>1. \A i \in 0..n : i # 0 => above[order[i]] = all[order[i]].parent
      BY <1>5, <1>7
    <3> HIDE DEF start, above, order, all
    <3> QED
      BY <3>1
  <2> HIDE DEF A, start, above, n, order, all
  <2>4. said = [i \in 0..Len(order) |->
                IF i = 0 THEN [p \in DOMAIN all |-> all[p].set]
                ELSE [said[i - 1] EXCEPT
                        ![order[i]] = CompletedFrom(said[i - 1][all[order[i]].parent], @)]]
    BY <2>2, <2>3, Zenon DEF said, n
  <2> HIDE DEF said
  <2>5. TakesTurns(said, A, start, n, order, above)
    BY <2>3, <2>4, Zenon
  <2>6. said = g
    BY <1>5, <2>2, <2>5, TurnsUnique
  <2> QED
    BY <2>2, <2>5, <2>6
<1> HIDE DEF said
<1>11. /\ said[n][Root] = start[Root]
       /\ \A i \in 1..n :
            said[n][order[i]] = CompletedFrom(said[n][above[order[i]]], start[order[i]])
  <2>1. Root \in A /\ order \in [1..n -> A] /\ \A i \in 1..n : order[i] # Root
    BY <1>5
  <2> HIDE DEF A, start, above, n, order
  <2>2. InTurn(A, Root, start, n, order, above)
    BY <1>5, <1>6, <1>8, <1>9, <2>1 DEF InTurn
  <2> QED
    <3>1. Taken(said, Root, start, n, order, above)
      BY <1>10, <2>2, TurnsTaken
    <3> QED
      BY <3>1 DEF Taken
<1>12. \A p \in A : said[n][p] \in Settings
  BY <1>5, <1>10
<1>13. \A p \in DOMAIN locs \ {Root} :
         said[n][p] = CompletedFrom(said[n][locs[p].parent], locs[p].set)
  <2> SUFFICES ASSUME NEW p \in DOMAIN locs \ {Root}
               PROVE  said[n][p] = CompletedFrom(said[n][locs[p].parent], locs[p].set)
    OBVIOUS
  <2>1. PICK i \in 1..n : order[i] = p
    BY <1>5
  <2>2. above[p] = locs[p].parent /\ start[p] = locs[p].set
    BY <1>2
  <2> QED
    BY <1>11, <2>1, <2>2
<1>14. c = [p \in A |-> [all[p] EXCEPT !.set = said[n][p]]]
  BY <1>1, <1>2 DEF n
<1>15. said[n][Root] = base.set
  BY <1>2, <1>11
<1> HIDE DEF c, n, order, start, above, all
<1>16. \A p \in DOMAIN locs \ {Root} : locs[p] \in Blocks /\ locs[p].parent \in A
  BY DEF Tree
<1>17. DOMAIN c = A /\ c[Root] = [base EXCEPT !.set = base.set]
  BY <1>2, <1>14, <1>15
<1>18. \A p \in DOMAIN locs \ {Root} : c[p] = [locs[p] EXCEPT !.set = said[n][p]]
  BY <1>2, <1>14
<1>19. \A p \in A : c[p].set = said[n][p]
  <2>1. ASSUME NEW p \in DOMAIN locs \ {Root} PROVE c[p].set = said[n][p]
    BY <1>16, <1>18 DEF Blocks
  <2>2. c[Root].set = said[n][Root]
    BY <1>15, <1>17 DEF NewBlock
  <2> QED
    BY <2>1, <2>2
<1>20. c[Root] = base
  BY <1>17 DEF NewBlock
<1> QED
  BY <1>12, <1>13, <1>16, <1>17, <1>18, <1>19, <1>20, ZenonT(60)
     DEF c, Inherits

LEMMA StrictPrefixShorter ==
  ASSUME NEW p \in Seq(Nat), NEW q \in Seq(Nat), IsStrictPrefix(p, q)
  PROVE  Len(p) < Len(q)
<1>1. Len(p) <= Len(q) /\ p # q
  BY SMTT(30) DEF IsStrictPrefix, IsPrefix
<1>2. Len(p) # Len(q)
  <2>1. SubSeq(p, 1, Len(p)) = SubSeq(q, 1, Len(p))
    BY DEF IsStrictPrefix, IsPrefix
  <2>2. SubSeq(p, 1, Len(p)) = p /\ SubSeq(q, 1, Len(q)) = q
    OBVIOUS
  <2> QED
    BY <1>1, <2>1, <2>2
<1> QED
  BY <1>1, <1>2

\* So a field that has a default is set in every location, however deep.
LEMMA DefaultsReach ==
  ASSUME NEW set \in Settings, NEW locs, Tree(locs), NEW f \in Fields, Default[f] # Unset,
         NEW p \in DOMAIN locs \union {Root}
  PROVE  Completed(set, locs)[p].set[f] # Unset
<1> DEFINE c == Completed(set, locs)
           A == DOMAIN locs \union {Root}
           size == [q \in A |-> Len(q)]
           T == {q \in A : c[q].set[f] # Unset}
<1>1. /\ c[Root] = [NewBlock(Root, <<>>) EXCEPT !.set = CompletedFrom(Default, set)]
      /\ \A q \in DOMAIN locs \ {Root} :
           c[q] = [locs[q] EXCEPT !.set = CompletedFrom(c[locs[q].parent].set, locs[q].set)]
  <2>1. Inherits(c, set, locs)
    BY CompletionInherits
  <2> QED
    BY <2>1, Zenon DEF Inherits
<1> HIDE DEF c
<1>2. c[Root].set = CompletedFrom(Default, set)
  BY <1>1 DEF NewBlock
<1>3. Root \in T
  BY <1>2 DEF CompletedFrom
<1>4. ASSUME NEW q \in A, \A r \in A : size[r] < size[q] => r \in T
      PROVE  q \in T
  <2>1. CASE q # Root
    <3>1. q \in DOMAIN locs \ {Root} /\ locs[q] \in Blocks
      BY <2>1 DEF Tree
    <3>2. locs[q].parent \in A /\ IsStrictPrefix(locs[q].parent, q)
      BY <3>1 DEF Tree
    <3>3. locs[q].parent \in Seq(Nat) /\ q \in Seq(Nat)
      BY <3>1, <3>2, PathsAssumption DEF Tree
    <3>4. size[locs[q].parent] < size[q]
      BY <3>2, <3>3, StrictPrefixShorter
    <3>5. c[locs[q].parent].set[f] # Unset
      BY <1>4, <3>2, <3>4
    <3>6. c[q].set = CompletedFrom(c[locs[q].parent].set, locs[q].set)
      BY <1>1, <3>1 DEF Blocks
    <3> QED
      BY <3>5, <3>6 DEF CompletedFrom
  <2> QED
    BY <1>3, <2>1
<1>5. size \in [A -> Nat]
  BY PathsAssumption DEF Tree
<1>6. A \subseteq T
  <2> HIDE DEF T, size, A
  <2> QED
    BY <1>4, <1>5, SizeInduction
<1> QED
  BY <1>6 DEF c

-----------------------------------------------------------------------------
(* The blocks of a file.                                                   *)

\* The blocks as parsed so far.
BlocksParsed ==
  /\ status \in {"parsing", "loaded", "failed"}
  /\ stack \in Seq(Blocks)
  /\ listen \subseteq Addrs /\ names \subseteq Names
  /\ IsFiniteSet(DOMAIN locations)
  /\ \A p \in DOMAIN locations : locations[p] \in Blocks /\ locations[p].path = p

\* A server that was read is the completion of what its blocks say, a tree
\* that completion could complete.
Loaded(server, said) ==
  /\ said.set \in Settings /\ Tree(said.locations)
  /\ server.locations = Completed(said.set, said.locations)
  /\ ~CompletionFails(said.set, said.locations)

FileInv ==
  /\ BlocksParsed
  /\ \A i \in 1..Len(servers) : Loaded(servers[i], declared[i])

LEMMA InitFile == Init => FileInv
<1> SUFFICES ASSUME Init PROVE FileInv
  OBVIOUS
<1>1. DOMAIN locations = {} /\ stack \in Seq(Blocks) /\ Len(servers) = 0
  BY DEF Init
<1>2. IsFiniteSet(DOMAIN locations)
  BY <1>1, FS_EmptySet
<1> QED
  BY <1>1, <1>2 DEF Init, FileInv, BlocksParsed

\* Steps that leave the servers alone.
LEMMA KeepsFile ==
  ASSUME FileInv, UNCHANGED <<servers, declared>>, BlocksParsed'
  PROVE  FileInv'
BY DEF FileInv

LEMMA FailKeepsFile ==
  ASSUME FileInv, Fail
  PROVE  FileInv'
BY KeepsFile DEF FileInv, BlocksParsed, Fail

\* A path or a set of words is typed, so a block the parser changes is one.
LEMMA TopType ==
  ASSUME stack \in Seq(Blocks), stack # <<>>
  PROVE  /\ Len(stack) \in Nat /\ Len(stack) >= 1 /\ Top = stack[Len(stack)] /\ Top \in Blocks
         /\ Top.path \in Paths \union {Root} /\ Top.set \in Settings
<1>1. Len(stack) \in Nat /\ Len(stack) >= 1 /\ Top = stack[Len(stack)] /\ Top \in Blocks
  BY DEF Top
<1> QED
  BY <1>1 DEF Blocks

LEMMA ParseFile ==
  ASSUME FileInv,
         \/ ParseServer
         \/ \E path \in Paths : ParseLocation(path)
         \/ \E a \in Addrs : ParseListen(a)
         \/ \E m \in Names : ParseServerName(m)
  PROVE  FileInv'
<1> USE DEF FileInv, BlocksParsed
<1>1. CASE ParseServer
  <2>1. NewBlock(Root, <<>>) \in Blocks
    BY NewBlockKnown
  <2>2. stack' \in Seq(Blocks)
    BY <1>1, <2>1 DEF ParseServer
  <2>3. IsFiniteSet(DOMAIN locations') /\ DOMAIN locations' = {}
    BY <1>1, FS_EmptySet DEF ParseServer
  <2>4. /\ UNCHANGED <<status, servers, declared>> /\ listen' = {} /\ names' = {}
    BY <1>1 DEF ParseServer
  <2>5. BlocksParsed'
    BY <2>2, <2>3, <2>4
  <2> HIDE DEF FileInv, BlocksParsed
  <2> QED
    BY <2>4, <2>5, KeepsFile
<1>2. ASSUME NEW path \in Paths, ParseLocation(path) PROVE FileInv'
  <2>1. CASE IsPrefix(Top.path, path)
    <3>1. stack # <<>> /\ stack' = Append(stack, NewBlock(path, Top.path))
      BY <1>2, <2>1 DEF ParseLocation
    <3>2. NewBlock(path, Top.path) \in Blocks
      BY <3>1, TopType, NewBlockKnown
    <3>3. stack' \in Seq(Blocks)
      BY <3>1, <3>2
    <3>4. UNCHANGED <<status, listen, names, locations, servers, declared>>
      BY <1>2, <2>1 DEF ParseLocation
    <3> QED
      BY <3>3, <3>4, KeepsFile
  <2>2. CASE ~IsPrefix(Top.path, path)
    BY <1>2, <2>2, FailKeepsFile DEF ParseLocation
  <2> QED
    BY <2>1, <2>2
<1>3. ASSUME NEW a \in Addrs, ParseListen(a) PROVE FileInv'
  <2>1. Fail \/ /\ listen' = listen \union {a}
                /\ UNCHANGED <<status, stack, names, locations, servers, declared>>
    BY <1>3 DEF ParseListen
  <2> QED
    BY <2>1, FailKeepsFile, KeepsFile
<1>4. ASSUME NEW m \in Names, ParseServerName(m) PROVE FileInv'
  <2>1. Fail \/ /\ names' = names \union {m}
                /\ UNCHANGED <<status, stack, listen, locations, servers, declared>>
    BY <1>4 DEF ParseServerName
  <2> QED
    BY <2>1, FailKeepsFile, KeepsFile
<1> QED
  BY <1>1, <1>2, <1>3, <1>4

LEMMA FieldFile ==
  ASSUME FileInv, NEW f \in Fields, NEW word \in Words, ParseField(f, word)
  PROVE  FileInv'
<1> DEFINE n == Len(stack)
           fails == Top.set[f] # Unset /\ Kind[f] \in {"once", "cgi"}
           said == IF Kind[f] = "many" THEN Top.set[f] \union {word} ELSE {word}
           block == [Top EXCEPT !.set = [Top.set EXCEPT ![f] = said]]
<1>1. CASE fails
  BY <1>1, FailKeepsFile DEF ParseField
<1>2. CASE ~fails
  <2>1. /\ stack' = [stack EXCEPT ![n].set[f] =
                       IF Kind[f] = "many" THEN @ \union {word} ELSE {word}]
        /\ stack # <<>>
        /\ UNCHANGED <<status, listen, names, locations, servers, declared>>
    BY <1>2 DEF ParseField
  <2>2. stack \in Seq(Blocks)
    BY DEF FileInv, BlocksParsed
  <2>3. n \in Nat /\ n >= 1 /\ Top = stack[n] /\ Top \in Blocks /\ Top.set \in Settings
    BY <2>1, <2>2, TopType
  <2>4. stack' = [stack EXCEPT ![n] = block]
    BY <2>1, <2>3
  <2>5. said \in SUBSET Words
    BY <2>3 DEF Settings
  <2> HIDE DEF said
  <2>6. [Top.set EXCEPT ![f] = said] \in Settings
    BY <2>3, <2>5 DEF Settings
  <2>7. block \in Blocks
    BY <2>3, <2>6 DEF Blocks
  <2> HIDE DEF block
  <2>8. stack' \in Seq(Blocks)
    BY <2>2, <2>3, <2>4, <2>7
  <2> QED
    BY <2>1, <2>8, KeepsFile DEF FileInv, BlocksParsed
<1> QED
  BY <1>1, <1>2

LEMMA LocationEndsFile ==
  ASSUME FileInv, LocationEnds
  PROVE  FileInv'
<1>1. CASE Top.path \in DOMAIN locations
  BY <1>1, FailKeepsFile DEF LocationEnds
<1>2. CASE Top.path \notin DOMAIN locations
  <2>1. /\ locations' = [p \in DOMAIN locations \union {Top.path} |->
                           IF p = Top.path THEN Top ELSE locations[p]]
        /\ stack' = Front(stack) /\ Len(stack) > 1
        /\ UNCHANGED <<status, listen, names, servers, declared>>
    BY <1>2 DEF LocationEnds
  <2>2. stack \in Seq(Blocks) /\ stack # <<>>
    BY <2>1 DEF FileInv, BlocksParsed
  <2>3. Top \in Blocks /\ Len(stack) \in Nat
    BY <2>2, TopType
  <2>4. stack' \in Seq(Blocks)
    BY <2>1, <2>2 DEF Front
  <2>5. IsFiniteSet(DOMAIN locations')
    <3>1. DOMAIN locations' = DOMAIN locations \union {Top.path}
      BY <2>1
    <3>2. IsFiniteSet(DOMAIN locations)
      BY DEF FileInv, BlocksParsed
    <3>3. IsFiniteSet(DOMAIN locations \union {Top.path})
      BY <3>2, FS_AddElement, Zenon
    <3> QED
      BY <3>1, <3>3
  <2>6. \A p \in DOMAIN locations' : locations'[p] \in Blocks /\ locations'[p].path = p
    BY <2>1, <2>3 DEF FileInv, BlocksParsed
  <2> QED
    BY <2>1, <2>4, <2>5, <2>6, KeepsFile DEF FileInv, BlocksParsed
<1> QED
  BY <1>1, <1>2

\* At the end of a server's block no location is open, so its locations are a
\* tree.
LEMMA ServerBlockTree ==
  ASSUME ParserInv, FileInv, status = "parsing", InServerBlock
  PROVE  Tree(locations) /\ Top.set \in Settings
<1>1. StackNested /\ ParentsKnown /\ stack \in Seq(Blocks) /\ Len(stack) = 1 /\ stack # <<>>
  BY DEF ParserInv, StackNested, InServerBlock
<1>2. stack[1].path = Root
  BY <1>1 DEF StackNested
<1>3. \A q : Open(stack, q) => q = Root
  BY <1>1, <1>2 DEF Open
<1>4. \A p \in DOMAIN locations :
        /\ p \in Paths \union {Root}
        /\ IsPrefix(locations[p].parent, p)
        /\ locations[p].parent \in DOMAIN locations \union {Root}
        /\ locations[p].parent = p => p = Root
  BY <1>1, <1>3 DEF ParentsKnown
<1> QED
  BY <1>1, <1>4, TopType DEF Tree, FileInv, BlocksParsed, IsStrictPrefix

LEMMA ServerEndsFile ==
  ASSUME ParserInv, FileInv, ServerEnds
  PROVE  FileInv'
<1>1. CASE CompletionFails(Top.set, locations)
  BY <1>1, FailKeepsFile DEF ServerEnds
<1>2. CASE ~CompletionFails(Top.set, locations)
  <2> DEFINE server == [listen |-> IF listen = {} THEN {DefaultAddr} ELSE listen,
                        names |-> names, locations |-> Completed(Top.set, locations)]
             said == [set |-> Top.set, locations |-> locations]
  <2>1. /\ servers' = Append(servers, server) /\ declared' = Append(declared, said)
        /\ stack' = <<>> /\ listen' = {} /\ names' = {} /\ locations' = <<>>
        /\ status' = status
    BY <1>2 DEF ServerEnds
  <2>2. Loaded(server, said)
    BY <1>2, ServerBlockTree DEF ServerEnds, Loaded
  <2> HIDE DEF server, said
  <2>3. PICK S, T : servers \in Seq(S) /\ declared \in Seq(T) /\ Len(servers) = Len(declared)
    BY DEF ParserInv, ServersRooted
  <2>4. servers \in Seq(S \union {server}) /\ declared \in Seq(T \union {said})
    BY <2>3
  <2>5. /\ Len(servers') = Len(servers) + 1
        /\ servers'[Len(servers) + 1] = server /\ Len(servers) \in Nat
        /\ \A i \in 1..Len(servers) : servers'[i] = servers[i]
    BY <2>1, <2>4
  <2>6. /\ declared'[Len(declared) + 1] = said
        /\ \A i \in 1..Len(declared) : declared'[i] = declared[i]
    BY <2>1, <2>4
  <2>7. \A i \in 1..Len(servers') : Loaded(servers'[i], declared'[i])
    BY <2>2, <2>3, <2>5, <2>6 DEF FileInv
  <2>8. BlocksParsed'
    <3>1. DOMAIN locations' = {} /\ stack' \in Seq(Blocks)
      BY <2>1
    <3>2. IsFiniteSet(DOMAIN locations')
      BY <3>1, FS_EmptySet
    <3> QED
      BY <2>1, <3>1, <3>2 DEF FileInv, BlocksParsed
  <2> QED
    BY <2>7, <2>8 DEF FileInv
<1> QED
  BY <1>1, <1>2

LEMMA FileInvariant == Spec => []FileInv
<1>1. Init => FileInv
  BY InitFile
<1>2. ParserInv /\ FileInv /\ [Next]_vars => FileInv'
  <2> SUFFICES ASSUME ParserInv, FileInv, [Next]_vars PROVE FileInv'
    OBVIOUS
  <2>1. CASE BadDirective
    BY <2>1, FailKeepsFile DEF BadDirective
  <2>2. CASE EndOfFile \/ Over \/ UNCHANGED vars
    <3>1. Fail \/ /\ status' \in {status, "loaded"}
                  /\ UNCHANGED <<stack, listen, names, locations, servers, declared>>
      BY <2>2 DEF EndOfFile, Over, vars
    <3> QED
      BY <3>1, FailKeepsFile, KeepsFile DEF FileInv, BlocksParsed
  <2> QED
    BY <2>1, <2>2, ParseFile, FieldFile, LocationEndsFile, ServerEndsFile DEF Next
<1> QED
  BY <1>1, <1>2, ParserInvariant, PTL DEF Spec

-----------------------------------------------------------------------------
(* The theorems.                                                           *)

\* Every address that is listened on has a server; it has the name that was
\* asked for if one there has it, and is the first such.
THEOREM AddressServed == Spec => []EveryListenedServed
<1>1. Indexed => EveryListenedServed
  BY RightServer, Zenon DEF EveryListenedServed
<1> QED
  BY <1>1, IndexedInvariant, PTL

\* In a server that has been read every location but "/" has its parent among
\* the locations, above it and before it in the order of the map, however the
\* blocks lie in the file: completion never makes a location up.
THEOREM TreeComplete == Spec => []ParentsExist
<1>1. ParserInv => ParentsExist
  <2> SUFFICES ASSUME ParserInv PROVE ParentsExist
    OBVIOUS
  <2>1. DOMAIN servers = 1..Len(servers)
    <3>1. PICK S : servers \in Seq(S)
      BY DEF ParserInv, ServersRooted
    <3> QED
      BY <3>1, LenProperties
  <2>2. \A i \in DOMAIN servers : Rooted(servers[i], declared[i])
    BY <2>1 DEF ParserInv, ServersRooted
  <2> QED
    BY <2>2 DEF ParentsExist, Rooted, Less, IsStrictPrefix
<1> QED
  BY <1>1, ParserInvariant, PTL

\* A URI is served by the most specific of the locations it lies in, in any
\* configuration that can be read.
THEOREM RightLocation == Spec => []MostSpecificLocation
<1>1. ParserInv => MostSpecificLocation
  <2> SUFFICES ASSUME ParserInv, NEW i \in DOMAIN servers, NEW uri \in Uris,
                      NEW p \in DOMAIN servers[i].locations, IsPrefix(p, uri)
               PROVE  /\ IsPrefix(p, GetLocation(servers[i], uri))
                      /\ IsPrefix(GetLocation(servers[i], uri), uri)
    BY DEF MostSpecificLocation
  <2>1. DOMAIN servers = 1..Len(servers)
    <3>1. PICK S : servers \in Seq(S)
      BY DEF ParserInv, ServersRooted
    <3> QED
      BY <3>1, LenProperties
  <2>2. DOMAIN servers[i].locations \subseteq Seq(Nat) /\ uri \in Seq(Nat)
    BY <2>1, PathsAssumption DEF ParserInv, ServersRooted, Rooted
  <2> QED
    BY <2>2, LongestPrefixFound
<1> QED
  BY <1>1, ParserInvariant, PTL

LEMMA ServersIndexed ==
  ASSUME ParserInv
  PROVE  DOMAIN servers = 1..Len(servers)
<1>1. PICK S : servers \in Seq(S)
  BY DEF ParserInv, ServersRooted
<1> QED
  BY <1>1, LenProperties

\* Every state of the parser is typed, and a field with a default is set in
\* every location of every server that was read.
THEOREM ConfigTyped == Spec => []TypeOK
<1>1. ParserInv /\ FileInv => TypeOK
  <2> SUFFICES ASSUME ParserInv, FileInv PROVE TypeOK
    OBVIOUS
  <2>1. ASSUME NEW i \in DOMAIN servers, NEW p \in DOMAIN servers[i].locations
        PROVE  /\ servers[i].locations[p] \in Blocks
               /\ \A f \in Fields : Default[f] # Unset => servers[i].locations[p].set[f] # Unset
    <3> DEFINE set == declared[i].set
               locs == declared[i].locations
               c == Completed(set, locs)
    <3>1. set \in Settings /\ Tree(locs) /\ servers[i].locations = c
      BY ServersIndexed DEF FileInv, Loaded
    <3>2. /\ DOMAIN c = DOMAIN locs \union {Root}
          /\ c[Root] = [NewBlock(Root, <<>>) EXCEPT !.set = CompletedFrom(Default, set)]
          /\ \A q \in DOMAIN locs \ {Root} :
               c[q] = [locs[q] EXCEPT !.set = CompletedFrom(c[locs[q].parent].set, locs[q].set)]
          /\ \A q \in DOMAIN c : c[q].set \in Settings
      BY <3>1, CompletionInherits DEF Inherits
    <3>3. \A q \in DOMAIN locs \union {Root} :
            \A f \in Fields : Default[f] # Unset => c[q].set[f] # Unset
      BY <3>1, DefaultsReach
    <3> HIDE DEF c
    <3>4. c[p] \in Blocks
      <4>1. CASE p = Root
        <5>1. NewBlock(Root, <<>>) \in Blocks
          BY NewBlockKnown
        <5> QED
          BY <3>1, <3>2, <4>1, <5>1 DEF Blocks
      <4>2. CASE p # Root
        <5>1. p \in DOMAIN locs \ {Root} /\ locs[p] \in Blocks /\ c[p].set \in Settings
          BY <3>1, <3>2, <4>2 DEF Tree
        <5>2. c[p] = [locs[p] EXCEPT !.set = c[p].set]
          BY <3>2, <5>1, ZenonT(30) DEF Blocks
        <5> QED
          BY <5>1, <5>2 DEF Blocks
      <4> QED
        BY <4>1, <4>2
    <3> QED
      BY <3>1, <3>2, <3>3, <3>4
  <2>2. Len(declared) = Len(servers)
    BY DEF ParserInv, ServersRooted
  <2> QED
    BY <2>1, <2>2 DEF TypeOK, FileInv, BlocksParsed
<1> QED
  BY <1>1, ParserInvariant, FileInvariant, PTL

\* In the end each location says what its own block says and for the rest what
\* its parent says in the end, for any tree of blocks in any order in the file.
THEOREM InheritanceComplete == Spec => []Inherited
<1>1. ParserInv /\ FileInv => Inherited
  <2> SUFFICES ASSUME ParserInv, FileInv, NEW i \in DOMAIN servers,
                      NEW p \in DOMAIN servers[i].locations \ {Root}, NEW f \in Fields
               PROVE  servers[i].locations[p].set[f] =
                        IF declared[i].locations[p].set[f] # Unset
                        THEN declared[i].locations[p].set[f]
                        ELSE servers[i].locations[servers[i].locations[p].parent].set[f]
    BY DEF Inherited
  <2> DEFINE locs == declared[i].locations
             c == servers[i].locations
  <2>1. p \in DOMAIN locs \ {Root} /\ locs[p] \in Blocks
        /\ c[p] = [locs[p] EXCEPT !.set = CompletedFrom(c[locs[p].parent].set, locs[p].set)]
    <3>1. declared[i].set \in Settings /\ Tree(locs) /\ c = Completed(declared[i].set, locs)
      BY ServersIndexed DEF FileInv, Loaded
    <3>2. /\ DOMAIN c = DOMAIN locs \union {Root}
          /\ \A q \in DOMAIN locs \ {Root} :
               c[q] = [locs[q] EXCEPT !.set = CompletedFrom(c[locs[q].parent].set, locs[q].set)]
      <4>1. Inherits(c, declared[i].set, locs)
        BY <3>1, CompletionInherits
      <4> QED
        BY <4>1, Zenon DEF Inherits
    <3> HIDE DEF c
    <3>3. p \in DOMAIN c /\ p # Root
      BY DEF c
    <3> QED
      BY <3>1, <3>2, <3>3 DEF Tree
  <2> HIDE DEF locs, c
  <2>2. c[p].set = CompletedFrom(c[locs[p].parent].set, locs[p].set) /\ c[p].parent = locs[p].parent
    BY <2>1 DEF Blocks
  <2>3. c[p].set[f] = IF locs[p].set[f] # Unset THEN locs[p].set[f] ELSE c[c[p].parent].set[f]
    BY <2>2 DEF CompletedFrom
  <2> QED
    BY <2>3 DEF locs, c
<1> QED
  BY <1>1, ParserInvariant, FileInvariant, PTL

\* A file type of cgi has one path from the server down to the location, in any
\* file that loads.
THEOREM CgiPathUnique == Spec => []OneCgiPath
<1>1. ParserInv /\ FileInv => OneCgiPath
  <2> SUFFICES ASSUME ParserInv, FileInv, NEW i \in DOMAIN servers,
                      NEW p \in DOMAIN servers[i].locations, p # Root,
                      NEW f \in Fields, Kind[f] = "cgi",
                      servers[i].locations[servers[i].locations[p].parent].set[f] # Unset
               PROVE  servers[i].locations[p].set[f] =
                        servers[i].locations[servers[i].locations[p].parent].set[f]
    BY SMTT(30) DEF OneCgiPath
  <2> DEFINE locs == declared[i].locations
             c == servers[i].locations
  <2>1. p \in DOMAIN locs \ {Root} /\ locs[p] \in Blocks
        /\ c[p] = [locs[p] EXCEPT !.set = CompletedFrom(c[locs[p].parent].set, locs[p].set)]
    <3>1. declared[i].set \in Settings /\ Tree(locs) /\ c = Completed(declared[i].set, locs)
      BY ServersIndexed DEF FileInv, Loaded
    <3>2. /\ DOMAIN c = DOMAIN locs \union {Root}
          /\ \A q \in DOMAIN locs \ {Root} :
               c[q] = [locs[q] EXCEPT !.set = CompletedFrom(c[locs[q].parent].set, locs[q].set)]
      <4>1. Inherits(c, declared[i].set, locs)
        BY <3>1, CompletionInherits
      <4> QED
        BY <4>1, Zenon DEF Inherits
    <3> HIDE DEF c
    <3>3. p \in DOMAIN c /\ p # Root
      BY SMTT(30) DEF c
    <3> QED
      BY <3>1, <3>2, <3>3 DEF Tree
  <2>2. ~CgiMismatch(c[locs[p].parent].set, locs[p].set)
    BY <2>1, ServersIndexed DEF FileInv, Loaded, CompletionFails
  <2>3. c[c[p].parent].set[f] # Unset
    OBVIOUS
  <2> HIDE DEF locs, c
  <2>4. c[p].set = CompletedFrom(c[locs[p].parent].set, locs[p].set) /\ c[p].parent = locs[p].parent
    BY <2>1 DEF Blocks
  <2>5. c[p].set[f] = c[c[p].parent].set[f]
    BY <2>2, <2>3, <2>4 DEF CompletedFrom, CgiMismatch
  <2> QED
    BY <2>5 DEF locs, c
<1> QED
  BY <1>1, ParserInvariant, FileInvariant, PTL
=============================================================================
