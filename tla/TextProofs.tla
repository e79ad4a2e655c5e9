----------------------------- MODULE TextProofs -----------------------------
(***************************************************************************)
(* Proofs about what is read out of a request, whatever its characters,    *)
(* whatever escapes stand for and whatever types the scripts have: the     *)
(* parts of the uri, which are decoded in a loop that starts again after   *)
(* each escape, and the data of an upload.                                 *)
(***************************************************************************)
EXTENDS RequestText, RequestProofs, FiniteSetTheorems

-----------------------------------------------------------------------------
(* Reading the text changes nothing of how requests are received.          *)

\* Every behaviour that goes on to read the text receives the request as
\* HTTPRequest does: AHandler::AHandler only looks at it.
THEOREM TextRefines == USpec => Spec
<1>1. UInit => Init
  BY DEF UInit
<1>2. [UNext]_<<vars, textVars>> => [Next]_vars
  BY DEF UNext, UReceive, Construct, NormalizeUri, UFinished
<1> QED
  BY <1>1, <1>2, PTL DEF USpec, Spec

-----------------------------------------------------------------------------
(* Pieces of texts.                                                        *)

\* t is the piece of s behind its first p members that has n members.
Piece(X, t, s, p, n) ==
  t \in Seq(X) /\ Len(t) = n /\ \A j \in 1..n : t[j] = s[p + j]

LEMMA PieceOf ==
  ASSUME NEW X, NEW s \in Seq(X), NEW p \in Nat, NEW n \in Nat, p + n <= Len(s)
  PROVE  Piece(X, SubSeq(s, p + 1, p + n), s, p, n)
<1> DEFINE a == p + 1
           b == p + n
           t == SubSeq(s, a, b)
<1>1. \A j \in a..b : s[j] \in X
  OBVIOUS
<1>2. a \in Int /\ b \in Int /\ (IF a <= b THEN b - a + 1 ELSE 0) = n /\ b - a + 1 = n
      /\ \A j \in 1..n : a + j - 1 = p + j
  OBVIOUS
<1> HIDE DEF a, b
<1>3. /\ t \in Seq(X) /\ Len(t) = IF a <= b THEN b - a + 1 ELSE 0
      /\ \A j \in 1..(b - a + 1) : t[j] = s[a + j - 1]
  BY <1>1, <1>2, SubSeqProperties
<1> HIDE DEF t
<1>4. Piece(X, t, s, p, n)
  BY <1>2, <1>3 DEF Piece
<1> QED
  BY <1>4 DEF t, a, b

LEMMA StartOf ==
  ASSUME NEW X, NEW s \in Seq(X), NEW n \in Nat, n <= Len(s)
  PROVE  Piece(X, SubSeq(s, 1, n), s, 0, n)
<1>1. Piece(X, SubSeq(s, 0 + 1, 0 + n), s, 0, n)
  BY PieceOf
<1>2. 0 + 1 = 1 /\ 0 + n = n
  OBVIOUS
<1> QED
  BY <1>1, <1>2

\* c is s with t behind it.
Follows(X, c, s, t) ==
  /\ c \in Seq(X) /\ Len(c) = Len(s) + Len(t)
  /\ \A j \in 1..Len(s) : c[j] = s[j]
  /\ \A j \in 1..Len(t) : c[Len(s) + j] = t[j]

LEMMA ConcatFollows ==
  ASSUME NEW X, NEW s \in Seq(X), NEW t \in Seq(X)
  PROVE  Follows(X, s \o t, s, t)
BY DEF Follows

LEMMA FollowsOne ==
  ASSUME NEW X, NEW s \in Seq(X), NEW t \in Seq(X), NEW c, Follows(X, c, s, t)
  PROVE  c = s \o t
<1> DEFINE d == s \o t
<1>1. Follows(X, d, s, t)
  BY ConcatFollows
<1> HIDE DEF d
<1>2. Len(s) \in Nat /\ Len(t) \in Nat
  OBVIOUS
<1>3. Len(c) = Len(d) /\ c \in Seq(X) /\ d \in Seq(X)
  BY <1>1 DEF Follows
<1>4. ASSUME NEW j \in 1..Len(c) PROVE c[j] = d[j]
  <2>1. CASE j <= Len(s)
    BY <1>1, <1>2, <2>1 DEF Follows
  <2>2. CASE j > Len(s)
    <3>1. j - Len(s) \in 1..Len(t) /\ Len(s) + (j - Len(s)) = j
      BY <1>2, <1>4, <2>2 DEF Follows
    <3>2. c[Len(s) + (j - Len(s))] = t[j - Len(s)] /\ d[Len(s) + (j - Len(s))] = t[j - Len(s)]
      BY <1>1, <3>1 DEF Follows
    <3> QED
      BY <3>1, <3>2
  <2> QED
    BY <1>2, <2>1, <2>2
<1>5. c = d
  BY <1>3, <1>4, SMTT(60)
<1> QED
  BY <1>5 DEF d

\* Where a pattern stands.
Stands_(s, pat, i) == i + Len(pat) <= Len(s) /\ \A j \in 1..Len(pat) : s[i + j] = pat[j]

LEMMA FoundStands ==
  ASSUME NEW X, NEW s \in Seq(X), NEW pat \in Seq(X), NEW from \in Nat, NEW i
  PROVE  i \in Found(s, pat, from) <=> i \in Nat /\ from <= i /\ Stands_(s, pat, i)
<1> DEFINE n == Len(pat)
           k == Len(s)
           t == SubSeq(s, i + 1, i + n)
<1>1. n \in Nat /\ k \in Nat /\ Len(s) = k /\ Len(pat) = n
  OBVIOUS
<1>2. i \in Found(s, pat, from) <=> i \in from..(k - n) /\ t = pat
  BY DEF Found
<1> HIDE DEF n, k
<1>3. i \in from..(k - n) <=> i \in Nat /\ from <= i /\ i + n <= k
  BY <1>1
<1>4. ASSUME i \in Nat, i + n <= k
      PROVE  t = pat <=> \A j \in 1..n : s[i + j] = pat[j]
  <2>1. Piece(X, t, s, i, n)
    BY <1>1, <1>4, PieceOf
  <2> HIDE DEF t
  <2>2. t \in Seq(X) /\ Len(t) = n /\ \A j \in 1..n : t[j] = s[i + j]
    BY <2>1 DEF Piece
  <2> QED
    BY <1>1, <2>2
<1> HIDE DEF t
<1> QED
  BY <1>1, <1>2, <1>3, <1>4 DEF Stands_

\* The first of its places.
LEMMA FirstPlace ==
  ASSUME NEW X, NEW s \in Seq(X), NEW pat \in Seq(X), NEW from \in Nat,
         Found(s, pat, from) # {}
  PROVE  LET first == Min(Found(s, pat, from)) IN
         /\ first \in Nat /\ from <= first /\ Stands_(s, pat, first)
         /\ \A i \in Nat : from <= i /\ Stands_(s, pat, i) => first <= i
<1> DEFINE places == Found(s, pat, from)
<1>1. \A i : i \in places <=> i \in Nat /\ from <= i /\ Stands_(s, pat, i)
  BY FoundStands
<1>2. places # {}
  OBVIOUS
<1> HIDE DEF places
<1>3. places \in SUBSET Nat
  BY <1>1
<1>4. Min(places) \in places /\ \A i \in places : Min(places) <= i
  BY <1>2, <1>3, MinOf
<1>5. /\ Min(places) \in Nat /\ from <= Min(places) /\ Stands_(s, pat, Min(places))
      /\ \A i \in Nat : from <= i /\ Stands_(s, pat, i) => Min(places) <= i
  BY <1>1, <1>4
<1> QED
  BY <1>5 DEF places

\* One character of a text, and a slash after a slash.
LEMMA MarkFound ==
  ASSUME NEW X, NEW s \in Seq(X), NEW c \in X
  PROVE  /\ Found(s, <<c>>, 0) = {} <=> \A i \in 1..Len(s) : s[i] # c
         /\ Found(s, <<c>>, 0) # {} =>
              /\ Min(Found(s, <<c>>, 0)) \in Nat /\ Min(Found(s, <<c>>, 0)) < Len(s)
              /\ s[Min(Found(s, <<c>>, 0)) + 1] = c
              /\ \A i \in 1..Min(Found(s, <<c>>, 0)) : s[i] # c
<1> DEFINE pat == <<c>>
           places == Found(s, pat, 0)
           first == Min(places)
<1>1. pat \in Seq(X) /\ Len(pat) = 1 /\ pat[1] = c
  OBVIOUS
<1> HIDE DEF pat
<1>2. \A i \in Nat : Stands_(s, pat, i) <=> i + 1 <= Len(s) /\ s[i + 1] = c
  BY <1>1 DEF Stands_
<1>3. \A i : i \in places <=> i \in Nat /\ i + 1 <= Len(s) /\ s[i + 1] = c
  <2>1. \A i : i \in places <=> i \in Nat /\ 0 <= i /\ Stands_(s, pat, i)
    BY <1>1, FoundStands
  <2> HIDE DEF places
  <2> QED
    BY <1>2, <2>1
<1>4. Len(s) \in Nat
  OBVIOUS
<1>5. places = {} <=> \A i \in 1..Len(s) : s[i] # c
  <2> HIDE DEF places
  <2>1. ASSUME NEW i \in 1..Len(s), s[i] = c PROVE i - 1 \in places
    <3>1. i - 1 \in Nat /\ i - 1 + 1 = i /\ i <= Len(s)
      BY <1>4
    <3> QED
      BY <1>3, <2>1, <3>1
  <2>2. ASSUME NEW i \in places PROVE i + 1 \in 1..Len(s) /\ s[i + 1] = c
    BY <1>3, <1>4
  <2> QED
    BY <2>1, <2>2
<1>6. ASSUME places # {}
      PROVE  first \in Nat /\ first < Len(s) /\ s[first + 1] = c /\ \A i \in 1..first : s[i] # c
  <2>1. /\ first \in Nat /\ Stands_(s, pat, first)
        /\ \A i \in Nat : 0 <= i /\ Stands_(s, pat, i) => first <= i
    BY <1>1, <1>6, FirstPlace
  <2> HIDE DEF first, places
  <2>2. first + 1 <= Len(s) /\ s[first + 1] = c
    BY <1>2, <2>1
  <2>3. ASSUME NEW i \in 1..first, s[i] = c PROVE FALSE
    <3>1. i - 1 \in Nat /\ i - 1 + 1 = i /\ i <= Len(s) /\ ~(first <= i - 1)
      BY <1>4, <2>1, <2>2
    <3>2. Stands_(s, pat, i - 1)
      BY <1>2, <2>3, <3>1
    <3> QED
      BY <2>1, <3>1, <3>2
  <2> QED
    BY <1>4, <2>1, <2>2, <2>3
<1> QED
  BY <1>5, <1>6 DEF places, first, pat

LEMMA PieceType ==
  ASSUME NEW X, NEW s \in Seq(X), NEW a \in Nat \ {0}, NEW b \in Nat, b <= Len(s)
  PROVE  SubSeq(s, a, b) \in Seq(X)
<1>1. \A j \in a..b : s[j] \in X
  OBVIOUS
<1> QED
  BY <1>1, SubSeqProperties

LEMMA MinOfTwo ==
  ASSUME NEW a \in Nat, NEW b \in Nat
  PROVE  Min({a, b}) \in Nat /\ Min({a, b}) = IF a <= b THEN a ELSE b
<1> DEFINE T == {a, b}
<1>1. T \in SUBSET Nat /\ T # {} /\ a \in T /\ b \in T /\ \A k \in T : k = a \/ k = b
  OBVIOUS
<1> HIDE DEF T
<1>2. Min(T) \in T /\ \A k \in T : Min(T) <= k
  BY <1>1, MinOf
<1> DEFINE m == Min(T)
<1>3. (m = a \/ m = b) /\ m <= a /\ m <= b
  BY <1>1, <1>2
<1> HIDE DEF m
<1>4. m \in Nat /\ m = IF a <= b THEN a ELSE b
  BY <1>3
<1> QED
  BY <1>4 DEF T, m

LEMMA CharsAre ==
  /\ "/" \in Chars /\ "?" \in Chars /\ "." \in Chars /\ "%" \in Chars
  /\ "nul" \in Chars /\ "ctl" \in Chars
  /\ \A h \in HexDigits : h \in Chars /\ h # "/" /\ h # "." /\ h # "%"
  /\ \A h \in HexDigits : \A k \in HexDigits : Byte[h][k] \in Chars
  /\ Types \in Seq(Chars)
<1>1. /\ {"/", "?", ".", "%", "nul", "ctl"} \subseteq Chars
      /\ HexDigits \subseteq Chars \ {"/", "?", ".", "%"}
      /\ Byte \in [HexDigits -> [HexDigits -> Chars]] /\ Types \in Seq(Chars)
  BY CharsAssumption
<1>2. \A h \in HexDigits : Byte[h] \in [HexDigits -> Chars]
  BY <1>1
<1>3. \A h \in HexDigits : \A k \in HexDigits : Byte[h][k] \in Chars
  BY <1>2
<1> QED
  BY <1>1, <1>3

-----------------------------------------------------------------------------
(* Taking a uri apart.                                                     *)

\* What is left when the first of two slashes is erased.
Doubled_(t) == Found(t, <<"/", "/">>, 0)
Shorter_(t) == Erased(t, Min(Doubled_(t)), Min(Doubled_(t)) + 1)

LEMMA ShorterIs ==
  ASSUME NEW t \in Seq(Chars), Doubled_(t) # {}
  PROVE  LET m == Min(Doubled_(t))
             u == Shorter_(t)
         IN  /\ m \in Nat /\ m + 2 <= Len(t) /\ t[m + 1] = "/"
             /\ u \in Seq(Chars) /\ Len(u) = Len(t) - 1
             /\ \A j \in 1..m : u[j] = t[j]
             /\ \A j \in (m + 1)..Len(u) : u[j] = t[j + 1]
<1> DEFINE m == Min(Doubled_(t))
           u == Shorter_(t)
           pat == <<"/", "/">>
           n == Len(t)
           a == SubSeq(t, 1, m)
           b == SubSeq(t, m + 2, n)
           d == m + 1
           k == n - d
<1>1. pat \in Seq(Chars) /\ Len(pat) = 2 /\ pat[1] = "/"
  BY CharsAre
<1>2. m \in Nat /\ Stands_(t, pat, m)
  <2> HIDE DEF pat
  <2>1. Found(t, pat, 0) # {}
    BY DEF pat, Doubled_
  <2>2. Min(Found(t, pat, 0)) \in Nat /\ Stands_(t, pat, Min(Found(t, pat, 0)))
    BY <1>1, <2>1, FirstPlace
  <2> QED
    BY <2>2 DEF pat, Doubled_
<1> HIDE DEF m, pat
<1>3. n \in Nat /\ m \in Nat /\ m + 2 <= n /\ n = Len(t) /\ t[m + 1] = "/"
  <2>1. 1 \in 1..2
    OBVIOUS
  <2> QED
    BY <1>1, <1>2, <2>1 DEF Stands_
<1>4. u = a \o b
  <2>1. m + 1 + 1 = m + 2
    BY <1>3
  <2> HIDE DEF n
  <2> QED
    BY <2>1 DEF Shorter_, Erased, m, n
<1>5. d \in Nat /\ k \in Nat /\ d + k <= Len(t) /\ d + 1 = m + 2 /\ d + k = n /\ d = m + 1
  BY <1>3
<1> HIDE DEF n, d, k
<1>6. a \in Seq(Chars) /\ Len(a) = m /\ \A j \in 1..m : a[j] = t[j]
  <2>1. m <= Len(t) /\ \A j \in 1..m : 0 + j = j
    BY <1>3
  <2>2. Piece(Chars, a, t, 0, m)
    BY <1>3, <2>1, StartOf
  <2> HIDE DEF a
  <2> QED
    BY <2>1, <2>2 DEF Piece
<1>7. b \in Seq(Chars) /\ Len(b) = k /\ \A j \in 1..k : b[j] = t[d + j]
  <2>1. Piece(Chars, SubSeq(t, d + 1, d + k), t, d, k)
    BY <1>5, PieceOf
  <2> HIDE DEF u
  <2> QED
    BY <1>5, <2>1 DEF Piece
<1> HIDE DEF a, b, u
<1>8. Follows(Chars, u, a, b)
  BY <1>4, <1>6, <1>7, ConcatFollows
<1>9. /\ u \in Seq(Chars) /\ Len(u) = m + k
      /\ \A j \in 1..m : u[j] = a[j]
      /\ \A j \in 1..k : u[m + j] = b[j]
  BY <1>6, <1>7, <1>8 DEF Follows
<1>10. Len(u) = Len(t) - 1 /\ \A j \in 1..m : u[j] = t[j]
  BY <1>3, <1>5, <1>6, <1>9
<1>11. ASSUME NEW j \in (m + 1)..Len(u) PROVE u[j] = t[j + 1]
  <2> DEFINE i == j - m
  <2>1. i \in 1..k /\ m + i = j /\ d + i = j + 1
    BY <1>3, <1>5, <1>9
  <2> HIDE DEF i
  <2>2. u[m + i] = b[i] /\ b[i] = t[d + i]
    BY <1>7, <1>9, <2>1
  <2> QED
    BY <2>1, <2>2
<1> QED
  BY <1>3, <1>9, <1>10, <1>11 DEF u, m

\* Each erasure makes a text shorter, so that they end.
LEMMA DoubledEquation ==
  RemoveDoubled = [t \in Seq(Chars) |->
                     IF Doubled_(t) = {} THEN t ELSE RemoveDoubled[Shorter_(t)]]
<1> DEFINE S == Seq(Chars)
           base == {t \in S : Doubled_(t) = {}}
           size == [t \in S |-> Len(t)]
           next == [t \in S |-> IF Doubled_(t) = {} THEN t ELSE Shorter_(t)]
           given == [t \in S |-> t]
           step == [t \in S |-> [v \in S |-> v]]
<1>1. ASSUME NEW t \in S, Doubled_(t) # {} PROVE Shorter_(t) \in S /\ Len(Shorter_(t)) < Len(t)
  <2>1. Shorter_(t) \in S /\ Len(Shorter_(t)) = Len(t) - 1 /\ Len(t) \in Nat
    BY <1>1, ShorterIs
  <2> QED
    BY <2>1
<1>2. size \in [S -> Nat] /\ \A t \in S : size[t] = Len(t)
  OBVIOUS
<1>3. next \in [S -> S] /\ \A t \in S \ base : size[next[t]] < size[t]
  BY <1>1
<1>4. given \in [S -> S] /\ step \in [S -> [S -> S]] /\ base \in SUBSET S
  OBVIOUS
<1>5. \A t \in S : /\ t \in base <=> Doubled_(t) = {}
                   /\ Doubled_(t) # {} => next[t] = Shorter_(t)
                   /\ given[t] = t /\ \A v \in S : step[t][v] = v
  OBVIOUS
<1> HIDE DEF size, next, given, step, base
<1>6. PICK g \in [S -> S] : \A t \in S : Recursive(g, t, base, given, next, step)
  <2> HIDE DEF S
  <2> QED
    BY <1>2, <1>3, <1>4, RecursionExists
<1> HIDE DEF S
<1>7. ASSUME NEW t \in S PROVE g[t] = IF Doubled_(t) = {} THEN t ELSE g[Shorter_(t)]
  <2>1. Recursive(g, t, base, given, next, step)
    BY <1>6
  <2>2. g[next[t]] \in S
    BY <1>3, <1>6
  <2> QED
    BY <1>5, <2>1, <2>2 DEF Recursive
<1>8. g = [t \in S |-> IF Doubled_(t) = {} THEN t ELSE g[Shorter_(t)]]
  BY <1>6, <1>7
<1> QED
  BY <1>8, Zenon DEF RemoveDoubled, S, Doubled_, Shorter_

\* What no erasure ends, the last of them leaves.
LEMMA DoubledKeeps ==
  ASSUME NEW P \in SUBSET Seq(Chars), \A t \in P : Doubled_(t) # {} => Shorter_(t) \in P,
         NEW s \in P
  PROVE  RemoveDoubled[s] \in P
<1> DEFINE S == Seq(Chars)
           size == [t \in S |-> Len(t)]
           T == {t \in S : t \in P => RemoveDoubled[t] \in P}
<1>1. size \in [S -> Nat] /\ \A t \in S : size[t] = Len(t)
  OBVIOUS
<1>2. ASSUME NEW t \in S, Doubled_(t) # {} PROVE Shorter_(t) \in S /\ Len(Shorter_(t)) < Len(t)
  <2>1. Shorter_(t) \in S /\ Len(Shorter_(t)) = Len(t) - 1 /\ Len(t) \in Nat
    BY <1>2, ShorterIs
  <2> QED
    BY <2>1
<1>3. \A t \in S : RemoveDoubled[t] = IF Doubled_(t) = {} THEN t ELSE RemoveDoubled[Shorter_(t)]
  BY DoubledEquation, ZenonT(30)
<1> HIDE DEF S, size
<1>4. ASSUME NEW t \in S, \A u \in S : size[u] < size[t] => u \in T
      PROVE  t \in T
  <2> SUFFICES ASSUME t \in P PROVE RemoveDoubled[t] \in P
    OBVIOUS
  <2>1. CASE Doubled_(t) = {}
    BY <1>3, <2>1
  <2>2. CASE Doubled_(t) # {}
    <3>1. Shorter_(t) \in S /\ size[Shorter_(t)] < size[t] /\ Shorter_(t) \in P
      BY <1>1, <1>2, <2>2
    <3>2. RemoveDoubled[Shorter_(t)] \in P
      BY <1>4, <3>1
    <3> QED
      BY <1>3, <2>2, <3>2
  <2> QED
    BY <2>1, <2>2
<1>5. S \subseteq T
  <2> HIDE DEF T
  <2> QED
    BY <1>1, <1>4, SizeInduction, SMTT(120)
<1> QED
  BY <1>5 DEF S

\* A text stays a text, and one without doubled slashes as it is.
LEMMA DoubledRemoved ==
  ASSUME NEW s \in Seq(Chars)
  PROVE  /\ RemoveDoubled[s] \in Seq(Chars)
         /\ Found(s, <<"/", "/">>, 0) = {} => RemoveDoubled[s] = s
<1> DEFINE S == Seq(Chars)
<1>1. \A t \in S : Doubled_(t) # {} => Shorter_(t) \in S
  BY ShorterIs
<1>2. RemoveDoubled[s] \in S
  <2>1. S \in SUBSET Seq(Chars) /\ s \in S
    OBVIOUS
  <2> HIDE DEF S
  <2> QED
    BY <1>1, <2>1, DoubledKeeps
<1>3. Doubled_(s) = {} => RemoveDoubled[s] = s
  BY DoubledEquation, ZenonT(30)
<1> QED
  BY <1>2, <1>3 DEF Doubled_

\* The path and the query, and what is between them.
LEMMA PathIs ==
  ASSUME NEW uri \in Seq(Chars)
  PROVE  /\ Path(uri) \in Seq(Chars) /\ Query(uri) \in Seq(Chars)
         /\ \/ Path(uri) \o <<"?">> \o Query(uri) = uri
            \/ Query(uri) = <<>> /\ Path(uri) = uri
<1> DEFINE marks == Found(uri, <<"?">>, 0)
           m == Min(marks)
           k == Len(uri)
<1>1. /\ marks # {} => m \in Nat /\ m < k /\ uri[m + 1] = "?"
      /\ k \in Nat /\ Len(uri) = k
  <2>1. "?" \in Chars
    BY CharsAre
  <2> QED
    BY <2>1, MarkFound
<1>2. Path(uri) = IF marks = {} THEN uri ELSE SubSeq(uri, 1, m)
  BY DEF Path
<1> HIDE DEF marks, m, k
<1>3. CASE marks = {}
  <2> DEFINE q == SubSeq(uri, k + 2, k)
  <2>1. q = <<>>
    <3>1. k + 2 > k
      BY <1>1
    <3> HIDE DEF q
    <3>2. q \in Seq(Chars) /\ Len(q) = 0
      BY <1>1, <3>1 DEF q
    <3> QED
      BY <3>2
  <2>2. <<>> \in Seq(Chars)
    BY EmptySeq
  <2>3. Query(uri) = q /\ Path(uri) = uri
    BY <1>1, <1>2, <1>3 DEF Query
  <2> QED
    BY <2>1, <2>2, <2>3
<1>4. CASE marks # {}
  <2> DEFINE p == SubSeq(uri, 1, m)
             n == k - (m + 1)
             q == SubSeq(uri, m + 2, k)
             e == <<"?">>
             c == p \o e
  <2>1. m \in Nat /\ m < k /\ n \in Nat /\ m + 1 \in Nat /\ m + 1 + n = k /\ m + 1 + 1 = m + 2
    BY <1>1, <1>4
  <2> HIDE DEF n
  <2>2. p \in Seq(Chars) /\ Len(p) = m /\ \A j \in 1..m : p[j] = uri[j]
    <3>1. Piece(Chars, SubSeq(uri, 0 + 1, 0 + m), uri, 0, m)
      BY <1>1, <2>1, PieceOf
    <3>2. 0 + 1 = 1 /\ 0 + m = m /\ \A j \in 1..m : 0 + j = j
      BY <2>1
    <3> QED
      BY <3>1, <3>2 DEF Piece
  <2>3. q \in Seq(Chars) /\ Len(q) = n /\ \A j \in 1..n : q[j] = uri[m + 1 + j]
    <3> DEFINE a == m + 1
    <3>1. a \in Nat /\ a + n <= Len(uri) /\ a + 1 = m + 2 /\ a + n = k
      BY <1>1, <2>1
    <3> HIDE DEF a
    <3>2. Piece(Chars, SubSeq(uri, a + 1, a + n), uri, a, n)
      BY <2>1, <3>1, PieceOf
    <3>3. q \in Seq(Chars) /\ Len(q) = n /\ \A j \in 1..n : q[j] = uri[a + j]
      BY <3>1, <3>2 DEF Piece
    <3> QED
      BY <3>3 DEF a
  <2>4. e \in Seq(Chars) /\ Len(e) = 1 /\ e[1] = "?"
    BY CharsAre
  <2>5. Path(uri) = p /\ Query(uri) = q
    BY <1>1, <1>2, <1>4, <2>2 DEF Query
  <2> HIDE DEF p, q, e
  <2>6. Follows(Chars, c, p, e)
    BY <2>2, <2>4, ConcatFollows
  <2> HIDE DEF c
  <2>7. /\ c \in Seq(Chars) /\ Len(c) = m + 1 /\ c[m + 1] = uri[m + 1]
        /\ \A j \in 1..m : c[j] = uri[j]
    <3>1. 1 \in 1..Len(e)
      BY <2>4
    <3> QED
      BY <1>1, <1>4, <2>2, <2>4, <2>6, <3>1 DEF Follows
  <2>8. \A j \in 1..(m + 1) : c[j] = uri[j]
    <3>1. \A j \in 1..(m + 1) : j \in 1..m \/ j = m + 1
      BY <2>1
    <3> QED
      BY <2>7, <3>1
  <2>9. Follows(Chars, uri, c, q)
    <3>1. Len(uri) = Len(c) + Len(q)
      BY <1>1, <2>1, <2>3, <2>7
    <3> QED
      BY <2>3, <2>7, <2>8, <3>1 DEF Follows
  <2>10. uri = c \o q
    BY <2>3, <2>7, <2>9, FollowsOne
  <2> QED
    BY <2>2, <2>3, <2>5, <2>10 DEF c, e
<1> QED
  BY <1>3, <1>4

\* Where the script's name ends before the end of the path, a file type's
\* extension does, and a slash follows.
LEMMA ScriptEndIs ==
  ASSUME NEW path \in Seq(Chars)
  PROVE  LET e == ScriptEnd(path) IN
         /\ e \in Nat /\ e <= Len(path)
         /\ e # Len(path) => /\ 2 <= e /\ e + 1 <= Len(path)
                             /\ path[e - 1] = "." /\ path[e + 1] = "/"
                             /\ \E i \in DOMAIN Types : path[e] = Types[i]
<1> DEFINE Ends(t) == Found(path, <<".", t, "/">>, 0)
           given == {i \in DOMAIN Types : Ends(Types[i]) # {}}
           i == Min(given)
           t == Types[i]
           p == Min(Ends(t))
<1>1. ScriptEnd(path) = IF given = {} THEN Len(path) ELSE p + 2
  BY DEF ScriptEnd
<1>2. ASSUME given # {}
      PROVE  /\ p \in Nat /\ p + 3 <= Len(path) /\ i \in DOMAIN Types
             /\ path[p + 1] = "." /\ path[p + 2] = t /\ path[p + 3] = "/"
  <2>1. given \in SUBSET Nat
    BY CharsAre
  <2>2. i \in given
    <3> HIDE DEF given
    <3> QED
      BY <1>2, <2>1, MinOf
  <2>3. i \in DOMAIN Types /\ Ends(t) # {} /\ t \in Chars
    <3>1. i \in DOMAIN Types /\ Ends(t) # {}
      BY <2>2
    <3> HIDE DEF i
    <3> QED
      BY <3>1, CharsAre, SMTT(30)
  <2> HIDE DEF i, t, given
  <2> DEFINE pat == <<".", t, "/">>
  <2>4. pat \in Seq(Chars) /\ Len(pat) = 3 /\ pat[1] = "." /\ pat[2] = t /\ pat[3] = "/"
    BY <2>3, CharsAre
  <2>5. Ends(t) = Found(path, pat, 0)
    OBVIOUS
  <2> HIDE DEF pat, Ends
  <2>6. p \in Nat /\ Stands_(path, pat, p)
    BY <2>3, <2>4, <2>5, FirstPlace
  <2> HIDE DEF p
  <2>7. /\ p + 3 <= Len(path)
        /\ path[p + 1] = pat[1] /\ path[p + 2] = pat[2] /\ path[p + 3] = pat[3]
    BY <2>4, <2>6 DEF Stands_
  <2> QED
    BY <2>3, <2>4, <2>6, <2>7
<1> HIDE DEF given, i, p
<1> DEFINE e == ScriptEnd(path)
           k == Len(path)
<1>3. k \in Nat
  OBVIOUS
<1>4. CASE given = {}
  BY <1>1, <1>3, <1>4
<1>5. CASE given # {}
  <2>1. e = p + 2 /\ p \in Nat /\ p + 3 <= k /\ i \in DOMAIN Types
    BY <1>1, <1>2, <1>5
  <2> HIDE DEF e, k
  <2>2. e \in Nat /\ e <= k /\ 2 <= e /\ e + 1 <= k /\ e - 1 = p + 1 /\ e + 1 = p + 3
    BY <1>3, <2>1
  <2>3. path[e - 1] = "." /\ path[e + 1] = "/" /\ path[e] = Types[i]
    BY <1>2, <1>5, <2>1, <2>2
  <2>4. \E x \in DOMAIN Types : path[e] = Types[x]
    BY <2>1, <2>3
  <2> QED
    BY <2>2, <2>3, <2>4 DEF e, k
<1> QED
  BY <1>4, <1>5

\* The two parts of the path.
Script(uri) == SubSeq(Path(uri), 1, ScriptEnd(Path(uri)))
Info(uri) == SubSeq(Path(uri), ScriptEnd(Path(uri)) + 1, Len(Path(uri)))
TextParts == [pure_uri : Seq(Chars), query : Seq(Chars), path_info : Seq(Chars)]

LEMMA PathParts ==
  ASSUME NEW uri \in Seq(Chars)
  PROVE  LET path == Path(uri)
             e == ScriptEnd(path)
         IN
         /\ path \in Seq(Chars) /\ e \in Nat /\ e <= Len(path)
         /\ Piece(Chars, Script(uri), path, 0, e)
         /\ Piece(Chars, Info(uri), path, e, Len(path) - e)
         /\ path = Script(uri) \o Info(uri)
<1> DEFINE path == Path(uri)
           e == ScriptEnd(path)
           k == Len(path)
           n == k - e
           a == Script(uri)
           b == Info(uri)
<1>1. path \in Seq(Chars) /\ e \in Nat /\ e <= k
  <2>1. path \in Seq(Chars)
    BY PathIs
  <2> HIDE DEF path
  <2> QED
    BY <2>1, ScriptEndIs
<1>2. a = SubSeq(path, 1, e) /\ b = SubSeq(path, e + 1, k)
  BY DEF Script, Info
<1>3. k \in Nat /\ Len(path) = k
  BY <1>1
<1> HIDE DEF path, e, k, a, b
<1>4. n \in Nat /\ e + n = k
  BY <1>1, <1>3
<1> HIDE DEF n
<1>5. Piece(Chars, a, path, 0, e)
  <2>1. Piece(Chars, SubSeq(path, 0 + 1, 0 + e), path, 0, e)
    BY <1>1, <1>3, PieceOf
  <2>2. 0 + 1 = 1 /\ 0 + e = e
    BY <1>1
  <2> QED
    BY <1>2, <2>1, <2>2
<1>6. Piece(Chars, b, path, e, n)
  <2>1. Piece(Chars, SubSeq(path, e + 1, e + n), path, e, n)
    BY <1>1, <1>3, <1>4, PieceOf
  <2> QED
    BY <1>2, <1>4, <2>1
<1>7. /\ a \in Seq(Chars) /\ Len(a) = e /\ \A j \in 1..e : a[j] = path[j]
      /\ b \in Seq(Chars) /\ Len(b) = n /\ \A j \in 1..n : b[j] = path[e + j]
  BY <1>1, <1>5, <1>6 DEF Piece
<1>8. Follows(Chars, path, a, b)
  BY <1>1, <1>3, <1>4, <1>7 DEF Follows
<1>9. path = a \o b
  BY <1>7, <1>8, FollowsOne
<1> QED
  BY <1>1, <1>5, <1>6, <1>9 DEF path, e, k, n, a, b

LEMMA PartsAre ==
  ASSUME NEW uri \in Seq(Chars)
  PROVE  /\ Parts(uri) \in TextParts
         /\ Parts(uri).pure_uri = Script(uri) /\ Parts(uri).query = Query(uri)
         /\ Parts(uri).path_info = IF Info(uri) = <<"/">> THEN <<>> ELSE Info(uri)
<1> DEFINE a == Script(uri)
           b == Info(uri)
           q == Query(uri)
           none == <<>>
           given == IF b = <<"/">> THEN none ELSE b
<1>1. Parts(uri) = [pure_uri |-> a, query |-> q, path_info |-> given]
  BY DEF Parts, Script, Info
<1>2. a \in Seq(Chars) /\ b \in Seq(Chars) /\ q \in Seq(Chars) /\ none \in Seq(Chars)
  <2>1. Piece(Chars, a, Path(uri), 0, ScriptEnd(Path(uri)))
        /\ Piece(Chars, b, Path(uri), ScriptEnd(Path(uri)), Len(Path(uri)) - ScriptEnd(Path(uri)))
    BY PathParts
  <2> HIDE DEF a, b
  <2> QED
    BY <2>1, PathIs, EmptySeq DEF Piece
<1> HIDE DEF a, b, q, none
<1>3. given \in Seq(Chars)
  BY <1>2
<1> QED
  BY <1>1, <1>2, <1>3 DEF TextParts, a, b, q, none

LEMMA PartsOfMessage ==
  ASSUME NEW m \in Messages
  PROVE  /\ PartsOf[m] \in TextParts /\ m.target \in Seq(Chars)
         /\ Found(m.target, <<"/", "/">>, 0) = {} => PartsOf[m] = Parts(m.target)
<1>1. m.target \in Seq(Chars)
  BY CharsAssumption
<1>2. PartsOf[m] = Parts(RemoveDoubled[m.target])
  BY DEF PartsOf
<1>3. /\ RemoveDoubled[m.target] \in Seq(Chars)
      /\ Found(m.target, <<"/", "/">>, 0) = {} => RemoveDoubled[m.target] = m.target
  BY <1>1, DoubledRemoved
<1> QED
  BY <1>1, <1>2, <1>3, PartsAre

-----------------------------------------------------------------------------
(* The type invariant.                                                     *)

\* One turn of the loop, for a text with an escape sign in it.
Percent_(s) == Min(Found(s, <<"%">>, 0))
ReadAt(s, p, old) == Converted(SubSeq(s, p + 2, Min({p + 3, Len(s)})), old)
Turned(s, p, old) == SubSeq(s, 1, p) \o <<ReadAt(s, p, old)>> \o SubSeq(s, p + 4, Len(s))

LEMMA TurnType ==
  ASSUME NEW s \in Seq(Chars), NEW p \in Nat, p < Len(s), NEW old \in Chars
  PROVE  ReadAt(s, p, old) \in Chars /\ Turned(s, p, old) \in Seq(Chars)
<1> DEFINE k == Len(s)
           b == Min({p + 3, k})
           hex == SubSeq(s, p + 2, b)
           read == ReadAt(s, p, old)
           start == SubSeq(s, 1, p)
           rest == SubSeq(s, p + 4, k)
<1>1. k \in Nat /\ k = Len(s) /\ p < k
  OBVIOUS
<1> HIDE DEF k
<1>2. b \in Nat /\ b <= k
  <2>1. p + 3 \in Nat
    OBVIOUS
  <2> QED
    BY <1>1, <2>1, MinOfTwo
<1> HIDE DEF b
<1>3. hex \in Seq(Chars)
  <2>1. p + 2 \in Nat \ {0}
    OBVIOUS
  <2> QED
    BY <1>1, <1>2, <2>1, PieceType
<1>4. read = Converted(hex, old)
  BY <1>1 DEF ReadAt, b
<1> HIDE DEF hex, read
<1>5. read \in Chars
  <2>1. CASE hex = <<>> \/ hex[1] \notin HexDigits \/ Len(hex) = 1 \/ hex[2] \notin HexDigits
    BY <1>4, <2>1, CharsAre DEF Converted
  <2>2. CASE ~(hex = <<>> \/ hex[1] \notin HexDigits \/ Len(hex) = 1 \/ hex[2] \notin HexDigits)
    <3>1. read = Byte[hex[1]][hex[2]]
      BY <1>4, <2>2 DEF Converted
    <3> QED
      BY <2>2, <3>1, CharsAre
  <2> QED
    BY <2>1, <2>2
<1>6. start \in Seq(Chars)
  BY <1>1, PieceType
<1>7. rest \in Seq(Chars)
  <2>1. p + 4 \in Nat \ {0}
    OBVIOUS
  <2> QED
    BY <1>1, <2>1, PieceType
<1> DEFINE one == <<read>>
<1>8. one \in Seq(Chars)
  BY <1>5
<1>9. Turned(s, p, old) = start \o one \o rest
  BY <1>1 DEF Turned, read
<1> HIDE DEF start, rest, one
<1> QED
  BY <1>5, <1>6, <1>7, <1>8, <1>9 DEF read

\* What NormalizeUri does to the part it is at.
LEMMA NormalizeIs ==
  ASSUME NormalizeUri, stage \in {"path_info", "pure_uri"}, parts \in TextParts, code \in Chars
  PROVE  LET s == parts[stage]
             p == Percent_(s)
         IN  /\ s \in Seq(Chars) /\ UNCHANGED vars
             /\ \/ /\ \A i \in 1..Len(s) : s[i] # "%"
                   /\ parts' = parts /\ code' \in Chars
                   /\ stage' = IF stage = "path_info" THEN "pure_uri" ELSE "constructed"
                \/ /\ p \in Nat /\ p < Len(s) /\ s[p + 1] = "%" /\ \A i \in 1..p : s[i] # "%"
                   /\ parts' = [parts EXCEPT ![stage] = Turned(s, p, code)]
                   /\ code' \in Chars /\ stage' = stage
<1> DEFINE s == parts[stage]
           p == Percent_(s)
           percents == Found(s, <<"%">>, 0)
<1>1. s \in Seq(Chars)
  <2>1. /\ stage = "path_info" \/ stage = "pure_uri"
        /\ parts.path_info \in Seq(Chars) /\ parts.pure_uri \in Seq(Chars)
    BY DEF TextParts
  <2> QED
    BY <2>1
<1>2. /\ percents = {} <=> \A i \in 1..Len(s) : s[i] # "%"
      /\ percents # {} => /\ p \in Nat /\ p < Len(s) /\ s[p + 1] = "%"
                          /\ \A i \in 1..p : s[i] # "%"
  <2> HIDE DEF s
  <2> QED
    BY <1>1, MarkFound, CharsAre, SMTT(30) DEF Percent_
<1>3. /\ UNCHANGED vars
      /\ IF percents = {}
         THEN /\ \/ stage = "path_info" /\ stage' = "pure_uri" /\ code' \in Chars
                 \/ stage = "pure_uri" /\ stage' = "constructed" /\ code' = code
              /\ parts' = parts
         ELSE /\ parts' = [parts EXCEPT ![stage] = Turned(s, p, code)]
              /\ code' = ReadAt(s, p, code) /\ stage' = stage
  BY DEF NormalizeUri, Turned, ReadAt, Percent_
<1> HIDE DEF s, p, percents
<1>4. CASE percents = {}
  <2>1. code' \in Chars
    BY <1>3, <1>4
  <2>2. stage' = IF stage = "path_info" THEN "pure_uri" ELSE "constructed"
    BY <1>3, <1>4
  <2> QED
    BY <1>1, <1>2, <1>3, <1>4, <2>1, <2>2 DEF s, p
<1>5. CASE percents # {}
  <2>1. code' \in Chars
    BY <1>1, <1>2, <1>3, <1>5, TurnType
  <2> QED
    BY <1>1, <1>2, <1>3, <1>5, <2>1 DEF s, p
<1> QED
  BY <1>4, <1>5

\* The inductive part: the handler is constructed from a request that is done.
TextInv ==
  /\ message \in Messages /\ stage \in Stages /\ code \in Chars
  /\ stage # "none" => status = "done" /\ parts \in TextParts

LEMMA TextInvariant == USpec => []TextInv
<1>1. UInit => TextInv
  BY CharsAre DEF UInit, Init, TextInv, Stages
<1>2. TextInv /\ [UNext]_<<vars, textVars>> => TextInv'
  <2> SUFFICES ASSUME TextInv, [UNext]_<<vars, textVars>> PROVE TextInv'
    OBVIOUS
  <2>1. CASE UReceive
    BY <2>1 DEF UReceive, Next, Read, ReadNothing, textVars, TextInv
  <2>2. CASE Construct
    BY <2>2, PartsOfMessage DEF Construct, vars, TextInv, Stages
  <2>3. CASE NormalizeUri
    <3>1. /\ stage \in {"path_info", "pure_uri"} /\ parts \in TextParts /\ code \in Chars
          /\ status = "done" /\ message \in Messages
      BY <2>3 DEF NormalizeUri, TextInv
    <3> DEFINE s == parts[stage]
               p == Percent_(s)
    <3>2. /\ s \in Seq(Chars) /\ UNCHANGED vars
          /\ \/ /\ parts' = parts /\ code' \in Chars
                /\ stage' = IF stage = "path_info" THEN "pure_uri" ELSE "constructed"
             \/ /\ p \in Nat /\ p < Len(s)
                /\ parts' = [parts EXCEPT ![stage] = Turned(s, p, code)]
                /\ code' \in Chars /\ stage' = stage
      BY <2>3, <3>1, NormalizeIs
    <3> DEFINE t == Turned(s, p, code)
    <3>3. p \in Nat /\ p < Len(s) => t \in Seq(Chars)
      BY <3>1, <3>2, TurnType
    <3> HIDE DEF s, p, t
    <3>4. t \in Seq(Chars) => [parts EXCEPT ![stage] = t] \in TextParts
      BY <3>1 DEF TextParts
    <3>5. parts' \in TextParts
      BY <3>1, <3>2, <3>3, <3>4 DEF t
    <3>6. stage' \in Stages /\ stage' # "none"
      BY <3>1, <3>2 DEF Stages
    <3> QED
      BY <3>1, <3>2, <3>5, <3>6 DEF TextInv, vars
  <2>4. CASE UFinished
    BY <2>4 DEF UFinished, vars, textVars, TextInv
  <2>5. CASE UNCHANGED <<vars, textVars>>
    BY <2>5 DEF vars, textVars, TextInv
  <2> QED
    BY <2>1, <2>2, <2>3, <2>4, <2>5 DEF UNext
<1> QED
  BY <1>1, <1>2, PTL DEF USpec

\* Whatever the uri holds, decoding it keeps it a text (AHandler::AHandler,
\* normalizeUri).
THEOREM TextTyped == USpec => []TextTypeOK
<1>1. TextInv /\ TypeOK => TextTypeOK
  BY DEF TextInv, TextTypeOK, TextParts
<1> QED
  BY <1>1, TextInvariant, TextRefines, RequestTyped, PTL

-----------------------------------------------------------------------------
(* The form of an upload.                                                  *)

LEMMA FormSymbols ==
  /\ Boundary \in Bytes /\ Name \in Bytes /\ CR \in Bytes /\ LF \in Bytes
  /\ Boundary # CR /\ Boundary # LF /\ Boundary # Name /\ Name # CR /\ Name # LF /\ CR # LF
  /\ HeaderEnd \in Seq(Bytes) /\ Len(HeaderEnd) = 4
  /\ HeaderEnd[1] = CR /\ HeaderEnd[2] = LF /\ HeaderEnd[3] = CR /\ HeaderEnd[4] = LF
<1>1. Boundary \in Bytes /\ Name \in Bytes
  BY DEF Bytes, Kinds, Boundary, Name, Symbol
<1>2. Boundary # CR /\ Boundary # LF /\ Boundary # Name /\ Name # CR /\ Name # LF
  BY DEF CR, LF, Boundary, Name, Symbol
<1>3. CR \in Bytes /\ LF \in Bytes /\ CR # LF
  BY SymbolsDiffer
<1> DEFINE t == Terminator
           h == t \o t
<1>4. t \in Seq(Bytes) /\ Len(t) = 2 /\ t[1] = CR /\ t[2] = LF
  BY <1>3 DEF Terminator
<1> HIDE DEF t
<1>5. Joined(h, t, t)
  BY <1>4, ConcatJoins
<1> HIDE DEF h
<1>6. h \in Seq(Bytes) /\ Len(h) = 4 /\ h[1] = CR /\ h[2] = LF /\ h[2 + 1] = CR /\ h[2 + 2] = LF
  BY <1>4, <1>5 DEF Joined
<1>7. HeaderEnd = h
  BY DEF HeaderEnd, h, t
<1> QED
  BY <1>1, <1>2, <1>3, <1>6, <1>7

\* A form's first part has the file's name and a header of its own, and begins
\* at place hs of the buffer; the next boundary is the form's symbol `end`.
FormAt(s, hs, end) ==
  /\ s \in Seq(Bytes) /\ hs \in Nat /\ end \in Nat /\ 10 < end /\ hs + end <= Len(s)
  /\ s[hs + 1] = Boundary /\ s[hs + 2] = CR /\ s[hs + 3] = LF /\ s[hs + 4] = Name
  /\ s[hs + 5] = CR /\ s[hs + 6] = LF /\ s[hs + 7] = CR /\ s[hs + 8] = LF
  /\ s[hs + end] = Boundary /\ \A j \in 5..(end - 1) : s[hs + j] # Boundary

LEMMA FormIs ==
  ASSUME NEW r, NEW end, FormAt(r.buffer, r.header_size, end)
  PROVE  Form(r) = [verdict |-> "whole",
                    data |-> SubSeq(r.buffer, r.header_size + 9, r.header_size + end - 3)]
<1> DEFINE s == r.buffer
           hs == r.header_size
           starts == Found(s, HeaderEnd, hs)
           start == Min(starts)
           ends == IF starts = {} THEN {} ELSE Found(s, <<Boundary>>, start)
           first == hs + 3
           header == SubSeq(s, first + 1, IF start < first THEN Len(s) ELSE start)
           last == DataEnd(Min(ends))
<1>1. /\ s \in Seq(Bytes) /\ hs \in Nat /\ end \in Nat /\ 10 < end /\ hs + end <= Len(s)
      /\ s[hs + 1] = Boundary /\ s[hs + 2] = CR /\ s[hs + 3] = LF /\ s[hs + 4] = Name
      /\ s[hs + 5] = CR /\ s[hs + 6] = LF /\ s[hs + 7] = CR /\ s[hs + 8] = LF
      /\ s[hs + end] = Boundary /\ \A j \in 5..(end - 1) : s[hs + j] # Boundary
  BY DEF FormAt
<1>2. Form(r) = IF ends = {} THEN BadForm
                ELSE IF Found(header, <<Name>>, 0) = {} THEN BadForm
                ELSE IF last < start + 4 THEN [BadForm EXCEPT !.verdict = "crossed"]
                ELSE [verdict |-> "whole", data |-> SubSeq(s, start + 5, last)]
  BY DEF Form
<1> HIDE DEF s, hs
<1>3. starts # {} /\ start = hs + 4
  <2>1. \A i : i \in starts <=> i \in Nat /\ hs <= i /\ Stands_(s, HeaderEnd, i)
    BY <1>1, FormSymbols, FoundStands
  <2>2. Stands_(s, HeaderEnd, hs + 4)
    <3>1. hs + 4 + Len(HeaderEnd) <= Len(s)
      BY <1>1, FormSymbols
    <3>2. \A j \in 1..4 : s[hs + 4 + j] = HeaderEnd[j]
      <4>1. \A j \in 1..4 : j = 1 \/ j = 2 \/ j = 3 \/ j = 4
        OBVIOUS
      <4>2. hs + 4 + 1 = hs + 5 /\ hs + 4 + 2 = hs + 6 /\ hs + 4 + 3 = hs + 7 /\ hs + 4 + 4 = hs + 8
        BY <1>1
      <4> QED
        BY <1>1, <4>1, <4>2, FormSymbols
    <3> QED
      BY <3>1, <3>2, FormSymbols DEF Stands_
  <2>3. hs + 4 \in starts
    <3>1. hs + 4 \in Nat /\ hs <= hs + 4
      BY <1>1
    <3> QED
      BY <2>1, <2>2, <3>1
  <2>4. ASSUME NEW i \in starts PROVE hs + 4 <= i
    <3>1. i \in Nat /\ hs <= i /\ s[i + 1] = CR /\ s[i + 3] = CR
      <4>1. i \in Nat /\ hs <= i /\ Stands_(s, HeaderEnd, i)
        BY <2>1, <2>4
      <4> QED
        BY <4>1, FormSymbols DEF Stands_
    <3>2. i # hs
      BY <1>1, <3>1, FormSymbols
    <3>3. i # hs + 1
      <4>1. i = hs + 1 => i + 3 = hs + 4
        BY <1>1
      <4> QED
        BY <1>1, <3>1, <4>1, FormSymbols
    <3>4. i # hs + 2
      <4>1. i = hs + 2 => i + 1 = hs + 3
        BY <1>1
      <4> QED
        BY <1>1, <3>1, <4>1, FormSymbols
    <3>5. i # hs + 3
      <4>1. i = hs + 3 => i + 1 = hs + 4
        BY <1>1
      <4> QED
        BY <1>1, <3>1, <4>1, FormSymbols
    <3> QED
      BY <1>1, <3>1, <3>2, <3>3, <3>4, <3>5
  <2>5. starts \in SUBSET Nat
    BY <2>1
  <2> HIDE DEF starts
  <2>6. start \in starts /\ \A i \in starts : start <= i
    BY <2>3, <2>5, MinOf
  <2>7. start <= hs + 4 /\ hs + 4 <= start /\ start \in Nat
    BY <2>3, <2>4, <2>5, <2>6
  <2> HIDE DEF start
  <2> QED
    BY <1>1, <2>3, <2>7
<1> HIDE DEF starts, start
<1>4. ends # {} /\ Min(ends) = hs + end - 1
  <2> DEFINE pat == <<Boundary>>
             k == hs + end - 1
             places == Found(s, pat, hs + 4)
  <2>1. ends = places
    BY <1>3
  <2>2. pat \in Seq(Bytes) /\ Len(pat) = 1 /\ pat[1] = Boundary
    BY FormSymbols
  <2>3. hs + 4 \in Nat /\ k \in Nat /\ hs + 4 <= k /\ k + 1 = hs + end
    BY <1>1
  <2> HIDE DEF pat, k
  <2>4. \A i : i \in places <=> i \in Nat /\ hs + 4 <= i /\ i + 1 <= Len(s) /\ s[i + 1] = Boundary
    <3>1. \A i : i \in places <=> i \in Nat /\ hs + 4 <= i /\ Stands_(s, pat, i)
      BY <1>1, <2>2, <2>3, FoundStands
    <3>2. \A i \in Nat : Stands_(s, pat, i) <=> i + 1 <= Len(s) /\ s[i + 1] = Boundary
      BY <2>2 DEF Stands_
    <3> HIDE DEF places
    <3> QED
      BY <3>1, <3>2
  <2> HIDE DEF places, ends
  <2>5. k \in places
    BY <1>1, <2>3, <2>4
  <2>6. ASSUME NEW i \in places PROVE k <= i
    <3>1. i \in Nat /\ hs + 4 <= i /\ s[i + 1] = Boundary
      BY <2>4, <2>6
    <3>2. SUFFICES ASSUME ~(k <= i) PROVE FALSE
      OBVIOUS
    <3>3. i + 1 - hs \in 5..(end - 1) /\ hs + (i + 1 - hs) = i + 1
      BY <1>1, <2>3, <3>1, <3>2
    <3> QED
      BY <1>1, <3>1, <3>3
  <2>7. places \in SUBSET Nat
    BY <2>4
  <2>8. Min(places) \in places /\ \A i \in places : Min(places) <= i
    BY <2>5, <2>7, MinOf
  <2>9. Min(places) <= k /\ k <= Min(places) /\ Min(places) \in Nat
    BY <2>5, <2>6, <2>7, <2>8
  <2> DEFINE m == Min(places)
  <2>10. m = k
    <3>1. m <= k /\ k <= m /\ m \in Nat
      BY <2>9
    <3> HIDE DEF m
    <3> QED
      BY <2>3, <3>1
  <2> QED
    BY <2>1, <2>5, <2>10 DEF k
<1> HIDE DEF ends
<1>5. last = hs + end - 3 /\ ~(last < start + 4) /\ start + 5 = hs + 9
  <2> DEFINE m == Min(ends)
  <2>1. m = hs + end - 1 /\ last = m - 2
    BY <1>4 DEF DataEnd
  <2> HIDE DEF m, last
  <2> QED
    BY <1>1, <1>3, <2>1
<1> HIDE DEF last
<1>6. Found(header, <<Name>>, 0) # {}
  <2> DEFINE p == hs + 3
  <2>1. p \in Nat /\ p + 1 <= Len(s) /\ p + 1 = hs + 4 /\ p + 1 = start /\ ~(start < first)
        /\ first = p
    BY <1>1, <1>3
  <2> HIDE DEF p, first
  <2>2. header = SubSeq(s, p + 1, p + 1)
    BY <2>1
  <2>3. Piece(Bytes, SubSeq(s, p + 1, p + 1), s, p, 1)
    BY <1>1, <2>1, PieceOf
  <2> HIDE DEF header
  <2>4. header \in Seq(Bytes) /\ Len(header) = 1 /\ header[1] = Name
    BY <1>1, <2>1, <2>2, <2>3 DEF Piece
  <2>5. 1 \in 1..Len(header)
    BY <2>4
  <2>6. Name \in Bytes
    BY FormSymbols
  <2>7. Found(header, <<Name>>, 0) = {} <=> \A i \in 1..Len(header) : header[i] # Name
    BY <2>4, <2>6, MarkFound
  <2> QED
    BY <2>4, <2>5, <2>7
<1> HIDE DEF header
<1>7. Form(r) = [verdict |-> "whole", data |-> SubSeq(s, start + 5, last)]
  BY <1>2, <1>4, <1>5, <1>6
<1> QED
  BY <1>5, <1>7 DEF s, hs

FormHeader == <<Boundary>> \o Terminator \o <<Name>> \o HeaderEnd
NextBoundaries(b) == {i \in DOMAIN b : b[i] = Boundary /\ i > 1}

LEMMA FormHeaderIs ==
  LET h == FormHeader IN
  /\ h \in Seq(Bytes) /\ Len(h) = 8
  /\ h[1] = Boundary /\ h[2] = CR /\ h[3] = LF /\ h[4] = Name
  /\ h[5] = CR /\ h[6] = LF /\ h[7] = CR /\ h[8] = LF
<1> DEFINE a == <<Boundary>>
           t == Terminator
           n == <<Name>>
           e == HeaderEnd
           x == a \o t
           y == x \o n
           h == y \o e
<1>1. /\ a \in Seq(Bytes) /\ Len(a) = 1 /\ a[1] = Boundary
      /\ n \in Seq(Bytes) /\ Len(n) = 1 /\ n[1] = Name
  BY FormSymbols
<1>2. /\ t \in Seq(Bytes) /\ Len(t) = 2 /\ t[1] = CR /\ t[2] = LF
  BY FormSymbols DEF Terminator
<1>3. /\ e \in Seq(Bytes) /\ Len(e) = 4 /\ e[1] = CR /\ e[2] = LF /\ e[3] = CR /\ e[4] = LF
  BY FormSymbols
<1> HIDE DEF a, t, n, e
<1>4. Joined(x, a, t)
  BY <1>1, <1>2, ConcatJoins
<1> HIDE DEF x
<1>5. x \in Seq(Bytes) /\ Len(x) = 3 /\ x[1] = Boundary /\ x[1 + 1] = CR /\ x[1 + 2] = LF
  BY <1>1, <1>2, <1>4 DEF Joined
<1>6. Joined(y, x, n)
  BY <1>1, <1>5, ConcatJoins
<1> HIDE DEF y
<1>7. /\ y \in Seq(Bytes) /\ Len(y) = 4
      /\ y[1] = Boundary /\ y[2] = CR /\ y[3] = LF /\ y[3 + 1] = Name
  BY <1>1, <1>5, <1>6 DEF Joined
<1>8. Joined(h, y, e)
  BY <1>3, <1>7, ConcatJoins
<1> HIDE DEF h
<1>9. /\ h \in Seq(Bytes) /\ Len(h) = 8
      /\ h[1] = Boundary /\ h[2] = CR /\ h[3] = LF /\ h[4] = Name
      /\ h[4 + 1] = CR /\ h[4 + 2] = LF /\ h[4 + 3] = CR /\ h[4 + 4] = LF
  BY <1>3, <1>7, <1>8 DEF Joined
<1> QED
  BY <1>9, SMTT(60) DEF h, y, x, a, t, n, e, FormHeader

\* A piece of a piece.
SamePiece(b, q, s, o, k) == SubSeq(b, q + 1, q + k) = SubSeq(s, o + 1, o + k)

LEMMA PieceAgain ==
  ASSUME NEW X, NEW s \in Seq(X), NEW p \in Nat, NEW b, NEW n \in Nat, Piece(X, b, s, p, n),
         p + n <= Len(s), NEW q \in Nat, NEW k \in Nat, q + k <= n,
         NEW o \in Nat, o = p + q
  PROVE  SamePiece(b, q, s, o, k)
<1> DEFINE t == SubSeq(b, q + 1, q + k)
           u == SubSeq(s, o + 1, o + k)
<1>1. b \in Seq(X) /\ Len(b) = n /\ \A j \in 1..n : b[j] = s[p + j]
  BY DEF Piece
<1>2. Piece(X, t, b, q, k)
  BY <1>1, PieceOf
<1>3. o + k <= Len(s)
  OBVIOUS
<1>4. Piece(X, u, s, o, k)
  BY <1>3, PieceOf
<1> HIDE DEF t, u
<1>5. ASSUME NEW j \in 1..k PROVE t[j] = u[j]
  <2>1. q + j \in 1..n /\ p + (q + j) = o + j
    BY <1>3
  <2> QED
    BY <1>1, <1>2, <1>4, <2>1 DEF Piece
<1>6. t \in Seq(X) /\ u \in Seq(X) /\ Len(t) = k /\ Len(u) = k
  BY <1>2, <1>4 DEF Piece
<1>7. t = u
  BY <1>5, <1>6
<1> QED
  BY <1>7 DEF t, u, SamePiece

\* The data written to the file is what was uploaded, however recv() cut it
\* and whether it came in chunks or not (PostHandler::postFile and
\* getFormFileName).
THEOREM UploadCut == USpec => []UploadExtracted
<1>1. ASSUME PacketsInv, TypeOK PROVE UploadExtracted
  <2> DEFINE b == Body(request)
             s == request.buffer
             hs == request.header_size
             n == request.body_size
             ends == NextBoundaries(b)
             end == Min(ends)
  <2>1. SUFFICES ASSUME /\ status = "done" /\ HasField(request, "form") /\ Meaning[1] # "huge"
                        /\ IsPrefix(FormHeader, b) /\ ends # {} /\ end > Len(FormHeader) + 2
                 PROVE  Form(request) = [verdict |-> "whole",
                                         data |-> SubSeq(b, Len(FormHeader) + 1, end - 3)]
    <3> HIDE DEF b
    <3> QED
      BY DEF UploadExtracted, FormHeader, NextBoundaries, b
  <2>2. s \in Seq(Bytes) /\ hs \in Nat /\ n \in Nat
    BY <1>1, RequestFields DEF PacketsInv
  <2>3. message.fields # <<>>
    <3>1. /\ message \in Messages /\ received \in 0..Len(Symbols(message)) /\ request \in Requests
          /\ Agree(<<status, request>>, Once)
      BY <1>1, <2>1 DEF PacketsInv
    <3>2. request.fields \in {{}, FieldsOf(message)}
      BY <3>1, FieldsAreSent DEF Once, Arrived
    <3>3. request.fields # {}
      BY <2>1 DEF HasField
    <3>4. message.fields = <<>> => FieldsOf(message) = {}
      BY DEF FieldsOf
    <3> QED
      BY <3>2, <3>3, <3>4
  <2>4. Len(s) = hs + n
    BY <1>1, <2>1, <2>3, ReadRight DEF Right
  <2>5. Piece(Bytes, b, s, hs, n)
    <3>1. hs + n <= Len(s)
      BY <2>2, <2>4
    <3>2. Piece(Bytes, SubSeq(s, hs + 1, hs + n), s, hs, n)
      BY <2>2, <3>1, PieceOf
    <3> QED
      BY <3>2 DEF Body
  <2> HIDE DEF b, s, hs, n
  <2>6. b \in Seq(Bytes) /\ Len(b) = n /\ \A j \in 1..n : b[j] = s[hs + j]
    BY <2>5 DEF Piece
  <2>7. \A i : i \in ends <=> i \in 1..n /\ b[i] = Boundary /\ i > 1
    BY <2>2, <2>6 DEF NextBoundaries
  <2> HIDE DEF ends
  <2>8. ends \in SUBSET Nat
    BY <2>2, <2>7
  <2>9. end \in ends /\ \A i \in ends : end <= i
    BY <2>1, <2>8, MinOf
  <2> HIDE DEF end
  <2>10. /\ end \in 1..n /\ b[end] = Boundary /\ 10 < end
         /\ \A i \in 2..(end - 1) : b[i] # Boundary
    <3>1. end \in 1..n /\ b[end] = Boundary /\ end > 10
      BY <2>1, <2>7, <2>9, FormHeaderIs
    <3>2. ASSUME NEW i \in 2..(end - 1), b[i] = Boundary PROVE FALSE
      <4>1. i \in 1..n /\ i > 1 /\ ~(end <= i)
        BY <2>2, <3>1
      <4> QED
        BY <2>7, <2>9, <3>2, <4>1
    <3> QED
      BY <2>2, <3>1, <3>2
  <2>11. \A j \in 1..8 : b[j] = FormHeader[j]
    <3> DEFINE h == FormHeader
               t == SubSeq(h, 1, 8)
               u == SubSeq(b, 1, 8)
    <3>1. h \in Seq(Bytes) /\ Len(h) = 8 /\ 8 <= Len(h) /\ 8 \in Nat
      BY FormHeaderIs
    <3>2. t = u /\ 8 <= Len(b)
      BY <2>1, <3>1 DEF IsPrefix
    <3> HIDE DEF h
    <3>3. \A j \in 1..8 : 0 + j = j
      OBVIOUS
    <3>4. Piece(Bytes, t, h, 0, 8)
      BY <3>1, StartOf
    <3>5. Piece(Bytes, u, b, 0, 8)
      BY <2>6, <3>2, StartOf
    <3>6. \A j \in 1..8 : t[j] = h[j] /\ u[j] = b[j]
      BY <3>3, <3>4, <3>5 DEF Piece
    <3> HIDE DEF t, u
    <3> QED
      BY <3>2, <3>6 DEF h
  <2>12. FormAt(s, hs, end)
    <3>1. \A j \in 1..n : s[hs + j] = b[j]
      BY <2>6
    <3>2. /\ s \in Seq(Bytes) /\ hs \in Nat /\ end \in Nat /\ hs + end <= Len(s)
          /\ \A j \in 1..8 : j \in 1..n
      BY <2>2, <2>4, <2>10
    <3>3. \A j \in 1..8 : s[hs + j] = FormHeader[j]
      BY <2>11, <3>1, <3>2
    <3>4. \A j \in 5..(end - 1) : s[hs + j] # Boundary
      <4>1. \A j \in 5..(end - 1) : j \in 2..(end - 1) /\ j \in 1..n
        BY <2>2, <2>10
      <4> QED
        BY <2>10, <3>1, <4>1
    <3>5. s[hs + end] = Boundary
      BY <2>10, <3>1
    <3> QED
      BY <2>10, <3>2, <3>3, <3>4, <3>5, FormHeaderIs DEF FormAt
  <2>13. Form(request) = [verdict |-> "whole", data |-> SubSeq(s, hs + 9, hs + end - 3)]
    BY <2>12, FormIs DEF s, hs
  <2>14. SubSeq(b, 9, end - 3) = SubSeq(s, hs + 9, hs + end - 3)
    <3> DEFINE k == end - 11
               q == 8
               o == hs + 8
    <3>1. /\ k \in Nat /\ q \in Nat /\ o \in Nat /\ o = hs + q /\ q + k <= n /\ hs + n <= Len(s)
          /\ q + 1 = 9 /\ q + k = end - 3 /\ o + 1 = hs + 9 /\ o + k = hs + end - 3
      BY <2>2, <2>4, <2>10
    <3> HIDE DEF k, q, o
    <3>2. SamePiece(b, q, s, o, k)
      BY <2>2, <2>5, <3>1, PieceAgain
    <3> QED
      BY <3>1, <3>2 DEF SamePiece
  <2>15. Len(FormHeader) + 1 = 9
    BY FormHeaderIs
  <2> QED
    BY <2>13, <2>14, <2>15
<1> QED
  BY <1>1, TextRefines, PacketsInvariant, RequestTyped, PTL

-----------------------------------------------------------------------------
(* What a text stands for.                                                 *)

CharAt(s, i) == IF IsEscape(s, i) THEN Byte[s[i + 1]][s[i + 2]] ELSE s[i]
AfterChar(s, i) == IF IsEscape(s, i) THEN i + 3 ELSE i + 1

\* f[i] is what s stands for from its character i on.
ReadsFrom(f, s, i) ==
  /\ f[i] \in Seq(Chars)
  /\ f[i] = IF i > Len(s) THEN <<>> ELSE <<CharAt(s, i)>> \o f[AfterChar(s, i)]
Reads(f, s) == \A i \in 1..(Len(s) + 3) : ReadsFrom(f, s, i)

LEMMA CharIn ==
  ASSUME NEW s \in Seq(Chars), NEW i \in 1..Len(s)
  PROVE  /\ CharAt(s, i) \in Chars
         /\ AfterChar(s, i) \in 1..(Len(s) + 1) /\ i < AfterChar(s, i)
<1>1. s[i] \in Chars /\ Len(s) \in Nat
  OBVIOUS
<1>2. CASE IsEscape(s, i)
  <2>1. s[i + 1] \in HexDigits /\ s[i + 2] \in HexDigits
    BY <1>2 DEF IsEscape
  <2>2. Byte[s[i + 1]][s[i + 2]] \in Chars
    BY <2>1, CharsAre
  <2>3. i + 2 <= Len(s)
    BY <1>2 DEF IsEscape
  <2> QED
    BY <1>1, <1>2, <2>2, <2>3 DEF CharAt, AfterChar
<1>3. CASE ~IsEscape(s, i)
  BY <1>1, <1>3 DEF CharAt, AfterChar
<1> QED
  BY <1>2, <1>3

LEMMA DecodedReads ==
  ASSUME NEW s \in Seq(Chars)
  PROVE  \E f : Reads(f, s) /\ Decoded(s) = f[1]
<1> DEFINE n == Len(s)
           S == 1..(n + 3)
           V == Seq(Chars)
           none == <<>>
           base == {i \in S : i > n}
           size == [i \in S |-> n + 3 - i]
           next == [i \in S |-> IF i > n THEN i ELSE AfterChar(s, i)]
           given == [i \in S |-> none]
           step == [i \in S |-> [v \in V |-> IF i > n THEN v ELSE <<CharAt(s, i)>> \o v]]
<1>1. n \in Nat /\ n = Len(s)
  OBVIOUS
<1>2. \A i \in S : i <= n => CharAt(s, i) \in Chars /\ AfterChar(s, i) \in S /\ i < AfterChar(s, i)
  <2>1. \A i \in 1..n : /\ CharAt(s, i) \in Chars
                       /\ AfterChar(s, i) \in 1..(n + 1) /\ i < AfterChar(s, i)
    BY CharIn
  <2>2. \A i \in S : i <= n => i \in 1..n
    OBVIOUS
  <2>3. \A i \in 1..(n + 1) : i \in S
    BY <1>1
  <2> HIDE DEF n, S
  <2> QED
    BY <2>1, <2>2, <2>3
<1> HIDE DEF n
<1>3. size \in [S -> Nat] /\ \A i, j \in S : i < j => size[j] < size[i]
  BY <1>1
<1>4. next \in [S -> S] /\ \A i \in S \ base : size[next[i]] < size[i]
  <2>1. \A i \in S : next[i] \in S /\ (i <= n => next[i] = AfterChar(s, i))
    BY <1>1, <1>2
  <2>2. next \in [S -> S]
    BY <2>1
  <2>3. \A i \in S \ base : i <= n
    BY <1>1
  <2> HIDE DEF next, size, base, S
  <2> QED
    BY <1>2, <1>3, <2>1, <2>2, <2>3
<1>5. given \in [S -> V]
  BY EmptySeq
<1>6. step \in [S -> [V -> V]] /\ base \in SUBSET S
  <2>1. ASSUME NEW i \in S, NEW v \in V
        PROVE  (IF i > n THEN v ELSE <<CharAt(s, i)>> \o v) \in V
    <3>1. CASE i > n
      BY <3>1
    <3>2. CASE ~(i > n)
      <4> DEFINE one == <<CharAt(s, i)>>
      <4>1. one \in Seq(Chars)
        BY <1>1, <1>2, <3>2
      <4> HIDE DEF one
      <4>2. one \o v \in Seq(Chars)
        BY <4>1
      <4> QED
        BY <3>2, <4>2 DEF one
    <3> QED
      BY <3>1, <3>2
  <2> HIDE DEF V
  <2> QED
    BY <2>1
<1>7. \A i \in S : /\ i \in base <=> i > n
                   /\ i <= n => next[i] = AfterChar(s, i)
                   /\ given[i] = none
                   /\ \A v \in V : i <= n => step[i][v] = <<CharAt(s, i)>> \o v
  BY <1>1
<1> HIDE DEF size, next, given, step, base, V
<1>8. PICK g \in [S -> V] : \A i \in S : Recursive(g, i, base, given, next, step)
  <2> HIDE DEF S
  <2> QED
    BY <1>3, <1>4, <1>5, <1>6, RecursionExists
<1> DEFINE Turn(h, i) == IF i > n THEN none
                         ELSE IF IsEscape(s, i) THEN <<Byte[s[i + 1]][s[i + 2]]>> \o h[i + 3]
                         ELSE <<s[i]>> \o h[i + 1]
<1>9. ASSUME NEW h, NEW i \in S
      PROVE  Turn(h, i) = IF i > n THEN none ELSE <<CharAt(s, i)>> \o h[AfterChar(s, i)]
  BY DEF CharAt, AfterChar
<1> HIDE DEF Turn, none
<1>10. ASSUME NEW i \in S
       PROVE  g[i] = IF i > n THEN none ELSE <<CharAt(s, i)>> \o g[AfterChar(s, i)]
  <2>1. Recursive(g, i, base, given, next, step)
    BY <1>8
  <2>2. CASE i > n
    BY <1>7, <2>1, <2>2 DEF Recursive
  <2>3. CASE ~(i > n)
    <3>1. i <= n
      BY <1>1, <2>3
    <3>2. next[i] = AfterChar(s, i) /\ AfterChar(s, i) \in S /\ i \notin base
      BY <1>2, <1>7, <2>3, <3>1
    <3> HIDE DEF S
    <3>3. g[AfterChar(s, i)] \in V
      BY <1>8, <3>2
    <3> QED
      BY <1>7, <2>1, <2>3, <3>1, <3>2, <3>3 DEF Recursive
  <2> QED
    BY <2>2, <2>3
<1> DEFINE from[i \in S] == IF i > n THEN none
                            ELSE IF IsEscape(s, i) THEN <<Byte[s[i + 1]][s[i + 2]]>> \o from[i + 3]
                            ELSE <<s[i]>> \o from[i + 1]
<1>11. g = [i \in S |-> Turn(g, i)]
  <2> HIDE DEF S
  <2> QED
    BY <1>8, <1>9, <1>10
<1>12. from = [i \in S |-> Turn(from, i)]
  BY <1>11, Zenon DEF from, Turn
<1>13. Decoded(s) = from[1]
  BY DEF Decoded, from, n, none
<1> HIDE DEF from, S
<1>14. ASSUME NEW i \in S
       PROVE  from[i] = IF i > n THEN none ELSE <<CharAt(s, i)>> \o from[AfterChar(s, i)]
  BY <1>9, <1>12
<1> DEFINE T == {i \in S : from[i] \in V}
<1>15. ASSUME NEW i \in S, \A j \in S : size[j] < size[i] => j \in T
       PROVE  i \in T
  <2>1. i \in Int /\ n \in Int
    BY <1>1 DEF S
  <2>2. CASE i > n
    BY <1>5, <1>7, <1>14, <2>2
  <2>3. CASE i <= n
    <3> DEFINE a == AfterChar(s, i)
               one == <<CharAt(s, i)>>
               v == from[a]
    <3>1. CharAt(s, i) \in Chars /\ a \in S /\ i < a
      BY <1>2, <2>3
    <3>2. size[a] < size[i]
      BY <1>3, <3>1
    <3>3. v \in Seq(Chars)
      BY <1>15, <3>1, <3>2 DEF V
    <3>4. one \in Seq(Chars)
      BY <3>1
    <3>5. from[i] = one \o v
      <4>1. ~(i > n)
        BY <2>1, <2>3
      <4> HIDE DEF n
      <4>2. from[i] = <<CharAt(s, i)>> \o from[AfterChar(s, i)]
        BY <1>14, <4>1
      <4> QED
        BY <4>2
    <3> HIDE DEF one, v
    <3>6. one \o v \in Seq(Chars)
      BY <3>3, <3>4
    <3> QED
      BY <3>5, <3>6 DEF V
  <2> QED
    BY <2>1, <2>2, <2>3
<1>16. S \subseteq T
  <2> HIDE DEF T
  <2> QED
    BY <1>3, <1>15, SizeInduction
<1>17. Reads(from, s)
  <2>1. ASSUME NEW i \in S PROVE ReadsFrom(from, s, i)
    BY <1>14, <1>16 DEF ReadsFrom, V, n, none
  <2> QED
    BY <2>1 DEF Reads, S, n
<1> QED
  BY <1>13, <1>17

\* Induction from the end of a text to its beginning.
LEMMA EndInduction ==
  ASSUME NEW n \in Nat, NEW T, n + 1 \in T,
         \A i \in 1..n : (\A j \in 1..(n + 1) : i < j => j \in T) => i \in T
  PROVE  \A i \in 1..(n + 1) : i \in T
<1> DEFINE S == 1..(n + 1)
           size == [i \in S |-> n + 1 - i]
<1>1. size \in [S -> Nat] /\ \A i, j \in S : i < j => size[j] < size[i]
  OBVIOUS
<1>2. \A i \in S : i = n + 1 \/ i \in 1..n
  OBVIOUS
<1> HIDE DEF size
<1>3. \A i \in S : (\A j \in S : size[j] < size[i] => j \in T) => i \in T
  <2> HIDE DEF S
  <2> QED
    BY <1>1, <1>2 DEF S
<1>4. S \subseteq T
  <2> HIDE DEF S
  <2> QED
    BY <1>1, <1>3, SizeInduction
<1> QED
  BY <1>4

LEMMA ReadsAt ==
  ASSUME NEW s \in Seq(Chars), NEW f, Reads(f, s), NEW i \in 1..(Len(s) + 1)
  PROVE  /\ f[i] \in Seq(Chars)
         /\ i = Len(s) + 1 => f[i] = <<>>
         /\ i <= Len(s) => f[i] = <<CharAt(s, i)>> \o f[AfterChar(s, i)]
<1>1. Len(s) \in Nat /\ i \in 1..(Len(s) + 3)
  OBVIOUS
<1>2. ReadsFrom(f, s, i)
  BY <1>1 DEF Reads
<1>3. i = Len(s) + 1 => i > Len(s)
  BY <1>1
<1>4. i <= Len(s) => ~(i > Len(s))
  BY <1>1
<1> QED
  BY <1>2, <1>3, <1>4 DEF ReadsFrom

\* What stands behind a place means the same without what is before it.
IsEnd(t, s, d) == Len(s) = d + Len(t) /\ \A j \in 1..Len(t) : s[d + j] = t[j]

LEMMA ReadBehind ==
  ASSUME NEW s \in Seq(Chars), NEW t \in Seq(Chars), NEW d \in Nat,
         IsEnd(t, s, d), NEW f, Reads(f, s), NEW g, Reads(g, t)
  PROVE  f[d + 1] = g[1]
<1> DEFINE n == Len(t)
           T == {i \in 1..(n + 1) : f[d + i] = g[i]}
<1>1. n \in Nat /\ Len(s) = d + n /\ Len(t) = n /\ \A j \in 1..n : s[d + j] = t[j]
  BY DEF IsEnd
<1> HIDE DEF n
<1>2. n + 1 \in T
  <2>1. d + (n + 1) \in 1..(Len(s) + 1) /\ d + (n + 1) = Len(s) + 1 /\ n + 1 \in 1..(Len(t) + 1)
    BY <1>1
  <2>2. f[d + (n + 1)] = <<>>
    BY <2>1, ReadsAt
  <2>3. g[n + 1] = <<>>
    BY <1>1, <2>1, ReadsAt
  <2> QED
    BY <1>1, <2>2, <2>3
<1>3. ASSUME NEW i \in 1..n, \A j \in 1..(n + 1) : i < j => j \in T
      PROVE  i \in T
  <2> DEFINE x == d + i
  <2>1. /\ x \in 1..Len(s) /\ x \in 1..(Len(s) + 1) /\ x <= Len(s)
        /\ i \in 1..Len(t) /\ i \in 1..(Len(t) + 1) /\ i <= Len(t) /\ i \in 1..(n + 1)
    BY <1>1
  <2>2. s[x] = t[i]
    BY <1>1, <2>1
  <2>3. IsEscape(s, x) <=> IsEscape(t, i)
    <3>1. x + 2 <= Len(s) <=> i + 2 <= Len(t)
      BY <1>1
    <3>2. i + 2 <= Len(t) => s[x + 1] = t[i + 1] /\ s[x + 2] = t[i + 2]
      <4>1. ASSUME i + 2 <= Len(t)
            PROVE  i + 1 \in 1..Len(t) /\ i + 2 \in 1..Len(t) /\ d + (i + 1) = x + 1 /\ d + (i + 2) = x + 2
        BY <1>1, <4>1
      <4> HIDE DEF x
      <4> QED
        BY <1>1, <4>1
    <3> HIDE DEF x
    <3> QED
      BY <2>2, <3>1, <3>2 DEF IsEscape
  <2>4. CharAt(s, x) = CharAt(t, i) /\ AfterChar(s, x) = d + AfterChar(t, i)
    <3>1. CASE IsEscape(t, i)
      <4>1. i + 1 \in 1..Len(t) /\ i + 2 \in 1..Len(t) /\ d + (i + 1) = x + 1 /\ d + (i + 2) = x + 2
            /\ d + (i + 3) = x + 3
        BY <1>1, <3>1 DEF IsEscape
      <4> HIDE DEF x
      <4>2. s[x + 1] = t[i + 1] /\ s[x + 2] = t[i + 2]
        BY <1>1, <4>1, SMTT(30)
      <4> QED
        BY <2>3, <3>1, <4>1, <4>2 DEF CharAt, AfterChar
    <3>2. CASE ~IsEscape(t, i)
      <4>1. d + (i + 1) = x + 1
        BY <1>1
      <4> HIDE DEF x
      <4> QED
        BY <2>2, <2>3, <3>2, <4>1 DEF CharAt, AfterChar
    <3> QED
      BY <3>1, <3>2
  <2> DEFINE k == AfterChar(t, i)
  <2>5. k \in 1..(n + 1) /\ i < k
    BY <1>1, <2>1, CharIn
  <2> HIDE DEF k
  <2>6. f[d + k] = g[k]
    BY <1>3, <2>5
  <2>7. f[x] = <<CharAt(s, x)>> \o f[AfterChar(s, x)]
    <3> HIDE DEF x
    <3> QED
      BY <2>1, ReadsAt
  <2>8. g[i] = <<CharAt(t, i)>> \o g[k]
    BY <2>1, ReadsAt DEF k
  <2> QED
    BY <2>1, <2>4, <2>6, <2>7, <2>8 DEF k
<1>4. \A i \in 1..(n + 1) : i \in T
  <2> HIDE DEF T
  <2> QED
    BY <1>1, <1>2, <1>3, EndInduction
<1> QED
  BY <1>1, <1>4

\* The parts of a text stand for the parts of what it stands for, where no
\* escape begins in the one and ends in the other.
LEMMA DecodedJoins ==
  ASSUME NEW a \in Seq(Chars), NEW b \in Seq(Chars), WellFormed(a)
  PROVE  Decoded(a \o b) = Decoded(a) \o Decoded(b)
<1> DEFINE c == a \o b
           n == Len(a)
<1>1. Follows(Chars, c, a, b)
  BY ConcatFollows
<1> HIDE DEF c
<1>2. /\ n \in Nat /\ Len(a) = n /\ Len(b) \in Nat /\ c \in Seq(Chars) /\ Len(c) = n + Len(b)
      /\ \A j \in 1..n : c[j] = a[j]
      /\ \A j \in 1..Len(b) : c[n + j] = b[j]
  BY <1>1 DEF Follows
<1>3. PICK f : Reads(f, c) /\ Decoded(c) = f[1]
  BY <1>2, DecodedReads
<1>4. PICK g : Reads(g, a) /\ Decoded(a) = g[1]
  BY DecodedReads
<1>5. PICK h : Reads(h, b) /\ Decoded(b) = h[1]
  BY DecodedReads
<1> HIDE DEF n
<1> DEFINE v == h[1]
           T == {i \in 1..(n + 1) : f[i] = g[i] \o v}
<1>6. v \in Seq(Chars)
  <2>1. 1 \in 1..(Len(b) + 1)
    BY <1>2
  <2> QED
    BY <1>5, <2>1, ReadsAt
<1>7. n + 1 \in T
  <2>0. IsEnd(b, c, n)
    BY <1>2 DEF IsEnd
  <2>1. f[n + 1] = v
    BY <1>2, <1>3, <1>5, <2>0, ReadBehind
  <2>2. n + 1 \in 1..(Len(a) + 1) /\ n + 1 = Len(a) + 1
    BY <1>2
  <2>3. g[n + 1] = <<>>
    BY <1>4, <2>2, ReadsAt
  <2> HIDE DEF v
  <2>4. <<>> \o v = v
    BY <1>6, ConcatEmptySeq
  <2> QED
    BY <1>2, <2>1, <2>2, <2>3, <2>4
<1>8. ASSUME NEW i \in 1..n, \A j \in 1..(n + 1) : i < j => j \in T
      PROVE  i \in T
  <2>1. /\ i \in 1..Len(a) /\ i \in 1..(Len(a) + 1) /\ i <= Len(a) /\ i \in 1..(n + 1)
        /\ i \in 1..(Len(c) + 1) /\ i <= Len(c)
    BY <1>2
  <2>2. c[i] = a[i]
    BY <1>2
  <2>3. /\ IsEscape(c, i) <=> IsEscape(a, i)
        /\ IsEscape(a, i) => c[i + 1] = a[i + 1] /\ c[i + 2] = a[i + 2]
    <3>1. ASSUME IsEscape(a, i)
          PROVE  IsEscape(c, i) /\ c[i + 1] = a[i + 1] /\ c[i + 2] = a[i + 2]
      <4>1. i + 2 <= Len(c) /\ i + 1 \in 1..n /\ i + 2 \in 1..n
        BY <1>2, <3>1 DEF IsEscape
      <4>2. c[i + 1] = a[i + 1] /\ c[i + 2] = a[i + 2]
        BY <1>2, <4>1
      <4> QED
        BY <2>2, <3>1, <4>1, <4>2 DEF IsEscape
    <3>2. IsEscape(c, i) => IsEscape(a, i)
      <4>1. IsEscape(c, i) => a[i] = "%"
        BY <2>2 DEF IsEscape
      <4>2. i \in DOMAIN a
        BY <1>2
      <4> QED
        BY <4>1, <4>2 DEF WellFormed
    <3> QED
      BY <3>1, <3>2
  <2>4. CharAt(c, i) = CharAt(a, i) /\ AfterChar(c, i) = AfterChar(a, i)
    BY <2>2, <2>3 DEF CharAt, AfterChar
  <2> DEFINE k == AfterChar(a, i)
             one == <<CharAt(a, i)>>
             w == g[k]
  <2>5. k \in 1..(n + 1) /\ i < k /\ CharAt(a, i) \in Chars
    BY <1>2, <2>1, CharIn
  <2>6. one \in Seq(Chars)
    BY <2>5
  <2>7. w \in Seq(Chars)
    <3> HIDE DEF k
    <3>1. k \in 1..(Len(a) + 1)
      BY <1>2, <2>5
    <3> QED
      BY <1>4, <3>1, ReadsAt
  <2>8. f[k] = w \o v
    <3> HIDE DEF k, v
    <3> QED
      BY <1>8, <2>5
  <2>9. f[i] = one \o f[k]
    <3>1. f[i] = <<CharAt(c, i)>> \o f[AfterChar(c, i)]
      BY <1>2, <1>3, <2>1, ReadsAt
    <3> QED
      BY <2>4, <3>1
  <2>10. g[i] = one \o w
    BY <1>4, <2>1, ReadsAt
  <2> HIDE DEF one, w, v, k
  <2>11. (one \o w) \o v = one \o (w \o v)
    BY <1>6, <2>6, <2>7, ConcatAssociative, SMTT(120)
  <2> QED
    BY <2>1, <2>8, <2>9, <2>10, <2>11
<1>9. \A i \in 1..(n + 1) : i \in T
  <2> HIDE DEF T
  <2> QED
    BY <1>2, <1>7, <1>8, EndInduction
<1>10. f[1] = g[1] \o v
  <2>1. 1 \in 1..(n + 1)
    BY <1>2
  <2> HIDE DEF v
  <2> QED
    BY <1>9, <2>1
<1> QED
  BY <1>3, <1>4, <1>5, <1>10 DEF c, v

Plain(s) == \A i \in 1..Len(s) : s[i] # "%"

LEMMA DecodedPlain ==
  ASSUME NEW a \in Seq(Chars), Plain(a)
  PROVE  Decoded(a) = a
<1> DEFINE n == Len(a)
           IsRest(t, i) == /\ t \in Seq(Chars) /\ Len(t) = n + 1 - i
                           /\ \A j \in 1..(n + 1 - i) : t[j] = a[i + j - 1]
<1>1. n \in Nat /\ Len(a) = n
  OBVIOUS
<1>2. PICK g : Reads(g, a) /\ Decoded(a) = g[1]
  BY DecodedReads
<1> HIDE DEF n
<1> DEFINE T == {i \in 1..(n + 1) : IsRest(g[i], i)}
<1>3. n + 1 \in T
  <2>1. n + 1 \in 1..(Len(a) + 1) /\ n + 1 = Len(a) + 1 /\ n + 1 \in 1..(n + 1) /\ n + 1 - (n + 1) = 0
    BY <1>1
  <2> DEFINE t == g[n + 1]
  <2>2. t = <<>> /\ t \in Seq(Chars)
    BY <1>2, <2>1, ReadsAt
  <2>3. Len(t) = 0
    BY <2>2
  <2> HIDE DEF t
  <2>4. IsRest(t, n + 1)
    BY <1>1, <2>1, <2>2, <2>3
  <2> QED
    BY <2>1, <2>4 DEF t
<1>4. ASSUME NEW i \in 1..n, \A j \in 1..(n + 1) : i < j => j \in T
      PROVE  i \in T
  <2>1. /\ i \in 1..Len(a) /\ i \in 1..(Len(a) + 1) /\ i <= Len(a)
        /\ i \in 1..(n + 1) /\ i + 1 \in 1..(n + 1) /\ i < i + 1 /\ a[i] # "%" /\ a[i] \in Chars
    BY <1>1 DEF Plain
  <2>2. CharAt(a, i) = a[i] /\ AfterChar(a, i) = i + 1
    BY <2>1 DEF CharAt, AfterChar, IsEscape
  <2> DEFINE one == <<a[i]>>
             w == g[i + 1]
             c == one \o w
  <2>3. g[i] = c
    BY <1>2, <2>1, <2>2, ReadsAt
  <2>4. IsRest(w, i + 1)
    BY <1>4, <2>1
  <2>5. one \in Seq(Chars) /\ Len(one) = 1 /\ one[1] = a[i]
    BY <2>1
  <2>6. w \in Seq(Chars) /\ Len(w) = n - i /\ \A j \in 1..(n - i) : w[j] = a[i + j]
    <3>1. n + 1 - (i + 1) = n - i /\ \A j \in 1..(n - i) : i + 1 + j - 1 = i + j
      BY <1>1
    <3> HIDE DEF w
    <3> QED
      BY <2>4, <3>1
  <2> HIDE DEF one, w
  <2>7. Follows(Chars, c, one, w)
    BY <2>5, <2>6, ConcatFollows
  <2> HIDE DEF c
  <2>8. /\ c \in Seq(Chars) /\ Len(c) = 1 + (n - i) /\ c[1] = a[i]
        /\ \A j \in 1..(n - i) : c[1 + j] = a[i + j]
    BY <2>5, <2>6, <2>7 DEF Follows
  <2>9. ASSUME NEW j \in 1..(n + 1 - i) PROVE c[j] = a[i + j - 1]
    <3>1. CASE j = 1
      BY <2>8, <3>1
    <3>2. CASE j # 1
      <4>1. j - 1 \in 1..(n - i) /\ 1 + (j - 1) = j /\ i + (j - 1) = i + j - 1
        BY <1>1, <3>2
      <4>2. c[1 + (j - 1)] = a[i + (j - 1)]
        BY <2>8, <4>1
      <4> QED
        BY <4>1, <4>2
    <3> QED
      BY <3>1, <3>2
  <2>10. Len(c) = n + 1 - i
    BY <1>1, <2>8
  <2>11. IsRest(c, i)
    BY <2>8, <2>9, <2>10
  <2> HIDE DEF IsRest
  <2> QED
    BY <2>1, <2>3, <2>11
<1>5. \A i \in 1..(n + 1) : i \in T
  <2> HIDE DEF T
  <2> QED
    BY <1>1, <1>3, <1>4, EndInduction
<1> DEFINE t == g[1]
<1>6. t \in Seq(Chars) /\ Len(t) = n /\ \A j \in 1..n : t[j] = a[j]
  <2>1. 1 \in 1..(n + 1) /\ n + 1 - 1 = n /\ \A j \in 1..n : 1 + j - 1 = j
    BY <1>1
  <2>2. IsRest(t, 1)
    BY <1>5, <2>1
  <2> HIDE DEF t
  <2> QED
    BY <2>1, <2>2
<1> HIDE DEF t
<1>7. t = a
  BY <1>1, <1>6
<1> QED
  BY <1>2, <1>7 DEF t

LEMMA DecodedEscape ==
  ASSUME NEW x \in HexDigits, NEW y \in HexDigits
  PROVE  Decoded(<<"%", x, y>>) = <<Byte[x][y]>>
<1> DEFINE w == <<"%", x, y>>
           one == <<Byte[x][y]>>
<1>1. w \in Seq(Chars) /\ Len(w) = 3 /\ w[1] = "%" /\ w[2] = x /\ w[3] = y
  BY CharsAre
<1>2. one \in Seq(Chars)
  BY CharsAre
<1> HIDE DEF w
<1>3. PICK g : Reads(g, w) /\ Decoded(w) = g[1]
  BY <1>1, DecodedReads
<1>4. IsEscape(w, 1)
  <2>1. 1 + 2 <= Len(w) /\ w[1 + 1] = x /\ w[1 + 2] = y
    BY <1>1
  <2> QED
    BY <1>1, <2>1 DEF IsEscape
<1>5. CharAt(w, 1) = Byte[x][y] /\ AfterChar(w, 1) = 4
  <2>1. w[1 + 1] = x /\ w[1 + 2] = y /\ 1 + 3 = 4
    BY <1>1
  <2> QED
    BY <1>4, <2>1 DEF CharAt, AfterChar
<1>6. 1 \in 1..(Len(w) + 1) /\ 1 <= Len(w) /\ 4 \in 1..(Len(w) + 1) /\ 4 = Len(w) + 1
  BY <1>1
<1>7. g[1] = one \o g[4]
  BY <1>1, <1>3, <1>5, <1>6, ReadsAt, ZenonT(30)
<1>8. g[4] = <<>>
  BY <1>1, <1>3, <1>6, ReadsAt
<1> HIDE DEF one
<1>9. one \o <<>> = one
  BY <1>2, ConcatEmptySeq
<1> QED
  BY <1>3, <1>7, <1>8, <1>9 DEF w, one

-----------------------------------------------------------------------------
(* Texts whose escapes are complete and stand for no other.                *)

EscapeAt(s, i) ==
  /\ i + 2 <= Len(s) /\ s[i + 1] \in HexDigits /\ s[i + 2] \in HexDigits
  /\ Byte[s[i + 1]][s[i + 2]] # "%"

LEMMA EscapesAre ==
  ASSUME NEW s \in Seq(Chars)
  PROVE  /\ WellEscaped(s) <=> \A i \in 1..Len(s) : s[i] = "%" => EscapeAt(s, i)
         /\ WellEscaped(s) => WellFormed(s)
<1>1. DOMAIN s = 1..Len(s)
  OBVIOUS
<1> QED
  BY <1>1 DEF WellEscaped, WellFormed, IsEscape, EscapeAt

LEMMA PlainEscaped ==
  ASSUME NEW s \in Seq(Chars), Plain(s)
  PROVE  WellEscaped(s) /\ WellFormed(s)
BY EscapesAre DEF Plain

\* The end of such a text is one.
LEMMA EndEscaped ==
  ASSUME NEW s \in Seq(Chars), WellEscaped(s), NEW t \in Seq(Chars), NEW d \in Nat, IsEnd(t, s, d)
  PROVE  WellEscaped(t)
<1>1. ASSUME NEW i \in 1..Len(t), t[i] = "%" PROVE EscapeAt(t, i)
  <2> DEFINE x == d + i
  <2>1. Len(s) = d + Len(t) /\ \A j \in 1..Len(t) : s[d + j] = t[j]
    BY DEF IsEnd
  <2>2. x \in 1..Len(s) /\ s[x] = "%" /\ Len(t) \in Nat
    BY <1>1, <2>1
  <2> HIDE DEF x
  <2>3. EscapeAt(s, x)
    BY <2>2, EscapesAre
  <2>4. i + 2 <= Len(t)
    BY <2>1, <2>2, <2>3 DEF EscapeAt, x
  <2>5. i + 1 \in 1..Len(t) /\ i + 2 \in 1..Len(t) /\ d + (i + 1) = x + 1 /\ d + (i + 2) = x + 2
    BY <2>2, <2>4 DEF x
  <2>6. s[x + 1] = t[i + 1] /\ s[x + 2] = t[i + 2]
    BY <2>1, <2>5, SMTT(30)
  <2> QED
    BY <2>3, <2>4, <2>6 DEF EscapeAt
<1> QED
  BY <1>1, EscapesAre

\* So is its beginning, where that does not end within an escape.
LEMMA StartEscaped ==
  ASSUME NEW s \in Seq(Chars), WellEscaped(s), NEW t, NEW n \in Nat, n <= Len(s),
         Piece(Chars, t, s, 0, n), \A i \in 1..n : s[i] = "%" => i + 2 <= n
  PROVE  WellEscaped(t)
<1>1. t \in Seq(Chars) /\ Len(t) = n /\ \A j \in 1..n : t[j] = s[j]
  <2>1. \A j \in 1..n : 0 + j = j
    OBVIOUS
  <2> QED
    BY <2>1 DEF Piece
<1>2. ASSUME NEW i \in 1..Len(t), t[i] = "%" PROVE EscapeAt(t, i)
  <2>1. i \in 1..n /\ i \in 1..Len(s) /\ s[i] = "%"
    BY <1>1, <1>2
  <2>2. EscapeAt(s, i) /\ i + 2 <= n
    BY <2>1, EscapesAre
  <2>3. i + 1 \in 1..n /\ i + 2 \in 1..n
    BY <2>1, <2>2
  <2> QED
    BY <1>1, <2>2, <2>3 DEF EscapeAt
<1> QED
  BY <1>1, <1>2, EscapesAre

LEMMA JoinEscaped ==
  ASSUME NEW a \in Seq(Chars), WellEscaped(a), NEW b \in Seq(Chars), WellEscaped(b)
  PROVE  WellEscaped(a \o b)
<1> DEFINE c == a \o b
           n == Len(a)
           k == Len(b)
<1>1. Follows(Chars, c, a, b)
  BY ConcatFollows
<1> HIDE DEF c
<1>2. /\ n \in Nat /\ Len(a) = n /\ k \in Nat /\ Len(b) = k /\ c \in Seq(Chars) /\ Len(c) = n + k
      /\ \A j \in 1..n : c[j] = a[j]
      /\ \A j \in 1..k : c[n + j] = b[j]
  BY <1>1 DEF Follows
<1> HIDE DEF n, k
<1>3. ASSUME NEW i \in 1..Len(c), c[i] = "%" PROVE EscapeAt(c, i)
  <2>1. CASE i <= n
    <3>1. i \in 1..n /\ i \in 1..Len(a) /\ a[i] = "%"
      BY <1>2, <1>3, <2>1
    <3>2. EscapeAt(a, i)
      BY <3>1, EscapesAre
    <3>3. i + 2 <= n
      BY <1>2, <3>2 DEF EscapeAt
    <3>4. i + 1 \in 1..n /\ i + 2 \in 1..n /\ i + 2 <= Len(c)
      BY <1>2, <3>1, <3>3
    <3>5. c[i + 1] = a[i + 1] /\ c[i + 2] = a[i + 2]
      BY <1>2, <3>4
    <3> QED
      BY <3>2, <3>4, <3>5 DEF EscapeAt
  <2>2. CASE ~(i <= n)
    <3> DEFINE x == i - n
    <3>1. x \in 1..k /\ n + x = i
      BY <1>2, <2>2
    <3> HIDE DEF x
    <3>2. x \in 1..Len(b) /\ b[x] = "%"
      BY <1>2, <1>3, <3>1
    <3>3. EscapeAt(b, x)
      BY <3>2, EscapesAre
    <3>4. x + 2 <= k
      BY <1>2, <3>3 DEF EscapeAt
    <3>5. x + 1 \in 1..k /\ x + 2 \in 1..k /\ n + (x + 1) = i + 1 /\ n + (x + 2) = i + 2 /\ i + 2 <= Len(c)
      BY <1>2, <3>1, <3>4
    <3>6. c[i + 1] = b[x + 1] /\ c[i + 2] = b[x + 2]
      BY <1>2, <3>5
    <3> QED
      BY <3>3, <3>5, <3>6 DEF EscapeAt
  <2> QED
    BY <2>1, <2>2
<1>4. WellEscaped(c)
  BY <1>2, <1>3, EscapesAre
<1> QED
  BY <1>4 DEF c

\* What one turn of the loop makes of such a text: the character its first
\* escape stands for is between what was before and what was behind the escape.
LEMMA TurnIs ==
  ASSUME NEW s \in Seq(Chars), WellEscaped(s), NEW p \in Nat, p < Len(s), s[p + 1] = "%",
         NEW old
  PROVE  LET n == Len(s)
             a == SubSeq(s, 1, p)
             b == SubSeq(s, p + 4, n)
             x == s[p + 2]
             y == s[p + 3]
             c == Byte[x][y]
         IN  /\ p + 3 <= n /\ x \in HexDigits /\ y \in HexDigits /\ c \in Chars /\ c # "%"
             /\ a \in Seq(Chars) /\ Len(a) = p /\ \A j \in 1..p : a[j] = s[j]
             /\ b \in Seq(Chars) /\ Len(b) = n - (p + 3)
             /\ \A j \in 1..(n - (p + 3)) : b[j] = s[p + 3 + j]
             /\ Turned(s, p, old) = (a \o <<c>>) \o b
<1> DEFINE n == Len(s)
           a == SubSeq(s, 1, p)
           b == SubSeq(s, p + 4, n)
           x == s[p + 2]
           y == s[p + 3]
           c == Byte[x][y]
           one == <<c>>
<1>1. /\ n \in Nat /\ Len(s) = n /\ p + 3 <= n /\ x \in HexDigits /\ y \in HexDigits /\ c # "%"
  <2>1. p + 1 \in 1..Len(s) /\ p + 1 + 1 = p + 2 /\ p + 1 + 2 = p + 3 /\ Len(s) \in Nat
    OBVIOUS
  <2>2. EscapeAt(s, p + 1)
    BY <2>1, EscapesAre
  <2> QED
    BY <2>1, <2>2 DEF EscapeAt
<1>2. c \in Chars /\ one \in Seq(Chars) /\ Len(one) = 1 /\ one[1] = c
  BY <1>1, CharsAre
<1>3. ReadAt(s, p, old) = c
  <2> DEFINE q == p + 1
             hex == SubSeq(s, q + 1, q + 2)
  <2>1. /\ Min({p + 3, Len(s)}) = p + 3
    BY <1>1, MinOfTwo
  <2>2. q \in Nat /\ q + 2 <= Len(s) /\ q + 1 = p + 2 /\ q + 2 = p + 3
    BY <1>1
  <2>3. ReadAt(s, p, old) = Converted(hex, old)
    BY <2>1, <2>2 DEF ReadAt
  <2> HIDE DEF q
  <2>4. Piece(Chars, hex, s, q, 2)
    BY <2>2, PieceOf
  <2> HIDE DEF hex
  <2>5. hex \in Seq(Chars) /\ Len(hex) = 2 /\ hex[1] = x /\ hex[2] = y
    BY <2>2, <2>4 DEF Piece
  <2>6. hex # <<>>
    <3>1. Len(hex) = 2
      BY <2>5
    <3>2. hex = <<>> => Len(hex) = 0
      OBVIOUS
    <3> QED
      BY <3>1, <3>2
  <2> QED
    BY <1>1, <2>3, <2>5, <2>6 DEF Converted
<1>4. a \in Seq(Chars) /\ Len(a) = p /\ \A j \in 1..p : a[j] = s[j]
  <2>1. p <= Len(s) /\ \A j \in 1..p : 0 + j = j
    OBVIOUS
  <2>2. Piece(Chars, a, s, 0, p)
    BY <2>1, StartOf
  <2> HIDE DEF a
  <2> QED
    BY <2>1, <2>2 DEF Piece
<1> DEFINE d == p + 3
           m == n - d
<1>5. d \in Nat /\ m \in Nat /\ d + m = n /\ d + 1 = p + 4 /\ d = p + 3
  <2>1. n \in Nat /\ p + 3 <= n
    BY <1>1
  <2> HIDE DEF n
  <2> QED
    BY <2>1
<1>6. b \in Seq(Chars) /\ Len(b) = m /\ \A j \in 1..m : b[j] = s[d + j]
  <2> HIDE DEF d, m, n
  <2>1. Piece(Chars, SubSeq(s, d + 1, d + m), s, d, m)
    BY <1>1, <1>5, PieceOf
  <2>2. b = SubSeq(s, d + 1, d + m)
    BY <1>5
  <2> HIDE DEF b
  <2> QED
    BY <2>1, <2>2 DEF Piece
<1>7. Turned(s, p, old) = (a \o one) \o b
  BY <1>1, <1>3 DEF Turned
<1> HIDE DEF a, b, one, c
<1> QED
  BY <1>1, <1>2, <1>4, <1>5, <1>6, <1>7 DEF one, a, b, c

\* One turn of the loop changes nothing of what such a text stands for, and
\* leaves such a text.
LEMMA TurnKeeps ==
  ASSUME NEW s \in Seq(Chars), WellEscaped(s), NEW p \in Nat, p < Len(s), s[p + 1] = "%",
         \A i \in 1..p : s[i] # "%", NEW old
  PROVE  /\ Turned(s, p, old) \in Seq(Chars) /\ WellEscaped(Turned(s, p, old))
         /\ Decoded(Turned(s, p, old)) = Decoded(s)
<1> DEFINE n == Len(s)
           a == SubSeq(s, 1, p)
           b == SubSeq(s, p + 4, n)
           x == s[p + 2]
           y == s[p + 3]
           w == <<"%", x, y>>
           c == Byte[x][y]
           one == <<c>>
           d == p + 3
           m == n - d
<1>1. /\ n \in Nat /\ Len(s) = n /\ p + 3 <= n /\ x \in HexDigits /\ y \in HexDigits /\ c # "%"
      /\ c \in Chars
  <2>1. p + 3 <= n /\ x \in HexDigits /\ y \in HexDigits /\ c \in Chars /\ c # "%"
    BY TurnIs
  <2> HIDE DEF x, y, c
  <2> QED
    BY <2>1
<1>2. one \in Seq(Chars) /\ Len(one) = 1 /\ one[1] = c
  BY <1>1
<1>3. w \in Seq(Chars) /\ Len(w) = 3 /\ w[1] = "%" /\ w[2] = x /\ w[3] = y
  BY <1>1, CharsAre
<1>4. a \in Seq(Chars) /\ Len(a) = p /\ \A j \in 1..p : a[j] = s[j]
  BY TurnIs, ZenonT(30)
<1>5. d \in Nat /\ m \in Nat /\ d + m = n /\ d + 1 = p + 4 /\ d = p + 3
  <2>1. n \in Nat /\ p + 3 <= n
    BY <1>1
  <2> HIDE DEF n
  <2> QED
    BY <2>1
<1>6. b \in Seq(Chars) /\ Len(b) = m /\ \A j \in 1..m : b[j] = s[d + j]
  BY TurnIs, ZenonT(30)
<1>7. Turned(s, p, old) = (a \o one) \o b
  BY TurnIs, ZenonT(30)
<1> HIDE DEF n, a, b, w, one, d, m, x, y, c
<1>8. s = (a \o w) \o b
  <2> DEFINE u == a \o w
  <2>1. Follows(Chars, u, a, w)
    BY <1>3, <1>4, ConcatFollows
  <2> HIDE DEF u
  <2>2. /\ u \in Seq(Chars) /\ Len(u) = p + 3 /\ \A j \in 1..p : u[j] = s[j]
        /\ u[p + 1] = "%" /\ u[p + 2] = x /\ u[p + 3] = y
    BY <1>3, <1>4, <2>1 DEF Follows
  <2>3. \A j \in 1..Len(u) : u[j] = s[j]
    <3>1. \A j \in 1..(p + 3) : j \in 1..p \/ j = p + 1 \/ j = p + 2 \/ j = p + 3
      OBVIOUS
    <3> QED
      BY <2>2, <3>1 DEF x, y
  <2>4. Len(u) = d /\ Len(s) = Len(u) + Len(b)
    BY <1>1, <1>5, <1>6, <2>2
  <2>5. Follows(Chars, s, u, b)
    BY <1>6, <2>3, <2>4 DEF Follows
  <2>6. s = u \o b
    BY <1>6, <2>2, <2>5, FollowsOne
  <2> QED
    BY <2>6 DEF u
<1>9. Plain(a) /\ Plain(one)
  <2>1. \A j \in 1..Len(one) : j = 1
    BY <1>2
  <2> QED
    BY <1>1, <1>2, <1>4, <2>1 DEF Plain
<1>10. WellEscaped(b)
  <2>1. IsEnd(b, s, d)
    BY <1>1, <1>5, <1>6 DEF IsEnd
  <2> QED
    BY <1>5, <1>6, <2>1, EndEscaped
<1>11. /\ (a \o w) \o b = a \o (w \o b) /\ (a \o one) \o b = a \o (one \o b)
       /\ w \o b \in Seq(Chars) /\ one \o b \in Seq(Chars)
  <2>0. a \in Seq(Chars) /\ w \in Seq(Chars) /\ b \in Seq(Chars)
    BY <1>3, <1>4, <1>6
  <2>1. (a \o w) \o b = a \o (w \o b)
    BY <2>0, ConcatAssociative, SMTT(120)
  <2>2. (a \o one) \o b = a \o (one \o b)
    BY <1>2, <1>4, <1>6, ConcatAssociative, SMTT(120)
  <2>3. w \o b \in Seq(Chars) /\ one \o b \in Seq(Chars)
    BY <1>2, <1>3, <1>6, ConcatProperties
  <2> QED
    BY <2>1, <2>2, <2>3
<1>12. Decoded(w) = one /\ WellFormed(w)
  <2>1. Decoded(w) = one
    BY <1>1, DecodedEscape DEF w, one, c
  <2>2. WellFormed(w)
    <3>1. DOMAIN w = 1..3 /\ \A i \in 1..3 : i = 1 \/ i = 2 \/ i = 3
      BY <1>3
    <3>2. x # "%" /\ y # "%"
      BY <1>1, CharsAre
    <3>3. IsEscape(w, 1)
      <4>1. 1 + 2 <= Len(w) /\ w[1 + 1] = x /\ w[1 + 2] = y
        BY <1>3
      <4> QED
        BY <1>1, <1>3, <4>1 DEF IsEscape
    <3> QED
      BY <1>3, <3>1, <3>2, <3>3 DEF WellFormed
  <2> QED
    BY <2>1, <2>2
<1>13. Decoded(s) = a \o (one \o Decoded(b))
  <2>1. Decoded(s) = Decoded(a) \o Decoded(w \o b)
    BY <1>4, <1>8, <1>9, <1>11, PlainEscaped, DecodedJoins
  <2>2. Decoded(w \o b) = Decoded(w) \o Decoded(b)
    BY <1>3, <1>6, <1>12, DecodedJoins
  <2>3. Decoded(a) = a
    BY <1>4, <1>9, DecodedPlain
  <2> QED
    BY <1>12, <2>1, <2>2, <2>3
<1> DEFINE t == a \o (one \o b)
<1>14. Decoded(t) = a \o (one \o Decoded(b))
  <2>1. Decoded(t) = Decoded(a) \o Decoded(one \o b)
    BY <1>4, <1>9, <1>11, PlainEscaped, DecodedJoins
  <2>2. Decoded(one \o b) = Decoded(one) \o Decoded(b)
    BY <1>2, <1>6, <1>9, PlainEscaped, DecodedJoins
  <2>3. Decoded(a) = a /\ Decoded(one) = one
    BY <1>2, <1>4, <1>9, DecodedPlain
  <2> QED
    BY <2>1, <2>2, <2>3
<1>15. WellEscaped(t) /\ t \in Seq(Chars)
  <2>1. WellEscaped(a) /\ WellEscaped(one)
    BY <1>2, <1>4, <1>9, PlainEscaped
  <2>2. WellEscaped(one \o b)
    BY <1>2, <1>6, <1>10, <2>1, JoinEscaped
  <2>3. WellEscaped(t)
    BY <1>4, <1>11, <2>1, <2>2, JoinEscaped
  <2>4. t \in Seq(Chars)
    BY <1>4, <1>11, ConcatProperties
  <2> QED
    BY <2>3, <2>4
<1>16. Turned(s, p, old) = t
  BY <1>7, <1>11
<1> HIDE DEF t
<1> QED
  BY <1>13, <1>14, <1>15, <1>16

\* The characters of a text after one turn of the loop.
LEMMA TurnPlaces ==
  ASSUME NEW s \in Seq(Chars), WellEscaped(s), NEW p \in Nat, p < Len(s), s[p + 1] = "%",
         NEW old
  PROVE  LET t == Turned(s, p, old) IN
         /\ t \in Seq(Chars) /\ Len(t) = Len(s) - 2 /\ p + 3 <= Len(s)
         /\ s[p + 2] # "%" /\ s[p + 3] # "%" /\ t[p + 1] # "%"
         /\ \A i \in 1..p : t[i] = s[i]
         /\ \A i \in (p + 2)..Len(t) : t[i] = s[i + 2]
<1> DEFINE n == Len(s)
           t == Turned(s, p, old)
           a == SubSeq(s, 1, p)
           b == SubSeq(s, p + 4, n)
           c == Byte[s[p + 2]][s[p + 3]]
           m == n - (p + 3)
           one == <<c>>
           u == a \o one
<1>1. p + 3 <= n /\ s[p + 2] \in HexDigits /\ s[p + 3] \in HexDigits /\ c \in Chars /\ c # "%"
  BY TurnIs, ZenonT(30)
<1>2. a \in Seq(Chars) /\ Len(a) = p /\ \A j \in 1..p : a[j] = s[j]
  BY TurnIs, ZenonT(30)
<1>3. b \in Seq(Chars) /\ Len(b) = m /\ \A j \in 1..m : b[j] = s[p + 3 + j]
  BY TurnIs, ZenonT(30)
<1>4. t = u \o b
  BY TurnIs, ZenonT(30)
<1>5. n \in Nat /\ m \in Nat /\ p + 3 + m = n /\ Len(s) = n
  BY <1>1
<1> HIDE DEF n, t, a, b, c, m
<1>6. one \in Seq(Chars) /\ Len(one) = 1 /\ one[1] = c
  BY <1>1
<1> HIDE DEF one
<1>7. Follows(Chars, u, a, one)
  BY <1>2, <1>6, ConcatFollows
<1> HIDE DEF u
<1>8. u \in Seq(Chars) /\ Len(u) = p + 1 /\ u[p + 1] = c /\ \A j \in 1..p : u[j] = s[j]
  <2>1. /\ u \in Seq(Chars) /\ Len(u) = p + 1 /\ \A j \in 1..p : u[j] = a[j]
        /\ \A j \in 1..1 : u[p + j] = one[j]
    BY <1>2, <1>6, <1>7 DEF Follows
  <2>2. 1 \in 1..1
    OBVIOUS
  <2> QED
    BY <1>2, <1>6, <2>1, <2>2
<1>9. Follows(Chars, t, u, b)
  BY <1>3, <1>4, <1>8, ConcatFollows
<1>10. /\ t \in Seq(Chars) /\ Len(t) = p + 1 + m
       /\ \A j \in 1..(p + 1) : t[j] = u[j]
       /\ \A j \in 1..m : t[p + 1 + j] = b[j]
  BY <1>3, <1>8, <1>9 DEF Follows
<1>11. Len(t) = n - 2
  BY <1>5, <1>10
<1>12. t[p + 1] # "%" /\ \A i \in 1..p : t[i] = s[i]
  <2>1. p + 1 \in 1..(p + 1) /\ \A i \in 1..p : i \in 1..(p + 1)
    OBVIOUS
  <2> QED
    BY <1>1, <1>8, <1>10, <2>1
<1>13. ASSUME NEW i \in (p + 2)..Len(t) PROVE t[i] = s[i + 2]
  <2> DEFINE j == i - (p + 1)
  <2>1. j \in 1..m /\ p + 1 + j = i /\ p + 3 + j = i + 2
    BY <1>5, <1>10, <1>13
  <2> HIDE DEF j
  <2>2. t[p + 1 + j] = b[j] /\ b[j] = s[p + 3 + j]
    BY <1>3, <1>10, <2>1
  <2> QED
    BY <2>1, <2>2
<1>14. s[p + 2] # "%" /\ s[p + 3] # "%"
  BY <1>1, CharsAre
<1> QED
  BY <1>1, <1>5, <1>10, <1>11, <1>12, <1>13, <1>14 DEF t

\* One turn of the loop uses up one escape and makes none: what escapes are
\* left are those behind it, two places further on.
LEMMA TurnCounts ==
  ASSUME NEW s \in Seq(Chars), WellEscaped(s), NEW p \in Nat, p < Len(s), s[p + 1] = "%",
         \A i \in 1..p : s[i] # "%", NEW old
  PROVE  Escapes(Turned(s, p, old)) = Escapes(s) - 1
<1> DEFINE t == Turned(s, p, old)
           S == {i \in 1..Len(s) : s[i] = "%"}
           T == {i \in 1..Len(t) : t[i] = "%"}
           R == S \ {p + 1}
           f == [i \in T |-> i + 2]
<1>1. /\ t \in Seq(Chars) /\ Len(t) = Len(s) - 2 /\ p + 3 <= Len(s)
      /\ s[p + 2] # "%" /\ s[p + 3] # "%" /\ t[p + 1] # "%"
      /\ \A i \in 1..p : t[i] = s[i]
      /\ \A i \in (p + 2)..Len(t) : t[i] = s[i + 2]
  BY TurnPlaces
<1> HIDE DEF t
<1>2. Len(s) \in Nat /\ Len(t) \in Nat /\ DOMAIN s = 1..Len(s) /\ DOMAIN t = 1..Len(t)
  BY <1>1
<1>3. Escapes(s) = Cardinality(S) /\ Escapes(t) = Cardinality(T)
  BY <1>2 DEF Escapes
<1>4. \A i : i \in R <=> i \in (p + 4)..Len(s) /\ s[i] = "%"
  <2>1. ASSUME NEW i \in R PROVE i \in (p + 4)..Len(s) /\ s[i] = "%"
    <3>1. i \in 1..Len(s) /\ s[i] = "%" /\ i # p + 1
      OBVIOUS
    <3>2. ~(i \in 1..p) /\ i # p + 2 /\ i # p + 3
      BY <1>1, <3>1
    <3> QED
      BY <1>2, <3>1, <3>2
  <2>2. ASSUME NEW i \in (p + 4)..Len(s), s[i] = "%" PROVE i \in R
    <3>1. i \in 1..Len(s) /\ i # p + 1
      BY <1>2
    <3> QED
      BY <2>2, <3>1
  <2> QED
    BY <2>1, <2>2
<1>5. \A i : i \in T <=> i \in (p + 2)..Len(t) /\ s[i + 2] = "%"
  <2>1. ASSUME NEW i \in T PROVE i \in (p + 2)..Len(t) /\ s[i + 2] = "%"
    <3>1. i \in 1..Len(t) /\ t[i] = "%"
      OBVIOUS
    <3>2. ~(i \in 1..p) /\ i # p + 1
      BY <1>1, <3>1
    <3>3. i \in (p + 2)..Len(t)
      BY <1>2, <3>1, <3>2
    <3> QED
      BY <1>1, <3>1, <3>3
  <2>2. ASSUME NEW i \in (p + 2)..Len(t), s[i + 2] = "%" PROVE i \in T
    <3>1. i \in 1..Len(t) /\ t[i] = s[i + 2]
      BY <1>1, <1>2
    <3> QED
      BY <2>2, <3>1
  <2> QED
    BY <2>1, <2>2
<1>6. IsFiniteSet(S) /\ p + 1 \in S
  <2>1. IsFiniteSet(1..Len(s)) /\ S \in SUBSET (1..Len(s))
    BY <1>2, FS_Interval
  <2>2. IsFiniteSet(S)
    <3> HIDE DEF S
    <3> QED
      BY <2>1, FS_Subset
  <2>3. p + 1 \in S
    BY <1>1, <1>2
  <2> QED
    BY <2>2, <2>3
<1> HIDE DEF S
<1>7. IsFiniteSet(R) /\ Cardinality(R) = Cardinality(S) - 1
  <2> DEFINE e == p + 1
  <2>1. e \in S /\ R = S \ {e}
    BY <1>6
  <2> HIDE DEF e, R
  <2>2. IsFiniteSet(S \ {e}) /\ Cardinality(S \ {e}) = Cardinality(S) - 1
    BY <1>6, <2>1, FS_RemoveElement
  <2> QED
    BY <2>1, <2>2
<1> HIDE DEF R, T
<1>8. ASSUME NEW i \in T PROVE i + 2 \in R /\ i \in Int
  <2>1. i \in (p + 2)..Len(t) /\ s[i + 2] = "%"
    BY <1>5
  <2>2. i \in Int /\ i + 2 \in (p + 4)..Len(s)
    BY <1>1, <1>2, <2>1
  <2> QED
    BY <1>4, <2>1, <2>2
<1>9. ASSUME NEW k \in R PROVE \E i \in T : f[i] = k
  <2> DEFINE i == k - 2
  <2>1. i \in (p + 2)..Len(t) /\ i + 2 = k /\ s[k] = "%"
    BY <1>1, <1>2, <1>4
  <2>2. i \in T
    BY <1>5, <2>1
  <2> HIDE DEF i
  <2>3. f[i] = k
    BY <2>1, <2>2
  <2> QED
    BY <2>2, <2>3
<1>10. f \in [T -> R] /\ \A i \in T, j \in T : f[i] = f[j] => i = j
  <2>1. f \in [T -> R]
    BY <1>8
  <2>2. ASSUME NEW i \in T, NEW j \in T, f[i] = f[j] PROVE i = j
    <3>1. i + 2 = j + 2
      BY <2>2
    <3> QED
      BY <1>8, <3>1
  <2> QED
    BY <2>1, <2>2
<1> HIDE DEF f
<1>11. f \in Injection(T, R) /\ f \in Surjection(T, R)
  BY <1>9, <1>10 DEF Injection, IsInjective, Surjection
<1>12. Cardinality(T) = Cardinality(R)
  BY <1>7, <1>11, FS_Injection
<1> QED
  BY <1>3, <1>7, <1>12 DEF t

-----------------------------------------------------------------------------
(* What becomes of a uri.                                                  *)

LEMMA SuffixIs ==
  ASSUME NEW y \in Seq(Chars), NEW z \in Seq(Chars), Len(z) = 2
  PROVE  IsSuffix(z, y \o z)
<1> DEFINE c == y \o z
           n == Len(y)
           r == Reverse(z)
           q == Reverse(c)
<1>1. Follows(Chars, c, y, z)
  BY ConcatFollows
<1> HIDE DEF c
<1>2. n \in Nat /\ Len(y) = n /\ c \in Seq(Chars) /\ Len(c) = n + 2 /\ c[n + 1] = z[1] /\ c[n + 2] = z[2]
  BY <1>1 DEF Follows
<1> HIDE DEF n
<1>3. r \in Seq(Chars) /\ Len(r) = 2 /\ r[1] = z[2] /\ r[2] = z[1]
  <2>1. r = [i \in 1..2 |-> z[2 - i + 1]]
    BY DEF Reverse
  <2>2. \A i \in 1..2 : 2 - i + 1 \in 1..2 /\ z[2 - i + 1] \in Chars
    BY SMTT(120)
  <2>3. 2 - 1 + 1 = 2 /\ 2 - 2 + 1 = 1
    OBVIOUS
  <2> HIDE DEF r
  <2> QED
    BY <2>1, <2>2, <2>3
<1>4. q \in Seq(Chars) /\ Len(q) = n + 2 /\ q[1] = z[2] /\ q[2] = z[1]
  <2> DEFINE l == n + 2
  <2>1. l \in Nat /\ Len(c) = l
    BY <1>2
  <2>2. q = [i \in 1..l |-> c[l - i + 1]]
    BY <2>1 DEF Reverse
  <2>3. \A i \in 1..l : l - i + 1 \in 1..l /\ c[l - i + 1] \in Chars
    BY <1>2, <2>1
  <2>4. l - 1 + 1 = n + 2 /\ l - 2 + 1 = n + 1 /\ 1 \in 1..l /\ 2 \in 1..l
    BY <1>2
  <2> HIDE DEF q, l
  <2>5. q \in Seq(Chars) /\ Len(q) = l
    BY <2>1, <2>2, <2>3
  <2>6. q[1] = c[n + 2] /\ q[2] = c[n + 1]
    BY <2>2, <2>4
  <2> QED
    BY <1>2, <2>5, <2>6 DEF l
<1> HIDE DEF r, q
<1>5. SubSeq(r, 1, 2) = SubSeq(q, 1, 2)
  <2> DEFINE u == SubSeq(r, 1, 2)
             v == SubSeq(q, 1, 2)
  <2>1. 2 \in Nat /\ 2 <= Len(r) /\ 2 <= Len(q) /\ \A j \in 1..2 : 0 + j = j
    BY <1>2, <1>3, <1>4
  <2>2. Piece(Chars, u, r, 0, 2)
    BY <1>3, <2>1, StartOf
  <2>3. Piece(Chars, v, q, 0, 2)
    BY <1>4, <2>1, StartOf
  <2> HIDE DEF u, v
  <2>4. /\ u \in Seq(Chars) /\ Len(u) = 2 /\ u[1] = r[1] /\ u[2] = r[2]
        /\ v \in Seq(Chars) /\ Len(v) = 2 /\ v[1] = q[1] /\ v[2] = q[2]
    BY <2>1, <2>2, <2>3 DEF Piece
  <2>5. u = <<u[1], u[2]>> /\ v = <<v[1], v[2]>>
    BY <2>4
  <2> QED
    BY <1>3, <1>4, <2>4, <2>5 DEF u, v
<1>6. IsPrefix(r, q)
  BY <1>2, <1>3, <1>4, <1>5 DEF IsPrefix
<1> QED
  BY <1>6 DEF IsSuffix, r, q, c

\* Neither part of the path begins or ends within an escape, and the extension
\* of a script is no part of one.
LEMMA PartsEscaped ==
  ASSUME NEW uri \in Seq(Chars), WellEscaped(Path(uri))
  PROVE  /\ Script(uri) \in Seq(Chars) /\ WellEscaped(Script(uri))
         /\ Info(uri) \in Seq(Chars) /\ WellEscaped(Info(uri))
         /\ Decoded(Path(uri)) = Decoded(Script(uri)) \o Decoded(Info(uri))
         /\ Info(uri) # <<>> =>
              \E i \in DOMAIN Types : IsSuffix(<<".", Types[i]>>, Decoded(Script(uri)))
<1> DEFINE path == Path(uri)
           e == ScriptEnd(path)
           k == Len(path)
           a == Script(uri)
           b == Info(uri)
<1>1. /\ path \in Seq(Chars) /\ e \in Nat /\ e <= k
      /\ Piece(Chars, a, path, 0, e) /\ Piece(Chars, b, path, e, k - e) /\ path = a \o b
  BY PathParts
<1>2. e # k => /\ 2 <= e /\ e + 1 <= k /\ path[e - 1] = "." /\ path[e + 1] = "/"
               /\ \E i \in DOMAIN Types : path[e] = Types[i]
  <2> HIDE DEF path
  <2> QED
    BY <1>1, ScriptEndIs
<1>3. k \in Nat /\ Len(path) = k
  BY <1>1
<1>4. WellEscaped(path)
  OBVIOUS
<1> HIDE DEF path, e, k, a, b
<1>5. ASSUME NEW i \in 1..e, path[i] = "%"
      PROVE  /\ i + 2 <= k /\ path[i + 1] \in HexDigits /\ path[i + 2] \in HexDigits
             /\ path[i + 1] # "/" /\ path[i + 2] # "/" /\ path[i + 1] # "." /\ path[i + 2] # "."
  <2>1. i \in 1..Len(path)
    BY <1>1, <1>3
  <2>2. EscapeAt(path, i)
    BY <1>1, <1>4, <1>5, <2>1, EscapesAre
  <2> QED
    BY <1>3, <2>2, CharsAre DEF EscapeAt
<1>6. ASSUME NEW i \in 1..e, path[i] = "%" PROVE i + 2 <= e
  <2>1. CASE e = k
    BY <1>5, <1>6, <2>1
  <2>2. CASE e # k
    <3>1. i + 1 # e + 1 /\ i + 2 # e + 1
      BY <1>2, <1>5, <1>6, <2>2
    <3> QED
      BY <1>1, <3>1
  <2> QED
    BY <2>1, <2>2
<1>7. a \in Seq(Chars) /\ b \in Seq(Chars) /\ Len(b) = k - e
  BY <1>1 DEF Piece
<1>8. WellEscaped(a)
  BY <1>1, <1>3, <1>4, <1>6, StartEscaped
<1>9. WellEscaped(b)
  <2>1. Len(path) = e + Len(b) /\ \A j \in 1..Len(b) : path[e + j] = b[j]
    <3>1. \A j \in 1..(k - e) : b[j] = path[e + j]
      BY <1>1 DEF Piece
    <3> QED
      BY <1>1, <1>3, <1>7, <3>1
  <2>2. IsEnd(b, path, e)
    BY <2>1 DEF IsEnd
  <2> QED
    BY <1>1, <1>4, <1>7, <2>2, EndEscaped
<1>10. Decoded(path) = Decoded(a) \o Decoded(b)
  <2>1. WellFormed(a)
    BY <1>7, <1>8, EscapesAre
  <2>2. Decoded(a \o b) = Decoded(a) \o Decoded(b)
    BY <1>7, <2>1, DecodedJoins
  <2> QED
    BY <1>1, <2>2
<1>11. ASSUME b # <<>>
       PROVE  \E i \in DOMAIN Types : IsSuffix(<<".", Types[i]>>, Decoded(a))
  <2>1. e # k
    <3>1. e = k => Len(b) = 0
      BY <1>3, <1>7
    <3> QED
      BY <1>7, <1>11, <3>1
  <2>2. PICK i \in DOMAIN Types : path[e] = Types[i]
    BY <1>2, <2>1
  <2> DEFINE n == e - 2
             x == SubSeq(path, 1, n)
             z == <<".", Types[i]>>
  <2>3. n \in Nat /\ n <= Len(path) /\ n + 2 = e /\ n + 1 = e - 1 /\ 2 <= e /\ e + 1 <= k
        /\ path[e - 1] = "." /\ path[e + 1] = "/"
    BY <1>1, <1>2, <1>3, <2>1, SMTT(30)
  <2> HIDE DEF n
  <2>4. Piece(Chars, x, path, 0, n)
    BY <1>1, <2>3, StartOf
  <2>5. Types[i] \in Chars /\ Types[i] # "%"
    <3>1. Types[i] \in Chars
      BY CharsAre
    <3>2. ASSUME path[e] = "%" PROVE FALSE
      <4>1. e \in 1..e
        BY <2>3
      <4>2. path[e + 1] # "/"
        BY <1>5, <3>2, <4>1
      <4> QED
        BY <2>3, <4>2
    <3> QED
      BY <2>2, <3>1, <3>2
  <2>6. z \in Seq(Chars) /\ Len(z) = 2 /\ z[1] = "." /\ z[2] = Types[i]
    BY <2>5, CharsAre
  <2> HIDE DEF x, z
  <2>7. x \in Seq(Chars) /\ Len(x) = n /\ \A j \in 1..n : x[j] = path[j]
    <3>1. \A j \in 1..n : 0 + j = j
      BY <2>3
    <3> QED
      BY <2>4, <3>1 DEF Piece
  <2>8. WellEscaped(x) /\ WellFormed(x)
    <3>1. ASSUME NEW j \in 1..n, path[j] = "%" PROVE j + 2 <= n
      <4>1. j \in 1..e
        BY <2>3
      <4>2. path[j + 1] # "." /\ path[j + 2] # "."
        BY <1>5, <3>1, <4>1
      <4>3. j + 1 # e - 1 /\ j + 2 # e - 1
        BY <2>3, <4>2
      <4> QED
        BY <2>3, <4>3
    <3>2. WellEscaped(x)
      BY <1>1, <1>4, <2>3, <2>4, <3>1, StartEscaped
    <3> QED
      BY <2>7, <3>2, EscapesAre
  <2>9. a = x \o z
    <3>1. Len(a) = e /\ \A j \in 1..e : a[j] = path[j]
      <4>1. \A j \in 1..e : 0 + j = j
        BY <1>1
      <4> QED
        BY <1>1, <4>1 DEF Piece
    <3>2. a[n + 1] = z[1] /\ a[n + 2] = z[2]
      <4>1. n + 1 \in 1..e /\ n + 2 \in 1..e
        BY <2>3
      <4> QED
        BY <2>2, <2>3, <2>6, <3>1, <4>1
    <3>3. /\ Len(a) = Len(x) + Len(z)
          /\ \A j \in 1..Len(x) : a[j] = x[j]
          /\ \A j \in 1..Len(z) : a[Len(x) + j] = z[j]
      <4>1. \A j \in 1..2 : j = 1 \/ j = 2
        OBVIOUS
      <4>2. \A j \in 1..n : j \in 1..e
        BY <2>3
      <4> QED
        BY <2>3, <2>6, <2>7, <3>1, <3>2, <4>1, <4>2
    <3>4. Follows(Chars, a, x, z)
      BY <1>7, <3>3 DEF Follows
    <3> QED
      BY <2>6, <2>7, <3>4, FollowsOne
  <2>10. Decoded(z) = z
    <3>1. Plain(z)
      <4>1. \A j \in 1..2 : j = 1 \/ j = 2
        OBVIOUS
      <4> QED
        BY <2>5, <2>6, <4>1 DEF Plain
    <3> QED
      BY <2>6, <3>1, DecodedPlain
  <2>11. Decoded(a) = Decoded(x) \o z
    BY <2>6, <2>7, <2>8, <2>9, <2>10, DecodedJoins, ZenonT(60)
  <2>12. Decoded(x) \in Seq(Chars)
    <3>1. PICK f : Reads(f, x) /\ Decoded(x) = f[1]
      BY <2>7, DecodedReads
    <3>2. 1 \in 1..(Len(x) + 1)
      BY <2>3, <2>7
    <3> QED
      BY <2>7, <3>1, <3>2, ReadsAt, ZenonT(120)
  <2>13. IsSuffix(z, Decoded(a))
    BY <2>6, <2>11, <2>12, SuffixIs
  <2> QED
    BY <2>13 DEF z
<1> QED
  BY <1>7, <1>8, <1>9, <1>10, <1>11 DEF a, b, path

\* A uri with an escape where its path has a "%".
Escaped(u) ==
  \A i \in 1..Len(u) : u[i] = "%" /\ (\A j \in 1..i : u[j] # "?") => EscapeAt(u, i)

LEMMA PathEscaped ==
  ASSUME NEW uri \in Seq(Chars)
  PROVE  WellEscaped(Path(uri)) <=> Escaped(uri)
<1> DEFINE marks == Found(uri, <<"?">>, 0)
           m == Min(marks)
           k == Len(uri)
           path == Path(uri)
<1>1. /\ marks = {} <=> \A i \in 1..Len(uri) : uri[i] # "?"
      /\ marks # {} => /\ m \in Nat /\ m < k /\ uri[m + 1] = "?"
                       /\ \A i \in 1..m : uri[i] # "?"
      /\ k \in Nat /\ Len(uri) = k
  <2>1. "?" \in Chars
    BY CharsAre
  <2> QED
    BY <2>1, MarkFound
<1>2. path = IF marks = {} THEN uri ELSE SubSeq(uri, 1, m)
  BY DEF Path
<1>3. \A h \in HexDigits : h # "?"
  BY CharsAssumption
<1> HIDE DEF marks, m, k, path
<1>4. CASE marks = {}
  <2>1. \A i \in 1..Len(uri) : \A j \in 1..i : j \in 1..Len(uri)
    BY <1>1
  <2>2. Escaped(uri) <=> \A i \in 1..Len(uri) : uri[i] = "%" => EscapeAt(uri, i)
    BY <1>1, <1>4, <2>1 DEF Escaped
  <2> QED
    BY <1>2, <1>4, <2>2, EscapesAre DEF path
<1>5. CASE marks # {}
  <2>1. m \in Nat /\ m <= Len(uri) /\ path = SubSeq(uri, 1, m) /\ \A j \in 1..m : 0 + j = j
    BY <1>1, <1>2, <1>5
  <2>2. Piece(Chars, path, uri, 0, m)
    BY <2>1, StartOf
  <2>3. path \in Seq(Chars) /\ Len(path) = m /\ \A j \in 1..m : path[j] = uri[j]
    BY <2>1, <2>2 DEF Piece
  <2>4. ASSUME Escaped(uri), NEW i \in 1..Len(path), path[i] = "%" PROVE EscapeAt(path, i)
    <3>1. i \in 1..m /\ i \in 1..Len(uri) /\ uri[i] = "%" /\ \A j \in 1..i : j \in 1..m
      BY <2>1, <2>3, <2>4
    <3>2. EscapeAt(uri, i)
      BY <1>1, <1>5, <2>4, <3>1 DEF Escaped
    <3>3. i + 1 # m + 1 /\ i + 2 # m + 1
      BY <1>1, <1>3, <1>5, <3>2 DEF EscapeAt
    <3>4. i + 2 <= m /\ i + 1 \in 1..m /\ i + 2 \in 1..m
      BY <2>1, <3>1, <3>3
    <3>5. path[i + 1] = uri[i + 1] /\ path[i + 2] = uri[i + 2]
      BY <2>3, <3>4
    <3> QED
      BY <2>3, <3>2, <3>4, <3>5 DEF EscapeAt
  <2>5. ASSUME WellEscaped(path), NEW i \in 1..Len(uri), uri[i] = "%",
               \A j \in 1..i : uri[j] # "?"
        PROVE  EscapeAt(uri, i)
    <3>1. ~(m + 1 \in 1..i)
      BY <1>1, <1>5, <2>5
    <3>2. i \in 1..m
      BY <2>1, <3>1
    <3>3. EscapeAt(path, i)
      BY <2>3, <2>5, <3>2, EscapesAre
    <3>4. i + 2 <= m
      BY <2>3, <3>3 DEF EscapeAt
    <3>5. i + 1 \in 1..m /\ i + 2 \in 1..m /\ i + 2 <= Len(uri)
      BY <2>1, <3>2, <3>4
    <3>6. path[i + 1] = uri[i + 1] /\ path[i + 2] = uri[i + 2]
      BY <2>3, <3>5
    <3> QED
      BY <3>3, <3>5, <3>6 DEF EscapeAt
  <2>6. Escaped(uri) => WellEscaped(path)
    BY <2>3, <2>4, EscapesAre
  <2>7. WellEscaped(path) => Escaped(uri)
    BY <2>5 DEF Escaped
  <2> QED
    BY <2>6, <2>7 DEF path
<1> QED
  BY <1>4, <1>5

\* An erased slash was no part of an escape.
LEMMA ErasedEscaped ==
  ASSUME NEW t \in Seq(Chars), Escaped(t), Doubled_(t) # {}
  PROVE  Escaped(Shorter_(t))
<1> DEFINE m == Min(Doubled_(t))
           u == Shorter_(t)
<1>1. /\ m \in Nat /\ m + 2 <= Len(t) /\ t[m + 1] = "/"
      /\ u \in Seq(Chars) /\ Len(u) = Len(t) - 1
      /\ \A j \in 1..m : u[j] = t[j]
      /\ \A j \in (m + 1)..Len(u) : u[j] = t[j + 1]
  BY ShorterIs
<1> HIDE DEF m, u
<1>2. Len(t) \in Nat /\ Len(u) \in Nat
  BY <1>1
<1>3. SUFFICES ASSUME NEW i \in 1..Len(u), u[i] = "%", \A j \in 1..i : u[j] # "?"
               PROVE  EscapeAt(u, i)
  BY DEF Escaped, u
<1>4. CASE i <= m
  <2>1. i \in 1..m /\ i \in 1..Len(t) /\ \A j \in 1..i : j \in 1..m
    BY <1>1, <1>2, <1>4
  <2>2. t[i] = "%" /\ \A j \in 1..i : t[j] # "?"
    BY <1>1, <1>3, <2>1
  <2>3. EscapeAt(t, i)
    BY <2>1, <2>2 DEF Escaped
  <2>4. i + 1 # m + 1 /\ i + 2 # m + 1
    BY <1>1, <2>3, CharsAre DEF EscapeAt
  <2>5. i + 1 \in 1..m /\ i + 2 \in 1..m /\ i + 2 <= Len(u)
    BY <1>1, <1>2, <2>1, <2>4
  <2>6. u[i + 1] = t[i + 1] /\ u[i + 2] = t[i + 2]
    BY <1>1, <2>5
  <2> QED
    BY <2>3, <2>5, <2>6 DEF EscapeAt
<1>5. CASE ~(i <= m)
  <2> DEFINE k == i + 1
  <2>1. i \in (m + 1)..Len(u) /\ k \in 1..Len(t) /\ k = i + 1
    BY <1>1, <1>2, <1>3, <1>5
  <2> HIDE DEF k
  <2>2. t[k] = "%"
    BY <1>1, <1>3, <2>1
  <2>3. ASSUME NEW j \in 1..k PROVE t[j] # "?"
    <3>1. CASE j \in 1..m
      <4>1. j \in 1..i
        BY <1>1, <2>1, <3>1
      <4> QED
        BY <1>1, <1>3, <3>1, <4>1
    <3>2. CASE j = m + 1
      BY <1>1, <3>2
    <3>3. CASE ~(j \in 1..m) /\ j # m + 1
      <4> DEFINE l == j - 1
      <4>1. l \in (m + 1)..Len(u) /\ l \in 1..i /\ l + 1 = j
        BY <1>1, <1>2, <2>1, <3>3
      <4> HIDE DEF l
      <4>2. u[l] = t[l + 1] /\ u[l] # "?"
        BY <1>1, <1>3, <4>1
      <4> QED
        BY <4>1, <4>2
    <3> QED
      BY <3>1, <3>2, <3>3
  <2>4. EscapeAt(t, k)
    BY <2>1, <2>2, <2>3 DEF Escaped
  <2>5. k + 2 <= Len(t)
    BY <2>4 DEF EscapeAt
  <2>6. /\ i + 1 \in (m + 1)..Len(u) /\ i + 2 \in (m + 1)..Len(u) /\ i + 2 <= Len(u)
        /\ i + 1 + 1 = k + 1 /\ i + 2 + 1 = k + 2
    BY <1>1, <1>2, <2>1, <2>5
  <2>7. u[i + 1] = t[k + 1] /\ u[i + 2] = t[k + 2]
    <3>1. u[i + 1] = t[i + 1 + 1] /\ u[i + 2] = t[i + 2 + 1]
      BY <1>1, <2>6
    <3> QED
      BY <2>6, <3>1
  <2> QED
    BY <2>4, <2>6, <2>7 DEF EscapeAt
<1> QED
  BY <1>4, <1>5

\* A uri keeps its escapes when its doubled slashes are removed, and its parts
\* have them.
LEMMA DoubledEscaped ==
  ASSUME NEW uri \in Seq(Chars), WellEscaped(Path(uri))
  PROVE  RemoveDoubled[uri] \in Seq(Chars) /\ WellEscaped(Path(RemoveDoubled[uri]))
<1> DEFINE P == {t \in Seq(Chars) : Escaped(t)}
<1>1. P \in SUBSET Seq(Chars) /\ uri \in P
  BY PathEscaped
<1>2. ASSUME NEW t \in P, Doubled_(t) # {} PROVE Shorter_(t) \in P
  <2>1. t \in Seq(Chars) /\ Escaped(t)
    OBVIOUS
  <2>2. Shorter_(t) \in Seq(Chars)
    BY <1>2, <2>1, ShorterIs
  <2> QED
    BY <1>2, <2>1, <2>2, ErasedEscaped
<1>3. RemoveDoubled[uri] \in P
  <2> HIDE DEF P
  <2> QED
    BY <1>1, <1>2, DoubledKeeps
<1> QED
  BY <1>3, PathEscaped

\* x stands for what y stood for at first.
Half(x, y) == x \in Seq(Chars) /\ WellEscaped(x) /\ Decoded(x) = Decoded(y)
Decodable(uri) == WellEscaped(Path(uri)) /\ Found(uri, <<"/", "/">>, 0) = {}

\* The inductive invariant: after any number of turns the parts stand for what
\* they stood for, and a part that is done stands for itself.
UriInv ==
  stage # "none" /\ Decodable(message.target) =>
    LET given == Parts(message.target)
    IN  /\ parts.query = given.query
        /\ Half(parts.path_info, given.path_info) /\ Half(parts.pure_uri, given.pure_uri)
        /\ stage # "path_info" => Plain(parts.path_info)
        /\ stage = "constructed" => Plain(parts.pure_uri)

LEMMA PartsHalf ==
  ASSUME NEW uri \in Seq(Chars), WellEscaped(Path(uri))
  PROVE  /\ Half(Parts(uri).path_info, Parts(uri).path_info)
         /\ Half(Parts(uri).pure_uri, Parts(uri).pure_uri)
<1> DEFINE none == <<>>
           info == Info(uri)
           x == IF info = <<"/">> THEN none ELSE info
<1>1. none \in Seq(Chars) /\ WellEscaped(none)
  <2>1. none \in Seq(Chars) /\ Len(none) = 0
    BY EmptySeq
  <2> HIDE DEF none
  <2>2. Plain(none)
    BY <2>1 DEF Plain
  <2> QED
    BY <2>1, <2>2, PlainEscaped
<1>2. info \in Seq(Chars) /\ WellEscaped(info) /\ Script(uri) \in Seq(Chars) /\ WellEscaped(Script(uri))
  BY PartsEscaped
<1>3. Parts(uri).path_info = x /\ Parts(uri).pure_uri = Script(uri)
  BY PartsAre
<1> HIDE DEF none, info
<1>4. x \in Seq(Chars) /\ WellEscaped(x)
  BY <1>1, <1>2
<1> HIDE DEF x
<1> QED
  BY <1>2, <1>3, <1>4 DEF Half

LEMMA UriStep == TextInv /\ UriInv /\ [UNext]_<<vars, textVars>> => UriInv'
<1> SUFFICES ASSUME TextInv, UriInv, [UNext]_<<vars, textVars>>, stage' # "none",
                    Decodable(message'.target)
             PROVE  LET given == Parts(message'.target)
                    IN  /\ parts'.query = given.query
                        /\ Half(parts'.path_info, given.path_info)
                        /\ Half(parts'.pure_uri, given.pure_uri)
                        /\ stage' # "path_info" => Plain(parts'.path_info)
                        /\ stage' = "constructed" => Plain(parts'.pure_uri)
  BY DEF UriInv
<1>1. CASE UReceive
  BY <1>1 DEF UReceive, textVars
<1>2. CASE Construct
  <2>1. /\ parts' = PartsOf[message] /\ stage' = "path_info" /\ message' = message
        /\ message \in Messages
    BY <1>2 DEF Construct, vars, TextInv
  <2>2. parts' = Parts(message'.target) /\ message'.target \in Seq(Chars)
    BY <2>1, PartsOfMessage DEF Decodable
  <2>3. WellEscaped(Path(message'.target))
    BY DEF Decodable
  <2> DEFINE uri == message'.target
  <2> HIDE DEF uri
  <2>4. Half(Parts(uri).path_info, Parts(uri).path_info)
        /\ Half(Parts(uri).pure_uri, Parts(uri).pure_uri)
    BY <2>2, <2>3, PartsHalf DEF uri
  <2> QED
    BY <2>1, <2>2, <2>4 DEF uri
<1>3. CASE NormalizeUri
  <2>1. /\ stage \in {"path_info", "pure_uri"} /\ parts \in TextParts /\ code \in Chars
    BY <1>3 DEF NormalizeUri, TextInv
  <2> DEFINE s == parts[stage]
             p == Percent_(s)
             t == Turned(s, p, code)
             given == Parts(message.target)
  <2>2. /\ s \in Seq(Chars) /\ UNCHANGED vars
        /\ \/ /\ \A i \in 1..Len(s) : s[i] # "%"
              /\ parts' = parts /\ code' \in Chars
              /\ stage' = IF stage = "path_info" THEN "pure_uri" ELSE "constructed"
           \/ /\ p \in Nat /\ p < Len(s) /\ s[p + 1] = "%" /\ \A i \in 1..p : s[i] # "%"
              /\ parts' = [parts EXCEPT ![stage] = t]
              /\ code' \in Chars /\ stage' = stage
    BY <1>3, <2>1, NormalizeIs
  <2>3. message' = message
    BY <2>2 DEF vars
  <2>4. /\ parts.query = given.query
        /\ Half(parts.path_info, given.path_info) /\ Half(parts.pure_uri, given.pure_uri)
        /\ stage # "path_info" => Plain(parts.path_info)
    BY <2>1, <2>3 DEF UriInv
  <2>5. s = IF stage = "path_info" THEN parts.path_info ELSE parts.pure_uri
    BY <2>1
  <2> HIDE DEF s, p, t, given
  <2>6. ASSUME p \in Nat, p < Len(s), s[p + 1] = "%", \A i \in 1..p : s[i] # "%"
        PROVE  t \in Seq(Chars) /\ WellEscaped(t) /\ Decoded(t) = Decoded(s)
    <3>1. WellEscaped(s)
      BY <2>1, <2>4, <2>5 DEF Half
    <3> QED
      BY <2>2, <2>6, <3>1, TurnKeeps DEF t
  <2>7. CASE /\ \A i \in 1..Len(s) : s[i] # "%"
             /\ parts' = parts
             /\ stage' = IF stage = "path_info" THEN "pure_uri" ELSE "constructed"
    <3>1. Plain(s)
      BY <2>7 DEF Plain
    <3> QED
      BY <2>1, <2>3, <2>4, <2>5, <2>7, <3>1 DEF given
  <2>8. CASE /\ p \in Nat /\ p < Len(s) /\ s[p + 1] = "%" /\ \A i \in 1..p : s[i] # "%"
             /\ parts' = [parts EXCEPT ![stage] = t] /\ stage' = stage
    <3>1. CASE stage = "path_info"
      <4>1. parts'.query = parts.query /\ parts'.pure_uri = parts.pure_uri /\ parts'.path_info = t
        BY <2>1, <2>8, <3>1 DEF TextParts
      <4>2. Half(t, given.path_info)
        BY <2>4, <2>5, <2>6, <2>8, <3>1 DEF Half
      <4> QED
        BY <2>3, <2>4, <2>8, <3>1, <4>1, <4>2 DEF given
    <3>2. CASE stage = "pure_uri"
      <4>1. parts'.query = parts.query /\ parts'.pure_uri = t /\ parts'.path_info = parts.path_info
        BY <2>1, <2>8, <3>2 DEF TextParts
      <4>2. Half(t, given.pure_uri)
        BY <2>4, <2>5, <2>6, <2>8, <3>2 DEF Half
      <4> QED
        BY <2>3, <2>4, <2>8, <3>2, <4>1, <4>2 DEF given
    <3> QED
      BY <2>1, <3>1, <3>2
  <2> QED
    BY <2>2, <2>7, <2>8
<1>4. CASE UFinished
  BY <1>4 DEF UFinished, vars, textVars, UriInv
<1>5. CASE UNCHANGED <<vars, textVars>>
  BY <1>5 DEF vars, textVars, UriInv
<1> QED
  BY <1>1, <1>2, <1>3, <1>4, <1>5 DEF UNext

\* A uri without doubled slashes is taken apart without loss, however many
\* escapes its parts hold and wherever they lie: each is decoded once, and
\* what it stands for is not taken for a mark (AHandler::AHandler,
\* normalizeUri).
THEOREM UriTaken == USpec => []UriMeaning
<1>1. UInit => UriInv
  BY DEF UInit, UriInv
<1>2. ASSUME TextInv, UriInv PROVE UriMeaning
  <2> DEFINE uri == message.target
             path == Path(uri)
             a == Script(uri)
             b == Info(uri)
             x == parts.pure_uri
             y == parts.path_info
             given == Parts(uri)
  <2>1. SUFFICES ASSUME stage = "constructed", Decodable(uri)
                 PROVE  /\ Decoded(path) \in {x \o y, x \o <<"/">>}
                        /\ y # <<>> => \E i \in DOMAIN Types : IsSuffix(<<".", Types[i]>>, x)
                        /\ \/ path \o <<"?">> \o parts.query = uri
                           \/ parts.query = <<>> /\ path = uri
    BY DEF UriMeaning, Decodable
  <2>2. uri \in Seq(Chars) /\ WellEscaped(path)
    BY <1>2, <2>1, PartsOfMessage DEF TextInv, Decodable
  <2>3. /\ parts.query = given.query /\ Half(y, given.path_info) /\ Half(x, given.pure_uri)
        /\ Plain(y) /\ Plain(x)
    BY <1>2, <2>1 DEF UriInv
  <2>4. /\ given.pure_uri = a /\ given.query = Query(uri)
        /\ given.path_info = IF b = <<"/">> THEN <<>> ELSE b
    BY <2>2, PartsAre
  <2>5. /\ a \in Seq(Chars) /\ b \in Seq(Chars) /\ Decoded(path) = Decoded(a) \o Decoded(b)
        /\ b # <<>> => \E i \in DOMAIN Types : IsSuffix(<<".", Types[i]>>, Decoded(a))
    BY <2>2, PartsEscaped
  <2>6. x \in Seq(Chars) /\ y \in Seq(Chars)
    BY <2>3 DEF Half
  <2>7. Query(uri) \in Seq(Chars) /\ (\/ path \o <<"?">> \o Query(uri) = uri
                                      \/ Query(uri) = <<>> /\ path = uri)
    BY <2>2, PathIs
  <2> HIDE DEF uri, path, a, b, x, y, given
  <2>8. x = Decoded(a)
    <3>1. Decoded(x) = x
      BY <2>3, <2>6, DecodedPlain
    <3> QED
      BY <2>3, <2>4, <3>1 DEF Half
  <2>9. y = Decoded(given.path_info)
    <3>1. Decoded(y) = y
      BY <2>3, <2>6, DecodedPlain
    <3> QED
      BY <2>3, <3>1 DEF Half
  <2> DEFINE none == <<>>
             slash == <<"/">>
  <2>10. Decoded(none) = none /\ Decoded(slash) = slash
    <3>1. none \in Seq(Chars) /\ slash \in Seq(Chars) /\ Len(none) = 0 /\ Len(slash) = 1 /\ slash[1] = "/"
      BY CharsAre, EmptySeq
    <3> HIDE DEF none, slash
    <3>2. Plain(none) /\ Plain(slash)
      <4>1. \A i \in 1..Len(slash) : i = 1
        BY <3>1
      <4> QED
        BY <3>1, <4>1 DEF Plain
    <3> QED
      BY <3>1, <3>2, DecodedPlain
  <2>11. given.path_info = IF b = slash THEN none ELSE b
    BY <2>4
  <2>12. Decoded(path) \in {x \o y, x \o slash}
    <3> HIDE DEF slash, none
    <3>1. CASE b = slash
      BY <2>5, <2>8, <2>10, <3>1
    <3>2. CASE b # slash
      BY <2>5, <2>8, <2>9, <2>11, <3>2
    <3> QED
      BY <3>1, <3>2
  <2>13. ASSUME y # none PROVE \E i \in DOMAIN Types : IsSuffix(<<".", Types[i]>>, x)
    <3> HIDE DEF slash
    <3>1. b # none
      <4>1. b = none => given.path_info = none
        BY <2>11
      <4> HIDE DEF none
      <4> QED
        BY <2>9, <2>10, <2>13, <4>1
    <3> QED
      BY <2>5, <2>8, <3>1
  <2>14. \/ path \o <<"?">> \o parts.query = uri
         \/ parts.query = <<>> /\ path = uri
    BY <2>3, <2>4, <2>7
  <2> QED
    BY <2>12, <2>13, <2>14
<1>3. TextInv /\ UriInv => UriMeaning
  BY <1>2
<1> QED
  BY <1>1, <1>3, UriStep, TextInvariant, PTL DEF USpec
-----------------------------------------------------------------------------
(* The loop ends.                                                          *)

\* The inductive invariant: the parts that are left have escapes that are
\* complete and stand for no other, even of a uri with doubled slashes.
EscapesInv ==
  stage # "none" /\ WellEscaped(Path(message.target)) =>
    WellEscaped(parts.pure_uri) /\ WellEscaped(parts.path_info)

LEMMA EscapesStep == TextInv /\ EscapesInv /\ [UNext]_<<vars, textVars>> => EscapesInv'
<1> SUFFICES ASSUME TextInv, EscapesInv, [UNext]_<<vars, textVars>>, stage' # "none",
                    WellEscaped(Path(message'.target))
             PROVE  WellEscaped(parts'.pure_uri) /\ WellEscaped(parts'.path_info)
  BY DEF EscapesInv
<1>1. CASE UReceive
  BY <1>1 DEF UReceive, textVars
<1>2. CASE Construct
  <2>1. parts' = PartsOf[message] /\ message' = message /\ message \in Messages
    BY <1>2 DEF Construct, vars, TextInv
  <2> DEFINE uri == message.target
             left == RemoveDoubled[uri]
  <2>2. uri \in Seq(Chars) /\ WellEscaped(Path(uri)) /\ parts' = Parts(left)
    BY <2>1, PartsOfMessage DEF PartsOf
  <2> HIDE DEF uri
  <2>3. left \in Seq(Chars) /\ WellEscaped(Path(left))
    BY <2>2, DoubledEscaped
  <2> HIDE DEF left
  <2>4. Half(Parts(left).path_info, Parts(left).path_info)
        /\ Half(Parts(left).pure_uri, Parts(left).pure_uri)
    BY <2>3, PartsHalf
  <2> QED
    BY <2>2, <2>4 DEF Half
<1>3. CASE NormalizeUri
  <2>1. stage \in {"path_info", "pure_uri"} /\ parts \in TextParts /\ code \in Chars
    BY <1>3 DEF NormalizeUri, TextInv
  <2> DEFINE s == parts[stage]
             p == Percent_(s)
             t == Turned(s, p, code)
  <2>2. /\ s \in Seq(Chars) /\ UNCHANGED vars
        /\ \/ parts' = parts
           \/ /\ p \in Nat /\ p < Len(s) /\ s[p + 1] = "%" /\ \A i \in 1..p : s[i] # "%"
              /\ parts' = [parts EXCEPT ![stage] = t]
    BY <1>3, <2>1, NormalizeIs
  <2>3. WellEscaped(parts.pure_uri) /\ WellEscaped(parts.path_info)
    BY <2>1, <2>2 DEF EscapesInv, vars
  <2>4. WellEscaped(s)
    BY <2>1, <2>3
  <2> HIDE DEF s, p, t
  <2>5. CASE parts' = parts
    BY <2>3, <2>5
  <2>6. CASE /\ p \in Nat /\ p < Len(s) /\ s[p + 1] = "%" /\ \A i \in 1..p : s[i] # "%"
             /\ parts' = [parts EXCEPT ![stage] = t]
    <3>1. WellEscaped(t)
      BY <2>2, <2>4, <2>6, TurnKeeps DEF t
    <3> QED
      BY <2>1, <2>3, <2>6, <3>1 DEF TextParts
  <2> QED
    BY <2>2, <2>5, <2>6
<1>4. CASE UFinished
  BY <1>4 DEF UFinished, vars, textVars, EscapesInv
<1>5. CASE UNCHANGED <<vars, textVars>>
  BY <1>5 DEF vars, textVars, EscapesInv
<1> QED
  BY <1>1, <1>2, <1>3, <1>4, <1>5 DEF UNext

LEMMA EscapesInvariant == USpec => []EscapesInv
<1>1. UInit => EscapesInv
  BY DEF UInit, EscapesInv
<1> QED
  BY <1>1, EscapesStep, TextInvariant, PTL DEF USpec

\* Each turn of the loop that looks again from the beginning has one escape
\* fewer before it, so that it ends whatever the uri, if no escape stands for a
\* "%" (normalizeUri): what is left to the scheduling is that it goes on.
THEOREM EscapesUsedUp == USpec => EscapesRunOut
<1> DEFINE UsesUp == WellEscaped(Path(message.target)) /\ stage \in {"path_info", "pure_uri"}
                     /\ stage' = stage
                     => Escapes(parts'[stage]) = Escapes(parts[stage]) - 1
<1>1. ASSUME TextInv, EscapesInv, UNext PROVE UsesUp \/ UNCHANGED <<vars, textVars>>
  <2> SUFFICES ASSUME WellEscaped(Path(message.target)), stage \in {"path_info", "pure_uri"},
                      stage' = stage
               PROVE  \/ Escapes(parts'[stage]) = Escapes(parts[stage]) - 1
                      \/ UNCHANGED <<vars, textVars>>
    OBVIOUS
  <2>1. ~UReceive /\ ~Construct
    BY DEF UReceive, Construct
  <2>2. CASE UFinished
    BY <2>2 DEF UFinished
  <2>3. CASE NormalizeUri
    <3>1. parts \in TextParts /\ code \in Chars
      BY <1>1 DEF TextInv
    <3> DEFINE s == parts[stage]
               p == Percent_(s)
               t == Turned(s, p, code)
    <3>2. /\ s \in Seq(Chars)
          /\ \/ stage' # stage
             \/ /\ p \in Nat /\ p < Len(s) /\ s[p + 1] = "%" /\ \A i \in 1..p : s[i] # "%"
                /\ parts' = [parts EXCEPT ![stage] = t]
      BY <2>3, <3>1, NormalizeIs
    <3>3. WellEscaped(s)
      BY <1>1 DEF EscapesInv
    <3>4. /\ p \in Nat /\ p < Len(s) /\ s[p + 1] = "%" /\ \A i \in 1..p : s[i] # "%"
          /\ parts' = [parts EXCEPT ![stage] = t]
      BY <3>2
    <3> HIDE DEF p
    <3>5. Escapes(t) = Escapes(s) - 1
      <4> HIDE DEF s
      <4> QED
        BY <3>2, <3>3, <3>4, TurnCounts
    <3>6. parts'[stage] = t
      <4> HIDE DEF t
      <4> QED
        BY <3>1, <3>4 DEF TextParts
    <3> QED
      BY <3>5, <3>6
  <2> QED
    BY <1>1, <2>1, <2>2, <2>3 DEF UNext
<1>2. TextInv /\ EscapesInv /\ [UNext]_<<vars, textVars>> => [UsesUp]_<<vars, textVars>>
  BY <1>1
<1> QED
  BY <1>2, TextInvariant, EscapesInvariant, PTL DEF USpec, EscapesRunOut
=============================================================================
