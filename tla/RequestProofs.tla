---------------------------- MODULE RequestProofs ----------------------------
(***************************************************************************)
(* Proofs about how a request is put together, for any messages, cut by    *)
(* recv() in any way.  dechunk() is a loop over an object that shrinks, so *)
(* what it does is shown by induction over the length of the buffer.       *)
(***************************************************************************)
EXTENDS HTTPRequest, Recursion, SequenceTheorems

-----------------------------------------------------------------------------
(* Places in a buffer.                                                     *)

LEMMA SymbolsDiffer ==
  /\ CR \in Bytes /\ LF \in Bytes /\ StartLine \in Bytes
  /\ CR # LF /\ StartLine # CR /\ StartLine # LF
  /\ \A f \in [kind : FieldKinds, n : Nat] : f \in Bytes /\ f # CR /\ f # LF /\ f # StartLine
<1>1. CR \in Bytes /\ LF \in Bytes /\ StartLine \in Bytes
  BY DEF Bytes, Kinds, CR, LF, StartLine, Symbol
<1>2. CR # LF /\ StartLine # CR /\ StartLine # LF
  BY DEF CR, LF, StartLine, Symbol
<1>3. ASSUME NEW f \in [kind : FieldKinds, n : Nat]
      PROVE  f \in Bytes /\ f # CR /\ f # LF /\ f # StartLine
  <2>1. f.kind \in FieldKinds /\ f.n \in Nat /\ f = [kind |-> f.kind, n |-> f.n]
    OBVIOUS
  <2>2. f.kind \in Kinds /\ f.kind # "CR" /\ f.kind # "LF" /\ f.kind # "start"
    BY <2>1 DEF FieldKinds, Kinds
  <2>3. f \in Bytes
    BY <2>1, <2>2 DEF Bytes
  <2> QED
    BY <2>2, <2>3 DEF CR, LF, StartLine, Symbol
<1> QED
  BY <1>1, <1>2, <1>3

\* A part of a buffer.
IsPart(t, s, a, n) ==
  t \in Seq(Bytes) /\ Len(t) = n /\ \A j \in 1..n : t[j] = s[a + j - 1]

LEMMA PartOf ==
  ASSUME NEW s \in Seq(Bytes), NEW a \in Nat \ {0}, NEW b \in Nat, b <= Len(s)
  PROVE  IsPart(SubSeq(s, a, b), s, a, IF a <= b THEN b - a + 1 ELSE 0)
<1> DEFINE t == SubSeq(s, a, b)
<1>1. \A j \in a..b : s[j] \in Bytes
  OBVIOUS
<1>2. /\ t \in Seq(Bytes) /\ Len(t) = IF a <= b THEN b - a + 1 ELSE 0
      /\ \A j \in 1..(b - a + 1) : t[j] = s[a + j - 1]
  BY <1>1, SubSeqProperties
<1> HIDE DEF t
<1>3. IsPart(t, s, a, IF a <= b THEN b - a + 1 ELSE 0)
  BY <1>2 DEF IsPart
<1> QED
  BY <1>3 DEF t

\* c is s with t behind it.
Joined(c, s, t) ==
  /\ c \in Seq(Bytes) /\ Len(c) = Len(s) + Len(t)
  /\ \A j \in 1..Len(s) : c[j] = s[j]
  /\ \A j \in 1..Len(t) : c[Len(s) + j] = t[j]

LEMMA ConcatJoins ==
  ASSUME NEW s \in Seq(Bytes), NEW t \in Seq(Bytes)
  PROVE  Joined(s \o t, s, t)
BY DEF Joined

\* Where a terminator stands, from a place on; and the end of a header.
TerminatorAt(s, from, i) ==
  /\ i \in Nat /\ from <= i /\ i + 2 <= Len(s) /\ s[i + 1] = CR /\ s[i + 2] = LF
HeaderEndAt(s, i) ==
  /\ i \in Nat /\ i + 4 <= Len(s)
  /\ s[i + 1] = CR /\ s[i + 2] = LF /\ s[i + 3] = CR /\ s[i + 4] = LF

LEMMA TerminatorFound ==
  ASSUME NEW s \in Seq(Bytes), NEW from \in Nat, NEW i
  PROVE  i \in Found(s, Terminator, from) <=> TerminatorAt(s, from, i)
<1>1. Len(s) \in Nat /\ Len(Terminator) = 2
  BY DEF Terminator
<1>2. i \in Found(s, Terminator, from) <=>
        i \in from..(Len(s) - 2) /\ SubSeq(s, i + 1, i + 2) = Terminator
  BY <1>1 DEF Found
<1>3. ASSUME i \in from..(Len(s) - 2)
      PROVE  SubSeq(s, i + 1, i + 2) = Terminator <=> s[i + 1] = CR /\ s[i + 2] = LF
  <2> DEFINE t == SubSeq(s, i + 1, i + 2)
  <2>1. t \in Seq(Bytes) /\ Len(t) = 2 /\ t[1] = s[i + 1] /\ t[2] = s[i + 2]
    <3>1. i \in Nat /\ i + 1 \in Nat \ {0} /\ i + 2 \in Nat /\ i + 2 <= Len(s) /\ i + 1 <= i + 2
      BY <1>1, <1>3
    <3>2. IsPart(t, s, i + 1, IF i + 1 <= i + 2 THEN i + 2 - (i + 1) + 1 ELSE 0)
      BY <3>1, PartOf
    <3>3. (IF i + 1 <= i + 2 THEN i + 2 - (i + 1) + 1 ELSE 0) = 2
      BY <3>1
    <3> HIDE DEF t
    <3> QED
      BY <3>1, <3>2, <3>3 DEF IsPart
  <2> HIDE DEF t
  <2>2. t = <<t[1], t[2]>>
    BY <2>1
  <2>3. t = Terminator <=> s[i + 1] = CR /\ s[i + 2] = LF
    BY <2>1, <2>2 DEF Terminator
  <2> QED
    BY <2>3 DEF t
<1>4. i \in from..(Len(s) - 2) <=> i \in Nat /\ from <= i /\ i + 2 <= Len(s)
  BY <1>1
<1> QED
  BY <1>2, <1>3, <1>4 DEF TerminatorAt

LEMMA HeaderEndFound ==
  ASSUME NEW s \in Seq(Bytes), NEW i
  PROVE  i \in Found(s, HeaderEnd, 0) <=> HeaderEndAt(s, i)
<1>1. Len(s) \in Nat /\ HeaderEnd = <<CR, LF, CR, LF>> /\ Len(HeaderEnd) = 4
  <2>1. Terminator \in Seq(Bytes) /\ Terminator = <<CR, LF>>
    BY SymbolsDiffer DEF Terminator
  <2> DEFINE h == Terminator \o Terminator
  <2>2. /\ h \in Seq(Bytes) /\ Len(h) = 4
        /\ h[1] = CR /\ h[2] = LF /\ h[3] = CR /\ h[4] = LF
    <3>1. Joined(h, Terminator, Terminator)
      BY <2>1, ConcatJoins
    <3> HIDE DEF h
    <3>2. Len(Terminator) = 2 /\ Terminator[1] = CR /\ Terminator[2] = LF
      BY <2>1
    <3>3. h \in Seq(Bytes) /\ Len(h) = 4 /\ h[1] = CR /\ h[2] = LF
      BY <3>1, <3>2 DEF Joined
    <3>4. h[2 + 1] = CR /\ h[2 + 2] = LF
      BY <3>1, <3>2 DEF Joined
    <3> QED
      BY <3>3, <3>4
  <2> HIDE DEF h
  <2>3. h = <<h[1], h[2], h[3], h[4]>>
    BY <2>2
  <2>4. h = <<CR, LF, CR, LF>>
    BY <2>2, <2>3
  <2>5. HeaderEnd = h
    BY DEF HeaderEnd, h
  <2> QED
    BY <2>4, <2>5
<1>2. i \in Found(s, HeaderEnd, 0) <=>
        i \in 0..(Len(s) - 4) /\ SubSeq(s, i + 1, i + 4) = HeaderEnd
  BY <1>1 DEF Found
<1>3. ASSUME i \in 0..(Len(s) - 4)
      PROVE  SubSeq(s, i + 1, i + 4) = HeaderEnd <=>
               /\ s[i + 1] = CR /\ s[i + 2] = LF /\ s[i + 3] = CR /\ s[i + 4] = LF
  <2> DEFINE t == SubSeq(s, i + 1, i + 4)
  <2>1. /\ t \in Seq(Bytes) /\ Len(t) = 4
        /\ t[1] = s[i + 1] /\ t[2] = s[i + 2] /\ t[3] = s[i + 3] /\ t[4] = s[i + 4]
    <3>1. i \in Nat /\ i + 1 \in Nat \ {0} /\ i + 4 \in Nat /\ i + 4 <= Len(s) /\ i + 1 <= i + 4
      BY <1>1, <1>3
    <3>2. IsPart(t, s, i + 1, IF i + 1 <= i + 4 THEN i + 4 - (i + 1) + 1 ELSE 0)
      BY <3>1, PartOf
    <3>3. (IF i + 1 <= i + 4 THEN i + 4 - (i + 1) + 1 ELSE 0) = 4
      BY <3>1
    <3> HIDE DEF t
    <3> QED
      BY <3>1, <3>2, <3>3 DEF IsPart
  <2> HIDE DEF t
  <2>2. t = <<t[1], t[2], t[3], t[4]>>
    BY <2>1
  <2>3. t = HeaderEnd <=> s[i + 1] = CR /\ s[i + 2] = LF /\ s[i + 3] = CR /\ s[i + 4] = LF
    BY <1>1, <2>1, <2>2
  <2> QED
    BY <2>3 DEF t
<1>4. i \in 0..(Len(s) - 4) <=> i \in Nat /\ i + 4 <= Len(s)
  BY <1>1
<1> QED
  BY <1>2, <1>3, <1>4 DEF HeaderEndAt

LEMMA JoinedOne ==
  ASSUME NEW s \in Seq(Bytes), NEW t \in Seq(Bytes), NEW c, Joined(c, s, t)
  PROVE  c = s \o t
<1> DEFINE d == s \o t
<1>1. Joined(d, s, t)
  BY ConcatJoins
<1> HIDE DEF d
<1>2. Len(s) \in Nat /\ Len(t) \in Nat
  OBVIOUS
<1>3. Len(c) = Len(d) /\ c \in Seq(Bytes) /\ d \in Seq(Bytes)
  BY <1>1 DEF Joined
<1>4. ASSUME NEW j \in 1..Len(c) PROVE c[j] = d[j]
  <2>1. CASE j <= Len(s)
    BY <1>1, <1>2, <2>1 DEF Joined
  <2>2. CASE j > Len(s)
    <3>1. j - Len(s) \in 1..Len(t) /\ Len(s) + (j - Len(s)) = j
      BY <1>2, <1>4, <2>2 DEF Joined
    <3>2. c[Len(s) + (j - Len(s))] = t[j - Len(s)] /\ d[Len(s) + (j - Len(s))] = t[j - Len(s)]
      BY <1>1, <3>1 DEF Joined
    <3> QED
      BY <3>1, <3>2
  <2> QED
    BY <1>2, <2>1, <2>2
<1>5. c = d
  BY <1>3, <1>4, SMTT(30)
<1> QED
  BY <1>5 DEF d

\* What is behind a buffer does not change its parts.
LEMMA PartStays ==
  ASSUME NEW s \in Seq(Bytes), NEW t \in Seq(Bytes), NEW a \in Nat \ {0}, NEW b \in Nat, b <= Len(s)
  PROVE  SubSeq(s \o t, a, b) = SubSeq(s, a, b)
<1> DEFINE c == s \o t
           u == SubSeq(s, a, b)
           v == SubSeq(c, a, b)
           n == IF a <= b THEN b - a + 1 ELSE 0
<1>1. Joined(c, s, t) /\ Len(s) \in Nat /\ Len(t) \in Nat
  BY ConcatJoins
<1> HIDE DEF c
<1>2. c \in Seq(Bytes) /\ b <= Len(c)
  BY <1>1 DEF Joined
<1>3. IsPart(u, s, a, n)
  BY PartOf
<1>4. IsPart(v, c, a, n)
  BY <1>2, PartOf
<1> HIDE DEF u, v
<1>5. \A j \in 1..n : u[j] = v[j]
  <2>1. ASSUME NEW j \in 1..n PROVE u[j] = v[j]
    <3>1. a + j - 1 \in 1..Len(s)
      BY <1>1, <2>1
    <3> HIDE DEF n
    <3> QED
      BY <1>1, <1>3, <1>4, <3>1 DEF Joined, IsPart
  <2> QED
    BY <2>1
<1>6. n \in Nat
  OBVIOUS
<1> HIDE DEF n
<1>7. u = v
  BY <1>3, <1>4, <1>5, <1>6 DEF IsPart
<1> QED
  BY <1>7 DEF u, v, c

\* An erased buffer.
IsErased(e, s, from, to) ==
  /\ e \in Seq(Bytes) /\ Len(e) = from + (Len(s) - to)
  /\ \A j \in 1..from : e[j] = s[j]
  /\ \A j \in 1..(Len(s) - to) : e[from + j] = s[to + j]

LEMMA ErasedParts ==
  ASSUME NEW s \in Seq(Bytes), NEW from \in Nat, NEW to \in Nat, from <= to, to <= Len(s)
  PROVE  IsErased(Erased(s, from, to), s, from, to)
<1> DEFINE a == SubSeq(s, 1, from)
           b == SubSeq(s, to + 1, Len(s))
           n == Len(s)
<1>1. n \in Nat
  OBVIOUS
<1>2. IsPart(a, s, 1, IF 1 <= from THEN from - 1 + 1 ELSE 0)
  BY <1>1, PartOf
<1>3. IsPart(b, s, to + 1, IF to + 1 <= n THEN n - (to + 1) + 1 ELSE 0)
  BY <1>1, PartOf
<1> HIDE DEF a, b
<1>4. /\ a \in Seq(Bytes) /\ Len(a) = from /\ \A j \in 1..from : a[j] = s[j]
      /\ b \in Seq(Bytes) /\ Len(b) = n - to /\ \A j \in 1..(n - to) : b[j] = s[to + j]
  BY <1>1, <1>2, <1>3 DEF IsPart
<1>5. Joined(a \o b, a, b)
  BY <1>4, ConcatJoins
<1> DEFINE c == a \o b
<1> HIDE DEF c
<1>6. IsErased(c, s, from, to)
  BY <1>1, <1>4, <1>5 DEF Joined, IsErased, c
<1> QED
  BY <1>6 DEF c, a, b, Erased

LEMMA ErasedGrows ==
  ASSUME NEW s \in Seq(Bytes), NEW t \in Seq(Bytes),
         NEW from \in Nat, NEW to \in Nat, from <= to, to <= Len(s)
  PROVE  Erased(s \o t, from, to) = Erased(s, from, to) \o t
<1> DEFINE c == s \o t
           e == Erased(s, from, to)
           f == Erased(c, from, to)
<1>1. Joined(c, s, t) /\ Len(s) \in Nat /\ Len(t) \in Nat
  BY ConcatJoins
<1> HIDE DEF c
<1>2. c \in Seq(Bytes) /\ to <= Len(c) /\ Len(c) = Len(s) + Len(t)
  BY <1>1 DEF Joined
<1>3. IsErased(e, s, from, to) /\ IsErased(f, c, from, to)
  BY <1>2, ErasedParts
<1> HIDE DEF e, f
<1>4. f \in Seq(Bytes) /\ e \in Seq(Bytes) /\ Len(f) = Len(e) + Len(t)
  BY <1>1, <1>2, <1>3 DEF IsErased
<1>5. ASSUME NEW j \in 1..Len(e) PROVE f[j] = e[j]
  <2>1. CASE j <= from
    <3>1. j \in 1..from /\ j \in 1..Len(s)
      BY <1>1, <2>1
    <3> QED
      BY <1>1, <1>3, <3>1 DEF IsErased, Joined
  <2>2. CASE j > from
    <3>1. /\ j - from \in 1..(Len(s) - to) /\ j - from \in 1..(Len(c) - to)
          /\ to + (j - from) \in 1..Len(s) /\ from + (j - from) = j
      BY <1>1, <1>2, <1>3, <2>2, SMTT(30) DEF IsErased
    <3>2. /\ e[from + (j - from)] = s[to + (j - from)]
          /\ f[from + (j - from)] = c[to + (j - from)]
          /\ c[to + (j - from)] = s[to + (j - from)]
      BY <1>1, <1>3, <3>1 DEF IsErased, Joined
    <3> QED
      BY <3>1, <3>2
  <2> QED
    BY <1>4, <2>1, <2>2
<1>6. ASSUME NEW j \in 1..Len(t) PROVE f[Len(e) + j] = t[j]
  <2>1. /\ Len(e) + j = from + (Len(s) - to + j)
        /\ Len(s) - to + j \in 1..(Len(c) - to)
        /\ to + (Len(s) - to + j) = Len(s) + j
    BY <1>1, <1>2, <1>3 DEF IsErased
  <2>2. f[from + (Len(s) - to + j)] = c[to + (Len(s) - to + j)]
    BY <1>3, <2>1 DEF IsErased
  <2>3. c[Len(s) + j] = t[j]
    BY <1>1 DEF Joined
  <2> QED
    BY <2>1, <2>2, <2>3
<1>7. Joined(f, e, t)
  BY <1>4, <1>5, <1>6 DEF Joined
<1>8. f = e \o t
  BY <1>4, <1>7, JoinedOne
<1> QED
  BY <1>8 DEF e, f, c

\* The first terminator from a place on.
LEMMA FirstFound ==
  ASSUME NEW s \in Seq(Bytes), NEW from \in Nat, Found(s, Terminator, from) # {}
  PROVE  /\ TerminatorAt(s, from, Min(Found(s, Terminator, from)))
         /\ \A i : TerminatorAt(s, from, i) => Min(Found(s, Terminator, from)) <= i
<1> DEFINE places == Found(s, Terminator, from)
<1>1. \A i : i \in places <=> TerminatorAt(s, from, i)
  BY TerminatorFound
<1> HIDE DEF places
<1>2. places \in SUBSET Nat
  BY <1>1 DEF TerminatorAt
<1>3. places # {}
  BY DEF places
<1>4. Min(places) \in places /\ \A i \in places : Min(places) <= i
  BY <1>2, <1>3, MinOf
<1>5. TerminatorAt(s, from, Min(places)) /\ \A i : TerminatorAt(s, from, i) => Min(places) <= i
  BY <1>1, <1>4
<1> QED
  BY <1>5 DEF places

LEMMA FirstIs ==
  ASSUME NEW s \in Seq(Bytes), NEW from \in Nat, NEW k,
         TerminatorAt(s, from, k), \A i : TerminatorAt(s, from, i) => k <= i
  PROVE  Found(s, Terminator, from) # {} /\ Min(Found(s, Terminator, from)) = k
<1> DEFINE places == Found(s, Terminator, from)
           first == Min(places)
<1>1. k \in places
  BY TerminatorFound
<1>2. TerminatorAt(s, from, first) /\ (TerminatorAt(s, from, k) => first <= k)
  BY <1>1, FirstFound
<1> HIDE DEF first
<1>3. first <= k /\ k <= first /\ first \in Nat /\ k \in Nat
  BY <1>2 DEF TerminatorAt
<1>4. first = k
  BY <1>3
<1> QED
  BY <1>1, <1>4 DEF first

\* It stays the first whatever is received behind it.
LEMMA FirstStays ==
  ASSUME NEW s \in Seq(Bytes), NEW t \in Seq(Bytes), NEW from \in Nat,
         Found(s, Terminator, from) # {}
  PROVE  /\ Found(s \o t, Terminator, from) # {}
         /\ Min(Found(s \o t, Terminator, from)) = Min(Found(s, Terminator, from))
<1> DEFINE k == Min(Found(s, Terminator, from))
           c == s \o t
<1>1. TerminatorAt(s, from, k) /\ \A i : TerminatorAt(s, from, i) => k <= i
  BY FirstFound
<1>2. Joined(c, s, t) /\ Len(s) \in Nat /\ Len(t) \in Nat
  BY ConcatJoins
<1> HIDE DEF c, k
<1>3. TerminatorAt(c, from, k)
  <2>1. k \in Nat /\ k + 1 \in 1..Len(s) /\ k + 2 \in 1..Len(s)
    BY <1>1, <1>2 DEF TerminatorAt
  <2> QED
    BY <1>1, <1>2, <2>1 DEF TerminatorAt, Joined
<1>4. ASSUME NEW i, TerminatorAt(c, from, i) PROVE k <= i
  <2>1. CASE i + 2 <= Len(s)
    <3>1. i \in Nat /\ i + 1 \in 1..Len(s) /\ i + 2 \in 1..Len(s)
      BY <1>2, <1>4, <2>1 DEF TerminatorAt
    <3>2. TerminatorAt(s, from, i)
      BY <1>2, <1>4, <2>1, <3>1 DEF TerminatorAt, Joined
    <3> QED
      BY <1>1, <3>2
  <2>2. CASE i + 2 > Len(s)
    BY <1>1, <1>2, <1>4, <2>2 DEF TerminatorAt
  <2> QED
    BY <1>2, <1>4, <2>1, <2>2 DEF TerminatorAt
<1>5. c \in Seq(Bytes)
  BY <1>2 DEF Joined
<1>6. Found(c, Terminator, from) # {} /\ Min(Found(c, Terminator, from)) = k
  BY <1>3, <1>4, <1>5, FirstIs
<1> QED
  BY <1>6 DEF c, k

-----------------------------------------------------------------------------
(* Numbers.                                                                *)

LEMMA NumberType ==
  ASSUME NEW line \in Seq(Bytes)
  PROVE  Number(line) = BadNumber \/ Number(line) \in 0..MaxSize
<1> DEFINE n == Len(line)
           S == 0..n
           value[i \in S] == IF i = 0 THEN 0 ELSE Base * value[i - 1] + line[i].n
           size == [i \in S |-> i]
           next == [i \in S |-> IF i = 0 THEN 0 ELSE i - 1]
           given == [i \in S |-> 0]
           step == [i \in S |-> [v \in Nat |-> IF i = 0 THEN 0 ELSE Base * v + line[i].n]]
<1>1. n \in Nat /\ Base \in Nat /\ \A i \in 1..n : line[i].n \in Nat
  <2>1. n \in Nat /\ \A i \in 1..n : line[i] \in Bytes
    OBVIOUS
  <2>2. \A x \in Bytes : x.n \in Nat
    BY DEF Bytes
  <2> QED
    BY <2>1, <2>2, SizesAssumption
<1>2. /\ size \in [S -> Nat] /\ next \in [S -> S] /\ given \in [S -> Nat] /\ {0} \in SUBSET S
      /\ \A i \in S \ {0} : size[next[i]] < size[i]
  BY <1>1
<1>3. step \in [S -> [Nat -> Nat]]
  <2>1. ASSUME NEW i \in S, i # 0, NEW v \in Nat PROVE Base * v + line[i].n \in Nat
    <3>1. Base * v \in Nat
      BY <1>1
    <3>2. line[i].n \in Nat
      BY <1>1, <2>1
    <3> QED
      BY <3>1, <3>2
  <2> QED
    BY <2>1
<1>4. \A i \in S : /\ next[i] = IF i = 0 THEN 0 ELSE i - 1
                   /\ \A v \in Nat : i # 0 => step[i][v] = Base * v + line[i].n
  OBVIOUS
<1>5. \A i \in S : given[i] = 0
  OBVIOUS
<1> HIDE DEF size, next, step, given
<1>6. PICK g \in [S -> Nat] : \A i \in S : Recursive(g, i, {0}, given, next, step)
  <2> HIDE DEF S
  <2> QED
    BY <1>2, <1>3, RecursionExists
<1>7. ASSUME NEW i \in S PROVE g[i] = IF i = 0 THEN 0 ELSE Base * g[i - 1] + line[i].n
  <2>1. CASE i = 0
    BY <1>5, <1>6, <2>1 DEF Recursive
  <2>2. CASE i # 0
    <3>1. next[i] = i - 1 /\ g[i - 1] \in Nat
      <4>1. i - 1 \in S
        BY <1>1, <2>2
      <4> QED
        BY <1>4, <2>2, <4>1
    <3>2. g[i] = step[i][g[i - 1]]
      BY <1>6, <2>2, <3>1 DEF Recursive
    <3> QED
      BY <1>4, <2>2, <3>1, <3>2
  <2> QED
    BY <2>1, <2>2
<1>8. g = [i \in S |-> IF i = 0 THEN 0 ELSE Base * g[i - 1] + line[i].n]
  BY <1>7
<1>9. value = [i \in S |-> IF i = 0 THEN 0 ELSE Base * value[i - 1] + line[i].n]
  BY <1>8, Zenon DEF value
<1>10. value[n] \in Nat
  <2> DEFINE T == {i \in Nat : i \in S => value[i] \in Nat}
  <2> HIDE DEF value
  <2>1. 0 \in T
    BY <1>9
  <2>2. ASSUME NEW i \in Nat, i \in T PROVE i + 1 \in T
    <3>1. CASE i + 1 \in S
      <4>1. i \in S /\ value[i + 1] = Base * value[(i + 1) - 1] + line[i + 1].n
        BY <1>1, <1>9, <3>1
      <4>2. (i + 1) - 1 = i /\ value[i] \in Nat /\ line[i + 1].n \in Nat
        BY <1>1, <2>2, <3>1, <4>1
      <4>3. Base * value[i] \in Nat
        BY <1>1, <4>2
      <4>4. value[i + 1] \in Nat
        BY <4>1, <4>2, <4>3
      <4> QED
        BY <4>4
    <3>2. CASE i + 1 \notin S
      BY <3>2
    <3> QED
      BY <3>1, <3>2
  <2>3. Nat \subseteq T
    <3> HIDE DEF T
    <3> QED
      BY <2>1, <2>2, SetInduction
  <2> QED
    BY <1>1, <2>3
<1>11. Number(line) = IF /\ line # <<>>
                         /\ \A i \in DOMAIN line : line[i].kind = "digit"
                         /\ value[n] <= MaxSize
                      THEN value[n] ELSE BadNumber
  BY DEF Number, value
<1> HIDE DEF value
<1> QED
  BY <1>10, <1>11, SizesAssumption

-----------------------------------------------------------------------------
(* The loop of dechunk().                                                  *)

Lines_(r) == Found(r.buffer, Terminator, r.chunk_pos)
LineEnd(r) == Min(Lines_(r))
SizeLine(r) == SubSeq(r.buffer, r.chunk_pos + 1, LineEnd(r))
ChunkEnd(r) == Wrap(r.chunk_pos + r.chunk_size)

\* The loop takes another turn: with the size that was read, or behind the
\* chunk that is complete.
GoesOn(r) ==
  \/ r.chunk_size = NoSize /\ Lines_(r) # {} /\ Number(SizeLine(r)) # BadNumber
  \/ /\ r.chunk_size \notin {0, NoSize} /\ ~ChunkIncomplete(r)
     /\ ChunkEnd(r) \in Found(r.buffer, Terminator, 0)

SizeRead(r) ==
  [r EXCEPT !.chunk_size = Number(SizeLine(r)), !.buffer = Erased(@, r.chunk_pos, LineEnd(r) + 2)]
Onward(r) == IF r.chunk_size = NoSize THEN SizeRead(r) ELSE NextChunk(r, ChunkEnd(r))

LastChunkRead(r) == MeasureBody([r EXCEPT !.buffer = SubSeq(@, 1, r.chunk_pos)])

\* It ends.
Waits(r) ==
  \/ r.chunk_size \in {0, NoSize} /\ Lines_(r) = {}
  \/ r.chunk_size \notin {0, NoSize} /\ ChunkIncomplete(r)
Outcome(r) ==
  IF Waits(r) THEN <<"reading", r>>
  ELSE IF r.chunk_size = 0 THEN <<"done", LastChunkRead(r)>> ELSE <<"thrown", r>>

Outcomes == {"reading", "done", "thrown"} \X Requests

LEMMA WrapType ==
  ASSUME NEW n \in Int
  PROVE  Wrap(n) \in 0..MaxSize
BY SizesAssumption DEF Wrap

LEMMA RequestFields ==
  ASSUME NEW r \in Requests
  PROVE  /\ r.buffer \in Seq(Bytes) /\ r.fields \in SUBSET Bytes
         /\ r.header_size \in Nat /\ r.body_size \in Nat
         /\ r.chunk_size \in Nat /\ r.chunk_pos \in Nat
BY DEF Requests

\* The line that holds a chunk's size.
LEMMA SizeLineType ==
  ASSUME NEW r \in Requests, Lines_(r) # {}
  PROVE  /\ TerminatorAt(r.buffer, r.chunk_pos, LineEnd(r))
         /\ LineEnd(r) \in Nat /\ LineEnd(r) + 2 <= Len(r.buffer) /\ r.chunk_pos <= LineEnd(r)
         /\ SizeLine(r) \in Seq(Bytes) /\ Len(SizeLine(r)) = LineEnd(r) - r.chunk_pos
<1>1. r.buffer \in Seq(Bytes) /\ r.chunk_pos \in Nat
  BY RequestFields
<1>2. TerminatorAt(r.buffer, r.chunk_pos, LineEnd(r))
  BY <1>1, FirstFound DEF Lines_, LineEnd
<1> DEFINE k == LineEnd(r)
           p == r.chunk_pos
           s == r.buffer
<1> HIDE DEF k
<1>3. k \in Nat /\ k + 2 <= Len(s) /\ p <= k
  BY <1>2 DEF TerminatorAt, k
<1>4. IsPart(SubSeq(s, p + 1, k), s, p + 1, IF p + 1 <= k THEN k - (p + 1) + 1 ELSE 0)
  <2>1. p + 1 \in Nat \ {0} /\ k <= Len(s) /\ Len(s) \in Nat
    BY <1>1, <1>3
  <2> QED
    BY <1>1, <1>3, <2>1, PartOf
<1>5. SizeLine(r) \in Seq(Bytes) /\ Len(SizeLine(r)) = k - p
  BY <1>1, <1>3, <1>4 DEF IsPart, SizeLine, k
<1> QED
  BY <1>2, <1>3, <1>5 DEF k

\* A turn of the loop leaves an object with a shorter buffer, of the same
\* header.
LEMMA OnwardType ==
  ASSUME NEW r \in Requests, GoesOn(r)
  PROVE  /\ Onward(r) \in Requests /\ Len(Onward(r).buffer) < Len(r.buffer)
         /\ Onward(r).chunk_size <= MaxSize /\ Onward(r).body_size = r.body_size
         /\ Onward(r).fields = r.fields /\ Onward(r).header_size = r.header_size
<1> DEFINE s == r.buffer
           p == r.chunk_pos
<1>1. s \in Seq(Bytes) /\ p \in Nat /\ r.chunk_size \in Nat /\ Len(s) \in Nat
  BY RequestFields
<1>2. CASE r.chunk_size = NoSize
  <2>1. Lines_(r) # {} /\ Number(SizeLine(r)) # BadNumber
    BY <1>2, SizesAssumption DEF GoesOn
  <2>2. Number(SizeLine(r)) \in 0..MaxSize
    BY <2>1, SizeLineType, NumberType
  <2> DEFINE k == LineEnd(r) + 2
             e == Erased(s, p, k)
  <2>3. k \in Nat /\ p <= k /\ p + 2 <= k /\ k <= Len(s)
    BY <1>1, <2>1, SizeLineType, SMTT(30)
  <2> HIDE DEF k
  <2>4. IsErased(e, s, p, k)
    BY <1>1, <2>3, ErasedParts
  <2> HIDE DEF e
  <2>5. e \in Seq(Bytes) /\ Len(e) < Len(s)
    BY <1>1, <2>3, <2>4 DEF IsErased
  <2>6. Onward(r) = [r EXCEPT !.chunk_size = Number(SizeLine(r)), !.buffer = e]
    BY <1>2 DEF Onward, SizeRead, e, k
  <2> DEFINE n == Number(SizeLine(r))
  <2>7. n \in Nat /\ n <= MaxSize
    BY <2>2, SizesAssumption
  <2> HIDE DEF n
  <2>8. Onward(r) = [r EXCEPT !.chunk_size = n, !.buffer = e]
    BY <2>6 DEF n
  <2> QED
    BY <2>5, <2>7, <2>8 DEF Requests
<1>3. CASE r.chunk_size # NoSize
  <2> DEFINE k == ChunkEnd(r)
             e == Erased(s, k, k + 2)
  <2>1. k \in Found(s, Terminator, 0)
    BY <1>3 DEF GoesOn
  <2>2. k \in Nat /\ k + 2 <= Len(s)
    BY <1>1, <2>1, TerminatorFound DEF TerminatorAt
  <2> HIDE DEF k
  <2>3. IsErased(e, s, k, k + 2)
    BY <1>1, <2>2, ErasedParts
  <2> HIDE DEF e
  <2>4. e \in Seq(Bytes) /\ Len(e) < Len(s)
    BY <1>1, <2>2, <2>3 DEF IsErased
  <2>5. Onward(r) = [r EXCEPT !.chunk_pos = k, !.chunk_size = NoSize, !.buffer = e]
    BY <1>3 DEF Onward, NextChunk, e, k
  <2>6. NoSize \in Nat /\ NoSize <= MaxSize
    BY SizesAssumption DEF NoSize
  <2> QED
    BY <2>2, <2>4, <2>5, <2>6 DEF Requests
<1> QED
  BY <1>2, <1>3

LEMMA MeasureType ==
  ASSUME NEW r \in Requests
  PROVE  /\ MeasureBody(r) \in Requests
         /\ r.body_size <= MaxSize => MeasureBody(r).body_size <= MaxSize
         /\ \/ MeasureBody(r) = r /\ r.fields = {}
            \/ MeasureBody(r) = [r EXCEPT !.body_size = Wrap(Len(r.buffer) - r.header_size)]
<1>1. Wrap(Len(r.buffer) - r.header_size) \in 0..MaxSize
  <2>1. Len(r.buffer) \in Nat /\ r.header_size \in Nat
    BY RequestFields
  <2>2. Len(r.buffer) - r.header_size \in Int
    BY <2>1
  <2> DEFINE d == Len(r.buffer) - r.header_size
  <2> HIDE DEF d
  <2>3. Wrap(d) \in 0..MaxSize
    BY <2>2, WrapType DEF d
  <2> QED
    BY <2>3 DEF d
<1> DEFINE b == Wrap(Len(r.buffer) - r.header_size)
<1>2. b \in Nat /\ b <= MaxSize
  BY <1>1, SizesAssumption
<1> HIDE DEF b
<1>3. (MeasureBody(r) = r /\ r.fields = {}) \/ MeasureBody(r) = [r EXCEPT !.body_size = b]
  BY DEF MeasureBody, b
<1>4. [r EXCEPT !.body_size = b] \in Requests /\ [r EXCEPT !.body_size = b].body_size = b
  BY <1>2 DEF Requests
<1> QED
  BY <1>2, <1>3, <1>4 DEF b

\* The buffer when the last chunk has been read.
LEMMA LastChunkType ==
  ASSUME NEW r \in Requests, Lines_(r) # {}
  PROVE  /\ LastChunkRead(r) \in Requests
         /\ LastChunkRead(r).fields = r.fields /\ LastChunkRead(r).header_size = r.header_size
         /\ LastChunkRead(r).chunk_size = r.chunk_size
         /\ r.body_size <= MaxSize => LastChunkRead(r).body_size <= MaxSize
         /\ LastChunkRead(r).buffer = SubSeq(r.buffer, 1, r.chunk_pos)
<1> DEFINE b == SubSeq(r.buffer, 1, r.chunk_pos)
           q == [r EXCEPT !.buffer = b]
<1>1. b \in Seq(Bytes)
  <2>1. r.buffer \in Seq(Bytes) /\ r.chunk_pos \in Nat /\ r.chunk_pos <= Len(r.buffer)
    BY SizeLineType, RequestFields
  <2>2. IsPart(b, r.buffer, 1, IF 1 <= r.chunk_pos THEN r.chunk_pos - 1 + 1 ELSE 0)
    BY <2>1, PartOf
  <2> QED
    BY <2>2 DEF IsPart
<1> HIDE DEF b
<1>2. /\ q \in Requests /\ q.buffer = b /\ q.fields = r.fields /\ q.header_size = r.header_size
      /\ q.chunk_size = r.chunk_size /\ q.body_size = r.body_size
  BY <1>1 DEF Requests
<1> HIDE DEF q
<1>3. LastChunkRead(r) = MeasureBody(q)
  BY DEF LastChunkRead, q, b
<1> DEFINE m == MeasureBody(q)
<1>4. /\ m \in Requests /\ (q.body_size <= MaxSize => m.body_size <= MaxSize)
      /\ \/ m = q
         \/ m = [q EXCEPT !.body_size = Wrap(Len(q.buffer) - q.header_size)]
  BY <1>2, MeasureType
<1> HIDE DEF m
<1>5. m.fields = q.fields /\ m.header_size = q.header_size /\ m.chunk_size = q.chunk_size /\ m.buffer = q.buffer
  BY <1>2, <1>4 DEF Requests
<1> QED
  BY <1>2, <1>3, <1>4, <1>5 DEF m, b

LEMMA OutcomeType ==
  ASSUME NEW r \in Requests, ~GoesOn(r)
  PROVE  Outcome(r) \in Outcomes
<1>1. ~Waits(r) /\ r.chunk_size = 0 => LastChunkRead(r) \in Requests
  BY LastChunkType DEF Waits
<1> QED
  BY <1>1 DEF Outcome, Outcomes

\* The loop is a recursive function, and there is one: every turn makes the
\* buffer shorter.
LEMMA DechunkEquation ==
  \A r \in Requests : Dechunk[r] = IF GoesOn(r) THEN Dechunk[Onward(r)] ELSE Outcome(r)
<1> DEFINE S == Requests
           V == Outcomes
           base == {r \in S : ~GoesOn(r)}
           size == [r \in S |-> Len(r.buffer)]
           next == [r \in S |-> IF GoesOn(r) THEN Onward(r) ELSE r]
           given == [r \in S |-> IF GoesOn(r) THEN <<"reading", r>> ELSE Outcome(r)]
           step == [r \in S |-> [v \in V |-> v]]
<1>1. size \in [S -> Nat]
  BY RequestFields
<1>2. next \in [S -> S] /\ \A r \in S \ base : size[next[r]] < size[r]
  BY OnwardType
<1>3. given \in [S -> V]
  <2>1. \A r \in S : <<"reading", r>> \in V
    BY DEF Outcomes
  <2> QED
    BY <2>1, OutcomeType
<1>4. step \in [S -> [V -> V]] /\ base \in SUBSET S
  OBVIOUS
<1>5. \A r \in S : /\ r \in base <=> ~GoesOn(r)
                   /\ GoesOn(r) => next[r] = Onward(r)
                   /\ ~GoesOn(r) => given[r] = Outcome(r)
                   /\ \A v \in V : step[r][v] = v
  OBVIOUS
<1> HIDE DEF size, next, given, step, base
<1>6. PICK g \in [S -> V] : \A r \in S : Recursive(g, r, base, given, next, step)
  <2> HIDE DEF S, V
  <2> QED
    BY <1>1, <1>2, <1>3, <1>4, RecursionExists
<1>7. ASSUME NEW r \in S
      PROVE  g[r] = IF GoesOn(r) THEN g[Onward(r)] ELSE Outcome(r)
  <2>1. Recursive(g, r, base, given, next, step)
    BY <1>6
  <2>2. CASE GoesOn(r)
    <3>1. next[r] = Onward(r) /\ Onward(r) \in S /\ r \notin base
      BY <1>5, <2>2, OnwardType
    <3>2. g[Onward(r)] \in V
      BY <3>1
    <3> QED
      BY <1>5, <2>1, <2>2, <3>1, <3>2 DEF Recursive
  <2>3. CASE ~GoesOn(r)
    BY <1>5, <2>1, <2>3 DEF Recursive
  <2> QED
    BY <2>2, <2>3
<1> DEFINE Turn(f, r) ==
      LET ends == Found(r.buffer, Terminator, r.chunk_pos)
          line == SubSeq(r.buffer, r.chunk_pos + 1, Min(ends))
          pos == Wrap(r.chunk_pos + r.chunk_size)
      IN
      CASE r.chunk_size = 0 ->
             IF ends = {} THEN <<"reading", r>>
             ELSE <<"done", MeasureBody([r EXCEPT !.buffer = SubSeq(@, 1, r.chunk_pos)])>>
        [] r.chunk_size = NoSize ->
             IF ends = {} THEN <<"reading", r>>
             ELSE IF Number(line) = BadNumber THEN <<"thrown", r>>
             ELSE f[[r EXCEPT !.chunk_size = Number(line),
                              !.buffer = Erased(@, r.chunk_pos, Min(ends) + 2)]]
        [] OTHER ->
             IF ChunkIncomplete(r) THEN <<"reading", r>>
             ELSE IF pos \notin Found(r.buffer, Terminator, 0) THEN <<"thrown", r>>
             ELSE f[NextChunk(r, pos)]
<1>8. ASSUME NEW f, NEW r \in S
      PROVE  Turn(f, r) = IF GoesOn(r) THEN f[Onward(r)] ELSE Outcome(r)
  <2>0. NoSize # 0
    BY SizesAssumption DEF NoSize
  <2>1. CASE r.chunk_size = 0
    BY <2>0, <2>1 DEF GoesOn, Outcome, Waits, Lines_, LastChunkRead
  <2>2. CASE r.chunk_size = NoSize
    BY <2>0, <2>2 DEF GoesOn, Outcome, Waits, Lines_, LineEnd, SizeLine, Onward, SizeRead
  <2>3. CASE r.chunk_size \notin {0, NoSize}
    BY <2>0, <2>3 DEF GoesOn, Outcome, Waits, Onward, ChunkEnd
  <2> QED
    BY <2>1, <2>2, <2>3
<1>9. g = [r \in S |-> Turn(g, r)]
  <2> HIDE DEF Turn
  <2> QED
    BY <1>7, <1>8
<1>10. Dechunk = [r \in S |-> Turn(Dechunk, r)]
  BY <1>9, Zenon DEF Dechunk
<1> HIDE DEF Turn
<1> QED
  BY <1>8, <1>10

\* What holds of an object the loop ends with, or that it goes on with, holds
\* of every object.
LEMMA DechunkInduction ==
  ASSUME NEW T, \A r \in Requests : (GoesOn(r) => Onward(r) \in T) => r \in T
  PROVE  Requests \subseteq T
<1> DEFINE size == [r \in Requests |-> Len(r.buffer)]
<1>1. size \in [Requests -> Nat]
  BY RequestFields
<1>2. \A r \in Requests : GoesOn(r) => Onward(r) \in Requests /\ size[Onward(r)] < size[r]
  BY OnwardType
<1> HIDE DEF size
<1>3. \A r \in Requests : (\A q \in Requests : size[q] < size[r] => q \in T) => r \in T
  BY <1>2
<1> QED
  BY <1>1, <1>3, SizeInduction

\* What the loop leaves alone, and keeps below the largest size_t.
Keeps(r, q) ==
  /\ q.fields = r.fields /\ q.header_size = r.header_size
  /\ r.chunk_size <= MaxSize => q.chunk_size <= MaxSize
  /\ r.body_size <= MaxSize => q.body_size <= MaxSize

LEMMA DechunkType ==
  \A r \in Requests : Dechunk[r] \in Outcomes /\ Keeps(r, Dechunk[r][2])
<1> DEFINE T == {r \in Requests : Dechunk[r] \in Outcomes /\ Keeps(r, Dechunk[r][2])}
<1>1. ASSUME NEW r \in Requests, GoesOn(r) => Onward(r) \in T PROVE r \in T
  <2>1. CASE GoesOn(r)
    <3>1. Dechunk[r] = Dechunk[Onward(r)]
      BY <2>1, DechunkEquation
    <3>2. Keeps(r, Onward(r))
      BY <2>1, OnwardType DEF Keeps
    <3>3. Dechunk[Onward(r)] \in Outcomes /\ Keeps(Onward(r), Dechunk[Onward(r)][2])
      BY <1>1, <2>1
    <3>4. Keeps(r, Dechunk[Onward(r)][2])
      BY <2>1, <3>2, <3>3, OnwardType DEF Keeps
    <3> QED
      BY <3>1, <3>3, <3>4
  <2>2. CASE ~GoesOn(r)
    <3>1. Dechunk[r] = Outcome(r) /\ Outcome(r) \in Outcomes
      BY <2>2, DechunkEquation, OutcomeType
    <3>2. Outcome(r)[2] = r \/ (~Waits(r) /\ r.chunk_size = 0 /\ Outcome(r)[2] = LastChunkRead(r))
      BY DEF Outcome
    <3>3. ~Waits(r) /\ r.chunk_size = 0 => Keeps(r, LastChunkRead(r))
      BY LastChunkType DEF Keeps, Waits
    <3>4. Keeps(r, r)
      BY DEF Keeps
    <3> QED
      BY <3>1, <3>2, <3>3, <3>4
  <2> QED
    BY <2>1, <2>2
<1>2. Requests \subseteq T
  <2> HIDE DEF T
  <2> QED
    BY <1>1, DechunkInduction
<1> QED
  BY <1>2

-----------------------------------------------------------------------------
(* Reading on.                                                             *)

Grown(r, data) == [r EXCEPT !.buffer = @ \o data]
Sized(r, b) == [r EXCEPT !.body_size = b]

\* The same up to the size of a body that is not complete.
Agree(x, y) ==
  /\ x[1] = y[1]
  /\ IF x[1] = "done" THEN x[2] = y[2] ELSE x[2] = Sized(y[2], x[2].body_size)

LEMMA GrownFields ==
  ASSUME NEW r \in Requests, NEW data \in Seq(Bytes)
  PROVE  /\ Grown(r, data) \in Requests /\ Grown(r, data).buffer = r.buffer \o data
         /\ Grown(r, data).fields = r.fields /\ Grown(r, data).header_size = r.header_size
         /\ Grown(r, data).body_size = r.body_size
         /\ Grown(r, data).chunk_size = r.chunk_size /\ Grown(r, data).chunk_pos = r.chunk_pos
<1> DEFINE b == r.buffer \o data
<1>1. b \in Seq(Bytes)
  BY RequestFields
<1> HIDE DEF b
<1>2. Grown(r, data) = [r EXCEPT !.buffer = b]
  BY DEF Grown, b
<1> QED
  BY <1>1, <1>2 DEF Requests, b

LEMMA SizedFields ==
  ASSUME NEW r \in Requests, NEW b \in Nat
  PROVE  /\ Sized(r, b) \in Requests /\ Sized(r, b).buffer = r.buffer
         /\ Sized(r, b).fields = r.fields /\ Sized(r, b).header_size = r.header_size
         /\ Sized(r, b).body_size = b
         /\ Sized(r, b).chunk_size = r.chunk_size /\ Sized(r, b).chunk_pos = r.chunk_pos
BY DEF Sized, Requests

LEMMA AgreeEqual ==
  ASSUME NEW x \in Outcomes, NEW y \in Outcomes, NEW z \in Outcomes
  PROVE  /\ Agree(x, x)
         /\ Agree(x, y) => Agree(y, x)
         /\ Agree(x, y) /\ Agree(y, z) => Agree(x, z)
<1>1. \A r \in Requests : Sized(r, r.body_size) = r
  BY DEF Sized, Requests
<1>2. \A r \in Requests : \A b, c : Sized(Sized(r, b), c) = Sized(r, c)
  BY DEF Sized, Requests
<1>3. x[2] \in Requests /\ y[2] \in Requests /\ z[2] \in Requests
  BY DEF Outcomes
<1> QED
  BY <1>1, <1>2, <1>3 DEF Agree

\* A turn that the loop takes, it takes with more in the buffer too.
LEMMA GrownGoesOn ==
  ASSUME NEW r \in Requests, NEW data \in Seq(Bytes), GoesOn(r)
  PROVE  /\ GoesOn(Grown(r, data))
         /\ Onward(Grown(r, data)) = Grown(Onward(r), data)
<1> DEFINE g == Grown(r, data)
           s == r.buffer
           c == s \o data
           p == r.chunk_pos
<1>1. /\ s \in Seq(Bytes) /\ p \in Nat /\ r.chunk_size \in Nat
      /\ Len(s) \in Nat /\ Len(data) \in Nat
  BY RequestFields
<1>2. Joined(c, s, data)
  BY <1>1, ConcatJoins
<1>3. /\ g \in Requests /\ g.buffer = c /\ g.fields = r.fields /\ g.header_size = r.header_size
      /\ g.body_size = r.body_size /\ g.chunk_size = r.chunk_size /\ g.chunk_pos = p
      /\ g = [r EXCEPT !.buffer = c]
  BY GrownFields DEF Grown
<1> HIDE DEF g
<1>4. CASE r.chunk_size = NoSize
  <2>1. Lines_(r) # {} /\ Number(SizeLine(r)) # BadNumber
    BY <1>4, SizesAssumption DEF GoesOn
  <2>2. Lines_(g) # {} /\ LineEnd(g) = LineEnd(r)
    BY <1>1, <1>3, <2>1, FirstStays DEF Lines_, LineEnd
  <2> DEFINE k == LineEnd(r)
  <2>3. k \in Nat /\ p <= k /\ k + 2 <= Len(s)
    BY <2>1, SizeLineType
  <2> HIDE DEF k
  <2>4. SubSeq(c, p + 1, k) = SubSeq(s, p + 1, k)
    <3>1. p + 1 \in Nat \ {0} /\ k <= Len(s)
      BY <1>1, <2>3
    <3> QED
      BY <1>1, <2>3, <3>1, PartStays, ZenonT(30)
  <2>5. SizeLine(g) = SizeLine(r)
    BY <1>3, <2>2, <2>4 DEF SizeLine, k
  <2>6. Erased(c, p, k + 2) = Erased(s, p, k + 2) \o data
    <3> DEFINE l == k + 2
    <3>1. l \in Nat /\ p <= l /\ l <= Len(s)
      BY <1>1, <2>3
    <3> HIDE DEF c, s, p, l
    <3>2. Erased(s \o data, p, l) = Erased(s, p, l) \o data
      BY <1>1, <3>1, ErasedGrows, SMTT(30)
    <3> QED
      BY <3>2 DEF c, s, p, l
  <2>7. GoesOn(g)
    BY <1>3, <1>4, <2>1, <2>2, <2>5, SizesAssumption DEF GoesOn
  <2> DEFINE n == Number(SizeLine(r))
             e == Erased(s, p, k + 2)
             f == e \o data
  <2>8. Onward(g) = [g EXCEPT !.chunk_size = n, !.buffer = f]
    <3>1. Onward(g) = [g EXCEPT !.chunk_size = Number(SizeLine(g)),
                                !.buffer = Erased(g.buffer, g.chunk_pos, LineEnd(g) + 2)]
      BY <1>3, <1>4 DEF Onward, SizeRead
    <3>2. Erased(g.buffer, g.chunk_pos, LineEnd(g) + 2) = f
      BY <1>3, <2>2, <2>6 DEF k
    <3> QED
      BY <2>5, <3>1, <3>2
  <2>9. Onward(r) = [r EXCEPT !.chunk_size = n, !.buffer = e]
    BY <1>4 DEF Onward, SizeRead, k
  <2> HIDE DEF n, e
  <2>10. Onward(r).buffer = e
    BY <2>9 DEF Requests
  <2>11. Grown(Onward(r), data) = [r EXCEPT !.chunk_size = n, !.buffer = f]
    <3>1. Grown(Onward(r), data) = [Onward(r) EXCEPT !.buffer = f]
      BY <2>10 DEF Grown
    <3> HIDE DEF f
    <3> QED
      BY <2>9, <3>1 DEF Requests
  <2> HIDE DEF f
  <2>12. Onward(g) = [r EXCEPT !.chunk_size = n, !.buffer = f]
    BY <1>3, <2>8 DEF Requests
  <2> QED
    BY <2>7, <2>11, <2>12 DEF g
<1>5. CASE r.chunk_size # NoSize
  <2>1. /\ r.chunk_size # 0 /\ ~ChunkIncomplete(r)
        /\ ChunkEnd(r) \in Found(s, Terminator, 0)
    BY <1>5 DEF GoesOn
  <2> DEFINE k == ChunkEnd(r)
  <2>2. TerminatorAt(s, 0, k)
    BY <1>1, <2>1, TerminatorFound
  <2>3. ChunkEnd(g) = k
    BY <1>3 DEF ChunkEnd
  <2> HIDE DEF k
  <2>4. k \in Nat /\ k + 2 <= Len(s) /\ k + 1 \in 1..Len(s) /\ k + 2 \in 1..Len(s)
    BY <1>1, <2>2 DEF TerminatorAt
  <2>5. TerminatorAt(c, 0, k)
    BY <1>1, <1>2, <2>2, <2>4 DEF TerminatorAt, Joined
  <2>6. k \in Found(c, Terminator, 0)
    <3>1. c \in Seq(Bytes)
      BY <1>2 DEF Joined
    <3> HIDE DEF c
    <3> QED
      BY <2>5, <3>1, TerminatorFound
  <2>7. ~ChunkIncomplete(g)
    <3> DEFINE w == Wrap(r.chunk_pos + r.chunk_size + 2)
    <3>1. w \in Int
      <4>1. r.chunk_pos + r.chunk_size + 2 \in Int
        BY <1>1
      <4> DEFINE d == r.chunk_pos + r.chunk_size + 2
      <4> HIDE DEF d
      <4>2. Wrap(d) \in 0..MaxSize
        BY <4>1, WrapType DEF d
      <4> QED
        BY <4>2, SizesAssumption DEF d
    <3>2. (ChunkIncomplete(g) <=> Len(c) < w) /\ (ChunkIncomplete(r) <=> Len(s) < w)
      BY <1>3 DEF ChunkIncomplete
    <3>3. Len(c) = Len(s) + Len(data)
      BY <1>2 DEF Joined
    <3> HIDE DEF w, c
    <3> QED
      BY <1>1, <2>1, <3>1, <3>2, <3>3
  <2>8. GoesOn(g)
    BY <1>3, <1>5, <2>1, <2>3, <2>6, <2>7 DEF GoesOn
  <2>9. Erased(c, k, k + 2) = Erased(s, k, k + 2) \o data
    <3> DEFINE l == k + 2
    <3>1. l \in Nat /\ k <= l /\ l <= Len(s)
      BY <2>4
    <3> HIDE DEF c, s, l
    <3>2. Erased(s \o data, k, l) = Erased(s, k, l) \o data
      BY <1>1, <2>4, <3>1, ErasedGrows, SMTT(30)
    <3> QED
      BY <3>2 DEF c, s, l
  <2> DEFINE e == Erased(s, k, k + 2)
             f == e \o data
  <2>10. Onward(g) = [g EXCEPT !.chunk_pos = k, !.chunk_size = NoSize, !.buffer = f]
    <3>1. Onward(g) = [g EXCEPT !.chunk_pos = ChunkEnd(g), !.chunk_size = NoSize,
                                !.buffer = Erased(g.buffer, ChunkEnd(g), ChunkEnd(g) + 2)]
      BY <1>3, <1>5 DEF Onward, NextChunk
    <3>2. Erased(g.buffer, ChunkEnd(g), ChunkEnd(g) + 2) = f
      BY <1>3, <2>3, <2>9
    <3> QED
      BY <2>3, <3>1, <3>2
  <2>11. Onward(r) = [r EXCEPT !.chunk_pos = k, !.chunk_size = NoSize, !.buffer = e]
    BY <1>5 DEF Onward, NextChunk, k
  <2> HIDE DEF e
  <2>12. Onward(r).buffer = e
    BY <2>11 DEF Requests
  <2>13. Grown(Onward(r), data) = [r EXCEPT !.chunk_pos = k, !.chunk_size = NoSize, !.buffer = f]
    <3>1. Grown(Onward(r), data) = [Onward(r) EXCEPT !.buffer = f]
      BY <2>12 DEF Grown
    <3> HIDE DEF f
    <3> QED
      BY <2>11, <3>1 DEF Requests
  <2> HIDE DEF f
  <2>14. Onward(g) = [r EXCEPT !.chunk_pos = k, !.chunk_size = NoSize, !.buffer = f]
    BY <1>3, <2>10 DEF Requests
  <2> QED
    BY <2>8, <2>13, <2>14 DEF g
<1> QED
  BY <1>4, <1>5

\* A loop that waits for more and goes on with it does what one with all of it
\* in the buffer does.
LEMMA DechunkResumes ==
  \A r \in Requests : Dechunk[r][1] = "reading" =>
    \A data \in Seq(Bytes) : Dechunk[Grown(Dechunk[r][2], data)] = Dechunk[Grown(r, data)]
<1> DEFINE T == {r \in Requests : Dechunk[r][1] = "reading" =>
                   \A data \in Seq(Bytes) : Dechunk[Grown(Dechunk[r][2], data)] = Dechunk[Grown(r, data)]}
<1>1. ASSUME NEW r \in Requests, GoesOn(r) => Onward(r) \in T PROVE r \in T
  <2> SUFFICES ASSUME Dechunk[r][1] = "reading", NEW data \in Seq(Bytes)
               PROVE  Dechunk[Grown(Dechunk[r][2], data)] = Dechunk[Grown(r, data)]
    OBVIOUS
  <2>1. CASE GoesOn(r)
    <3>1. Dechunk[r] = Dechunk[Onward(r)] /\ Onward(r) \in T
      BY <1>1, <2>1, DechunkEquation
    <3>2. Dechunk[Grown(Dechunk[r][2], data)] = Dechunk[Grown(Onward(r), data)]
      BY <3>1
    <3>3. Grown(r, data) \in Requests
      BY GrownFields
    <3>4. Dechunk[Grown(r, data)] = Dechunk[Onward(Grown(r, data))]
      BY <2>1, <3>3, GrownGoesOn, DechunkEquation
    <3>5. Onward(Grown(r, data)) = Grown(Onward(r), data)
      BY <2>1, GrownGoesOn
    <3> QED
      BY <3>2, <3>4, <3>5
  <2>2. CASE ~GoesOn(r)
    <3>1. Dechunk[r] = Outcome(r)
      BY <2>2, DechunkEquation
    <3>2. Dechunk[r][2] = r
      BY <3>1 DEF Outcome
    <3> QED
      BY <3>2
  <2> QED
    BY <2>1, <2>2
<1>2. Requests \subseteq T
  <2> HIDE DEF T
  <2> QED
    BY <1>1, DechunkInduction
<1> QED
  BY <1>2

\* A request is the same whichever of its fields is set first.
LEMMA SetApart ==
  ASSUME NEW r \in Requests, NEW size, NEW buffer, NEW chunk, NEW pos
  PROVE  /\ [[r EXCEPT !.body_size = size] EXCEPT !.chunk_size = chunk, !.buffer = buffer] =
               [[r EXCEPT !.chunk_size = chunk, !.buffer = buffer] EXCEPT !.body_size = size]
         /\ [[r EXCEPT !.body_size = size] EXCEPT
                !.chunk_pos = pos, !.chunk_size = chunk, !.buffer = buffer] =
               [[r EXCEPT !.chunk_pos = pos, !.chunk_size = chunk, !.buffer = buffer] EXCEPT
                  !.body_size = size]
BY ZenonT(60) DEF Requests

\* The loop does not look at the size of the body.
LEMMA DechunkIgnoresSize ==
  \A r \in Requests : r.fields # {} => \A b \in Nat : Agree(Dechunk[Sized(r, b)], Dechunk[r])
<1> DEFINE T == {r \in Requests : r.fields # {} =>
                   \A b \in Nat : Agree(Dechunk[Sized(r, b)], Dechunk[r])}
<1>1. ASSUME NEW r \in Requests, GoesOn(r) => Onward(r) \in T PROVE r \in T
  <2> SUFFICES ASSUME r.fields # {}, NEW b \in Nat
               PROVE  Agree(Dechunk[Sized(r, b)], Dechunk[r])
    OBVIOUS
  <2> DEFINE q == Sized(r, b)
  <2>1. /\ q \in Requests /\ q.buffer = r.buffer /\ q.fields = r.fields
        /\ q.header_size = r.header_size /\ q.body_size = b
        /\ q.chunk_size = r.chunk_size /\ q.chunk_pos = r.chunk_pos
    BY SizedFields DEF Sized
  <2>a. q = [r EXCEPT !.body_size = b]
    BY DEF Sized
  <2> HIDE DEF q
  <2>2. /\ Lines_(q) = Lines_(r) /\ LineEnd(q) = LineEnd(r) /\ SizeLine(q) = SizeLine(r)
        /\ ChunkEnd(q) = ChunkEnd(r) /\ (ChunkIncomplete(q) <=> ChunkIncomplete(r))
    BY <2>1 DEF Lines_, LineEnd, SizeLine, ChunkEnd, ChunkIncomplete
  <2>3. (GoesOn(q) <=> GoesOn(r)) /\ (Waits(q) <=> Waits(r))
    BY <2>1, <2>2 DEF GoesOn, Waits
  <2>4. CASE GoesOn(r)
    <3>1. Dechunk[r] = Dechunk[Onward(r)] /\ Dechunk[q] = Dechunk[Onward(q)]
      BY <2>1, <2>3, <2>4, DechunkEquation
    <3>2. Onward(q) = Sized(Onward(r), b)
      <4>1. CASE r.chunk_size = NoSize
        <5> DEFINE n == Number(SizeLine(r))
                   e == Erased(r.buffer, r.chunk_pos, LineEnd(r) + 2)
        <5>1. /\ Onward(q) = [q EXCEPT !.chunk_size = n, !.buffer = e]
              /\ Onward(r) = [r EXCEPT !.chunk_size = n, !.buffer = e]
          BY <2>1, <2>2, <4>1 DEF Onward, SizeRead
        <5> HIDE DEF n, e
        <5>2. [q EXCEPT !.chunk_size = n, !.buffer = e] =
                [[r EXCEPT !.chunk_size = n, !.buffer = e] EXCEPT !.body_size = b]
          BY <2>a, SetApart
        <5> QED
          BY <5>1, <5>2 DEF Sized
      <4>2. CASE r.chunk_size # NoSize
        <5> DEFINE k == ChunkEnd(r)
                   e == Erased(r.buffer, k, k + 2)
        <5>1. /\ Onward(q) = [q EXCEPT !.chunk_pos = k, !.chunk_size = NoSize, !.buffer = e]
              /\ Onward(r) = [r EXCEPT !.chunk_pos = k, !.chunk_size = NoSize, !.buffer = e]
          BY <2>1, <2>2, <4>2 DEF Onward, NextChunk
        <5> HIDE DEF k, e
        <5>2. [q EXCEPT !.chunk_pos = k, !.chunk_size = NoSize, !.buffer = e] =
                [[r EXCEPT !.chunk_pos = k, !.chunk_size = NoSize, !.buffer = e] EXCEPT
                   !.body_size = b]
          BY <2>a, SetApart
        <5> QED
          BY <5>1, <5>2 DEF Sized
      <4> QED
        BY <4>1, <4>2
    <3>3. Onward(r) \in T /\ Onward(r).fields # {}
      BY <1>1, <2>4, OnwardType
    <3> QED
      BY <3>1, <3>2, <3>3 DEF q
  <2>5. CASE ~GoesOn(r)
    <3>1. Dechunk[r] = Outcome(r) /\ Dechunk[q] = Outcome(q)
      BY <2>1, <2>3, <2>5, DechunkEquation
    <3>2. LastChunkRead(q) = LastChunkRead(r)
      <4> DEFINE c == SubSeq(r.buffer, 1, r.chunk_pos)
                 w == Wrap(Len(c) - r.header_size)
      <4>1. /\ LastChunkRead(q) = MeasureBody([q EXCEPT !.buffer = c])
            /\ LastChunkRead(r) = MeasureBody([r EXCEPT !.buffer = c])
        BY <2>1 DEF LastChunkRead
      <4> HIDE DEF c
      <4>2. /\ MeasureBody([q EXCEPT !.buffer = c]) = [q EXCEPT !.buffer = c, !.body_size = w]
            /\ MeasureBody([r EXCEPT !.buffer = c]) = [r EXCEPT !.buffer = c, !.body_size = w]
        BY <2>1 DEF MeasureBody, Requests
      <4> HIDE DEF w
      <4>3. [q EXCEPT !.buffer = c, !.body_size = w] = [r EXCEPT !.buffer = c, !.body_size = w]
        BY <2>a, Zenon DEF Requests
      <4> QED
        BY <4>1, <4>2, <4>3
    <3>3. q = Sized(r, q.body_size)
      BY <2>1 DEF q
    <3> QED
      BY <2>1, <2>3, <3>1, <3>2, <3>3 DEF Outcome, Agree, q
  <2> QED
    BY <2>4, <2>5
<1>2. Requests \subseteq T
  <2> HIDE DEF T
  <2> QED
    BY <1>1, DechunkInduction
<1> QED
  BY <1>2

-----------------------------------------------------------------------------
(* The header.                                                             *)

HeaderEnds(s) == Found(s, HeaderEnd, 0)
EndOfHeader(s) == Min(HeaderEnds(s))
HeaderFields(s) == {s[i] : i \in 2..EndOfHeader(s)} \ {CR, LF}

LEMMA HeaderFirst ==
  ASSUME NEW s \in Seq(Bytes), HeaderEnds(s) # {}
  PROVE  /\ HeaderEndAt(s, EndOfHeader(s))
         /\ \A i : HeaderEndAt(s, i) => EndOfHeader(s) <= i
<1> DEFINE places == HeaderEnds(s)
<1>1. \A i : i \in places <=> HeaderEndAt(s, i)
  BY HeaderEndFound DEF HeaderEnds
<1> HIDE DEF places
<1>2. places \in SUBSET Nat
  BY <1>1 DEF HeaderEndAt
<1>3. places # {}
  BY DEF places
<1>4. Min(places) \in places /\ \A i \in places : Min(places) <= i
  BY <1>2, <1>3, MinOf
<1>5. HeaderEndAt(s, Min(places)) /\ \A i : HeaderEndAt(s, i) => Min(places) <= i
  BY <1>1, <1>4
<1> QED
  BY <1>5 DEF places, EndOfHeader

LEMMA HeaderIs ==
  ASSUME NEW s \in Seq(Bytes), NEW k,
         HeaderEndAt(s, k), \A i : HeaderEndAt(s, i) => k <= i
  PROVE  HeaderEnds(s) # {} /\ EndOfHeader(s) = k
<1> DEFINE first == EndOfHeader(s)
<1>1. k \in HeaderEnds(s)
  BY HeaderEndFound DEF HeaderEnds
<1>2. HeaderEndAt(s, first) /\ (HeaderEndAt(s, k) => first <= k)
  BY <1>1, HeaderFirst
<1> HIDE DEF first
<1>3. first <= k /\ k <= first /\ first \in Nat /\ k \in Nat
  BY <1>2 DEF HeaderEndAt
<1>4. first = k
  BY <1>3
<1> QED
  BY <1>1, <1>4 DEF first

\* What is received behind a header does not change it.
LEMMA HeaderStays ==
  ASSUME NEW s \in Seq(Bytes), NEW t \in Seq(Bytes), HeaderEnds(s) # {}
  PROVE  /\ HeaderEnds(s \o t) # {} /\ EndOfHeader(s \o t) = EndOfHeader(s)
         /\ HeaderFields(s \o t) = HeaderFields(s)
<1> DEFINE k == EndOfHeader(s)
           c == s \o t
<1>1. HeaderEndAt(s, k) /\ \A i : HeaderEndAt(s, i) => k <= i
  BY HeaderFirst
<1>2. Joined(c, s, t) /\ Len(s) \in Nat /\ Len(t) \in Nat
  BY ConcatJoins
<1> HIDE DEF c, k
<1>3. HeaderEndAt(c, k)
  <2>1. k \in Nat /\ k + 1 \in 1..Len(s) /\ k + 2 \in 1..Len(s) /\ k + 3 \in 1..Len(s) /\ k + 4 \in 1..Len(s)
    BY <1>1, <1>2 DEF HeaderEndAt
  <2> QED
    BY <1>1, <1>2, <2>1 DEF HeaderEndAt, Joined
<1>4. ASSUME NEW i, HeaderEndAt(c, i) PROVE k <= i
  <2>1. CASE i + 4 <= Len(s)
    <3>1. i \in Nat /\ i + 1 \in 1..Len(s) /\ i + 2 \in 1..Len(s) /\ i + 3 \in 1..Len(s) /\ i + 4 \in 1..Len(s)
      BY <1>2, <1>4, <2>1 DEF HeaderEndAt
    <3>2. HeaderEndAt(s, i)
      BY <1>2, <1>4, <2>1, <3>1 DEF HeaderEndAt, Joined
    <3> QED
      BY <1>1, <3>2
  <2>2. CASE i + 4 > Len(s)
    BY <1>1, <1>2, <1>4, <2>2 DEF HeaderEndAt
  <2> QED
    BY <1>2, <1>4, <2>1, <2>2 DEF HeaderEndAt
<1>5. c \in Seq(Bytes)
  BY <1>2 DEF Joined
<1>6. HeaderEnds(c) # {} /\ EndOfHeader(c) = k
  BY <1>3, <1>4, <1>5, HeaderIs
<1>7. \A i \in 2..k : c[i] = s[i]
  <2>1. \A i \in 2..k : i \in 1..Len(s)
    BY <1>1, <1>2 DEF HeaderEndAt
  <2> QED
    BY <1>2, <2>1 DEF Joined
<1>8. HeaderFields(c) = HeaderFields(s)
  BY <1>6, <1>7 DEF HeaderFields, k
<1> QED
  BY <1>6, <1>8 DEF c, k

LEMMA FillType ==
  ASSUME NEW r \in Requests
  PROVE  /\ FillHeaderMap(r) \in Requests
         /\ r.fields # {} \/ HeaderEnds(r.buffer) = {} => FillHeaderMap(r) = r
         /\ r.fields = {} /\ HeaderEnds(r.buffer) # {} =>
              FillHeaderMap(r) = [r EXCEPT !.header_size = EndOfHeader(r.buffer) + 4,
                                           !.chunk_pos = EndOfHeader(r.buffer) + 4,
                                           !.fields = HeaderFields(r.buffer)]
<1> DEFINE s == r.buffer
           k == EndOfHeader(s)
           F == HeaderFields(s)
<1>1. s \in Seq(Bytes)
  BY RequestFields
<1>2. FillHeaderMap(r) = IF r.fields # {} \/ HeaderEnds(s) = {} THEN r
                         ELSE [r EXCEPT !.header_size = k + 4, !.chunk_pos = k + 4, !.fields = F]
  BY DEF FillHeaderMap, HeaderEnds, EndOfHeader, HeaderFields
<1>3. HeaderEnds(s) # {} => k \in Nat /\ k + 4 <= Len(s) /\ F \in SUBSET Bytes
  <2> SUFFICES ASSUME HeaderEnds(s) # {} PROVE k \in Nat /\ k + 4 <= Len(s) /\ F \in SUBSET Bytes
    OBVIOUS
  <2>1. k \in Nat /\ k + 4 <= Len(s)
    BY <1>1, HeaderFirst DEF HeaderEndAt
  <2>2. \A i \in 2..k : s[i] \in Bytes
    BY <1>1, <2>1
  <2> QED
    BY <2>1, <2>2 DEF HeaderFields
<1> HIDE DEF k, F
<1>4. HeaderEnds(s) # {} =>
        [r EXCEPT !.header_size = k + 4, !.chunk_pos = k + 4, !.fields = F] \in Requests
  <2> DEFINE n == k + 4
  <2>1. HeaderEnds(s) # {} => n \in Nat
    BY <1>3
  <2> HIDE DEF n
  <2>2. HeaderEnds(s) # {} =>
          [r EXCEPT !.header_size = n, !.chunk_pos = n, !.fields = F] \in Requests
    BY <1>3, <2>1 DEF Requests
  <2> QED
    BY <2>2 DEF n
<1> QED
  BY <1>2, <1>4 DEF k, F

LEMMA ReceivedType ==
  ASSUME NEW r \in Requests
  PROVE  IsRequestReceived(r) \in Outcomes /\ Keeps(r, IsRequestReceived(r)[2])
<1>1. Dechunk[r] \in Outcomes /\ Keeps(r, Dechunk[r][2])
  BY DechunkType
<1>2. IsRequestReceived(r) = Dechunk[r] \/ \E v \in {"reading", "done", "thrown"} : IsRequestReceived(r) = <<v, r>>
  BY DEF IsRequestReceived
<1>3. \A v \in {"reading", "done", "thrown"} : <<v, r>> \in Outcomes /\ <<v, r>>[2] = r
  BY DEF Outcomes
<1>4. Keeps(r, r)
  BY DEF Keeps
<1> QED
  BY <1>1, <1>2, <1>3, <1>4

\* The object when the header has been looked for and the body not yet.
Parsed(a) == MeasureBody(FillHeaderMap(Grown(NewRequest, a)))

LEMMA NewRequestType ==
  /\ NewRequest \in Requests /\ NewRequest.fields = {} /\ NewRequest.chunk_size = NoSize
  /\ NewRequest.header_size = 0 /\ NewRequest.body_size = 0 /\ NewRequest.chunk_pos = 0
  /\ NewRequest.buffer = <<>>
BY SizesAssumption DEF NewRequest, Requests, NoSize

LEMMA StartedFields ==
  ASSUME NEW a \in Seq(Bytes)
  PROVE  /\ Grown(NewRequest, a) \in Requests /\ Grown(NewRequest, a).buffer = a
         /\ Grown(NewRequest, a).fields = {}
         /\ Grown(NewRequest, a).chunk_size = NoSize
         /\ Grown(NewRequest, a).header_size = 0 /\ Grown(NewRequest, a).body_size = 0
         /\ Grown(NewRequest, a).chunk_pos = 0
<1>1. <<>> \o a = a
  BY ConcatEmptySeq
<1> QED
  BY <1>1, NewRequestType, GrownFields, ZenonT(30)

\* What has been parsed of a header, with a size of the body that counts once
\* there is one.
LEMMA ParsedIs ==
  ASSUME NEW a \in Seq(Bytes)
  PROVE  /\ Parsed(a) \in Requests /\ Parsed(a).buffer = a /\ Parsed(a).chunk_size = NoSize
         /\ HeaderEnds(a) = {} => Parsed(a) = Grown(NewRequest, a)
         /\ HeaderEnds(a) # {} => /\ Parsed(a).fields = HeaderFields(a)
                                  /\ Parsed(a).header_size = EndOfHeader(a) + 4
                                  /\ Parsed(a).chunk_pos = EndOfHeader(a) + 4
         /\ Parsed(a).fields # {} =>
              Parsed(a).body_size = Wrap(Len(a) - Parsed(a).header_size)
         /\ Parsed(a).fields = {} => Parsed(a).body_size = 0
<1> DEFINE g == Grown(NewRequest, a)
           f == FillHeaderMap(g)
           w == Wrap(Len(f.buffer) - f.header_size)
<1>1. /\ g \in Requests /\ g.buffer = a /\ g.fields = {} /\ g.chunk_size = NoSize
      /\ g.header_size = 0 /\ g.body_size = 0 /\ g.chunk_pos = 0
  BY StartedFields
<1> HIDE DEF g
<1>2. /\ f \in Requests
      /\ HeaderEnds(a) = {} => f = g
      /\ HeaderEnds(a) # {} => f = [g EXCEPT !.header_size = EndOfHeader(a) + 4,
                                             !.chunk_pos = EndOfHeader(a) + 4,
                                             !.fields = HeaderFields(a)]
  BY <1>1, FillType
<1> HIDE DEF f
<1>3. /\ f.buffer = a /\ f.chunk_size = NoSize /\ f.body_size = 0
      /\ HeaderEnds(a) # {} => /\ f.fields = HeaderFields(a)
                               /\ f.header_size = EndOfHeader(a) + 4
                               /\ f.chunk_pos = EndOfHeader(a) + 4
  BY <1>1, <1>2 DEF Requests
<1> DEFINE p == MeasureBody(f)
<1>4. p \in Requests /\ (f.fields = {} => p = f) /\ (f.fields # {} => p = [f EXCEPT !.body_size = w])
  <2>1. p \in Requests
    BY <1>2, MeasureType
  <2> QED
    BY <2>1 DEF MeasureBody
<1> HIDE DEF p, w
<1>5. /\ p.buffer = f.buffer /\ p.chunk_size = f.chunk_size /\ p.fields = f.fields
      /\ p.header_size = f.header_size /\ p.chunk_pos = f.chunk_pos
      /\ f.fields # {} => p.body_size = w
      /\ f.fields = {} => p.body_size = 0
  BY <1>2, <1>3, <1>4 DEF Requests
<1>6. Parsed(a) = p
  BY DEF Parsed, p, f, g
<1>7. HeaderEnds(a) = {} => p = g
  BY <1>1, <1>2, <1>4
<1>8. w = Wrap(Len(a) - p.header_size)
  BY <1>3, <1>5 DEF w
<1> QED
  BY <1>3, <1>4, <1>5, <1>6, <1>7, <1>8 DEF g

\* Objects are the same if their members are.
SameMembers(r, q) ==
  /\ r.buffer = q.buffer /\ r.fields = q.fields /\ r.header_size = q.header_size
  /\ r.chunk_size = q.chunk_size /\ r.chunk_pos = q.chunk_pos

LEMMA SameObject ==
  ASSUME NEW r \in Requests, NEW q \in Requests, SameMembers(r, q)
  PROVE  /\ r = Sized(q, r.body_size)
         /\ r.body_size = q.body_size => r = q
BY DEF SameMembers, Sized, Requests

LEMMA WithFields ==
  ASSUME NEW r \in Requests, r.fields # {}
  PROVE  /\ FillHeaderMap(r) = r
         /\ MeasureBody(r) = Sized(r, Wrap(Len(r.buffer) - r.header_size))
         /\ Wrap(Len(r.buffer) - r.header_size) \in Nat
<1>1. FillHeaderMap(r) = r
  BY FillType
<1> DEFINE w == Wrap(Len(r.buffer) - r.header_size)
<1>2. MeasureBody(r) = Sized(r, w)
  BY DEF MeasureBody, Sized
<1>3. w \in Nat
  <2>1. Len(r.buffer) \in Nat /\ r.header_size \in Nat
    BY RequestFields
  <2> DEFINE d == Len(r.buffer) - r.header_size
  <2>2. d \in Int
    BY <2>1
  <2> HIDE DEF d
  <2>3. Wrap(d) \in 0..MaxSize
    BY <2>2, WrapType
  <2>4. Wrap(d) \in Nat
    BY <2>3, SizesAssumption
  <2> QED
    BY <2>4 DEF d
<1> QED
  BY <1>1, <1>2, <1>3

\* read(), when the header has been received already.
LEMMA ReadWithFields ==
  ASSUME NEW q \in Requests, q.fields # {}, NEW data \in Seq(Bytes)
  PROVE  /\ ReadData(q, data) =
              IsRequestReceived(Sized(Grown(q, data), Wrap(Len(q.buffer \o data) - q.header_size)))
         /\ Wrap(Len(q.buffer \o data) - q.header_size) \in Nat
<1> DEFINE g == Grown(q, data)
<1>1. /\ g \in Requests /\ g.fields # {} /\ g.buffer = q.buffer \o data
      /\ g.header_size = q.header_size
  BY GrownFields
<1>2. ReadData(q, data) = IsRequestReceived(MeasureBody(FillHeaderMap(g)))
  BY DEF ReadData, Grown
<1> HIDE DEF g
<1>3. /\ FillHeaderMap(g) = g
      /\ MeasureBody(g) = Sized(g, Wrap(Len(g.buffer) - g.header_size))
      /\ Wrap(Len(g.buffer) - g.header_size) \in Nat
  BY <1>1, WithFields
<1> QED
  BY <1>1, <1>2, <1>3 DEF g

\* Read in two, an object is as it is when read at once: before its header is
\* complete,
LEMMA ReadTwiceHeader ==
  ASSUME NEW a \in Seq(Bytes), NEW data \in Seq(Bytes), NEW q \in Requests,
         Parsed(a).fields = {}, q = Sized(Parsed(a), q.body_size)
  PROVE  Agree(ReadData(q, data), IsRequestReceived(Parsed(a \o data)))
<1> DEFINE h == Parsed(a)
           c == a \o data
           n == Parsed(c)
           g == Grown(q, data)
           f == FillHeaderMap(g)
           m == MeasureBody(f)
<1>1. c \in Seq(Bytes) /\ (HeaderEnds(a) # {} => HeaderEnds(c) # {})
  <2>1. c \in Seq(Bytes)
    BY ConcatProperties
  <2> QED
    BY <2>1, HeaderStays
<1>2. /\ h \in Requests /\ h.buffer = a /\ h.chunk_size = NoSize
      /\ HeaderEnds(a) = {} => h = Grown(NewRequest, a)
  BY ParsedIs
<1>3. ReadData(q, data) = IsRequestReceived(m)
  BY DEF ReadData, Grown
<1> HIDE DEF h
<1>4. /\ q.buffer = a /\ q.fields = {} /\ q.chunk_size = NoSize
      /\ q.header_size = h.header_size /\ q.chunk_pos = h.chunk_pos
  <2> DEFINE b == q.body_size
  <2>1. q = Sized(h, b) /\ h.fields = {} /\ b \in Nat
    BY RequestFields DEF h
  <2> HIDE DEF b
  <2> QED
    BY <1>2, <2>1, SizedFields, ZenonT(30)
<1>5. /\ g \in Requests /\ g.buffer = c /\ g.fields = {} /\ g.chunk_size = NoSize
      /\ g.header_size = h.header_size /\ g.chunk_pos = h.chunk_pos
  BY <1>4, GrownFields
<1> HIDE DEF g
<1>6. \A r \in Requests : r.fields = {} => IsRequestReceived(r) = <<"reading", r>>
  BY DEF IsRequestReceived
<1> HIDE DEF c
<1>7. CASE HeaderEnds(c) = {}
  <2>1. h = Grown(NewRequest, a) /\ h.header_size = 0 /\ h.chunk_pos = 0
    BY <1>1, <1>2, <1>7, StartedFields
  <2>2. f = g
    BY <1>5, <1>7, FillType
  <2>3. m = g
    BY <1>5, <2>2 DEF MeasureBody
  <2>4. n = Grown(NewRequest, c)
    BY <1>1, <1>7, ParsedIs
  <2>5. /\ n \in Requests /\ n.buffer = c /\ n.fields = {} /\ n.chunk_size = NoSize
        /\ n.header_size = 0 /\ n.chunk_pos = 0
    BY <1>1, <2>4, StartedFields
  <2> HIDE DEF n, m, f
  <2>6. SameMembers(g, n)
    BY <1>5, <2>1, <2>5 DEF SameMembers
  <2>7. g = Sized(n, g.body_size)
    BY <1>5, <2>5, <2>6, SameObject
  <2>8. IsRequestReceived(m) = <<"reading", g>> /\ IsRequestReceived(n) = <<"reading", n>>
    BY <1>5, <1>6, <2>3, <2>5
  <2> QED
    BY <1>3, <2>7, <2>8 DEF Agree, n, c
<1>8. CASE HeaderEnds(c) # {}
  <2> DEFINE k == EndOfHeader(c) + 4
             F == HeaderFields(c)
  <2>1. f \in Requests /\ f = [g EXCEPT !.header_size = k, !.chunk_pos = k, !.fields = F]
    BY <1>5, <1>8, FillType
  <2>2. /\ n \in Requests /\ n.buffer = c /\ n.chunk_size = NoSize
        /\ n.fields = F /\ n.header_size = k /\ n.chunk_pos = k
        /\ n.fields # {} => n.body_size = Wrap(Len(c) - n.header_size)
    BY <1>1, <1>8, ParsedIs
  <2> HIDE DEF k, F, n, f
  <2>3. /\ f.buffer = c /\ f.chunk_size = NoSize
        /\ f.fields = F /\ f.header_size = k /\ f.chunk_pos = k
    BY <1>5, <2>1 DEF Requests
  <2>4. SameMembers(f, n)
    BY <2>2, <2>3 DEF SameMembers
  <2>5. CASE F = {}
    <3>1. m = f
      BY <2>3, <2>5 DEF MeasureBody
    <3>2. f = Sized(n, f.body_size)
      BY <2>1, <2>2, <2>4, SameObject
    <3>3. IsRequestReceived(f) = <<"reading", f>> /\ IsRequestReceived(n) = <<"reading", n>>
      BY <1>6, <2>1, <2>2, <2>3, <2>5
    <3> HIDE DEF m
    <3> QED
      BY <1>3, <3>1, <3>2, <3>3 DEF Agree, n, c
  <2>6. CASE F # {}
    <3>1. m = Sized(f, n.body_size) /\ n.body_size \in Nat
      <4>1. m = Sized(f, Wrap(Len(f.buffer) - f.header_size))
        BY <2>1, <2>3, <2>6, WithFields
      <4>2. n.body_size = Wrap(Len(f.buffer) - f.header_size)
        BY <2>2, <2>3, <2>6
      <4>3. n.body_size \in Nat
        BY <2>2, RequestFields
      <4> QED
        BY <4>1, <4>2, <4>3
    <3> HIDE DEF m
    <3>2. m \in Requests /\ m.body_size = n.body_size /\ SameMembers(m, f)
      BY <2>1, <3>1, SizedFields, ZenonT(30) DEF SameMembers
    <3>3. SameMembers(m, n)
      BY <2>4, <3>2 DEF SameMembers
    <3>4. m = n
      BY <2>2, <3>2, <3>3, SameObject
    <3>5. IsRequestReceived(n) \in Outcomes
      BY <2>2, ReceivedType
    <3>6. Agree(IsRequestReceived(n), IsRequestReceived(n))
      BY <3>5, AgreeEqual
    <3> QED
      BY <1>3, <3>4, <3>6 DEF n, c
  <2> QED
    BY <2>5, <2>6
<1> QED
  BY <1>7, <1>8

\* and while its body is waited for.
LEMMA ReadTwiceBody ==
  ASSUME NEW a \in Seq(Bytes), NEW data \in Seq(Bytes), NEW q \in Requests,
         Parsed(a).fields # {}, Agree(<<"reading", q>>, IsRequestReceived(Parsed(a)))
  PROVE  Agree(ReadData(q, data), IsRequestReceived(Parsed(a \o data)))
<1> DEFINE h == Parsed(a)
           c == a \o data
           n == Parsed(c)
           x == IsRequestReceived(h)
           H == Grown(h, data)
<1>1. c \in Seq(Bytes)
  BY ConcatProperties
<1>2. /\ h \in Requests /\ h.buffer = a /\ h.chunk_size = NoSize /\ h.fields # {}
      /\ HeaderEnds(a) # {}
  BY ParsedIs, StartedFields
<1>3. h.header_size = EndOfHeader(a) + 4 /\ h.chunk_pos = EndOfHeader(a) + 4 /\ h.fields = HeaderFields(a)
  BY <1>2, ParsedIs
<1>4. /\ HeaderEnds(c) # {} /\ EndOfHeader(c) = EndOfHeader(a) /\ HeaderFields(c) = HeaderFields(a)
  BY <1>2, HeaderStays
<1>5. /\ n \in Requests /\ n.buffer = c /\ n.chunk_size = NoSize /\ n.fields = h.fields
      /\ n.header_size = h.header_size /\ n.chunk_pos = h.chunk_pos
      /\ n.body_size = Wrap(Len(c) - h.header_size) /\ n.body_size \in Nat
  <2>1. n \in Requests /\ n.buffer = c /\ n.chunk_size = NoSize
    BY <1>1, ParsedIs
  <2>2. /\ n.fields = HeaderFields(c)
        /\ n.header_size = EndOfHeader(c) + 4 /\ n.chunk_pos = EndOfHeader(c) + 4
    BY <1>1, <1>4, ParsedIs
  <2>3. n.fields # {} => n.body_size = Wrap(Len(c) - n.header_size)
    BY <1>1, ParsedIs
  <2> HIDE DEF n, h, c
  <2>4. n.body_size \in Nat
    BY <2>1, RequestFields
  <2> QED
    BY <1>2, <1>3, <1>4, <2>1, <2>2, <2>3, <2>4
<1>6. x[1] = "reading" /\ q = Sized(x[2], q.body_size) /\ q.body_size \in Nat
  BY RequestFields DEF Agree
<1>7. x \in Outcomes /\ Keeps(h, x[2]) /\ x[2] \in Requests
  <2>1. x \in Outcomes /\ Keeps(h, x[2])
    BY <1>2, ReceivedType
  <2> QED
    BY <2>1 DEF Outcomes
<1>8. IsRequestReceived(n) \in Outcomes
  BY <1>5, ReceivedType
<1>9. /\ HasField(h, "chunked") => x = Dechunk[h]
      /\ HasField(n, "chunked") => IsRequestReceived(n) = Dechunk[n]
      /\ ~HasField(h, "chunked") => x[2] = h
      /\ HasField(n, "chunked") <=> HasField(h, "chunked")
  <2>1. /\ HasField(h, "chunked") => x = Dechunk[h]
        /\ ~HasField(h, "chunked") => x[2] = h
    BY <1>2 DEF IsRequestReceived
  <2>2. HasField(n, "chunked") <=> HasField(h, "chunked")
    BY <1>5 DEF HasField
  <2>3. HasField(n, "chunked") => IsRequestReceived(n) = Dechunk[n]
    BY <1>2, <1>5 DEF IsRequestReceived
  <2> QED
    BY <2>1, <2>2, <2>3
<1> HIDE DEF n, h, x
<1>10. /\ q.fields = h.fields /\ q.header_size = h.header_size /\ q.buffer = x[2].buffer
       /\ q.chunk_size = x[2].chunk_size /\ q.chunk_pos = x[2].chunk_pos
  <2> DEFINE b == q.body_size
             X == x[2]
  <2>1. q = Sized(X, b) /\ b \in Nat /\ X \in Requests /\ Keeps(h, X)
    BY <1>6, <1>7
  <2> HIDE DEF b, X
  <2>2. /\ q.fields = X.fields /\ q.header_size = X.header_size /\ q.buffer = X.buffer
        /\ q.chunk_size = X.chunk_size /\ q.chunk_pos = X.chunk_pos
    BY <2>1, SizedFields, ZenonT(30)
  <2>3. X.fields = h.fields /\ X.header_size = h.header_size
    BY <2>1 DEF Keeps
  <2> QED
    BY <2>2, <2>3 DEF X
<1> DEFINE g == Grown(q, data)
           w == Wrap(Len(q.buffer \o data) - q.header_size)
           m == Sized(g, w)
<1>11. ReadData(q, data) = IsRequestReceived(m) /\ w \in Nat
  BY <1>2, <1>10, ReadWithFields
<1> HIDE DEF w
<1>12. /\ g \in Requests /\ g.buffer = x[2].buffer \o data /\ g.fields = h.fields
       /\ g.header_size = h.header_size
       /\ g.chunk_size = x[2].chunk_size /\ g.chunk_pos = x[2].chunk_pos
  <2>1. /\ g \in Requests /\ g.buffer = q.buffer \o data /\ g.fields = q.fields
        /\ g.header_size = q.header_size
        /\ g.chunk_size = q.chunk_size /\ g.chunk_pos = q.chunk_pos
    BY GrownFields
  <2> HIDE DEF g
  <2> QED
    BY <1>10, <2>1
<1> HIDE DEF g
<1>13. /\ m \in Requests /\ m.buffer = x[2].buffer \o data /\ m.fields = h.fields
       /\ m.header_size = h.header_size /\ m.body_size = w
       /\ m.chunk_size = x[2].chunk_size /\ m.chunk_pos = x[2].chunk_pos
  BY <1>11, <1>12, SizedFields
<1> HIDE DEF m
<1>14. CASE HasField(h, "chunked")
  <2> DEFINE X == Grown(x[2], data)
  <2>1. /\ X \in Requests /\ X.buffer = x[2].buffer \o data /\ X.fields = h.fields
        /\ X.header_size = h.header_size
        /\ X.chunk_size = x[2].chunk_size /\ X.chunk_pos = x[2].chunk_pos
    BY <1>7, GrownFields DEF Keeps
  <2>2. /\ H \in Requests /\ H.buffer = c /\ H.fields = h.fields /\ H.header_size = h.header_size
        /\ H.chunk_size = h.chunk_size /\ H.chunk_pos = h.chunk_pos
    BY <1>2, GrownFields
  <2>3. Dechunk[X] = Dechunk[H]
    BY <1>2, <1>6, <1>9, <1>14, DechunkResumes
  <2> HIDE DEF X, H
  <2>4. m = Sized(X, w) /\ n = Sized(H, n.body_size)
    <3>1. SameMembers(m, X)
      BY <1>13, <2>1 DEF SameMembers
    <3>2. SameMembers(n, H)
      BY <1>2, <1>5, <2>2 DEF SameMembers
    <3> QED
      BY <1>5, <1>13, <2>1, <2>2, <3>1, <3>2, SameObject
  <2>5. Agree(Dechunk[m], Dechunk[X]) /\ Agree(Dechunk[n], Dechunk[H])
    BY <1>2, <1>5, <1>11, <2>1, <2>2, <2>4, DechunkIgnoresSize
  <2>6. IsRequestReceived(m) = Dechunk[m]
    BY <1>2, <1>13, <1>14 DEF IsRequestReceived, HasField
  <2>7. Dechunk[m] \in Outcomes /\ Dechunk[X] \in Outcomes /\ Dechunk[n] \in Outcomes
    BY <1>5, <1>13, <2>1, DechunkType
  <2>8. Agree(Dechunk[X], Dechunk[n])
    BY <2>3, <2>5, <2>7, AgreeEqual
  <2>9. Agree(Dechunk[m], Dechunk[n])
    BY <2>5, <2>7, <2>8, AgreeEqual
  <2> QED
    BY <1>9, <1>11, <1>14, <2>6, <2>9 DEF n
<1>15. CASE ~HasField(h, "chunked")
  <2>1. x[2] = h
    BY <1>9, <1>15
  <2>2. w = n.body_size
    BY <1>2, <1>5, <1>10, <2>1 DEF w
  <2>3. SameMembers(m, n)
    BY <1>2, <1>5, <1>13, <2>1 DEF SameMembers
  <2>4. m = n
    BY <1>5, <1>13, <2>2, <2>3, SameObject
  <2>5. Agree(IsRequestReceived(n), IsRequestReceived(n))
    BY <1>8, AgreeEqual
  <2> QED
    BY <1>11, <2>4, <2>5 DEF n
<1> QED
  BY <1>14, <1>15

-----------------------------------------------------------------------------
(* The message.                                                            *)

\* The symbols of a message, one by one.
Layout(s, fields, body) ==
  LET n == Len(fields) IN
  /\ s \in Seq(Bytes) /\ Len(s) = 3 * n + 5 + Len(body)
  /\ s[1] = StartLine /\ s[2] = CR /\ s[3] = LF
  /\ \A i \in 1..n : s[3 * i + 1] = fields[i] /\ s[3 * i + 2] = CR /\ s[3 * i + 3] = LF
  /\ s[3 * n + 4] = CR /\ s[3 * n + 5] = LF
  /\ \A j \in 1..Len(body) : s[3 * n + 5 + j] = body[j]

LEMMA LinesType ==
  ASSUME NEW fields \in Seq([kind : FieldKinds, n : Nat])
  PROVE  /\ Lines(fields) \in Seq(Bytes) /\ Len(Lines(fields)) = 3 * Len(fields)
         /\ \A i \in 1..Len(fields) : /\ Lines(fields)[3 * i - 2] = fields[i]
                                      /\ Lines(fields)[3 * i - 1] = CR
                                      /\ Lines(fields)[3 * i] = LF
<1> DEFINE n == Len(fields)
           L == Lines(fields)
           at(i) == IF i % 3 = 1 THEN fields[(i + 2) \div 3] ELSE IF i % 3 = 2 THEN CR ELSE LF
<1>1. n \in Nat /\ L = [i \in 1..(3 * n) |-> at(i)]
  BY DEF Lines
<1>2. ASSUME NEW i \in 1..(3 * n) PROVE at(i) \in Bytes
  <2>1. CASE i % 3 = 1
    <3> DEFINE k == (i + 2) \div 3
    <3>1. k \in 1..n
      BY <1>1, <2>1
    <3> HIDE DEF k
    <3> DEFINE Set == [kind : FieldKinds, n : Nat]
    <3>2. fields \in Seq(Set) /\ \A f \in Set : f \in Bytes
      BY SymbolsDiffer
    <3> HIDE DEF Set
    <3>3. fields[k] \in Bytes
      BY <3>1, <3>2
    <3> QED
      BY <2>1, <3>3 DEF k
  <2>2. CASE i % 3 # 1
    BY <2>2, SymbolsDiffer
  <2> QED
    BY <2>1, <2>2
<1>3. ASSUME NEW i \in 1..n
      PROVE  at(3 * i - 2) = fields[i] /\ at(3 * i - 1) = CR /\ at(3 * i) = LF
  <2>1. (3 * i - 2) % 3 = 1 /\ (3 * i - 2 + 2) \div 3 = i /\ (3 * i - 1) % 3 = 2 /\ (3 * i) % 3 = 0
    BY <1>1
  <2> QED
    BY <2>1
<1> HIDE DEF at
<1>4. 3 * n \in Nat
  BY <1>1
<1>5. L \in Seq(Bytes) /\ Len(L) = 3 * n
  <2> DEFINE k == 3 * n
  <2>1. k \in Nat /\ \A i \in 1..k : at(i) \in Bytes
    BY <1>2, <1>4
  <2>2. L = [i \in 1..k |-> at(i)]
    BY <1>1
  <2> HIDE DEF k, n, L
  <2>3. L \in Seq(Bytes) /\ Len(L) = k
    BY <2>1, <2>2
  <2> QED
    BY <2>3 DEF k
<1>6. ASSUME NEW i \in 1..n
      PROVE  L[3 * i - 2] = fields[i] /\ L[3 * i - 1] = CR /\ L[3 * i] = LF
  <2>1. 3 * i - 2 \in 1..(3 * n) /\ 3 * i - 1 \in 1..(3 * n) /\ 3 * i \in 1..(3 * n)
    BY <1>1
  <2> HIDE DEF L
  <2>2. L[3 * i - 2] = at(3 * i - 2) /\ L[3 * i - 1] = at(3 * i - 1) /\ L[3 * i] = at(3 * i)
    BY <1>1, <2>1
  <2> QED
    BY <1>3, <2>2
<1> QED
  BY <1>5, <1>6

LEMMA SymbolsLayout ==
  ASSUME NEW m \in Messages
  PROVE  Layout(Symbols(m), m.fields, m.body) /\ Len(Header(m)) = 3 * Len(m.fields) + 5
<1> DEFINE n == Len(m.fields)
           L == Lines(m.fields)
           start == <<StartLine>> \o Terminator
           some == start \o L
           head == some \o Terminator
           all == head \o m.body
<1>1. /\ m.fields \in Seq([kind : FieldKinds, n : Nat]) /\ m.body \in Seq(Bytes)
  BY MessagesAssumption
<1>2. /\ L \in Seq(Bytes) /\ Len(L) = 3 * n /\ n \in Nat
      /\ \A i \in 1..n : L[3 * i - 2] = m.fields[i] /\ L[3 * i - 1] = CR /\ L[3 * i] = LF
  <2>1. n \in Nat
    BY <1>1
  <2>2. /\ L \in Seq(Bytes) /\ Len(L) = 3 * Len(m.fields)
        /\ \A i \in 1..Len(m.fields) : L[3 * i - 2] = m.fields[i] /\ L[3 * i - 1] = CR /\ L[3 * i] = LF
    <3> DEFINE F == m.fields
    <3>1. F \in Seq([kind : FieldKinds, n : Nat])
      BY <1>1
    <3> HIDE DEF F
    <3>2. /\ Lines(F) \in Seq(Bytes) /\ Len(Lines(F)) = 3 * Len(F)
          /\ \A i \in 1..Len(F) : Lines(F)[3 * i - 2] = F[i] /\ Lines(F)[3 * i - 1] = CR /\ Lines(F)[3 * i] = LF
      BY <3>1, LinesType
    <3> QED
      BY <3>2 DEF F
  <2> HIDE DEF L
  <2> QED
    BY <2>1, <2>2
<1>3. /\ start \in Seq(Bytes) /\ Len(start) = 3
      /\ start[1] = StartLine /\ start[2] = CR /\ start[3] = LF
      /\ Terminator \in Seq(Bytes) /\ Len(Terminator) = 2 /\ Terminator[1] = CR /\ Terminator[2] = LF
  BY SymbolsDiffer DEF Terminator
<1>4. all = Symbols(m) /\ head = Header(m)
  BY DEF Symbols, Header
<1> HIDE DEF start, L
<1>5. Joined(some, start, L)
  BY <1>2, <1>3, ConcatJoins
<1>6. Joined(head, some, Terminator)
  <2> HIDE DEF some
  <2> QED
    BY <1>3, <1>5, ConcatJoins DEF Joined
<1>7. Joined(all, head, m.body)
  <2> HIDE DEF head
  <2> QED
    BY <1>1, <1>6, ConcatJoins DEF Joined
<1> HIDE DEF some, head, all, n
<1> DEFINE b == Len(m.body)
<1>8. b \in Nat
  BY <1>1
<1>9. /\ Len(some) = 3 + 3 * n
      /\ some[1] = StartLine /\ some[2] = CR /\ some[3] = LF
      /\ \A i \in 1..n : some[3 * i + 1] = m.fields[i] /\ some[3 * i + 2] = CR /\ some[3 * i + 3] = LF
  <2>1. Len(some) = 3 + 3 * n /\ some[1] = start[1] /\ some[2] = start[2] /\ some[3] = start[3]
    BY <1>2, <1>3, <1>5 DEF Joined
  <2>2. ASSUME NEW i \in 1..n
        PROVE  some[3 * i + 1] = m.fields[i] /\ some[3 * i + 2] = CR /\ some[3 * i + 3] = LF
    <3>1. 3 * i - 2 \in 1..Len(L) /\ 3 * i - 1 \in 1..Len(L) /\ 3 * i \in 1..Len(L)
      BY <1>2
    <3>2. /\ some[3 + (3 * i - 2)] = L[3 * i - 2] /\ some[3 + (3 * i - 1)] = L[3 * i - 1]
          /\ some[3 + 3 * i] = L[3 * i]
      BY <1>3, <1>5, <3>1 DEF Joined
    <3>3. 3 + (3 * i - 2) = 3 * i + 1 /\ 3 + (3 * i - 1) = 3 * i + 2 /\ 3 + 3 * i = 3 * i + 3
      BY <1>2
    <3>4. L[3 * i - 2] = m.fields[i] /\ L[3 * i - 1] = CR /\ L[3 * i] = LF
      BY <1>2
    <3> QED
      BY <3>2, <3>3, <3>4
  <2> QED
    BY <1>3, <2>1, <2>2
<1>10. /\ Len(head) = 3 * n + 5 /\ head[3 * n + 4] = CR /\ head[3 * n + 5] = LF
       /\ \A i \in 1..(3 * n + 3) : head[i] = some[i]
  <2>1. head[(3 + 3 * n) + 1] = CR /\ head[(3 + 3 * n) + 2] = LF
    BY <1>3, <1>6, <1>9 DEF Joined
  <2>2. (3 + 3 * n) + 1 = 3 * n + 4 /\ (3 + 3 * n) + 2 = 3 * n + 5 /\ 3 + 3 * n = 3 * n + 3
    BY <1>2
  <2>3. Len(head) = (3 + 3 * n) + 2 /\ \A i \in 1..(3 + 3 * n) : head[i] = some[i]
    BY <1>3, <1>6, <1>9 DEF Joined
  <2> QED
    BY <2>1, <2>2, <2>3
<1>11. /\ all \in Seq(Bytes) /\ Len(all) = 3 * n + 5 + b
       /\ \A i \in 1..(3 * n + 5) : all[i] = head[i]
       /\ \A j \in 1..b : all[3 * n + 5 + j] = m.body[j]
  BY <1>7, <1>10 DEF Joined, b
<1>12. /\ 1 \in 1..(3 * n + 3) /\ 2 \in 1..(3 * n + 3) /\ 3 \in 1..(3 * n + 3)
       /\ 3 * n + 4 \in 1..(3 * n + 5) /\ 3 * n + 5 \in 1..(3 * n + 5)
       /\ \A i \in 1..(3 * n + 3) : i \in 1..(3 * n + 5)
       /\ \A i \in 1..n : 3 * i + 1 \in 1..(3 * n + 3) /\ 3 * i + 2 \in 1..(3 * n + 3)
                          /\ 3 * i + 3 \in 1..(3 * n + 3)
  BY <1>2
<1>13. \A i \in 1..(3 * n + 3) : all[i] = some[i]
  BY <1>10, <1>11, <1>12
<1>14. \A i \in 1..n : /\ all[3 * i + 1] = m.fields[i] /\ all[3 * i + 2] = CR
                       /\ all[3 * i + 3] = LF
  BY <1>9, <1>12, <1>13
<1>15. /\ all[1] = StartLine /\ all[2] = CR /\ all[3] = LF
       /\ all[3 * n + 4] = CR /\ all[3 * n + 5] = LF
  BY <1>9, <1>10, <1>11, <1>12, <1>13
<1>16. Layout(all, m.fields, m.body)
  BY <1>11, <1>14, <1>15 DEF Layout, n, b
<1> QED
  BY <1>4, <1>10, <1>16 DEF n

\* What the start of a message is read as: its header is found when all of it
\* is there, and its fields are the message's.
FieldsOf(m) == {m.fields[i] : i \in 1..Len(m.fields)}

LEMMA HeaderOfMessage ==
  ASSUME NEW m \in Messages, NEW r \in 0..Len(Symbols(m))
  PROVE  LET a == SubSeq(Symbols(m), 1, r)
             n == Len(m.fields)
         IN  /\ a \in Seq(Bytes) /\ Len(a) = r
             /\ r < Len(Header(m)) => HeaderEnds(a) = {}
             /\ r >= Len(Header(m)) =>
                  HeaderEnds(a) # {} /\ EndOfHeader(a) = 3 * n + 1 /\ HeaderFields(a) = FieldsOf(m)
<1> DEFINE s == Symbols(m)
           a == SubSeq(s, 1, r)
           F == m.fields
           n == Len(F)
           b == m.body
<1>1. Layout(s, F, b) /\ Len(Header(m)) = 3 * n + 5
  BY SymbolsLayout
<1>2. /\ n \in Nat /\ Len(b) \in Nat
      /\ \A i \in 1..n : F[i] \in Bytes /\ F[i] # CR /\ F[i] # LF
  <2> DEFINE T == [kind : FieldKinds, n : Nat]
  <2>1. F \in Seq(T) /\ b \in Seq(Bytes) /\ \A f \in T : f \in Bytes /\ f # CR /\ f # LF
    BY MessagesAssumption, SymbolsDiffer
  <2> HIDE DEF T, F, b
  <2> QED
    BY <2>1
<1> HIDE DEF s, F, b
<1>3. r \in Nat /\ r <= Len(s) /\ s \in Seq(Bytes) /\ Len(s) \in Nat
  BY <1>1 DEF Layout, s
<1>4. a \in Seq(Bytes) /\ Len(a) = r /\ \A j \in 1..r : a[j] = s[j]
  <2>1. IsPart(a, s, 1, IF 1 <= r THEN r - 1 + 1 ELSE 0)
    BY <1>3, PartOf
  <2> HIDE DEF a
  <2> QED
    BY <1>3, <2>1 DEF IsPart
<1> HIDE DEF n, a
<1>5. /\ s[1] = StartLine /\ s[2] = CR /\ s[3] = LF
      /\ \A i \in 1..n : s[3 * i + 1] = F[i] /\ s[3 * i + 2] = CR /\ s[3 * i + 3] = LF
      /\ s[3 * n + 4] = CR /\ s[3 * n + 5] = LF
  BY <1>1 DEF Layout, n
<1>6. CR # LF /\ StartLine # CR
  BY SymbolsDiffer
<1>7. ASSUME NEW i, HeaderEndAt(a, i) PROVE i \in Nat /\ i >= 3 * n + 1 /\ i + 4 <= r
  <2>1. /\ i \in Nat /\ i + 4 <= r
        /\ s[i + 1] = CR /\ s[i + 2] = LF /\ s[i + 3] = CR /\ s[i + 4] = LF
    BY <1>3, <1>4, <1>7 DEF HeaderEndAt
  <2>2. SUFFICES ASSUME i < 3 * n + 1 PROVE FALSE
    BY <1>2, <2>1
  <2>3. PICK j \in Nat : i = 3 * j \/ i = 3 * j + 1 \/ i = 3 * j + 2
    <3>1. i \div 3 \in Nat
      BY <2>1
    <3>2. i = 3 * (i \div 3) \/ i = 3 * (i \div 3) + 1 \/ i = 3 * (i \div 3) + 2
      BY <2>1
    <3> QED
      BY <3>1, <3>2
  <2>4. CASE i = 3 * j
    <3>1. CASE j = 0
      BY <1>5, <1>6, <2>1, <2>4, <3>1
    <3>2. CASE j # 0
      <4>1. j \in 1..n
        BY <1>2, <2>2, <2>4, <3>2
      <4> QED
        BY <1>2, <1>5, <2>1, <2>4, <4>1, ZenonT(30)
    <3> QED
      BY <3>1, <3>2
  <2>5. CASE i = 3 * j + 1
    <3>1. j + 1 \in 1..n /\ i + 3 = 3 * (j + 1) + 1
      BY <1>2, <2>2, <2>5
    <3>2. s[3 * (j + 1) + 1] = F[j + 1] /\ F[j + 1] # CR
      BY <1>2, <1>5, <3>1
    <3> QED
      BY <2>1, <3>1, <3>2
  <2>6. CASE i = 3 * j + 2
    <3>1. CASE j = 0
      BY <1>5, <1>6, <2>1, <2>6, <3>1
    <3>2. CASE j # 0
      <4>1. j \in 1..n /\ i + 1 = 3 * j + 3
        BY <1>2, <2>2, <2>6, <3>2
      <4> QED
        BY <1>5, <1>6, <2>1, <4>1
    <3> QED
      BY <3>1, <3>2
  <2> QED
    BY <2>3, <2>4, <2>5, <2>6
<1>8. ASSUME r < 3 * n + 5 PROVE HeaderEnds(a) = {}
  <2>1. \A i : ~HeaderEndAt(a, i)
    BY <1>2, <1>3, <1>7, <1>8
  <2> QED
    BY <1>4, <2>1, HeaderEndFound DEF HeaderEnds
<1>9. ASSUME r >= 3 * n + 5
      PROVE  HeaderEnds(a) # {} /\ EndOfHeader(a) = 3 * n + 1 /\ HeaderFields(a) = FieldsOf(m)
  <2> DEFINE k == 3 * n + 1
  <2>1. k \in Nat /\ k + 1 = 3 * n + 2 /\ k + 2 = 3 * n + 3 /\ k + 3 = 3 * n + 4 /\ k + 4 = 3 * n + 5
    BY <1>2
  <2>2. s[3 * n + 2] = CR /\ s[3 * n + 3] = LF
    <3>1. n \in 1..n \/ (n = 0 /\ 3 * n + 2 = 2 /\ 3 * n + 3 = 3)
      BY <1>2
    <3> QED
      BY <1>5, <3>1
  <2>3. /\ k + 1 \in 1..r /\ k + 2 \in 1..r /\ k + 3 \in 1..r /\ k + 4 \in 1..r /\ k + 4 <= r
    BY <1>2, <1>3, <1>9
  <2> HIDE DEF k
  <2>4. HeaderEndAt(a, k)
    BY <1>4, <1>5, <2>1, <2>2, <2>3 DEF HeaderEndAt
  <2>5. \A i : HeaderEndAt(a, i) => k <= i
    BY <1>7, <2>1 DEF k
  <2>6. HeaderEnds(a) # {} /\ EndOfHeader(a) = k
    BY <1>4, <2>4, <2>5, HeaderIs
  <2>7. HeaderFields(a) = {s[i] : i \in 2..k} \ {CR, LF}
    <3>1. \A i \in 2..k : a[i] = s[i]
      BY <1>3, <1>4, <2>1, <2>3
    <3>2. HeaderFields(a) = {a[i] : i \in 2..k} \ {CR, LF}
      BY <2>6 DEF HeaderFields
    <3> QED
      BY <3>1, <3>2
  <2>8. ASSUME NEW i \in 2..k PROVE s[i] \in {CR, LF} \/ \E j \in 1..n : s[i] = F[j]
    <3>1. PICK j \in Nat : i = 3 * j \/ i = 3 * j + 1 \/ i = 3 * j + 2
      <4>1. i \div 3 \in Nat
        BY <2>1
      <4>2. i = 3 * (i \div 3) \/ i = 3 * (i \div 3) + 1 \/ i = 3 * (i \div 3) + 2
        BY <2>1
      <4> QED
        BY <4>1, <4>2
    <3>2. CASE i = 3 * j
      <4>1. i = 3 \/ (j - 1 \in 1..n /\ i = 3 * (j - 1) + 3)
        BY <1>2, <3>2 DEF k
      <4> QED
        BY <1>5, <4>1
    <3>3. CASE i = 3 * j + 1
      <4>1. j \in 1..n
        BY <1>2, <3>3 DEF k
      <4> QED
        BY <1>5, <3>3, <4>1
    <3>4. CASE i = 3 * j + 2
      <4>1. i = 2 \/ j \in 1..n
        BY <1>2, <3>4 DEF k
      <4> QED
        BY <1>5, <3>4, <4>1
    <3> QED
      BY <3>1, <3>2, <3>3, <3>4
  <2>9. ASSUME NEW j \in 1..n PROVE 3 * j + 1 \in 2..k /\ s[3 * j + 1] = F[j] /\ F[j] \notin {CR, LF}
    BY <1>2, <1>5 DEF k
  <2>10. {s[i] : i \in 2..k} \ {CR, LF} = {F[j] : j \in 1..n}
    BY <2>8, <2>9
  <2> QED
    BY <2>6, <2>7, <2>10 DEF FieldsOf, k, F, n
<1> QED
  BY <1>1, <1>4, <1>8, <1>9 DEF a, s, F, n

-----------------------------------------------------------------------------
(* PacketsDoNotMatter.                                                     *)

\* The first `received` symbols, read by one recv().
Arrived == SubSeq(Symbols(message), 1, received)
Once == ReadData(NewRequest, Arrived)

\* The inductive invariant: unless the peer went away, the object agrees with
\* the one that had everything at once.
PacketsInv ==
  /\ message \in Messages /\ received \in 0..Len(Symbols(message))
  /\ request \in Requests /\ status \in Statuses
  /\ status # "lost" => Agree(<<status, request>>, Once)

LEMMA OnceIs ==
  ASSUME NEW a \in Seq(Bytes)
  PROVE  /\ ReadData(NewRequest, a) = IsRequestReceived(Parsed(a))
         /\ ReadData(NewRequest, a) \in Outcomes
         /\ Parsed(a).fields = {} => ReadData(NewRequest, a) = <<"reading", Parsed(a)>>
<1>1. ReadData(NewRequest, a) = IsRequestReceived(Parsed(a))
  BY DEF ReadData, Parsed, Grown
<1>2. Parsed(a) \in Requests
  BY ParsedIs
<1> QED
  BY <1>1, <1>2, ReceivedType DEF IsRequestReceived

\* Read in two is as read at once.
LEMMA ReadTwice ==
  ASSUME NEW a \in Seq(Bytes), NEW data \in Seq(Bytes), NEW q \in Requests,
         Agree(<<"reading", q>>, ReadData(NewRequest, a))
  PROVE  /\ Agree(ReadData(q, data), ReadData(NewRequest, a \o data))
         /\ ReadData(q, data) \in Outcomes
<1> DEFINE h == Parsed(a)
           g == Grown(q, data)
<1>1. a \o data \in Seq(Bytes)
  BY ConcatProperties
<1>2. ReadData(NewRequest, a \o data) = IsRequestReceived(Parsed(a \o data))
  BY <1>1, OnceIs
<1>3. ReadData(NewRequest, a) = IsRequestReceived(h)
  BY OnceIs
<1>4. Agree(ReadData(q, data), IsRequestReceived(Parsed(a \o data)))
  <2>1. CASE h.fields = {}
    <3>1. Agree(<<"reading", q>>, <<"reading", h>>)
      BY <2>1, OnceIs
    <3>2. q = Sized(h, q.body_size)
      <4> DEFINE x == <<"reading", q>>
                 y == <<"reading", h>>
      <4>1. x[1] # "done" /\ x[2] = q /\ y[2] = h
        OBVIOUS
      <4>2. x[2] = Sized(y[2], x[2].body_size)
        BY <3>1, <4>1 DEF Agree
      <4> HIDE DEF x, y, h
      <4> QED
        BY <4>1, <4>2
    <3> QED
      BY <2>1, <3>2, ReadTwiceHeader
  <2>2. CASE h.fields # {}
    BY <1>3, <2>2, ReadTwiceBody
  <2> QED
    BY <2>1, <2>2
<1>5. ReadData(q, data) \in Outcomes
  <2>1. ReadData(q, data) = IsRequestReceived(MeasureBody(FillHeaderMap(g)))
    BY DEF ReadData, Grown
  <2>2. g \in Requests
    BY GrownFields
  <2> HIDE DEF g
  <2>3. FillHeaderMap(g) \in Requests
    BY <2>2, FillType
  <2>4. MeasureBody(FillHeaderMap(g)) \in Requests
    BY <2>3, MeasureType
  <2> QED
    BY <2>1, <2>4, ReceivedType
<1> QED
  BY <1>2, <1>4, <1>5

LEMMA PartJoins ==
  ASSUME NEW s \in Seq(Bytes), NEW r \in Nat, NEW k \in Nat, r <= k, k <= Len(s)
  PROVE  /\ SubSeq(s, 1, r) \in Seq(Bytes) /\ SubSeq(s, r + 1, k) \in Seq(Bytes)
         /\ SubSeq(s, 1, r) \o SubSeq(s, r + 1, k) = SubSeq(s, 1, k)
<1>1. /\ SubSeq(s, 1, r) \in Seq(Bytes) /\ SubSeq(s, r + 1, k) \in Seq(Bytes)
  BY PartOf DEF IsPart
<1>2. SubSeq(s, 1, r) \o SubSeq(s, r + 1, k) = SubSeq(s, 1, k)
  BY ConcatAdjacentSubSeq
<1> QED
  BY <1>1, <1>2

LEMMA PacketsInitially == Init => PacketsInv
<1> SUFFICES ASSUME Init PROVE PacketsInv
  OBVIOUS
<1>1. /\ request = NewRequest /\ status = "reading" /\ message \in Messages /\ received = 0
  BY DEF Init
<1>2. Symbols(message) \in Seq(Bytes)
  BY <1>1, SymbolsLayout DEF Layout
<1> DEFINE e == SubSeq(Symbols(message), 1, 0)
<1>3. e = <<>> /\ e \in Seq(Bytes) /\ 0 \in 0..Len(Symbols(message))
  BY <1>2
<1>4. HeaderEnds(e) = {}
  <2>1. \A i : ~HeaderEndAt(e, i)
    BY <1>3 DEF HeaderEndAt
  <2> HIDE DEF e
  <2> QED
    BY <1>3, <2>1, HeaderEndFound DEF HeaderEnds
<1> HIDE DEF e
<1>5. Parsed(e) = NewRequest /\ Parsed(e).fields = {}
  <2>1. Parsed(e) = Grown(NewRequest, e)
    BY <1>3, <1>4, ParsedIs
  <2>2. Grown(NewRequest, e) = NewRequest
    <3> DEFINE g == Grown(NewRequest, e)
    <3>1. g \in Requests /\ SameMembers(g, NewRequest) /\ g.body_size = NewRequest.body_size
      BY <1>3, StartedFields, NewRequestType DEF SameMembers
    <3> HIDE DEF g
    <3>2. g = NewRequest
      BY <3>1, NewRequestType, SameObject
    <3> QED
      BY <3>2 DEF g
  <2> QED
    BY <2>1, <2>2, NewRequestType
<1>6. Once = <<"reading", NewRequest>>
  BY <1>1, <1>3, <1>5, OnceIs DEF Once, Arrived, e
<1>7. Agree(<<"reading", NewRequest>>, <<"reading", NewRequest>>)
  <2>1. <<"reading", NewRequest>> \in Outcomes
    BY NewRequestType DEF Outcomes
  <2> QED
    BY <2>1, AgreeEqual
<1>8. request \in Requests /\ status \in Statuses
  BY <1>1, NewRequestType DEF Statuses
<1> QED
  BY <1>1, <1>3, <1>6, <1>7, <1>8 DEF PacketsInv

LEMMA PacketsStep == PacketsInv /\ [Next]_vars => PacketsInv'
<1> SUFFICES ASSUME PacketsInv, [Next]_vars PROVE PacketsInv'
  OBVIOUS
<1>1. CASE Read
  <2> DEFINE s == Symbols(message)
  <2>1. PICK n \in 1..BUFFER_SIZE :
          /\ received + n <= Len(s) /\ received' = received + n
          /\ status' = ReadData(request, SubSeq(s, received + 1, received + n))[1]
          /\ request' = ReadData(request, SubSeq(s, received + 1, received + n))[2]
    BY <1>1 DEF Read
  <2> DEFINE a == SubSeq(s, 1, received)
             data == SubSeq(s, received + 1, received + n)
             c == SubSeq(s, 1, received + n)
  <2>2. /\ message' = message /\ status = "reading" /\ message \in Messages /\ request \in Requests
        /\ Agree(<<"reading", request>>, ReadData(NewRequest, a))
    BY <1>1 DEF Read, PacketsInv, Once, Arrived
  <2>3. s \in Seq(Bytes) /\ received \in Nat /\ received + n \in Nat /\ received + n <= Len(s)
    <3>1. s \in Seq(Bytes)
      BY <2>2, SymbolsLayout DEF Layout
    <3>2. received \in 0..Len(s)
      BY DEF PacketsInv
    <3> HIDE DEF s
    <3> QED
      BY <2>1, <3>1, <3>2, SizesAssumption
  <2>4. a \in Seq(Bytes) /\ data \in Seq(Bytes) /\ c = a \o data
    BY <2>1, <2>3, PartJoins
  <2> HIDE DEF a, data, s, c
  <2>5. Agree(ReadData(request, data), ReadData(NewRequest, c)) /\ ReadData(request, data) \in Outcomes
    BY <2>2, <2>4, ReadTwice
  <2>6. ReadData(request, data) = <<status', request'>>
    BY <2>1, <2>5 DEF Outcomes, data
  <2>7. status' \in Statuses /\ request' \in Requests
    BY <2>5, <2>6 DEF Outcomes, Statuses
  <2>8. Once' = ReadData(NewRequest, c)
    BY <2>1, <2>2 DEF Once, Arrived, c, s
  <2>9. received' \in 0..Len(Symbols(message))'
    BY <2>1, <2>2, <2>3 DEF s
  <2> QED
    BY <2>2, <2>5, <2>6, <2>7, <2>8, <2>9 DEF PacketsInv
<1>2. CASE ReadNothing
  BY <1>2 DEF ReadNothing, PacketsInv, Statuses, Once, Arrived
<1>3. CASE UNCHANGED vars
  BY <1>3 DEF vars, PacketsInv, Once, Arrived
<1> QED
  BY <1>1, <1>2, <1>3 DEF Next

LEMMA PacketsInvariant == Spec => []PacketsInv
BY PacketsInitially, PacketsStep, PTL DEF Spec

\* The object read() leaves does not depend on how recv() cut the message
\* (HTTPRequest::read and what it calls).
THEOREM PacketsIrrelevant == Spec => []PacketsDoNotMatter
<1>1. PacketsInv => PacketsDoNotMatter
  <2> SUFFICES ASSUME PacketsInv, status # "lost"
               PROVE  /\ status = Once[1]
                      /\ IF status = "done" THEN request = Once[2]
                         ELSE request = [Once[2] EXCEPT !.body_size = request.body_size]
    BY DEF PacketsDoNotMatter, Once, Arrived
  <2> DEFINE x == <<status, request>>
  <2>1. Agree(x, Once) /\ x[1] = status /\ x[2] = request
    BY DEF PacketsInv
  <2> HIDE DEF x
  <2>2. /\ status = Once[1]
        /\ IF status = "done" THEN request = Once[2] ELSE request = Sized(Once[2], request.body_size)
    BY <2>1 DEF Agree
  <2> QED
    BY <2>2 DEF Sized
<1> QED
  BY <1>1, PacketsInvariant, PTL

-----------------------------------------------------------------------------
(* The type invariant.                                                     *)

HeaderSymbols == [kind : FieldKinds, n : Nat]
Small(r) == r.chunk_size <= MaxSize /\ r.body_size <= MaxSize

\* Nothing read() does makes a number too large for a size_t.
LEMMA ReadKeepsSmall ==
  ASSUME NEW q \in Requests, NEW data \in Seq(Bytes), Small(q)
  PROVE  Small(ReadData(q, data)[2])
<1> DEFINE g == Grown(q, data)
           f == FillHeaderMap(g)
           m == MeasureBody(f)
<1>1. ReadData(q, data) = IsRequestReceived(m)
  BY DEF ReadData, Grown
<1>2. g \in Requests /\ g.chunk_size = q.chunk_size /\ g.body_size = q.body_size
  BY GrownFields
<1> HIDE DEF g
<1>3. f \in Requests /\ f.chunk_size = g.chunk_size /\ f.body_size = g.body_size
  <2> DEFINE k == EndOfHeader(g.buffer) + 4
             F == HeaderFields(g.buffer)
  <2>1. f \in Requests
        /\ (f = g \/ f = [g EXCEPT !.header_size = k, !.chunk_pos = k, !.fields = F])
    BY <1>2, FillType
  <2> HIDE DEF f, k, F
  <2> QED
    BY <1>2, <2>1 DEF Requests
<1> HIDE DEF f
<1>4. /\ m \in Requests /\ (f.body_size <= MaxSize => m.body_size <= MaxSize)
      /\ m.chunk_size = f.chunk_size
  <2> DEFINE b == Wrap(Len(f.buffer) - f.header_size)
  <2>1. /\ m \in Requests /\ (f.body_size <= MaxSize => m.body_size <= MaxSize)
        /\ (m = f \/ m = [f EXCEPT !.body_size = b])
    BY <1>3, MeasureType
  <2> HIDE DEF m, b
  <2> QED
    BY <1>3, <2>1 DEF Requests
<1> HIDE DEF m
<1>5. Keeps(m, IsRequestReceived(m)[2])
  BY <1>4, ReceivedType
<1> QED
  BY <1>1, <1>2, <1>3, <1>4, <1>5 DEF Keeps, Small

\* What agrees has the same members, the size of a body excepted.
LEMMA AgreeMembers ==
  ASSUME NEW v, NEW q \in Requests, NEW y \in Outcomes, Agree(<<v, q>>, y)
  PROVE  /\ v = y[1] /\ SameMembers(q, y[2])
         /\ v = "done" => q = y[2]
<1> DEFINE o == y[2]
           b == q.body_size
           x == <<v, q>>
<1>1. x[1] = v /\ x[2] = q /\ o \in Requests /\ b \in Nat
  BY RequestFields DEF Outcomes
<1> HIDE DEF x
<1>2. v = y[1] /\ IF v = "done" THEN q = o ELSE q = Sized(o, b)
  BY <1>1 DEF Agree, x
<1> HIDE DEF o, b
<1>3. SameMembers(Sized(o, b), o) /\ SameMembers(o, o)
  <2> DEFINE z == Sized(o, b)
  <2>1. /\ z.buffer = o.buffer /\ z.fields = o.fields /\ z.header_size = o.header_size
        /\ z.chunk_size = o.chunk_size /\ z.chunk_pos = o.chunk_pos
    BY <1>1, SizedFields
  <2> HIDE DEF z
  <2>2. SameMembers(z, o) /\ SameMembers(o, o)
    BY <2>1 DEF SameMembers
  <2> QED
    BY <2>2 DEF z
<1>4. SameMembers(q, o)
  BY <1>2, <1>3
<1> QED
  BY <1>2, <1>4 DEF o

\* The fields of an object are the message's.
LEMMA FieldsAreSent ==
  ASSUME NEW m \in Messages, NEW r \in 0..Len(Symbols(m)), NEW v, NEW q \in Requests,
         Agree(<<v, q>>, ReadData(NewRequest, SubSeq(Symbols(m), 1, r)))
  PROVE  q.fields \in {{}, FieldsOf(m)}
<1> DEFINE a == SubSeq(Symbols(m), 1, r)
           h == Parsed(a)
           once == ReadData(NewRequest, a)
<1>1. HeaderFields(a) = FieldsOf(m) \/ HeaderEnds(a) = {}
  <2> DEFINE l == Len(Header(m))
  <2>1. /\ r < l => HeaderEnds(a) = {}
        /\ r >= l => HeaderFields(a) = FieldsOf(m)
    BY HeaderOfMessage
  <2>2. r \in Int /\ l \in Int
    <3>1. l = 3 * Len(m.fields) + 5
      BY SymbolsLayout
    <3>2. Len(m.fields) \in Nat
      <4> DEFINE T == [kind : FieldKinds, n : Nat]
      <4>1. m.fields \in Seq(T)
        BY MessagesAssumption
      <4> HIDE DEF T
      <4> QED
        BY <4>1
    <3>3. r \in Int
      <4>1. Len(Symbols(m)) \in Nat
        BY SymbolsLayout DEF Layout
      <4> QED
        BY <4>1
    <3> HIDE DEF l
    <3> QED
      BY <3>1, <3>2, <3>3
  <2> HIDE DEF l
  <2> QED
    BY <2>1, <2>2
<1>2. a \in Seq(Bytes)
  BY HeaderOfMessage
<1>3. h \in Requests /\ h.fields \in {{}, FieldsOf(m)}
  BY <1>1, <1>2, ParsedIs, StartedFields
<1>4. once = IsRequestReceived(h)
  BY <1>2, OnceIs
<1> HIDE DEF h, once, a
<1>5. once \in Outcomes /\ once[2].fields = h.fields
  BY <1>3, <1>4, ReceivedType DEF Keeps
<1>6. q.fields = once[2].fields
  <2>1. Agree(<<v, q>>, once)
    BY DEF once, a
  <2>2. SameMembers(q, once[2])
    BY <1>5, <2>1, AgreeMembers
  <2> QED
    BY <2>2 DEF SameMembers
<1> QED
  BY <1>3, <1>5, <1>6

\* The numbers of a request are size_t, its fields are header fields, and no
\* more is received than was sent.
THEOREM RequestTyped == Spec => []TypeOK
<1> DEFINE Inv == PacketsInv /\ TypeOK
<1>1. Init => TypeOK
  <2> SUFFICES ASSUME Init PROVE TypeOK
    OBVIOUS
  <2>1. request = NewRequest /\ status = "reading" /\ message \in Messages /\ received = 0
    BY DEF Init
  <2>2. Len(Symbols(message)) \in Nat
    BY <2>1, SymbolsLayout DEF Layout
  <2> QED
    BY <2>1, <2>2, NewRequestType, SizesAssumption DEF TypeOK, Statuses, NoSize
<1>2. Init => PacketsInv
  BY PacketsInitially
<1>3. PacketsInv /\ [Next]_vars => PacketsInv'
  BY PacketsStep
<1>4. TypeOK /\ PacketsInv /\ PacketsInv' /\ [Next]_vars => TypeOK'
  <2> SUFFICES ASSUME TypeOK, PacketsInv, PacketsInv', [Next]_vars PROVE TypeOK'
    OBVIOUS
  <2>1. CASE Read
    <3> DEFINE s == Symbols(message)
    <3>1. PICK n \in 1..BUFFER_SIZE :
            /\ received + n <= Len(s)
            /\ status' = ReadData(request, SubSeq(s, received + 1, received + n))[1]
            /\ request' = ReadData(request, SubSeq(s, received + 1, received + n))[2]
      BY <2>1 DEF Read
    <3> DEFINE data == SubSeq(s, received + 1, received + n)
    <3>2. message' = message /\ message \in Messages /\ request \in Requests /\ Small(request)
      BY <2>1 DEF Read, PacketsInv, TypeOK, Small
    <3>3. s \in Seq(Bytes) /\ received \in 0..Len(s)
      BY <3>2, SymbolsLayout DEF Layout, PacketsInv
    <3> HIDE DEF s
    <3>4. data \in Seq(Bytes)
      BY <3>1, <3>3, SizesAssumption, PartOf DEF IsPart
    <3>5. request' = ReadData(request, data)[2] /\ status' = ReadData(request, data)[1]
      BY <3>1
    <3> HIDE DEF data
    <3>6. Small(request')
      BY <3>2, <3>4, <3>5, ReadKeepsSmall
    <3>7. status' # "lost"
      <4> DEFINE g == Grown(request, data)
      <4>1. g \in Requests
        BY <3>2, <3>4, GrownFields
      <4>2. ReadData(request, data) = IsRequestReceived(MeasureBody(FillHeaderMap(g)))
        BY DEF ReadData, Grown
      <4> HIDE DEF g
      <4>3. ReadData(request, data) \in Outcomes
        BY <4>1, <4>2, FillType, MeasureType, ReceivedType
      <4> QED
        BY <3>5, <4>3 DEF Outcomes
    <3>8. request'.fields \in {{}, FieldsOf(message')}
      <4>1. /\ message' \in Messages /\ received' \in 0..Len(Symbols(message'))
            /\ request' \in Requests /\ Agree(<<status', request'>>, Once')
        BY <3>7 DEF PacketsInv
      <4>2. Once' = ReadData(NewRequest, SubSeq(Symbols(message'), 1, received'))
        BY DEF Once, Arrived
      <4> QED
        BY <4>1, <4>2, FieldsAreSent
    <3>9. FieldsOf(message') \subseteq HeaderSymbols
      <4> DEFINE F == message.fields
      <4>1. F \in Seq(HeaderSymbols)
        BY <3>2, MessagesAssumption DEF HeaderSymbols
      <4>2. FieldsOf(message') = {F[i] : i \in 1..Len(F)}
        BY <3>2 DEF FieldsOf
      <4> HIDE DEF F
      <4> QED
        BY <4>1, <4>2
    <3> QED
      BY <3>6, <3>8, <3>9 DEF TypeOK, PacketsInv, Small, HeaderSymbols
  <2>2. CASE ReadNothing
    BY <2>2 DEF ReadNothing, TypeOK, Statuses
  <2>3. CASE UNCHANGED vars
    BY <2>3 DEF vars, TypeOK
  <2> QED
    BY <2>1, <2>2, <2>3 DEF Next
<1>5. Init => Inv
  BY <1>1, <1>2
<1>6. Inv /\ [Next]_vars => Inv'
  BY <1>3, <1>4
<1>7. Inv => TypeOK
  OBVIOUS
<1> HIDE DEF Inv
<1> QED
  BY <1>5, <1>6, <1>7, PTL DEF Spec

-----------------------------------------------------------------------------
(* A chunked body read as a whole: what Chunked computes from a place on.  *)

SizeEnd(s, p) == Min(Found(s, Terminator, p))
SizeAt(s, p) == Number(SubSeq(s, p + 1, SizeEnd(s, p)))
ChunkDataEnd(s, p) == SizeEnd(s, p) + 2 + SizeAt(s, p)
DataAt(s, p) == SubSeq(s, SizeEnd(s, p) + 3, ChunkDataEnd(s, p))
TooLarge(s, p, l) == SizeAt(s, p) + l + 2 > MaxSize

\* There is a whole chunk at p, and it is not the last one.
ChunkAt(s, p, l) ==
  /\ Found(s, Terminator, p) # {} /\ SizeAt(s, p) # BadNumber /\ ~TooLarge(s, p, l)
  /\ SizeAt(s, p) # 0 /\ ~(ChunkDataEnd(s, p) + 2 > Len(s))
  /\ ChunkDataEnd(s, p) \in Found(s, Terminator, 0)

Verdict(s, p, l) ==
  IF Found(s, Terminator, p) = {} THEN <<"reading", <<>>>>
  ELSE IF SizeAt(s, p) = BadNumber THEN <<"thrown", <<>>>>
  ELSE IF TooLarge(s, p, l) THEN <<"huge", <<>>>>
  ELSE IF SizeAt(s, p) = 0
  THEN <<IF Found(s, Terminator, SizeEnd(s, p) + 2) = {} THEN "reading" ELSE "done", <<>>>>
  ELSE IF ChunkDataEnd(s, p) + 2 > Len(s) THEN <<"reading", <<>>>>
  ELSE <<"thrown", <<>>>>

Verdicts == {"reading", "done", "thrown", "huge"} \X Seq(Bytes)

\* parse is such a function, and its values are verdicts.
IsVerdict(f, s) == \A p \in 0..Len(s) : f[p] \in Verdicts
Parses(f, s, l) ==
  \A p \in 0..Len(s) :
    f[p] = IF ChunkAt(s, p, l)
           THEN <<f[ChunkDataEnd(s, p) + 2][1], DataAt(s, p) \o f[ChunkDataEnd(s, p) + 2][2]>>
           ELSE Verdict(s, p, l)

LEMMA PlacesInBody ==
  ASSUME NEW s \in Seq(Bytes), NEW p \in 0..Len(s), Found(s, Terminator, p) # {}
  PROVE  /\ TerminatorAt(s, p, SizeEnd(s, p))
         /\ \A i : TerminatorAt(s, p, i) => SizeEnd(s, p) <= i
         /\ SizeEnd(s, p) \in Nat /\ p <= SizeEnd(s, p) /\ SizeEnd(s, p) + 2 <= Len(s)
         /\ SubSeq(s, p + 1, SizeEnd(s, p)) \in Seq(Bytes)
         /\ SizeAt(s, p) = BadNumber \/ SizeAt(s, p) \in 0..MaxSize
<1> DEFINE k == SizeEnd(s, p)
           line == SubSeq(s, p + 1, k)
<1>1. Len(s) \in Nat /\ p \in Nat
  OBVIOUS
<1>2. TerminatorAt(s, p, k) /\ \A i : TerminatorAt(s, p, i) => k <= i
  BY <1>1, FirstFound DEF SizeEnd
<1> HIDE DEF k
<1>3. k \in Nat /\ p <= k /\ k + 2 <= Len(s)
  BY <1>2 DEF TerminatorAt
<1>4. line \in Seq(Bytes)
  BY <1>1, <1>3, PartOf DEF IsPart
<1>5. Number(line) = BadNumber \/ Number(line) \in 0..MaxSize
  <2> HIDE DEF line
  <2> QED
    BY <1>4, NumberType
<1> QED
  BY <1>2, <1>3, <1>4, <1>5 DEF k, SizeAt

LEMMA ChunkInBody ==
  ASSUME NEW s \in Seq(Bytes), NEW p \in 0..Len(s), NEW l \in Nat, ChunkAt(s, p, l)
  PROVE  /\ SizeAt(s, p) \in 1..MaxSize /\ ChunkDataEnd(s, p) \in Nat
         /\ ChunkDataEnd(s, p) + 2 \in 0..Len(s) /\ p < ChunkDataEnd(s, p) + 2
         /\ DataAt(s, p) \in Seq(Bytes) /\ Len(DataAt(s, p)) = SizeAt(s, p)
<1> DEFINE k == SizeEnd(s, p)
           n == SizeAt(s, p)
           e == ChunkDataEnd(s, p)
<1>1. Len(s) \in Nat /\ p \in Nat /\ MaxSize \in Nat
  BY SizesAssumption
<1>2. k \in Nat /\ p <= k /\ n \in 0..MaxSize /\ n # 0 /\ ~(e + 2 > Len(s))
  BY PlacesInBody DEF ChunkAt
<1>3. e = k + 2 + n
  BY DEF ChunkDataEnd
<1> HIDE DEF k, n, e
<1>4. n \in 1..MaxSize /\ e \in Nat /\ e + 2 \in 0..Len(s) /\ p < e + 2 /\ e <= Len(s) /\ k + 3 <= e
  BY <1>1, <1>2, <1>3
<1>5. IsPart(SubSeq(s, k + 3, e), s, k + 3, IF k + 3 <= e THEN e - (k + 3) + 1 ELSE 0)
  BY <1>2, <1>4, PartOf
<1>6. e - (k + 3) + 1 = n
  BY <1>1, <1>2, <1>3
<1> QED
  BY <1>4, <1>5, <1>6 DEF IsPart, DataAt, k, n, e

LEMMA VerdictType ==
  ASSUME NEW s, NEW p, NEW l
  PROVE  Verdict(s, p, l) \in Verdicts
<1>1. \A v \in {"reading", "done", "thrown", "huge"} : <<v, <<>>>> \in Verdicts
  <2> DEFINE e == <<>>
  <2>1. e \in Seq(Bytes)
    BY EmptySeq
  <2> HIDE DEF e
  <2>2. \A v \in {"reading", "done", "thrown", "huge"} : <<v, e>> \in Verdicts
    BY <2>1 DEF Verdicts
  <2> QED
    BY <2>2 DEF e
<1> QED
  BY <1>1 DEF Verdict

LEMMA ChunkedParses ==
  ASSUME NEW s \in Seq(Bytes), NEW l \in Nat, l = Len(Symbols(message))
  PROVE  \E f : IsVerdict(f, s) /\ Parses(f, s, l) /\ Chunked(s) = f[0]
<1> DEFINE S == 0..Len(s)
           V == Verdicts
           base == {p \in S : ~ChunkAt(s, p, l)}
           size == [p \in S |-> Len(s) - p]
           next == [p \in S |-> IF ChunkAt(s, p, l) THEN ChunkDataEnd(s, p) + 2 ELSE p]
           given == [p \in S |-> IF ChunkAt(s, p, l) THEN <<"reading", <<>>>> ELSE Verdict(s, p, l)]
           step == [p \in S |-> [v \in V |-> <<v[1], IF ChunkAt(s, p, l) THEN DataAt(s, p) \o v[2] ELSE v[2]>>]]
<1>0. /\ \A p \in S : Len(s) - p \in Nat
      /\ \A p, q \in S : p < q => Len(s) - q < Len(s) - p
      /\ \A p \in S : ChunkAt(s, p, l) => /\ ChunkDataEnd(s, p) + 2 \in S /\ p < ChunkDataEnd(s, p) + 2
                                          /\ DataAt(s, p) \in Seq(Bytes)
  <2>1. \A p \in S : Len(s) - p \in Nat
    OBVIOUS
  <2>2. \A p, q \in S : p < q => Len(s) - q < Len(s) - p
    OBVIOUS
  <2>3. \A p \in S : ChunkAt(s, p, l) => /\ ChunkDataEnd(s, p) + 2 \in S /\ p < ChunkDataEnd(s, p) + 2
                                         /\ DataAt(s, p) \in Seq(Bytes)
    BY ChunkInBody
  <2> QED
    BY <2>1, <2>2, <2>3
<1> HIDE DEF S
<1>1. /\ size \in [S -> Nat]
      /\ \A p, q \in S : p < q => size[q] < size[p]
  BY <1>0
<1>2. next \in [S -> S] /\ \A p \in S \ base : size[next[p]] < size[p]
  <2>1. \A p \in S : next[p] \in S /\ (ChunkAt(s, p, l) => next[p] = ChunkDataEnd(s, p) + 2)
    BY <1>0
  <2>2. next \in [S -> S]
    BY <2>1
  <2> HIDE DEF next, size
  <2>3. \A p \in S \ base : next[p] \in S /\ p < next[p]
    BY <1>0, <2>1
  <2> QED
    BY <1>1, <2>2, <2>3
<1>3. given \in [S -> V]
  <2>1. <<"reading", <<>>>> \in V
    <3> DEFINE e == <<>>
    <3>1. e \in Seq(Bytes)
      BY EmptySeq
    <3> HIDE DEF e
    <3>2. <<"reading", e>> \in Verdicts
      BY <3>1 DEF Verdicts
    <3> QED
      BY <3>2 DEF e
  <2> HIDE DEF S, V
  <2> QED
    BY <2>1, VerdictType DEF V
<1>4. step \in [S -> [V -> V]] /\ base \in SUBSET S
  <2>1. ASSUME NEW p \in S, NEW v \in V
        PROVE  <<v[1], IF ChunkAt(s, p, l) THEN DataAt(s, p) \o v[2] ELSE v[2]>> \in V
    <3>1. v[1] \in {"reading", "done", "thrown", "huge"} /\ v[2] \in Seq(Bytes)
      BY DEF Verdicts
    <3>2. ChunkAt(s, p, l) => DataAt(s, p) \o v[2] \in Seq(Bytes)
      <4> DEFINE d == DataAt(s, p)
                 t == v[2]
      <4>1. ChunkAt(s, p, l) => d \in Seq(Bytes)
        BY <1>0
      <4>2. t \in Seq(Bytes)
        BY <3>1
      <4> HIDE DEF d, t
      <4>3. ChunkAt(s, p, l) => d \o t \in Seq(Bytes)
        BY <4>1, <4>2
      <4> QED
        BY <4>3 DEF d, t
    <3> QED
      BY <3>1, <3>2 DEF Verdicts
  <2> HIDE DEF V, S
  <2> QED
    BY <2>1
<1>5. \A p \in S : /\ p \in base <=> ~ChunkAt(s, p, l)
                   /\ ChunkAt(s, p, l) => next[p] = ChunkDataEnd(s, p) + 2
                   /\ ~ChunkAt(s, p, l) => given[p] = Verdict(s, p, l)
                   /\ \A v \in V : ChunkAt(s, p, l) => step[p][v] = <<v[1], DataAt(s, p) \o v[2]>>
  <2> HIDE DEF S, V
  <2> QED
    OBVIOUS
<1> HIDE DEF size, next, given, step, base
<1>6. PICK g \in [S -> V] : \A p \in S : Recursive(g, p, base, given, next, step)
  <2> HIDE DEF S, V
  <2> QED
    BY <1>1, <1>2, <1>3, <1>4, RecursionExists
<1>7. ASSUME NEW p \in S
      PROVE  g[p] = IF ChunkAt(s, p, l)
                    THEN <<g[ChunkDataEnd(s, p) + 2][1], DataAt(s, p) \o g[ChunkDataEnd(s, p) + 2][2]>>
                    ELSE Verdict(s, p, l)
  <2>1. Recursive(g, p, base, given, next, step)
    BY <1>6
  <2>2. CASE ChunkAt(s, p, l)
    <3>1. next[p] = ChunkDataEnd(s, p) + 2 /\ next[p] \in S /\ p \notin base
      BY <1>0, <1>5, <2>2
    <3> HIDE DEF V
    <3>2. g[next[p]] \in V
      BY <3>1
    <3> QED
      BY <1>5, <2>1, <2>2, <3>1, <3>2 DEF Recursive
  <2>3. CASE ~ChunkAt(s, p, l)
    BY <1>5, <2>1, <2>3 DEF Recursive
  <2> QED
    BY <2>2, <2>3
<1> DEFINE End(p) == Min(Found(s, Terminator, p))
           Size(p) == Number(SubSeq(s, p + 1, End(p)))
           After(p) == End(p) + 2 + Size(p)
           Turn(f, p) ==
             IF Found(s, Terminator, p) = {} THEN <<"reading", <<>>>>
             ELSE IF Size(p) = BadNumber THEN <<"thrown", <<>>>>
             ELSE IF Size(p) + Len(Symbols(message)) + 2 > MaxSize THEN <<"huge", <<>>>>
             ELSE IF Size(p) = 0
             THEN <<IF Found(s, Terminator, End(p) + 2) = {} THEN "reading" ELSE "done", <<>>>>
             ELSE IF After(p) + 2 > Len(s) THEN <<"reading", <<>>>>
             ELSE IF After(p) \notin Found(s, Terminator, 0) THEN <<"thrown", <<>>>>
             ELSE <<f[After(p) + 2][1],
                    SubSeq(s, End(p) + 3, After(p)) \o f[After(p) + 2][2]>>
           parse[p \in S] == Turn(parse, p)
<1>8. ASSUME NEW f, NEW p \in S
      PROVE  Turn(f, p) = IF ChunkAt(s, p, l)
                          THEN <<f[ChunkDataEnd(s, p) + 2][1], DataAt(s, p) \o f[ChunkDataEnd(s, p) + 2][2]>>
                          ELSE Verdict(s, p, l)
  BY DEF ChunkAt, Verdict, ChunkDataEnd, DataAt, TooLarge, SizeAt, SizeEnd
<1>9. g = [p \in S |-> Turn(g, p)]
  <2> HIDE DEF Turn, S
  <2> QED
    BY <1>7, <1>8
<1>10. parse = [p \in S |-> Turn(parse, p)]
  BY <1>9, Zenon DEF parse
<1>11. Chunked(s) = parse[0]
  BY Zenon DEF Chunked, parse, Turn, After, Size, End, S
<1> HIDE DEF Turn
<1>12. \A p \in S : parse[p] = IF ChunkAt(s, p, l)
                               THEN <<parse[ChunkDataEnd(s, p) + 2][1], DataAt(s, p) \o parse[ChunkDataEnd(s, p) + 2][2]>>
                               ELSE Verdict(s, p, l)
  <2> HIDE DEF parse
  <2> QED
    BY <1>8, <1>10
<1> DEFINE T == {p \in S : parse[p] \in V}
<1> HIDE DEF parse
<1>13. ASSUME NEW p \in S, \A q \in S : size[q] < size[p] => q \in T
       PROVE  p \in T
  <2>1. CASE ChunkAt(s, p, l)
    <3> DEFINE q == ChunkDataEnd(s, p) + 2
    <3>1. q \in S /\ size[q] < size[p]
      BY <1>0, <1>1, <2>1
    <3>2. parse[p] = <<parse[q][1], DataAt(s, p) \o parse[q][2]>>
      BY <1>12, <2>1
    <3> HIDE DEF q
    <3>3. parse[q] \in V
      BY <1>13, <3>1
    <3>4. parse[p] \in V
      <4> DEFINE d == DataAt(s, p)
                 v == parse[q][1]
                 t == parse[q][2]
      <4>1. v \in {"reading", "done", "thrown", "huge"} /\ t \in Seq(Bytes)
        BY <3>3 DEF Verdicts
      <4>2. d \in Seq(Bytes)
        BY <1>0, <2>1
      <4>3. parse[p] = <<v, d \o t>>
        BY <3>2
      <4> HIDE DEF d, t, v
      <4> DEFINE u == d \o t
      <4>4. u \in Seq(Bytes)
        BY <4>1, <4>2
      <4> HIDE DEF u
      <4>5. <<v, u>> \in Verdicts
        BY <4>1, <4>4 DEF Verdicts
      <4> QED
        BY <4>3, <4>5 DEF u
    <3> QED
      BY <3>4
  <2>2. CASE ~ChunkAt(s, p, l)
    <3>1. parse[p] = Verdict(s, p, l)
      BY <1>12, <2>2
    <3> QED
      BY <3>1, VerdictType
  <2> QED
    BY <2>1, <2>2
<1>14. S \subseteq T
  <2> HIDE DEF S, T
  <2> QED
    BY <1>1, <1>13, SizeInduction
<1>15. \A p \in S : parse[p] \in Verdicts
  BY <1>14
<1> HIDE DEF T, V
<1>16. IsVerdict(parse, s) /\ Parses(parse, s, l)
  BY <1>12, <1>15 DEF IsVerdict, Parses, S
<1> QED
  BY <1>11, <1>16

-----------------------------------------------------------------------------
(* The buffer and the body: behind place c the buffer b is what stands     *)
(* behind place p of s.                                                    *)

Behind(b, c, s, p) ==
  /\ b \in Seq(Bytes) /\ s \in Seq(Bytes) /\ c \in Nat /\ p \in 0..Len(s)
  /\ Len(b) = c + (Len(s) - p)
  /\ \A j \in 1..(Len(s) - p) : b[c + j] = s[p + j]

LEMMA TerminatorBehind ==
  ASSUME NEW b, NEW c, NEW s, NEW p, Behind(b, c, s, p),
         NEW q \in Nat, p <= q, NEW i \in Nat, NEW x \in Nat, x = q - p + c,
         NEW k \in Nat, k = i - p + c, p <= i
  PROVE  TerminatorAt(s, q, i) <=> TerminatorAt(b, x, k)
<1>1. /\ c \in Nat /\ p \in Nat /\ Len(s) \in Nat /\ Len(b) = c + (Len(s) - p)
      /\ \A j \in 1..(Len(s) - p) : b[c + j] = s[p + j]
  BY DEF Behind
<1>2. (q <= i <=> x <= k) /\ (i + 2 <= Len(s) <=> k + 2 <= Len(b))
  BY <1>1, SMTT(60)
<1>3. ASSUME i + 2 <= Len(s) PROVE b[k + 1] = s[i + 1] /\ b[k + 2] = s[i + 2]
  <2>1. i - p + 1 \in 1..(Len(s) - p) /\ i - p + 2 \in 1..(Len(s) - p)
    BY <1>1, <1>3
  <2>2. b[c + (i - p + 1)] = s[p + (i - p + 1)] /\ b[c + (i - p + 2)] = s[p + (i - p + 2)]
    BY <1>1, <2>1
  <2>3. /\ c + (i - p + 1) = k + 1 /\ p + (i - p + 1) = i + 1
        /\ c + (i - p + 2) = k + 2 /\ p + (i - p + 2) = i + 2
    BY <1>1
  <2> QED
    BY <2>2, <2>3
<1> QED
  BY <1>2, <1>3 DEF TerminatorAt

LEMMA FirstBehind ==
  ASSUME NEW b, NEW c, NEW s, NEW p, Behind(b, c, s, p),
         NEW q \in p..Len(s), NEW x \in Nat, x = q - p + c
  PROVE  /\ Found(b, Terminator, x) = {} <=> Found(s, Terminator, q) = {}
         /\ Found(s, Terminator, q) # {} =>
              Min(Found(b, Terminator, x)) = Min(Found(s, Terminator, q)) - p + c
<1>1. /\ c \in Nat /\ p \in Nat /\ Len(s) \in Nat /\ q \in Nat /\ p <= q /\ q <= Len(s)
      /\ b \in Seq(Bytes) /\ s \in Seq(Bytes)
  BY DEF Behind
<1>2. ASSUME NEW i, TerminatorAt(s, q, i)
      PROVE  i - p + c \in Nat /\ TerminatorAt(b, x, i - p + c)
  <2>1. i \in Nat /\ p <= i /\ i - p + c \in Nat
    BY <1>1, <1>2 DEF TerminatorAt
  <2> DEFINE k == i - p + c
  <2>2. k \in Nat /\ k = i - p + c
    BY <2>1
  <2> HIDE DEF k
  <2>3. TerminatorAt(s, q, i) <=> TerminatorAt(b, x, k)
    <3>1. q \in Nat /\ p <= q
      BY <1>1
    <3> QED
      BY <2>1, <2>2, <3>1, TerminatorBehind
  <2> QED
    BY <1>2, <2>2, <2>3 DEF k
<1>3. ASSUME NEW k, TerminatorAt(b, x, k)
      PROVE  k - c + p \in Nat /\ TerminatorAt(s, q, k - c + p) /\ k \in Nat
  <2>1. k \in Nat /\ k - c + p \in Nat /\ p <= k - c + p /\ k = (k - c + p) - p + c
    BY <1>1, <1>3 DEF TerminatorAt
  <2> DEFINE i == k - c + p
  <2>2. i \in Nat /\ p <= i /\ k = i - p + c
    BY <2>1
  <2> HIDE DEF i
  <2>3. TerminatorAt(s, q, i) <=> TerminatorAt(b, x, k)
    <3>1. q \in Nat /\ p <= q
      BY <1>1
    <3> QED
      BY <2>1, <2>2, <3>1, TerminatorBehind
  <2> QED
    BY <1>3, <2>1, <2>3 DEF i
<1>4. ASSUME Found(s, Terminator, q) # {}
      PROVE  /\ Found(b, Terminator, x) # {}
             /\ Min(Found(b, Terminator, x)) = Min(Found(s, Terminator, q)) - p + c
  <2> DEFINE i == Min(Found(s, Terminator, q))
             k == i - p + c
  <2>1. TerminatorAt(s, q, i) /\ \A j : TerminatorAt(s, q, j) => i <= j
    BY <1>1, <1>4, FirstFound
  <2> HIDE DEF i
  <2>2. k \in Nat /\ TerminatorAt(b, x, k) /\ i \in Nat
    BY <1>2, <2>1 DEF TerminatorAt
  <2>3. ASSUME NEW j, TerminatorAt(b, x, j) PROVE k <= j
    <3>1. j - c + p \in Nat /\ i <= j - c + p /\ j \in Nat
      BY <1>3, <2>1, <2>3
    <3> QED
      BY <1>1, <2>2, <3>1
  <2> HIDE DEF k
  <2>4. Found(b, Terminator, x) # {} /\ Min(Found(b, Terminator, x)) = k
    BY <1>1, <2>2, <2>3, FirstIs
  <2> QED
    BY <2>4 DEF k, i
<1>5. ASSUME Found(b, Terminator, x) # {} PROVE Found(s, Terminator, q) # {}
  <2>1. PICK k : k \in Found(b, Terminator, x)
    BY <1>5
  <2>2. TerminatorAt(b, x, k)
    BY <1>1, <2>1, TerminatorFound
  <2>3. TerminatorAt(s, q, k - c + p)
    BY <1>3, <2>2
  <2> QED
    BY <1>1, <2>3, TerminatorFound
<1> QED
  BY <1>4, <1>5

LEMMA ThereBehind ==
  ASSUME NEW b, NEW c, NEW s, NEW p, Behind(b, c, s, p),
         NEW i \in Nat, p <= i, NEW k \in Nat, k = i - p + c
  PROVE  k \in Found(b, Terminator, 0) <=> i \in Found(s, Terminator, 0)
<1>1. c \in Nat /\ p \in Nat /\ b \in Seq(Bytes) /\ s \in Seq(Bytes)
  BY DEF Behind
<1>2. c = p - p + c /\ p <= p /\ c <= k
  BY <1>1
<1>3. TerminatorAt(s, p, i) <=> TerminatorAt(b, c, k)
  BY <1>1, <1>2, TerminatorBehind, SMTT(30)
<1>4. (TerminatorAt(s, p, i) <=> TerminatorAt(s, 0, i)) /\ (TerminatorAt(b, c, k) <=> TerminatorAt(b, 0, k))
  BY <1>2 DEF TerminatorAt
<1>5. /\ k \in Found(b, Terminator, 0) <=> TerminatorAt(b, 0, k)
      /\ i \in Found(s, Terminator, 0) <=> TerminatorAt(s, 0, i)
  BY <1>1, TerminatorFound
<1> QED
  BY <1>3, <1>4, <1>5

LEMMA PartBehind ==
  ASSUME NEW b, NEW c, NEW s, NEW p, Behind(b, c, s, p),
         NEW x \in Nat, NEW y \in Nat, p <= x, x <= y, y <= Len(s),
         NEW u \in Nat, u = x - p + c, NEW v \in Nat, v = y - p + c
  PROVE  SubSeq(b, u + 1, v) = SubSeq(s, x + 1, y) /\ SubSeq(s, x + 1, y) \in Seq(Bytes)
<1> DEFINE t == SubSeq(b, u + 1, v)
           w == SubSeq(s, x + 1, y)
           n == y - x
<1>1. /\ c \in Nat /\ p \in Nat /\ Len(s) \in Nat /\ Len(b) = c + (Len(s) - p)
      /\ b \in Seq(Bytes) /\ s \in Seq(Bytes)
      /\ \A j \in 1..(Len(s) - p) : b[c + j] = s[p + j]
  BY DEF Behind
<1>2. n \in Nat /\ v - u = n /\ v <= Len(b)
  BY <1>1, SMTT(30)
<1>3. IsPart(t, b, u + 1, IF u + 1 <= v THEN v - (u + 1) + 1 ELSE 0)
  BY <1>1, <1>2, PartOf
<1>4. IsPart(w, s, x + 1, IF x + 1 <= y THEN y - (x + 1) + 1 ELSE 0)
  BY <1>1, <1>2, PartOf
<1>5. /\ (IF u + 1 <= v THEN v - (u + 1) + 1 ELSE 0) = n
      /\ (IF x + 1 <= y THEN y - (x + 1) + 1 ELSE 0) = n
  BY <1>1, <1>2
<1> HIDE DEF t, w, n
<1>6. /\ t \in Seq(Bytes) /\ Len(t) = n /\ \A j \in 1..n : t[j] = b[u + 1 + j - 1]
      /\ w \in Seq(Bytes) /\ Len(w) = n /\ \A j \in 1..n : w[j] = s[x + 1 + j - 1]
  BY <1>3, <1>4, <1>5, SMTT(30) DEF IsPart
<1>7. ASSUME NEW j \in 1..n PROVE t[j] = w[j]
  <2>1. j \in Nat /\ (x - p) + j \in 1..(Len(s) - p)
    <3> DEFINE l == Len(s)
    <3>1. n = y - x /\ p \in Nat /\ l \in Nat /\ y <= l
      BY <1>1 DEF n
    <3> HIDE DEF l
    <3>2. j \in Nat /\ 1 <= j /\ j <= n
      BY <1>2
    <3>3. (x - p) + j \in Nat /\ 1 <= (x - p) + j /\ (x - p) + j <= l - p
      BY <3>1, <3>2
    <3>4. (x - p) + j \in 1..(l - p)
      BY <3>1, <3>3
    <3> QED
      BY <3>2, <3>4 DEF l
  <2>2. b[c + ((x - p) + j)] = s[p + ((x - p) + j)]
    BY <1>1, <2>1
  <2>3. c + ((x - p) + j) = u + 1 + j - 1 /\ p + ((x - p) + j) = x + 1 + j - 1
    BY <1>1, <2>1
  <2> QED
    BY <1>6, <2>2, <2>3
<1>8. t = w
  BY <1>2, <1>6, <1>7, SMTT(30)
<1> QED
  BY <1>6, <1>8 DEF t, w

LEMMA ErasedBehind ==
  ASSUME NEW b, NEW c, NEW s, NEW p, Behind(b, c, s, p),
         NEW x \in p..Len(s), NEW k \in Nat, k = x - p + c
  PROVE  /\ Behind(Erased(b, c, k), c, s, x)
         /\ \A j \in 1..c : Erased(b, c, k)[j] = b[j]
<1> DEFINE e == Erased(b, c, k)
<1>1. /\ c \in Nat /\ p \in Nat /\ Len(s) \in Nat /\ Len(b) = c + (Len(s) - p)
      /\ b \in Seq(Bytes) /\ s \in Seq(Bytes) /\ x \in Nat /\ p <= x /\ x <= Len(s)
      /\ \A j \in 1..(Len(s) - p) : b[c + j] = s[p + j]
  BY DEF Behind
<1>2. c <= k /\ k <= Len(b)
  BY <1>1
<1>3. IsErased(e, b, c, k)
  BY <1>1, <1>2, ErasedParts
<1> HIDE DEF e
<1>4. /\ e \in Seq(Bytes) /\ Len(e) = c + (Len(s) - x)
      /\ \A j \in 1..c : e[j] = b[j]
      /\ \A j \in 1..(Len(s) - x) : e[c + j] = b[k + j]
  <2>1. Len(b) - k = Len(s) - x
    BY <1>1, SMTT(30)
  <2> QED
    BY <1>3, <2>1 DEF IsErased
<1>5. ASSUME NEW j \in 1..(Len(s) - x) PROVE e[c + j] = s[x + j]
  <2>1. j \in Nat /\ (x - p) + j \in 1..(Len(s) - p)
    BY <1>1
  <2>2. b[c + ((x - p) + j)] = s[p + ((x - p) + j)]
    BY <1>1, <2>1
  <2>3. c + ((x - p) + j) = k + j /\ p + ((x - p) + j) = x + j
    BY <1>1, <2>1
  <2> QED
    BY <1>4, <2>2, <2>3
<1> QED
  BY <1>1, <1>4, <1>5 DEF Behind, e

-----------------------------------------------------------------------------
(* The loop of dechunk() takes the body apart as Chunked reads it.         *)

Begins(b, pre) == \A j \in 1..Len(pre) : b[j] = pre[j]

\* Object r has decoded the chunks before place p of the body: pre is what is
\* left of them, the header included, and what is behind p still stands.
Stands(r, pre, s, p, l) ==
  /\ r.fields # {} /\ r.chunk_pos = Len(pre) /\ r.chunk_size = NoSize
  /\ Behind(r.buffer, Len(pre), s, p) /\ Begins(r.buffer, pre)
  /\ Len(pre) + (Len(s) - p) <= l

\* It has the size of the chunk at p as well.
Sizes(r, pre, s, p, l) ==
  /\ r.fields # {} /\ r.chunk_pos = Len(pre) /\ r.chunk_size = SizeAt(s, p)
  /\ Behind(r.buffer, Len(pre), s, SizeEnd(s, p) + 2) /\ Begins(r.buffer, pre)

\* v is what the loop comes to from r.
LoopDecodes(r, pre, n, v) ==
  v[1] # "huge" =>
    /\ Dechunk[r][1] = v[1]
    /\ v[1] = "done" => /\ Dechunk[r][2].buffer = pre \o v[2]
                        /\ Dechunk[r][2].body_size = Wrap(Len(pre \o v[2]) - r.header_size)
                        /\ Len(v[2]) <= n

\* The line of the size is the same in both.
LEMMA LineOfSize ==
  ASSUME NEW r \in Requests, NEW pre \in Seq(Bytes), NEW s \in Seq(Bytes), NEW p \in 0..Len(s),
         NEW l \in Nat, Stands(r, pre, s, p, l)
  PROVE  /\ Lines_(r) = {} <=> Found(s, Terminator, p) = {}
         /\ Found(s, Terminator, p) # {} =>
              /\ LineEnd(r) = SizeEnd(s, p) - p + Len(pre)
              /\ Number(SizeLine(r)) = SizeAt(s, p)
<1> DEFINE c == Len(pre)
           b == r.buffer
           e == SizeEnd(s, p)
<1>1. Behind(b, c, s, p) /\ r.chunk_pos = c /\ c \in Nat /\ p \in Nat /\ Len(s) \in Nat
  BY DEF Stands
<1>2. c = p - p + c /\ p \in p..Len(s)
  BY <1>1
<1>3. /\ Lines_(r) = {} <=> Found(s, Terminator, p) = {}
      /\ Found(s, Terminator, p) # {} => LineEnd(r) = e - p + c
  <2> HIDE DEF b
  <2>1. /\ Found(b, Terminator, c) = {} <=> Found(s, Terminator, p) = {}
        /\ Found(s, Terminator, p) # {} =>
             Min(Found(b, Terminator, c)) = Min(Found(s, Terminator, p)) - p + c
    <3> HIDE DEF c
    <3> QED
      BY <1>1, <1>2, FirstBehind
  <2> QED
    BY <1>1, <2>1 DEF Lines_, LineEnd, SizeEnd, b
<1>4. ASSUME Found(s, Terminator, p) # {} PROVE Number(SizeLine(r)) = SizeAt(s, p)
  <2>1. e \in Nat /\ p <= e /\ e + 2 <= Len(s)
    BY <1>4, PlacesInBody
  <2> DEFINE v == LineEnd(r)
  <2>2. v = e - p + c
    BY <1>3, <1>4
  <2> HIDE DEF e, v, b, c
  <2>3. v \in Nat /\ e <= Len(s) /\ p \in Nat /\ p <= p
    BY <1>1, <2>1, <2>2
  <2>4. SubSeq(b, c + 1, v) = SubSeq(s, p + 1, e)
    BY <1>1, <1>2, <2>1, <2>2, <2>3, PartBehind, SMTT(60)
  <2> QED
    BY <1>1, <2>4 DEF SizeLine, SizeAt, b, v, e
<1> QED
  BY <1>3, <1>4

LEMMA SizeTaken ==
  ASSUME NEW r \in Requests, NEW pre \in Seq(Bytes), NEW s \in Seq(Bytes), NEW p \in 0..Len(s),
         NEW l \in Nat, Stands(r, pre, s, p, l),
         Found(s, Terminator, p) # {}, SizeAt(s, p) # BadNumber
  PROVE  /\ Dechunk[r] = Dechunk[Onward(r)] /\ Onward(r) \in Requests
         /\ Sizes(Onward(r), pre, s, p, l) /\ Onward(r).header_size = r.header_size
<1> DEFINE c == Len(pre)
           b == r.buffer
           e == SizeEnd(s, p)
           n == SizeAt(s, p)
           q == Onward(r)
           k == LineEnd(r) + 2
           f == Erased(b, c, k)
<1>1. /\ Behind(b, c, s, p) /\ Begins(b, pre) /\ r.chunk_pos = c /\ c \in Nat /\ p \in Nat
      /\ Len(s) \in Nat /\ r.chunk_size = NoSize /\ r.fields # {}
  BY DEF Stands
<1>2. /\ Lines_(r) # {} /\ LineEnd(r) = e - p + c /\ Number(SizeLine(r)) = n
  BY LineOfSize
<1>3. e \in Nat /\ p <= e /\ e + 2 <= Len(s) /\ n \in 0..MaxSize
  BY PlacesInBody
<1>4. GoesOn(r)
  BY <1>1, <1>2 DEF GoesOn
<1>5. Dechunk[r] = Dechunk[q] /\ q \in Requests /\ q.fields = r.fields /\ q.header_size = r.header_size
  BY <1>4, DechunkEquation, OnwardType
<1>6. q = [r EXCEPT !.chunk_size = n, !.buffer = f]
  BY <1>1, <1>2 DEF Onward, SizeRead
<1> HIDE DEF q, n, f
<1>7. q.chunk_size = n /\ q.buffer = f /\ q.chunk_pos = c
  BY <1>1, <1>6 DEF Requests
<1>8. k = (e + 2) - p + c /\ k \in Nat /\ e + 2 \in p..Len(s)
  BY <1>1, <1>2, <1>3, SMTT(30)
<1> HIDE DEF k, b, e, c
<1>9. Behind(f, c, s, e + 2) /\ \A j \in 1..c : f[j] = b[j]
  <2> DEFINE x == e + 2
  <2>1. x \in p..Len(s) /\ k = x - p + c /\ k \in Nat
    BY <1>8
  <2> HIDE DEF x
  <2>2. Behind(Erased(b, c, k), c, s, x) /\ \A j \in 1..c : Erased(b, c, k)[j] = b[j]
    <3>1. Behind(b, c, s, p)
      BY <1>1
    <3> QED
      BY <2>1, <3>1, ErasedBehind, SMTT(30)
  <2> QED
    BY <2>2 DEF x, f
<1>10. Begins(f, pre)
  BY <1>1, <1>9 DEF Begins, c
<1> QED
  BY <1>1, <1>5, <1>7, <1>9, <1>10 DEF Sizes, n, e, c, q

LEMMA WrapSame ==
  ASSUME NEW n \in 0..MaxSize
  PROVE  Wrap(n) = n
BY SizesAssumption DEF Wrap

LEMMA BehindFurther ==
  ASSUME NEW b, NEW c, NEW s, NEW p, Behind(b, c, s, p),
         NEW x \in p..Len(s), NEW k \in Nat, k = x - p + c
  PROVE  Behind(b, k, s, x)
<1>1. /\ c \in Nat /\ p \in Nat /\ Len(s) \in Nat /\ Len(b) = c + (Len(s) - p)
      /\ b \in Seq(Bytes) /\ s \in Seq(Bytes) /\ x \in Nat /\ p <= x /\ x <= Len(s)
      /\ \A j \in 1..(Len(s) - p) : b[c + j] = s[p + j]
  BY DEF Behind
<1>2. ASSUME NEW j \in 1..(Len(s) - x) PROVE b[k + j] = s[x + j]
  <2>1. j \in Nat /\ (x - p) + j \in 1..(Len(s) - p)
    BY <1>1
  <2>2. b[c + ((x - p) + j)] = s[p + ((x - p) + j)]
    BY <1>1, <2>1
  <2>3. c + ((x - p) + j) = k + j /\ p + ((x - p) + j) = x + j
    BY <1>1, <2>1
  <2> QED
    BY <2>2, <2>3
<1>3. Len(b) = k + (Len(s) - x) /\ x \in 0..Len(s)
  BY <1>1
<1> QED
  BY <1>1, <1>2, <1>3 DEF Behind

\* What stands before the place.
LEMMA BeforePlace ==
  ASSUME NEW b \in Seq(Bytes), NEW pre \in Seq(Bytes), Begins(b, pre), Len(pre) <= Len(b)
  PROVE  SubSeq(b, 1, Len(pre)) = pre
<1> DEFINE c == Len(pre)
           t == SubSeq(b, 1, c)
<1>1. c \in Nat /\ c <= Len(b)
  OBVIOUS
<1>2. IsPart(t, b, 1, IF 1 <= c THEN c - 1 + 1 ELSE 0)
  BY <1>1, PartOf
<1> HIDE DEF t
<1>3. t \in Seq(Bytes) /\ Len(t) = c /\ \A j \in 1..c : t[j] = b[j]
  BY <1>1, <1>2 DEF IsPart
<1>4. \A j \in 1..c : t[j] = pre[j]
  BY <1>3 DEF Begins
<1>5. t = pre
  BY <1>3, <1>4
<1> QED
  BY <1>5 DEF t

\* The last chunk ends the loop, once its terminator is there.
LEMMA LastSizeDecoded ==
  ASSUME NEW r \in Requests, NEW pre \in Seq(Bytes), NEW s \in Seq(Bytes), NEW p \in 0..Len(s),
         NEW l \in Nat, Sizes(r, pre, s, p, l), Found(s, Terminator, p) # {}, SizeAt(s, p) = 0
  PROVE  LET none == Found(s, Terminator, SizeEnd(s, p) + 2) = {}
         IN  /\ Dechunk[r][1] = IF none THEN "reading" ELSE "done"
             /\ ~none => /\ Dechunk[r][2].buffer = pre
                         /\ Dechunk[r][2].body_size = Wrap(Len(pre) - r.header_size)
<1> DEFINE c == Len(pre)
           b == r.buffer
           x == SizeEnd(s, p) + 2
           none == Found(s, Terminator, x) = {}
<1>1. /\ Behind(b, c, s, x) /\ Begins(b, pre) /\ r.chunk_pos = c /\ r.chunk_size = 0 /\ r.fields # {}
      /\ c \in Nat
  BY DEF Sizes
<1>2. x \in Nat /\ x \in x..Len(s) /\ c = x - x + c
  <2>1. SizeEnd(s, p) \in Nat /\ x <= Len(s) /\ Len(s) \in Nat
    BY PlacesInBody
  <2> QED
    BY <1>1, <2>1
<1>3. NoSize # 0
  BY SizesAssumption DEF NoSize
<1> HIDE DEF x
<1>4. Lines_(r) = {} <=> none
  <2>1. Found(b, Terminator, c) = {} <=> Found(s, Terminator, x) = {}
    <3>1. Behind(b, c, s, x) /\ c \in Nat
      BY <1>1
    <3> HIDE DEF b, c
    <3> QED
      BY <1>2, <3>1, FirstBehind
  <2> QED
    BY <1>1, <2>1 DEF Lines_
<1>5. ~GoesOn(r) /\ (Waits(r) <=> none)
  BY <1>1, <1>3, <1>4 DEF GoesOn, Waits
<1>6. Dechunk[r] = IF none THEN <<"reading", r>> ELSE <<"done", LastChunkRead(r)>>
  BY <1>1, <1>5, DechunkEquation DEF Outcome
<1>7. ASSUME ~none
      PROVE  LastChunkRead(r).buffer = pre /\ LastChunkRead(r).body_size = Wrap(Len(pre) - r.header_size)
  <2>1. b \in Seq(Bytes) /\ Len(pre) <= Len(b)
    BY <1>1 DEF Behind
  <2>2. SubSeq(b, 1, c) = pre
    BY <1>1, <2>1, BeforePlace
  <2> DEFINE q == [r EXCEPT !.buffer = pre]
             w == Wrap(Len(q.buffer) - q.header_size)
  <2>3. LastChunkRead(r) = MeasureBody(q)
    BY <1>1, <2>2 DEF LastChunkRead
  <2>4. q \in Requests /\ q.fields # {} /\ q.buffer = pre /\ q.header_size = r.header_size
    BY <1>1 DEF Requests
  <2> HIDE DEF q
  <2>5. MeasureBody(q) = [q EXCEPT !.body_size = w]
    BY <2>4 DEF MeasureBody
  <2>6. w = Wrap(Len(pre) - r.header_size)
    BY <2>4
  <2> HIDE DEF w
  <2>7. [q EXCEPT !.body_size = w].buffer = pre /\ [q EXCEPT !.body_size = w].body_size = w
    BY <2>4 DEF Requests
  <2> QED
    BY <2>3, <2>5, <2>6, <2>7
<1> QED
  BY <1>6, <1>7 DEF x

\* Sizes that do not wrap.
LEMMA ChunkPlaces ==
  ASSUME NEW r \in Requests, NEW pre \in Seq(Bytes), NEW s \in Seq(Bytes), NEW p \in 0..Len(s),
         NEW l \in Nat, Sizes(r, pre, s, p, l), Len(pre) <= l,
         Found(s, Terminator, p) # {}, SizeAt(s, p) # BadNumber, SizeAt(s, p) # 0, ~TooLarge(s, p, l)
  PROVE  /\ r.chunk_size \notin {0, NoSize} /\ SizeAt(s, p) \in Nat
         /\ ChunkEnd(r) = Len(pre) + SizeAt(s, p)
         /\ ChunkIncomplete(r) <=> ChunkDataEnd(s, p) + 2 > Len(s)
         /\ ~ChunkIncomplete(r) =>
              (ChunkEnd(r) \in Found(r.buffer, Terminator, 0) <=> ChunkDataEnd(s, p) \in Found(s, Terminator, 0))
<1> DEFINE c == Len(pre)
           b == r.buffer
           n == SizeAt(s, p)
           e == SizeEnd(s, p)
           d == ChunkDataEnd(s, p)
           k == c + n
<1>1. Behind(b, c, s, e + 2) /\ r.chunk_pos = c /\ r.chunk_size = n /\ c \in Nat /\ c <= l
  BY DEF Sizes
<1>2. n \in 1..MaxSize /\ e \in Nat /\ p <= e /\ e + 2 <= Len(s) /\ Len(s) \in Nat
  BY PlacesInBody
<1>3. d = e + 2 + n /\ ~(n + l + 2 > MaxSize) /\ MaxSize \in Nat
  BY SizesAssumption DEF ChunkDataEnd, TooLarge
<1> HIDE DEF c, b, n, e, d
<1>4. k \in 0..MaxSize /\ k + 2 \in 0..MaxSize /\ n # 0 /\ n # MaxSize /\ n \in Nat
  BY <1>1, <1>2, <1>3
<1>5. Wrap(k) = k /\ Wrap(c + n + 2) = k + 2
  <2> DEFINE y == k + 2
  <2>1. y = c + n + 2 /\ y \in 0..MaxSize
    BY <1>1, <1>4
  <2> HIDE DEF y
  <2>2. Wrap(y) = y
    BY <2>1, WrapSame
  <2>3. Wrap(k) = k
    <3> HIDE DEF k
    <3> QED
      BY <1>4, WrapSame
  <2> QED
    BY <2>1, <2>2, <2>3 DEF y
<1>6. ChunkEnd(r) = k
  BY <1>1, <1>5 DEF ChunkEnd
<1>7. ChunkIncomplete(r) <=> d + 2 > Len(s)
  <2>1. ChunkIncomplete(r) <=> Len(b) < k + 2
    BY <1>1, <1>5 DEF ChunkIncomplete, b
  <2>2. Len(b) = c + (Len(s) - (e + 2))
    BY <1>1 DEF Behind
  <2> QED
    BY <1>1, <1>2, <1>3, <1>4, <2>1, <2>2
<1>8. ASSUME ~ChunkIncomplete(r)
      PROVE  k \in Found(b, Terminator, 0) <=> d \in Found(s, Terminator, 0)
  <2> DEFINE x == e + 2
  <2>1. Behind(b, c, s, x) /\ d \in Nat /\ x <= d /\ k \in Nat /\ k = d - x + c
    BY <1>1, <1>2, <1>3, <1>4
  <2> HIDE DEF x, k
  <2> QED
    BY <2>1, ThereBehind
<1> QED
  BY <1>1, <1>4, <1>6, <1>7, <1>8 DEF NoSize, c, b, n, d

\* A whole chunk is taken, and its data stays.
LEMMA ChunkTaken ==
  ASSUME NEW r \in Requests, NEW pre \in Seq(Bytes), NEW s \in Seq(Bytes), NEW p \in 0..Len(s),
         NEW l \in Nat, Sizes(r, pre, s, p, l), Len(pre) + (Len(s) - p) <= l, ChunkAt(s, p, l)
  PROVE  /\ Dechunk[r] = Dechunk[Onward(r)] /\ Onward(r) \in Requests
         /\ Stands(Onward(r), pre \o DataAt(s, p), s, ChunkDataEnd(s, p) + 2, l)
         /\ Onward(r).header_size = r.header_size
<1> DEFINE c == Len(pre)
           b == r.buffer
           n == SizeAt(s, p)
           e == SizeEnd(s, p)
           d == ChunkDataEnd(s, p)
           k == c + n
           q == Onward(r)
           f == Erased(b, k, k + 2)
           D == DataAt(s, p)
           pred == pre \o D
<1>1. /\ Behind(b, c, s, e + 2) /\ Begins(b, pre) /\ r.chunk_pos = c /\ r.chunk_size = n
      /\ r.fields # {} /\ c \in Nat
  BY DEF Sizes
<1>2. n \in Nat /\ e \in Nat /\ p <= e /\ e + 2 <= Len(s) /\ Len(s) \in Nat /\ p \in Nat
  BY PlacesInBody, ChunkInBody DEF ChunkAt
<1>3. d = e + 2 + n /\ d + 2 \in 0..Len(s) /\ D \in Seq(Bytes) /\ Len(D) = n
  BY ChunkInBody DEF ChunkDataEnd
<1>4. c <= l
  BY <1>1, <1>2
<1>5. /\ r.chunk_size \notin {0, NoSize} /\ ChunkEnd(r) = k /\ ~ChunkIncomplete(r)
      /\ ChunkEnd(r) \in Found(b, Terminator, 0)
  BY <1>4, ChunkPlaces DEF ChunkAt
<1>6. GoesOn(r)
  BY <1>5 DEF GoesOn
<1>7. Dechunk[r] = Dechunk[q] /\ q \in Requests /\ q.fields = r.fields /\ q.header_size = r.header_size
  BY <1>6, DechunkEquation, OnwardType
<1>8. q.chunk_pos = k /\ q.chunk_size = NoSize /\ q.buffer = f
  <2>1. q = [r EXCEPT !.chunk_pos = k, !.chunk_size = NoSize, !.buffer = f]
    BY <1>5 DEF Onward, NextChunk
  <2> HIDE DEF q, k, f
  <2> QED
    BY <2>1 DEF Requests
<1> HIDE DEF q, f, e, d, n, D
<1>9. pred \in Seq(Bytes) /\ Joined(pred, pre, D) /\ Len(pred) = k
  <2>1. Joined(pred, pre, D)
    BY <1>3, ConcatJoins
  <2> QED
    BY <1>1, <1>3, <2>1 DEF Joined
<1>10. Behind(f, k, s, d + 2) /\ \A j \in 1..k : f[j] = b[j]
  <2> DEFINE x == e + 2
             y == d + 2
             g == k + 2
  <2>1. Behind(b, c, s, x) /\ d \in x..Len(s) /\ k \in Nat /\ k = d - x + c
    BY <1>1, <1>2, <1>3
  <2>2. y \in d..Len(s) /\ g \in Nat /\ g = y - d + k
    BY <1>1, <1>2, <1>3
  <2> HIDE DEF x, y, g, k
  <2>3. Behind(b, k, s, d)
    BY <2>1, BehindFurther
  <2>4. Behind(Erased(b, k, g), k, s, y) /\ \A j \in 1..k : Erased(b, k, g)[j] = b[j]
    BY <2>2, <2>3, ErasedBehind
  <2> QED
    BY <2>4 DEF y, g, f
<1>11. Begins(f, pred)
  <2> HIDE DEF pred, b
  <2>1. ASSUME NEW j \in 1..k PROVE b[j] = pred[j]
    <3>1. CASE j <= c
      <4>1. j \in 1..c
        BY <1>1, <3>1
      <4> QED
        BY <1>1, <1>9, <4>1 DEF Joined, Begins
    <3>2. CASE j > c
      <4> DEFINE i == j - c
      <4>1. i \in 1..n /\ c + i = j /\ i \in 1..(Len(s) - (e + 2))
        BY <1>1, <1>2, <1>3, <3>2, SMTT(30)
      <4>2. D[i] = s[e + 2 + i]
        <5>1. IsPart(D, s, e + 3, IF e + 3 <= d THEN d - (e + 3) + 1 ELSE 0)
          <6>1. e + 3 \in Nat \ {0} /\ d \in Nat /\ d <= Len(s)
            BY <1>2, <1>3
          <6>2. D = SubSeq(s, e + 3, d)
            BY DEF D, DataAt, e, d
          <6> QED
            BY <6>1, <6>2, PartOf
        <5>2. D[i] = s[e + 3 + i - 1]
          BY <1>2, <1>3, <4>1, <5>1 DEF IsPart
        <5>3. e + 3 + i - 1 = e + 2 + i
          BY <1>2, <4>1
        <5> QED
          BY <5>2, <5>3
      <4>3. b[c + i] = s[e + 2 + i]
        BY <1>1, <4>1 DEF Behind
      <4>4. pred[c + i] = D[i]
        BY <1>3, <1>9, <4>1 DEF Joined
      <4> QED
        BY <4>1, <4>2, <4>3, <4>4
    <3>3. j \in Int /\ c \in Int
      BY <1>1, <1>2
    <3> HIDE DEF c
    <3> QED
      BY <3>1, <3>2, <3>3
  <2> HIDE DEF k
  <2> QED
    BY <1>9, <1>10, <2>1 DEF Begins
<1>12. k + (Len(s) - (d + 2)) <= l
  BY <1>1, <1>2, <1>3, SMTT(60)
<1> HIDE DEF k, pred, c
<1>13. Stands(q, pred, s, d + 2, l)
  BY <1>1, <1>7, <1>8, <1>9, <1>10, <1>11, <1>12 DEF Stands
<1> QED
  BY <1>7, <1>13 DEF pred, D, d, q

\* A chunk that is not whole, or that has no terminator, ends the loop.
LEMMA ChunkEnds ==
  ASSUME NEW r \in Requests, NEW pre \in Seq(Bytes), NEW s \in Seq(Bytes), NEW p \in 0..Len(s),
         NEW l \in Nat, Sizes(r, pre, s, p, l), Len(pre) <= l, ~ChunkAt(s, p, l),
         Found(s, Terminator, p) # {}, SizeAt(s, p) # BadNumber, SizeAt(s, p) # 0, ~TooLarge(s, p, l)
  PROVE  Dechunk[r][1] = Verdict(s, p, l)[1] /\ Verdict(s, p, l)[1] \in {"reading", "thrown"}
<1>1. /\ r.chunk_size \notin {0, NoSize}
      /\ ChunkIncomplete(r) <=> ChunkDataEnd(s, p) + 2 > Len(s)
      /\ ~ChunkIncomplete(r) =>
           (ChunkEnd(r) \in Found(r.buffer, Terminator, 0) <=> ChunkDataEnd(s, p) \in Found(s, Terminator, 0))
  BY ChunkPlaces
<1>2. ~GoesOn(r)
  BY <1>1 DEF GoesOn, ChunkAt
<1>3. Dechunk[r] = IF ChunkIncomplete(r) THEN <<"reading", r>> ELSE <<"thrown", r>>
  BY <1>1, <1>2, DechunkEquation DEF Outcome, Waits
<1>4. Verdict(s, p, l) = IF ChunkIncomplete(r) THEN <<"reading", <<>>>> ELSE <<"thrown", <<>>>>
  BY <1>1 DEF Verdict
<1> QED
  BY <1>3, <1>4

\* From every place the loop comes to what Chunked makes of the rest.
LEMMA ChunksDecoded ==
  ASSUME NEW s \in Seq(Bytes), NEW l \in Nat, NEW f, IsVerdict(f, s), Parses(f, s, l)
  PROVE  \A p \in 0..Len(s), r \in Requests, pre \in Seq(Bytes) :
           Stands(r, pre, s, p, l) => LoopDecodes(r, pre, Len(s) - p, f[p])
<1> DEFINE S == 0..Len(s)
           good(p) == \A r \in Requests, pre \in Seq(Bytes) :
                        Stands(r, pre, s, p, l) => LoopDecodes(r, pre, Len(s) - p, f[p])
           T == {p \in S : good(p)}
           size == [p \in S |-> Len(s) - p]
<1>1. size \in [S -> Nat] /\ \A p, q \in S : p < q => size[q] < size[p]
  <2>1. /\ \A p \in S : Len(s) - p \in Nat
        /\ \A p, q \in S : p < q => Len(s) - q < Len(s) - p
    OBVIOUS
  <2> HIDE DEF S
  <2> QED
    BY <2>1
<1>2. ASSUME NEW p \in S, \A q \in S : size[q] < size[p] => q \in T
      PROVE  good(p)
  <2> SUFFICES ASSUME NEW r \in Requests, NEW pre \in Seq(Bytes), Stands(r, pre, s, p, l)
               PROVE  LoopDecodes(r, pre, Len(s) - p, f[p])
    OBVIOUS
  <2>0. p \in 0..Len(s) /\ \A q \in 0..Len(s) : p < q => good(q)
    <3>1. \A q \in S : p < q => q \in T
      <4> HIDE DEF T, S, size
      <4> QED
        BY <1>1, <1>2
    <3> HIDE DEF good
    <3> QED
      BY <3>1
  <2> HIDE DEF good, S, size
  <2> DEFINE q == Onward(r)
             v == f[p]
             h == r.header_size
  <2>1. v = IF ChunkAt(s, p, l)
            THEN <<f[ChunkDataEnd(s, p) + 2][1], DataAt(s, p) \o f[ChunkDataEnd(s, p) + 2][2]>>
            ELSE Verdict(s, p, l)
    BY <2>0 DEF Parses
  <2>2. r.chunk_size = NoSize /\ Len(pre) + (Len(s) - p) <= l /\ Len(pre) <= l
    <3>1. r.chunk_size = NoSize /\ Len(pre) + (Len(s) - p) <= l
      BY DEF Stands
    <3>2. Len(pre) \in Nat /\ Len(s) - p \in Nat
      BY <2>0
    <3> QED
      BY <3>1, <3>2
  <2>3. NoSize # 0
    BY SizesAssumption DEF NoSize
  <2>4. CASE Found(s, Terminator, p) = {}
    <3>1. Lines_(r) = {}
      BY <2>0, <2>4, LineOfSize
    <3>2. Dechunk[r] = <<"reading", r>>
      BY <2>2, <2>3, <3>1, DechunkEquation DEF GoesOn, Waits, Outcome
    <3>3. v = <<"reading", <<>>>>
      BY <2>1, <2>4 DEF ChunkAt, Verdict
    <3> HIDE DEF v
    <3> QED
      BY <3>2, <3>3 DEF LoopDecodes, v
  <2>5. CASE Found(s, Terminator, p) # {} /\ SizeAt(s, p) = BadNumber
    <3>1. Lines_(r) # {} /\ Number(SizeLine(r)) = BadNumber
      BY <2>0, <2>5, LineOfSize
    <3>2. Dechunk[r] = <<"thrown", r>>
      BY <2>2, <2>3, <3>1, DechunkEquation DEF GoesOn, Waits, Outcome
    <3>3. v = <<"thrown", <<>>>>
      BY <2>1, <2>5 DEF ChunkAt, Verdict
    <3> HIDE DEF v
    <3> QED
      BY <3>2, <3>3 DEF LoopDecodes, v
  <2>6. CASE Found(s, Terminator, p) # {} /\ SizeAt(s, p) # BadNumber
    <3>1. Dechunk[r] = Dechunk[q] /\ q \in Requests /\ Sizes(q, pre, s, p, l) /\ q.header_size = h
      BY <2>0, <2>6, SizeTaken
    <3> HIDE DEF q, h
    <3>2. CASE TooLarge(s, p, l)
      <4>1. v = <<"huge", <<>>>>
        BY <2>1, <2>6, <3>2 DEF ChunkAt, Verdict
      <4> HIDE DEF v
      <4> QED
        BY <4>1 DEF LoopDecodes, v
    <3>3. CASE ~TooLarge(s, p, l) /\ SizeAt(s, p) = 0
      <4> DEFINE none == Found(s, Terminator, SizeEnd(s, p) + 2) = {}
                 e == <<>>
      <4>1. v = IF none THEN <<"reading", e>> ELSE <<"done", e>>
        BY <2>1, <2>6, <3>3 DEF ChunkAt, Verdict
      <4>2. /\ Dechunk[q][1] = IF none THEN "reading" ELSE "done"
            /\ ~none => /\ Dechunk[q][2].buffer = pre
                        /\ Dechunk[q][2].body_size = Wrap(Len(pre) - h)
        BY <2>0, <2>6, <3>1, <3>3, LastSizeDecoded
      <4>3. pre \o e = pre /\ Len(e) <= Len(s) - p
        BY <2>0, ConcatEmptySeq
      <4> HIDE DEF v, none, e
      <4>4. v[1] = (IF none THEN "reading" ELSE "done") /\ v[2] = e
        BY <4>1
      <4> QED
        BY <3>1, <4>2, <4>3, <4>4 DEF LoopDecodes, v, h
    <3>4. CASE ~TooLarge(s, p, l) /\ SizeAt(s, p) # 0 /\ ~ChunkAt(s, p, l)
      <4>1. Dechunk[q][1] = Verdict(s, p, l)[1] /\ Verdict(s, p, l)[1] \in {"reading", "thrown"}
        BY <2>0, <2>2, <2>6, <3>1, <3>4, ChunkEnds
      <4>2. v = Verdict(s, p, l)
        BY <2>1, <3>4
      <4> HIDE DEF v
      <4> QED
        BY <3>1, <4>1, <4>2 DEF LoopDecodes, v
    <3>5. CASE ChunkAt(s, p, l)
      <4> DEFINE z == Onward(q)
                 D == DataAt(s, p)
                 pred == pre \o D
                 y == ChunkDataEnd(s, p) + 2
                 w == f[y]
      <4>1. /\ Dechunk[q] = Dechunk[z] /\ z \in Requests /\ Stands(z, pred, s, y, l)
            /\ z.header_size = h
        BY <2>0, <2>2, <3>1, <3>5, ChunkTaken
      <4>2. y \in 0..Len(s) /\ p < y /\ D \in Seq(Bytes) /\ Len(D) <= y - p
        <5>1. y \in 0..Len(s) /\ p < y /\ D \in Seq(Bytes) /\ Len(D) = SizeAt(s, p)
          BY <2>0, <3>5, ChunkInBody
        <5>2. SizeEnd(s, p) \in Nat /\ p <= SizeEnd(s, p) /\ SizeAt(s, p) \in Int
          BY <2>0, <3>5, ChunkInBody, PlacesInBody DEF ChunkAt
        <5>3. y = SizeEnd(s, p) + 2 + SizeAt(s, p) + 2
          BY DEF ChunkDataEnd
        <5> HIDE DEF y, D
        <5> QED
          BY <2>0, <5>1, <5>2, <5>3, SMTT(30)
      <4>3. pred \in Seq(Bytes)
        BY <4>2, ConcatProperties
      <4>4. good(y)
        BY <2>0, <4>2
      <4>5. LoopDecodes(z, pred, Len(s) - y, w)
        <5> HIDE DEF z, pred, y, w
        <5> QED
          BY <4>1, <4>3, <4>4 DEF good, w
      <4>6. w[1] = v[1] /\ v[2] = D \o w[2] /\ w[2] \in Seq(Bytes)
        <5>1. w \in Verdicts
          BY <4>2 DEF IsVerdict
        <5>2. v = <<w[1], D \o w[2]>>
          BY <2>1, <3>5
        <5> HIDE DEF v, w, D
        <5> QED
          BY <5>1, <5>2 DEF Verdicts
      <4>7. pred \o w[2] = pre \o v[2]
        <5> DEFINE t == w[2]
        <5>1. t \in Seq(Bytes)
          BY <4>6
        <5> HIDE DEF t, D
        <5>2. (pre \o D) \o t = pre \o (D \o t)
          BY <4>2, <5>1, ConcatAssociative, SMTT(60)
        <5> QED
          BY <4>6, <5>2 DEF t
      <4>8. Len(v[2]) = Len(D) + Len(w[2])
        <5> DEFINE t == w[2]
        <5>1. t \in Seq(Bytes) /\ v[2] = D \o t
          BY <4>6
        <5> HIDE DEF t, D, v
        <5>2. Len(D \o t) = Len(D) + Len(t)
          BY <4>2, <5>1
        <5> QED
          BY <5>1, <5>2 DEF t
      <4>9. Dechunk[r] = Dechunk[z] /\ z.header_size = r.header_size
        BY <3>1, <4>1 DEF h
      <4> HIDE DEF z, D, pred, y, w, v
      <4>10. ASSUME w[1] # "huge"
             PROVE  /\ Dechunk[r][1] = v[1]
                    /\ v[1] = "done" => /\ Dechunk[r][2].buffer = pre \o v[2]
                                        /\ Dechunk[r][2].body_size = Wrap(Len(pre \o v[2]) - r.header_size)
                                        /\ Len(w[2]) <= Len(s) - y
        BY <4>5, <4>6, <4>7, <4>9, <4>10 DEF LoopDecodes
      <4>11. Len(w[2]) <= Len(s) - y => Len(v[2]) <= Len(s) - p
        <5> DEFINE a == Len(w[2])
                   d == Len(D)
                   g == Len(v[2])
                   n == Len(s)
        <5>1. a \in Int /\ d \in Int /\ n \in Int /\ g = d + a /\ d <= y - p /\ y \in Int /\ p \in Int
          BY <2>0, <4>2, <4>6, <4>8
        <5> HIDE DEF a, d, g, n
        <5>2. a <= n - y => g <= n - p
          BY <5>1
        <5> QED
          BY <5>2 DEF a, g, n
      <4>12. LoopDecodes(r, pre, Len(s) - p, v)
        BY <4>6, <4>10, <4>11 DEF LoopDecodes
      <4> QED
        BY <4>12 DEF v
    <3> QED
      BY <2>6, <3>2, <3>3, <3>4, <3>5
  <2> QED
    BY <2>4, <2>5, <2>6
<1> HIDE DEF size
<1>3. S \subseteq T
  <2>1. \A p \in S : (\A q \in S : size[q] < size[p] => q \in T) => p \in T
    <3> HIDE DEF S, good
    <3> QED
      BY <1>2
  <2> HIDE DEF S, T
  <2> QED
    BY <1>1, <2>1, SizeInduction
<1> QED
  BY <1>3

-----------------------------------------------------------------------------
(* DecodesAsWhole.                                                         *)

\* Object h has found the header, and nothing else has been done to it.
BodyArrived == SubSeq(message.body, 1, received - Len(Header(message)))
Found_(h) ==
  LET n == Len(Header(message)) IN
  /\ h \in Requests /\ h.fields = FieldsOf(message) /\ h.fields # {}
  /\ n \in Nat /\ h.header_size = n /\ h.chunk_pos = n /\ h.chunk_size = NoSize
  /\ BodyArrived \in Seq(Bytes) /\ h.body_size = Len(BodyArrived)
  /\ Len(h.buffer) = n + Len(BodyArrived) /\ Len(h.buffer) = received
  /\ \A j \in 1..Len(BodyArrived) : h.buffer[n + j] = BodyArrived[j]

\* Some of the body of a message.
LEMMA PartOfBody ==
  ASSUME NEW m \in Messages, NEW r \in 0..Len(Symbols(m)), r >= Len(Header(m))
  PROVE  LET a == SubSeq(Symbols(m), 1, r)
             n == Len(Header(m))
             b == SubSeq(m.body, 1, r - n)
         IN  /\ n \in Nat /\ n <= r /\ r \in 0..MaxSize /\ r - n \in Nat
             /\ b \in Seq(Bytes) /\ Len(b) = r - n /\ \A j \in 1..(r - n) : a[n + j] = b[j]
<1> DEFINE s == Symbols(m)
           F == m.fields
           B == m.body
           k == Len(F)
           n == Len(Header(m))
           c == r - n
           a == SubSeq(s, 1, r)
           b == SubSeq(B, 1, c)
<1>1. Layout(s, F, B) /\ n = 3 * k + 5 /\ Len(s) < MaxSize /\ B \in Seq(Bytes)
  BY SymbolsLayout, MessagesAssumption
<1>2. k \in Nat
  <2> DEFINE T == [kind : FieldKinds, n : Nat]
  <2>1. F \in Seq(T)
    BY MessagesAssumption
  <2> HIDE DEF T, F
  <2> QED
    BY <2>1
<1> HIDE DEF s, B, n
<1>3. /\ s \in Seq(Bytes) /\ Len(s) = n + Len(B) /\ \A j \in 1..Len(B) : s[n + j] = B[j]
      /\ n \in Nat /\ Len(B) \in Nat /\ n <= r /\ r <= Len(s) /\ r \in Nat
  <2>1. s \in Seq(Bytes) /\ Len(s) = n + Len(B) /\ \A j \in 1..Len(B) : s[n + j] = B[j]
    BY <1>1 DEF Layout
  <2> HIDE DEF k
  <2> QED
    BY <1>1, <1>2, <2>1 DEF s, n
<1>4. c \in Nat /\ c <= Len(B) /\ r \in 0..MaxSize /\ \A j \in 1..c : n + j \in 1..r /\ j \in 1..Len(B)
  <2> DEFINE u == Len(s)
             v == Len(B)
  <2>1. u = n + v /\ n \in Nat /\ v \in Nat /\ n <= r /\ r <= u /\ r \in Nat /\ u < MaxSize /\ MaxSize \in Nat
    BY <1>1, <1>3, SizesAssumption
  <2> HIDE DEF u, v
  <2>2. c \in Nat /\ c <= v /\ r \in 0..MaxSize
    BY <2>1
  <2>3. \A j \in 1..c : n + j \in 1..r /\ j \in 1..v
    BY <2>1
  <2> QED
    BY <2>2, <2>3 DEF v
<1>5. \A j \in 1..r : a[j] = s[j]
  <2>1. IsPart(a, s, 1, IF 1 <= r THEN r - 1 + 1 ELSE 0)
    BY <1>3, PartOf
  <2> HIDE DEF a
  <2> QED
    BY <1>3, <2>1 DEF IsPart
<1>6. b \in Seq(Bytes) /\ Len(b) = c /\ \A j \in 1..c : b[j] = B[j]
  <2> HIDE DEF c
  <2>1. IsPart(b, B, 1, IF 1 <= c THEN c - 1 + 1 ELSE 0)
    BY <1>1, <1>4, PartOf DEF B
  <2> HIDE DEF b
  <2> QED
    BY <1>4, <2>1 DEF IsPart
<1> HIDE DEF a, b, c
<1>7. \A j \in 1..c : a[n + j] = b[j]
  BY <1>3, <1>4, <1>5, <1>6
<1> QED
  BY <1>3, <1>4, <1>6, <1>7 DEF a, b, c, s, n, B

LEMMA HeaderArrived ==
  ASSUME PacketsInv, message.fields # <<>>
  PROVE  /\ received < Len(Header(message)) => Once[1] = "reading"
         /\ received >= Len(Header(message)) =>
              Found_(Parsed(Arrived)) /\ Once = IsRequestReceived(Parsed(Arrived))
<1> DEFINE n == Len(Header(message))
           h == Parsed(Arrived)
           b == BodyArrived
<1>1. message \in Messages /\ received \in 0..Len(Symbols(message))
  BY DEF PacketsInv
<1>2. /\ Arrived \in Seq(Bytes) /\ Len(Arrived) = received
      /\ received < n => HeaderEnds(Arrived) = {}
      /\ received >= n => /\ HeaderEnds(Arrived) # {} /\ HeaderFields(Arrived) = FieldsOf(message)
                          /\ EndOfHeader(Arrived) = 3 * Len(message.fields) + 1
  BY <1>1, HeaderOfMessage DEF Arrived
<1>3. /\ h \in Requests /\ h.buffer = Arrived /\ h.chunk_size = NoSize
      /\ HeaderEnds(Arrived) = {} => h = Grown(NewRequest, Arrived)
      /\ HeaderEnds(Arrived) # {} => /\ h.fields = HeaderFields(Arrived)
                                     /\ h.header_size = EndOfHeader(Arrived) + 4
                                     /\ h.chunk_pos = EndOfHeader(Arrived) + 4
      /\ h.fields # {} => h.body_size = Wrap(Len(Arrived) - h.header_size)
  BY <1>2, ParsedIs
<1>4. Once = IsRequestReceived(h) /\ (h.fields = {} => Once = <<"reading", h>>)
  BY <1>2, OnceIs DEF Once
<1>5. ASSUME received < n PROVE Once[1] = "reading"
  <2>1. h.fields = {}
    BY <1>2, <1>3, <1>5, StartedFields
  <2> HIDE DEF h
  <2> QED
    BY <1>4, <2>1
<1>6. ASSUME received >= n PROVE Found_(h)
  <2>1. /\ n \in Nat /\ n <= received /\ received \in 0..MaxSize /\ received - n \in Nat
        /\ b \in Seq(Bytes) /\ Len(b) = received - n
        /\ \A j \in 1..(received - n) : Arrived[n + j] = b[j]
    BY <1>1, <1>6, PartOfBody DEF Arrived, BodyArrived
  <2>2. FieldsOf(message) # {} /\ n = 3 * Len(message.fields) + 5 /\ Len(message.fields) \in Nat
    <3> DEFINE T == [kind : FieldKinds, n : Nat]
               F == message.fields
    <3>1. F \in Seq(T) /\ F # <<>>
      BY <1>1, MessagesAssumption
    <3>2. n = 3 * Len(F) + 5
      BY <1>1, SymbolsLayout
    <3>3. FieldsOf(message) = {F[i] : i \in 1..Len(F)}
      BY DEF FieldsOf
    <3> HIDE DEF T, F, n
    <3>4. Len(F) \in Nat /\ 1 \in 1..Len(F)
      BY <3>1
    <3>5. {F[i] : i \in 1..Len(F)} # {}
      BY <3>4
    <3> QED
      BY <3>2, <3>3, <3>4, <3>5 DEF F
  <2> HIDE DEF n, h, b
  <2>3. 3 * Len(message.fields) + 1 + 4 = n
    BY <2>2
  <2>4. h.fields = FieldsOf(message) /\ h.header_size = n /\ h.chunk_pos = n
    BY <1>2, <1>3, <1>6, <2>3
  <2>5. h.body_size = Len(b)
    <3> DEFINE k == received - n
    <3>1. k \in 0..MaxSize
      BY <2>1, SizesAssumption
    <3>2. h.body_size = Wrap(k)
      BY <1>2, <1>3, <2>2, <2>4
    <3> HIDE DEF k
    <3> QED
      BY <2>1, <3>1, <3>2, WrapSame DEF k
  <2>6. Len(h.buffer) = n + Len(b) /\ Len(h.buffer) = received
    BY <1>2, <1>3, <2>1
  <2>7. \A j \in 1..Len(b) : h.buffer[n + j] = b[j]
    BY <1>3, <2>1
  <2> QED
    BY <1>3, <2>1, <2>2, <2>4, <2>5, <2>6, <2>7 DEF Found_, n, b
<1> QED
  BY <1>4, <1>5, <1>6

\* What the object should be, once it is there, and the outcome before.  The
\* body takes the rest of the buffer.
Right(v, q) ==
  Meaning[1] # "huge" =>
    /\ v = Meaning[1]
    /\ v = "done" => /\ IF HasField(q, "chunked") THEN Body(q) = Meaning[2]
                        ELSE IsPrefixOf(Meaning[2], Body(q))
                     /\ Len(q.buffer) = q.header_size + q.body_size

Sent(kind) == \E i \in DOMAIN message.fields : message.fields[i].kind = kind
SentLengths == {i \in DOMAIN message.fields : message.fields[i].kind = "length"}
SentLength == message.fields[CHOOSE i \in SentLengths : TRUE].n

LEMMA MeaningIs ==
  Meaning = IF received < Len(Header(message)) THEN <<"reading", <<>>>>
            ELSE IF Sent("chunked") THEN Chunked(BodyArrived)
            ELSE IF Sent("badlength") THEN <<"thrown", <<>>>>
            ELSE IF ~Sent("length") THEN <<"done", <<>>>>
            ELSE IF Len(BodyArrived) < SentLength THEN <<"reading", <<>>>>
            ELSE <<"done", SubSeq(BodyArrived, 1, SentLength)>>
BY DEF Meaning, Sent, SentLengths, SentLength, BodyArrived

\* The fields of the object are those that were sent, and so is the length.
LEMMA SentIsFound ==
  ASSUME NEW h, Found_(h), message \in Messages
  PROVE  /\ \A kind : HasField(h, kind) <=> Sent(kind)
         /\ Sent("length") => ContentLength(h) = SentLength /\ SentLength \in Nat
<1> DEFINE F == message.fields
           T == [kind : FieldKinds, n : Nat]
<1>1. F \in Seq(T)
  BY MessagesAssumption
<1>2. h.fields = {F[i] : i \in 1..Len(F)}
  BY DEF Found_, FieldsOf
<1>3. \A i, j \in DOMAIN F : F[i].kind = "length" /\ F[j].kind = "length" => F[i] = F[j]
  BY MessagesAssumption
<1> HIDE DEF T
<1>4. DOMAIN F = 1..Len(F) /\ \A i \in 1..Len(F) : F[i] \in T
  <2> HIDE DEF F
  <2> QED
    BY <1>1
<1>5. \A kind : HasField(h, kind) <=> Sent(kind)
  BY <1>2, <1>4 DEF HasField, Sent
<1>6. ASSUME Sent("length") PROVE ContentLength(h) = SentLength /\ SentLength \in Nat
  <2> DEFINE i == CHOOSE x \in SentLengths : TRUE
             f == CHOOSE x \in h.fields : x.kind = "length"
  <2>1. i \in SentLengths
    BY <1>6 DEF Sent, SentLengths
  <2>2. i \in DOMAIN F /\ F[i].kind = "length"
    BY <2>1 DEF SentLengths
  <2>3. f \in h.fields /\ f.kind = "length"
    BY <1>5, <1>6 DEF HasField
  <2>4. PICK j \in 1..Len(F) : f = F[j]
    BY <1>2, <2>3
  <2>5. ContentLength(h) = f.n /\ SentLength = F[i].n
    BY DEF ContentLength, SentLength
  <2> HIDE DEF i, f, F
  <2>6. f = F[i]
    BY <1>3, <1>4, <2>2, <2>3, <2>4
  <2>7. F[i].n \in Nat
    BY <1>4, <2>2 DEF T
  <2> QED
    BY <2>5, <2>6, <2>7
<1> QED
  BY <1>5, <1>6

\* A body that is not chunked stands behind the header as it came.
LEMMA BodyIs ==
  ASSUME NEW h, Found_(h)
  PROVE  Body(h) = BodyArrived
<1> DEFINE n == Len(Header(message))
           b == BodyArrived
           k == Len(b)
           s == h.buffer
           t == SubSeq(s, n + 1, n + k)
<1>1. /\ s \in Seq(Bytes) /\ n \in Nat /\ h.header_size = n /\ b \in Seq(Bytes) /\ h.body_size = k
      /\ Len(s) = n + k /\ Len(b) = k /\ k \in Nat /\ \A j \in 1..k : s[n + j] = b[j]
  BY RequestFields DEF Found_
<1>2. Body(h) = t
  BY <1>1 DEF Body
<1> HIDE DEF n, b, k, s
<1>3. /\ n + 1 \in Nat \ {0} /\ n + k \in Nat /\ n + k <= Len(s)
      /\ (IF n + 1 <= n + k THEN n + k - (n + 1) + 1 ELSE 0) = k
      /\ \A j \in 1..k : n + 1 + j - 1 = n + j
  BY <1>1
<1>4. IsPart(t, s, n + 1, IF n + 1 <= n + k THEN n + k - (n + 1) + 1 ELSE 0)
  BY <1>1, <1>3, PartOf
<1> HIDE DEF t
<1>5. t \in Seq(Bytes) /\ Len(t) = k /\ \A j \in 1..k : t[j] = b[j]
  BY <1>1, <1>3, <1>4 DEF IsPart
<1>6. t = b
  BY <1>1, <1>5
<1> QED
  BY <1>2, <1>6 DEF b

LEMMA PrefixOf ==
  ASSUME NEW b \in Seq(Bytes), NEW k \in Nat, k <= Len(b)
  PROVE  IsPrefixOf(SubSeq(b, 1, k), b) /\ IsPrefixOf(<<>>, b)
<1> DEFINE t == SubSeq(b, 1, k)
<1>1. Len(t) = k
  <2>1. IsPart(t, b, 1, IF 1 <= k THEN k - 1 + 1 ELSE 0)
    BY PartOf
  <2> HIDE DEF t
  <2> QED
    BY <2>1 DEF IsPart
<1>2. IsPrefixOf(t, b)
  BY <1>1 DEF IsPrefixOf
<1>3. Len(<<>>) = 0 /\ SubSeq(b, 1, 0) = <<>> /\ Len(b) \in Nat
  OBVIOUS
<1>4. IsPrefixOf(<<>>, b)
  BY <1>3 DEF IsPrefixOf
<1> QED
  BY <1>2, <1>4

\* A body that is not chunked.
LEMMA PlainRight ==
  ASSUME NEW h, Found_(h), message \in Messages, received >= Len(Header(message)), ~Sent("chunked")
  PROVE  Right(IsRequestReceived(h)[1], IsRequestReceived(h)[2])
<1> DEFINE b == BodyArrived
           k == SentLength
           out == IsRequestReceived(h)
           e == <<>>
<1>1. /\ ~HasField(h, "chunked") /\ (HasField(h, "badlength") <=> Sent("badlength"))
      /\ HasField(h, "length") <=> Sent("length")
      /\ Sent("length") => ContentLength(h) = k /\ k \in Nat
  BY SentIsFound
<1>2. h.fields # {} /\ b \in Seq(Bytes) /\ h.body_size = Len(b) /\ Body(h) = b /\ Len(b) \in Nat
  BY BodyIs, SMTT(60) DEF Found_
<1>3. ~(received < Len(Header(message)))
  <2>1. received \in Int /\ Len(Header(message)) \in Int
    BY <1>2 DEF Found_
  <2> QED
    BY <2>1
<1>4. Meaning = IF Sent("badlength") THEN <<"thrown", e>>
                ELSE IF ~Sent("length") THEN <<"done", e>>
                ELSE IF Len(b) < k THEN <<"reading", e>> ELSE <<"done", SubSeq(b, 1, k)>>
  BY <1>3, MeaningIs
<1>5. out = IF Sent("badlength") THEN <<"thrown", h>>
            ELSE IF Sent("length") /\ k > Len(b) THEN <<"reading", h>> ELSE <<"done", h>>
  BY <1>1, <1>2 DEF IsRequestReceived
<1>6. IsPrefixOf(e, b)
  BY <1>2, PrefixOf
<1>7. Sent("length") /\ ~(Len(b) < k) => IsPrefixOf(SubSeq(b, 1, k), b)
  BY <1>1, <1>2, PrefixOf
<1>8. Sent("length") => (k > Len(b) <=> Len(b) < k)
  BY <1>1, <1>2
<1>10. Len(h.buffer) = h.header_size + h.body_size
  BY <1>2 DEF Found_
<1> HIDE DEF b, k, out, e
<1>9. /\ out[1] = Meaning[1]
      /\ out[1] = "done" => out[2] = h /\ IsPrefixOf(Meaning[2], b)
  <2>1. CASE Sent("badlength")
    BY <1>4, <1>5, <2>1
  <2>2. CASE ~Sent("badlength") /\ ~Sent("length")
    BY <1>4, <1>5, <1>6, <2>2
  <2>3. CASE ~Sent("badlength") /\ Sent("length") /\ Len(b) < k
    BY <1>4, <1>5, <1>8, <2>3
  <2>4. CASE ~Sent("badlength") /\ Sent("length") /\ ~(Len(b) < k)
    BY <1>4, <1>5, <1>7, <1>8, <2>4
  <2> QED
    BY <2>1, <2>2, <2>3, <2>4
<1> QED
  BY <1>1, <1>2, <1>9, <1>10 DEF Right, out

\* What is behind the header comes out as it went in.
LEMMA BehindHeader ==
  ASSUME NEW pre \in Seq(Bytes), NEW d \in Seq(Bytes)
  PROVE  SubSeq(pre \o d, Len(pre) + 1, Len(pre) + Len(d)) = d
<1> DEFINE c == pre \o d
           n == Len(pre)
           k == Len(d)
           t == SubSeq(c, n + 1, n + k)
<1>1. Joined(c, pre, d)
  BY ConcatJoins
<1> HIDE DEF c
<1>2. c \in Seq(Bytes) /\ Len(c) = n + k /\ n \in Nat /\ k \in Nat /\ \A j \in 1..k : c[n + j] = d[j]
  BY <1>1 DEF Joined
<1>3. Len(d) = k
  OBVIOUS
<1> HIDE DEF n, k
<1>4. /\ n + 1 \in Nat \ {0} /\ n + k \in Nat /\ n + k <= Len(c)
      /\ (IF n + 1 <= n + k THEN n + k - (n + 1) + 1 ELSE 0) = k
      /\ \A j \in 1..k : n + 1 + j - 1 = n + j
  BY <1>2
<1>5. IsPart(t, c, n + 1, IF n + 1 <= n + k THEN n + k - (n + 1) + 1 ELSE 0)
  BY <1>2, <1>4, PartOf
<1> HIDE DEF t
<1>6. t \in Seq(Bytes) /\ Len(t) = k /\ \A j \in 1..k : t[j] = d[j]
  BY <1>2, <1>4, <1>5 DEF IsPart
<1>7. t = d
  BY <1>3, <1>6
<1> QED
  BY <1>7 DEF t, c, n, k

\* A chunked body: the loop starts behind the header.
LEMMA LoopStarts ==
  ASSUME NEW h, Found_(h), message \in Messages, received \in 0..Len(Symbols(message)),
         NEW l \in Nat, l = Len(Symbols(message)), NEW pre, pre = SubSeq(h.buffer, 1, Len(Header(message)))
  PROVE  /\ pre \in Seq(Bytes) /\ Len(pre) = h.header_size
         /\ Stands(h, pre, BodyArrived, 0, l) /\ Len(BodyArrived) <= MaxSize
<1> DEFINE n == Len(Header(message))
           b == BodyArrived
           s == h.buffer
           k == Len(b)
<1>1. /\ h \in Requests /\ h.fields # {} /\ n \in Nat /\ h.header_size = n /\ h.chunk_pos = n
      /\ h.chunk_size = NoSize /\ b \in Seq(Bytes) /\ s \in Seq(Bytes) /\ k \in Nat /\ k = Len(b)
      /\ Len(s) = n + k /\ n + k <= l /\ \A j \in 1..k : s[n + j] = b[j]
  <2>1. /\ h \in Requests /\ h.fields # {} /\ n \in Nat /\ h.header_size = n /\ h.chunk_pos = n
        /\ h.chunk_size = NoSize /\ b \in Seq(Bytes) /\ s \in Seq(Bytes)
        /\ Len(s) = n + k /\ Len(s) = received /\ \A j \in 1..k : s[n + j] = b[j]
    BY RequestFields DEF Found_
  <2>2. k \in Nat /\ k = Len(b)
    BY <2>1
  <2>3. received <= l
    OBVIOUS
  <2> HIDE DEF n, b, s, k
  <2> QED
    BY <2>1, <2>2, <2>3
<1>2. l < MaxSize /\ MaxSize \in Nat
  BY MessagesAssumption, SizesAssumption
<1>3. pre = SubSeq(s, 1, n)
  OBVIOUS
<1> HIDE DEF n, b, s, k
<1>4. pre \in Seq(Bytes) /\ Len(pre) = n /\ \A j \in 1..n : pre[j] = s[j]
  <2>1. n <= Len(s)
    BY <1>1
  <2>2. IsPart(SubSeq(s, 1, n), s, 1, IF 1 <= n THEN n - 1 + 1 ELSE 0)
    BY <1>1, <2>1, PartOf
  <2> QED
    BY <1>1, <1>3, <2>2, SMTT(60) DEF IsPart
<1>5. Behind(s, n, b, 0)
  <2>1. 0 \in 0..Len(b) /\ Len(b) - 0 = k /\ \A j \in 1..k : 0 + j = j
    BY <1>1
  <2> QED
    BY <1>1, <2>1 DEF Behind
<1>6. Begins(s, pre)
  BY <1>4 DEF Begins
<1>7. n + (Len(b) - 0) <= l /\ Len(b) <= MaxSize
  BY <1>1, <1>2
<1>8. Stands(h, pre, b, 0, l)
  BY <1>1, <1>4, <1>5, <1>6, <1>7 DEF Stands, s
<1> QED
  BY <1>1, <1>4, <1>7, <1>8 DEF b

LEMMA ChunksRight ==
  ASSUME NEW h, Found_(h), message \in Messages, received \in 0..Len(Symbols(message)),
         received >= Len(Header(message)), Sent("chunked")
  PROVE  Right(IsRequestReceived(h)[1], IsRequestReceived(h)[2])
<1> DEFINE b == BodyArrived
           l == Len(Symbols(message))
           pre == SubSeq(h.buffer, 1, Len(Header(message)))
           out == Dechunk[h]
           k == Len(b)
<1>1. HasField(h, "chunked") /\ h.fields # {} /\ h \in Requests /\ b \in Seq(Bytes)
  BY SentIsFound DEF Found_
<1>2. l \in Nat
  BY SymbolsLayout DEF Layout
<1>3. IsRequestReceived(h) = out
  BY <1>1 DEF IsRequestReceived
<1>4. PICK f : IsVerdict(f, b) /\ Parses(f, b, l) /\ Chunked(b) = f[0]
  BY <1>1, <1>2, ChunkedParses
<1> DEFINE v == f[0]
<1>5. Meaning = v
  <2>1. ~(received < Len(Header(message)))
    <3>1. received \in Int /\ Len(Header(message)) \in Int
      BY <1>2 DEF Found_
    <3> QED
      BY <3>1
  <2> QED
    BY <1>4, <2>1, MeaningIs
<1>6. /\ pre \in Seq(Bytes) /\ Len(pre) = h.header_size
      /\ Stands(h, pre, b, 0, l) /\ k <= MaxSize
  BY <1>2, LoopStarts
<1> HIDE DEF l, pre, b, out
<1>7. k \in Nat /\ 0 \in 0..Len(b) /\ Len(b) - 0 = k
  BY <1>1
<1>8. LoopDecodes(h, pre, Len(b) - 0, v)
  BY <1>1, <1>2, <1>4, <1>6, <1>7, ChunksDecoded
<1>9. v \in Verdicts
  BY <1>4, <1>7 DEF IsVerdict
<1> DEFINE d == v[2]
           m == Len(d)
<1>10. d \in Seq(Bytes) /\ m \in Nat
  <2>1. d \in Seq(Bytes)
    BY <1>9 DEF Verdicts
  <2> HIDE DEF d
  <2> QED
    BY <2>1
<1> HIDE DEF v, d, k
<1>11. ASSUME v[1] # "huge"
       PROVE  /\ out[1] = v[1]
              /\ v[1] = "done" => /\ out[2].buffer = pre \o d /\ m <= k
                                  /\ out[2].body_size = Wrap(Len(pre \o d) - h.header_size)
  BY <1>7, <1>8, <1>11 DEF LoopDecodes, d, out
<1>12. out[2].fields = h.fields /\ out[2].header_size = h.header_size
  BY <1>1, DechunkType DEF Keeps, out
<1>13. ASSUME v[1] = "done"
       PROVE  Body(out[2]) = d /\ Len(out[2].buffer) = out[2].header_size + out[2].body_size
  <2>1. out[2].buffer = pre \o d /\ m <= k /\ out[2].body_size = Wrap(Len(pre \o d) - h.header_size)
    BY <1>11, <1>13
  <2>2. Len(pre \o d) - h.header_size = m
    <3>1. Len(pre \o d) = Len(pre) + Len(d) /\ Len(pre) \in Nat
      BY <1>6, <1>10
    <3> HIDE DEF m
    <3> QED
      BY <1>6, <1>10, <3>1 DEF m
  <2>3. m \in 0..MaxSize
    <3> HIDE DEF m
    <3> QED
      BY <1>6, <1>7, <1>10, <2>1, SizesAssumption
  <2>4. out[2].body_size = m
    <3> HIDE DEF m
    <3> QED
      BY <2>1, <2>2, <2>3, WrapSame
  <2>5. Body(out[2]) = SubSeq(pre \o d, Len(pre) + 1, Len(pre) + Len(d))
    BY <1>6, <1>12, <2>1, <2>4 DEF Body
  <2>6. Len(out[2].buffer) = out[2].header_size + out[2].body_size
    <3>1. Len(pre \o d) = Len(pre) + m
      BY <1>6, <1>10
    <3> HIDE DEF m
    <3> QED
      BY <1>6, <1>12, <2>1, <2>4, <3>1
  <2> QED
    BY <1>6, <1>10, <2>5, <2>6, BehindHeader
<1>14. HasField(out[2], "chunked")
  BY <1>1, <1>12 DEF HasField
<1> QED
  BY <1>3, <1>5, <1>11, <1>13, <1>14 DEF Right, d, out

LEMMA ReadRight ==
  ASSUME PacketsInv, message.fields # <<>>, status # "lost"
  PROVE  Right(status, request)
<1> DEFINE n == Len(Header(message))
           h == Parsed(Arrived)
<1>1. message \in Messages /\ received \in 0..Len(Symbols(message)) /\ request \in Requests
  BY DEF PacketsInv
<1>2. Once \in Outcomes
  <2>1. Arrived \in Seq(Bytes)
    BY <1>1, HeaderOfMessage DEF Arrived
  <2> QED
    BY <2>1, OnceIs DEF Once
<1>3. status = Once[1] /\ (status = "done" => request = Once[2])
  <2>1. Agree(<<status, request>>, Once)
    BY DEF PacketsInv
  <2> QED
    BY <1>1, <1>2, <2>1, AgreeMembers
<1>4. /\ received < n => Once[1] = "reading"
      /\ received >= n => Found_(h) /\ Once = IsRequestReceived(h)
  BY HeaderArrived
<1>5. received < n \/ received >= n
  <2>1. n = 3 * Len(message.fields) + 5 /\ Len(message.fields) \in Nat
    <3> DEFINE T == [kind : FieldKinds, n : Nat]
               F == message.fields
    <3>1. F \in Seq(T) /\ n = 3 * Len(F) + 5
      BY <1>1, MessagesAssumption, SymbolsLayout
    <3> HIDE DEF T, F, n
    <3> QED
      BY <3>1 DEF F
  <2>2. received \in Int
    BY <1>1
  <2> HIDE DEF n
  <2> QED
    BY <2>1, <2>2
<1>6. CASE received < n
  <2>1. Meaning = <<"reading", <<>>>>
    BY <1>6, MeaningIs
  <2> QED
    BY <1>3, <1>4, <1>6, <2>1 DEF Right
<1>7. CASE received >= n
  <2>1. Right(Once[1], Once[2])
    <3> HIDE DEF h
    <3> QED
      BY <1>1, <1>4, <1>7, PlainRight, ChunksRight
  <2> QED
    BY <1>3, <2>1 DEF Right
<1> QED
  BY <1>5, <1>6, <1>7

\* However recv() cuts a message, read() comes to what the message means, and
\* the body is its data (HTTPRequest::read, isRequestReceived, dechunk).
THEOREM AnyCutDecodes == Spec => []DecodesAsWhole
<1>1. PacketsInv => DecodesAsWhole
  BY ReadRight DEF Right, DecodesAsWhole
<1> QED
  BY <1>1, PacketsInvariant, PTL
=============================================================================
