------------------------------ MODULE Recursion ------------------------------
(***************************************************************************)
(* Induction and recursion over numbers and over anything that has a size, *)
(* stated with sets and functions, for proofs about what a loop or a       *)
(* recursive function computes; and what Min and Max are.                  *)
(***************************************************************************)
EXTENDS Integers, FiniteSetsExt, WellFoundedInduction, TLAPS

\* A set of natural numbers has a least element.
LEMMA LeastOf ==
  ASSUME NEW T \in SUBSET Nat, T # {}
  PROVE  \E m \in T : \A k \in T : m <= k
<1> DEFINE R == {ss \in Nat \X Nat : ss[1] < ss[2]}
<1>1. IsWellFoundedOn(R, Nat)
  BY NatLessThanWellFounded DEF OpToRel
<1>2. PICK m \in T : \A k \in T : <<k, m>> \notin R
  <2> HIDE DEF R
  <2> QED
    BY <1>1, WFMin
<1>3. ASSUME NEW k \in T PROVE m <= k
  <2>1. <<k, m>> \in Nat \X Nat /\ <<k, m>>[1] = k /\ <<k, m>>[2] = m
    OBVIOUS
  <2>2. ~(k < m)
    BY <1>2, <2>1
  <2> QED
    BY <2>1, <2>2
<1> QED
  BY <1>3

\* Induction over whatever has a size.
LEMMA SizeInduction ==
  ASSUME NEW S, NEW size \in [S -> Nat], NEW T,
         \A x \in S : (\A y \in S : size[y] < size[x] => y \in T) => x \in T
  PROVE  S \subseteq T
<1> SUFFICES ASSUME NEW z \in S, z \notin T PROVE FALSE
  OBVIOUS
<1> DEFINE bad == {size[x] : x \in {y \in S : y \notin T}}
<1>1. bad \in SUBSET Nat /\ bad # {}
  OBVIOUS
<1>2. PICK m \in bad : \A k \in bad : m <= k
  <2> HIDE DEF bad
  <2> QED
    BY <1>1, LeastOf
<1>3. PICK x \in S : x \notin T /\ size[x] = m
  BY <1>2
<1>4. \A y \in S : y \notin T => size[x] <= size[y]
  BY <1>2, <1>3
<1> HIDE DEF bad
<1>5. \A y \in S : size[y] < size[x] => y \in T
  BY <1>4
<1> QED
  BY <1>3, <1>5

\* Induction over the natural numbers, from 0.
LEMMA SetInduction ==
  ASSUME NEW T, 0 \in T, \A n \in Nat : n \in T => n + 1 \in T
  PROVE  Nat \subseteq T
<1> DEFINE size == [n \in Nat |-> n]
<1>1. size \in [Nat -> Nat] /\ \A n \in Nat : size[n] = n
  OBVIOUS
<1> HIDE DEF size
<1>2. ASSUME NEW n \in Nat, \A k \in Nat : size[k] < size[n] => k \in T
      PROVE  n \in T
  <2>1. CASE n = 0
    BY <2>1
  <2>2. CASE n # 0
    <3>1. n - 1 \in Nat /\ size[n - 1] < size[n]
      BY <1>1, <2>2
    <3>2. (n - 1) + 1 \in T
      BY <1>2, <3>1
    <3> QED
      BY <3>2
  <2> QED
    BY <2>1, <2>2
<1> QED
  BY <1>1, <1>2, SizeInduction

LEMMA MinOf ==
  ASSUME NEW T \in SUBSET Nat, T # {}
  PROVE  Min(T) \in T /\ \A k \in T : Min(T) <= k
<1>1. \E m \in T : \A k \in T : m <= k
  BY LeastOf
<1> QED
  BY <1>1 DEF Min

LEMMA MaxOf ==
  ASSUME NEW T \in SUBSET Nat, T # {}, NEW n \in Nat, \A k \in T : k <= n
  PROVE  Max(T) \in T /\ \A k \in T : k <= Max(T)
<1> DEFINE rests == {n - k : k \in T}
<1>1. rests \in SUBSET Nat /\ rests # {}
  <2>1. \A k \in T : n - k \in Nat
    OBVIOUS
  <2> QED
    BY <2>1
<1>2. PICK m \in rests : \A k \in rests : m <= k
  <2> HIDE DEF rests
  <2> QED
    BY <1>1, LeastOf
<1>3. PICK x \in T : m = n - x
  BY <1>2
<1>4. \A k \in T : n - x <= n - k
  BY <1>2, <1>3
<1>5. \A k \in T : k <= x
  BY <1>4
<1>6. \E y \in T : \A k \in T : y >= k
  BY <1>5
<1> QED
  BY <1>6 DEF Max

-----------------------------------------------------------------------------
(* Recursion: the value at x is given, or made from the value at a smaller *)
(* argument.  Each such function exists, so that the one a definition      *)
(* chooses meets its own equation.                                         *)

\* The equation of such a function.
Recursive(g, x, Base, given, next, step) ==
  g[x] = IF x \in Base THEN given[x] ELSE step[x][g[next[x]]]

\* One that meets it on the arguments below some size.
LEMMA RecursionBelow ==
  ASSUME NEW S, NEW V, NEW size \in [S -> Nat], NEW next \in [S -> S],
         NEW Base \in SUBSET S, NEW given \in [S -> V], NEW step \in [S -> [V -> V]],
         \A x \in S \ Base : size[next[x]] < size[x]
  PROVE  \A n \in Nat : \E g \in [S -> V] :
           \A x \in S : size[x] < n => Recursive(g, x, Base, given, next, step)
<1> DEFINE T == {n \in Nat : \E g \in [S -> V] :
                   \A x \in S : size[x] < n => Recursive(g, x, Base, given, next, step)}
<1>1. 0 \in T
  OBVIOUS
<1>2. ASSUME NEW n \in Nat, n \in T PROVE n + 1 \in T
  <2>1. PICK g \in [S -> V] :
          \A x \in S : size[x] < n => Recursive(g, x, Base, given, next, step)
    BY <1>2
  <2> DEFINE h == [x \in S |-> IF x \in Base THEN given[x] ELSE step[x][g[next[x]]]]
  <2>2. h \in [S -> V]
    OBVIOUS
  <2>3. \A x \in S : size[x] < n => h[x] = g[x]
    BY <2>1 DEF Recursive
  <2>4. \A x \in S : size[x] < n + 1 /\ x \notin Base => h[next[x]] = g[next[x]]
    BY <2>3
  <2>5. \A x \in S : size[x] < n + 1 => Recursive(h, x, Base, given, next, step)
    BY <2>4 DEF Recursive
  <2> HIDE DEF h
  <2> QED
    BY <2>2, <2>5
<1>3. Nat \subseteq T
  <2> HIDE DEF T
  <2> QED
    BY <1>1, <1>2, SetInduction
<1> QED
  BY <1>3

\* Those for any two sizes agree, and one function can be made of all.
LEMMA RecursionExists ==
  ASSUME NEW S, NEW V, NEW size \in [S -> Nat], NEW next \in [S -> S],
         NEW Base \in SUBSET S, NEW given \in [S -> V], NEW step \in [S -> [V -> V]],
         \A x \in S \ Base : size[next[x]] < size[x]
  PROVE  \E g \in [S -> V] : \A x \in S : Recursive(g, x, Base, given, next, step)
<1> DEFINE part(n) == CHOOSE g \in [S -> V] :
                        \A x \in S : size[x] < n => Recursive(g, x, Base, given, next, step)
           h == [x \in S |-> part(size[x] + 1)[x]]
<1>1. \A n \in Nat : \E g \in [S -> V] :
           \A x \in S : size[x] < n => Recursive(g, x, Base, given, next, step)
  BY RecursionBelow, ZenonT(30)
<1>2. ASSUME NEW n \in Nat
      PROVE  /\ part(n) \in [S -> V]
             /\ \A x \in S : size[x] < n => Recursive(part(n), x, Base, given, next, step)
  <2>1. \E g \in [S -> V] :
           \A x \in S : size[x] < n => Recursive(g, x, Base, given, next, step)
    BY <1>1
  <2> QED
    BY <2>1
<1> HIDE DEF part
<1>3. h \in [S -> V]
  BY <1>2
<1>4. ASSUME NEW m \in Nat, NEW n \in Nat
      PROVE  \A x \in S : size[x] < m /\ size[x] < n => part(m)[x] = part(n)[x]
  <2> DEFINE T == {x \in S : size[x] < m /\ size[x] < n => part(m)[x] = part(n)[x]}
  <2>1. ASSUME NEW x \in S, \A y \in S : size[y] < size[x] => y \in T
        PROVE  x \in T
    <3>1. x \notin Base => next[x] \in T /\ size[next[x]] < size[x]
      BY <2>1
    <3> QED
      BY <1>2, <3>1 DEF Recursive
  <2>2. S \subseteq T
    <3> HIDE DEF T
    <3> QED
      BY <2>1, SizeInduction, SMTT(30)
  <2> QED
    BY <2>2
<1>5. ASSUME NEW x \in S PROVE Recursive(h, x, Base, given, next, step)
  <2>1. Recursive(part(size[x] + 1), x, Base, given, next, step)
    BY <1>2
  <2>2. x \notin Base => part(size[x] + 1)[next[x]] = part(size[next[x]] + 1)[next[x]]
    <3> SUFFICES ASSUME x \notin Base
                 PROVE  part(size[x] + 1)[next[x]] = part(size[next[x]] + 1)[next[x]]
      OBVIOUS
    <3>1. /\ next[x] \in S /\ size[x] + 1 \in Nat /\ size[next[x]] + 1 \in Nat
          /\ size[next[x]] < size[x] + 1 /\ size[next[x]] < size[next[x]] + 1
      OBVIOUS
    <3> QED
      BY <1>4, <3>1
  <2> QED
    BY <2>1, <2>2 DEF Recursive
<1> QED
  <2> HIDE DEF h
  <2> QED
    BY <1>3, <1>5
=============================================================================
