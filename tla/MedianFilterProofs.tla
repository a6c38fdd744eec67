------------------------- MODULE MedianFilterProofs -------------------------
(***************************************************************************)
(* The exchange sort of MedianFilter finds a median, for any odd window.   *)
(***************************************************************************)
EXTENDS MedianFilter, FiniteSetTheorems, FunctionTheorems, WellFoundedInduction, TLAPS

(* Induction over the naturals, for a set.                                 *)
LEMMA SetInduction ==
    ASSUME NEW T \in SUBSET Nat, 0 \in T, \A n \in T : n + 1 \in T
    PROVE  T = Nat
<1> SUFFICES ASSUME T # Nat PROVE FALSE
  OBVIOUS
<1> DEFINE S == Nat \ T
<1>1. S # {} /\ S \subseteq Nat
  OBVIOUS
<1>2. PICK x \in S : \A y \in S : ~(<<y, x>> \in OpToRel(<, Nat))
  <2> HIDE DEF S
  <2> QED
    BY <1>1, NatLessThanWellFounded, WFMin
<1>3. x # 0 /\ x - 1 \in Nat /\ x - 1 < x /\ x \in Nat
  OBVIOUS
<1>4. x - 1 \in S
  BY <1>3
<1>5. <<x - 1, x>> \in OpToRel(<, Nat)
  BY <1>3 DEF OpToRel
<1> QED
  BY <1>2, <1>4, <1>5

LEMMA WindowFacts ==
    /\ Window \in Nat /\ Window >= 1
    /\ Half \in Place /\ Window = 2 * Half + 1
<1>1. Window # 0
  BY WindowAssumption, SMT
<1> QED
  BY <1>1, WindowAssumption DEF Half, Place

-----------------------------------------------------------------------------
(* The loops end.  Rank is what is left of them.                           *)

Rank(l) == (Window + 3) * (Window - l.i) + (Window + 1 - l.j)

\* The loops go on, and with which copy and comparison.
Goes(l) == ~(l.i >= Window - 1)
Onward(l) ==
    IF l.j >= Window
    THEN [l EXCEPT !.i = @ + 1, !.j = l.i + 2]
    ELSE [l EXCEPT !.buf = Exchange(@, l.i, l.j), !.j = @ + 1]

LEMMA ExchangeType ==
    ASSUME NEW b \in [Place -> Int], NEW i \in Place, NEW j \in Place
    PROVE  Exchange(b, i, j) \in [Place -> Int]
BY DEF Exchange

LEMMA OnwardType ==
    ASSUME NEW l \in Loop, Goes(l)
    PROVE  /\ Onward(l) \in Loop
           /\ Rank(l) \in Nat /\ Rank(Onward(l)) \in Nat /\ Rank(Onward(l)) < Rank(l)
<1>1. Window \in Nat /\ l.i \in 0..Window /\ l.j \in 0..(Window + 1) /\ l.buf \in [Place -> Int]
  BY WindowFacts DEF Loop
<1>2. CASE l.j >= Window
  <2>1. Onward(l) = [buf |-> l.buf, i |-> l.i + 1, j |-> l.i + 2]
    BY <1>2 DEF Onward, Loop
  <2>2. Onward(l) \in Loop
    BY <1>1, <2>1 DEF Loop, Goes
  <2> QED
    BY <1>1, <1>2, <2>1, <2>2 DEF Rank, Goes
<1>3. CASE l.j < Window
  <2>1. Onward(l) = [buf |-> Exchange(l.buf, l.i, l.j), i |-> l.i, j |-> l.j + 1]
    <3>1. ~(l.j >= Window)
      BY <1>1, <1>3
    <3> QED
      BY <3>1 DEF Onward, Loop
  <2>2. l.i \in Place /\ l.j \in Place
    BY <1>1, <1>3 DEF Goes, Place
  <2>3. Onward(l) \in Loop
    BY <1>1, <1>3, <2>1, <2>2, ExchangeType DEF Loop
  <2> QED
    BY <1>1, <1>3, <2>1, <2>3 DEF Rank, Goes
<1> QED
  BY <1>1, <1>2, <1>3

LEMMA RankType == \A l \in Loop : Rank(l) \in Nat
BY WindowFacts DEF Loop, Rank

\* f does what the loops do, as far as n is left of them.
Follows(f, n) ==
    \A l \in Loop : Rank(l) < n => f[l] = IF Goes(l) THEN f[Onward(l)] ELSE l.buf

LEMMA Followers ==
    ASSUME NEW n \in Nat
    PROVE  \E f : f = [l \in Loop |-> f[l]] /\ Follows(f, n)
<1> DEFINE T == { m \in Nat : \E f : f = [l \in Loop |-> f[l]] /\ Follows(f, m) }
<1>1. 0 \in T
  <2> DEFINE f == [l \in Loop |-> l.buf]
  <2>1. f = [l \in Loop |-> f[l]] /\ Follows(f, 0)
    BY RankType DEF Follows
  <2> QED
    BY <2>1
<1>2. ASSUME NEW m \in T PROVE m + 1 \in T
  <2>1. PICK f : Follows(f, m)
    OBVIOUS
  <2> DEFINE g == [l \in Loop |-> IF Goes(l) THEN f[Onward(l)] ELSE l.buf]
  <2>2. g = [l \in Loop |-> g[l]]
    OBVIOUS
  <2>3. Follows(g, m + 1)
    <3>1. SUFFICES ASSUME NEW l \in Loop, Rank(l) < m + 1, Goes(l)
                   PROVE  g[l] = g[Onward(l)]
      BY DEF Follows
    <3>2. Onward(l) \in Loop /\ Rank(Onward(l)) < m
      BY <3>1, OnwardType
    <3>3. f[Onward(l)] = IF Goes(Onward(l)) THEN f[Onward(Onward(l))] ELSE Onward(l).buf
      BY <2>1, <3>2 DEF Follows
    <3> QED
      BY <3>1, <3>2, <3>3
  <2> QED
    BY <2>2, <2>3
<1>3. T = Nat
  <2> HIDE DEF T
  <2>1. T \in SUBSET Nat
    BY DEF T
  <2> QED
    BY <1>1, <1>2, <2>1, SetInduction
<1> QED
  BY <1>3

LEMMA SortDef ==
    Sort = [l \in Loop |-> IF Goes(l) THEN Sort[Onward(l)] ELSE l.buf]
<1> DEFINE Is(f) ==
      f = [l \in Loop |->
             IF l.i >= Window - 1 THEN l.buf
             ELSE IF l.j >= Window
                  THEN f[[l EXCEPT !.i = @ + 1, !.j = l.i + 2]]
                  ELSE f[[l EXCEPT !.buf = Exchange(@, l.i, l.j), !.j = @ + 1]]]
<1> DEFINE Does(f) == f = [l \in Loop |-> IF Goes(l) THEN f[Onward(l)] ELSE l.buf]
<1>1. \E f : Does(f)
  <2> DEFINE n == (Window + 3) * Window + Window + 2
  <2>1. n \in Nat /\ \A l \in Loop : Rank(l) < n
    BY WindowFacts DEF Rank, Loop
  <2>2. PICK f : f = [l \in Loop |-> f[l]] /\ Follows(f, n)
    BY <2>1, Followers
  <2>3. \A l \in Loop : f[l] = IF Goes(l) THEN f[Onward(l)] ELSE l.buf
    BY <2>1, <2>2 DEF Follows
  <2>4. [l \in Loop |-> f[l]] = [l \in Loop |-> IF Goes(l) THEN f[Onward(l)] ELSE l.buf]
    BY <2>3
  <2> QED
    BY <2>2, <2>4
<1>2. \A f : Does(f) => Is(f)
  <2> SUFFICES ASSUME NEW f, Does(f) PROVE Is(f)
    OBVIOUS
  <2>1. ASSUME NEW l \in Loop
        PROVE  (IF Goes(l) THEN f[Onward(l)] ELSE l.buf) =
               IF l.i >= Window - 1 THEN l.buf
               ELSE IF l.j >= Window
                    THEN f[[l EXCEPT !.i = @ + 1, !.j = l.i + 2]]
                    ELSE f[[l EXCEPT !.buf = Exchange(@, l.i, l.j), !.j = @ + 1]]
    BY DEF Goes, Onward
  <2> QED
    BY <2>1
<1>3. \A f : Is(f) => Does(f)
  <2> SUFFICES ASSUME NEW f, Is(f) PROVE Does(f)
    OBVIOUS
  <2>1. ASSUME NEW l \in Loop
        PROVE  (IF Goes(l) THEN f[Onward(l)] ELSE l.buf) =
               IF l.i >= Window - 1 THEN l.buf
               ELSE IF l.j >= Window
                    THEN f[[l EXCEPT !.i = @ + 1, !.j = l.i + 2]]
                    ELSE f[[l EXCEPT !.buf = Exchange(@, l.i, l.j), !.j = @ + 1]]
    BY DEF Goes, Onward
  <2> QED
    BY <2>1
<1>4. Sort = CHOOSE f : Is(f)
  BY DEF Sort
<1> HIDE DEF Is, Does
<1>5. Does(Sort)
  BY <1>1, <1>2, <1>3, <1>4
<1> QED
  BY <1>5 DEF Does

(* What the loops do to the end, a single step of them does first.         *)
LEMMA SortStep ==
    ASSUME NEW l \in Loop
    PROVE  /\ Goes(l) => Sort[l] = Sort[Onward(l)]
           /\ ~Goes(l) => Sort[l] = l.buf
BY SortDef

-----------------------------------------------------------------------------
(* The sort only rearranges.                                               *)

\* c has the samples of b, each as often, at other places.
Rearranges(c, b) ==
    \E f \in Bijection(DOMAIN c, DOMAIN b) : \A p \in DOMAIN c : c[p] = b[f[p]]

LEMMA RearrangesItself ==
    ASSUME NEW b
    PROVE  Rearranges(b, b)
<1> DEFINE f == [p \in DOMAIN b |-> p]
<1>1. f \in Bijection(DOMAIN b, DOMAIN b)
  BY DEF Bijection, Injection, Surjection, IsInjective
<1> QED
  BY <1>1 DEF Rearranges

LEMMA RearrangesTwice ==
    ASSUME NEW b, NEW c, NEW d, Rearranges(d, c), Rearranges(c, b)
    PROVE  Rearranges(d, b)
<1>1. PICK f \in Bijection(DOMAIN d, DOMAIN c) : \A p \in DOMAIN d : d[p] = c[f[p]]
  BY DEF Rearranges
<1>2. PICK g \in Bijection(DOMAIN c, DOMAIN b) : \A p \in DOMAIN c : c[p] = b[g[p]]
  BY DEF Rearranges
<1> DEFINE h == [p \in DOMAIN d |-> g[f[p]]]
<1>3. h \in Bijection(DOMAIN d, DOMAIN b)
  BY Fun_BijTransitive
<1>4. \A p \in DOMAIN d : f[p] \in DOMAIN c
  BY DEF Bijection, Injection
<1> QED
  BY <1>1, <1>2, <1>3, <1>4 DEF Rearranges

LEMMA ExchangeRearranges ==
    ASSUME NEW b \in [Place -> Int], NEW i \in Place, NEW j \in Place
    PROVE  Rearranges(Exchange(b, i, j), b)
<1>1. CASE Exchange(b, i, j) = b
  BY <1>1, RearrangesItself
<1>2. ASSUME Exchange(b, i, j) = [b EXCEPT ![i] = b[j], ![j] = b[i]]
      PROVE  Rearranges(Exchange(b, i, j), b)
  <2> DEFINE f == [p \in Place |-> IF p = i THEN j ELSE IF p = j THEN i ELSE p]
             c == [b EXCEPT ![i] = b[j], ![j] = b[i]]
  <2>1. f \in Bijection(Place, Place)
    <3>1. f \in [Place -> Place] /\ \A p, q \in Place : f[p] = f[q] => p = q
      OBVIOUS
    <3>2. \A q \in Place : \E p \in Place : f[p] = q
      <4> SUFFICES ASSUME NEW q \in Place PROVE f[f[q]] = q
        BY <3>1
      <4> QED
        OBVIOUS
    <3> HIDE DEF f
    <3> QED
      BY <3>1, <3>2 DEF Bijection, Injection, Surjection, IsInjective
  <2>2. DOMAIN c = Place /\ DOMAIN b = Place
    OBVIOUS
  <2>3. \A p \in Place : c[p] = b[f[p]]
    OBVIOUS
  <2> HIDE DEF f, c
  <2>4. Rearranges(c, b)
    BY <2>1, <2>2, <2>3 DEF Rearranges
  <2> QED
    BY <1>2, <2>4 DEF c
<1> QED
  BY <1>1, <1>2 DEF Exchange

LEMMA OnwardRearranges ==
    ASSUME NEW l \in Loop, Goes(l)
    PROVE  Rearranges(Onward(l).buf, l.buf)
<1>1. l.i \in 0..Window /\ l.j \in 0..(Window + 1) /\ l.buf \in [Place -> Int]
  BY DEF Loop
<1>2. CASE l.j >= Window
  <2>1. Onward(l).buf = l.buf
    BY <1>2 DEF Onward, Loop
  <2> QED
    BY <2>1, RearrangesItself
<1>3. CASE ~(l.j >= Window)
  <2>1. Onward(l).buf = Exchange(l.buf, l.i, l.j)
    BY <1>3 DEF Onward, Loop
  <2>2. l.i \in Place /\ l.j \in Place
    BY <1>1, <1>3, WindowFacts DEF Goes, Place
  <2> QED
    BY <1>1, <2>1, <2>2, ExchangeRearranges
<1> QED
  BY <1>2, <1>3

\* Before the comparison with place j, pass i has the smallest of the samples
\* from i to j at i, and the passes before it left theirs in order.
Ordered(l) ==
    /\ l.i < l.j
    /\ \A p, q \in Place : p < l.i /\ p < q => l.buf[p] <= l.buf[q]
    /\ \A q \in Place : l.i < q /\ q < l.j => l.buf[l.i] <= l.buf[q]

LEMMA OnwardOrdered ==
    ASSUME NEW l \in Loop, Goes(l), Ordered(l)
    PROVE  Ordered(Onward(l))
<1>0. Window \in Nat /\ \A p \in Place : p \in Nat /\ p < Window
  BY WindowFacts DEF Place
<1>1. PICK b \in [Place -> Int], i \in 0..Window, j \in 0..(Window + 1) :
        l = [buf |-> b, i |-> i, j |-> j]
  BY DEF Loop
<1>2. /\ i \in Place /\ i < j
      /\ \A p, q \in Place : p < i /\ p < q => b[p] <= b[q]
      /\ \A q \in Place : i < q /\ q < j => b[i] <= b[q]
  BY <1>0, <1>1 DEF Goes, Ordered, Place
<1>3. CASE j >= Window
  <2>1. Onward(l) = [buf |-> b, i |-> i + 1, j |-> i + 2]
    BY <1>1, <1>3 DEF Onward
  <2>2. ASSUME NEW p \in Place, NEW q \in Place, p < i + 1, p < q PROVE b[p] <= b[q]
    <3>1. CASE p = i
      BY <1>0, <1>2, <1>3, <2>2, <3>1
    <3>2. CASE p # i
      BY <1>0, <1>2, <2>2, <3>2
    <3> QED
      BY <3>1, <3>2
  <2>3. ASSUME NEW q \in Place, i + 1 < q, q < i + 2 PROVE FALSE
    BY <1>0, <2>3
  <2>4. i + 1 < i + 2
    OBVIOUS
  <2> QED
    BY <2>1, <2>2, <2>3, <2>4 DEF Ordered
<1>4. CASE ~(j >= Window)
  <2> DEFINE c == Exchange(b, i, j)
  <2>1. Onward(l) = [buf |-> c, i |-> i, j |-> j + 1]
    BY <1>1, <1>4 DEF Onward
  <2>2. j \in Place
    BY <1>0, <1>2, <1>4 DEF Place
  <2>3. /\ c \in [Place -> Int]
        /\ \A p \in Place : p # i /\ p # j => c[p] = b[p]
        /\ c[i] <= c[j] /\ c[i] <= b[i]
        /\ c[i] \in {b[i], b[j]} /\ c[j] \in {b[i], b[j]}
    <3>1. CASE b[j] < b[i]
      <4>1. c = [b EXCEPT ![i] = b[j], ![j] = b[i]]
        BY <3>1 DEF Exchange
      <4>2. c[i] = b[j] /\ c[j] = b[i] /\ c \in [Place -> Int]
        BY <1>2, <2>2, <4>1
      <4>3. \A p \in Place : p # i /\ p # j => c[p] = b[p]
        BY <4>1
      <4> QED
        BY <1>2, <2>2, <3>1, <4>2, <4>3
    <3>2. CASE ~(b[j] < b[i])
      BY <1>2, <2>2, <3>2 DEF Exchange
    <3> QED
      BY <3>1, <3>2
  <2> HIDE DEF c
  <2>4. ASSUME NEW p \in Place, NEW q \in Place, p < i, p < q PROVE c[p] <= c[q]
    <3>1. p # i /\ p # j /\ p < j
      BY <1>0, <1>2, <2>4
    <3>2. c[p] = b[p] /\ b[p] <= b[q] /\ b[p] <= b[i] /\ b[p] <= b[j]
      BY <1>2, <2>2, <2>3, <2>4, <3>1
    <3> QED
      BY <2>3, <3>2
  <2>5. ASSUME NEW q \in Place, i < q, q < j + 1 PROVE c[i] <= c[q]
    <3>1. CASE q = j
      BY <2>3, <3>1
    <3>2. CASE q # j
      <4>1. q < j /\ q # i
        BY <1>0, <1>2, <2>5, <3>2
      <4>2. b[i] <= b[q] /\ c[q] = b[q]
        BY <1>2, <2>3, <2>5, <3>2, <4>1
      <4>3. b[i] \in Int /\ b[q] \in Int /\ c[i] \in Int /\ c[i] <= b[i]
        BY <1>2, <2>3
      <4> QED
        BY <4>2, <4>3
    <3> QED
      BY <3>1, <3>2
  <2>6. i < j + 1
    BY <1>0, <1>2, <2>2
  <2> QED
    BY <2>1, <2>4, <2>5, <2>6 DEF Ordered
<1> QED
  BY <1>3, <1>4

-----------------------------------------------------------------------------
InOrder(b) == \A p, q \in Place : p < q => b[p] <= b[q]

\* What the loops have done when they started from l.
Sorts(l) ==
    /\ Sort[l] \in [Place -> Int]
    /\ Rearranges(Sort[l], l.buf)
    /\ Ordered(l) => InOrder(Sort[l])

LEMMA SortSorts == \A l \in Loop : Sorts(l)
<1> DEFINE T == { n \in Nat : \A l \in Loop : Rank(l) < n => Sorts(l) }
<1>1. 0 \in T
  BY RankType
<1>2. ASSUME NEW n \in T PROVE n + 1 \in T
  <2> SUFFICES ASSUME NEW l \in Loop, Rank(l) < n + 1 PROVE Sorts(l)
    OBVIOUS
  <2>1. CASE Goes(l)
    <3>1. Onward(l) \in Loop /\ Rank(Onward(l)) < n
      BY <2>1, OnwardType
    <3>2. Sorts(Onward(l)) /\ Sort[l] = Sort[Onward(l)]
      BY <2>1, <3>1, SortStep
    <3>3. Rearranges(Sort[l], l.buf)
      BY <2>1, <3>2, OnwardRearranges, RearrangesTwice DEF Sorts
    <3> QED
      BY <2>1, <3>2, <3>3, OnwardOrdered DEF Sorts
  <2>2. CASE ~Goes(l)
    <3>1. Sort[l] = l.buf /\ l.buf \in [Place -> Int]
      BY <2>2, SortStep DEF Loop
    <3>2. Ordered(l) => InOrder(l.buf)
      BY <2>2, <3>1, WindowFacts DEF Ordered, InOrder, Goes, Place, Loop
    <3> QED
      BY <3>1, <3>2, RearrangesItself DEF Sorts
  <2> QED
    BY <2>1, <2>2
<1>3. T = Nat
  <2> HIDE DEF T
  <2>1. T \in SUBSET Nat
    BY DEF T
  <2> QED
    BY <1>1, <1>2, <2>1, SetInduction
<1>4. \A l \in Loop : Rank(l) < Rank(l) + 1 /\ Rank(l) + 1 \in Nat
  BY RankType
<1> QED
  BY <1>3, <1>4

-----------------------------------------------------------------------------
(* What a median is does not depend on the places.                         *)

LEMMA CountsKept ==
    ASSUME NEW b, NEW c, Rearranges(c, b), IsFiniteSet(DOMAIN c), NEW V
    PROVE  Cardinality({ p \in DOMAIN b : b[p] \in V }) = Cardinality({ p \in DOMAIN c : c[p] \in V })
<1> DEFINE R == { p \in DOMAIN c : c[p] \in V }
           S == { p \in DOMAIN b : b[p] \in V }
<1>1. PICK f \in Bijection(DOMAIN c, DOMAIN b) : \A p \in DOMAIN c : c[p] = b[f[p]]
  BY DEF Rearranges
<1>2. /\ f \in [DOMAIN c -> DOMAIN b]
      /\ \A p, q \in DOMAIN c : f[p] = f[q] => p = q
      /\ \A q \in DOMAIN b : \E p \in DOMAIN c : f[p] = q
  BY DEF Bijection, Injection, Surjection, IsInjective
<1> DEFINE g == [p \in R |-> f[p]]
<1>3. g \in [R -> S] /\ \A p, q \in R : g[p] = g[q] => p = q
  BY <1>1, <1>2
<1>4. \A q \in S : \E p \in R : g[p] = q
  <2> SUFFICES ASSUME NEW q \in S PROVE \E p \in R : g[p] = q
    OBVIOUS
  <2>1. PICK p \in DOMAIN c : f[p] = q
    BY <1>2
  <2>2. p \in R
    BY <1>1, <2>1
  <2> QED
    BY <2>1, <2>2
<1>5. IsFiniteSet(R)
  BY FS_Subset
<1> HIDE DEF R, S, g
<1>6. g \in Bijection(R, S)
  BY <1>3, <1>4 DEF Bijection, Injection, Surjection, IsInjective
<1>7. ExistsBijection(R, S)
  BY <1>6 DEF ExistsBijection
<1>8. Cardinality(S) = Cardinality(R)
  BY <1>5, <1>7, FS_Bijection
<1> QED
  BY <1>8 DEF R, S

LEMMA MedianRearranged ==
    ASSUME NEW m \in Int, NEW b, NEW c, Rearranges(c, b), IsFiniteSet(DOMAIN c),
           \A p \in DOMAIN b : b[p] \in Int
    PROVE  IsMedian(m, c) <=> IsMedian(m, b)
<1> DEFINE Less == { v \in Int : v < m }
           More == { v \in Int : v > m }
<1>1. PICK f \in Bijection(DOMAIN c, DOMAIN b) : \A p \in DOMAIN c : c[p] = b[f[p]]
  BY DEF Rearranges
<1>2. /\ \A p \in DOMAIN c : f[p] \in DOMAIN b /\ c[p] \in Int
      /\ \A q \in DOMAIN b : \E p \in DOMAIN c : f[p] = q
  BY <1>1 DEF Bijection, Injection, Surjection
<1>3. (\E p \in DOMAIN b : b[p] = m) <=> (\E p \in DOMAIN c : c[p] = m)
  BY <1>1, <1>2
<1>4. /\ { p \in DOMAIN b : b[p] < m } = { p \in DOMAIN b : b[p] \in Less }
      /\ { p \in DOMAIN c : c[p] < m } = { p \in DOMAIN c : c[p] \in Less }
      /\ { p \in DOMAIN b : b[p] > m } = { p \in DOMAIN b : b[p] \in More }
      /\ { p \in DOMAIN c : c[p] > m } = { p \in DOMAIN c : c[p] \in More }
  BY <1>2
<1> HIDE DEF Less, More
<1>5. \A V : Cardinality({ p \in DOMAIN b : b[p] \in V }) = Cardinality({ p \in DOMAIN c : c[p] \in V })
  BY CountsKept
<1> QED
  BY <1>3, <1>4, <1>5 DEF IsMedian

(* The place in the middle of a sorted window has a median.                *)
LEMMA MiddleIsMedian ==
    ASSUME NEW b \in [Place -> Int], InOrder(b)
    PROVE  IsMedian(b[Half], b)
<1> DEFINE Less == { p \in DOMAIN b : b[p] < b[Half] }
           More == { p \in DOMAIN b : b[p] > b[Half] }
<1>0. Half \in Nat /\ Window = 2 * Half + 1 /\ Half \in Place /\ DOMAIN b = Place
  BY WindowFacts DEF Place
<1>1. Less \subseteq 0..(Half - 1)
  <2> SUFFICES ASSUME NEW p \in Place, b[p] < b[Half] PROVE p \in 0..(Half - 1)
    BY <1>0
  <2>1. ~(Half < p) /\ p # Half
    BY <1>0 DEF InOrder
  <2> QED
    BY <1>0, <2>1 DEF Place
<1>2. More \subseteq (Half + 1)..(Window - 1)
  <2> SUFFICES ASSUME NEW p \in Place, b[p] > b[Half] PROVE p \in (Half + 1)..(Window - 1)
    BY <1>0
  <2>1. ~(p < Half) /\ p # Half
    BY <1>0 DEF InOrder
  <2> QED
    BY <1>0, <2>1 DEF Place
<1>3. /\ IsFiniteSet(0..(Half - 1)) /\ Cardinality(0..(Half - 1)) = Half
      /\ IsFiniteSet((Half + 1)..(Window - 1)) /\ Cardinality((Half + 1)..(Window - 1)) = Half
  <2>1. ASSUME NEW a \in Int, NEW d \in Int, d - a + 1 = Half
        PROVE  IsFiniteSet(a..d) /\ Cardinality(a..d) = Half
    <3>1. IsFiniteSet(a..d) /\ Cardinality(a..d) = IF a > d THEN 0 ELSE d - a + 1
      BY FS_Interval
    <3> QED
      BY <1>0, <2>1, <3>1
  <2> QED
    BY <1>0, <2>1
<1>4. Cardinality(Less) <= Half /\ Cardinality(More) <= Half
  <2> HIDE DEF Less, More
  <2>1. Cardinality(Less) <= Half
    BY <1>1, <1>3, FS_Subset
  <2>2. Cardinality(More) <= Half
    BY <1>2, <1>3, FS_Subset
  <2> QED
    BY <2>1, <2>2
<1> QED
  BY <1>0, <1>4 DEF IsMedian

(* median_of_5 returns a median of its buffer, whatever is in it.          *)
THEOREM MedianIsMedian ==
    ASSUME NEW buf \in [Place -> Int]
    PROVE  MedianOf(buf) \in Int /\ IsMedian(MedianOf(buf), buf)
<1> DEFINE l == [buf |-> buf, i |-> 0, j |-> 1]
<1>1. l \in Loop /\ Ordered(l) /\ l.buf = buf
  BY WindowFacts DEF Loop, Ordered, Place
<1> HIDE DEF l
<1>2. /\ Sort[l] \in [Place -> Int] /\ Rearranges(Sort[l], buf) /\ InOrder(Sort[l])
  BY <1>1, SortSorts DEF Sorts
<1>3. MedianOf(buf) = Sort[l][Half]
  BY DEF MedianOf, l
<1>4. IsMedian(Sort[l][Half], Sort[l]) /\ Sort[l][Half] \in Int
  BY <1>2, MiddleIsMedian, WindowFacts
<1>5. IsFiniteSet(DOMAIN Sort[l])
  BY <1>2, FS_Interval, WindowFacts DEF Place
<1>6. \A p \in DOMAIN buf : buf[p] \in Int
  OBVIOUS
<1> QED
  BY <1>2, <1>3, <1>4, <1>5, <1>6, MedianRearranged
=============================================================================
