-------------------------- MODULE AvlShape_proofs --------------------------
(***************************************************************************)
(* What the loops of AvlTree compute, for every set of nodes: the trees a  *)
(* heap holds, what a rotation and the way back to the root make of them,  *)
(* and where the way down to a key leads.                                  *)
(***************************************************************************)
EXTENDS AvlTree, FiniteSetTheorems, WellFoundedInduction, TLAPS

-----------------------------------------------------------------------------
(* Induction and iteration. *)

\* Every set of natural numbers that is not empty has a least member.
LEMMA LeastExists ==
  ASSUME NEW T, T \subseteq Nat, T # {}
  PROVE  \E m \in T : \A n \in T : m <= n
<1> DEFINE R == {ss \in Nat \X Nat : ss[1] < ss[2]}
<1>1. IsWellFoundedOn(R, Nat)
  BY NatLessThanWellFounded, Zenon DEF OpToRel
<1>2. \A x, y \in Nat : x < y => <<x, y>> \in R
  BY SMT
<1> HIDE DEF R
<1>3. PICK m \in T : \A n \in T : ~ (<<n, m>> \in R)
  BY <1>1, WFMin
<1>4. ASSUME NEW n \in T PROVE m <= n
  <2>1. ~ (n < m)
    BY <1>2, <1>3
  <2>2. QED
    BY <2>1, SMT
<1>5. QED
  BY <1>4

\* Induction, for a set of natural numbers.
LEMMA Induction ==
  ASSUME NEW T, 0 \in T, \A n \in Nat : n \in T => n + 1 \in T
  PROVE  \A n \in Nat : n \in T
<1> DEFINE B == {n \in Nat : n \notin T}
<1>1. SUFFICES ASSUME B # {} PROVE FALSE
  OBVIOUS
<1>2. PICK m \in B : \A n \in B : m <= n
  BY <1>1, LeastExists, B \subseteq Nat
<1>3. m # 0
  BY <1>2
<1>4. m - 1 \in Nat /\ m - 1 \notin B
  BY <1>2, <1>3, SMT
<1>5. (m - 1) + 1 = m
  BY <1>2, SMT
<1>6. m \in T
  BY <1>4, <1>5
<1>7. QED
  BY <1>2, <1>6

LEMMA StrongInduction ==
  ASSUME NEW T, \A n \in Nat : (\A m \in Nat : m < n => m \in T) => n \in T
  PROVE  \A n \in Nat : n \in T
<1> DEFINE B == {n \in Nat : n \notin T}
<1>1. SUFFICES ASSUME B # {} PROVE FALSE
  OBVIOUS
<1>2. PICK m \in B : \A n \in B : m <= n
  BY <1>1, LeastExists, B \subseteq Nat
<1>3. ASSUME NEW n \in Nat, n < m PROVE n \in T
  <2>1. n \notin B
    BY <1>2, <1>3, SMT
  <2>2. QED
    BY <2>1
<1>4. QED
  BY <1>2, <1>3

\* Induction downwards from top.
LEMMA InductionDown ==
  ASSUME NEW top \in Nat, NEW T, top \in T,
         \A i \in 1..top : i \in T /\ i > 1 => i - 1 \in T
  PROVE  \A i \in 1..top : i \in T
<1> DEFINE B == {n \in Nat : n < top /\ top - n \notin T}
<1>1. SUFFICES ASSUME NEW i \in 1..top, i \notin T PROVE FALSE
  OBVIOUS
<1>2. top - i \in B
  <2>1. top - i \in Nat /\ top - i < top /\ top - (top - i) = i
    BY SMT
  <2>2. QED
    BY <2>1, <1>1
<1>3. PICK m \in B : \A n \in B : m <= n
  BY <1>2, LeastExists, B \subseteq Nat
<1>4. m # 0
  <2>1. top - 0 = top
    BY SMT
  <2>2. QED
    BY <1>3, <2>1
<1>5. m - 1 \in Nat /\ m - 1 < top /\ m - 1 \notin B
  BY <1>3, <1>4, SMT
<1>6. top - (m - 1) \in T
  BY <1>5
<1>7. top - (m - 1) \in 1..top /\ top - (m - 1) > 1 /\ (top - (m - 1)) - 1 = top - m
  BY <1>3, <1>5, SMT
<1>8. top - m \in T
  BY <1>6, <1>7
<1>9. QED
  BY <1>3, <1>8

\* What a loop that runs n times does.
IsIterated(g, body, x, n) == g = [i \in 0..n |-> IF i = 0 THEN x ELSE body[g[i - 1]]]

LEMMA IterationExists ==
  ASSUME NEW body, NEW x, NEW n \in Nat
  PROVE  \E g : IsIterated(g, body, x, n)
<1> DEFINE T == {i \in Nat : \E g : IsIterated(g, body, x, i)}
<1>1. 0 \in T
  <2> DEFINE g == [i \in 0..0 |-> x]
  <2>1. \A i \in 0..0 : i = 0
    OBVIOUS
  <2>2. g = [i \in 0..0 |-> IF i = 0 THEN x ELSE body[g[i - 1]]]
    BY <2>1
  <2> HIDE DEF g
  <2>3. IsIterated(g, body, x, 0)
    BY <2>2 DEF IsIterated
  <2>4. QED
    BY <2>3
<1>2. ASSUME NEW m \in Nat, m \in T PROVE m + 1 \in T
  <2>1. PICK f : IsIterated(f, body, x, m)
    BY <1>2
  <2> DEFINE g == [i \in 0..(m + 1) |-> IF i = m + 1 THEN body[f[m]] ELSE f[i]]
             r == [i \in 0..(m + 1) |-> IF i = 0 THEN x ELSE body[g[i - 1]]]
  <2>2. \A i \in 0..m : f[i] = IF i = 0 THEN x ELSE body[f[i - 1]]
    BY <2>1 DEF IsIterated
  <2>3. \A i \in 0..m : i \in 0..(m + 1) /\ i # m + 1
    BY SMT
  <2>4. m + 1 \in 0..(m + 1) /\ m + 1 # 0 /\ (m + 1) - 1 = m /\ m \in 0..m
    BY SMT
  <2>5. g[m + 1] = body[f[m]] /\ \A i \in 0..m : g[i] = f[i]
    BY <2>3, <2>4
  <2>6. \A i \in 0..(m + 1) : r[i] = IF i = 0 THEN x ELSE body[g[i - 1]]
    OBVIOUS
  <2>7. g = [i \in 0..(m + 1) |-> g[i]] /\ r = [i \in 0..(m + 1) |-> r[i]]
    OBVIOUS
  <2> HIDE DEF g, r
  <2>8. ASSUME NEW i \in 0..(m + 1) PROVE g[i] = r[i]
    <3>1. CASE i = m + 1
      <4>1. r[i] = body[g[m]]
        BY <3>1, <2>4, <2>6
      <4>2. QED
        BY <4>1, <3>1, <2>4, <2>5
    <3>2. CASE i # m + 1 /\ i # 0
      <4>1. i \in 0..m /\ i - 1 \in 0..m
        BY <3>2, SMT
      <4>2. g[i] = body[f[i - 1]] /\ g[i - 1] = f[i - 1]
        BY <4>1, <3>2, <2>2, <2>5
      <4>3. r[i] = body[g[i - 1]]
        BY <3>2, <2>6
      <4>4. QED
        BY <4>2, <4>3
    <3>3. CASE i = 0
      <4>1. 0 \in 0..m
        BY SMT
      <4>2. g[0] = x
        BY <4>1, <2>2, <2>5
      <4>3. QED
        BY <4>2, <3>3, <2>6
    <3>4. QED
      BY <3>1, <3>2, <3>3
  <2>9. g = r
    BY <2>7, <2>8
  <2>10. IsIterated(g, body, x, m + 1)
    BY <2>9 DEF IsIterated, r
  <2>11. QED
    BY <2>10
<1> HIDE DEF T
<1>3. \A i \in Nat : i \in T
  BY <1>1, <1>2, Induction
<1>4. n \in T
  BY <1>3
<1>5. QED
  BY <1>4 DEF T

LEMMA IteratedIs ==
  ASSUME NEW body, NEW x, NEW n \in Nat
  PROVE  \E g : IsIterated(g, body, x, n) /\ Iterated(body, x, n) = g[n]
<1> DEFINE after == CHOOSE g : IsIterated(g, body, x, n)
<1>1. Iterated(body, x, n) = after[n]
  BY Zenon DEF Iterated, IsIterated
<1>2. IsIterated(after, body, x, n)
  BY IterationExists, Zenon
<1>3. QED
  BY <1>1, <1>2, Zenon

\* The step by step description of a loop.
LEMMA Iteration ==
  ASSUME NEW body, NEW x
  PROVE  /\ Iterated(body, x, 0) = x
         /\ \A n \in Nat : Iterated(body, x, n + 1) = body[Iterated(body, x, n)]
<1>1. Iterated(body, x, 0) = x
  <2>1. PICK g : IsIterated(g, body, x, 0) /\ Iterated(body, x, 0) = g[0]
    BY IteratedIs
  <2>2. 0 \in 0..0
    OBVIOUS
  <2>3. g[0] = x
    BY <2>1, <2>2 DEF IsIterated
  <2>4. QED
    BY <2>1, <2>3
<1>2. ASSUME NEW n \in Nat
      PROVE  Iterated(body, x, n + 1) = body[Iterated(body, x, n)]
  <2>1. PICK f : IsIterated(f, body, x, n) /\ Iterated(body, x, n) = f[n]
    BY IteratedIs
  <2>2. PICK g : IsIterated(g, body, x, n + 1) /\ Iterated(body, x, n + 1) = g[n + 1]
    BY IteratedIs, n + 1 \in Nat
  <2>3. \A i \in 0..n : f[i] = IF i = 0 THEN x ELSE body[f[i - 1]]
    BY <2>1 DEF IsIterated
  <2>4. \A i \in 0..(n + 1) : g[i] = IF i = 0 THEN x ELSE body[g[i - 1]]
    BY <2>2 DEF IsIterated
  <2> DEFINE T == {i \in Nat : i <= n => f[i] = g[i]}
  <2>5. 0 \in T
    <3>1. 0 \in 0..n /\ 0 \in 0..(n + 1)
      BY SMT
    <3>2. f[0] = x /\ g[0] = x
      BY <3>1, <2>3, <2>4
    <3>3. QED
      BY <3>2
  <2>6. ASSUME NEW i \in Nat, i \in T PROVE i + 1 \in T
    <3>1. CASE i + 1 <= n
      <4>1. i <= n /\ i + 1 \in 0..n /\ i + 1 \in 0..(n + 1) /\ i + 1 # 0 /\ (i + 1) - 1 = i
        BY <3>1, SMT
      <4>2. f[i + 1] = body[f[i]] /\ g[i + 1] = body[g[i]]
        BY <4>1, <2>3, <2>4
      <4>3. QED
        BY <4>1, <4>2, <2>6
    <3>2. CASE ~ (i + 1 <= n)
      BY <3>2, i + 1 \in Nat
    <3>3. QED
      BY <3>1, <3>2
  <2> HIDE DEF T
  <2>7. \A i \in Nat : i \in T
    BY <2>5, <2>6, Induction
  <2>8. f[n] = g[n]
    BY <2>7, n <= n DEF T
  <2>9. g[n + 1] = body[g[n]]
    <3>1. n + 1 \in 0..(n + 1) /\ n + 1 # 0 /\ (n + 1) - 1 = n
      BY SMT
    <3>2. QED
      BY <3>1, <2>4
  <2>10. QED
    BY <2>1, <2>2, <2>8, <2>9
<1>3. QED
  BY <1>1, <1>2
-----------------------------------------------------------------------------
(* AVL trees in a heap. *)

NodesOrNull == Nodes \cup {Null}

LEMMA Directions ==
  /\ Dirs = {0, 1} /\ LEFT = 0 /\ RIGHT = 1 /\ BALANCED = -1
  /\ \A d \in Dirs : 1 - d \in Dirs /\ 1 - (1 - d) = d /\ 1 - d # d
                     /\ d # BALANCED /\ d \in Int
  /\ \A d, e \in Dirs : e = d \/ e = 1 - d
BY SMT DEF Dirs, LEFT, RIGHT, BALANCED

LEMMA KeyType ==
  /\ \A n \in Nodes : Key(n) \in Int
  /\ \A n \in Nodes : Key(n) \in Keys
BY NodesAssumption DEF Key, Keys

LEMMA HeapType ==
  ASSUME NEW h \in Heaps
  PROVE  /\ h.root \in NodesOrNull
         /\ \A n \in Nodes, d \in Dirs : h.child[n][d] \in NodesOrNull
         /\ \A n \in Nodes : h.state[n] \in {LEFT, RIGHT, BALANCED}
BY DEF Heaps, NodesOrNull

LEMMA NullIsNoNode == Null \notin Nodes /\ \A n \in NodesOrNull : n # Null => n \in Nodes
BY NodesAssumption DEF NodesOrNull

\* x belongs to side d of n.
OnSide(d, x, n) == IF d = LEFT THEN Key(x) < Key(n) ELSE Key(x) > Key(n)

\* What m_nState says about the heights of side d and the other.
Weighs(st, d, kd, ko) ==
  \/ st = BALANCED /\ kd = ko
  \/ st = d /\ kd = ko + 1
  \/ st = 1 - d /\ ko = kd + 1

Higher(kd, ko) == IF kd >= ko THEN kd ELSE ko

\* A tree is its root with the set of its nodes.  n is the root of S with one
\* side among the higher trees and the other as m_nState says.
Trees == NodesOrNull \X (SUBSET Nodes)

Joins(h, n, S, high, low) ==
  \E L, R \in SUBSET Nodes :
    /\ S = L \cup {n} \cup R
    /\ \A x \in L : OnSide(LEFT, x, n)
    /\ \A x \in R : OnSide(RIGHT, x, n)
    /\ \/ /\ h.state[n] = BALANCED
          /\ <<h.child[n][LEFT], L>> \in high /\ <<h.child[n][RIGHT], R>> \in high
       \/ /\ h.state[n] = LEFT
          /\ <<h.child[n][LEFT], L>> \in high /\ <<h.child[n][RIGHT], R>> \in low
       \/ /\ h.state[n] = RIGHT
          /\ <<h.child[n][LEFT], L>> \in low /\ <<h.child[n][RIGHT], R>> \in high

Joined(h, high, low) == {t \in Trees : t[1] \in Nodes /\ Joins(h, t[1], t[2], high, low)}

\* The AVL trees of height k in the heap, and those of height k - 1.
NextHeight(h) ==
  [p \in (SUBSET Trees) \X (SUBSET Trees) |-> <<Joined(h, p[1], p[2]), p[1]>>]
OfHeight(h, k) == Iterated(NextHeight(h), <<{<<Null, {}>>}, {}>>, k)

\* n is the root of an AVL tree of the nodes S, of height k.
Avl(h, n, S, k) == <<n, S>> \in OfHeight(h, k)[1]

LEMMA Heights ==
  ASSUME NEW h
  PROVE  /\ OfHeight(h, 0)[1] = {<<Null, {}>>} /\ OfHeight(h, 0)[2] = {}
         /\ \A k \in Nat :
              /\ OfHeight(h, k) \in (SUBSET Trees) \X (SUBSET Trees)
              /\ OfHeight(h, k + 1)[1] = Joined(h, OfHeight(h, k)[1], OfHeight(h, k)[2])
              /\ OfHeight(h, k + 1)[2] = OfHeight(h, k)[1]
<1> DEFINE start == <<{<<Null, {}>>}, {}>>
           f == NextHeight(h)
           P == (SUBSET Trees) \X (SUBSET Trees)
<1>1. OfHeight(h, 0) = start /\ \A k \in Nat : OfHeight(h, k + 1) = f[OfHeight(h, k)]
  BY Iteration, Zenon DEF OfHeight
<1>2. \A p \in P : f[p] = <<Joined(h, p[1], p[2]), p[1]>>
  BY DEF NextHeight
<1>3. \A p \in P : f[p] \in P
  BY <1>2 DEF Joined
<1>4. start \in P
  BY DEF Trees, NodesOrNull
<1> DEFINE T == {k \in Nat : OfHeight(h, k) \in P}
<1>5. 0 \in T
  BY <1>1, <1>4
<1>6. ASSUME NEW k \in Nat, k \in T PROVE k + 1 \in T
  BY <1>6, <1>1, <1>3
<1> HIDE DEF T
<1>7. \A k \in Nat : k \in T
  BY <1>5, <1>6, Induction
<1>8. \A k \in Nat : OfHeight(h, k) \in P
  BY <1>7 DEF T
<1> HIDE DEF f
<1>9. ASSUME NEW k \in Nat
      PROVE  /\ OfHeight(h, k + 1)[1] = Joined(h, OfHeight(h, k)[1], OfHeight(h, k)[2])
             /\ OfHeight(h, k + 1)[2] = OfHeight(h, k)[1]
  <2>1. OfHeight(h, k + 1) = <<Joined(h, OfHeight(h, k)[1], OfHeight(h, k)[2]), OfHeight(h, k)[1]>>
    BY <1>1, <1>2, <1>8
  <2>2. QED
    BY <2>1
<1>10. OfHeight(h, 0)[1] = {<<Null, {}>>} /\ OfHeight(h, 0)[2] = {}
  BY <1>1
<1>11. QED
  BY <1>8, <1>9, <1>10

\* The empty tree.
LEMMA AvlEmpty ==
  ASSUME NEW h, NEW n, NEW S
  PROVE  Avl(h, n, S, 0) <=> n = Null /\ S = {}
<1>1. Avl(h, n, S, 0) <=> <<n, S>> \in {<<Null, {}>>}
  BY Heights, Zenon DEF Avl
<1>2. QED
  BY <1>1

LEMMA AvlType ==
  ASSUME NEW h, NEW n, NEW S, NEW k \in Nat, Avl(h, n, S, k)
  PROVE  /\ S \in SUBSET Nodes /\ n \in NodesOrNull
         /\ n = Null <=> k = 0
         /\ n = Null => S = {}
         /\ n # Null => n \in S
<1>1. CASE k = 0
  <2>1. n = Null /\ S = {}
    BY <1>1, AvlEmpty
  <2>2. QED
    BY <2>1, <1>1 DEF NodesOrNull
<1>2. CASE k # 0
  <2>1. k - 1 \in Nat /\ (k - 1) + 1 = k
    BY <1>2, SMT
  <2>2. <<n, S>> \in Joined(h, OfHeight(h, k - 1)[1], OfHeight(h, k - 1)[2])
    BY <2>1, Heights DEF Avl
  <2>3. n \in Nodes /\ S \in SUBSET Nodes /\ n \in S
    BY <2>2 DEF Joined, Joins, Trees
  <2>4. n # Null
    BY <2>3, NullIsNoNode
  <2>5. QED
    BY <2>3, <2>4, <1>2 DEF NodesOrNull
<1>3. QED
  BY <1>1, <1>2

\* n with its two sides: side d first.
Splits(h, n, S, k, d, D, O, kd, ko) ==
  /\ Avl(h, h.child[n][d], D, kd)
  /\ Avl(h, h.child[n][1 - d], O, ko)
  /\ S = D \cup {n} \cup O
  /\ \A x \in D : OnSide(d, x, n)
  /\ \A x \in O : OnSide(1 - d, x, n)
  /\ Weighs(h.state[n], d, kd, ko)
  /\ k = 1 + Higher(kd, ko)

LEMMA SplitsOtherWay ==
  ASSUME NEW h, NEW n, NEW S, NEW k, NEW d \in Dirs, NEW D, NEW O, NEW kd \in Nat,
         NEW ko \in Nat, Splits(h, n, S, k, d, D, O, kd, ko)
  PROVE  Splits(h, n, S, k, 1 - d, O, D, ko, kd)
<1>1. 1 - d \in Dirs /\ 1 - (1 - d) = d
  BY Directions
<1>2. Weighs(h.state[n], 1 - d, ko, kd)
  BY <1>1, SMT DEF Splits, Weighs
<1>3. Higher(ko, kd) = Higher(kd, ko)
  BY SMT DEF Higher
<1>4. QED
  BY <1>1, <1>2, <1>3, Zenon DEF Splits

\* One heap's trees of height k from the two sides.
LEMMA AvlFoldLeft ==
  ASSUME NEW h, NEW n \in Nodes, NEW S, NEW k \in Nat, NEW D, NEW O,
         NEW kd \in Nat, NEW ko \in Nat,
         Splits(h, n, S, k, LEFT, D, O, kd, ko)
  PROVE  Avl(h, n, S, k)
<1> DEFINE m == k - 1
<1>0. RIGHT = 1 - LEFT
  BY SMT DEF LEFT, RIGHT
<1>1. m \in Nat /\ m + 1 = k
  BY SMT DEF Splits, Higher
<1>2. D \in SUBSET Nodes /\ O \in SUBSET Nodes
  BY AvlType DEF Splits
<1>3. S = D \cup {n} \cup O /\ S \in SUBSET Nodes
  BY <1>2 DEF Splits
<1>4. OfHeight(h, k)[1] = Joined(h, OfHeight(h, m)[1], OfHeight(h, m)[2])
  BY <1>1, Heights
<1>5. \A j \in Nat : j + 1 = m => OfHeight(h, m)[2] = OfHeight(h, j)[1]
  BY <1>1, Heights
<1> DEFINE l == <<h.child[n][LEFT], D>>
           r == <<h.child[n][RIGHT], O>>
<1>6. l \in OfHeight(h, kd)[1] /\ r \in OfHeight(h, ko)[1]
  BY <1>0 DEF Splits, Avl
<1>7. \/ h.state[n] = BALANCED /\ kd = m /\ ko = m
      \/ h.state[n] = LEFT /\ kd = m /\ ko + 1 = m
      \/ h.state[n] = RIGHT /\ ko = m /\ kd + 1 = m
  <2>1. Weighs(h.state[n], LEFT, kd, ko) /\ k = 1 + Higher(kd, ko)
    BY DEF Splits
  <2>2. QED
    BY <1>0, <2>1, SMT DEF Weighs, Higher
<1> HIDE DEF m, l, r
<1>8. \/ h.state[n] = BALANCED /\ l \in OfHeight(h, m)[1] /\ r \in OfHeight(h, m)[1]
      \/ h.state[n] = LEFT /\ l \in OfHeight(h, m)[1] /\ r \in OfHeight(h, m)[2]
      \/ h.state[n] = RIGHT /\ l \in OfHeight(h, m)[2] /\ r \in OfHeight(h, m)[1]
  BY <1>5, <1>6, <1>7, Zenon
<1>9. (\A x \in D : OnSide(LEFT, x, n)) /\ \A x \in O : OnSide(RIGHT, x, n)
  BY <1>0 DEF Splits
<1>10. Joins(h, n, S, OfHeight(h, m)[1], OfHeight(h, m)[2])
  BY <1>2, <1>3, <1>8, <1>9, Zenon DEF Joins, l, r
<1>11. <<n, S>> \in Trees
  BY <1>3 DEF Trees, NodesOrNull
<1>12. <<n, S>> \in Joined(h, OfHeight(h, m)[1], OfHeight(h, m)[2])
  BY <1>10, <1>11 DEF Joined
<1>13. QED
  BY <1>4, <1>12 DEF Avl

LEMMA AvlFold ==
  ASSUME NEW h, NEW n \in Nodes, NEW S, NEW k \in Nat, NEW d \in Dirs, NEW D, NEW O,
         NEW kd \in Nat, NEW ko \in Nat,
         Splits(h, n, S, k, d, D, O, kd, ko)
  PROVE  Avl(h, n, S, k)
<1>1. CASE d = LEFT
  BY <1>1, AvlFoldLeft
<1>2. CASE d # LEFT
  <2>1. 1 - d = LEFT
    BY <1>2, Directions
  <2>2. Splits(h, n, S, k, LEFT, O, D, ko, kd)
    BY <2>1, SplitsOtherWay
  <2>3. QED
    BY <2>2, AvlFoldLeft
<1>3. QED
  BY <1>1, <1>2

LEMMA AvlUnfoldLeft ==
  ASSUME NEW h, NEW n, NEW S, NEW k \in Nat, Avl(h, n, S, k), n # Null
  PROVE  \E D, O \in SUBSET Nodes : \E kd, ko \in Nat :
            Splits(h, n, S, k, LEFT, D, O, kd, ko)
<1> DEFINE m == k - 1
<1>0. RIGHT = 1 - LEFT
  BY SMT DEF LEFT, RIGHT
<1>1. m \in Nat /\ m + 1 = k /\ k = 1 + m
  <2>1. k # 0
    BY AvlType
  <2>2. QED
    BY <2>1, SMT
<1>2. <<n, S>> \in Joined(h, OfHeight(h, m)[1], OfHeight(h, m)[2])
  BY <1>1, Heights DEF Avl
<1> HIDE DEF m
<1>3. Joins(h, n, S, OfHeight(h, m)[1], OfHeight(h, m)[2])
  BY <1>2 DEF Joined
<1>4. PICK D \in SUBSET Nodes, O \in SUBSET Nodes :
        /\ S = D \cup {n} \cup O
        /\ \A x \in D : OnSide(LEFT, x, n)
        /\ \A x \in O : OnSide(RIGHT, x, n)
        /\ \/ /\ h.state[n] = BALANCED
              /\ <<h.child[n][LEFT], D>> \in OfHeight(h, m)[1] /\ <<h.child[n][RIGHT], O>> \in OfHeight(h, m)[1]
           \/ /\ h.state[n] = LEFT
              /\ <<h.child[n][LEFT], D>> \in OfHeight(h, m)[1] /\ <<h.child[n][RIGHT], O>> \in OfHeight(h, m)[2]
           \/ /\ h.state[n] = RIGHT
              /\ <<h.child[n][LEFT], D>> \in OfHeight(h, m)[2] /\ <<h.child[n][RIGHT], O>> \in OfHeight(h, m)[1]
  BY <1>3, Zenon DEF Joins
<1>5. ASSUME NEW t, t \in OfHeight(h, m)[2]
      PROVE  \E j \in Nat : j + 1 = m /\ t \in OfHeight(h, j)[1]
  <2>1. m # 0
    BY <1>5, Heights
  <2>2. m - 1 \in Nat /\ (m - 1) + 1 = m
    BY <1>1, <2>1, SMT
  <2>3. OfHeight(h, m)[2] = OfHeight(h, m - 1)[1]
    BY <2>2, Heights
  <2>4. QED
    BY <2>2, <2>3, <1>5
<1>6. CASE h.state[n] = BALANCED /\ Avl(h, h.child[n][LEFT], D, m) /\ Avl(h, h.child[n][RIGHT], O, m)
  <2>1. Weighs(h.state[n], LEFT, m, m) /\ Higher(m, m) = m
    BY <1>6, <1>1 DEF Weighs, Higher
  <2>2. Splits(h, n, S, k, LEFT, D, O, m, m)
    BY <1>0, <1>1, <1>4, <1>6, <2>1, Zenon DEF Splits
  <2>3. QED
    BY <2>2, <1>1
<1>7. CASE h.state[n] = LEFT /\ Avl(h, h.child[n][LEFT], D, m) /\ <<h.child[n][RIGHT], O>> \in OfHeight(h, m)[2]
  <2>1. PICK j \in Nat : j + 1 = m /\ <<h.child[n][RIGHT], O>> \in OfHeight(h, j)[1]
    BY <1>5, <1>7
  <2>2. Avl(h, h.child[n][RIGHT], O, j)
    BY <2>1 DEF Avl
  <2>3. Weighs(h.state[n], LEFT, m, j) /\ Higher(m, j) = m
    BY <2>1, <1>7, <1>1 DEF Weighs, Higher
  <2>4. Splits(h, n, S, k, LEFT, D, O, m, j)
    BY <1>0, <1>1, <1>4, <1>7, <2>2, <2>3, Zenon DEF Splits
  <2>5. QED
    BY <2>4, <1>1
<1>8. CASE h.state[n] = RIGHT /\ Avl(h, h.child[n][RIGHT], O, m) /\ <<h.child[n][LEFT], D>> \in OfHeight(h, m)[2]
  <2>1. PICK j \in Nat : j + 1 = m /\ <<h.child[n][LEFT], D>> \in OfHeight(h, j)[1]
    BY <1>5, <1>8
  <2>2. Avl(h, h.child[n][LEFT], D, j)
    BY <2>1 DEF Avl
  <2>3. Weighs(h.state[n], LEFT, j, m) /\ Higher(j, m) = m
    BY <2>1, <1>8, <1>1, <1>0 DEF Weighs, Higher
  <2>4. Splits(h, n, S, k, LEFT, D, O, j, m)
    BY <1>0, <1>1, <1>4, <1>8, <2>2, <2>3, Zenon DEF Splits
  <2>5. QED
    BY <2>4, <1>1
<1>9. QED
  BY <1>4, <1>6, <1>7, <1>8, Zenon DEF Avl

LEMMA AvlUnfold ==
  ASSUME NEW h, NEW n, NEW S, NEW k \in Nat, Avl(h, n, S, k), n # Null, NEW d \in Dirs
  PROVE  \E D, O \in SUBSET Nodes : \E kd, ko \in Nat :
            Splits(h, n, S, k, d, D, O, kd, ko)
<1>1. PICK D \in SUBSET Nodes, O \in SUBSET Nodes, kd \in Nat, ko \in Nat :
         Splits(h, n, S, k, LEFT, D, O, kd, ko)
  BY AvlUnfoldLeft
<1>2. CASE d = LEFT
  BY <1>1, <1>2
<1>3. CASE d # LEFT
  <2>1. d = 1 - LEFT /\ LEFT \in Dirs
    BY <1>3, Directions
  <2>2. Splits(h, n, S, k, d, O, D, ko, kd)
    BY <1>1, <2>1, SplitsOtherWay
  <2>3. QED
    BY <2>2
<1>4. QED
  BY <1>2, <1>3
-----------------------------------------------------------------------------
(* What every AVL tree is like. *)

\* What is not in the tree does not matter to it.
LEMMA Frame ==
  ASSUME NEW h, NEW g, NEW n, NEW S, NEW k \in Nat, Avl(h, n, S, k),
         \A x \in S : g.child[x] = h.child[x] /\ g.state[x] = h.state[x]
  PROVE  Avl(g, n, S, k)
<1> DEFINE Alike(X) == \A x \in X : g.child[x] = h.child[x] /\ g.state[x] = h.state[x]
           T == {j \in Nat : \A m, X : Avl(h, m, X, j) /\ Alike(X) => Avl(g, m, X, j)}
<1>1. ASSUME NEW j \in Nat, \A i \in Nat : i < j => i \in T
      PROVE  j \in T
  <2>1. SUFFICES ASSUME NEW m, NEW X, Avl(h, m, X, j), Alike(X)
                 PROVE  Avl(g, m, X, j)
    BY Zenon
  <2>2. CASE m = Null
    <3>1. j = 0 /\ X = {}
      BY <2>1, <2>2, AvlType
    <3>2. QED
      BY <3>1, <2>2, AvlEmpty
  <2>3. CASE m # Null
    <3>1. m \in Nodes /\ LEFT \in Dirs
      BY <2>1, <2>3, AvlType, NullIsNoNode, Directions
    <3>2. PICK D \in SUBSET Nodes, O \in SUBSET Nodes, kd \in Nat, ko \in Nat :
             Splits(h, m, X, j, LEFT, D, O, kd, ko)
      BY <2>1, <2>3, AvlUnfoldLeft
    <3>3. kd < j /\ ko < j
      BY <3>2, SMT DEF Splits, Higher
    <3>4. D \subseteq X /\ O \subseteq X /\ m \in X
      BY <3>2 DEF Splits
    <3>5. Alike(D) /\ Alike(O)
      BY <3>4, <2>1
    <3>6. Avl(g, h.child[m][LEFT], D, kd) /\ Avl(g, h.child[m][1 - LEFT], O, ko)
      BY <3>2, <3>3, <3>5, <1>1 DEF Splits
    <3>7. g.child[m] = h.child[m] /\ g.state[m] = h.state[m]
      BY <3>4, <2>1
    <3>8. Splits(g, m, X, j, LEFT, D, O, kd, ko)
      BY <3>2, <3>6, <3>7, Zenon DEF Splits
    <3>9. QED
      BY <3>1, <3>8, AvlFold
  <2>4. QED
    BY <2>2, <2>3
<1> HIDE DEF T
<1>2. \A j \in Nat : j \in T
  BY <1>1, StrongInduction
<1>3. QED
  BY <1>2 DEF T

\* A node roots one tree.
LEMMA AvlUnique ==
  ASSUME NEW h, NEW n, NEW S, NEW k \in Nat, Avl(h, n, S, k),
         NEW S2, NEW k2 \in Nat, Avl(h, n, S2, k2)
  PROVE  S = S2 /\ k = k2
<1> DEFINE T == {j \in Nat : \A m, X, Y : \A i \in Nat :
                    Avl(h, m, X, j) /\ Avl(h, m, Y, i) => X = Y /\ i = j}
<1>1. ASSUME NEW j \in Nat, \A i \in Nat : i < j => i \in T
      PROVE  j \in T
  <2>1. SUFFICES ASSUME NEW m, NEW X, NEW Y, NEW i \in Nat, Avl(h, m, X, j), Avl(h, m, Y, i)
                 PROVE  X = Y /\ i = j
    BY Zenon
  <2>2. CASE m = Null
    BY <2>1, <2>2, AvlType
  <2>3. CASE m # Null
    <3>1. PICK D \in SUBSET Nodes, O \in SUBSET Nodes, kd \in Nat, ko \in Nat :
             Splits(h, m, X, j, LEFT, D, O, kd, ko)
      BY <2>1, <2>3, AvlUnfoldLeft
    <3>2. PICK D2 \in SUBSET Nodes, O2 \in SUBSET Nodes, kd2 \in Nat, ko2 \in Nat :
             Splits(h, m, Y, i, LEFT, D2, O2, kd2, ko2)
      BY <2>1, <2>3, AvlUnfoldLeft
    <3>3. kd < j /\ ko < j
      BY <3>1, SMT DEF Splits, Higher
    <3>4. D = D2 /\ kd = kd2
      BY <3>1, <3>2, <3>3, <1>1 DEF Splits
    <3>5. O = O2 /\ ko = ko2
      BY <3>1, <3>2, <3>3, <1>1 DEF Splits
    <3>6. QED
      BY <3>1, <3>2, <3>4, <3>5 DEF Splits
  <2>4. QED
    BY <2>2, <2>3
<1> HIDE DEF T
<1>2. \A j \in Nat : j \in T
  BY <1>1, StrongInduction
<1>3. k \in T
  BY <1>2
<1>4. QED
  BY <1>3, Zenon DEF T

\* The sides of a node are apart.
Apart(n, d, D, O) ==
  /\ n \notin D /\ n \notin O /\ D \cap O = {}
  /\ \A x \in D, y \in O : OnSide(d, x, y) /\ Key(x) # Key(y)
  /\ \A x \in D \cup O : Key(x) # Key(n)

LEMMA SidesApart ==
  ASSUME NEW n \in Nodes, NEW d \in Dirs, NEW D \in SUBSET Nodes, NEW O \in SUBSET Nodes,
         \A x \in D : OnSide(d, x, n), \A x \in O : OnSide(1 - d, x, n)
  PROVE  Apart(n, d, D, O)
<1>1. Key(n) \in Int /\ (\A x \in D : Key(x) \in Int) /\ (\A x \in O : Key(x) \in Int)
  BY KeyType
<1>2. n \notin D /\ n \notin O
  BY <1>1, SMT DEF OnSide
<1>3. CASE d = LEFT
  <2>1. 1 - d # LEFT
    BY <1>3, Directions
  <2>2. QED
    BY <1>1, <1>2, <1>3, <2>1, SMT DEF OnSide, Apart
<1>4. CASE d # LEFT
  <2>1. 1 - d = LEFT
    BY <1>4, Directions
  <2>2. QED
    BY <1>1, <1>2, <1>4, <2>1, SMT DEF OnSide, Apart
<1>5. QED
  BY <1>3, <1>4

\* The two sides of a node of a tree.
LEMMA SplitsApart ==
  ASSUME NEW h, NEW n \in Nodes, NEW S, NEW k, NEW d \in Dirs,
         NEW D \in SUBSET Nodes, NEW O \in SUBSET Nodes, NEW kd, NEW ko,
         Splits(h, n, S, k, d, D, O, kd, ko)
  PROVE  Apart(n, d, D, O)
BY SidesApart DEF Splits

\* A tree has one node of a key.
LEMMA KeysDiffer ==
  ASSUME NEW h, NEW n, NEW S, NEW k \in Nat, Avl(h, n, S, k)
  PROVE  \A x, y \in S : Key(x) = Key(y) => x = y
<1> DEFINE Differ(X) == \A x, y \in X : Key(x) = Key(y) => x = y
           T == {j \in Nat : \A m, X : Avl(h, m, X, j) => Differ(X)}
<1>1. ASSUME NEW j \in Nat, \A i \in Nat : i < j => i \in T
      PROVE  j \in T
  <2>1. SUFFICES ASSUME NEW m, NEW X, Avl(h, m, X, j)
                 PROVE  Differ(X)
    BY Zenon
  <2>2. CASE m = Null
    BY <2>1, <2>2, AvlType
  <2>3. CASE m # Null
    <3>1. PICK D \in SUBSET Nodes, O \in SUBSET Nodes, kd \in Nat, ko \in Nat :
             Splits(h, m, X, j, LEFT, D, O, kd, ko)
      BY <2>1, <2>3, AvlUnfoldLeft
    <3>2. kd < j /\ ko < j
      BY <3>1, SMT DEF Splits, Higher
    <3>3. Differ(D) /\ Differ(O)
      BY <3>1, <3>2, <1>1 DEF Splits
    <3>4. /\ \A x \in D, y \in O : Key(x) # Key(y)
          /\ \A x \in D \cup O : Key(x) # Key(m)
      <4>1. m \in Nodes /\ LEFT \in Dirs
        BY <2>1, <2>3, AvlType, NullIsNoNode, Directions
      <4>2. Apart(m, LEFT, D, O)
        BY <3>1, <4>1, SplitsApart
      <4>3. QED
        BY <4>2 DEF Apart
    <3>5. X = D \cup {m} \cup O
      BY <3>1 DEF Splits
    <3>6. QED
      BY <3>3, <3>4, <3>5
  <2>4. QED
    BY <2>2, <2>3
<1> HIDE DEF T
<1>2. \A j \in Nat : j \in T
  BY <1>1, StrongInduction
<1>3. k \in T
  BY <1>2
<1>4. QED
  BY <1>3, Zenon DEF T

\* The fewest nodes of a tree of a height.
LEMMA FewestIs ==
  /\ Fewest(0) = 0
  /\ \A k \in Nat : Fewest(k) \in Nat /\ Fewest(k) <= Fewest(k + 1) /\ k <= Fewest(k)
  /\ \A k, kd, ko \in Nat :
       /\ kd <= ko + 1 /\ ko <= kd + 1 /\ k = 1 + Higher(kd, ko)
       => Fewest(k) <= Fewest(kd) + Fewest(ko) + 1
<1> DEFINE f == [p \in Nat \X Nat |-> <<1 + p[1] + p[2], p[1]>>]
           F(k) == Iterated(f, <<0, 0>>, k)
<1>1. F(0) = <<0, 0>> /\ \A k \in Nat : F(k + 1) = f[F(k)]
  BY Iteration
<1>2. \A k : Fewest(k) = F(k)[1]
  BY DEF Fewest
<1>3. \A p \in Nat \X Nat : f[p] = <<1 + p[1] + p[2], p[1]>>
  OBVIOUS
<1> HIDE DEF f, F
<1> DEFINE T == {k \in Nat : /\ F(k) \in Nat \X Nat /\ F(k)[2] <= F(k)[1] /\ k <= F(k)[1]}
<1>4. 0 \in T
  BY <1>1
<1>5. ASSUME NEW k \in Nat, k \in T PROVE k + 1 \in T
  <2>1. F(k) \in Nat \X Nat /\ F(k)[2] <= F(k)[1] /\ k <= F(k)[1]
    BY <1>5
  <2>2. F(k + 1) = <<1 + F(k)[1] + F(k)[2], F(k)[1]>>
    BY <1>1, <1>3, <2>1
  <2>3. QED
    BY <2>1, <2>2
<1> HIDE DEF T
<1>6. \A k \in Nat : k \in T
  BY <1>4, <1>5, Induction
<1>7. \A k \in Nat : /\ F(k)[1] \in Nat /\ F(k)[2] \in Nat /\ F(k)[2] <= F(k)[1] /\ k <= F(k)[1]
                     /\ F(k + 1)[1] = 1 + F(k)[1] + F(k)[2] /\ F(k + 1)[2] = F(k)[1]
  <2>1. TAKE k \in Nat
  <2>2. F(k) \in Nat \X Nat /\ F(k)[2] <= F(k)[1] /\ k <= F(k)[1]
    BY <1>6 DEF T
  <2>3. F(k + 1) = <<1 + F(k)[1] + F(k)[2], F(k)[1]>>
    BY <1>1, <1>3, <2>2
  <2>4. QED
    BY <2>2, <2>3
<1>8. F(0)[1] = 0 /\ F(0)[2] = 0
  BY <1>1
<1>9. ASSUME NEW k \in Nat, NEW kd \in Nat, NEW ko \in Nat,
             kd <= ko + 1, ko <= kd + 1, k = 1 + Higher(kd, ko)
      PROVE  F(k)[1] <= F(kd)[1] + F(ko)[1] + 1
  <2>1. CASE kd = ko
    <3>1. k = kd + 1
      BY <2>1, <1>9, SMT DEF Higher
    <3>2. F(k)[1] = 1 + F(kd)[1] + F(kd)[2]
      BY <3>1, <1>7
    <3>3. QED
      BY <2>1, <3>2, <1>7, SMT
  <2>2. CASE kd = ko + 1
    <3>1. k = kd + 1
      BY <2>2, <1>9, SMT DEF Higher
    <3>2. F(k)[1] = 1 + F(kd)[1] + F(kd)[2] /\ F(kd)[2] = F(ko)[1]
      BY <3>1, <2>2, <1>7
    <3>3. QED
      BY <3>2, <1>7, SMT
  <2>3. CASE ko = kd + 1
    <3>1. k = ko + 1
      BY <2>3, <1>9, SMT DEF Higher
    <3>2. F(k)[1] = 1 + F(ko)[1] + F(ko)[2] /\ F(ko)[2] = F(kd)[1]
      BY <3>1, <2>3, <1>7
    <3>3. QED
      BY <3>2, <1>7, SMT
  <2>4. QED
    BY <1>9, <2>1, <2>2, <2>3, SMT
<1>10. \A k \in Nat : F(k)[1] <= F(k + 1)[1]
  BY <1>7, SMT
<1>11. Fewest(0) = 0 /\ \A k \in Nat : Fewest(k) \in Nat /\ Fewest(k) <= Fewest(k + 1) /\ k <= Fewest(k)
  BY <1>2, <1>7, <1>8, <1>10
<1>12. QED
  BY <1>2, <1>9, <1>11

LEMMA FewestGrows ==
  ASSUME NEW j \in Nat, NEW k \in Nat, j <= k
  PROVE  Fewest(j) <= Fewest(k)
<1> DEFINE T == {i \in Nat : Fewest(j) <= Fewest(j + i)}
<1>1. 0 \in T
  BY FewestIs
<1>2. ASSUME NEW i \in Nat, i \in T PROVE i + 1 \in T
  <2>1. Fewest(j) <= Fewest(j + i) /\ Fewest(j + i) <= Fewest((j + i) + 1)
    BY <1>2, FewestIs
  <2>2. (j + i) + 1 = j + (i + 1)
    BY SMT
  <2>3. Fewest(j) \in Nat /\ Fewest(j + i) \in Nat /\ Fewest(j + (i + 1)) \in Nat
    BY FewestIs, SMTT(30)
  <2>4. Fewest(j + i) <= Fewest(j + (i + 1))
    BY <2>1, <2>2, SMTT(30)
  <2>5. Fewest(j) <= Fewest(j + (i + 1))
    BY ONLY <2>1, <2>3, <2>4, SMT
  <2>6. QED
    BY <2>5
<1> HIDE DEF T
<1>3. \A i \in Nat : i \in T
  BY <1>1, <1>2, Induction
<1>4. k - j \in Nat /\ j + (k - j) = k
  BY SMT
<1>5. Fewest(j) <= Fewest(j + (k - j))
  BY <1>3, <1>4 DEF T
<1>6. QED
  BY <1>4, <1>5

LEMMA AvlSize ==
  ASSUME NEW h, NEW n, NEW S, NEW k \in Nat, Avl(h, n, S, k)
  PROVE  /\ IsFiniteSet(S) /\ Cardinality(S) \in Nat
         /\ Fewest(k) <= Cardinality(S) /\ Cardinality(S) <= Walk /\ k <= Walk
         /\ Walk \in Nat
<1>0. /\ \A X \in SUBSET Nodes : IsFiniteSet(X) /\ Cardinality(X) \in Nat /\ Cardinality(X) <= Walk
      /\ Walk \in Nat
  BY NodesAssumption, FS_Subset, FS_CardinalityType DEF Walk
<1> DEFINE T == {j \in Nat : \A m, X : Avl(h, m, X, j) => Fewest(j) <= Cardinality(X)}
<1>1. ASSUME NEW j \in Nat, \A i \in Nat : i < j => i \in T
      PROVE  j \in T
  <2>1. SUFFICES ASSUME NEW m, NEW X, Avl(h, m, X, j)
                 PROVE  Fewest(j) <= Cardinality(X)
    BY Zenon
  <2>2. CASE m = Null
    <3>1. j = 0 /\ X = {}
      BY <2>1, <2>2, AvlType
    <3>2. QED
      BY <3>1, FewestIs, FS_EmptySet
  <2>3. CASE m # Null
    <3>1. PICK D \in SUBSET Nodes, O \in SUBSET Nodes, kd \in Nat, ko \in Nat :
             Splits(h, m, X, j, LEFT, D, O, kd, ko)
      BY <2>1, <2>3, AvlUnfoldLeft
    <3>2. kd < j /\ ko < j /\ kd <= ko + 1 /\ ko <= kd + 1 /\ j = 1 + Higher(kd, ko)
      BY <3>1, SMT DEF Splits, Higher, Weighs
    <3>3. Fewest(kd) <= Cardinality(D) /\ Fewest(ko) <= Cardinality(O)
      BY <3>1, <3>2, <1>1 DEF Splits
    <3>4. Fewest(j) <= Fewest(kd) + Fewest(ko) + 1
      BY <3>2, FewestIs
    <3>5. m \notin D /\ m \notin O /\ D \cap O = {}
      <4>1. m \in Nodes /\ LEFT \in Dirs
        BY <2>1, <2>3, AvlType, NullIsNoNode, Directions
      <4>2. Apart(m, LEFT, D, O)
        BY <3>1, <4>1, SplitsApart
      <4>3. QED
        BY <4>2 DEF Apart
    <3>6. IsFiniteSet(D) /\ IsFiniteSet(O) /\ Cardinality(D) \in Nat /\ Cardinality(O) \in Nat
      BY <1>0
    <3>7. Cardinality(D \cup {m}) = Cardinality(D) + 1 /\ IsFiniteSet(D \cup {m})
      BY <3>5, <3>6, FS_AddElement
    <3>8. (D \cup {m}) \cap O = {}
      BY <3>5
    <3>9. Cardinality((D \cup {m}) \cup O) = Cardinality(D \cup {m}) + Cardinality(O) - Cardinality((D \cup {m}) \cap O)
      BY <3>6, <3>7, FS_Union
    <3>10. Cardinality({}) = 0
      BY FS_EmptySet
    <3>11. X = (D \cup {m}) \cup O
      BY <3>1 DEF Splits
    <3>12. Cardinality(X) = Cardinality(D) + 1 + Cardinality(O)
      BY <3>6, <3>7, <3>8, <3>9, <3>10, <3>11
    <3>13. Fewest(j) \in Nat /\ Fewest(kd) \in Nat /\ Fewest(ko) \in Nat
      BY FewestIs
    <3>14. QED
      BY ONLY <3>3, <3>4, <3>6, <3>12, <3>13, SMT
  <2>4. QED
    BY <2>2, <2>3
<1> HIDE DEF T
<1>2. \A j \in Nat : j \in T
  BY <1>1, StrongInduction
<1>3. Fewest(k) <= Cardinality(S)
  BY <1>2, Zenon DEF T
<1>4. S \in SUBSET Nodes
  BY AvlType
<1>5. Fewest(k) \in Nat /\ k <= Fewest(k)
  BY FewestIs
<1>6. QED
  BY <1>0, <1>3, <1>4, <1>5, SMT

\* With that many nodes the stacks are not filled.
LEMMA HeightFits ==
  ASSUME NEW h, NEW n, NEW S, NEW k \in Nat, Avl(h, n, S, k), Fits
  PROVE  k < TREE_MAX_HEIGHT
<1>1. SUFFICES ASSUME TREE_MAX_HEIGHT <= k PROVE FALSE
  BY HeightAssumption, SMT
<1>2. TREE_MAX_HEIGHT \in Nat
  BY HeightAssumption
<1>3. Fewest(TREE_MAX_HEIGHT) <= Fewest(k) /\ Fewest(TREE_MAX_HEIGHT) \in Nat /\ Fewest(k) \in Nat
  BY <1>1, <1>2, FewestGrows, FewestIs
<1>4. Fewest(k) <= Cardinality(S) /\ Cardinality(S) <= Walk /\ Cardinality(S) \in Nat /\ Walk \in Nat
  BY AvlSize
<1>5. Walk < Fewest(TREE_MAX_HEIGHT)
  BY DEF Fits, Walk
<1>6. QED
  BY ONLY <1>3, <1>4, <1>5, SMT
-----------------------------------------------------------------------------
(* Changes of a heap. *)

\* A slot that is not in a node of X.
Outside(slot, X) == \A m \in X, d \in Dirs : <<m, d>> # slot

\* g is h but for the slot and what is in the nodes of X.
Alike(g, h, slot, X) ==
  /\ slot # RootSlot => g.root = h.root
  /\ \A m \in Nodes \ X :
       /\ g.state[m] = h.state[m]
       /\ \A d \in Dirs : <<m, d>> # slot => g.child[m][d] = h.child[m][d]

LEMMA SlotFacts ==
  /\ RootSlot \in Slots
  /\ \A n \in Nodes, d \in Dirs :
       /\ <<n, d>> \in Slots /\ <<n, d>> # RootSlot
       /\ \A h : At(h, <<n, d>>) = h.child[n][d]
  /\ \A h : At(h, RootSlot) = h.root
  /\ \A s \in Slots : s # RootSlot => \E n \in Nodes, d \in Dirs : s = <<n, d>>
<1>1. \A n, d : <<n, d>> # <<>> /\ <<n, d>>[1] = n /\ <<n, d>>[2] = d
  OBVIOUS
<1>2. \A n \in Nodes, d \in Dirs : <<n, d>> \in Slots
  BY DEF Slots
<1>3. RootSlot \in Slots
  BY DEF Slots
<1>4. \A n \in Nodes, d \in Dirs : \A h : At(h, <<n, d>>) = h.child[n][d]
  BY <1>1, Zenon DEF At, RootSlot
<1>5. \A s \in Slots : s # RootSlot => \E n \in Nodes, d \in Dirs : s = <<n, d>>
  BY DEF Slots
<1>6. QED
  BY <1>1, <1>2, <1>3, <1>4, <1>5 DEF At, RootSlot

LEMMA AtType ==
  ASSUME NEW h \in Heaps, NEW slot \in Slots
  PROVE  At(h, slot) \in NodesOrNull
BY SlotFacts, HeapType

\* A tree on which two heaps agree.
LEMMA FrameAlike ==
  ASSUME NEW h \in Heaps, NEW g \in Heaps, NEW slot, NEW X, Alike(g, h, slot, X),
         NEW n, NEW S, NEW k \in Nat, Avl(h, n, S, k), S \cap X = {}, Outside(slot, S)
  PROVE  Avl(g, n, S, k)
<1>1. S \in SUBSET Nodes
  BY AvlType
<1>2. ASSUME NEW x \in S PROVE g.child[x] = h.child[x] /\ g.state[x] = h.state[x]
  <2>1. x \in Nodes \ X
    BY <1>1
  <2>2. g.state[x] = h.state[x] /\ \A d \in Dirs : g.child[x][d] = h.child[x][d]
    BY <2>1 DEF Alike, Outside
  <2>3. g.child[x] \in [Dirs -> NodesOrNull] /\ h.child[x] \in [Dirs -> NodesOrNull]
    BY <2>1 DEF Heaps, NodesOrNull
  <2>4. QED
    BY <2>2, <2>3
<1>3. QED
  BY <1>2, Frame

LEMMA AlikeSame ==
  ASSUME NEW h, NEW slot, NEW X
  PROVE  Alike(h, h, slot, X)
BY DEF Alike

LEMMA AlikeThrough ==
  ASSUME NEW h, NEW f, NEW g, NEW slot, NEW X, NEW inner, NEW Y,
         Alike(g, f, slot, X), Alike(f, h, inner, Y), Y \subseteq X,
         inner = slot \/ \E m \in X, d \in Dirs : inner = <<m, d>>
  PROVE  Alike(g, h, slot, X)
<1>1. slot # RootSlot => g.root = h.root
  <2>1. ASSUME slot # RootSlot PROVE inner # RootSlot
    <3>1. \A m, d : <<m, d>> # <<>>
      OBVIOUS
    <3>2. QED
      BY <2>1, <3>1, Zenon DEF RootSlot
  <2>2. QED
    BY <2>1 DEF Alike
<1>2. ASSUME NEW m \in Nodes \ X
      PROVE  /\ g.state[m] = h.state[m]
             /\ \A d \in Dirs : <<m, d>> # slot => g.child[m][d] = h.child[m][d]
  <2>1. m \in Nodes \ Y
    BY <1>2
  <2>2. g.state[m] = h.state[m]
    BY <1>2, <2>1 DEF Alike
  <2>3. ASSUME NEW d \in Dirs, <<m, d>> # slot PROVE g.child[m][d] = h.child[m][d]
    <3>1. <<m, d>> # inner
      BY <1>2, <2>3
    <3>2. QED
      BY <1>2, <2>1, <2>3, <3>1 DEF Alike
  <2>4. QED
    BY <2>2, <2>3
<1>3. QED
  BY <1>1, <1>2 DEF Alike

\* Put.
SlotSet(g, h, slot, v) ==
  /\ g \in Heaps /\ At(g, slot) = v /\ g.state = h.state
  /\ \A n \in Nodes, d \in Dirs : g.child[n][d] = IF <<n, d>> = slot THEN v ELSE h.child[n][d]
  /\ g.root = IF slot = RootSlot THEN v ELSE h.root
  /\ Alike(g, h, slot, {})

LEMMA PutIs ==
  ASSUME NEW h \in Heaps, NEW slot \in Slots, NEW v \in NodesOrNull
  PROVE  SlotSet(Put(h, slot, v), h, slot, v)
<1> DEFINE g == Put(h, slot, v)
<1>1. /\ g \in Heaps /\ At(g, slot) = v /\ g.state = h.state
      /\ \A n \in Nodes, d \in Dirs : g.child[n][d] = IF <<n, d>> = slot THEN v ELSE h.child[n][d]
      /\ g.root = IF slot = RootSlot THEN v ELSE h.root
  <2>1. CASE slot = RootSlot
    <3>1. g = [h EXCEPT !.root = v]
      BY <2>1 DEF Put
    <3>2. \A n \in Nodes, d \in Dirs : <<n, d>> # slot
      BY <2>1, SlotFacts
    <3> HIDE DEF g
    <3>3. g \in Heaps /\ g.state = h.state /\ g.child = h.child /\ g.root = v
      BY <3>1 DEF Heaps, NodesOrNull
    <3>4. At(g, slot) = v
      BY <3>3, <2>1, SlotFacts
    <3>5. QED
      BY <3>2, <3>3, <3>4, <2>1
  <2>2. CASE slot # RootSlot
    <3>1. PICK m \in Nodes, e \in Dirs : slot = <<m, e>>
      BY <2>2, SlotFacts
    <3>2. g = [h EXCEPT !.child[m][e] = v]
      BY <2>2, <3>1, Zenon DEF Put
    <3> HIDE DEF g
    <3>3. g \in Heaps /\ g.state = h.state /\ g.root = h.root
      BY <3>2 DEF Heaps, NodesOrNull
    <3>4. \A n \in Nodes, d \in Dirs : g.child[n][d] = IF n = m /\ d = e THEN v ELSE h.child[n][d]
      BY <3>2 DEF Heaps, NodesOrNull
    <3>5. \A n \in Nodes, d \in Dirs : <<n, d>> = slot <=> n = m /\ d = e
      BY <3>1
    <3>6. At(g, slot) = v
      BY <3>1, <3>4, SlotFacts
    <3>7. ASSUME NEW n \in Nodes, NEW d \in Dirs
          PROVE  g.child[n][d] = IF <<n, d>> = slot THEN v ELSE h.child[n][d]
      BY <3>4, <3>5
    <3>8. QED
      BY <2>2, <3>3, <3>6, <3>7, Zenon
  <2>3. QED
    BY <2>1, <2>2
<1> HIDE DEF g
<1>2. Alike(g, h, slot, {})
  BY <1>1 DEF Alike
<1>3. SlotSet(g, h, slot, v)
  BY <1>1, <1>2 DEF SlotSet
<1>4. QED
  BY <1>3 DEF g

\* Other changes of one field.
ChildSet(g, h, m, e, v) ==
  /\ g \in Heaps /\ g.state = h.state /\ g.root = h.root
  /\ \A n \in Nodes, d \in Dirs : g.child[n][d] = IF n = m /\ d = e THEN v ELSE h.child[n][d]

StateSet(g, h, m, s) ==
  /\ g \in Heaps /\ g.child = h.child /\ g.root = h.root
  /\ \A n \in Nodes : g.state[n] = IF n = m THEN s ELSE h.state[n]

LEMMA ChildIs ==
  ASSUME NEW h \in Heaps, NEW m \in Nodes, NEW e \in Dirs, NEW v \in NodesOrNull,
         NEW g, g = [h EXCEPT !.child[m][e] = v]
  PROVE  ChildSet(g, h, m, e, v)
BY DEF Heaps, NodesOrNull, ChildSet

LEMMA StateIs ==
  ASSUME NEW h \in Heaps, NEW m \in Nodes, NEW s \in {LEFT, RIGHT, BALANCED},
         NEW g, g = [h EXCEPT !.state[m] = s]
  PROVE  StateSet(g, h, m, s)
BY DEF Heaps, StateSet

\* Changes of several.
TwoChildrenSet(g, h, a, d, v, c, e, w) ==
  /\ g \in Heaps /\ g.state = h.state /\ g.root = h.root
  /\ g.child[a][d] = v /\ g.child[c][e] = w
  /\ g.child[a][1 - d] = h.child[a][1 - d]
  /\ g.child[c][1 - e] = h.child[c][1 - e]
  /\ \A m \in Nodes, b \in Dirs : m # a /\ m # c => g.child[m][b] = h.child[m][b]

WithTwoChildren(h, a, d, v, c, e, w) == [h EXCEPT !.child[a][d] = v, !.child[c][e] = w]

LEMMA TwoChildrenAre ==
  ASSUME NEW h \in Heaps, NEW a \in Nodes, NEW d \in Dirs, NEW v \in NodesOrNull,
         NEW c \in Nodes, NEW e \in Dirs, NEW w \in NodesOrNull, a # c,
         NEW g, g = WithTwoChildren(h, a, d, v, c, e, w)
  PROVE  TwoChildrenSet(g, h, a, d, v, c, e, w)
<1> DEFINE f == [h EXCEPT !.child[a][d] = v]
<1>1. ChildSet(f, h, a, d, v)
  BY ChildIs
<1>2. g = [f EXCEPT !.child[c][e] = w]
  BY DEF Heaps, WithTwoChildren
<1> HIDE DEF f
<1>3. f \in Heaps
  BY <1>1 DEF ChildSet
<1>4. ChildSet(g, f, c, e, w)
  BY <1>2, <1>3, ChildIs
<1>5. 1 - d \in Dirs /\ 1 - e \in Dirs /\ 1 - d # d /\ 1 - e # e
  BY Directions
<1>6. QED
  BY <1>1, <1>4, <1>5 DEF ChildSet, TwoChildrenSet

BothChildrenSet(g, h, x, d, v, w) ==
  /\ g \in Heaps /\ g.state = h.state /\ g.root = h.root
  /\ g.child[x][d] = v /\ g.child[x][1 - d] = w
  /\ \A m \in Nodes, b \in Dirs : m # x => g.child[m][b] = h.child[m][b]

WithBothChildren(h, x, d, v, w) == [h EXCEPT !.child[x][d] = v, !.child[x][1 - d] = w]

LEMMA BothChildrenAre ==
  ASSUME NEW h \in Heaps, NEW x \in Nodes, NEW d \in Dirs, NEW v \in NodesOrNull,
         NEW w \in NodesOrNull,
         NEW g, g = WithBothChildren(h, x, d, v, w)
  PROVE  BothChildrenSet(g, h, x, d, v, w)
<1> DEFINE f == [h EXCEPT !.child[x][d] = v]
           e == 1 - d
<1>0. e \in Dirs /\ e # d
  BY Directions
<1>1. ChildSet(f, h, x, d, v)
  BY ChildIs
<1>2. g = [f EXCEPT !.child[x][e] = w]
  BY DEF Heaps, WithBothChildren
<1> HIDE DEF f, e
<1>3. f \in Heaps
  BY <1>1 DEF ChildSet
<1>4. ChildSet(g, f, x, e, w)
  BY <1>0, <1>2, <1>3, ChildIs
<1>5. QED
  BY <1>0, <1>1, <1>4 DEF ChildSet, BothChildrenSet, e

StatesSet(g, h, a, s, c, t) ==
  /\ g \in Heaps /\ g.child = h.child /\ g.root = h.root
  /\ g.state[a] = s /\ g.state[c] = t
  /\ \A m \in Nodes : m # a /\ m # c => g.state[m] = h.state[m]

WithStates(h, a, s, c, t) == [h EXCEPT !.state[a] = s, !.state[c] = t]

LEMMA TwoStatesAre ==
  ASSUME NEW h \in Heaps, NEW a \in Nodes, NEW s \in {LEFT, RIGHT, BALANCED},
         NEW c \in Nodes, NEW t \in {LEFT, RIGHT, BALANCED}, a # c,
         NEW g, g = WithStates(h, a, s, c, t)
  PROVE  StatesSet(g, h, a, s, c, t)
BY DEF Heaps, StatesSet, WithStates

ThreeStatesSet(g, h, a, s, c, t, x, u) ==
  /\ g \in Heaps /\ g.child = h.child /\ g.root = h.root
  /\ g.state[a] = s /\ g.state[c] = t /\ g.state[x] = u
  /\ \A m \in Nodes : m # a /\ m # c /\ m # x => g.state[m] = h.state[m]

WithThreeStates(h, a, s, c, t, x, u) ==
  [h EXCEPT !.state[a] = s, !.state[c] = t, !.state[x] = u]

LEMMA ThreeStatesAre ==
  ASSUME NEW h \in Heaps, NEW a \in Nodes, NEW s \in {LEFT, RIGHT, BALANCED},
         NEW c \in Nodes, NEW t \in {LEFT, RIGHT, BALANCED},
         NEW x \in Nodes, NEW u \in {LEFT, RIGHT, BALANCED}, a # c, a # x, c # x,
         NEW g, g = WithThreeStates(h, a, s, c, t, x, u)
  PROVE  ThreeStatesSet(g, h, a, s, c, t, x, u)
BY DEF Heaps, ThreeStatesSet, WithThreeStates

-----------------------------------------------------------------------------
(* Rotations, as changes of the heap. *)

\* What SingleRotation does to the heap.
Rotated1(g, h, slot, n, a, c) ==
  /\ g \in Heaps
  /\ At(g, slot) = c
  /\ g.child[c][n] = h.child[c][n] /\ g.child[c][1 - n] = a
  /\ g.child[a][n] = h.child[c][1 - n] /\ g.child[a][1 - n] = h.child[a][1 - n]
  /\ Alike(g, h, slot, {a, c})

LEMMA AlikeTables ==
  ASSUME NEW g \in Heaps, NEW h \in Heaps, NEW slot, NEW X,
         slot # RootSlot => g.root = h.root,
         \A m \in Nodes \ X : g.state[m] = h.state[m],
         \A m \in Nodes \ X, d \in Dirs : <<m, d>> # slot => g.child[m][d] = h.child[m][d]
  PROVE  Alike(g, h, slot, X)
BY DEF Alike

SingleRotated(h, slot, n, a, c) ==
  \E g, stop : /\ SingleRotation(h, slot, n) = [heap |-> g, stop |-> stop]
               /\ Rotated1(g, h, slot, n, a, c)
               /\ \/ /\ h.state[c] = BALANCED /\ stop = TRUE
                     /\ g.state[c] = 1 - n /\ g.state[a] = h.state[a]
                  \/ /\ h.state[c] # BALANCED /\ stop = FALSE
                     /\ g.state[c] = BALANCED /\ g.state[a] = BALANCED

LEMMA SingleRotationIs ==
  ASSUME NEW h \in Heaps, NEW slot \in Slots, NEW n \in Dirs, NEW a \in Nodes, NEW c \in Nodes,
         a = At(h, slot), c = h.child[a][n], a # c, Outside(slot, {a, c})
  PROVE  SingleRotated(h, slot, n, a, c)
<1> SUFFICES
  \E g, stop : /\ SingleRotation(h, slot, n) = [heap |-> g, stop |-> stop]
               /\ Rotated1(g, h, slot, n, a, c)
               /\ \/ /\ h.state[c] = BALANCED /\ stop = TRUE
                     /\ g.state[c] = 1 - n /\ g.state[a] = h.state[a]
                  \/ /\ h.state[c] # BALANCED /\ stop = FALSE
                     /\ g.state[c] = BALANCED /\ g.state[a] = BALANCED
  BY Zenon DEF SingleRotated
<1> DEFINE r == 1 - n
           h1 == [h EXCEPT !.child[a][n] = h.child[c][r], !.child[c][r] = a]
           h2 == Put(h1, slot, c)
           g1 == [h2 EXCEPT !.state[c] = r]
           g2 == [h2 EXCEPT !.state[a] = BALANCED, !.state[c] = BALANCED]
<1>0. r \in Dirs /\ 1 - r = n /\ r # n /\ r \in {LEFT, RIGHT, BALANCED} /\ BALANCED \in {LEFT, RIGHT, BALANCED}
      /\ 1 - n = r
  BY Directions
<1>1. SingleRotation(h, slot, n) =
        IF h.state[c] = BALANCED THEN [heap |-> g1, stop |-> TRUE] ELSE [heap |-> g2, stop |-> FALSE]
  BY Zenon DEF SingleRotation
<1>2. h.child[c][r] \in NodesOrNull /\ a \in NodesOrNull /\ c \in NodesOrNull
  BY <1>0, HeapType DEF NodesOrNull
<1>3. /\ h1 \in Heaps /\ h1.state = h.state /\ h1.root = h.root
      /\ h1.child[a][n] = h.child[c][r] /\ h1.child[c][r] = a
      /\ h1.child[a][r] = h.child[a][r]
      /\ h1.child[c][n] = h.child[c][n]
      /\ \A m \in Nodes, b \in Dirs : m # a /\ m # c => h1.child[m][b] = h.child[m][b]
  <2> HIDE DEF r
  <2>1. h1 = WithTwoChildren(h, a, n, h.child[c][r], c, r, a)
    BY Zenon DEF WithTwoChildren
  <2> HIDE DEF h1
  <2>2. TwoChildrenSet(h1, h, a, n, h.child[c][r], c, r, a)
    BY <1>0, <1>2, <2>1, TwoChildrenAre
  <2>3. QED
    BY <1>0, <2>2 DEF TwoChildrenSet
<1> HIDE DEF h1, r
<1>4. /\ h2 \in Heaps /\ At(h2, slot) = c /\ h2.state = h1.state
      /\ \A m \in Nodes, b \in Dirs : h2.child[m][b] = IF <<m, b>> = slot THEN c ELSE h1.child[m][b]
      /\ h2.root = IF slot = RootSlot THEN c ELSE h1.root
  <2>1. h2 = Put(h1, slot, c)
    OBVIOUS
  <2> HIDE DEF h2
  <2>2. SlotSet(h2, h1, slot, c)
    BY <1>2, <1>3, <2>1, PutIs
  <2>3. QED
    BY <2>2 DEF SlotSet
<1> HIDE DEF h2
<1>5. \A b \in Dirs : <<a, b>> # slot /\ <<c, b>> # slot
  BY DEF Outside
<1>6. /\ h2.child[c][n] = h.child[c][n] /\ h2.child[c][r] = a
      /\ h2.child[a][n] = h.child[c][r] /\ h2.child[a][r] = h.child[a][r]
  BY <1>0, <1>3, <1>4, <1>5
<1>7. ASSUME NEW m \in Nodes \ {a, c}, NEW b \in Dirs, <<m, b>> # slot
      PROVE  h2.child[m][b] = h.child[m][b]
  BY <1>3, <1>4, <1>7
<1>8. ASSUME NEW g, g \in Heaps, g.child = h2.child, g.root = h2.root,
             \A m \in Nodes : m # a /\ m # c => g.state[m] = h2.state[m]
      PROVE  Rotated1(g, h, slot, n, a, c)
  <2>1. At(g, slot) = c
    BY <1>4, <1>8, SlotFacts
  <2>2. Alike(g, h, slot, {a, c})
    <3>1. slot # RootSlot => g.root = h.root
      BY <1>3, <1>4, <1>8
    <3>2. \A m \in Nodes \ {a, c} : g.state[m] = h.state[m]
      BY <1>3, <1>4, <1>8
    <3>3. \A m \in Nodes \ {a, c}, b \in Dirs : <<m, b>> # slot => g.child[m][b] = h.child[m][b]
      BY <1>7, <1>8
    <3>4. QED
      BY <3>1, <3>2, <3>3, <1>8, AlikeTables
  <2>3. QED
    BY <1>0, <1>6, <1>8, <2>1, <2>2, Zenon DEF Rotated1
<1>9. CASE h.state[c] = BALANCED
  <2>1. /\ g1 \in Heaps /\ g1.child = h2.child /\ g1.root = h2.root
        /\ \A m \in Nodes : g1.state[m] = IF m = c THEN r ELSE h2.state[m]
    <3>1. g1 = [h2 EXCEPT !.state[c] = r]
      OBVIOUS
    <3> HIDE DEF g1
    <3>2. StateSet(g1, h2, c, r)
      BY <1>0, <1>4, <3>1, StateIs
    <3>3. QED
      BY <3>2 DEF StateSet
  <2> HIDE DEF g1
  <2>2. Rotated1(g1, h, slot, n, a, c)
    BY <2>1, <1>8
  <2>3. g1.state[c] = 1 - n /\ g1.state[a] = h.state[a]
    BY <2>1, <1>0, <1>3, <1>4
  <2>4. SingleRotation(h, slot, n) = [heap |-> g1, stop |-> TRUE]
    BY <1>1, <1>9
  <2>5. QED
    BY <1>9, <2>2, <2>3, <2>4
<1>10. CASE h.state[c] # BALANCED
  <2>1. /\ g2 \in Heaps /\ g2.child = h2.child /\ g2.root = h2.root
        /\ g2.state[a] = BALANCED /\ g2.state[c] = BALANCED
        /\ \A m \in Nodes : m # a /\ m # c => g2.state[m] = h2.state[m]
    <3>1. g2 = WithStates(h2, a, BALANCED, c, BALANCED)
      BY Zenon DEF WithStates
    <3> HIDE DEF g2
    <3>2. StatesSet(g2, h2, a, BALANCED, c, BALANCED)
      BY <1>0, <1>4, <3>1, TwoStatesAre
    <3>3. QED
      BY <3>2 DEF StatesSet
  <2> HIDE DEF g2
  <2>2. Rotated1(g2, h, slot, n, a, c)
    BY <2>1, <1>8
  <2>3. SingleRotation(h, slot, n) = [heap |-> g2, stop |-> FALSE]
    BY <1>1, <1>10
  <2>4. QED
    BY <1>10, <2>1, <2>2, <2>3
<1>11. QED
  BY <1>9, <1>10

\* What DoubleRotation does to the heap.
Rotated2(g, h, slot, n, a, c, x) ==
  /\ g \in Heaps
  /\ At(g, slot) = x
  /\ g.child[x][n] = c /\ g.child[x][1 - n] = a
  /\ g.child[c][n] = h.child[c][n] /\ g.child[c][1 - n] = h.child[x][n]
  /\ g.child[a][n] = h.child[x][1 - n] /\ g.child[a][1 - n] = h.child[a][1 - n]
  /\ g.state[x] = BALANCED
  /\ g.state[a] = (IF h.state[x] = n THEN 1 - n ELSE BALANCED)
  /\ g.state[c] = (IF h.state[x] = 1 - n THEN n ELSE BALANCED)
  /\ Alike(g, h, slot, {a, c, x})

LEMMA DoubleRotationIs ==
  ASSUME NEW h \in Heaps, NEW slot \in Slots, NEW n \in Dirs, NEW a \in Nodes, NEW c \in Nodes,
         NEW x \in Nodes, a = At(h, slot), c = h.child[a][n], x = h.child[c][1 - n],
         a # c, a # x, c # x, Outside(slot, {a, c, x})
  PROVE  \E g : /\ DoubleRotation(h, slot, n) = [heap |-> g, stop |-> FALSE]
                /\ Rotated2(g, h, slot, n, a, c, x)
<1> DEFINE r == 1 - n
           h1 == [h EXCEPT !.child[c][r] = h.child[x][n], !.child[a][n] = h.child[x][r]]
           h2 == [h1 EXCEPT !.child[x][n] = c, !.child[x][r] = a]
           h3 == Put(h2, slot, x)
           sa == IF h.state[x] = n THEN r ELSE BALANCED
           sc == IF h.state[x] = r THEN n ELSE BALANCED
           g == [h3 EXCEPT !.state[a] = sa, !.state[c] = sc, !.state[x] = BALANCED]
<1>0. /\ r \in Dirs /\ 1 - r = n /\ r # n /\ 1 - n = r
      /\ r \in {LEFT, RIGHT, BALANCED} /\ n \in {LEFT, RIGHT, BALANCED} /\ BALANCED \in {LEFT, RIGHT, BALANCED}
  BY Directions
<1>1. DoubleRotation(h, slot, n) = [heap |-> g, stop |-> FALSE]
  BY Zenon DEF DoubleRotation
<1>2. /\ h.child[x][r] \in NodesOrNull /\ h.child[x][n] \in NodesOrNull
      /\ a \in NodesOrNull /\ c \in NodesOrNull /\ x \in NodesOrNull
  BY <1>0, HeapType DEF NodesOrNull
<1>3. /\ h1 \in Heaps /\ h1.state = h.state /\ h1.root = h.root
      /\ h1.child[c][r] = h.child[x][n] /\ h1.child[a][n] = h.child[x][r]
      /\ h1.child[c][n] = h.child[c][n]
      /\ h1.child[a][r] = h.child[a][r]
      /\ \A m \in Nodes, b \in Dirs : m # c /\ m # a => h1.child[m][b] = h.child[m][b]
  <2> HIDE DEF r
  <2>1. h1 = WithTwoChildren(h, c, r, h.child[x][n], a, n, h.child[x][r])
    BY Zenon DEF WithTwoChildren
  <2> HIDE DEF h1
  <2>2. TwoChildrenSet(h1, h, c, r, h.child[x][n], a, n, h.child[x][r])
    BY <1>0, <1>2, <2>1, TwoChildrenAre, ZenonT(40)
  <2>3. QED
    BY <1>0, <2>2 DEF TwoChildrenSet
<1> HIDE DEF h1
<1>4. /\ h2 \in Heaps /\ h2.state = h1.state /\ h2.root = h1.root
      /\ h2.child[x][n] = c /\ h2.child[x][r] = a
      /\ \A m \in Nodes, b \in Dirs : m # x => h2.child[m][b] = h1.child[m][b]
  <2>1. h2 = WithBothChildren(h1, x, n, c, a)
    BY Zenon DEF WithBothChildren
  <2> HIDE DEF h2
  <2>2. BothChildrenSet(h2, h1, x, n, c, a)
    BY <1>2, <1>3, <2>1, BothChildrenAre
  <2>3. QED
    BY <2>2 DEF BothChildrenSet
<1> HIDE DEF h2, r
<1>5. /\ h3 \in Heaps /\ At(h3, slot) = x /\ h3.state = h2.state
      /\ \A m \in Nodes, b \in Dirs : h3.child[m][b] = IF <<m, b>> = slot THEN x ELSE h2.child[m][b]
      /\ h3.root = IF slot = RootSlot THEN x ELSE h2.root
  <2>1. h3 = Put(h2, slot, x)
    OBVIOUS
  <2> HIDE DEF h3
  <2>2. SlotSet(h3, h2, slot, x)
    BY <1>2, <1>4, <2>1, PutIs
  <2>3. QED
    BY <2>2 DEF SlotSet
<1> HIDE DEF h3
<1>6. sa \in {LEFT, RIGHT, BALANCED} /\ sc \in {LEFT, RIGHT, BALANCED}
  BY <1>0
<1>7. sa = (IF h.state[x] = n THEN 1 - n ELSE BALANCED) /\ sc = (IF h.state[x] = 1 - n THEN n ELSE BALANCED)
  BY <1>0
<1> HIDE DEF sa, sc
<1>8. /\ g \in Heaps /\ g.child = h3.child /\ g.root = h3.root
      /\ g.state[a] = sa /\ g.state[c] = sc /\ g.state[x] = BALANCED
      /\ \A m \in Nodes : m # a /\ m # c /\ m # x => g.state[m] = h3.state[m]
  <2>1. g = WithThreeStates(h3, a, sa, c, sc, x, BALANCED)
    BY Zenon DEF WithThreeStates
  <2> HIDE DEF g
  <2>2. ThreeStatesSet(g, h3, a, sa, c, sc, x, BALANCED)
    BY <1>0, <1>5, <1>6, <2>1, ThreeStatesAre, SMTT(30)
  <2>3. QED
    BY <2>2 DEF ThreeStatesSet
<1> HIDE DEF g
<1>9. \A b \in Dirs : <<a, b>> # slot /\ <<c, b>> # slot /\ <<x, b>> # slot
  BY DEF Outside
<1>10. /\ g.child[x][n] = c /\ g.child[x][r] = a
       /\ g.child[c][n] = h.child[c][n] /\ g.child[c][r] = h.child[x][n]
       /\ g.child[a][n] = h.child[x][r] /\ g.child[a][r] = h.child[a][r]
  <2>1. \A m \in {a, c, x}, b \in Dirs : g.child[m][b] = h2.child[m][b]
    BY <1>5, <1>8, <1>9, SMTT(30)
  <2>2. \A m \in {a, c}, b \in Dirs : h2.child[m][b] = h1.child[m][b]
    BY <1>4, ZenonT(40)
  <2>3. \A b \in Dirs : /\ g.child[x][b] = h2.child[x][b]
                        /\ g.child[c][b] = h1.child[c][b]
                        /\ g.child[a][b] = h1.child[a][b]
    <3> HIDE DEF g
    <3>1. TAKE b \in Dirs
    <3>2. g.child[x][b] = h2.child[x][b] /\ g.child[c][b] = h2.child[c][b] /\ g.child[a][b] = h2.child[a][b]
      BY <2>1
    <3>3. h2.child[c][b] = h1.child[c][b] /\ h2.child[a][b] = h1.child[a][b]
      BY <2>2
    <3>4. QED
      BY <3>2, <3>3
  <2>4. n \in Dirs /\ r \in Dirs
    BY <1>0
  <2>5. g.child[x][n] = c /\ g.child[x][r] = a
    BY <1>4, <2>3, <2>4, Zenon
  <2>6. g.child[c][n] = h.child[c][n] /\ g.child[c][r] = h.child[x][n]
    BY <1>3, <2>3, <2>4, Zenon
  <2>7. g.child[a][n] = h.child[x][r] /\ g.child[a][r] = h.child[a][r]
    BY <1>3, <2>3, <2>4, Zenon
  <2>8. QED
    BY <2>5, <2>6, <2>7
<1>11. At(g, slot) = x
  BY <1>5, <1>8, SlotFacts, SMTT(30)
<1>12. Alike(g, h, slot, {a, c, x})
  <2>1. slot # RootSlot => g.root = h.root
    BY <1>3, <1>4, <1>5, <1>8
  <2>2. ASSUME NEW m \in Nodes \ {a, c, x} PROVE g.state[m] = h.state[m]
    <3>1. m \in Nodes /\ m # a /\ m # c /\ m # x
      OBVIOUS
    <3>2. g.state[m] = h3.state[m]
      BY <3>1, <1>8
    <3>3. QED
      BY <3>2, <1>3, <1>4, <1>5
  <2>3. ASSUME NEW m \in Nodes \ {a, c, x}, NEW b \in Dirs, <<m, b>> # slot
        PROVE  g.child[m][b] = h.child[m][b]
    <3>1. m \in Nodes /\ m # a /\ m # c /\ m # x
      OBVIOUS
    <3>2. h1.child[m][b] = h.child[m][b]
      BY <3>1, <1>3
    <3>3. h2.child[m][b] = h1.child[m][b]
      BY <3>1, <1>4
    <3>4. g.child[m][b] = h2.child[m][b]
      BY <3>1, <2>3, <1>5, <1>8, SMTT(30)
    <3>5. QED
      BY <3>2, <3>3, <3>4
  <2>4. QED
    BY <2>1, <2>2, <2>3, <1>8, AlikeTables
<1>13. Rotated2(g, h, slot, n, a, c, x)
  BY <1>0, <1>7, <1>8, <1>10, <1>11, <1>12, Zenon DEF Rotated2
<1>14. QED
  BY <1>1, <1>13
-----------------------------------------------------------------------------
(* Rotations, as changes of a tree. *)

LEMMA Sides ==
  /\ \A d \in Dirs : \A x, y, z \in Nodes :
       OnSide(d, x, y) /\ OnSide(d, y, z) => OnSide(d, x, z)
  /\ \A d \in Dirs : \A x, y \in Nodes : OnSide(d, x, y) <=> OnSide(1 - d, y, x)
  /\ \A d \in Dirs : \A x, y \in Nodes : OnSide(d, x, y) => Key(x) # Key(y) /\ x # y
<1>1. \A n \in Nodes : Key(n) \in Int
  BY KeyType
<1>2. \A d \in Dirs : \A x, y, z \in Nodes :
       OnSide(d, x, y) /\ OnSide(d, y, z) => OnSide(d, x, z)
  BY <1>1, SMT DEF OnSide
<1>3. \A d \in Dirs : \A x, y \in Nodes : OnSide(d, x, y) <=> OnSide(1 - d, y, x)
  <2>1. \A d \in Dirs : d = LEFT <=> 1 - d # LEFT
    BY Directions
  <2>2. QED
    BY <1>1, <2>1, SMT DEF OnSide
<1>4. \A d \in Dirs : \A x, y \in Nodes : OnSide(d, x, y) => Key(x) # Key(y)
  BY <1>1, SMT DEF OnSide
<1>5. QED
  BY <1>2, <1>3, <1>4

\* A node above two trees.
LEMMA Compose ==
  ASSUME NEW g, NEW m \in Nodes, NEW d \in Dirs, NEW D, NEW O,
         NEW kd \in Nat, NEW ko \in Nat, NEW k \in Nat, k = 1 + Higher(kd, ko),
         Avl(g, g.child[m][d], D, kd), Avl(g, g.child[m][1 - d], O, ko),
         \A x \in D : OnSide(d, x, m), \A x \in O : OnSide(1 - d, x, m),
         Weighs(g.state[m], d, kd, ko), NEW S, S = D \cup {m} \cup O
  PROVE  Avl(g, m, S, k)
<1>1. Splits(g, m, S, k, d, D, O, kd, ko)
  BY Zenon DEF Splits
<1>2. QED
  BY <1>1, AvlFold

LEMMA OutsidePart ==
  ASSUME NEW slot, NEW X, NEW Y, Outside(slot, X), Y \subseteq X
  PROVE  Outside(slot, Y)
BY DEF Outside

\* The tree under a slot whose side n is two higher than the other, and what
\* Rotate makes of it.
Leaning(h, slot, n, a, C, O, kc, ko) ==
  /\ a = At(h, slot)
  /\ Avl(h, h.child[a][n], C, kc) /\ Avl(h, h.child[a][1 - n], O, ko)
  /\ \A x \in C : OnSide(n, x, a)
  /\ \A x \in O : OnSide(1 - n, x, a)
  /\ kc = ko + 2
  /\ h.state[a] = n
  /\ Outside(slot, C \cup {a} \cup O)

Upright(g, h, slot, S, k) ==
  /\ g \in Heaps
  /\ Alike(g, h, slot, S)
  /\ Avl(g, At(g, slot), S, k)

LEMMA SingleRotationWorks ==
  ASSUME NEW h \in Heaps, NEW slot \in Slots, NEW n \in Dirs, NEW a \in Nodes,
         NEW C \in SUBSET Nodes, NEW O \in SUBSET Nodes, NEW kc \in Nat, NEW ko \in Nat,
         Leaning(h, slot, n, a, C, O, kc, ko), h.state[h.child[a][n]] # 1 - n
  PROVE  \E g, stop :
           /\ SingleRotation(h, slot, n) = [heap |-> g, stop |-> stop]
           /\ stop \in BOOLEAN /\ (stop <=> h.state[h.child[a][n]] = BALANCED)
           /\ Upright(g, h, slot, C \cup {a} \cup O, IF stop THEN ko + 3 ELSE ko + 2)
<1> DEFINE c == h.child[a][n]
           r == 1 - n
           S == C \cup {a} \cup O
<1>0. r \in Dirs /\ 1 - r = n /\ r # n /\ n # BALANCED /\ r # BALANCED
  BY Directions
<1>1. Avl(h, c, C, kc) /\ kc = ko + 2 /\ Avl(h, h.child[a][r], O, ko)
      /\ h.state[a] = n /\ a = At(h, slot)
  BY DEF Leaning
<1>2. c # Null /\ c \in Nodes /\ c \in C
  <2>1. kc # 0
    BY <1>1, SMT
  <2>2. QED
    BY <1>1, <2>1, AvlType, NullIsNoNode
<1> HIDE DEF c
<1>3. PICK D \in SUBSET Nodes, E \in SUBSET Nodes, kd \in Nat, ke \in Nat :
        Splits(h, c, C, kc, n, D, E, kd, ke)
  BY <1>1, <1>2, AvlUnfold
<1>4. Apart(a, n, C, O)
  BY SidesApart DEF Leaning
<1>5. Apart(c, n, D, E)
  BY <1>2, <1>3, SplitsApart
<1>6. /\ Avl(h, h.child[c][n], D, kd) /\ Avl(h, h.child[c][r], E, ke)
      /\ C = D \cup {c} \cup E
      /\ \A x \in D : OnSide(n, x, c)
      /\ \A x \in E : OnSide(r, x, c)
  BY <1>3, Zenon DEF Splits
<1>7. a # c /\ a \notin C /\ a \notin O /\ C \cap O = {} /\ c \notin D /\ c \notin E /\ c \notin O
  BY <1>2, <1>4, <1>5 DEF Apart
<1>8. /\ \A x \in C : OnSide(n, x, a)
      /\ \A x \in O : OnSide(r, x, a)
      /\ Outside(slot, S)
  BY DEF Leaning
<1>9. Outside(slot, {a, c}) /\ Outside(slot, D) /\ Outside(slot, E) /\ Outside(slot, O)
  BY <1>2, <1>6, <1>8, OutsidePart
<1>10. PICK g, stop :
         /\ SingleRotation(h, slot, n) = [heap |-> g, stop |-> stop]
         /\ Rotated1(g, h, slot, n, a, c)
         /\ \/ /\ h.state[c] = BALANCED /\ stop = TRUE
               /\ g.state[c] = 1 - n /\ g.state[a] = h.state[a]
            \/ /\ h.state[c] # BALANCED /\ stop = FALSE
               /\ g.state[c] = BALANCED /\ g.state[a] = BALANCED
  <2>1. c = h.child[a][n]
    BY DEF c
  <2>2. SingleRotated(h, slot, n, a, c)
    BY <1>1, <1>2, <1>7, <1>9, <2>1, SingleRotationIs
  <2>3. QED
    BY <2>2, Zenon DEF SingleRotated
<1>11. /\ g \in Heaps /\ At(g, slot) = c
       /\ g.child[c][n] = h.child[c][n] /\ g.child[c][r] = a
       /\ g.child[a][n] = h.child[c][r] /\ g.child[a][r] = h.child[a][r]
       /\ Alike(g, h, slot, {a, c})
  BY <1>10 DEF Rotated1
<1>12. /\ Avl(g, g.child[c][n], D, kd) /\ Avl(g, g.child[a][n], E, ke)
       /\ Avl(g, g.child[a][r], O, ko)
  <2>1. D \cap {a, c} = {} /\ E \cap {a, c} = {} /\ O \cap {a, c} = {}
    BY <1>6, <1>7
  <2>2. Avl(g, h.child[c][n], D, kd)
    BY <1>6, <1>9, <1>11, <2>1, FrameAlike
  <2>3. Avl(g, h.child[c][r], E, ke)
    BY <1>6, <1>9, <1>11, <2>1, FrameAlike
  <2>4. Avl(g, h.child[a][r], O, ko)
    BY <1>1, <1>9, <1>11, <2>1, FrameAlike
  <2>5. QED
    BY <1>11, <2>2, <2>3, <2>4
<1> DEFINE B == E \cup {a} \cup O
           ka == IF stop THEN ko + 2 ELSE ko + 1
           k == IF stop THEN ko + 3 ELSE ko + 2
<1>13. /\ ka \in Nat /\ k \in Nat /\ ka = 1 + Higher(ke, ko) /\ k = 1 + Higher(kd, ka)
       /\ Weighs(g.state[a], n, ke, ko) /\ Weighs(g.state[c], n, kd, ka)
  <2>1. Weighs(h.state[c], n, kd, ke) /\ kc = 1 + Higher(kd, ke)
    BY <1>3 DEF Splits
  <2>2. h.state[c] # r
    BY DEF c
  <2>3. CASE stop = TRUE
    <3>1. kd = ko + 1 /\ ke = ko + 1
      BY <1>0, <1>1, <1>10, <2>1, <2>2, <2>3, SMT DEF Weighs, Higher
    <3>2. QED
      BY <1>0, <1>1, <1>10, <2>3, <3>1, SMT DEF Weighs, Higher
  <2>4. CASE stop = FALSE
    <3>1. kd = ko + 1 /\ ke = ko
      BY <1>0, <1>1, <1>10, <2>1, <2>2, <2>4, SMT DEF Weighs, Higher
    <3>2. QED
      BY <1>0, <1>1, <1>10, <2>4, <3>1, SMT DEF Weighs, Higher
  <2>5. QED
    BY <1>10, <2>3, <2>4
<1>14. Avl(g, a, B, ka)
  <2>1. (\A x \in E : OnSide(n, x, a)) /\ \A x \in O : OnSide(1 - n, x, a)
    BY <1>6, <1>8
  <2> HIDE DEF ka, B
  <2>2. B = E \cup {a} \cup O
    BY DEF B
  <2>3. QED
    BY <1>0, <1>12, <1>13, <2>1, <2>2, Compose
<1>15. \A x \in B : OnSide(r, x, c)
  <2>1. OnSide(n, c, a)
    BY <1>2, <1>8
  <2>2. OnSide(r, a, c)
    BY <1>2, <2>1, Sides
  <2>3. \A x \in O : OnSide(r, x, c)
    <3>1. TAKE x \in O
    <3>2. OnSide(r, x, a) /\ x \in Nodes
      BY <1>8
    <3>3. QED
      BY <1>0, <1>2, <2>2, <3>2, Sides
  <2>4. QED
    BY <1>6, <2>2, <2>3
<1>16. Avl(g, c, S, k)
  <2>1. S = D \cup {c} \cup B
    BY <1>6
  <2>2. Avl(g, g.child[c][1 - n], B, ka)
    BY <1>11, <1>14
  <2>3. \A x \in B : OnSide(1 - n, x, c)
    BY <1>15
  <2> HIDE DEF ka, k, B, S
  <2>4. QED
    BY <1>2, <1>6, <1>12, <1>13, <2>1, <2>2, <2>3, Compose
<1>17. Alike(g, h, slot, S)
  <2>1. {a, c} \subseteq S
    BY <1>2
  <2>2. Alike(h, h, slot, S)
    BY AlikeSame
  <2>3. QED
    BY <1>11, <2>1 DEF Alike
<1>18. Upright(g, h, slot, S, k)
  BY <1>11, <1>16, <1>17 DEF Upright
<1>19. stop \in BOOLEAN /\ (stop <=> h.state[c] = BALANCED)
  BY <1>10
<1>20. QED
  BY <1>10, <1>18, <1>19 DEF c

LEMMA DoubleRotationWorks ==
  ASSUME NEW h \in Heaps, NEW slot \in Slots, NEW n \in Dirs, NEW a \in Nodes,
         NEW C \in SUBSET Nodes, NEW O \in SUBSET Nodes, NEW kc \in Nat, NEW ko \in Nat,
         Leaning(h, slot, n, a, C, O, kc, ko), h.state[h.child[a][n]] = 1 - n
  PROVE  \E g : /\ DoubleRotation(h, slot, n) = [heap |-> g, stop |-> FALSE]
                /\ Upright(g, h, slot, C \cup {a} \cup O, ko + 2)
<1> DEFINE c == h.child[a][n]
           r == 1 - n
           x == h.child[c][r]
           S == C \cup {a} \cup O
<1>0. r \in Dirs /\ 1 - r = n /\ r # n /\ n # BALANCED /\ r # BALANCED
  BY Directions
<1>1. Avl(h, c, C, kc) /\ kc = ko + 2 /\ Avl(h, h.child[a][r], O, ko)
      /\ h.state[a] = n /\ a = At(h, slot)
  BY DEF Leaning
<1>2. c # Null /\ c \in Nodes /\ c \in C
  <2>1. kc # 0
    BY <1>1, SMT
  <2>2. QED
    BY <1>1, <2>1, AvlType, NullIsNoNode
<1>a. h.state[c] = r
  OBVIOUS
<1> HIDE DEF c
<1>3. PICK D \in SUBSET Nodes, E \in SUBSET Nodes, kd \in Nat, ke \in Nat :
        Splits(h, c, C, kc, n, D, E, kd, ke)
  BY <1>1, <1>2, AvlUnfold
<1>4. /\ Avl(h, h.child[c][n], D, kd) /\ Avl(h, x, E, ke)
      /\ C = D \cup {c} \cup E
      /\ \A y \in D : OnSide(n, y, c)
      /\ \A y \in E : OnSide(r, y, c)
  BY <1>3, Zenon DEF Splits
<1>5. kd = ko /\ ke = ko + 1
  <2>1. Weighs(h.state[c], n, kd, ke) /\ kc = 1 + Higher(kd, ke)
    BY <1>3 DEF Splits
  <2>2. QED
    BY <1>0, <1>1, <1>a, <2>1, SMT DEF Weighs, Higher
<1>6. x # Null /\ x \in Nodes /\ x \in E
  <2>1. ke # 0
    BY <1>5, SMT
  <2>2. QED
    BY <1>4, <2>1, AvlType, NullIsNoNode
<1> HIDE DEF x
<1>7. PICK F \in SUBSET Nodes, G \in SUBSET Nodes, kf \in Nat, kg \in Nat :
        Splits(h, x, E, ke, n, F, G, kf, kg)
  BY <1>4, <1>6, AvlUnfold
<1>8. /\ Avl(h, h.child[x][n], F, kf) /\ Avl(h, h.child[x][r], G, kg)
      /\ E = F \cup {x} \cup G
      /\ \A y \in F : OnSide(n, y, x)
      /\ \A y \in G : OnSide(r, y, x)
  BY <1>7, Zenon DEF Splits
<1>9. Apart(a, n, C, O) /\ Apart(c, n, D, E) /\ Apart(x, n, F, G)
  BY <1>2, <1>3, <1>6, <1>7, SplitsApart, SidesApart DEF Leaning
<1>10. /\ a \notin C /\ a \notin O /\ C \cap O = {}
       /\ c \notin D /\ c \notin E /\ D \cap E = {}
       /\ x \notin F /\ x \notin G /\ F \cap G = {}
  BY <1>9 DEF Apart
<1>11. a # c /\ a # x /\ c # x
  BY <1>2, <1>4, <1>6, <1>10
<1>12. /\ D \cap {a, c, x} = {} /\ F \cap {a, c, x} = {} /\ G \cap {a, c, x} = {}
       /\ O \cap {a, c, x} = {}
  BY <1>2, <1>4, <1>6, <1>8, <1>10
<1>13. /\ \A y \in C : OnSide(n, y, a)
       /\ \A y \in O : OnSide(r, y, a)
       /\ Outside(slot, S)
  BY DEF Leaning
<1>14. /\ Outside(slot, {a, c, x}) /\ Outside(slot, D) /\ Outside(slot, F)
       /\ Outside(slot, G) /\ Outside(slot, O)
  BY <1>2, <1>4, <1>6, <1>8, <1>13, OutsidePart
<1>15. PICK g : /\ DoubleRotation(h, slot, n) = [heap |-> g, stop |-> FALSE]
                /\ Rotated2(g, h, slot, n, a, c, x)
  BY <1>1, <1>2, <1>6, <1>11, <1>14, DoubleRotationIs DEF c, x
<1>16. /\ g \in Heaps /\ At(g, slot) = x
       /\ g.child[x][n] = c /\ g.child[x][r] = a
       /\ g.child[c][n] = h.child[c][n] /\ g.child[c][r] = h.child[x][n]
       /\ g.child[a][n] = h.child[x][r] /\ g.child[a][r] = h.child[a][r]
       /\ g.state[x] = BALANCED
       /\ g.state[a] = (IF h.state[x] = n THEN r ELSE BALANCED)
       /\ g.state[c] = (IF h.state[x] = r THEN n ELSE BALANCED)
       /\ Alike(g, h, slot, {a, c, x})
  BY <1>15, Zenon DEF Rotated2
<1>17. /\ Avl(g, g.child[c][n], D, ko) /\ Avl(g, g.child[c][r], F, kf)
       /\ Avl(g, g.child[a][n], G, kg) /\ Avl(g, g.child[a][r], O, ko)
  <2>1. Avl(g, h.child[c][n], D, ko)
    BY <1>4, <1>5, <1>12, <1>14, <1>16, FrameAlike
  <2>2. Avl(g, h.child[x][n], F, kf)
    BY <1>8, <1>12, <1>14, <1>16, FrameAlike
  <2>3. Avl(g, h.child[x][r], G, kg)
    BY <1>8, <1>12, <1>14, <1>16, FrameAlike
  <2>4. Avl(g, h.child[a][r], O, ko)
    BY <1>1, <1>12, <1>14, <1>16, FrameAlike
  <2>5. QED
    BY <1>16, <2>1, <2>2, <2>3, <2>4
<1>18. /\ Weighs(g.state[c], n, ko, kf) /\ Weighs(g.state[a], n, kg, ko)
       /\ ko + 1 = 1 + Higher(ko, kf) /\ ko + 1 = 1 + Higher(kg, ko)
  <2>1. Weighs(h.state[x], n, kf, kg) /\ ke = 1 + Higher(kf, kg)
    BY <1>7 DEF Splits
  <2>2. CASE h.state[x] = n
    <3>1. kf = ko /\ ko = kg + 1
      BY <1>0, <1>5, <2>1, <2>2, SMT DEF Weighs, Higher
    <3>2. g.state[a] = r /\ g.state[c] = BALANCED
      BY <1>0, <1>16, <2>2
    <3>3. QED
      BY <1>0, <3>1, <3>2, SMT DEF Weighs, Higher
  <2>3. CASE h.state[x] = r
    <3>1. kg = ko /\ ko = kf + 1
      BY <1>0, <1>5, <2>1, <2>3, SMT DEF Weighs, Higher
    <3>2. g.state[a] = BALANCED /\ g.state[c] = n
      BY <1>0, <1>16, <2>3
    <3>3. QED
      BY <1>0, <3>1, <3>2, SMT DEF Weighs, Higher
  <2>4. CASE h.state[x] = BALANCED
    <3>1. kg = ko /\ kf = ko
      BY <1>0, <1>5, <2>1, <2>4, SMT DEF Weighs, Higher
    <3>2. g.state[a] = BALANCED /\ g.state[c] = BALANCED
      BY <1>0, <1>16, <2>4
    <3>3. QED
      BY <1>0, <3>1, <3>2, SMT DEF Weighs, Higher
  <2>5. h.state[x] \in {n, r, BALANCED}
    BY <1>0, <2>1 DEF Weighs
  <2>6. QED
    BY <2>2, <2>3, <2>4, <2>5
<1> DEFINE A == G \cup {a} \cup O
           B == D \cup {c} \cup F
<1>19. \A y \in F : OnSide(r, y, c)
  BY <1>4, <1>8
<1>20. \A y \in G : OnSide(n, y, a)
  BY <1>4, <1>8, <1>13
<1>21. ko + 1 \in Nat /\ ko + 2 \in Nat
  OBVIOUS
<1>22. Avl(g, c, B, ko + 1)
  <2> HIDE DEF B, r
  <2>1. B = D \cup {c} \cup F
    BY DEF B
  <2>2. Avl(g, g.child[c][1 - n], F, kf) /\ \A y \in F : OnSide(1 - n, y, c)
    BY <1>17, <1>19 DEF r
  <2>3. QED
    BY <1>2, <1>4, <1>17, <1>18, <1>21, <2>1, <2>2, Compose
<1>23. Avl(g, a, A, ko + 1)
  <2> HIDE DEF A, r
  <2>1. A = G \cup {a} \cup O
    BY DEF A
  <2>2. Avl(g, g.child[a][1 - n], O, ko) /\ \A y \in O : OnSide(1 - n, y, a)
    BY <1>13, <1>17 DEF r
  <2>3. QED
    BY <1>17, <1>18, <1>20, <1>21, <2>1, <2>2, Compose
<1>24. \A y \in A : OnSide(r, y, x)
  <2>1. OnSide(n, x, a)
    BY <1>4, <1>6, <1>13
  <2>2. OnSide(r, a, x)
    BY <1>6, <2>1, Sides
  <2>3. \A y \in O : OnSide(r, y, x)
    <3>1. TAKE y \in O
    <3>2. OnSide(r, y, a) /\ y \in Nodes
      BY <1>13
    <3>3. QED
      BY <1>0, <1>6, <2>2, <3>2, Sides
  <2>4. QED
    BY <1>8, <2>2, <2>3
<1>25. \A y \in B : OnSide(n, y, x)
  <2>1. OnSide(r, x, c)
    BY <1>4, <1>6
  <2>2. OnSide(n, c, x)
    BY <1>0, <1>2, <1>6, <2>1, Sides
  <2>3. \A y \in D : OnSide(n, y, x)
    <3>1. TAKE y \in D
    <3>2. OnSide(n, y, c) /\ y \in Nodes
      BY <1>4
    <3>3. QED
      BY <1>2, <1>6, <2>2, <3>2, Sides
  <2>4. QED
    BY <1>8, <2>2, <2>3
<1>26. Avl(g, x, S, ko + 2)
  <2>1. S = B \cup {x} \cup A
    BY <1>4, <1>8
  <2>2. Avl(g, g.child[x][n], B, ko + 1) /\ Avl(g, g.child[x][1 - n], A, ko + 1)
    BY <1>16, <1>22, <1>23
  <2>3. \A y \in A : OnSide(1 - n, y, x)
    BY <1>24
  <2>4. ko + 2 = 1 + Higher(ko + 1, ko + 1) /\ Weighs(g.state[x], n, ko + 1, ko + 1)
    BY <1>16, SMT DEF Higher, Weighs
  <2> HIDE DEF A, B, S, r
  <2>5. QED
    BY <1>6, <1>21, <1>25, <2>1, <2>2, <2>3, <2>4, Compose
<1>27. Alike(g, h, slot, S)
  <2>1. {a, c, x} \subseteq S
    BY <1>2, <1>4, <1>6
  <2>2. QED
    BY <1>16, <2>1 DEF Alike
<1>28. Upright(g, h, slot, S, ko + 2)
  BY <1>16, <1>26, <1>27 DEF Upright
<1>29. QED
  BY <1>15, <1>28

\* Rotate: the tree under the slot is balanced again.  It is as high as it was
\* when it says that nothing is left to do, otherwise one less.
LEMMA RotateWorks ==
  ASSUME NEW h \in Heaps, NEW slot \in Slots, NEW n \in Dirs, NEW a \in Nodes,
         NEW C \in SUBSET Nodes, NEW O \in SUBSET Nodes, NEW kc \in Nat, NEW ko \in Nat,
         Leaning(h, slot, n, a, C, O, kc, ko)
  PROVE  \E g, stop :
           /\ Rotate(h, slot, n) = [heap |-> g, stop |-> stop]
           /\ stop \in BOOLEAN /\ (stop <=> h.state[h.child[a][n]] = BALANCED)
           /\ Upright(g, h, slot, C \cup {a} \cup O, IF stop THEN ko + 3 ELSE ko + 2)
<1>1. a = At(h, slot)
  BY DEF Leaning
<1>2. CASE h.state[h.child[a][n]] # 1 - n
  <2>1. Rotate(h, slot, n) = SingleRotation(h, slot, n)
    BY <1>1, <1>2 DEF Rotate
  <2>2. QED
    BY <1>2, <2>1, SingleRotationWorks, ZenonT(40)
<1>3. CASE h.state[h.child[a][n]] = 1 - n
  <2>1. Rotate(h, slot, n) = DoubleRotation(h, slot, n)
    BY <1>1, <1>3 DEF Rotate
  <2>2. PICK g : /\ DoubleRotation(h, slot, n) = [heap |-> g, stop |-> FALSE]
                 /\ Upright(g, h, slot, C \cup {a} \cup O, ko + 2)
    BY <1>3, DoubleRotationWorks
  <2>3. h.state[h.child[a][n]] # BALANCED
    BY <1>3, Directions
  <2>4. QED
    BY <2>1, <2>2, <2>3
<1>4. QED
  BY <1>2, <1>3
-----------------------------------------------------------------------------
(* One node of the way up. *)

\* The node a in the slot with its two sides: side d first.
Sided(h, slot, d, a, D, O, kd, ko) ==
  /\ a = At(h, slot)
  /\ Avl(h, h.child[a][d], D, kd) /\ Avl(h, h.child[a][1 - d], O, ko)
  /\ \A x \in D : OnSide(d, x, a)
  /\ \A x \in O : OnSide(1 - d, x, a)
  /\ Outside(slot, D \cup {a} \cup O)

Balances == {LEFT, RIGHT, BALANCED}
WithState(h, a, s) == [h EXCEPT !.state[a] = s]

\* A new m_nState is all it takes.
LEMMA StateWorks ==
  ASSUME NEW h \in Heaps, NEW slot \in Slots, NEW d \in Dirs, NEW a \in Nodes,
         NEW D \in SUBSET Nodes, NEW O \in SUBSET Nodes, NEW kd \in Nat, NEW ko \in Nat,
         Sided(h, slot, d, a, D, O, kd, ko),
         NEW s \in Balances, Weighs(s, d, kd, ko), NEW k \in Nat, k = 1 + Higher(kd, ko),
         NEW g, g = WithState(h, a, s)
  PROVE  /\ Upright(g, h, slot, D \cup {a} \cup O, k)
         /\ At(g, slot) = a /\ g.state[a] = s
<1> DEFINE S == D \cup {a} \cup O
<1>1. StateSet(g, h, a, s)
  BY StateIs DEF Balances, WithState
<1>2. g \in Heaps /\ g.child = h.child /\ g.root = h.root /\ g.state[a] = s
  BY <1>1 DEF StateSet
<1>3. Alike(g, h, slot, {a})
  BY <1>1 DEF StateSet, Alike
<1>4. Alike(g, h, slot, S)
  BY <1>3 DEF Alike
<1>5. At(g, slot) = a
  <2>1. At(h, slot) = a
    BY DEF Sided
  <2>2. QED
    BY <1>2, <2>1 DEF At
<1>6. Apart(a, d, D, O)
  BY SidesApart DEF Sided
<1>7. Outside(slot, D) /\ Outside(slot, O) /\ D \cap {a} = {} /\ O \cap {a} = {}
  BY <1>6, OutsidePart DEF Apart, Sided
<1>8. Avl(g, g.child[a][d], D, kd) /\ Avl(g, g.child[a][1 - d], O, ko)
  <2>1. Avl(h, h.child[a][d], D, kd) /\ Avl(h, h.child[a][1 - d], O, ko)
    BY DEF Sided
  <2>2. Avl(g, h.child[a][d], D, kd)
    BY <1>2, <1>3, <1>7, <2>1, FrameAlike
  <2>3. Avl(g, h.child[a][1 - d], O, ko)
    BY <1>2, <1>3, <1>7, <2>1, FrameAlike
  <2>4. QED
    BY <1>2, <2>2, <2>3
<1>9. Avl(g, a, S, k)
  <2>1. S = D \cup {a} \cup O
    OBVIOUS
  <2>2. Weighs(g.state[a], d, kd, ko)
    BY <1>2
  <2>3. (\A x \in D : OnSide(d, x, a)) /\ \A x \in O : OnSide(1 - d, x, a)
    BY DEF Sided
  <2> HIDE DEF S
  <2>4. QED
    BY <1>8, <2>1, <2>2, <2>3, Compose
<1>10. QED
  BY <1>2, <1>4, <1>5, <1>9 DEF Upright

SidedAndLeaning(h, slot, n, a, C, O, kc, ko) ==
  Sided(h, slot, n, a, C, O, kc, ko) /\ kc = ko + 2 /\ h.state[a] = n

LEMMA LeaningIs ==
  ASSUME NEW h, NEW slot, NEW n, NEW a, NEW C, NEW O, NEW kc, NEW ko,
         SidedAndLeaning(h, slot, n, a, C, O, kc, ko)
  PROVE  Leaning(h, slot, n, a, C, O, kc, ko)
BY Zenon DEF SidedAndLeaning, Sided, Leaning

LEMMA SidedOtherWay ==
  ASSUME NEW h, NEW slot, NEW d \in Dirs, NEW a, NEW D, NEW O, NEW kd, NEW ko,
         Sided(h, slot, d, a, D, O, kd, ko)
  PROVE  Sided(h, slot, 1 - d, a, O, D, ko, kd)
<1>1. 1 - (1 - d) = d
  BY Directions
<1>2. O \cup {a} \cup D = D \cup {a} \cup O
  OBVIOUS
<1>3. QED
  BY <1>1, <1>2, Zenon DEF Sided

\* The root of a tree that has grown is out of balance, unless it is new.
Ripe(h, m, k) == k = 1 \/ h.state[m] # BALANCED

GrownUpright(h, slot, d, S, k) ==
  \E g, stop :
    /\ GrownAt(h, slot, d) = [heap |-> g, stop |-> stop] /\ stop \in BOOLEAN
    /\ Upright(g, h, slot, S, IF stop THEN k ELSE k + 1)
    /\ ~stop => Ripe(g, At(g, slot), k + 1)

LEMMA GrownAtWorks ==
  ASSUME NEW h \in Heaps, NEW slot \in Slots, NEW d \in Dirs, NEW a \in Nodes,
         NEW D \in SUBSET Nodes, NEW O \in SUBSET Nodes, NEW kd \in Nat, NEW ko \in Nat,
         Sided(h, slot, d, a, D, O, kd + 1, ko), Ripe(h, h.child[a][d], kd + 1),
         Weighs(h.state[a], d, kd, ko), NEW k \in Nat, k = 1 + Higher(kd, ko)
  PROVE  GrownUpright(h, slot, d, D \cup {a} \cup O, k)
<1>0. /\ 1 - d \in Dirs /\ d \in Balances /\ BALANCED \in Balances
      /\ d # BALANCED /\ 1 - d # d /\ 1 - d # BALANCED
  BY Directions DEF Balances
<1>1. a = At(h, slot)
  BY DEF Sided
<1>2. kd + 1 \in Nat /\ k + 1 \in Nat
  OBVIOUS
<1>3. CASE h.state[a] = BALANCED
  <2> DEFINE g == WithState(h, a, d)
  <2>1. GrownAt(h, slot, d) = [heap |-> g, stop |-> FALSE]
    BY <1>1, <1>3 DEF GrownAt, WithState
  <2>2. Weighs(d, d, kd + 1, ko) /\ k + 1 = 1 + Higher(kd + 1, ko)
    BY <1>0, <1>3, SMT DEF Weighs, Higher
  <2>3. g = WithState(h, a, d)
    OBVIOUS
  <2> HIDE DEF g
  <2>4. Upright(g, h, slot, D \cup {a} \cup O, k + 1) /\ At(g, slot) = a /\ g.state[a] = d
    <3> DEFINE t == d
               m == kd + 1
               i == k + 1
    <3>1. /\ t \in Balances /\ Weighs(t, d, m, ko) /\ g = WithState(h, a, t) /\ m \in Nat
          /\ i \in Nat /\ i = 1 + Higher(m, ko) /\ Sided(h, slot, d, a, D, O, m, ko)
      BY <1>0, <1>2, <2>2, <2>3
    <3> HIDE DEF t, m, i
    <3>2. Upright(g, h, slot, D \cup {a} \cup O, i) /\ At(g, slot) = a /\ g.state[a] = t
      BY <3>1, StateWorks
    <3>3. QED
      BY <3>2 DEF t, i
  <2>5. Ripe(g, At(g, slot), k + 1)
    BY <1>0, <2>4 DEF Ripe
  <2>6. QED
    BY <2>1, <2>4, <2>5 DEF GrownUpright
<1>4. CASE h.state[a] = 1 - d
  <2> DEFINE g == WithState(h, a, BALANCED)
  <2>1. GrownAt(h, slot, d) = [heap |-> g, stop |-> TRUE]
    BY <1>0, <1>1, <1>4 DEF GrownAt, WithState
  <2>2. Weighs(BALANCED, d, kd + 1, ko) /\ k = 1 + Higher(kd + 1, ko)
    BY <1>0, <1>4, SMT DEF Weighs, Higher
  <2>3. g = WithState(h, a, BALANCED)
    OBVIOUS
  <2> HIDE DEF g
  <2>4. Upright(g, h, slot, D \cup {a} \cup O, k)
    BY <1>0, <1>2, <2>2, <2>3, StateWorks
  <2>5. QED
    BY <2>1, <2>4 DEF GrownUpright
<1>5. CASE h.state[a] = d
  <2>1. GrownAt(h, slot, d) = [heap |-> Rotate(h, slot, d).heap, stop |-> TRUE]
    BY <1>0, <1>1, <1>5 DEF GrownAt, WithState
  <2>2. kd + 1 = ko + 2 /\ k = ko + 2
    BY <1>0, <1>5, SMT DEF Weighs, Higher
  <2>3. Leaning(h, slot, d, a, D, O, kd + 1, ko)
    BY <1>5, <2>2, LeaningIs DEF SidedAndLeaning
  <2>4. PICK g, stop :
          /\ Rotate(h, slot, d) = [heap |-> g, stop |-> stop]
          /\ stop \in BOOLEAN /\ (stop <=> h.state[h.child[a][d]] = BALANCED)
          /\ Upright(g, h, slot, D \cup {a} \cup O, IF stop THEN ko + 3 ELSE ko + 2)
    BY <1>2, <2>3, RotateWorks
  <2>5. kd + 1 # 1
    BY <2>2, SMT
  <2>6. stop = FALSE
    BY <2>4, <2>5 DEF Ripe
  <2>7. Upright(g, h, slot, D \cup {a} \cup O, k)
    BY <2>2, <2>4, <2>6
  <2>8. Rotate(h, slot, d).heap = g
    BY <2>4
  <2>9. QED
    BY <2>1, <2>7, <2>8 DEF GrownUpright
<1>6. h.state[a] \in {BALANCED, d, 1 - d}
  BY DEF Weighs
<1>7. QED
  BY <1>3, <1>4, <1>5, <1>6

ShrunkUpright(h, slot, d, S, k) ==
  \E g, stop :
    /\ ShrunkAt(h, slot, d) = [heap |-> g, stop |-> stop] /\ stop \in BOOLEAN
    /\ Upright(g, h, slot, S, IF stop THEN k ELSE k - 1)

LEMMA ShrunkAtWorks ==
  ASSUME NEW h \in Heaps, NEW slot \in Slots, NEW d \in Dirs, NEW a \in Nodes,
         NEW D \in SUBSET Nodes, NEW O \in SUBSET Nodes, NEW kd \in Nat, NEW ko \in Nat,
         Sided(h, slot, d, a, D, O, kd, ko),
         Weighs(h.state[a], d, kd + 1, ko), NEW k \in Nat, k = 1 + Higher(kd + 1, ko)
  PROVE  ShrunkUpright(h, slot, d, D \cup {a} \cup O, k)
<1>0. /\ 1 - d \in Dirs /\ 1 - d \in Balances /\ BALANCED \in Balances
      /\ d # BALANCED /\ 1 - d # d /\ 1 - d # BALANCED
  BY Directions DEF Balances
<1>1. a = At(h, slot)
  BY DEF Sided
<1>2. k - 1 \in Nat
  BY SMT DEF Higher
<1>3. CASE h.state[a] = BALANCED
  <2> DEFINE g == WithState(h, a, 1 - d)
  <2>1. ShrunkAt(h, slot, d) = [heap |-> g, stop |-> TRUE]
    BY <1>1, <1>3 DEF ShrunkAt, WithState
  <2>2. Weighs(1 - d, d, kd, ko) /\ k = 1 + Higher(kd, ko)
    BY <1>0, <1>3, SMT DEF Weighs, Higher
  <2>3. g = WithState(h, a, 1 - d)
    OBVIOUS
  <2> HIDE DEF g
  <2>4. Upright(g, h, slot, D \cup {a} \cup O, k)
    BY <1>0, <2>2, <2>3, StateWorks
  <2>5. QED
    BY <2>1, <2>4 DEF ShrunkUpright
<1>4. CASE h.state[a] = d
  <2> DEFINE g == WithState(h, a, BALANCED)
  <2>1. ShrunkAt(h, slot, d) = [heap |-> g, stop |-> FALSE]
    BY <1>0, <1>1, <1>4 DEF ShrunkAt, WithState
  <2>2. Weighs(BALANCED, d, kd, ko) /\ k - 1 = 1 + Higher(kd, ko)
    BY <1>0, <1>4, SMT DEF Weighs, Higher
  <2>3. g = WithState(h, a, BALANCED)
    OBVIOUS
  <2> HIDE DEF g
  <2>4. Upright(g, h, slot, D \cup {a} \cup O, k - 1)
    BY <1>0, <1>2, <2>2, <2>3, StateWorks
  <2>5. QED
    BY <2>1, <2>4 DEF ShrunkUpright
<1>5. CASE h.state[a] = 1 - d
  <2>1. ShrunkAt(h, slot, d) = Rotate(h, slot, 1 - d)
    BY <1>0, <1>1, <1>5 DEF ShrunkAt, WithState
  <2>2. ko = kd + 2 /\ k = kd + 3
    BY <1>0, <1>5, SMT DEF Weighs, Higher
  <2>3. Sided(h, slot, 1 - d, a, O, D, ko, kd)
    BY SidedOtherWay
  <2>4. Leaning(h, slot, 1 - d, a, O, D, ko, kd)
    BY <1>5, <2>2, <2>3, LeaningIs DEF SidedAndLeaning
  <2>5. PICK g, stop :
          /\ Rotate(h, slot, 1 - d) = [heap |-> g, stop |-> stop]
          /\ stop \in BOOLEAN /\ (stop <=> h.state[h.child[a][1 - d]] = BALANCED)
          /\ Upright(g, h, slot, O \cup {a} \cup D, IF stop THEN kd + 3 ELSE kd + 2)
    BY <1>0, <2>4, RotateWorks
  <2>6. O \cup {a} \cup D = D \cup {a} \cup O /\ kd + 2 = k - 1
    BY <2>2
  <2>7. Upright(g, h, slot, D \cup {a} \cup O, IF stop THEN k ELSE k - 1)
    BY <2>2, <2>5, <2>6
  <2>8. QED
    BY <2>1, <2>5, <2>7 DEF ShrunkUpright
<1>6. h.state[a] \in {BALANCED, d, 1 - d}
  BY DEF Weighs
<1>7. QED
  BY <1>3, <1>4, <1>5, <1>6

-----------------------------------------------------------------------------
(* The way up. *)

\* Node j of a path: O is the side that the path does not take.
Knot(g, slots, dirs, j, X, K, O, ko) ==
  LET n == At(g, slots[j])
      d == dirs[j]
  IN  /\ n \in Nodes /\ d \in Dirs
      /\ slots[j] \in Slots /\ slots[j + 1] = <<n, d>>
      /\ Avl(g, g.child[n][1 - d], O, ko)
      /\ Weighs(g.state[n], d, K[j + 1], ko)
      /\ K[j] = 1 + Higher(K[j + 1], ko)
      /\ X[j] = X[j + 1] \cup {n} \cup O
      /\ \A x \in X[j + 1] : OnSide(d, x, n)
      /\ \A x \in O : OnSide(1 - d, x, n)
      /\ Outside(slots[j], X[j])

\* A path from the root to the slot after slots[top], in a tree that is in order
\* but for what is in that slot: X are the nodes below each slot, K the heights
\* that the balances of the nodes stand for.
Path(g, slots, dirs, top, X, K) ==
  /\ top \in Nat
  /\ slots[1] = RootSlot
  /\ \A j \in 1..(top + 1) : X[j] \in SUBSET Nodes /\ K[j] \in Nat /\ slots[j] \in Slots
  /\ \A j \in 1..top : \E O \in SUBSET Nodes, ko \in Nat : Knot(g, slots, dirs, j, X, K, O, ko)

\* Node j stands above the changed side and the other one.
Lifted(h, g, slots, dirs, j, X, O, k, ko) ==
  /\ h \in Heaps
  /\ Sided(h, slots[j], dirs[j], At(g, slots[j]), X[j + 1], O, k, ko)
  /\ h.state[At(g, slots[j])] = g.state[At(g, slots[j])]
  /\ h.child[At(g, slots[j])][dirs[j]] = At(h, slots[j + 1])

\* What was done below node j leaves node j and its other side alone.
LEMMA Lift ==
  ASSUME NEW g \in Heaps, NEW slots, NEW dirs, NEW j \in Nat, NEW X, NEW K,
         NEW O \in SUBSET Nodes, NEW ko \in Nat, Knot(g, slots, dirs, j, X, K, O, ko),
         X[j + 1] \in SUBSET Nodes,
         NEW h, NEW k \in Nat, Upright(h, g, slots[j + 1], X[j + 1], k)
  PROVE  Lifted(h, g, slots, dirs, j, X, O, k, ko)
<1> DEFINE n == At(g, slots[j])
           d == dirs[j]
           B == X[j + 1]
<1>1. /\ n \in Nodes /\ d \in Dirs /\ slots[j] \in Slots /\ slots[j + 1] = <<n, d>>
      /\ Avl(g, g.child[n][1 - d], O, ko)
      /\ X[j] = B \cup {n} \cup O
      /\ \A x \in B : OnSide(d, x, n)
      /\ \A x \in O : OnSide(1 - d, x, n)
      /\ Outside(slots[j], X[j])
  BY Zenon DEF Knot
<1> HIDE DEF n, d
<1>2. h \in Heaps /\ Alike(h, g, <<n, d>>, B) /\ Avl(h, At(h, <<n, d>>), B, k)
  BY <1>1 DEF Upright
<1>3. n \notin B /\ n \notin O /\ B \cap O = {}
  <2>1. Apart(n, d, B, O)
    BY <1>1, SidesApart
  <2>2. QED
    BY <2>1 DEF Apart
<1>4. 1 - d \in Dirs /\ 1 - d # d
  BY <1>1, Directions
<1>5. At(h, <<n, d>>) = h.child[n][d]
  BY <1>1, SlotFacts
<1>6. <<n, 1 - d>> # <<n, d>>
  BY <1>4
<1>7. h.state[n] = g.state[n] /\ h.child[n][1 - d] = g.child[n][1 - d]
  BY <1>1, <1>2, <1>3, <1>4, <1>6 DEF Alike
<1>8. Outside(<<n, d>>, O)
  BY <1>3 DEF Outside
<1>9. Avl(h, g.child[n][1 - d], O, ko)
  BY <1>1, <1>2, <1>3, <1>8, FrameAlike
<1>10. At(h, slots[j]) = n
  <2>1. CASE slots[j] = RootSlot
    <3>1. <<n, d>> # RootSlot
      BY <1>1, SlotFacts
    <3>2. h.root = g.root
      BY <1>2, <3>1 DEF Alike
    <3>3. QED
      BY <2>1, <3>2, SlotFacts DEF n
  <2>2. CASE slots[j] # RootSlot
    <3>1. PICK m \in Nodes, e \in Dirs : slots[j] = <<m, e>>
      BY <1>1, <2>2, SlotFacts
    <3>2. m \notin X[j]
      BY <1>1, <3>1 DEF Outside
    <3>3. m \notin B /\ m # n
      BY <1>1, <3>2
    <3>4. <<m, e>> # <<n, d>>
      BY <3>3
    <3>5. h.child[m][e] = g.child[m][e]
      BY <1>2, <3>3, <3>4 DEF Alike
    <3>6. QED
      BY <3>1, <3>5, SlotFacts DEF n
  <2>3. QED
    BY <2>1, <2>2
<1>11. Sided(h, slots[j], d, n, B, O, k, ko)
  <2>1. Outside(slots[j], B \cup {n} \cup O)
    BY <1>1
  <2> HIDE DEF B
  <2>2. Avl(h, h.child[n][d], B, k) /\ Avl(h, h.child[n][1 - d], O, ko)
    BY <1>2, <1>5, <1>7, <1>9
  <2>3. QED
    BY <1>1, <1>10, <2>1, <2>2, Zenon DEF Sided
<1>12. h.child[n][d] = At(h, slots[j + 1])
  BY <1>1, <1>5
<1>13. QED
  BY <1>2, <1>7, <1>11, <1>12 DEF n, d, Lifted

\* A change below slots[j + 1] and then one below slots[j].
LEMMA UprightThrough ==
  ASSUME NEW g, NEW slots, NEW dirs, NEW j \in Nat, NEW X, NEW K,
         NEW O, NEW ko, Knot(g, slots, dirs, j, X, K, O, ko),
         NEW h, NEW k, Upright(h, g, slots[j + 1], X[j + 1], k),
         NEW f, NEW S, S = X[j + 1] \cup {At(g, slots[j])} \cup O,
         NEW i, Upright(f, h, slots[j], S, i)
  PROVE  Upright(f, g, slots[j], X[j], i)
<1> DEFINE n == At(g, slots[j])
           d == dirs[j]
<1>1. /\ slots[j + 1] = <<n, d>> /\ X[j] = X[j + 1] \cup {n} \cup O /\ d \in Dirs
  BY DEF Knot
<1> HIDE DEF n, d
<1>2. S = X[j] /\ X[j + 1] \subseteq X[j] /\ n \in X[j]
  BY <1>1 DEF n
<1>3. Alike(f, h, slots[j], X[j]) /\ Alike(h, g, slots[j + 1], X[j + 1])
  BY <1>2 DEF Upright
<1>4. \E m \in X[j], e \in Dirs : slots[j + 1] = <<m, e>>
  BY <1>1, <1>2
<1>5. Alike(f, g, slots[j], X[j])
  BY <1>2, <1>3, <1>4, AlikeThrough
<1>6. QED
  BY <1>2, <1>5 DEF Upright

\* A change that leaves the height as it was leaves the tree in order.
LEMMA StayWorks ==
  ASSUME NEW g \in Heaps, NEW slots, NEW dirs, NEW top, NEW X, NEW K,
         Path(g, slots, dirs, top, X, K), NEW j \in 1..(top + 1),
         NEW h, Upright(h, g, slots[j], X[j], K[j])
  PROVE  Upright(h, g, RootSlot, X[1], K[1])
<1> DEFINE T == {i \in Nat : Upright(h, g, slots[i], X[i], K[i])}
<1>0. top \in Nat /\ j \in Nat /\ slots[1] = RootSlot
  BY DEF Path
<1>1. j \in T
  BY <1>0
<1>2. ASSUME NEW i \in 1..j, i \in T /\ i > 1 PROVE i - 1 \in T
  <2> DEFINE m == i - 1
  <2>1. m \in Nat /\ m \in 1..top /\ m \in 1..(top + 1) /\ m + 1 = i /\ m + 1 \in 1..(top + 1)
    BY <1>0, <1>2, SMT
  <2> HIDE DEF m
  <2>2. X[m] \in SUBSET Nodes /\ K[m] \in Nat /\ X[m + 1] \in SUBSET Nodes /\ K[m + 1] \in Nat
    BY <2>1 DEF Path
  <2>3. PICK O \in SUBSET Nodes, ko \in Nat : Knot(g, slots, dirs, m, X, K, O, ko)
    BY <2>1 DEF Path
  <2>4. Upright(h, g, slots[m + 1], X[m + 1], K[m + 1])
    BY <1>2, <2>1
  <2> DEFINE n == At(g, slots[m])
             d == dirs[m]
             S == X[m + 1] \cup {n} \cup O
  <2>5. h \in Heaps /\ Sided(h, slots[m], d, n, X[m + 1], O, K[m + 1], ko) /\ h.state[n] = g.state[n]
    <3>1. Lifted(h, g, slots, dirs, m, X, O, K[m + 1], ko)
      BY <2>1, <2>2, <2>3, <2>4, Lift
    <3>2. QED
      BY <3>1 DEF Lifted
  <2>6. n \in Nodes /\ d \in Dirs /\ Weighs(g.state[n], d, K[m + 1], ko) /\ K[m] = 1 + Higher(K[m + 1], ko)
    BY <2>3 DEF Knot
  <2>7. S = X[m + 1] \cup {n} \cup O
    OBVIOUS
  <2> HIDE DEF n, d, S
  <2>8. /\ n = At(h, slots[m])
        /\ Avl(h, h.child[n][d], X[m + 1], K[m + 1]) /\ Avl(h, h.child[n][1 - d], O, ko)
        /\ \A x \in X[m + 1] : OnSide(d, x, n)
        /\ \A x \in O : OnSide(1 - d, x, n)
    BY <2>5 DEF Sided
  <2>9. Weighs(h.state[n], d, K[m + 1], ko)
    BY <2>5, <2>6
  <2>10. Avl(h, n, S, K[m])
    BY <2>2, <2>6, <2>7, <2>8, <2>9, Compose
  <2>11. Upright(h, h, slots[m], S, K[m])
    BY <2>5, <2>8, <2>10, AlikeSame DEF Upright
  <2>12. Upright(h, g, slots[m], X[m], K[m])
    BY <2>1, <2>3, <2>4, <2>7, <2>11, UprightThrough, ZenonT(40) DEF n
  <2>13. QED
    BY <2>1, <2>12 DEF m
<1> HIDE DEF T
<1>3. \A i \in 1..j : i \in T
  BY <1>0, <1>1, <1>2, InductionDown
<1>4. 1 \in 1..j
  BY SMT
<1>5. QED
  BY <1>0, <1>3, <1>4 DEF T

\* The body of the loop of WayUp.
UpOnce(slots, dirs, grows, u) ==
  LET slot == slots[u.top]
      d    == dirs[u.top]
      done == IF grows THEN GrownAt(u.heap, slot, d) ELSE ShrunkAt(u.heap, slot, d)
  IN  [heap |-> done.heap, stop |-> done.stop, top |-> u.top - 1]

Upwards(slots, dirs, grows) ==
  [u \in Up |-> IF u.stop THEN u ELSE UpOnce(slots, dirs, grows, u)]

\* k is one more or one less than k0.
Changed(k, k0, grows) == IF grows THEN k = k0 + 1 ELSE k0 = k + 1

\* Where the loop is: the tree under the slot after slots[u.top] is in order.  It
\* has another height, or it has the old one and the loop is at its end.
Reached(g, slots, X, K, grows, u) ==
  /\ u \in Up
  /\ \/ /\ u.stop = TRUE
        /\ Upright(u.heap, g, slots[u.top + 1], X[u.top + 1], K[u.top + 1])
     \/ /\ u.stop = FALSE
        /\ \E k \in Nat :
             /\ Upright(u.heap, g, slots[u.top + 1], X[u.top + 1], k)
             /\ Changed(k, K[u.top + 1], grows)
             /\ grows => Ripe(u.heap, At(u.heap, slots[u.top + 1]), k)

LEMMA UpOnceWorks ==
  ASSUME NEW g \in Heaps, NEW slots, NEW dirs, NEW top, NEW X, NEW K,
         Path(g, slots, dirs, top, X, K), NEW grows \in BOOLEAN,
         NEW u, Reached(g, slots, X, K, grows, u), u.stop = FALSE, u.top \in 1..top
  PROVE  Reached(g, slots, X, K, grows, UpOnce(slots, dirs, grows, u))
<1> DEFINE j == u.top
           h == u.heap
           n == At(g, slots[j])
           d == dirs[j]
           D == X[j + 1]
           w == UpOnce(slots, dirs, grows, u)
<1>0. /\ top \in Nat /\ j \in Nat /\ j - 1 \in Nat /\ j \in 1..top /\ j \in 1..(top + 1)
      /\ j + 1 \in 1..(top + 1) /\ (j - 1) + 1 = j
  <2>1. top \in Nat
    BY DEF Path
  <2>2. QED
    BY <2>1, SMT
<1>1. PICK k \in Nat : /\ Upright(h, g, slots[j + 1], D, k)
                       /\ Changed(k, K[j + 1], grows)
                       /\ grows => Ripe(h, At(h, slots[j + 1]), k)
  BY DEF Reached
<1>2. /\ slots[j] \in Slots
      /\ X[j] \in SUBSET Nodes /\ K[j] \in Nat /\ D \in SUBSET Nodes /\ K[j + 1] \in Nat
  BY <1>0 DEF Path
<1>3. PICK O \in SUBSET Nodes, ko \in Nat : Knot(g, slots, dirs, j, X, K, O, ko)
  BY <1>0 DEF Path
<1> DEFINE S == D \cup {n} \cup O
<1>4. /\ h \in Heaps /\ Sided(h, slots[j], d, n, D, O, k, ko)
      /\ h.state[n] = g.state[n] /\ h.child[n][d] = At(h, slots[j + 1])
  <2> HIDE DEF j, h
  <2>1. Lifted(h, g, slots, dirs, j, X, O, k, ko)
    BY <1>0, <1>1, <1>2, <1>3, Lift
  <2>2. QED
    BY <2>1 DEF Lifted
<1>5. /\ n \in Nodes /\ d \in Dirs /\ Weighs(g.state[n], d, K[j + 1], ko)
      /\ K[j] = 1 + Higher(K[j + 1], ko)
  BY <1>3 DEF Knot
<1>6. Weighs(h.state[n], d, K[j + 1], ko)
  BY <1>4, <1>5
<1>7. \A f, i : Upright(f, h, slots[j], S, i) => Upright(f, g, slots[j], X[j], i)
  <2>1. S = X[j + 1] \cup {At(g, slots[j])} \cup O
    OBVIOUS
  <2> HIDE DEF S, n, d, h
  <2>2. TAKE f, i
  <2>3. HAVE Upright(f, h, slots[j], S, i)
  <2>4. QED
    BY <1>0, <1>1, <1>3, <2>1, <2>3, UprightThrough
<1>8. \A f \in Heaps, s \in BOOLEAN : [heap |-> f, stop |-> s, top |-> j - 1] \in Up
  BY <1>0 DEF Up
<1>9. CASE grows = TRUE
  <2>1. k = K[j + 1] + 1 /\ Ripe(h, At(h, slots[j + 1]), k)
    BY <1>1, <1>9 DEF Changed
  <2>2. Sided(h, slots[j], d, n, D, O, K[j + 1] + 1, ko) /\ Ripe(h, h.child[n][d], K[j + 1] + 1)
    BY <1>4, <2>1
  <2> DEFINE kd == K[j + 1]
             kj == K[j]
             sj == slots[j]
  <2>3. /\ Sided(h, sj, d, n, D, O, kd + 1, ko) /\ Ripe(h, h.child[n][d], kd + 1)
        /\ Weighs(h.state[n], d, kd, ko) /\ kj = 1 + Higher(kd, ko)
        /\ kd \in Nat /\ kj \in Nat /\ sj \in Slots
    BY <1>2, <1>5, <1>6, <2>2
  <2> HIDE DEF kd, kj, sj, h, d, D, n
  <2>4. PICK f, s :
          /\ GrownAt(h, sj, d) = [heap |-> f, stop |-> s] /\ s \in BOOLEAN
          /\ Upright(f, h, sj, D \cup {n} \cup O, IF s THEN kj ELSE kj + 1)
          /\ ~s => Ripe(f, At(f, sj), kj + 1)
    <3>1. GrownUpright(h, sj, d, D \cup {n} \cup O, kj)
      BY <1>2, <1>4, <1>5, <2>3, GrownAtWorks
    <3>2. QED
      BY <3>1 DEF GrownUpright
  <2>5. w = [heap |-> f, stop |-> s, top |-> j - 1]
    BY <1>9, <2>4 DEF UpOnce, h, d, sj
  <2>6. Upright(f, g, slots[j], X[j], IF s THEN K[j] ELSE K[j] + 1)
    BY <1>7, <2>4 DEF sj, kj
  <2>7. f \in Heaps
    BY <2>6 DEF Upright
  <2>8. w \in Up /\ w.heap = f /\ w.stop = s /\ w.top + 1 = j
    BY <1>0, <1>8, <2>4, <2>5, <2>7
  <2> HIDE DEF w, j
  <2>9. CASE s = TRUE
    <3>1. Upright(w.heap, g, slots[w.top + 1], X[w.top + 1], K[w.top + 1])
      BY <2>6, <2>8, <2>9
    <3>2. Reached(g, slots, X, K, grows, w)
      BY <2>8, <2>9, <3>1 DEF Reached
    <3>3. QED
      BY <3>2 DEF w
  <2>10. CASE s = FALSE
    <3>1. K[j] + 1 \in Nat
      BY <1>2
    <3>2. Upright(w.heap, g, slots[w.top + 1], X[w.top + 1], K[j] + 1)
      BY <2>6, <2>8, <2>10
    <3>3. Changed(K[j] + 1, K[w.top + 1], grows)
      BY <1>9, <2>8 DEF Changed
    <3>4. Ripe(w.heap, At(w.heap, slots[w.top + 1]), K[j] + 1)
      BY <2>4, <2>8, <2>10 DEF sj, kj
    <3>5. Reached(g, slots, X, K, grows, w)
      BY <2>8, <2>10, <3>1, <3>2, <3>3, <3>4 DEF Reached
    <3>6. QED
      BY <3>5 DEF w
  <2>11. QED
    BY <2>4, <2>9, <2>10
<1>10. CASE grows = FALSE
  <2>1. K[j + 1] = k + 1
    BY <1>1, <1>10 DEF Changed
  <2> DEFINE kj == K[j]
             sj == slots[j]
  <2>2. /\ Sided(h, sj, d, n, D, O, k, ko)
        /\ Weighs(h.state[n], d, k + 1, ko) /\ kj = 1 + Higher(k + 1, ko)
        /\ kj \in Nat /\ sj \in Slots
    BY <1>2, <1>4, <1>5, <1>6, <2>1
  <2> HIDE DEF kj, sj, h, d, D, n
  <2>3. PICK f, s :
          /\ ShrunkAt(h, sj, d) = [heap |-> f, stop |-> s] /\ s \in BOOLEAN
          /\ Upright(f, h, sj, D \cup {n} \cup O, IF s THEN kj ELSE kj - 1)
    <3>1. ShrunkUpright(h, sj, d, D \cup {n} \cup O, kj)
      BY <1>2, <1>4, <1>5, <2>2, ShrunkAtWorks
    <3>2. QED
      BY <3>1 DEF ShrunkUpright
  <2>4. w = [heap |-> f, stop |-> s, top |-> j - 1]
    BY <1>10, <2>3 DEF UpOnce, h, d, sj
  <2>5. Upright(f, g, slots[j], X[j], IF s THEN K[j] ELSE K[j] - 1)
    BY <1>7, <2>3 DEF sj, kj
  <2>6. f \in Heaps
    BY <2>5 DEF Upright
  <2>7. w \in Up /\ w.heap = f /\ w.stop = s /\ w.top + 1 = j
    BY <1>0, <1>8, <2>3, <2>4, <2>6
  <2>8. K[j] - 1 \in Nat /\ K[j] = (K[j] - 1) + 1
    BY <2>2, SMT DEF kj, Higher
  <2> HIDE DEF w, j
  <2>9. CASE s = TRUE
    <3>1. Upright(w.heap, g, slots[w.top + 1], X[w.top + 1], K[w.top + 1])
      BY <2>5, <2>7, <2>9
    <3>2. Reached(g, slots, X, K, grows, w)
      BY <2>7, <2>9, <3>1 DEF Reached
    <3>3. QED
      BY <3>2 DEF w
  <2>10. CASE s = FALSE
    <3>1. Upright(w.heap, g, slots[w.top + 1], X[w.top + 1], K[j] - 1)
      BY <2>5, <2>7, <2>10
    <3>2. Changed(K[j] - 1, K[w.top + 1], grows)
      BY <1>10, <2>7, <2>8 DEF Changed
    <3>3. Reached(g, slots, X, K, grows, w)
      BY <1>10, <2>7, <2>8, <2>10, <3>1, <3>2 DEF Reached
    <3>4. QED
      BY <3>3 DEF w
  <2>11. QED
    BY <2>3, <2>9, <2>10
<1>11. QED
  BY <1>9, <1>10

\* The way up puts a tree in order below whose path a side has grown or shrunk.
LEMMA WayUpWorks ==
  ASSUME NEW g \in Heaps, NEW slots, NEW dirs, NEW top, NEW X, NEW K,
         Path(g, slots, dirs, top, X, K), NEW grows \in BOOLEAN, NEW k \in Nat,
         Avl(g, At(g, slots[top + 1]), X[top + 1], k), Changed(k, K[top + 1], grows),
         grows => Ripe(g, At(g, slots[top + 1]), k)
  PROVE  \E i \in Nat : Upright(WayUp(g, slots, dirs, top, grows), g, RootSlot, X[1], i)
<1> DEFINE body  == Upwards(slots, dirs, grows)
           start == [heap |-> g, stop |-> FALSE, top |-> top]
           after(i) == Iterated(body, start, i)
           T == {i \in Nat : i <= top =>
                   /\ Reached(g, slots, X, K, grows, after(i))
                   /\ after(i).top \in 0..top
                   /\ after(i).stop = FALSE => after(i).top = top - i}
<1>0. top \in Nat /\ slots[1] = RootSlot /\ top + 1 \in 1..(top + 1) /\ slots[top + 1] \in Slots
      /\ K[top + 1] \in Nat
  <2>1. top \in Nat
    BY DEF Path
  <2>2. top + 1 \in 1..(top + 1)
    BY <2>1, SMT
  <2>3. QED
    BY <2>1, <2>2 DEF Path
<1>1. WayUp(g, slots, dirs, top, grows) = after(top).heap
  BY Zenon DEF WayUp, Upwards, UpOnce
<1>2. \A u \in Up : body[u] = IF u.stop THEN u ELSE UpOnce(slots, dirs, grows, u)
  BY DEF Upwards
<1>3. after(0) = start /\ \A i \in Nat : after(i + 1) = body[after(i)]
  BY Iteration, Zenon
<1> HIDE DEF body, after
<1>4. 0 \in T
  <2>1. start \in Up /\ start.stop = FALSE /\ start.top = top /\ start.heap = g
    BY <1>0 DEF Up
  <2> HIDE DEF start
  <2>2. Upright(g, g, slots[top + 1], X[top + 1], k)
    BY AlikeSame DEF Upright
  <2>3. Reached(g, slots, X, K, grows, start)
    BY <2>1, <2>2 DEF Reached
  <2>4. top \in 0..top /\ top = top - 0
    BY <1>0, SMT
  <2>5. QED
    BY <1>3, <2>1, <2>3, <2>4
<1>5. ASSUME NEW i \in Nat, i \in T PROVE i + 1 \in T
  <2>1. SUFFICES ASSUME i + 1 <= top
                 PROVE  /\ Reached(g, slots, X, K, grows, after(i + 1))
                        /\ after(i + 1).top \in 0..top
                        /\ after(i + 1).stop = FALSE => after(i + 1).top = top - (i + 1)
    BY i + 1 \in Nat, Zenon
  <2>2. i <= top
    BY <1>0, <2>1, SMT
  <2> DEFINE u == after(i)
  <2>3. /\ Reached(g, slots, X, K, grows, u) /\ u.top \in 0..top
        /\ u.stop = FALSE => u.top = top - i
    BY <1>5, <2>2
  <2>4. u \in Up /\ u.stop \in BOOLEAN
    BY <2>3 DEF Reached, Up
  <2>5. after(i + 1) = IF u.stop THEN u ELSE UpOnce(slots, dirs, grows, u)
    BY <1>2, <1>3, <2>4
  <2> HIDE DEF u
  <2>6. CASE u.stop = TRUE
    <3>1. after(i + 1) = u
      BY <2>5, <2>6
    <3>2. QED
      BY <3>1, <2>3, <2>6
  <2>7. CASE u.stop = FALSE
    <3>1. after(i + 1) = UpOnce(slots, dirs, grows, u)
      BY <2>5, <2>7
    <3>2. u.top = top - i /\ u.top \in 1..top /\ u.top - 1 \in 0..top /\ u.top - 1 = top - (i + 1)
      <4>1. u.top = top - i
        BY <2>3, <2>7
      <4>2. QED
        BY <1>0, <2>1, <4>1, SMT
    <3>3. Reached(g, slots, X, K, grows, UpOnce(slots, dirs, grows, u))
      BY <2>3, <2>7, <3>2, UpOnceWorks
    <3>4. UpOnce(slots, dirs, grows, u).top = u.top - 1
      BY DEF UpOnce
    <3>5. QED
      BY <3>1, <3>2, <3>3, <3>4
  <2>8. QED
    BY <2>4, <2>6, <2>7
<1> HIDE DEF T
<1>6. top \in T
  BY <1>0, <1>4, <1>5, Induction
<1> DEFINE u == after(top)
<1>7. /\ Reached(g, slots, X, K, grows, u) /\ u.top \in 0..top
      /\ u.stop = FALSE => u.top = 0
  <2>1. top <= top /\ top - top = 0
    BY <1>0, SMT
  <2>2. QED
    BY <1>6, <2>1 DEF T
<1> HIDE DEF u
<1>8. u \in Up
  BY <1>7 DEF Reached
<1> DEFINE f == u.heap
           j == u.top + 1
<1>9. j \in 1..(top + 1)
  BY <1>0, <1>7, SMT
<1>10. CASE u.stop = TRUE
  <2>1. Upright(f, g, slots[j], X[j], K[j])
    BY <1>7, <1>10 DEF Reached
  <2> HIDE DEF f, j
  <2>2. Upright(f, g, RootSlot, X[1], K[1])
    BY <1>9, <2>1, StayWorks
  <2>3. K[1] \in Nat
    BY <1>0, 1 \in 1..(top + 1) DEF Path
  <2>4. QED
    BY <1>1, <2>2, <2>3 DEF f, u
<1>11. CASE u.stop = FALSE
  <2>1. j = 1
    BY <1>7, <1>11
  <2>2. PICK i \in Nat : Upright(f, g, slots[j], X[j], i)
    BY <1>7, <1>11 DEF Reached
  <2>3. Upright(f, g, RootSlot, X[1], i)
    BY <1>0, <2>1, <2>2
  <2>4. QED
    BY <1>1, <2>3 DEF u
<1>12. QED
  BY <1>8, <1>10, <1>11 DEF Up
-----------------------------------------------------------------------------
(* The tree below a node, and the way down. *)

IsTree(h, n) == \E S \in SUBSET Nodes : \E k \in Nat : Avl(h, n, S, k)
Below(h, n)  == CHOOSE S : \E k \in Nat : Avl(h, n, S, k)
High(h, n)   == CHOOSE k \in Nat : \E S : Avl(h, n, S, k)

LEMMA TreeBelow ==
  ASSUME NEW h, NEW n, IsTree(h, n)
  PROVE  /\ Avl(h, n, Below(h, n), High(h, n))
         /\ High(h, n) \in Nat /\ Below(h, n) \in SUBSET Nodes
<1>1. PICK S \in SUBSET Nodes, k \in Nat : Avl(h, n, S, k)
  BY DEF IsTree
<1>2. \E i \in Nat : Avl(h, n, Below(h, n), i)
  BY <1>1, Zenon DEF Below
<1>3. High(h, n) \in Nat /\ \E R : Avl(h, n, R, High(h, n))
  BY <1>1, Zenon DEF High
<1>4. PICK i \in Nat : Avl(h, n, Below(h, n), i)
  BY <1>2
<1>5. PICK R : Avl(h, n, R, High(h, n))
  BY <1>3
<1>6. R = Below(h, n)
  BY <1>3, <1>4, <1>5, AvlUnique
<1>7. Below(h, n) \in SUBSET Nodes
  BY <1>4, AvlType
<1>8. QED
  BY <1>3, <1>5, <1>6, <1>7

LEMMA TreeIs ==
  ASSUME NEW h, NEW n, NEW S, NEW k \in Nat, Avl(h, n, S, k)
  PROVE  IsTree(h, n) /\ Below(h, n) = S /\ High(h, n) = k
<1>1. IsTree(h, n)
  BY AvlType DEF IsTree
<1>2. Avl(h, n, Below(h, n), High(h, n)) /\ High(h, n) \in Nat
  BY <1>1, TreeBelow
<1>3. QED
  BY <1>1, <1>2, AvlUnique

\* The tree below a node and those below its two sides.
Halves(h, n, d) ==
  /\ IsTree(h, h.child[n][d]) /\ IsTree(h, h.child[n][1 - d])
  /\ Splits(h, n, Below(h, n), High(h, n), d,
            Below(h, h.child[n][d]), Below(h, h.child[n][1 - d]),
            High(h, h.child[n][d]), High(h, h.child[n][1 - d]))

LEMMA TreeHalves ==
  ASSUME NEW h, NEW n, IsTree(h, n), n # Null, NEW d \in Dirs
  PROVE  Halves(h, n, d)
<1>1. Avl(h, n, Below(h, n), High(h, n)) /\ High(h, n) \in Nat
  BY TreeBelow
<1>2. PICK D \in SUBSET Nodes, O \in SUBSET Nodes : \E kd, ko \in Nat :
         Splits(h, n, Below(h, n), High(h, n), d, D, O, kd, ko)
  BY <1>1, AvlUnfold
<1>3. PICK kd \in Nat, ko \in Nat : Splits(h, n, Below(h, n), High(h, n), d, D, O, kd, ko)
  BY <1>2
<1>4. Avl(h, h.child[n][d], D, kd) /\ Avl(h, h.child[n][1 - d], O, ko)
  BY <1>3 DEF Splits
<1>5. /\ IsTree(h, h.child[n][d]) /\ Below(h, h.child[n][d]) = D /\ High(h, h.child[n][d]) = kd
  BY <1>4, TreeIs
<1>6. /\ IsTree(h, h.child[n][1 - d]) /\ Below(h, h.child[n][1 - d]) = O
      /\ High(h, h.child[n][1 - d]) = ko
  BY <1>4, TreeIs
<1>7. QED
  BY <1>3, <1>5, <1>6 DEF Halves

\* A way down from the root towards key.
Chain(h, s, key) ==
  /\ s \in Seq(Slots) /\ s # <<>> /\ s[1] = RootSlot
  /\ \A i \in 1..(Len(s) - 1) :
       /\ At(h, s[i]) \in Nodes
       /\ s[i + 1] = <<At(h, s[i]), DirTo(At(h, s[i]), key)>>

LEMMA DirType == \A n, key : DirTo(n, key) \in Dirs
BY DEF DirTo, Dirs

\* The tree below each slot of a way down: it loses a level at each step.
ChainAt(h, slot, j) ==
  /\ IsTree(h, At(h, slot)) /\ Outside(slot, Below(h, At(h, slot)))
  /\ High(h, At(h, slot)) + (j - 1) <= High(h, h.root)

LEMMA ChainHeights ==
  ASSUME NEW h \in Heaps, NEW s, NEW key, Chain(h, s, key), IsTree(h, h.root)
  PROVE  \A j \in 1..Len(s) : ChainAt(h, s[j], j)
<1> DEFINE T == {i \in Nat : i + 1 \in 1..Len(s) => ChainAt(h, s[i + 1], i + 1)}
<1>0. Len(s) \in Nat /\ High(h, h.root) \in Nat
  BY TreeBelow DEF Chain
<1>1. 0 \in T
  <2>1. s[1] = RootSlot /\ At(h, RootSlot) = h.root
    BY SlotFacts DEF Chain
  <2>2. Outside(RootSlot, Below(h, h.root))
    BY TreeBelow, SlotFacts DEF Outside
  <2>3. ChainAt(h, RootSlot, 1)
    BY <1>0, <2>1, <2>2 DEF ChainAt
  <2>4. QED
    BY <2>1, <2>3
<1>2. ASSUME NEW i \in Nat, i \in T PROVE i + 1 \in T
  <2>1. SUFFICES ASSUME (i + 1) + 1 \in 1..Len(s) PROVE ChainAt(h, s[(i + 1) + 1], (i + 1) + 1)
    BY i + 1 \in Nat, Zenon
  <2> DEFINE j == i + 1
             n == At(h, s[j])
             d == DirTo(n, key)
             c == h.child[n][d]
  <2>2. j \in 1..Len(s) /\ j \in 1..(Len(s) - 1) /\ j \in Nat /\ (j + 1) - 1 = j
    BY <1>0, <2>1, SMT
  <2>3. ChainAt(h, s[j], j)
    BY <1>2, <2>2
  <2> HIDE DEF j
  <2>4. n \in Nodes /\ s[j + 1] = <<n, d>> /\ d \in Dirs
    BY <2>2, DirType DEF Chain
  <2>5. IsTree(h, n) /\ n # Null
    BY <2>3, <2>4, NullIsNoNode DEF ChainAt
  <2>6. Halves(h, n, d)
    BY <2>4, <2>5, TreeHalves
  <2>7. At(h, s[j + 1]) = c
    BY <2>4, SlotFacts
  <2>8. High(h, n) + (j - 1) <= High(h, h.root)
    BY <2>3 DEF ChainAt
  <2> HIDE DEF n, d
  <2>9. IsTree(h, c) /\ IsTree(h, h.child[n][1 - d])
    BY <2>6 DEF Halves
  <2>10. High(h, c) \in Nat /\ High(h, h.child[n][1 - d]) \in Nat /\ Below(h, c) \in SUBSET Nodes
         /\ Below(h, h.child[n][1 - d]) \in SUBSET Nodes
    BY <2>9, TreeBelow
  <2>11. High(h, n) = 1 + Higher(High(h, c), High(h, h.child[n][1 - d]))
    BY <2>6 DEF Halves, Splits
  <2>12. High(h, c) + 1 <= High(h, n) /\ High(h, n) \in Nat
    BY <2>10, <2>11, SMT DEF Higher
  <2>13. High(h, c) + ((j + 1) - 1) <= High(h, h.root)
    BY ONLY <1>0, <2>2, <2>8, <2>10, <2>12, SMT
  <2>14. n \notin Below(h, c)
    <3> DEFINE D == Below(h, c)
               O == Below(h, h.child[n][1 - d])
    <3>1. Splits(h, n, Below(h, n), High(h, n), d, D, O, High(h, c), High(h, h.child[n][1 - d]))
          /\ D \in SUBSET Nodes /\ O \in SUBSET Nodes
      BY <2>6, <2>10 DEF Halves
    <3> HIDE DEF D, O
    <3>2. Apart(n, d, D, O)
      BY <2>4, <3>1, SplitsApart
    <3>3. QED
      BY <3>2 DEF Apart, D
  <2> HIDE DEF c
  <2>15. Outside(s[j + 1], Below(h, c))
    BY <2>4, <2>14 DEF Outside
  <2>16. ChainAt(h, s[j + 1], j + 1)
    BY <2>7, <2>9, <2>13, <2>15 DEF ChainAt
  <2>17. QED
    BY <2>16 DEF j
<1> HIDE DEF T
<1>3. \A i \in Nat : i \in T
  BY <1>1, <1>2, Induction
<1>4. ASSUME NEW j \in 1..Len(s) PROVE ChainAt(h, s[j], j)
  <2>1. j - 1 \in Nat /\ (j - 1) + 1 = j
    BY SMT
  <2>2. j - 1 \in T
    BY <1>3, <2>1
  <2>3. QED
    BY <2>1, <2>2 DEF T
<1>5. QED
  BY <1>4

LEMMA ChainAppend ==
  ASSUME NEW h \in Heaps, NEW s, NEW key, Chain(h, s, key), At(h, Last(s)) # Null,
         NEW e, e = <<At(h, Last(s)), DirTo(At(h, Last(s)), key)>>
  PROVE  Chain(h, Append(s, e), key) /\ Len(Append(s, e)) = Len(s) + 1
<1> DEFINE n == At(h, Last(s))
           r == Append(s, e)
<1>1. s \in Seq(Slots) /\ Len(s) \in Nat \ {0} /\ s[1] = RootSlot
  BY DEF Chain
<1>2. Last(s) = s[Len(s)] /\ Last(s) \in Slots
  BY <1>1 DEF Last
<1>3. n \in Nodes
  BY <1>2, AtType, NullIsNoNode
<1>4. e \in Slots
  BY <1>3, DirType, SlotFacts
<1>5. r \in Seq(Slots) /\ Len(r) = Len(s) + 1 /\ r[Len(s) + 1] = e /\ \A i \in 1..Len(s) : r[i] = s[i]
  BY <1>1, <1>4
<1> HIDE DEF r
<1>6. ASSUME NEW i \in 1..(Len(r) - 1)
      PROVE  At(h, r[i]) \in Nodes /\ r[i + 1] = <<At(h, r[i]), DirTo(At(h, r[i]), key)>>
  <2>1. i \in 1..Len(s) /\ r[i] = s[i]
    BY <1>1, <1>5, SMT
  <2>2. CASE i = Len(s)
    BY <1>2, <1>3, <1>5, <2>1, <2>2
  <2>3. CASE i # Len(s)
    <3>1. i \in 1..(Len(s) - 1) /\ i + 1 \in 1..Len(s)
      BY <1>1, <2>1, <2>3, SMT
    <3>2. QED
      BY <1>5, <2>1, <3>1 DEF Chain
  <2>4. QED
    BY <2>2, <2>3
<1>7. r # <<>> /\ r[1] = RootSlot
  <2>1. 1 \in 1..Len(s) /\ Len(r) # 0
    BY <1>1, <1>5, SMT
  <2>2. QED
    BY <1>1, <1>5, <2>1
<1>8. QED
  BY <1>5, <1>6, <1>7 DEF Chain, r

\* Two ways down to the same key that end at an empty slot are one.
LEMMA ChainUnique ==
  ASSUME NEW h \in Heaps, NEW key, NEW s, NEW r, Chain(h, s, key), Chain(h, r, key),
         At(h, Last(s)) = Null, At(h, Last(r)) = Null
  PROVE  s = r
<1>1. /\ s \in Seq(Slots) /\ Len(s) \in Nat \ {0} /\ Last(s) = s[Len(s)]
      /\ r \in Seq(Slots) /\ Len(r) \in Nat \ {0} /\ Last(r) = r[Len(r)]
  BY DEF Chain, Last
<1> DEFINE T == {i \in Nat : i + 1 \in 1..Len(s) /\ i + 1 \in 1..Len(r) => s[i + 1] = r[i + 1]}
<1>2. 0 \in T
  BY DEF Chain
<1>3. ASSUME NEW i \in Nat, i \in T PROVE i + 1 \in T
  <2>1. SUFFICES ASSUME (i + 1) + 1 \in 1..Len(s), (i + 1) + 1 \in 1..Len(r)
                 PROVE  s[(i + 1) + 1] = r[(i + 1) + 1]
    BY i + 1 \in Nat, Zenon
  <2> DEFINE j == i + 1
  <2>2. j \in 1..Len(s) /\ j \in 1..Len(r) /\ j \in 1..(Len(s) - 1) /\ j \in 1..(Len(r) - 1)
    BY <1>1, <2>1, SMT
  <2>3. s[j] = r[j]
    BY <1>3, <2>2
  <2> HIDE DEF j
  <2>4. s[j + 1] = r[j + 1]
    BY <2>2, <2>3 DEF Chain
  <2>5. QED
    BY <2>4 DEF j
<1> HIDE DEF T
<1>4. \A i \in Nat : i \in T
  BY <1>2, <1>3, Induction
<1>5. ASSUME NEW j \in 1..Len(s), j \in 1..Len(r) PROVE s[j] = r[j]
  <2>1. j - 1 \in Nat /\ (j - 1) + 1 = j
    BY SMT
  <2>2. j - 1 \in T
    BY <1>4, <2>1
  <2>3. QED
    BY <1>5, <2>1, <2>2 DEF T
<1>6. Len(s) = Len(r)
  <2>1. CASE Len(s) < Len(r)
    <3>1. Len(s) \in 1..Len(s) /\ Len(s) \in 1..Len(r) /\ Len(s) \in 1..(Len(r) - 1)
      BY <1>1, <2>1, SMT
    <3>2. At(h, r[Len(s)]) \in Nodes /\ r[Len(s)] = s[Len(s)]
      BY <1>5, <3>1 DEF Chain
    <3>3. QED
      BY <1>1, <3>2, NullIsNoNode
  <2>2. CASE Len(r) < Len(s)
    <3>1. Len(r) \in 1..Len(s) /\ Len(r) \in 1..Len(r) /\ Len(r) \in 1..(Len(s) - 1)
      BY <1>1, <2>2, SMT
    <3>2. At(h, s[Len(r)]) \in Nodes /\ r[Len(r)] = s[Len(r)]
      BY <1>5, <3>1 DEF Chain
    <3>3. QED
      BY <1>1, <3>2, NullIsNoNode
  <2>3. QED
    BY <1>1, <2>1, <2>2, SMT
<1>7. \A j \in 1..Len(s) : s[j] = r[j]
  BY <1>5, <1>6
<1>8. QED
  BY <1>1, <1>6, <1>7

\* The body of Descent.
Lower(h, key) ==
  [s \in Seq(Slots) |->
     LET n == At(h, Last(s))
     IN  IF n = Null THEN s ELSE Append(s, <<n, DirTo(n, key)>>)]

\* Descent ends at an empty slot, and is not longer than the tree is high.
LEMMA DescentWorks ==
  ASSUME NEW h \in Heaps, NEW s, NEW key, Chain(h, s, key), IsTree(h, h.root)
  PROVE  /\ Chain(h, Descent(h, s, key), key)
         /\ At(h, Last(Descent(h, s, key))) = Null
         /\ Len(Descent(h, s, key)) - 1 <= High(h, h.root)
<1> DEFINE body == Lower(h, key)
           after(i) == Iterated(body, s, i)
           T == {i \in Nat : /\ Chain(h, after(i), key)
                             /\ At(h, Last(after(i))) = Null \/ Len(after(i)) >= i + 1}
<1>0. Walk \in Nat /\ High(h, h.root) <= Walk /\ High(h, h.root) \in Nat
  BY TreeBelow, AvlSize
<1>1. Descent(h, s, key) = after(Walk)
  BY Zenon DEF Descent, Lower
<1>2. \A r \in Seq(Slots) :
        body[r] = IF At(h, Last(r)) = Null THEN r
                  ELSE Append(r, <<At(h, Last(r)), DirTo(At(h, Last(r)), key)>>)
  BY Zenon DEF Lower
<1>3. after(0) = s /\ \A i \in Nat : after(i + 1) = body[after(i)]
  BY Iteration, Zenon
<1> HIDE DEF body, after
<1>4. 0 \in T
  <2>1. Len(s) >= 0 + 1
    BY DEF Chain
  <2>2. QED
    BY <1>3, <2>1
<1>5. ASSUME NEW i \in Nat, i \in T PROVE i + 1 \in T
  <2> DEFINE r == after(i)
             e == <<At(h, Last(r)), DirTo(At(h, Last(r)), key)>>
  <2>0. Chain(h, r, key) /\ (At(h, Last(r)) = Null \/ Len(r) >= i + 1)
    BY <1>5
  <2>1. r \in Seq(Slots) /\ Len(r) \in Nat
    BY <2>0 DEF Chain
  <2>2. after(i + 1) = IF At(h, Last(r)) = Null THEN r ELSE Append(r, e)
    BY <1>2, <1>3, <2>1
  <2>3. e = <<At(h, Last(r)), DirTo(At(h, Last(r)), key)>>
    OBVIOUS
  <2> HIDE DEF r, e
  <2>4. CASE At(h, Last(r)) = Null
    <3>1. after(i + 1) = r
      BY <2>2, <2>4
    <3>2. QED
      BY <2>0, <2>4, <3>1
  <2>5. CASE At(h, Last(r)) # Null
    <3>1. after(i + 1) = Append(r, e)
      BY <2>2, <2>5
    <3>2. Chain(h, Append(r, e), key) /\ Len(Append(r, e)) = Len(r) + 1
      BY <2>0, <2>3, <2>5, ChainAppend
    <3>3. Len(r) + 1 >= (i + 1) + 1
      <4>1. Len(r) >= i + 1
        BY <2>0, <2>5
      <4>2. QED
        BY ONLY <2>1, <4>1, i \in Nat, SMT
    <3>4. Len(Append(r, e)) >= (i + 1) + 1
      BY <3>2, <3>3
    <3>5. Chain(h, after(i + 1), key) /\ Len(after(i + 1)) >= (i + 1) + 1
      BY <3>1, <3>2, <3>4
    <3>6. QED
      BY <3>5, i + 1 \in Nat, Zenon
  <2>6. QED
    BY <2>4, <2>5
<1> HIDE DEF T
<1>6. Walk \in T
  BY <1>0, <1>4, <1>5, Induction
<1> DEFINE r == after(Walk)
<1>7. Chain(h, r, key) /\ (At(h, Last(r)) = Null \/ Len(r) >= Walk + 1)
  BY <1>6 DEF T
<1> HIDE DEF r
<1>8. Len(r) \in Nat \ {0} /\ Last(r) = r[Len(r)] /\ Len(r) \in 1..Len(r)
  BY <1>7 DEF Chain, Last
<1>9. ChainAt(h, Last(r), Len(r))
  BY <1>7, <1>8, ChainHeights
<1>10. IsTree(h, At(h, Last(r))) /\ High(h, At(h, Last(r))) + (Len(r) - 1) <= High(h, h.root)
  BY <1>9 DEF ChainAt
<1>11. Avl(h, At(h, Last(r)), Below(h, At(h, Last(r))), High(h, At(h, Last(r)))) /\ High(h, At(h, Last(r))) \in Nat
  BY <1>10, TreeBelow
<1>12. Len(r) - 1 <= High(h, h.root)
  BY <1>0, <1>8, <1>10, <1>11, SMT
<1>13. At(h, Last(r)) = Null
  <2>1. CASE Len(r) >= Walk + 1
    <3>1. High(h, At(h, Last(r))) = 0
      BY <1>0, <1>8, <1>10, <1>11, <2>1, SMT
    <3>2. QED
      BY <1>11, <3>1, AvlType
  <2>2. QED
    BY <1>7, <2>1
<1>14. QED
  BY <1>1, <1>7, <1>12, <1>13 DEF r

LEMMA RootChain ==
  ASSUME NEW h, NEW key
  PROVE  Chain(h, <<RootSlot>>, key)
BY SlotFacts DEF Chain

\* What a path that ends at an empty slot says of a tree: Sound(h, slots, key)
\* are the slots of Descent.
Sound(h, slots, key) ==
  Chain(h, slots, key) /\ At(h, Last(slots)) = Null /\ Len(slots) - 1 <= High(h, h.root)

LEMMA DescentSound ==
  ASSUME NEW h \in Heaps, NEW key, IsTree(h, h.root)
  PROVE  Sound(h, Descent(h, <<RootSlot>>, key), key)
BY RootChain, DescentWorks DEF Sound

\* Going on from a part of the way down gives the whole of it.
LEMMA DescentGoesOn ==
  ASSUME NEW h \in Heaps, NEW key, IsTree(h, h.root), NEW s, Chain(h, s, key)
  PROVE  Descent(h, s, key) = Descent(h, <<RootSlot>>, key)
BY RootChain, DescentWorks, ChainUnique
-----------------------------------------------------------------------------
(* The path of a way down. *)

Unders(h, slots) == [j \in 1..Len(slots) |-> Below(h, At(h, slots[j]))]
Highs(h, slots)  == [j \in 1..Len(slots) |-> High(h, At(h, slots[j]))]

LEMMA DescentPath ==
  ASSUME NEW h \in Heaps, NEW slots, NEW key, Chain(h, slots, key), IsTree(h, h.root)
  PROVE  Path(h, slots, DirsTo(h, slots, key), Len(slots) - 1, Unders(h, slots), Highs(h, slots))
<1> DEFINE dirs == DirsTo(h, slots, key)
           top  == Len(slots) - 1
           X    == Unders(h, slots)
           K    == Highs(h, slots)
<1>1. slots \in Seq(Slots) /\ Len(slots) \in Nat \ {0} /\ top \in Nat /\ top + 1 = Len(slots) /\ slots[1] = RootSlot
  BY DEF Chain
<1>2. \A j \in 1..Len(slots) : /\ ChainAt(h, slots[j], j) /\ slots[j] \in Slots
                               /\ X[j] = Below(h, At(h, slots[j])) /\ K[j] = High(h, At(h, slots[j]))
  BY <1>1, ChainHeights DEF Unders, Highs
<1>3. \A j \in 1..top : dirs[j] = DirTo(At(h, slots[j]), key)
  BY DEF DirsTo
<1> HIDE DEF dirs, X, K
<1>4. \A j \in 1..(top + 1) : X[j] \in SUBSET Nodes /\ K[j] \in Nat /\ slots[j] \in Slots
  BY <1>1, <1>2, TreeBelow DEF ChainAt
<1>5. ASSUME NEW j \in 1..top
      PROVE  \E O \in SUBSET Nodes, ko \in Nat : Knot(h, slots, dirs, j, X, K, O, ko)
  <2> DEFINE n == At(h, slots[j])
             d == dirs[j]
             c == h.child[n][d]
             b == h.child[n][1 - d]
  <2>1. j \in 1..Len(slots) /\ j + 1 \in 1..Len(slots) /\ j \in 1..(Len(slots) - 1)
    BY <1>1, SMT
  <2>2. n \in Nodes /\ slots[j + 1] = <<n, d>> /\ d \in Dirs
    BY <1>3, <2>1, DirType DEF Chain
  <2>3. IsTree(h, n) /\ n # Null /\ Outside(slots[j], Below(h, n))
    BY <1>2, <2>1, <2>2, NullIsNoNode DEF ChainAt
  <2>4. Halves(h, n, d)
    BY <2>2, <2>3, TreeHalves
  <2>5. At(h, slots[j + 1]) = c
    BY <2>2, SlotFacts
  <2>6. X[j] = Below(h, n) /\ K[j] = High(h, n) /\ X[j + 1] = Below(h, c) /\ K[j + 1] = High(h, c)
        /\ slots[j] \in Slots
    BY <1>2, <2>1, <2>5
  <2> HIDE DEF c, b
  <2>7. /\ IsTree(h, c) /\ IsTree(h, b)
        /\ Splits(h, n, Below(h, n), High(h, n), d, Below(h, c), Below(h, b), High(h, c), High(h, b))
    BY <2>4 DEF Halves, c, b
  <2>8. High(h, b) \in Nat /\ Below(h, b) \in SUBSET Nodes
    BY <2>7, TreeBelow
  <2>9. /\ Avl(h, h.child[n][1 - d], Below(h, b), High(h, b))
        /\ Below(h, n) = Below(h, c) \cup {n} \cup Below(h, b)
        /\ \A x \in Below(h, c) : OnSide(d, x, n)
        /\ \A x \in Below(h, b) : OnSide(1 - d, x, n)
        /\ Weighs(h.state[n], d, High(h, c), High(h, b))
        /\ High(h, n) = 1 + Higher(High(h, c), High(h, b))
    BY <2>7 DEF Splits
  <2>10. Knot(h, slots, dirs, j, X, K, Below(h, b), High(h, b))
    BY <2>2, <2>3, <2>6, <2>9, Zenon DEF Knot
  <2>11. QED
    BY <2>8, <2>10
<1>6. Path(h, slots, dirs, top, X, K)
  BY <1>1, <1>4, <1>5 DEF Path
<1>7. QED
  BY <1>6 DEF dirs, X, K

\* The sets along a path lie in each other, and leave the nodes of the path out.
Nested(h, slots, top, X) ==
  /\ \A i, j \in 1..(top + 1) : i <= j => X[j] \subseteq X[i]
  /\ \A i \in 1..top :
       /\ At(h, slots[i]) \in Nodes /\ At(h, slots[i]) \in X[i]
       /\ \A j \in 1..(top + 1) : i < j => At(h, slots[i]) \notin X[j]
       /\ \A j \in 1..top : i < j => At(h, slots[i]) # At(h, slots[j])

LEMMA KnotApart ==
  ASSUME NEW h, NEW slots, NEW dirs, NEW j \in Nat, NEW X, NEW K,
         NEW O \in SUBSET Nodes, NEW ko, Knot(h, slots, dirs, j, X, K, O, ko),
         X[j + 1] \in SUBSET Nodes
  PROVE  /\ At(h, slots[j]) \in Nodes /\ dirs[j] \in Dirs
         /\ X[j] = X[j + 1] \cup {At(h, slots[j])} \cup O
         /\ Apart(At(h, slots[j]), dirs[j], X[j + 1], O)
<1> DEFINE n == At(h, slots[j])
           d == dirs[j]
           D == X[j + 1]
<1>1. /\ n \in Nodes /\ d \in Dirs /\ X[j] = D \cup {n} \cup O
      /\ \A x \in D : OnSide(d, x, n)
      /\ \A x \in O : OnSide(1 - d, x, n)
  BY Zenon DEF Knot
<1> HIDE DEF n, d
<1>2. Apart(n, d, D, O)
  BY <1>1, SidesApart
<1>3. QED
  BY <1>1, <1>2 DEF n, d

LEMMA PathNested ==
  ASSUME NEW h, NEW slots, NEW dirs, NEW top, NEW X, NEW K, Path(h, slots, dirs, top, X, K)
  PROVE  Nested(h, slots, top, X)
<1>0. top \in Nat
  BY DEF Path
<1>1. ASSUME NEW i \in 1..top
      PROVE  /\ At(h, slots[i]) \in Nodes /\ At(h, slots[i]) \in X[i]
             /\ At(h, slots[i]) \notin X[i + 1] /\ X[i + 1] \subseteq X[i]
  <2>1. i \in Nat /\ i + 1 \in 1..(top + 1)
    BY <1>0, SMT
  <2>2. X[i + 1] \in SUBSET Nodes
    BY <2>1 DEF Path
  <2>3. PICK O \in SUBSET Nodes, ko \in Nat : Knot(h, slots, dirs, i, X, K, O, ko)
    BY DEF Path
  <2>4. /\ At(h, slots[i]) \in Nodes
        /\ X[i] = X[i + 1] \cup {At(h, slots[i])} \cup O
        /\ Apart(At(h, slots[i]), dirs[i], X[i + 1], O)
    BY <2>1, <2>2, <2>3, KnotApart
  <2>5. QED
    BY <2>4 DEF Apart
<1>2. ASSUME NEW j \in 1..(top + 1), NEW i \in 1..(top + 1), i <= j PROVE X[j] \subseteq X[i]
  <2> DEFINE T == {m \in Nat : X[j] \subseteq X[m]}
  <2>1. j \in Nat /\ j \in T
    OBVIOUS
  <2>2. ASSUME NEW m \in 1..j, m \in T, m > 1 PROVE m - 1 \in T
    <3>1. m - 1 \in 1..top /\ m - 1 \in Nat /\ (m - 1) + 1 = m
      BY <1>0, <2>2, SMT
    <3>2. X[m] \subseteq X[m - 1]
      BY <1>1, <3>1
    <3>3. QED
      BY <2>2, <3>1, <3>2
  <2> HIDE DEF T
  <2>3. \A m \in 1..j : m \in T
    BY <2>1, <2>2, InductionDown
  <2>4. i \in 1..j
    BY <1>0, <1>2, SMT
  <2>5. QED
    BY <2>3, <2>4 DEF T
<1>3. ASSUME NEW i \in 1..top, NEW j \in 1..(top + 1), i < j PROVE At(h, slots[i]) \notin X[j]
  <2>1. i + 1 \in 1..(top + 1) /\ i + 1 <= j
    BY <1>0, <1>3, SMT
  <2>2. X[j] \subseteq X[i + 1]
    BY <1>2, <2>1
  <2>3. QED
    BY <1>1, <2>2
<1>4. ASSUME NEW i \in 1..top, NEW j \in 1..top, i < j PROVE At(h, slots[i]) # At(h, slots[j])
  <2>1. j \in 1..(top + 1)
    BY <1>0, SMT
  <2>2. QED
    BY <1>1, <1>3, <1>4, <2>1
<1>5. QED
  BY <1>1, <1>2, <1>3, <1>4, Zenon DEF Nested

LEMMA FoundIs ==
  ASSUME NEW h, NEW slots, NEW key, Len(slots) \in Nat
  PROVE  \/ /\ FoundAt(h, slots, key) = 0
            /\ \A i \in 1..(Len(slots) - 1) : Key(At(h, slots[i])) # key
         \/ /\ FoundAt(h, slots, key) \in 1..(Len(slots) - 1)
            /\ Key(At(h, slots[FoundAt(h, slots, key)])) = key
<1> DEFINE at == {i \in 1..(Len(slots) - 1) : Key(At(h, slots[i])) = key}
<1>1. FoundAt(h, slots, key) = IF at = {} THEN 0 ELSE CHOOSE i \in at : TRUE
  BY DEF FoundAt
<1>2. CASE at = {}
  BY <1>1, <1>2
<1>3. CASE at # {}
  <2>1. FoundAt(h, slots, key) \in at
    BY <1>1, <1>3
  <2>2. QED
    BY <2>1
<1>4. QED
  BY <1>2, <1>3

\* A key that is not met on the way is not in the tree.
LEMMA KeyMissing ==
  ASSUME NEW h \in Heaps, NEW key \in Int, IsTree(h, h.root), NEW slots, Sound(h, slots, key),
         \A i \in 1..(Len(slots) - 1) : Key(At(h, slots[i])) # key
  PROVE  \A x \in Below(h, h.root) : Key(x) # key
<1> DEFINE dirs == DirsTo(h, slots, key)
           top  == Len(slots) - 1
           X    == Unders(h, slots)
           K    == Highs(h, slots)
           T    == {j \in Nat : \A x \in X[j] : Key(x) # key}
<1>1. slots \in Seq(Slots) /\ Len(slots) \in Nat \ {0} /\ top \in Nat /\ top + 1 = Len(slots)
      /\ slots[1] = RootSlot /\ Last(slots) = slots[Len(slots)] /\ At(h, slots[Len(slots)]) = Null
  BY DEF Sound, Chain, Last
<1>2. \A j \in 1..top : dirs[j] = DirTo(At(h, slots[j]), key)
  BY DEF DirsTo
<1>3. Path(h, slots, dirs, top, X, K)
  BY DescentPath DEF Sound
<1>4. X[1] = Below(h, h.root) /\ X[top + 1] = Below(h, Null)
  <2>1. 1 \in 1..Len(slots) /\ Len(slots) \in 1..Len(slots)
    BY <1>1, SMT
  <2>2. At(h, slots[1]) = h.root
    BY <1>1, SlotFacts
  <2>3. QED
    BY <1>1, <2>1, <2>2 DEF Unders
<1>5. Below(h, Null) = {}
  <2>1. Avl(h, Null, {}, 0)
    BY AvlEmpty
  <2>2. QED
    BY <2>1, TreeIs
<1> HIDE DEF dirs, top, X, K
<1>6. top + 1 \in T
  BY <1>1, <1>4, <1>5
<1>7. ASSUME NEW i \in 1..(top + 1), i \in T /\ i > 1 PROVE i - 1 \in T
  <2> DEFINE j == i - 1
             n == At(h, slots[j])
  <2>1. j \in 1..top /\ j \in Nat /\ j + 1 = i /\ j + 1 \in 1..(top + 1)
    BY <1>1, <1>7, SMT
  <2> HIDE DEF j
  <2>2. X[j + 1] \in SUBSET Nodes
    BY <1>3, <2>1 DEF Path
  <2>3. PICK O \in SUBSET Nodes, ko \in Nat : Knot(h, slots, dirs, j, X, K, O, ko)
    BY <1>3, <2>1 DEF Path
  <2>4. X[j] = X[j + 1] \cup {n} \cup O /\ n \in Nodes /\ \A x \in O : OnSide(1 - dirs[j], x, n)
    BY <2>3 DEF Knot
  <2>5. Key(n) # key /\ dirs[j] = DirTo(n, key)
    BY <1>2, <2>1 DEF top
  <2>6. ASSUME NEW x \in O PROVE Key(x) # key
    <3>1. OnSide(1 - DirTo(n, key), x, n) /\ x \in Nodes
      BY <2>4, <2>5
    <3>2. Key(n) \in Int /\ Key(x) \in Int
      BY <2>4, <3>1, KeyType
    <3>3. QED
      BY <2>5, <3>1, <3>2, SMT DEF OnSide, DirTo, LEFT, RIGHT
  <2>7. \A x \in X[j + 1] : Key(x) # key
    BY <1>7, <2>1
  <2>8. \A x \in X[j] : Key(x) # key
    BY <2>4, <2>5, <2>6, <2>7
  <2>9. QED
    BY <2>1, <2>8 DEF j
<1> HIDE DEF T
<1>8. \A i \in 1..(top + 1) : i \in T
  BY <1>1, <1>6, <1>7, InductionDown
<1>9. 1 \in 1..(top + 1)
  BY <1>1, SMT
<1>10. QED
  BY <1>4, <1>8, <1>9 DEF T

\* Past the node of the key the way is to its left and from there to the right.
LEMMA PastTheKey ==
  ASSUME NEW h \in Heaps, NEW key \in Int, IsTree(h, h.root), NEW slots, Chain(h, slots, key),
         NEW t \in 1..(Len(slots) - 1), Key(At(h, slots[t])) = key
  PROVE  /\ DirsTo(h, slots, key)[t] = LEFT
         /\ \A j \in (t + 1)..(Len(slots) - 1) : DirsTo(h, slots, key)[j] = RIGHT
<1> DEFINE dirs == DirsTo(h, slots, key)
           top  == Len(slots) - 1
           X    == Unders(h, slots)
           K    == Highs(h, slots)
           n    == At(h, slots[t])
<1>1. slots \in Seq(Slots) /\ Len(slots) \in Nat \ {0} /\ top \in Nat
  BY DEF Chain
<1>2. \A j \in 1..top : dirs[j] = DirTo(At(h, slots[j]), key)
  BY DEF DirsTo
<1>3. Path(h, slots, dirs, top, X, K)
  BY DescentPath
<1> HIDE DEF dirs, X, K
<1>4. dirs[t] = LEFT
  <2>1. ~ (key < key)
    BY SMT
  <2>2. QED
    BY <1>2, <2>1 DEF DirTo
<1>5. Nested(h, slots, top, X)
  BY <1>3, PathNested
<1>6. PICK O \in SUBSET Nodes, ko \in Nat : Knot(h, slots, dirs, t, X, K, O, ko)
  BY <1>3 DEF Path
<1>7. \A x \in X[t + 1] : OnSide(LEFT, x, n)
  BY <1>4, <1>6 DEF Knot
<1>8. ASSUME NEW j \in (t + 1)..top PROVE dirs[j] = RIGHT
  <2>1. j \in 1..top /\ j \in 1..(top + 1) /\ t + 1 \in 1..(top + 1) /\ t + 1 <= j
    BY <1>1, SMT
  <2> DEFINE m == At(h, slots[j])
  <2>2. m \in X[j] /\ X[j] \subseteq X[t + 1] /\ m \in Nodes
    BY <1>5, <2>1 DEF Nested
  <2>3. Key(m) < key
    BY <1>7, <2>2 DEF OnSide
  <2>4. QED
    BY <1>2, <2>1, <2>3 DEF DirTo
<1>9. QED
  BY <1>4, <1>8 DEF dirs
-----------------------------------------------------------------------------
(* A path in a heap that has changed below it. *)

\* The nodes of Z are what they were.
Same(g, h, Z) ==
  \A x \in Z : g.state[x] = h.state[x] /\ \A e \in Dirs : g.child[x][e] = h.child[x][e]

LEMMA FrameSame ==
  ASSUME NEW h \in Heaps, NEW g \in Heaps, NEW n, NEW S, NEW k \in Nat, Avl(h, n, S, k),
         Same(g, h, S)
  PROVE  Avl(g, n, S, k)
<1>1. S \in SUBSET Nodes
  BY AvlType
<1>2. ASSUME NEW x \in S PROVE g.child[x] = h.child[x] /\ g.state[x] = h.state[x]
  <2>1. g.child[x] \in [Dirs -> Nodes \cup {Null}] /\ h.child[x] \in [Dirs -> Nodes \cup {Null}]
    BY <1>1 DEF Heaps
  <2>2. \A e \in Dirs : g.child[x][e] = h.child[x][e]
    BY DEF Same
  <2>3. g.child[x] = h.child[x]
    BY <2>1, <2>2
  <2>4. QED
    BY <2>3 DEF Same
<1>3. QED
  BY <1>2, Frame

\* A knot whose node and other side are what they were.
LEMMA KnotKept ==
  ASSUME NEW h \in Heaps, NEW g \in Heaps, NEW slots, NEW dirs, NEW j \in Nat, NEW X, NEW K,
         NEW O \in SUBSET Nodes, NEW ko \in Nat, Knot(h, slots, dirs, j, X, K, O, ko),
         NEW n, n = At(h, slots[j]), Same(g, h, O), g.state[n] = h.state[n],
         g.child[n][1 - dirs[j]] = h.child[n][1 - dirs[j]],
         NEW stack, stack[j] \in Slots, stack[j + 1] = slots[j + 1], At(g, stack[j]) = n,
         NEW Y, Y[j] = Y[j + 1] \cup {n} \cup O, \A x \in Y[j + 1] : OnSide(dirs[j], x, n),
         Outside(stack[j], Y[j])
  PROVE  Knot(g, stack, dirs, j, Y, K, O, ko)
<1>1. /\ n \in Nodes /\ dirs[j] \in Dirs /\ slots[j + 1] = <<n, dirs[j]>>
      /\ Avl(h, h.child[n][1 - dirs[j]], O, ko)
      /\ Weighs(h.state[n], dirs[j], K[j + 1], ko)
      /\ K[j] = 1 + Higher(K[j + 1], ko)
      /\ \A x \in O : OnSide(1 - dirs[j], x, n)
  BY DEF Knot
<1>2. Avl(g, h.child[n][1 - dirs[j]], O, ko)
  BY <1>1, FrameSame
<1>3. Avl(g, g.child[n][1 - dirs[j]], O, ko) /\ Weighs(g.state[n], dirs[j], K[j + 1], ko)
  BY <1>1, <1>2
<1>4. QED
  BY <1>1, <1>3, Zenon DEF Knot

\* The slots of a path differ, and none is the other child of one of its nodes.
LEMMA PathSlots ==
  ASSUME NEW h, NEW slots, NEW dirs, NEW top, NEW X, NEW K, Path(h, slots, dirs, top, X, K)
  PROVE  /\ \A i, j \in 1..(top + 1) : i < j => slots[i] # slots[j]
         /\ \A i \in 1..top, j \in 1..(top + 1) : slots[j] # <<At(h, slots[i]), 1 - dirs[i]>>
<1>0. top \in Nat /\ slots[1] = RootSlot
  BY DEF Path
<1>1. \A i \in 1..top : slots[i + 1] = <<At(h, slots[i]), dirs[i]>> /\ dirs[i] \in Dirs
  BY DEF Path, Knot
<1>2. Nested(h, slots, top, X)
  BY PathNested
<1>3. \A i \in 1..top : At(h, slots[i]) \in Nodes
  BY <1>2 DEF Nested
<1>4. \A j \in 1..(top + 1) : j # 1 => /\ j - 1 \in 1..top /\ j - 1 < j
                                       /\ slots[j] = <<At(h, slots[j - 1]), dirs[j - 1]>>
  <2>1. TAKE j \in 1..(top + 1)
  <2>2. HAVE j # 1
  <2>3. j - 1 \in 1..top /\ (j - 1) + 1 = j /\ j - 1 < j
    BY <1>0, <2>2, SMT
  <2>4. QED
    BY <1>1, <2>3
<1>5. ASSUME NEW i \in 1..(top + 1), NEW j \in 1..(top + 1), i < j PROVE slots[i] # slots[j]
  <2>1. j # 1
    BY <1>0, <1>5, SMT
  <2>2. slots[j] = <<At(h, slots[j - 1]), dirs[j - 1]>> /\ j - 1 \in 1..top
    BY <1>4, <2>1
  <2>3. CASE i = 1
    <3>1. slots[j] # RootSlot
      BY <1>1, <1>3, <2>2, SlotFacts
    <3>2. QED
      BY <1>0, <2>3, <3>1
  <2>4. CASE i # 1
    <3>1. slots[i] = <<At(h, slots[i - 1]), dirs[i - 1]>> /\ i - 1 \in 1..top
      BY <1>4, <2>4
    <3>2. i - 1 < j - 1
      BY <1>0, <1>5, SMT
    <3>3. At(h, slots[i - 1]) # At(h, slots[j - 1])
      BY <1>2, <2>2, <3>1, <3>2 DEF Nested
    <3>4. QED
      BY <2>2, <3>1, <3>3
  <2>5. QED
    BY <2>3, <2>4
<1>6. ASSUME NEW i \in 1..top, NEW j \in 1..(top + 1), slots[j] = <<At(h, slots[i]), 1 - dirs[i]>>
      PROVE  FALSE
  <2>0. 1 - dirs[i] \in Dirs /\ 1 - dirs[i] # dirs[i]
    BY <1>1, Directions
  <2>1. j # 1
    BY <1>0, <1>3, <1>6, <2>0, SlotFacts
  <2>2. slots[j] = <<At(h, slots[j - 1]), dirs[j - 1]>> /\ j - 1 \in 1..top
    BY <1>4, <2>1
  <2>3. At(h, slots[j - 1]) = At(h, slots[i]) /\ dirs[j - 1] = 1 - dirs[i]
    BY <1>6, <2>2
  <2>4. j - 1 = i
    <3>1. ~ (j - 1 < i) /\ ~ (i < j - 1)
      BY <1>2, <2>2, <2>3 DEF Nested
    <3>2. QED
      BY <1>0, <2>2, <3>1, SMT
  <2>5. QED
    BY <2>0, <2>3, <2>4
<1>7. QED
  BY <1>5, <1>6

\* Below slots[m + 1] the nodes of Out have given way to those of In; the nodes
\* of C and that slot are what has changed.
Grafted(g, h, slots, dirs, top, X, m, Out, In, C, Y) ==
  /\ m \in 0..top
  /\ Out \subseteq X[m + 1] /\ In \subseteq Nodes
  /\ \A j \in 1..m : \A x \in In : OnSide(dirs[j], x, At(h, slots[j]))
  /\ C \cap X[1] \subseteq X[m + 1] /\ Alike(g, h, slots[m + 1], C)
  /\ \A j \in 1..(m + 1) : Y[j] = (X[j] \ Out) \cup In

Kept(g, h, slots, dirs, m, Y, K) ==
  /\ Path(g, slots, dirs, m, Y, K)
  /\ \A j \in 1..m : At(g, slots[j]) = At(h, slots[j])

LEMMA PathKept ==
  ASSUME NEW h \in Heaps, NEW g \in Heaps, NEW slots, NEW dirs, NEW top, NEW X, NEW K,
         Path(h, slots, dirs, top, X, K), NEW m, NEW Out, NEW In, NEW C, NEW Y,
         Grafted(g, h, slots, dirs, top, X, m, Out, In, C, Y)
  PROVE  Kept(g, h, slots, dirs, m, Y, K)
<1>a. /\ m \in 0..top
      /\ Out \subseteq X[m + 1] /\ In \subseteq Nodes
      /\ \A j \in 1..m : \A x \in In : OnSide(dirs[j], x, At(h, slots[j]))
      /\ C \cap X[1] \subseteq X[m + 1] /\ Alike(g, h, slots[m + 1], C)
      /\ \A j \in 1..(m + 1) : Y[j] = (X[j] \ Out) \cup In
  BY Zenon DEF Grafted
<1>0. top \in Nat /\ m \in Nat /\ slots[1] = RootSlot
  BY <1>a DEF Path
<1>1. \A j \in 1..(m + 1) : j \in 1..(top + 1)
  BY <1>0, <1>a, SMT
<1>2. \A j \in 1..(m + 1) : Y[j] \in SUBSET Nodes /\ K[j] \in Nat /\ slots[j] \in Slots
  BY <1>1, <1>a DEF Path
<1>3. Nested(h, slots, top, X)
  BY PathNested
<1>4. /\ \A i, j \in 1..(top + 1) : i < j => slots[i] # slots[j]
      /\ \A i \in 1..top, j \in 1..(top + 1) : slots[j] # <<At(h, slots[i]), 1 - dirs[i]>>
  BY PathSlots
<1>5. ASSUME NEW j \in 1..m
      PROVE  /\ At(g, slots[j]) = At(h, slots[j])
             /\ \E O \in SUBSET Nodes, ko \in Nat : Knot(g, slots, dirs, j, Y, K, O, ko)
  <2> DEFINE n == At(h, slots[j])
             d == dirs[j]
  <2>0. /\ j \in Nat /\ j \in 1..top /\ j \in 1..(m + 1) /\ j + 1 \in 1..(m + 1) /\ m + 1 \in 1..(top + 1)
        /\ j \in 1..(top + 1) /\ j + 1 \in 1..(top + 1) /\ j < m + 1 /\ j + 1 <= m + 1 /\ 1 \in 1..(top + 1)
        /\ 1 <= j
    BY <1>0, <1>a, SMT
  <2>1. PICK O \in SUBSET Nodes, ko \in Nat : Knot(h, slots, dirs, j, X, K, O, ko)
    BY <2>0 DEF Path
  <2>2. X[j + 1] \in SUBSET Nodes /\ slots[j] \in Slots /\ slots[m + 1] \in Slots
    BY <2>0 DEF Path
  <2>3. /\ n \in Nodes /\ d \in Dirs
        /\ X[j] = X[j + 1] \cup {n} \cup O
        /\ Apart(n, d, X[j + 1], O)
    BY <2>0, <2>1, <2>2, KnotApart
  <2>4. n \notin X[j + 1] /\ n \notin O /\ X[j + 1] \cap O = {}
    BY <2>3 DEF Apart
  <2>5. X[m + 1] \subseteq X[j + 1] /\ X[j] \subseteq X[1]
    BY <1>3, <2>0 DEF Nested
  <2>6. n \notin C /\ O \cap C = {} /\ n \notin Out /\ O \cap Out = {}
    BY <1>a, <2>3, <2>4, <2>5
  <2>7. Outside(slots[m + 1], O)
    <3>1. slots[m + 1] = <<At(h, slots[m]), dirs[m]>>
      <4>1. m \in 1..top
        BY <1>0, <2>0, SMT
      <4>2. \E P \in SUBSET Nodes, kp \in Nat : Knot(h, slots, dirs, m, X, K, P, kp)
        BY <4>1, Zenon DEF Path
      <4>3. QED
        BY <4>2, Zenon DEF Knot
    <3>2. m \in 1..top /\ (m = j \/ (j < m /\ j + 1 <= m)) /\ m \in 1..(top + 1)
      BY <1>0, <1>a, SMT
    <3>3. At(h, slots[m]) \notin O
      <4>1. CASE m = j
        BY <2>4, <4>1
      <4>2. CASE j + 1 <= m
        <5>1. At(h, slots[m]) \in X[m] /\ X[m] \subseteq X[j + 1]
          BY <1>3, <2>0, <3>2, <4>2 DEF Nested
        <5>2. QED
          BY <2>4, <5>1
      <4>3. QED
        BY <3>2, <4>1, <4>2
    <3>4. QED
      BY <3>1, <3>3 DEF Outside
  <2>8. Same(g, h, O)
    BY <1>a, <2>6, <2>7 DEF Same, Alike, Outside
  <2>9. <<n, 1 - d>> # slots[m + 1] /\ slots[j] # slots[m + 1] /\ 1 - d \in Dirs
    BY <1>4, <2>0, <2>3, Directions
  <2>10. g.state[n] = h.state[n] /\ g.child[n][1 - d] = h.child[n][1 - d]
    BY <1>a, <2>3, <2>6, <2>9 DEF Alike
  <2>11. At(g, slots[j]) = n
    <3>1. CASE j = 1
      <4>1. slots[m + 1] # RootSlot
        BY <1>0, <2>9, <3>1
      <4>2. g.root = h.root
        BY <1>a, <4>1 DEF Alike
      <4>3. QED
        BY <1>0, <3>1, <4>2, SlotFacts
    <3>2. CASE j # 1
      <4> DEFINE i == j - 1
      <4>1. i \in 1..top /\ i + 1 = j /\ i < j /\ i \in 1..(top + 1)
        BY ONLY <1>0, <1>a, j \in 1..m, <3>2, SMT DEF i
      <4> HIDE DEF i
      <4>2. slots[i + 1] = <<At(h, slots[i]), dirs[i]>> /\ At(h, slots[i]) \in Nodes /\ dirs[i] \in Dirs
        <5>1. \E P \in SUBSET Nodes, kp \in Nat : Knot(h, slots, dirs, i, X, K, P, kp)
          BY <4>1, Zenon DEF Path
        <5>2. QED
          BY <5>1, Zenon DEF Knot
      <4>3. slots[j] = <<At(h, slots[i]), dirs[i]>>
        BY <4>1, <4>2
      <4>4. At(h, slots[i]) \in X[i] /\ X[i] \subseteq X[1] /\ At(h, slots[i]) \notin X[m + 1]
        <5>1. i < m + 1 /\ 1 <= i
          BY <2>0, <4>1, SMT
        <5>2. QED
          BY <1>3, <2>0, <4>1, <5>1 DEF Nested
      <4>5. At(h, slots[i]) \notin C
        BY <1>a, <4>4
      <4>6. g.child[At(h, slots[i])][dirs[i]] = h.child[At(h, slots[i])][dirs[i]]
        BY <1>a, <2>9, <4>2, <4>3, <4>5 DEF Alike
      <4>7. At(g, slots[j]) = g.child[At(h, slots[i])][dirs[i]] /\ At(h, slots[j]) = h.child[At(h, slots[i])][dirs[i]]
        BY <4>2, <4>3, SlotFacts
      <4>8. QED
        BY <4>6, <4>7
    <3>3. QED
      BY <3>1, <3>2
  <2>12. Y[j] = (X[j] \ Out) \cup In /\ Y[j + 1] = (X[j + 1] \ Out) \cup In
    BY <1>a, <2>0
  <2>13. Y[j] = Y[j + 1] \cup {n} \cup O
    BY <2>3, <2>6, <2>12
  <2>14. ASSUME NEW x \in Y[j + 1] PROVE OnSide(dirs[j], x, n)
    <3>1. CASE x \in X[j + 1]
      BY <2>1, <3>1 DEF Knot
    <3>2. CASE x \in In
      BY <1>a, <3>2
    <3>3. QED
      BY <2>12, <3>1, <3>2
  <2>15. Outside(slots[j], Y[j])
    <3>1. Outside(slots[j], X[j])
      BY <2>1 DEF Knot
    <3>2. Outside(slots[j], In)
      <4>1. CASE j = 1
        BY <1>0, <1>a, <4>1, SlotFacts DEF Outside
      <4>2. CASE j # 1
        <5> DEFINE i == j - 1
        <5>1. i \in 1..top /\ i + 1 = j /\ i \in 1..m
          BY ONLY <1>0, <1>a, j \in 1..m, <4>2, SMT DEF i
        <5> HIDE DEF i
        <5>2. slots[i + 1] = <<At(h, slots[i]), dirs[i]>> /\ At(h, slots[i]) \in Nodes /\ dirs[i] \in Dirs
          <6>1. \E P \in SUBSET Nodes, kp \in Nat : Knot(h, slots, dirs, i, X, K, P, kp)
            BY <5>1, Zenon DEF Path
          <6>2. QED
            BY <6>1, Zenon DEF Knot
        <5>3. At(h, slots[i]) \notin In
          <6>1. \A x \in In : OnSide(dirs[i], x, At(h, slots[i]))
            BY <1>a, <5>1
          <6>2. QED
            BY <1>a, <5>2, <6>1, Sides
        <5>4. QED
          BY <5>1, <5>2, <5>3 DEF Outside
      <4>3. QED
        BY <4>1, <4>2
    <3>3. QED
      BY <2>12, <3>1, <3>2 DEF Outside
  <2>16. n = At(h, slots[j])
    OBVIOUS
  <2> HIDE DEF n, d
  <2>17. Knot(g, slots, dirs, j, Y, K, O, ko)
    BY <2>0, <2>1, <2>2, <2>8, <2>10, <2>11, <2>13, <2>14, <2>15, <2>16, KnotKept DEF d
  <2>18. QED
    BY <2>11, <2>17 DEF n
<1>6. Path(g, slots, dirs, m, Y, K)
  BY <1>0, <1>2, <1>5, Zenon DEF Path
<1>7. QED
  BY <1>5, <1>6 DEF Kept
============================================================================
