--------------------------- MODULE AvlTree_proofs ---------------------------
(***************************************************************************)
(* Proofs about the AVL tree, for every set of nodes and every order of    *)
(* operations: the tree stays balanced and in order, the traversal returns *)
(* its nodes in the order of their keys, and the operations are those of   *)
(* an ordered map.                                                         *)
(***************************************************************************)
EXTENDS AvlShape_proofs
-----------------------------------------------------------------------------
(* Insert. *)

\* The tree of g has the nodes S; those that are not in Z are as in h.
Became(g, h, S, Z) ==
  g \in Heaps /\ (\E k \in Nat : Avl(g, g.root, S, k)) /\ Same(g, h, Nodes \ Z)

LEMMA WayUpBecame ==
  ASSUME NEW p \in Heaps, NEW g, NEW S, NEW k \in Nat, Upright(g, p, RootSlot, S, k)
  PROVE  Became(g, p, S, S)
<1>1. \A m \in Nodes, e \in Dirs : <<m, e>> # RootSlot
  BY SlotFacts
<1>2. Same(g, p, Nodes \ S)
  BY <1>1 DEF Upright, Alike, Same
<1>3. At(g, RootSlot) = g.root
  BY SlotFacts
<1>4. QED
  BY <1>2, <1>3 DEF Upright, Became

\* A chain from the root to a node of a key that is not in the tree turns to the
\* side of that key.
LEMMA ChainSides ==
  ASSUME NEW h, NEW n \in Nodes, NEW slots, Chain(h, slots, Key(n)),
         NEW i \in 1..(Len(slots) - 1), Key(At(h, slots[i])) # Key(n)
  PROVE  OnSide(DirsTo(h, slots, Key(n))[i], n, At(h, slots[i]))
<1>1. DirsTo(h, slots, Key(n))[i] = DirTo(At(h, slots[i]), Key(n)) /\ At(h, slots[i]) \in Nodes
  BY DEF DirsTo, Chain
<1>2. Key(n) \in Int /\ Key(At(h, slots[i])) \in Int
  BY <1>1, KeyType
<1>3. QED
  BY <1>1, <1>2, SMT DEF OnSide, DirTo, LEFT, RIGHT

LEMMA InsertWorks ==
  ASSUME NEW h \in Heaps, IsTree(h, h.root), NEW n \in Nodes, n \notin Below(h, h.root),
         h.child[n] = NoChildren, h.state[n] = BALANCED,
         NEW slots, Sound(h, slots, Key(n)), NEW top, top = Len(slots) - 1,
         \A i \in 1..top : Key(At(h, slots[i])) # Key(n),
         NEW dirs, dirs = DirsTo(h, slots, Key(n))
  PROVE  LET B == Below(h, h.root) \cup {n}
         IN  Became(WayUp(Put(h, slots[top + 1], n), slots, dirs, top, TRUE), h, B, B)
<1> DEFINE X == Unders(h, slots)
           K == Highs(h, slots)
           p == Put(h, slots[top + 1], n)
           B == Below(h, h.root)
           Y == [j \in 1..(top + 1) |-> (X[j] \ {}) \cup {n}]
<1>1. slots \in Seq(Slots) /\ Len(slots) \in Nat \ {0} /\ top \in Nat /\ top + 1 = Len(slots)
      /\ slots[1] = RootSlot /\ At(h, slots[top + 1]) = Null /\ slots[top + 1] \in Slots
      /\ 1 \in 1..(top + 1) /\ top + 1 \in 1..(top + 1) /\ top \in 0..top
  BY DEF Sound, Chain, Last
<1>2. Path(h, slots, dirs, top, X, K)
  BY DescentPath DEF Sound
<1>3. X[1] = B /\ X[top + 1] = {} /\ K[top + 1] = 0 /\ B \in SUBSET Nodes
  <2>1. Avl(h, Null, {}, 0)
    BY AvlEmpty
  <2>2. Below(h, Null) = {} /\ High(h, Null) = 0
    BY <2>1, TreeIs
  <2>3. At(h, slots[1]) = h.root
    BY <1>1, SlotFacts
  <2>4. QED
    BY <1>1, <2>2, <2>3, TreeBelow DEF Unders, Highs
<1>4. SlotSet(p, h, slots[top + 1], n)
  BY <1>1, PutIs DEF NodesOrNull
<1>5. p \in Heaps /\ At(p, slots[top + 1]) = n /\ p.state = h.state /\ Alike(p, h, slots[top + 1], {})
  BY <1>4 DEF SlotSet
<1>6. \A j \in 1..top : \A x \in {n} : OnSide(dirs[j], x, At(h, slots[j]))
  BY ChainSides DEF Sound
<1>7. Outside(slots[top + 1], {n}) /\ (slots[top + 1] # RootSlot => \E m \in B, e \in Dirs : slots[top + 1] = <<m, e>>)
  <2>1. CASE top = 0
    <3>1. slots[top + 1] = RootSlot
      BY <1>1, <2>1
    <3>2. QED
      BY <3>1, SlotFacts DEF Outside
  <2>2. CASE top # 0
    <3>1. top \in 1..top /\ 1 \in 1..(top + 1) /\ top \in 1..(top + 1) /\ 1 <= top
      BY <1>1, <2>2, SMT
    <3>2. \E O \in SUBSET Nodes, ko \in Nat : Knot(h, slots, dirs, top, X, K, O, ko)
      BY <1>2, <3>1, Zenon DEF Path
    <3>3. slots[top + 1] = <<At(h, slots[top]), dirs[top]>> /\ dirs[top] \in Dirs
      BY <3>2, Zenon DEF Knot
    <3>4. Nested(h, slots, top, X)
      BY <1>2, PathNested
    <3>5. At(h, slots[top]) \in B
      BY <1>3, <3>1, <3>4 DEF Nested
    <3>6. At(h, slots[top]) # n
      BY <3>5
    <3>7. QED
      BY <3>3, <3>5, <3>6 DEF Outside
  <2>3. QED
    BY <2>1, <2>2
<1> HIDE DEF X, K, p, B
<1>8. Y = [j \in 1..(top + 1) |-> (X[j] \ {}) \cup {n}]
  OBVIOUS
<1> HIDE DEF Y
<1>9. Path(p, slots, dirs, top, Y, K)
  <2> DEFINE E == {}
             N == {n}
  <2>1. E \subseteq X[top + 1] /\ E \cap X[1] \subseteq X[top + 1] /\ N \subseteq Nodes
    OBVIOUS
  <2>2. Alike(p, h, slots[top + 1], E) /\ \A j \in 1..(top + 1) : Y[j] = (X[j] \ E) \cup N
    BY <1>5, <1>8
  <2>3. \A j \in 1..top : \A x \in N : OnSide(dirs[j], x, At(h, slots[j]))
    BY <1>6
  <2> HIDE DEF E, N
  <2>4. Grafted(p, h, slots, dirs, top, X, top, E, N, E, Y)
    BY <1>1, <2>1, <2>2, <2>3, Zenon DEF Grafted
  <2>5. Kept(p, h, slots, dirs, top, Y, K)
    BY <1>2, <1>5, <2>4, PathKept
  <2>6. QED
    BY <2>5 DEF Kept
<1>10. Y[1] = B \cup {n} /\ Y[top + 1] = {n}
  BY <1>1, <1>3, <1>8
<1>11. Avl(p, n, {n}, 1)
  <2>1. \A e \in Dirs : p.child[n][e] = Null
    <3>1. \A e \in Dirs : h.child[n][e] = Null
      BY DEF NoChildren
    <3>2. QED
      BY <1>4, <1>7, <3>1 DEF SlotSet, Outside
  <2>2. p.state[n] = BALANCED
    BY <1>5
  <2>3. Avl(p, Null, {}, 0)
    BY AvlEmpty
  <2>4. LEFT \in Dirs /\ 1 - LEFT \in Dirs
    BY Directions
  <2>5. Weighs(p.state[n], LEFT, 0, 0) /\ 1 = 1 + Higher(0, 0)
    BY <2>2 DEF Weighs, Higher
  <2>6. Avl(p, p.child[n][LEFT], {}, 0) /\ Avl(p, p.child[n][1 - LEFT], {}, 0)
    BY <2>1, <2>3, <2>4
  <2> DEFINE E == {}
             S == {n}
  <2>7. S = E \cup {n} \cup E /\ (\A x \in E : OnSide(LEFT, x, n)) /\ \A x \in E : OnSide(1 - LEFT, x, n)
    OBVIOUS
  <2>8. Avl(p, p.child[n][LEFT], E, 0) /\ Avl(p, p.child[n][1 - LEFT], E, 0)
    BY <2>6
  <2> HIDE DEF E, S
  <2>9. Avl(p, n, S, 1)
    BY <2>4, <2>5, <2>7, <2>8, Compose
  <2>10. QED
    BY <2>9 DEF S
<1>12. Changed(1, K[top + 1], TRUE) /\ Ripe(p, n, 1)
  BY <1>3 DEF Changed, Ripe
<1>13. PICK i \in Nat : Upright(WayUp(p, slots, dirs, top, TRUE), p, RootSlot, Y[1], i)
  BY <1>5, <1>9, <1>10, <1>11, <1>12, WayUpWorks
<1> DEFINE g == WayUp(p, slots, dirs, top, TRUE)
           S == B \cup {n}
<1>14. Became(g, p, S, S)
  BY <1>5, <1>10, <1>13, WayUpBecame
<1> HIDE DEF g
<1>15. Same(p, h, Nodes \ S)
  <2>1. ASSUME NEW x \in Nodes \ S, NEW e \in Dirs PROVE <<x, e>> # slots[top + 1]
    <3>1. CASE slots[top + 1] = RootSlot
      BY <3>1, SlotFacts
    <3>2. CASE slots[top + 1] # RootSlot
      <4>1. PICK m \in B, b \in Dirs : slots[top + 1] = <<m, b>>
        BY <1>7, <3>2
      <4>2. x # m
        BY <4>1
      <4>3. QED
        BY <4>1, <4>2
    <3>3. QED
      BY <3>1, <3>2
  <2>2. QED
    BY <1>5, <2>1 DEF Same, Alike
<1>16. Same(g, h, Nodes \ S)
  BY <1>14, <1>15 DEF Same, Became
<1>17. Became(g, h, S, S)
  BY <1>14, <1>16 DEF Became
<1>18. QED
  BY <1>17 DEF g, p, B
-----------------------------------------------------------------------------
(* Replace. *)

\* Changes of what a node holds.
NodeSet(g, h, m, c, s) ==
  /\ g \in Heaps /\ g.root = h.root
  /\ g.child[m] = c /\ g.state[m] = s
  /\ \A x \in Nodes : x # m => g.child[x] = h.child[x] /\ g.state[x] = h.state[x]

WithNode(h, m, c, s) == [h EXCEPT !.child[m] = c, !.state[m] = s]
WithKids(h, m, c)    == [h EXCEPT !.child[m] = c]

LEMMA NodeIs ==
  ASSUME NEW h \in Heaps, NEW m \in Nodes, NEW c \in [Dirs -> NodesOrNull],
         NEW s \in Balances, NEW g, g = WithNode(h, m, c, s)
  PROVE  NodeSet(g, h, m, c, s)
BY DEF Heaps, NodeSet, WithNode, NodesOrNull, Balances

LEMMA KidsAre ==
  ASSUME NEW h \in Heaps, NEW m \in Nodes, NEW c \in [Dirs -> NodesOrNull],
         NEW g, g = WithKids(h, m, c)
  PROVE  NodeSet(g, h, m, c, h.state[m])
BY DEF Heaps, NodeSet, WithKids, NodesOrNull

LEMMA NodeType ==
  ASSUME NEW h \in Heaps, NEW m \in Nodes
  PROVE  h.child[m] \in [Dirs -> NodesOrNull] /\ h.state[m] \in Balances
         /\ NoChildren \in [Dirs -> NodesOrNull] /\ BALANCED \in Balances
BY DEF Heaps, NodesOrNull, Balances, NoChildren

\* The slot of a node that is not in X.
LEMMA SlotApart ==
  ASSUME NEW slot \in Slots, NEW X, Outside(slot, X), NEW h, NEW g,
         slot = RootSlot => g.root = h.root,
         \A y \in Nodes \ X : g.child[y] = h.child[y]
  PROVE  At(g, slot) = At(h, slot)
<1>1. CASE slot = RootSlot
  BY <1>1, SlotFacts
<1>2. CASE slot # RootSlot
  <2>1. PICK y \in Nodes, e \in Dirs : slot = <<y, e>>
    BY <1>2, SlotFacts
  <2>2. y \notin X
    BY <2>1 DEF Outside
  <2>3. g.child[y] = h.child[y]
    BY <2>2
  <2>4. QED
    BY <2>1, <2>3, SlotFacts
<1>3. QED
  BY <1>1, <1>2

\* What Exchange does to the heap.
Exchanged(g, h, slot, old, n) ==
  /\ g \in Heaps /\ At(g, slot) = n
  /\ g.child[n] = h.child[old] /\ g.state[n] = h.state[old]
  /\ g.child[old] = NoChildren /\ g.state[old] = BALANCED
  /\ Alike(g, h, slot, {old, n})

LEMMA ExchangeIs ==
  ASSUME NEW h \in Heaps, NEW slot \in Slots, NEW n \in Nodes, NEW old \in Nodes,
         old = At(h, slot), old # n, Outside(slot, {old, n})
  PROVE  Exchanged(Exchange(h, slot, n), h, slot, old, n)
<1> DEFINE h1 == Put(h, slot, n)
           h2 == WithNode(h1, n, h1.child[old], h1.state[old])
           g  == WithNode(h2, old, NoChildren, BALANCED)
<1>1. Exchange(h, slot, n) = g
  BY Zenon DEF Exchange, WithNode
<1>2. SlotSet(h1, h, slot, n)
  BY PutIs DEF NodesOrNull
<1>3. h1 \in Heaps /\ At(h1, slot) = n /\ h1.state = h.state /\ Alike(h1, h, slot, {})
  BY <1>2 DEF SlotSet
<1>4. h1.child[old] = h.child[old]
  <2>1. \A e \in Dirs : h1.child[old][e] = h.child[old][e]
    BY <1>2 DEF SlotSet, Outside
  <2>2. h1.child[old] \in [Dirs -> NodesOrNull] /\ h.child[old] \in [Dirs -> NodesOrNull]
    BY <1>3, NodeType
  <2>3. QED
    BY <2>1, <2>2
<1> HIDE DEF h1
<1>5. NodeSet(h2, h1, n, h1.child[old], h1.state[old])
  BY <1>3, NodeType, NodeIs
<1>6. h2 \in Heaps
  BY <1>5 DEF NodeSet
<1> HIDE DEF h2
<1>7. NodeSet(g, h2, old, NoChildren, BALANCED)
  BY <1>6, NodeType, NodeIs
<1> HIDE DEF g
<1>8. /\ g \in Heaps /\ g.root = h1.root
      /\ g.child[n] = h.child[old] /\ g.state[n] = h.state[old]
      /\ g.child[old] = NoChildren /\ g.state[old] = BALANCED
      /\ \A x \in Nodes \ {old, n} : g.child[x] = h1.child[x] /\ g.state[x] = h.state[x]
  BY <1>3, <1>4, <1>5, <1>7, Zenon DEF NodeSet
<1>9. At(g, slot) = n
  BY <1>3, <1>8, SlotApart
<1>10. Alike(g, h, slot, {old, n})
  BY <1>3, <1>8 DEF Alike
<1>11. Exchanged(g, h, slot, old, n)
  BY <1>8, <1>9, <1>10 DEF Exchanged
<1>12. QED
  BY <1>1, <1>11

\* n takes the place of the node of its key.
Traded(g, h, B, old, n) ==
  /\ Became(g, h, (B \ {old}) \cup {n}, B \cup {n})
  /\ g.child[old] = NoChildren /\ g.state[old] = BALANCED

LEMMA ReplaceWorks ==
  ASSUME NEW h \in Heaps, IsTree(h, h.root), NEW n \in Nodes, n \notin Below(h, h.root),
         NEW slots, Chain(h, slots, Key(n)), NEW t \in 1..(Len(slots) - 1),
         NEW old, old = At(h, slots[t]), Key(old) = Key(n)
  PROVE  Traded(Exchange(h, slots[t], n), h, Below(h, h.root), old, n)
<1> DEFINE top  == Len(slots) - 1
           dirs == DirsTo(h, slots, Key(n))
           X    == Unders(h, slots)
           K    == Highs(h, slots)
           B    == Below(h, h.root)
           g    == Exchange(h, slots[t], n)
           Out  == {old}
           In   == {n}
           C    == {old, n}
           m    == t - 1
           Y    == [j \in 1..(m + 1) |-> (X[j] \ Out) \cup In]
<1>1. slots \in Seq(Slots) /\ Len(slots) \in Nat \ {0} /\ top \in Nat /\ top + 1 = Len(slots)
      /\ slots[1] = RootSlot /\ 1 \in 1..(top + 1) /\ t \in 1..top /\ t \in 1..(top + 1)
      /\ t + 1 \in 1..(top + 1) /\ 1 <= t /\ slots[t] \in Slots
  BY DEF Chain
<1>2. Path(h, slots, dirs, top, X, K)
  BY DescentPath
<1>3. X[1] = B /\ B \in SUBSET Nodes
  <2>1. At(h, slots[1]) = h.root
    BY <1>1, SlotFacts
  <2>2. QED
    BY <1>1, <2>1, TreeBelow DEF Unders
<1>4. Nested(h, slots, top, X)
  BY <1>2, PathNested
<1>5. old \in Nodes /\ old \in X[t] /\ old \in B /\ X[t] \subseteq B /\ old # n
  BY <1>1, <1>3, <1>4 DEF Nested
<1>6. PICK O \in SUBSET Nodes, ko \in Nat : Knot(h, slots, dirs, t, X, K, O, ko)
  BY <1>1, <1>2, Zenon DEF Path
<1> HIDE DEF X, K, B, g, dirs, top
<1>7. m \in 0..top /\ m + 1 = t /\ m \in Nat
  BY ONLY <1>1, SMT
<1>8. ASSUME NEW j \in 1..m PROVE OnSide(dirs[j], n, At(h, slots[j]))
  <2>1. j \in 1..top /\ t \in 1..top /\ j < t
    BY ONLY <1>1, <1>7, j \in 1..m, SMT
  <2>2. At(h, slots[j]) # old /\ At(h, slots[j]) \in Nodes /\ At(h, slots[j]) \in B
    <3>1. 1 <= j /\ j \in 1..(top + 1)
      BY ONLY <1>1, <2>1, SMT
    <3>2. X[j] \subseteq X[1]
      BY <1>1, <1>4, <3>1 DEF Nested
    <3>3. QED
      BY <1>3, <1>4, <2>1, <3>2 DEF Nested
  <2>3. Key(At(h, slots[j])) # Key(n)
    <3>1. Avl(h, h.root, B, High(h, h.root)) /\ High(h, h.root) \in Nat
      BY TreeBelow DEF B
    <3>2. QED
      BY <1>5, <2>2, <3>1, KeysDiffer
  <2>4. j \in 1..(Len(slots) - 1)
    BY <2>1 DEF top
  <2>5. QED
    BY <2>3, <2>4, ChainSides DEF dirs
<1>9. Outside(slots[t], C)
  <2>1. Outside(slots[t], X[t])
    BY <1>6 DEF Knot
  <2>2. CASE t = 1
    <3>1. slots[t] = RootSlot
      BY <1>1, <2>2
    <3>2. C \subseteq Nodes
      BY <1>5
    <3>3. QED
      BY <3>1, <3>2, SlotFacts DEF Outside
  <2>3. CASE t # 1
    <3>1. m \in 1..m /\ m \in 1..top
      BY ONLY <1>1, <1>7, <2>3, SMT
    <3>2. \E P \in SUBSET Nodes, kp \in Nat : Knot(h, slots, dirs, m, X, K, P, kp)
      BY <1>2, <3>1, Zenon DEF Path
    <3>3. slots[t] = <<At(h, slots[m]), dirs[m]>> /\ At(h, slots[m]) \in Nodes /\ dirs[m] \in Dirs
      BY <1>7, <3>2, Zenon DEF Knot
    <3>4. At(h, slots[m]) # n
      BY <1>8, <3>1, <3>3, Sides
    <3>5. Outside(slots[t], {old})
      BY <1>5, <2>1, OutsidePart
    <3>6. QED
      BY <3>3, <3>4, <3>5 DEF Outside
  <2>4. QED
    BY <2>2, <2>3
<1>10. Exchanged(g, h, slots[t], old, n)
  BY <1>1, <1>5, <1>9, ExchangeIs DEF g
<1>11. /\ g \in Heaps /\ At(g, slots[t]) = n
       /\ g.child[n] = h.child[old] /\ g.state[n] = h.state[old]
       /\ g.child[old] = NoChildren /\ g.state[old] = BALANCED
       /\ Alike(g, h, slots[t], C)
  BY <1>10 DEF Exchanged
<1>12. Grafted(g, h, slots, dirs, top, X, m, Out, In, C, Y)
  <2>1. Out \subseteq X[m + 1] /\ In \subseteq Nodes
    BY <1>5, <1>7
  <2>2. C \cap X[1] \subseteq X[m + 1]
    BY <1>3, <1>5, <1>7 DEF B
  <2>3. Alike(g, h, slots[m + 1], C)
    BY <1>7, <1>11
  <2>4. \A j \in 1..m : \A x \in In : OnSide(dirs[j], x, At(h, slots[j]))
    BY <1>8
  <2>5. \A j \in 1..(m + 1) : Y[j] = (X[j] \ Out) \cup In
    OBVIOUS
  <2> HIDE DEF Out, In, C, m, Y
  <2>6. QED
    BY <1>7, <2>1, <2>2, <2>3, <2>4, <2>5, Zenon DEF Grafted
<1> HIDE DEF m, Y
<1>13. Path(g, slots, dirs, m, Y, K)
  <2> HIDE DEF Out, In, C
  <2>1. Kept(g, h, slots, dirs, m, Y, K)
    BY <1>2, <1>11, <1>12, PathKept
  <2>2. QED
    BY <2>1 DEF Kept
<1>14. Y[t] = (X[t] \ {old}) \cup {n} /\ Y[1] = (B \ {old}) \cup {n}
  BY <1>1, <1>3, <1>7 DEF Y
<1> DEFINE d == dirs[t]
           D == X[t + 1]
<1>15. /\ d \in Dirs /\ slots[t + 1] = <<old, d>>
       /\ Avl(h, h.child[old][1 - d], O, ko) /\ Weighs(h.state[old], d, K[t + 1], ko)
       /\ K[t] = 1 + Higher(K[t + 1], ko) /\ X[t] = D \cup {old} \cup O
       /\ \A x \in D : OnSide(d, x, old)
       /\ \A x \in O : OnSide(1 - d, x, old)
  BY <1>6, Zenon DEF Knot
<1>16. Avl(h, h.child[old][d], D, K[t + 1]) /\ K[t + 1] \in Nat /\ K[t] \in Nat
       /\ D \in SUBSET Nodes
  <2>1. t + 1 \in 1..Len(slots)
    BY <1>1 DEF top
  <2>2. ChainAt(h, slots[t + 1], t + 1)
    BY <2>1, ChainHeights
  <2>3. Avl(h, At(h, slots[t + 1]), D, K[t + 1])
    BY <2>1, <2>2, TreeBelow DEF ChainAt, X, K, Unders, Highs
  <2>4. At(h, slots[t + 1]) = h.child[old][d]
    BY <1>5, <1>15, SlotFacts
  <2>5. K[t] \in Nat /\ K[t + 1] \in Nat /\ D \in SUBSET Nodes
    BY <1>1, <1>2 DEF Path
  <2>6. QED
    BY <2>3, <2>4, <2>5
<1> HIDE DEF d, D
<1>17. old \notin D /\ old \notin O /\ n \notin D /\ n \notin O
  <2>1. Apart(old, d, D, O)
    BY <1>5, <1>15, <1>16, SidesApart
  <2>2. D \subseteq B /\ O \subseteq B
    BY <1>5, <1>15
  <2>3. QED
    BY <2>1, <2>2 DEF Apart, B
<1>18. Same(g, h, D) /\ Same(g, h, O)
  <2>1. \A x \in D \cup O : x \in Nodes /\ x \notin C /\ \A e \in Dirs : <<x, e>> # slots[t]
    <3>1. Outside(slots[t], X[t])
      BY <1>6 DEF Knot
    <3>2. QED
      BY <1>15, <1>16, <1>17, <3>1 DEF Outside
  <2>2. QED
    BY <1>11, <2>1 DEF Same, Alike
<1>19. Avl(g, g.child[n][d], D, K[t + 1]) /\ Avl(g, g.child[n][1 - d], O, ko)
  <2>1. Avl(g, h.child[old][d], D, K[t + 1])
    BY <1>11, <1>16, <1>18, FrameSame
  <2>2. Avl(g, h.child[old][1 - d], O, ko)
    BY <1>11, <1>15, <1>18, FrameSame
  <2>3. QED
    BY <1>11, <2>1, <2>2
<1>20. (\A x \in D : OnSide(d, x, n)) /\ (\A x \in O : OnSide(1 - d, x, n))
  BY <1>15 DEF OnSide
<1>21. Avl(g, n, Y[t], K[t])
  <2>1. Y[t] = D \cup {n} \cup O
    BY <1>14, <1>15, <1>17
  <2>2. Weighs(g.state[n], d, K[t + 1], ko)
    BY <1>11, <1>15
  <2>3. QED
    BY <1>15, <1>16, <1>19, <1>20, <2>1, <2>2, Compose
<1>22. Upright(g, g, slots[t], Y[t], K[t])
  BY <1>11, <1>21, AlikeSame DEF Upright
<1>23. Upright(g, g, RootSlot, Y[1], K[1])
  <2>1. t \in 1..(m + 1)
    BY <1>7, SMT
  <2>2. QED
    BY <1>11, <1>13, <1>22, <2>1, StayWorks
<1>24. K[1] \in Nat
  BY <1>1, <1>2 DEF Path
<1>25. Became(g, g, Y[1], Y[1])
  BY <1>11, <1>23, <1>24, WayUpBecame
<1>26. Same(g, h, Nodes \ (B \cup {n}))
  <2>1. ASSUME NEW x \in Nodes \ (B \cup {n}), NEW e \in Dirs PROVE x \notin C /\ <<x, e>> # slots[t]
    <3>1. x \notin C
      BY <1>5
    <3>2. CASE t = 1
      BY <1>1, <3>1, <3>2, SlotFacts
    <3>3. CASE t # 1
      <4>1. m \in 1..top /\ m \in 1..(top + 1) /\ 1 <= m
        BY ONLY <1>1, <1>7, <3>3, SMT
      <4>2. \E P \in SUBSET Nodes, kp \in Nat : Knot(h, slots, dirs, m, X, K, P, kp)
        BY <1>2, <4>1, Zenon DEF Path
      <4>3. slots[t] = <<At(h, slots[m]), dirs[m]>>
        BY <1>7, <4>2, Zenon DEF Knot
      <4>4. At(h, slots[m]) \in X[m] /\ X[m] \subseteq X[1]
        BY <1>1, <1>4, <4>1 DEF Nested
      <4>5. x # At(h, slots[m])
        BY <1>3, <4>4
      <4>6. QED
        BY <3>1, <4>3, <4>5
    <3>4. QED
      BY <3>2, <3>3
  <2>2. \A x \in Nodes \ (B \cup {n}) : x \notin C
    BY <1>5
  <2> HIDE DEF C
  <2>3. QED
    BY <1>11, <2>1, <2>2 DEF Same, Alike
<1>27. Became(g, h, (B \ {old}) \cup {n}, B \cup {n})
  BY <1>14, <1>25, <1>26 DEF Became
<1>28. Traded(g, h, B, old, n)
  BY <1>11, <1>27 DEF Traded
<1>29. QED
  BY <1>28 DEF g, B
-----------------------------------------------------------------------------
(* Remove. *)

\* The heap of Unlink before the way up.
Spliced(h, slot, target, last, swap, n) ==
  LET h1 == Put(h, slot, swap)
      h2 == Put(h1, last, h1.child[swap][1 - n])
      h3 == WithNode(h2, swap, h2.child[target], h2.state[target])
  IN  WithKids(h3, target, NoChildren)

Linked(h, slots, dirs, t, top, n, target, swap, stack) ==
  /\ top = Len(slots) - 1 /\ n = dirs[top]
  /\ target = At(h, slots[t]) /\ swap = At(h, slots[top])
  /\ stack = [slots EXCEPT ![t + 1] = <<swap, 1 - n>>]

Unlinked(h, slots, dirs, t, top, n, target, swap, stack) ==
  Unlink(h, slots, dirs, t)
    = WayUp(Spliced(h, slots[t], target, slots[top], swap, n), stack, dirs, top - 1, FALSE)

LEMMA UnlinkIs ==
  ASSUME NEW h, NEW slots, NEW dirs, NEW t, NEW top, NEW n, NEW target, NEW swap, NEW stack,
         Linked(h, slots, dirs, t, top, n, target, swap, stack)
  PROVE  Unlinked(h, slots, dirs, t, top, n, target, swap, stack)
BY Zenon DEF Linked, Unlinked, Unlink, Spliced, WithNode, WithKids

\* The node itself is the last of the way down.
SplicedLast(f, h, slot, target) ==
  /\ f \in Heaps /\ At(f, slot) = h.child[target][RIGHT]
  /\ f.child[target] = NoChildren /\ f.state[target] = h.state[target]
  /\ Alike(f, h, slot, {target})

LEMMA SplicedLastIs ==
  ASSUME NEW h \in Heaps, NEW slot \in Slots, NEW target \in Nodes, target = At(h, slot),
         Outside(slot, {target})
  PROVE  SplicedLast(Spliced(h, slot, target, slot, target, LEFT), h, slot, target)
<1> DEFINE h1 == Put(h, slot, target)
           v  == h1.child[target][1 - LEFT]
           h2 == Put(h1, slot, v)
           h3 == WithNode(h2, target, h2.child[target], h2.state[target])
           f  == WithKids(h3, target, NoChildren)
<1>0. RIGHT \in Dirs /\ 1 - LEFT = RIGHT
  BY Directions
<1>1. Spliced(h, slot, target, slot, target, LEFT) = f
  BY Zenon DEF Spliced
<1>2. SlotSet(h1, h, slot, target)
  BY PutIs DEF NodesOrNull
<1>3. h1 \in Heaps /\ h1.state = h.state /\ Alike(h1, h, slot, {})
      /\ \A x \in Nodes, e \in Dirs : h1.child[x][e] = IF <<x, e>> = slot THEN target ELSE h.child[x][e]
  BY <1>2 DEF SlotSet
<1> HIDE DEF h1
<1>4. v = h.child[target][RIGHT]
  BY <1>0, <1>3 DEF Outside
<1>5. v \in NodesOrNull
  BY <1>0, <1>4, HeapType
<1> HIDE DEF v
<1>6. SlotSet(h2, h1, slot, v)
  BY <1>3, <1>5, PutIs
<1>7. h2 \in Heaps /\ At(h2, slot) = v /\ h2.state = h1.state /\ Alike(h2, h1, slot, {})
  BY <1>6 DEF SlotSet
<1> HIDE DEF h2
<1>8. NodeSet(h3, h2, target, h2.child[target], h2.state[target])
  BY <1>7, NodeType, NodeIs
<1>9. h3 \in Heaps
  BY <1>8 DEF NodeSet
<1> HIDE DEF h3
<1>10. NodeSet(f, h3, target, NoChildren, h3.state[target])
  BY <1>9, NodeType, KidsAre
<1> HIDE DEF f
<1>11. /\ f \in Heaps /\ f.root = h2.root
       /\ f.child[target] = NoChildren /\ f.state[target] = h.state[target]
       /\ \A x \in Nodes \ {target} : f.child[x] = h2.child[x] /\ f.state[x] = h.state[x]
  <2>1. h3.state[target] = h.state[target]
    BY <1>3, <1>7, <1>8, Zenon DEF NodeSet
  <2>2. f \in Heaps /\ f.root = h2.root /\ f.child[target] = NoChildren /\ f.state[target] = h.state[target]
    BY <1>8, <1>10, <2>1, Zenon DEF NodeSet
  <2>3. ASSUME NEW x \in Nodes \ {target} PROVE f.child[x] = h2.child[x] /\ f.state[x] = h.state[x]
    <3>1. x \in Nodes /\ x # target
      BY <2>3
    <3>2. f.child[x] = h3.child[x] /\ f.state[x] = h3.state[x]
      BY <1>10, <3>1, Zenon DEF NodeSet
    <3>3. h3.child[x] = h2.child[x] /\ h3.state[x] = h2.state[x]
      BY <1>8, <3>1, Zenon DEF NodeSet
    <3>4. QED
      BY <1>3, <1>7, <3>2, <3>3
  <2>4. QED
    BY <2>2, <2>3
<1>12. At(f, slot) = v
  BY <1>7, <1>11, SlotApart
<1>13. Alike(f, h, slot, {target})
  BY <1>3, <1>7, <1>11 DEF Alike
<1>14. SplicedLast(f, h, slot, target)
  BY <1>4, <1>11, <1>12, <1>13 DEF SplicedLast
<1>15. QED
  BY <1>1, <1>14

\* Another node takes its place.
SplicedOther(f, h, slot, target, last, swap) ==
  /\ f \in Heaps /\ At(f, slot) = swap
  /\ f.child[target] = NoChildren /\ f.state[target] = h.state[target]
  /\ f.state[swap] = h.state[target]
  /\ \A e \in Dirs : f.child[swap][e] = IF <<target, e>> = last THEN h.child[swap][LEFT]
                                                              ELSE h.child[target][e]
  /\ \A x \in Nodes \ {target, swap} :
       /\ f.state[x] = h.state[x]
       /\ \A e \in Dirs : f.child[x][e] = IF <<x, e>> = last THEN h.child[swap][LEFT]
                                          ELSE IF <<x, e>> = slot THEN swap ELSE h.child[x][e]
  /\ slot # RootSlot => f.root = h.root

LEMMA SplicedOtherIs ==
  ASSUME NEW h \in Heaps, NEW slot \in Slots, NEW target \in Nodes, NEW last \in Slots,
         NEW swap \in Nodes, swap # target, slot # last, last # RootSlot,
         Outside(slot, {target, swap}), Outside(last, {swap})
  PROVE  SplicedOther(Spliced(h, slot, target, last, swap, RIGHT), h, slot, target, last, swap)
<1> DEFINE h1 == Put(h, slot, swap)
           v  == h1.child[swap][1 - RIGHT]
           h2 == Put(h1, last, v)
           h3 == WithNode(h2, swap, h2.child[target], h2.state[target])
           f  == WithKids(h3, target, NoChildren)
<1>0. LEFT \in Dirs /\ 1 - RIGHT = LEFT
  BY Directions
<1>1. Spliced(h, slot, target, last, swap, RIGHT) = f
  BY Zenon DEF Spliced
<1>2. SlotSet(h1, h, slot, swap)
  BY PutIs DEF NodesOrNull
<1>3. h1 \in Heaps /\ h1.state = h.state /\ At(h1, slot) = swap
      /\ (\A x \in Nodes, e \in Dirs : h1.child[x][e] = IF <<x, e>> = slot THEN swap ELSE h.child[x][e])
      /\ (slot # RootSlot => h1.root = h.root)
  BY <1>2, Zenon DEF SlotSet
<1> HIDE DEF h1
<1>4. v = h.child[swap][LEFT]
  BY <1>0, <1>3 DEF Outside
<1>5. v \in NodesOrNull
  BY <1>0, <1>4, HeapType
<1> HIDE DEF v
<1>6. SlotSet(h2, h1, last, v)
  BY <1>3, <1>5, PutIs
<1>7. h2 \in Heaps /\ h2.state = h1.state /\ h2.root = h1.root
      /\ (\A x \in Nodes, e \in Dirs : h2.child[x][e] = IF <<x, e>> = last THEN v ELSE h1.child[x][e])
  BY <1>6, Zenon DEF SlotSet
<1> HIDE DEF h2
<1>8. NodeSet(h3, h2, swap, h2.child[target], h2.state[target])
  BY <1>7, NodeType, NodeIs
<1>9. h3 \in Heaps
  BY <1>8 DEF NodeSet
<1> HIDE DEF h3
<1>10. NodeSet(f, h3, target, NoChildren, h3.state[target])
  BY <1>9, NodeType, KidsAre
<1> HIDE DEF f
<1>11. /\ f \in Heaps /\ f.root = h1.root
       /\ f.child[target] = NoChildren /\ f.state[target] = h.state[target]
       /\ f.child[swap] = h2.child[target] /\ f.state[swap] = h.state[target]
       /\ \A x \in Nodes \ {target, swap} : f.child[x] = h2.child[x] /\ f.state[x] = h.state[x]
  <2>1. h3.state[target] = h.state[target]
    BY <1>3, <1>7, <1>8, Zenon DEF NodeSet
  <2>2. f.child[swap] = h2.child[target] /\ f.state[swap] = h.state[target]
    BY <1>3, <1>7, <1>8, <1>10, Zenon DEF NodeSet
  <2>3. f \in Heaps /\ f.root = h1.root /\ f.child[target] = NoChildren /\ f.state[target] = h.state[target]
    BY <1>7, <1>8, <1>10, <2>1, Zenon DEF NodeSet
  <2>4. ASSUME NEW x \in Nodes \ {target, swap} PROVE f.child[x] = h2.child[x] /\ f.state[x] = h.state[x]
    <3>1. x \in Nodes /\ x # target /\ x # swap
      BY <2>4
    <3>2. QED
      <4>1. f.child[x] = h3.child[x] /\ f.state[x] = h3.state[x]
        BY <1>10, <3>1, Zenon DEF NodeSet
      <4>2. h3.child[x] = h2.child[x] /\ h3.state[x] = h2.state[x]
        BY <1>8, <3>1, Zenon DEF NodeSet
      <4>3. QED
        BY <1>3, <1>7, <4>1, <4>2
  <2>5. QED
    BY <2>2, <2>3, <2>4
<1>12. At(f, slot) = swap
  <2>1. CASE slot = RootSlot
    BY <1>3, <1>11, <2>1, SlotFacts
  <2>2. CASE slot # RootSlot
    <3>1. PICK y \in Nodes, e \in Dirs : slot = <<y, e>>
      BY <2>2, SlotFacts
    <3>2. y \notin {target, swap} /\ <<y, e>> # last
      BY <3>1 DEF Outside
    <3>3. f.child[y][e] = h1.child[y][e]
      BY <1>7, <1>11, <3>2
    <3>4. QED
      BY <1>3, <3>1, <3>3, SlotFacts
  <2>3. QED
    BY <2>1, <2>2
<1>13. ASSUME NEW e \in Dirs
       PROVE  f.child[swap][e] = IF <<target, e>> = last THEN h.child[swap][LEFT] ELSE h.child[target][e]
  <2>1. <<target, e>> # slot
    BY DEF Outside
  <2>2. QED
    BY <1>3, <1>4, <1>7, <1>11, <2>1
<1>14. ASSUME NEW x \in Nodes \ {target, swap}
       PROVE  /\ f.state[x] = h.state[x]
              /\ \A e \in Dirs : f.child[x][e] = IF <<x, e>> = last THEN h.child[swap][LEFT]
                                                 ELSE IF <<x, e>> = slot THEN swap ELSE h.child[x][e]
  BY <1>3, <1>4, <1>7, <1>11
<1>15. SplicedOther(f, h, slot, target, last, swap)
  BY <1>3, <1>11, <1>12, <1>13, <1>14 DEF SplicedOther
<1>16. QED
  BY <1>1, <1>15

LEMMA PathOwners ==
  ASSUME NEW h, NEW slots, NEW dirs, NEW top, NEW X, NEW K, Path(h, slots, dirs, top, X, K),
         NEW j \in 1..top
  PROVE  slots[j + 1] = <<At(h, slots[j]), dirs[j]>> /\ At(h, slots[j]) \in Nodes /\ dirs[j] \in Dirs
<1>1. \E P \in SUBSET Nodes, kp \in Nat : Knot(h, slots, dirs, j, X, K, P, kp)
  BY Zenon DEF Path
<1>2. QED
  BY <1>1, Zenon DEF Knot

\* The nodes at and below slot j.
Split(h, slots, dirs, j, X, O) ==
  /\ At(h, slots[j]) \in Nodes /\ dirs[j] \in Dirs
  /\ X[j] = X[j + 1] \cup {At(h, slots[j])} \cup O
  /\ Apart(At(h, slots[j]), dirs[j], X[j + 1], O)

LEMMA KnotSplit ==
  ASSUME NEW h, NEW slots, NEW dirs, NEW j \in Nat, NEW X, NEW K,
         NEW O \in SUBSET Nodes, NEW ko, Knot(h, slots, dirs, j, X, K, O, ko),
         X[j + 1] \in SUBSET Nodes
  PROVE  Split(h, slots, dirs, j, X, O)
BY KnotApart DEF Split

LEMMA KnotAgrees ==
  ASSUME NEW g, NEW slots, NEW dirs, NEW j, NEW X, NEW K, NEW O, NEW ko,
         Knot(g, slots, dirs, j, X, K, O, ko),
         NEW stack, stack[j] = slots[j], stack[j + 1] = slots[j + 1],
         NEW Y, Y[j] = X[j], Y[j + 1] = X[j + 1]
  PROVE  Knot(g, stack, dirs, j, Y, K, O, ko)
BY Zenon DEF Knot

LEMMA PathAgrees ==
  ASSUME NEW g, NEW slots, NEW dirs, NEW top, NEW X, NEW K, Path(g, slots, dirs, top, X, K),
         NEW stack, \A j \in 1..(top + 1) : stack[j] = slots[j]
  PROVE  Path(g, stack, dirs, top, X, K)
<1>0. top \in Nat /\ slots[1] = RootSlot
  BY DEF Path
<1>1. stack[1] = RootSlot
  BY <1>0, 1 \in 1..(top + 1)
<1>2. ASSUME NEW j \in 1..top
      PROVE  \E O \in SUBSET Nodes, ko \in Nat : Knot(g, stack, dirs, j, X, K, O, ko)
  <2>1. j \in 1..(top + 1) /\ j + 1 \in 1..(top + 1)
    BY <1>0, SMT
  <2>2. PICK O \in SUBSET Nodes, ko \in Nat : Knot(g, slots, dirs, j, X, K, O, ko)
    BY DEF Path
  <2>3. stack[j] = slots[j] /\ stack[j + 1] = slots[j + 1]
    BY <2>1
  <2>4. Knot(g, stack, dirs, j, X, K, O, ko)
    BY <2>2, <2>3, KnotAgrees
  <2>5. QED
    BY <2>4
<1>3. QED
  BY <1>0, <1>1, <1>2 DEF Path

\* What Remove leaves behind.
Removed(g, h, B, target) == Became(g, h, B \ {target}, B) /\ g.child[target] = NoChildren

LEMMA RemoveEnds ==
  ASSUME NEW h \in Heaps, NEW f \in Heaps, NEW B, NEW target \in B, target \in Nodes,
         Same(f, h, Nodes \ B), f.child[target] = NoChildren,
         NEW stack, NEW dirs, NEW m, NEW Y, NEW K, Path(f, stack, dirs, m, Y, K),
         Y[1] = B \ {target}, NEW ko \in Nat,
         Avl(f, At(f, stack[m + 1]), Y[m + 1], ko), K[m + 1] = ko + 1
  PROVE  Removed(WayUp(f, stack, dirs, m, FALSE), h, B, target)
<1> DEFINE g == WayUp(f, stack, dirs, m, FALSE)
           S == Y[1]
<1>1. Changed(ko, K[m + 1], FALSE)
  BY DEF Changed
<1>2. PICK i \in Nat : Upright(g, f, RootSlot, S, i)
  BY <1>1, WayUpWorks
<1> HIDE DEF g
<1>3. Became(g, f, S, S)
  BY <1>2, WayUpBecame
<1>4. g \in Heaps /\ Same(g, f, Nodes \ S) /\ \E k \in Nat : Avl(g, g.root, S, k)
  BY <1>3 DEF Became
<1>5. Same(g, h, Nodes \ B)
  BY <1>4 DEF Same
<1>6. g.child[target] = NoChildren
  <2>1. \A e \in Dirs : g.child[target][e] = f.child[target][e]
    BY <1>4 DEF Same
  <2>2. g.child[target] \in [Dirs -> NodesOrNull] /\ f.child[target] \in [Dirs -> NodesOrNull]
    BY <1>4, NodeType
  <2>3. QED
    BY <2>1, <2>2
<1>7. Removed(g, h, B, target)
  BY <1>4, <1>5, <1>6 DEF Removed, Became
<1>8. QED
  BY <1>7 DEF g

\* The slots of the way down to the node of key, slots[t] being the node's.
Removable(h, slots, key, t) ==
  /\ IsTree(h, h.root) /\ Sound(h, slots, key)
  /\ t \in 1..(Len(slots) - 1) /\ Key(At(h, slots[t])) = key

\* What is known of that way.
TargetPath(h, slots, key, t, top, dirs, X, K, B, target) ==
  /\ top \in Nat /\ top + 1 = Len(slots) /\ t \in 1..top
  /\ slots \in Seq(Slots) /\ slots[1] = RootSlot
  /\ Path(h, slots, dirs, top, X, K)
  /\ X[1] = B /\ B \in SUBSET Nodes /\ X[top + 1] = {} /\ K[top + 1] = 0
  /\ At(h, slots[top + 1]) = Null
  /\ target = At(h, slots[t]) /\ target \in Nodes /\ target \in X[t] /\ X[t] \subseteq B
  /\ dirs[t] = LEFT /\ \A j \in (t + 1)..top : dirs[j] = RIGHT
  /\ \A j \in 1..(top + 1) : slots[j] \in Slots /\ X[j] \in SUBSET Nodes /\ K[j] \in Nat
  /\ \A j \in 1..top : slots[j + 1] = <<At(h, slots[j]), dirs[j]>> /\ At(h, slots[j]) \in Nodes
                       /\ dirs[j] \in Dirs

LEMMA TargetPathIs ==
  ASSUME NEW h \in Heaps, NEW slots, NEW key \in Int, NEW t, Removable(h, slots, key, t)
  PROVE  TargetPath(h, slots, key, t, Len(slots) - 1, DirsTo(h, slots, key), Unders(h, slots),
                    Highs(h, slots), Below(h, h.root), At(h, slots[t]))
<1> DEFINE top == Len(slots) - 1
           dirs == DirsTo(h, slots, key)
           X == Unders(h, slots)
           K == Highs(h, slots)
           B == Below(h, h.root)
<1>1. IsTree(h, h.root) /\ Chain(h, slots, key) /\ At(h, Last(slots)) = Null /\ t \in 1..top
  BY DEF Removable, Sound
<1>2. slots \in Seq(Slots) /\ Len(slots) \in Nat \ {0} /\ top \in Nat /\ top + 1 = Len(slots)
      /\ slots[1] = RootSlot /\ At(h, slots[top + 1]) = Null
      /\ 1 \in 1..(top + 1) /\ top + 1 \in 1..(top + 1) /\ t \in 1..(top + 1) /\ 1 <= t
  BY <1>1 DEF Chain, Last
<1>3. Path(h, slots, dirs, top, X, K)
  BY <1>1, DescentPath
<1>4. X[1] = B /\ X[top + 1] = {} /\ K[top + 1] = 0 /\ B \in SUBSET Nodes
  <2>1. Avl(h, Null, {}, 0)
    BY AvlEmpty
  <2>2. Below(h, Null) = {} /\ High(h, Null) = 0
    BY <2>1, TreeIs
  <2>3. At(h, slots[1]) = h.root
    BY <1>2, SlotFacts
  <2>4. QED
    BY <1>1, <1>2, <2>2, <2>3, TreeBelow DEF Unders, Highs
<1>5. dirs[t] = LEFT /\ \A j \in (t + 1)..top : dirs[j] = RIGHT
  BY <1>1, PastTheKey DEF Removable
<1> HIDE DEF dirs, X, K, B
<1>6. Nested(h, slots, top, X)
  BY <1>3, PathNested
<1>7. At(h, slots[t]) \in Nodes /\ At(h, slots[t]) \in X[t] /\ X[t] \subseteq B
  BY <1>1, <1>2, <1>4, <1>6 DEF Nested
<1>8. \A j \in 1..(top + 1) : slots[j] \in Slots /\ X[j] \in SUBSET Nodes /\ K[j] \in Nat
  BY <1>3 DEF Path
<1>9. \A j \in 1..top : slots[j + 1] = <<At(h, slots[j]), dirs[j]>> /\ At(h, slots[j]) \in Nodes
                        /\ dirs[j] \in Dirs
  BY <1>3, PathOwners
<1> HIDE DEF top
<1>10. TargetPath(h, slots, key, t, top, dirs, X, K, B, At(h, slots[t]))
  BY <1>1, <1>2, <1>3, <1>4, <1>5, <1>7, <1>8, <1>9, Zenon DEF TargetPath
<1>11. QED
  BY <1>10 DEF top, dirs, X, K, B

\* The node itself is the last of the way.
LEMMA RemoveLastWorks ==
  ASSUME NEW h \in Heaps, NEW slots, NEW key, NEW t, NEW top, NEW dirs, NEW X, NEW K, NEW B,
         NEW target, TargetPath(h, slots, key, t, top, dirs, X, K, B, target), t = top
  PROVE  Removed(Unlink(h, slots, dirs, t), h, B, target)
<1> DEFINE f     == Spliced(h, slots[t], target, slots[t], target, LEFT)
           stack == [slots EXCEPT ![t + 1] = <<target, 1 - LEFT>>]
           m     == t - 1
           E     == {}
           N     == {target}
           Y     == [j \in 1..(m + 1) |-> (X[j] \ N) \cup E]
<1>1. /\ top \in Nat /\ top + 1 = Len(slots) /\ t \in 1..top
      /\ slots \in Seq(Slots) /\ slots[1] = RootSlot
      /\ Path(h, slots, dirs, top, X, K)
      /\ X[1] = B /\ B \in SUBSET Nodes /\ X[top + 1] = {} /\ K[top + 1] = 0
      /\ target = At(h, slots[t]) /\ target \in Nodes /\ target \in X[t] /\ X[t] \subseteq B
      /\ dirs[t] = LEFT
      /\ \A j \in 1..(top + 1) : slots[j] \in Slots /\ X[j] \in SUBSET Nodes /\ K[j] \in Nat
  BY Zenon DEF TargetPath
<1>2. m \in Nat /\ m \in 0..top /\ m + 1 = t /\ t \in 1..(top + 1) /\ 1 \in 1..t /\ top = Len(slots) - 1
      /\ t \in 1..t
  BY ONLY <1>1, t = top, SMT
<1>3. Unlink(h, slots, dirs, t) = WayUp(f, stack, dirs, m, FALSE)
  <2>1. top = Len(slots) - 1 /\ LEFT = dirs[top] /\ target = At(h, slots[top]) /\ target = At(h, slots[t])
    BY <1>1, <1>2
  <2>2. stack = [slots EXCEPT ![t + 1] = <<target, 1 - LEFT>>]
    OBVIOUS
  <2> HIDE DEF stack
  <2>3. Unlink(h, slots, dirs, t)
          = WayUp(Spliced(h, slots[t], target, slots[top], target, LEFT), stack, dirs, top - 1, FALSE)
    <3>1. Linked(h, slots, dirs, t, top, LEFT, target, target, stack)
      BY ONLY <2>1, <2>2, Zenon DEF Linked
    <3>2. Unlinked(h, slots, dirs, t, top, LEFT, target, target, stack)
      BY <3>1, UnlinkIs
    <3>3. QED
      BY <3>2 DEF Unlinked
  <2>4. QED
    BY <2>3
<1>4. PICK O \in SUBSET Nodes, ko \in Nat : Knot(h, slots, dirs, t, X, K, O, ko)
  BY <1>1 DEF Path
<1>5. /\ Avl(h, h.child[target][RIGHT], O, ko)
      /\ K[t] = ko + 1 /\ Outside(slots[t], X[t])
  <2>1. 1 - LEFT = RIGHT
    BY Directions
  <2>2. K[t] = 1 + Higher(0, ko)
    BY <1>1, <1>4 DEF Knot
  <2>3. K[t] = ko + 1
    BY ONLY <2>2, ko \in Nat, SMT DEF Higher
  <2>4. QED
    BY <1>1, <1>4, <2>1, <2>3 DEF Knot
<1>6. X[t] \ {target} = O /\ target \notin O
  <2>1. X[t + 1] \in SUBSET Nodes /\ X[t + 1] = {} /\ t \in Nat
    BY <1>1
  <2>2. X[t] = X[t + 1] \cup {target} \cup O /\ Apart(target, dirs[t], X[t + 1], O)
    <3>1. target = At(h, slots[t])
      BY <1>1
    <3>2. Split(h, slots, dirs, t, X, O)
      BY <1>4, <2>1, KnotSplit
    <3>3. QED
      BY <3>1, <3>2, Zenon DEF Split
  <2>3. QED
    BY <2>1, <2>2 DEF Apart
<1>7. SplicedLast(f, h, slots[t], target)
  <2>1. Outside(slots[t], {target})
    BY <1>1, <1>5, OutsidePart
  <2>2. QED
    BY <1>1, <1>2, <2>1, SplicedLastIs
<1> HIDE DEF f
<1>8. /\ f \in Heaps /\ At(f, slots[t]) = h.child[target][RIGHT]
      /\ f.child[target] = NoChildren /\ Alike(f, h, slots[t], N)
  BY <1>7 DEF SplicedLast
<1>9. Grafted(f, h, slots, dirs, top, X, m, N, E, N, Y)
  <2>1. N \subseteq X[m + 1] /\ E \subseteq Nodes /\ N \cap X[1] \subseteq X[m + 1]
    BY <1>1, <1>2
  <2>2. (\A j \in 1..m : \A x \in E : OnSide(dirs[j], x, At(h, slots[j])))
        /\ \A j \in 1..(m + 1) : Y[j] = (X[j] \ N) \cup E
    OBVIOUS
  <2>3. Alike(f, h, slots[m + 1], N)
    BY <1>2, <1>8
  <2> HIDE DEF N, E, Y, m
  <2>4. QED
    BY <1>2, <2>1, <2>2, <2>3, Zenon DEF Grafted
<1>10. Path(f, slots, dirs, m, Y, K)
  <2> HIDE DEF N, E, Y, m
  <2>1. Kept(f, h, slots, dirs, m, Y, K)
    BY <1>1, <1>8, <1>9, PathKept
  <2>2. QED
    BY <2>1 DEF Kept
<1>11. \A j \in 1..(m + 1) : stack[j] = slots[j]
  <2>1. \A j \in 1..t : j \in DOMAIN slots /\ j # t + 1
    BY <1>1, <1>2
  <2>2. QED
    BY <1>2, <2>1
<1>12. Y[1] = B \ {target} /\ Y[m + 1] = O
  BY <1>1, <1>2, <1>6
<1> HIDE DEF Y, m, stack
<1>13. Path(f, stack, dirs, m, Y, K)
  BY <1>10, <1>11, PathAgrees
<1>14. Avl(f, At(f, stack[m + 1]), Y[m + 1], ko)
  <2>1. Outside(slots[t], O)
    BY <1>5, <1>6, OutsidePart
  <2>2. O \cap N = {}
    BY <1>6
  <2>3. Avl(f, h.child[target][RIGHT], O, ko)
    BY <1>5, <1>8, <2>1, <2>2, FrameAlike
  <2>4. stack[m + 1] = slots[t]
    BY <1>2, <1>11
  <2>5. QED
    BY <1>8, <1>12, <2>3, <2>4
<1>15. Same(f, h, Nodes \ B)
  <2>1. \A x \in Nodes \ B : x \notin N
    BY <1>1
  <2>2. ASSUME NEW x \in Nodes \ B, NEW e \in Dirs PROVE <<x, e>> # slots[t]
    <3>1. CASE m = 0
      <4>1. t = 1
        BY ONLY <1>2, <3>1, SMT
      <4>2. slots[t] = RootSlot
        BY <1>1, <4>1
      <4>3. QED
        BY <4>2, SlotFacts
    <3>2. CASE m # 0
      <4>1. m \in 1..top /\ m \in 1..(top + 1) /\ 1 \in 1..(top + 1) /\ 1 <= m
        BY ONLY <1>1, <1>2, <3>2, SMT
      <4>2. slots[t] = <<At(h, slots[m]), dirs[m]>>
        BY <1>1, <1>2, <4>1, PathOwners
      <4>3. At(h, slots[m]) \in B
        <5>1. Nested(h, slots, top, X)
          BY <1>1, PathNested
        <5>2. At(h, slots[m]) \in X[m] /\ X[m] \subseteq X[1]
          BY <4>1, <5>1 DEF Nested
        <5>3. QED
          BY <1>1, <5>2
      <4>4. QED
        BY <4>2, <4>3
    <3>3. QED
      BY <3>1, <3>2
  <2>3. QED
    BY <1>8, <2>1, <2>2 DEF Same, Alike
<1>16. target \in B /\ K[m + 1] = ko + 1
  BY <1>1, <1>2, <1>5
<1>17. Removed(WayUp(f, stack, dirs, m, FALSE), h, B, target)
  BY <1>1, <1>8, <1>12, <1>13, <1>14, <1>15, <1>16, RemoveEnds
<1>18. QED
  BY <1>3, <1>17
\* The last node of the way, which is not the target, has taken its place.
Moved(h, f, slots, key, t, top, dirs, X, K, B, target, swap) ==
  /\ TargetPath(h, slots, key, t, top, dirs, X, K, B, target)
  /\ t < top /\ swap = At(h, slots[top])
  /\ f \in Heaps /\ SplicedOther(f, h, slots[t], target, slots[top], swap)

\* The way below the target.
Hanging(h, slots, t, top, dirs, X, B, target, swap) ==
  LET owner == At(h, slots[top - 1])
  IN  /\ slots[top] = <<owner, dirs[top - 1]>> /\ owner \in Nodes /\ owner \in X[t]
      /\ \A j \in (t + 1)..top : swap \in X[j] /\ target \notin X[j] /\ X[j] \subseteq X[t]
      /\ swap \in Nodes /\ swap \in X[t] /\ swap # target /\ swap # owner
      /\ owner \notin X[top]
      /\ Outside(slots[t], X[t]) /\ slots[t] # slots[top]
      /\ \A x \in X[t] : x \in B

LEMMA HangingIs ==
  ASSUME NEW h \in Heaps, NEW slots, NEW key, NEW t, NEW top, NEW dirs, NEW X, NEW K, NEW B,
         NEW target, TargetPath(h, slots, key, t, top, dirs, X, K, B, target), t < top,
         NEW swap, swap = At(h, slots[top])
  PROVE  Hanging(h, slots, t, top, dirs, X, B, target, swap)
<1> DEFINE owner == At(h, slots[top - 1])
<1>1. /\ top \in Nat /\ t \in 1..top /\ Path(h, slots, dirs, top, X, K)
      /\ target = At(h, slots[t]) /\ X[t] \subseteq B
      /\ \A j \in 1..top : slots[j + 1] = <<At(h, slots[j]), dirs[j]>> /\ At(h, slots[j]) \in Nodes
  BY Zenon DEF TargetPath
<1>2. /\ t \in 1..top /\ top \in 1..top /\ top - 1 \in 1..top /\ (top - 1) + 1 = top /\ t <= top - 1
      /\ t \in 1..(top + 1) /\ top \in 1..(top + 1) /\ top - 1 \in 1..(top + 1) /\ top - 1 < top
      /\ \A j \in (t + 1)..top : j \in 1..(top + 1) /\ t < j /\ t <= j /\ j <= top
      /\ t <= top /\ t # top
  BY ONLY <1>1, t < top, SMT
<1>3. slots[top] = <<owner, dirs[top - 1]>> /\ owner \in Nodes
  BY <1>1, <1>2
<1>4. /\ \A i, j \in 1..(top + 1) : i <= j => X[j] \subseteq X[i]
      /\ \A i \in 1..top :
           /\ At(h, slots[i]) \in X[i]
           /\ \A j \in 1..(top + 1) : i < j => At(h, slots[i]) \notin X[j]
           /\ \A j \in 1..top : i < j => At(h, slots[i]) # At(h, slots[j])
  BY <1>1, PathNested DEF Nested
<1>5. owner \in X[t] /\ owner \notin X[top] /\ swap \in X[top] /\ swap # owner
  <2>1. owner \in X[top - 1] /\ X[top - 1] \subseteq X[t]
    BY <1>2, <1>4
  <2>2. swap \in X[top]
    BY <1>2, <1>4
  <2>3. owner \notin X[top]
    BY <1>2, <1>4
  <2>4. QED
    BY <2>1, <2>2, <2>3
<1>6. ASSUME NEW j \in (t + 1)..top
      PROVE  swap \in X[j] /\ target \notin X[j] /\ X[j] \subseteq X[t]
  <2>1. X[top] \subseteq X[j]
    BY <1>2, <1>4
  <2>2. target \notin X[j]
    BY <1>1, <1>2, <1>4
  <2>3. X[j] \subseteq X[t]
    BY <1>2, <1>4
  <2>4. QED
    BY <1>5, <2>1, <2>2, <2>3
<1>7. swap \in Nodes /\ swap \in X[t] /\ swap # target
  <2>1. swap \in Nodes
    BY <1>1, <1>2
  <2>2. X[top] \subseteq X[t]
    BY <1>2, <1>4
  <2>3. target # swap
    BY <1>1, <1>2, <1>4
  <2>4. QED
    BY <1>5, <2>1, <2>2, <2>3
<1>8. Outside(slots[t], X[t])
  BY <1>1, Zenon DEF Path, Knot
<1>9. slots[t] # slots[top]
  BY <1>3, <1>5, <1>8 DEF Outside, Path, Knot, TargetPath
<1>10. \A x \in X[t] : x \in B
  BY <1>1
<1> HIDE DEF owner
<1>11. QED
  BY <1>3, <1>5, <1>6, <1>7, <1>8, <1>9, <1>10, Zenon DEF Hanging, owner

\* The swap is the greatest node on the left of the target.
LEMMA SwapIsLast ==
  ASSUME NEW h \in Heaps, NEW slots, NEW key, NEW t, NEW top, NEW dirs, NEW X, NEW K, NEW B,
         NEW target, TargetPath(h, slots, key, t, top, dirs, X, K, B, target), t < top,
         NEW swap, swap = At(h, slots[top])
  PROVE  \A j \in (t + 1)..top : \A x \in X[j] \ {swap} : OnSide(LEFT, x, swap)
<1> DEFINE T == {j \in 1..top : j \in (t + 1)..top => \A x \in X[j] \ {swap} : OnSide(LEFT, x, swap)}
<1>1. /\ top \in Nat /\ t \in 1..top /\ Path(h, slots, dirs, top, X, K)
      /\ X[top + 1] = {}
      /\ \A j \in (t + 1)..top : dirs[j] = RIGHT
      /\ \A j \in 1..(top + 1) : X[j] \in SUBSET Nodes
  BY Zenon DEF TargetPath
<1>2. \A j \in (t + 1)..top : swap \in X[j] /\ swap \in Nodes
  BY HangingIs DEF Hanging
<1>3. ASSUME NEW j \in (t + 1)..top
      PROVE  \E O \in SUBSET Nodes :
               /\ X[j] = X[j + 1] \cup {At(h, slots[j])} \cup O
               /\ X[j + 1] \in SUBSET Nodes /\ At(h, slots[j]) \in Nodes
               /\ Apart(At(h, slots[j]), RIGHT, X[j + 1], O)
               /\ \A x \in X[j + 1] : OnSide(RIGHT, x, At(h, slots[j]))
               /\ \A x \in O : OnSide(LEFT, x, At(h, slots[j]))
  <2>1. j \in Nat /\ j \in 1..top /\ j + 1 \in 1..(top + 1)
    BY <1>1, SMT
  <2>2. PICK O \in SUBSET Nodes, ko \in Nat : Knot(h, slots, dirs, j, X, K, O, ko)
    BY <1>1, <2>1 DEF Path
  <2>3. dirs[j] = RIGHT /\ X[j + 1] \in SUBSET Nodes
    BY <1>1, <2>1
  <2>4. Split(h, slots, dirs, j, X, O)
    BY <2>1, <2>2, <2>3, KnotSplit
  <2>5. 1 - RIGHT = LEFT
    BY Directions
  <2>6. /\ \A x \in X[j + 1] : OnSide(RIGHT, x, At(h, slots[j]))
        /\ \A x \in O : OnSide(LEFT, x, At(h, slots[j]))
    BY <2>2, <2>3, <2>5, Zenon DEF Knot
  <2>7. QED
    BY <2>3, <2>4, <2>6, Zenon DEF Split
<1>4. LEFT # RIGHT
  BY Directions
<1>5. top \in T
  <2>1. SUFFICES ASSUME top \in (t + 1)..top PROVE \A x \in X[top] \ {swap} : OnSide(LEFT, x, swap)
    BY <1>1
  <2>2. QED
    BY <1>1, <1>3, <2>1
<1>6. ASSUME NEW i \in 1..top, i \in T, i > 1 PROVE i - 1 \in T
  <2> DEFINE j == i - 1
             n == At(h, slots[j])
  <2>1. j \in 1..top /\ j + 1 = i
    BY ONLY <1>1, <1>6, SMT DEF j
  <2>2. SUFFICES ASSUME j \in (t + 1)..top, NEW x \in X[j] \ {swap} PROVE OnSide(LEFT, x, swap)
    BY <2>1
  <2>3. i \in (t + 1)..top
    BY ONLY <1>1, <2>2, <1>6, SMT DEF j
  <2> HIDE DEF j
  <2>4. PICK O \in SUBSET Nodes :
               /\ X[j] = X[i] \cup {n} \cup O
               /\ X[i] \in SUBSET Nodes /\ n \in Nodes
               /\ \A y \in X[i] : OnSide(RIGHT, y, n)
               /\ \A y \in O : OnSide(LEFT, y, n)
    BY <1>3, <2>1, <2>2
  <2>5. swap \in X[i]
    BY <1>2, <2>3
  <2>6. CASE x \in X[i]
    BY <1>6, <2>2, <2>3, <2>6
  <2>7. OnSide(RIGHT, swap, n)
    BY <2>4, <2>5
  <2>8. Key(n) < Key(swap)
    BY <1>4, <2>7 DEF OnSide
  <2>9. CASE x = n
    BY <2>8, <2>9 DEF OnSide
  <2>10. CASE x \in O
    <3>1. Key(x) < Key(n)
      BY <2>4, <2>10 DEF OnSide
    <3>2. Key(x) \in Int /\ Key(n) \in Int /\ Key(swap) \in Int
      BY <1>2, <2>3, <2>4, <2>10, KeyType
    <3>3. Key(x) < Key(swap)
      BY ONLY <2>8, <3>1, <3>2, SMT
    <3>4. QED
      BY <3>3 DEF OnSide
  <2>11. QED
    BY <2>2, <2>4, <2>6, <2>9, <2>10
<1> HIDE DEF T
<1>7. \A i \in 1..top : i \in T
  BY <1>1, <1>5, <1>6, InductionDown
<1>8. ASSUME NEW j \in (t + 1)..top PROVE j \in 1..top
  BY <1>1, SMT
<1>9. QED
  BY <1>7, <1>8 DEF T
LEMMA ChildKept ==
  ASSUME NEW h \in Heaps, NEW f, NEW slots, NEW key, NEW t, NEW top, NEW dirs, NEW X, NEW K,
         NEW B, NEW target, NEW swap,
         Moved(h, f, slots, key, t, top, dirs, X, K, B, target, swap),
         NEW x \in Nodes, x \notin {target, swap}
  PROVE  /\ f.state[x] = h.state[x]
         /\ \A e \in Dirs : <<x, e>> # slots[top] /\ <<x, e>> # slots[t]
                              => f.child[x][e] = h.child[x][e]
BY DEF Moved, SplicedOther

LEMMA SideKept ==
  ASSUME NEW h \in Heaps, NEW f, NEW slots, NEW key, NEW t, NEW top, NEW dirs, NEW X, NEW K,
         NEW B, NEW target, NEW swap,
         Moved(h, f, slots, key, t, top, dirs, X, K, B, target, swap),
         NEW S, S \in SUBSET Nodes, S \subseteq X[t], target \notin S, swap \notin S,
         At(h, slots[top - 1]) \notin S
  PROVE  Same(f, h, S)
<1>1. Hanging(h, slots, t, top, dirs, X, B, target, swap)
  BY HangingIs DEF Moved
<1>2. Outside(slots[t], X[t]) /\ slots[top] = <<At(h, slots[top - 1]), dirs[top - 1]>>
  BY <1>1 DEF Hanging
<1>3. ASSUME NEW x \in S
      PROVE  f.state[x] = h.state[x] /\ \A e \in Dirs : f.child[x][e] = h.child[x][e]
  <2>1. x \in Nodes /\ x \notin {target, swap}
    OBVIOUS
  <2>2. \A e \in Dirs : <<x, e>> # slots[top] /\ <<x, e>> # slots[t]
    BY <1>2 DEF Outside
  <2>3. QED
    BY <2>1, <2>2, ChildKept
<1>4. QED
  BY <1>3 DEF Same

HasKnot(f, stack, dirs, j, Y, K) ==
  \E O \in SUBSET Nodes, ko \in Nat : Knot(f, stack, dirs, j, Y, K, O, ko)

\* The nodes above the target.
LEMMA KnotsAbove ==
  ASSUME NEW h \in Heaps, NEW f \in Heaps, NEW slots, NEW key, NEW t, NEW top, NEW dirs, NEW X,
         NEW K, NEW B, NEW target, NEW swap,
         Moved(h, f, slots, key, t, top, dirs, X, K, B, target, swap),
         NEW stack, \A j \in 1..t : stack[j] = slots[j],
         NEW Y, \A j \in 1..t : Y[j] = X[j] \ {target}
  PROVE  \A j \in 1..(t - 1) : HasKnot(f, stack, dirs, j, Y, K)
<1> DEFINE m == t - 1
           N == {target}
           E == {}
           C == X[t]
           Z == [j \in 1..(m + 1) |-> (X[j] \ N) \cup E]
<1>1. /\ top \in Nat /\ t \in 1..top /\ Path(h, slots, dirs, top, X, K)
      /\ target \in X[t] /\ X[t] \subseteq B /\ X[1] = B
  BY Zenon DEF Moved, TargetPath
<1>2. m \in Nat /\ m \in 0..top /\ m + 1 = t
  BY ONLY <1>1, SMT
<1>3. Hanging(h, slots, t, top, dirs, X, B, target, swap)
  BY HangingIs DEF Moved
<1>4. Alike(f, h, slots[t], C)
  <2>1. slots[t] # RootSlot => f.root = h.root
    BY DEF Moved, SplicedOther
  <2>2. ASSUME NEW x \in Nodes \ C
        PROVE  /\ f.state[x] = h.state[x]
               /\ \A e \in Dirs : <<x, e>> # slots[t] => f.child[x][e] = h.child[x][e]
    <3>1. x \notin {target, swap} /\ \A e \in Dirs : <<x, e>> # slots[top]
      BY <1>1, <1>3 DEF Hanging
    <3>2. QED
      BY <3>1, ChildKept
  <2>3. QED
    BY <2>1, <2>2 DEF Alike
<1>5. Grafted(f, h, slots, dirs, top, X, m, N, E, C, Z)
  <2>1. N \subseteq X[m + 1] /\ E \subseteq Nodes /\ C \cap X[1] \subseteq X[m + 1]
    BY <1>1, <1>2
  <2>2. (\A j \in 1..m : \A x \in E : OnSide(dirs[j], x, At(h, slots[j])))
        /\ \A j \in 1..(m + 1) : Z[j] = (X[j] \ N) \cup E
    OBVIOUS
  <2>3. Alike(f, h, slots[m + 1], C)
    BY <1>2, <1>4
  <2> HIDE DEF N, E, Z, m, C
  <2>4. QED
    BY <1>2, <2>1, <2>2, <2>3, Zenon DEF Grafted
<1>6. \A j \in 1..(m + 1) : Z[j] = X[j] \ {target}
  OBVIOUS
<1> HIDE DEF N, E, Z, C
<1>7. Path(f, slots, dirs, m, Z, K)
  <2> HIDE DEF m
  <2>1. Kept(f, h, slots, dirs, m, Z, K)
    BY <1>1, <1>5, PathKept
  <2>2. QED
    BY <2>1 DEF Kept
<1>8. ASSUME NEW j \in 1..m
      PROVE  \E O \in SUBSET Nodes, ko \in Nat : Knot(f, stack, dirs, j, Y, K, O, ko)
  <2>1. j \in 1..t /\ j + 1 \in 1..t /\ j \in 1..(m + 1) /\ j + 1 \in 1..(m + 1)
    BY ONLY <1>1, <1>2, j \in 1..m, SMT
  <2>2. PICK O \in SUBSET Nodes, ko \in Nat : Knot(f, slots, dirs, j, Z, K, O, ko)
    BY <1>7 DEF Path
  <2>3. stack[j] = slots[j] /\ stack[j + 1] = slots[j + 1] /\ Y[j] = Z[j] /\ Y[j + 1] = Z[j + 1]
    BY <1>6, <2>1
  <2>4. Knot(f, stack, dirs, j, Y, K, O, ko)
    BY <2>2, <2>3, KnotAgrees
  <2>5. QED
    BY <2>4
<1>9. QED
  BY <1>8 DEF HasKnot

\* The swap in the place of the target.
LEMMA KnotOfSwap ==
  ASSUME NEW h \in Heaps, NEW f \in Heaps, NEW slots, NEW key, NEW t, NEW top, NEW dirs, NEW X,
         NEW K, NEW B, NEW target, NEW swap,
         Moved(h, f, slots, key, t, top, dirs, X, K, B, target, swap),
         NEW stack, stack[t] = slots[t], stack[t + 1] = <<swap, LEFT>>,
         NEW Y, Y[t] = X[t] \ {target}, Y[t + 1] = X[t + 1] \ {swap}
  PROVE  HasKnot(f, stack, dirs, t, Y, K)
<1>1. /\ TargetPath(h, slots, key, t, top, dirs, X, K, B, target)
      /\ t < top /\ swap = At(h, slots[top]) /\ SplicedOther(f, h, slots[t], target, slots[top], swap)
  BY DEF Moved
<1>2. /\ top \in Nat /\ t \in 1..top /\ Path(h, slots, dirs, top, X, K)
      /\ target = At(h, slots[t]) /\ target \in Nodes /\ dirs[t] = LEFT
      /\ slots[t + 1] = <<target, LEFT>>
      /\ \A j \in 1..(top + 1) : X[j] \in SUBSET Nodes /\ slots[j] \in Slots
      /\ \A j \in 1..top : At(h, slots[j]) \in Nodes
  <2>1. \A j \in 1..top : slots[j + 1] = <<At(h, slots[j]), dirs[j]>>
    BY <1>1, Zenon DEF TargetPath
  <2>2. /\ top \in Nat /\ t \in 1..top /\ Path(h, slots, dirs, top, X, K)
        /\ target = At(h, slots[t]) /\ target \in Nodes /\ dirs[t] = LEFT
        /\ \A j \in 1..(top + 1) : X[j] \in SUBSET Nodes /\ slots[j] \in Slots
        /\ \A j \in 1..top : At(h, slots[j]) \in Nodes
    BY <1>1, Zenon DEF TargetPath
  <2>3. slots[t + 1] = <<target, LEFT>>
    BY <2>1, <2>2
  <2>4. QED
    BY <2>2, <2>3
<1>3. t \in Nat /\ t + 1 \in (t + 1)..top /\ t + 1 \in 1..(top + 1) /\ t \in 1..(top + 1)
      /\ (top - 1 = t \/ top - 1 \in (t + 1)..top) /\ top - 1 \in 1..top
  BY ONLY <1>1, <1>2, t < top, SMT
<1>4. Hanging(h, slots, t, top, dirs, X, B, target, swap)
  BY <1>1, HangingIs
<1>5. swap \in X[t + 1] /\ swap \in Nodes /\ swap # target
      /\ slots[top] = <<At(h, slots[top - 1]), dirs[top - 1]>>
  BY <1>3, <1>4, Zenon DEF Hanging
<1>6. PICK O \in SUBSET Nodes, ko \in Nat : Knot(h, slots, dirs, t, X, K, O, ko)
  BY <1>2 DEF Path
<1>7. /\ X[t] = X[t + 1] \cup {target} \cup O /\ Apart(target, LEFT, X[t + 1], O)
  <2>1. X[t + 1] \in SUBSET Nodes
    BY <1>2, <1>3
  <2>2. Split(h, slots, dirs, t, X, O)
    BY <1>3, <1>6, <2>1, KnotSplit
  <2>3. QED
    BY <1>2, <2>2 DEF Split
<1>8. 1 - LEFT = RIGHT /\ LEFT \in Dirs /\ RIGHT \in Dirs /\ LEFT # RIGHT
  BY Directions
<1>9. /\ Avl(h, h.child[target][RIGHT], O, ko) /\ Weighs(h.state[target], LEFT, K[t + 1], ko)
      /\ K[t] = 1 + Higher(K[t + 1], ko) /\ Outside(slots[t], X[t])
  BY <1>2, <1>6, <1>8, Zenon DEF Knot
<1>10. <<target, RIGHT>> # slots[top]
  <2>1. CASE top - 1 = t
    BY <1>2, <1>5, <1>8, <2>1
  <2>2. CASE top - 1 \in (t + 1)..top
    <3>1. At(h, slots[top - 1]) # target
      <4>1. Nested(h, slots, top, X)
        BY <1>2, PathNested
      <4>2. t < top - 1
        BY ONLY <1>2, <2>2, SMT
      <4>3. QED
        BY <1>2, <1>3, <4>1, <4>2 DEF Nested
    <3>2. QED
      BY <1>5, <3>1
  <2>3. QED
    BY <1>3, <2>1, <2>2
<1>11. f.child[swap][RIGHT] = h.child[target][RIGHT] /\ f.state[swap] = h.state[target]
       /\ At(f, slots[t]) = swap
  BY <1>1, <1>8, <1>10 DEF SplicedOther
<1>12. Same(f, h, O)
  <2>1. O \subseteq X[t] /\ target \notin O /\ swap \notin O
    BY <1>5, <1>7 DEF Apart
  <2>2. At(h, slots[top - 1]) \notin O
    <3>1. CASE top - 1 = t
      BY <1>2, <2>1, <3>1
    <3>2. CASE top - 1 \in (t + 1)..top
      <4>1. At(h, slots[top - 1]) \in X[top - 1] /\ X[top - 1] \subseteq X[t + 1]
        <5>1. Nested(h, slots, top, X)
          BY <1>2, PathNested
        <5>2. t + 1 <= top - 1 /\ top - 1 \in 1..(top + 1)
          BY ONLY <1>2, <3>2, SMT
        <5>3. QED
          BY <1>3, <5>1, <5>2 DEF Nested
      <4>2. QED
        BY <1>7, <4>1 DEF Apart
    <3>3. QED
      BY <1>3, <3>1, <3>2
  <2>3. QED
    BY <2>1, <2>2, SideKept
<1>13. Avl(f, h.child[target][RIGHT], O, ko)
  BY <1>9, <1>12, FrameSame
<1>14. Y[t] = Y[t + 1] \cup {swap} \cup O
  BY <1>5, <1>7 DEF Apart
<1>15. \A x \in Y[t + 1] : OnSide(LEFT, x, swap)
  BY <1>1, <1>3, SwapIsLast
<1>16. \A x \in O : OnSide(RIGHT, x, swap)
  <2>1. \A x \in O : OnSide(LEFT, swap, x)
    BY <1>5, <1>7 DEF Apart
  <2>2. \A x \in O : Key(x) \in Int /\ Key(swap) \in Int
    BY <1>5, KeyType
  <2>3. QED
    BY <1>8, <2>1, <2>2 DEF OnSide
<1>17. Outside(stack[t], Y[t]) /\ stack[t] \in Slots
  BY <1>2, <1>3, <1>9, OutsidePart
<1>18. Knot(f, stack, dirs, t, Y, K, O, ko)
  BY <1>2, <1>5, <1>8, <1>9, <1>11, <1>13, <1>14, <1>15, <1>16, <1>17, Zenon DEF Knot
<1>19. QED
  BY <1>18 DEF HasKnot
\* The nodes between the two.
LEMMA KnotsBetween ==
  ASSUME NEW h \in Heaps, NEW f \in Heaps, NEW slots, NEW key, NEW t, NEW top, NEW dirs, NEW X,
         NEW K, NEW B, NEW target, NEW swap,
         Moved(h, f, slots, key, t, top, dirs, X, K, B, target, swap),
         NEW stack, stack[t + 1] = <<swap, LEFT>>,
         \A j \in (t + 2)..top : stack[j] = slots[j],
         NEW Y, \A j \in (t + 1)..top : Y[j] = X[j] \ {swap},
         NEW j \in (t + 1)..(top - 1)
  PROVE  HasKnot(f, stack, dirs, j, Y, K)
<1>1. /\ TargetPath(h, slots, key, t, top, dirs, X, K, B, target)
      /\ t < top /\ swap = At(h, slots[top]) /\ SplicedOther(f, h, slots[t], target, slots[top], swap)
  BY DEF Moved
<1>2. /\ top \in Nat /\ t \in 1..top /\ Path(h, slots, dirs, top, X, K)
      /\ target = At(h, slots[t]) /\ target \in Nodes /\ dirs[t] = LEFT
      /\ \A i \in (t + 1)..top : dirs[i] = RIGHT
      /\ \A i \in 1..(top + 1) : X[i] \in SUBSET Nodes /\ slots[i] \in Slots
      /\ \A i \in 1..top : At(h, slots[i]) \in Nodes
      /\ \A i \in 1..top : slots[i + 1] = <<At(h, slots[i]), dirs[i]>>
  BY <1>1, Zenon DEF TargetPath
<1> DEFINE n == At(h, slots[j])
           owner == At(h, slots[top - 1])
<1>3. /\ t \in Nat /\ j \in Nat /\ j \in 1..top /\ j + 1 \in 1..top /\ j \in (t + 1)..top
      /\ j + 1 \in (t + 1)..top /\ j + 1 \in (t + 2)..top /\ t < j /\ j < top
      /\ j \in 1..(top + 1) /\ j + 1 \in 1..(top + 1) /\ t \in 1..(top + 1)
      /\ top - 1 \in (t + 1)..top /\ top - 1 \in 1..top /\ top \in 1..top
      /\ (j = t + 1 \/ (j \in (t + 2)..top /\ j - 1 \in (t + 1)..top /\ j - 1 \in 1..top
                         /\ (j - 1) + 1 = j /\ j - 1 < top - 1))
      /\ (j = top - 1 \/ (j + 1 <= top - 1 /\ top - 1 \in 1..(top + 1)))
  BY ONLY <1>1, <1>2, t < top, j \in (t + 1)..(top - 1), SMT
<1>4. Hanging(h, slots, t, top, dirs, X, B, target, swap)
  BY <1>1, HangingIs
<1>5. /\ swap \in X[j] /\ swap \in X[j + 1] /\ target \notin X[j] /\ X[j] \subseteq X[t]
      /\ swap \in Nodes /\ swap # target
      /\ slots[top] = <<owner, dirs[top - 1]>> /\ Outside(slots[t], X[t]) /\ slots[t] # slots[top]
  BY <1>3, <1>4, Zenon DEF Hanging
<1>6. PICK O \in SUBSET Nodes, ko \in Nat : Knot(h, slots, dirs, j, X, K, O, ko)
  BY <1>2, <1>3 DEF Path
<1>7. /\ n \in Nodes /\ X[j] = X[j + 1] \cup {n} \cup O /\ Apart(n, RIGHT, X[j + 1], O)
  <2>1. X[j + 1] \in SUBSET Nodes /\ dirs[j] = RIGHT
    BY <1>2, <1>3
  <2>2. Split(h, slots, dirs, j, X, O)
    BY <1>3, <1>6, <2>1, KnotSplit
  <2>3. QED
    BY <2>1, <2>2, Zenon DEF Split
<1>8. 1 - LEFT = RIGHT /\ 1 - RIGHT = LEFT /\ LEFT \in Dirs /\ RIGHT \in Dirs /\ LEFT # RIGHT
  BY Directions
<1>9. Nested(h, slots, top, X)
  BY <1>2, PathNested
<1>10. n # swap /\ n # target /\ n \in X[t]
  BY <1>5, <1>7 DEF Apart
<1>11. ASSUME NEW e \in Dirs PROVE <<n, e>> # slots[t]
  BY <1>5, <1>10 DEF Outside
<1>12. dirs[top - 1] = RIGHT /\ dirs[j] = RIGHT
  BY <1>2, <1>3
<1>13. f.state[n] = h.state[n] /\ f.child[n][LEFT] = h.child[n][LEFT]
  <2>1. <<n, LEFT>> # slots[top] /\ <<n, LEFT>> # slots[t]
    BY <1>5, <1>8, <1>11, <1>12
  <2>2. n \in Nodes /\ n \notin {target, swap}
    BY <1>7, <1>10
  <2>3. QED
    BY <1>8, <2>1, <2>2, ChildKept
<1>14. Same(f, h, O)
  <2>1. O \subseteq X[t] /\ target \notin O /\ swap \notin O
    BY <1>5, <1>7 DEF Apart
  <2>2. owner \notin O
    <3>1. CASE j = top - 1
      BY <1>7, <3>1 DEF Apart
    <3>2. CASE j # top - 1
      <4>1. owner \in X[top - 1] /\ X[top - 1] \subseteq X[j + 1]
        BY <1>3, <1>9, <3>2 DEF Nested
      <4>2. QED
        BY <1>7, <4>1 DEF Apart
    <3>3. QED
      BY <3>1, <3>2
  <2> HIDE DEF owner
  <2>3. At(h, slots[top - 1]) \notin O
    BY <2>2 DEF owner
  <2>4. QED
    BY <2>1, <2>3, SideKept
<1>15. stack[j] \in Slots /\ At(f, stack[j]) = n /\ Outside(stack[j], Y[j])
  <2>1. CASE j = t + 1
    <3>1. stack[j] = <<swap, LEFT>> /\ slots[j] = <<target, LEFT>>
      BY <1>2, <2>1
    <3>2. <<target, LEFT>> # slots[top]
      <4>1. slots[j] # slots[top]
        BY <1>2, <1>3, PathSlots
      <4>2. QED
        BY <3>1, <4>1
    <3>3. f.child[swap][LEFT] = h.child[target][LEFT]
      BY <1>1, <1>8, <3>2 DEF SplicedOther
    <3>4. At(f, stack[j]) = n
      BY <1>2, <1>5, <1>8, <3>1, <3>3, SlotFacts
    <3>5. Outside(stack[j], Y[j])
      BY <1>3, <3>1 DEF Outside
    <3>6. QED
      BY <1>5, <1>8, <3>1, <3>4, <3>5, SlotFacts
  <2>2. CASE j # t + 1
    <3> DEFINE p == At(h, slots[j - 1])
    <3>1. stack[j] = slots[j] /\ slots[j] = <<p, RIGHT>> /\ p \in Nodes /\ slots[j] \in Slots
      <4>1. j \in (t + 2)..top /\ j - 1 \in (t + 1)..top /\ j - 1 \in 1..top /\ (j - 1) + 1 = j
        BY <1>3, <2>2
      <4>2. QED
        BY <1>2, <1>3, <4>1
    <3>2. p # target /\ p # swap /\ p \in X[t]
      <4>1. j - 1 \in (t + 1)..top /\ j - 1 \in 1..top /\ j - 1 < top /\ j - 1 \in 1..(top + 1)
        BY ONLY <1>2, <1>3, <2>2, SMT
      <4>2. p \in X[j - 1] /\ p # swap
        BY <1>1, <1>3, <1>9, <4>1 DEF Nested
      <4>3. target \notin X[j - 1] /\ X[j - 1] \subseteq X[t]
        BY <1>4, <4>1, Zenon DEF Hanging
      <4>4. QED
        BY <4>2, <4>3
    <3>3. <<p, RIGHT>> # slots[top]
      <4>1. slots[j] # slots[top]
        BY <1>2, <1>3, PathSlots
      <4>2. QED
        BY <3>1, <4>1
    <3>4. <<p, RIGHT>> # slots[t]
      BY <1>5, <1>8, <3>2 DEF Outside
    <3>5. f.child[p][RIGHT] = h.child[p][RIGHT]
      <4>1. p \notin {target, swap}
        BY <3>2
      <4> HIDE DEF p
      <4>2. QED
        BY <1>8, <3>1, <3>3, <3>4, <4>1, ChildKept
    <3>6. At(f, stack[j]) = n
      <4>1. At(f, <<p, RIGHT>>) = f.child[p][RIGHT] /\ At(h, <<p, RIGHT>>) = h.child[p][RIGHT]
        BY <1>8, <3>1, SlotFacts
      <4>2. QED
        BY <3>1, <3>5, <4>1
    <3>7. Outside(slots[j], X[j])
      BY <1>6, Zenon DEF Knot
    <3>8. Outside(stack[j], Y[j])
      BY <1>3, <3>1, <3>7, OutsidePart
    <3>9. QED
      BY <3>1, <3>6, <3>8
  <2>3. QED
    BY <2>1, <2>2
<1>16. stack[j + 1] = slots[j + 1]
  BY <1>3
<1>17. Y[j] = Y[j + 1] \cup {n} \cup O
  BY <1>3, <1>5, <1>7, <1>10 DEF Apart
<1>18. \A x \in Y[j + 1] : OnSide(dirs[j], x, n)
  <2>1. \A x \in X[j + 1] : OnSide(dirs[j], x, n)
    BY <1>6, Zenon DEF Knot
  <2>2. QED
    BY <1>3, <2>1
<1>19. f.child[n][1 - dirs[j]] = h.child[n][1 - dirs[j]]
  BY <1>8, <1>12, <1>13
<1>20. Knot(f, stack, dirs, j, Y, K, O, ko)
  <2>1. f.state[n] = h.state[n]
    BY <1>13
  <2>2. n = At(h, slots[j])
    OBVIOUS
  <2> HIDE DEF n
  <2>3. QED
    BY <1>3, <1>6, <1>14, <1>15, <1>16, <1>17, <1>18, <1>19, <2>1, <2>2, KnotKept
<1>21. QED
  BY <1>20 DEF HasKnot

\* What is left below the swap's former slot.
LeftOver(f, stack, top, X, K, swap) ==
  \E ko \in Nat : Avl(f, At(f, stack[top]), X[top] \ {swap}, ko) /\ K[top] = ko + 1

LEMMA SwapLeft ==
  ASSUME NEW h \in Heaps, NEW f \in Heaps, NEW slots, NEW key, NEW t, NEW top, NEW dirs, NEW X,
         NEW K, NEW B, NEW target, NEW swap,
         Moved(h, f, slots, key, t, top, dirs, X, K, B, target, swap),
         NEW stack, stack[t + 1] = <<swap, LEFT>>,
         \A j \in (t + 2)..top : stack[j] = slots[j]
  PROVE  LeftOver(f, stack, top, X, K, swap)
<1>1. /\ TargetPath(h, slots, key, t, top, dirs, X, K, B, target)
      /\ t < top /\ swap = At(h, slots[top]) /\ SplicedOther(f, h, slots[t], target, slots[top], swap)
  BY DEF Moved
<1>2. /\ top \in Nat /\ t \in 1..top /\ Path(h, slots, dirs, top, X, K)
      /\ target = At(h, slots[t]) /\ target \in Nodes /\ dirs[t] = LEFT
      /\ X[top + 1] = {} /\ K[top + 1] = 0
      /\ \A i \in (t + 1)..top : dirs[i] = RIGHT
      /\ \A i \in 1..(top + 1) : X[i] \in SUBSET Nodes /\ slots[i] \in Slots
  BY <1>1, Zenon DEF TargetPath
<1> DEFINE owner == At(h, slots[top - 1])
<1>3. /\ top \in 1..top /\ top \in (t + 1)..top /\ top + 1 \in 1..(top + 1) /\ (top = t + 1 \/ top \in (t + 2)..top)
      /\ (top = t + 1 => top - 1 = t) /\ (top # t + 1 => top - 1 \in (t + 1)..top)
  BY ONLY <1>1, <1>2, SMT
<1>4. Hanging(h, slots, t, top, dirs, X, B, target, swap)
  BY <1>1, HangingIs
<1>5. /\ swap \in X[top] /\ target \notin X[top] /\ X[top] \subseteq X[t]
      /\ swap \in Nodes /\ swap # target /\ owner \notin X[top] /\ owner \in Nodes /\ swap # owner
      /\ slots[top] = <<owner, dirs[top - 1]>> /\ Outside(slots[t], X[t]) /\ slots[t] # slots[top]
  BY <1>3, <1>4, Zenon DEF Hanging
<1>6. PICK O \in SUBSET Nodes, ko \in Nat : Knot(h, slots, dirs, top, X, K, O, ko)
  BY <1>2, <1>3 DEF Path
<1>7. 1 - LEFT = RIGHT /\ 1 - RIGHT = LEFT /\ LEFT \in Dirs /\ RIGHT \in Dirs /\ LEFT # RIGHT
  BY Directions
<1>8. X[top] = {swap} \cup O /\ swap \notin O
  <2>1. X[top + 1] \in SUBSET Nodes
    BY <1>2
  <2>2. Split(h, slots, dirs, top, X, O)
    BY <1>2, <1>6, <2>1, KnotSplit
  <2>3. QED
    BY <1>1, <1>2, <2>2 DEF Split, Apart
<1>9. Avl(h, h.child[swap][LEFT], O, ko) /\ K[top] = ko + 1
  <2>1. dirs[top] = RIGHT
    BY <1>2, <1>3
  <2>2. Avl(h, h.child[swap][LEFT], O, ko)
    BY <1>1, <1>6, <1>7, <2>1, Zenon DEF Knot
  <2>3. K[top] = 1 + Higher(0, ko)
    BY <1>2, <1>6, Zenon DEF Knot
  <2>4. K[top] = ko + 1
    BY ONLY <2>3, ko \in Nat, SMT DEF Higher
  <2>5. QED
    BY <2>2, <2>4
<1>10. Same(f, h, O)
  <2>1. O \subseteq X[t] /\ target \notin O /\ swap \notin O /\ owner \notin O
    BY <1>5, <1>8
  <2> HIDE DEF owner
  <2>2. At(h, slots[top - 1]) \notin O
    BY <2>1 DEF owner
  <2>3. QED
    BY <2>1, <2>2, SideKept
<1>11. Avl(f, h.child[swap][LEFT], O, ko)
  BY <1>9, <1>10, FrameSame
<1>12. At(f, stack[top]) = h.child[swap][LEFT]
  <2>1. CASE top = t + 1
    <3>1. stack[top] = <<swap, LEFT>> /\ slots[top] = <<target, LEFT>>
      BY <1>2, <1>3, <1>5, <2>1
    <3>2. f.child[swap][LEFT] = h.child[swap][LEFT]
      BY <1>1, <1>7, <3>1 DEF SplicedOther
    <3>3. QED
      BY <1>5, <1>7, <3>1, <3>2, SlotFacts
  <2>2. CASE top # t + 1
    <3>1. stack[top] = slots[top]
      BY <1>3, <2>2
    <3>2. dirs[top - 1] = RIGHT
      BY <1>2, <1>3, <2>2
    <3>3. owner # target
      <4>1. Nested(h, slots, top, X)
        BY <1>2, PathNested
      <4>2. t < top - 1 /\ top - 1 \in 1..top
        BY ONLY <1>2, <1>3, <2>2, SMT
      <4>3. QED
        BY <1>2, <4>1, <4>2 DEF Nested
    <3>4. f.child[owner][RIGHT] = h.child[swap][LEFT]
      <4>1. owner \in Nodes \ {target, swap} /\ <<owner, RIGHT>> = slots[top]
        BY <1>5, <3>2, <3>3
      <4> HIDE DEF owner
      <4>2. QED
        BY <1>1, <1>7, <4>1 DEF SplicedOther
    <3>5. QED
      BY <1>5, <1>7, <3>1, <3>2, <3>4, SlotFacts
  <2>3. QED
    BY <2>1, <2>2
<1>13. X[top] \ {swap} = O
  BY <1>8
<1>14. QED
  BY <1>9, <1>11, <1>12, <1>13 DEF LeftOver
LEMMA RemoveOtherWorks ==
  ASSUME NEW h \in Heaps, NEW slots, NEW key, NEW t, NEW top, NEW dirs, NEW X, NEW K, NEW B,
         NEW target, TargetPath(h, slots, key, t, top, dirs, X, K, B, target), t < top
  PROVE  Removed(Unlink(h, slots, dirs, t), h, B, target)
<1> DEFINE swap  == At(h, slots[top])
           f     == Spliced(h, slots[t], target, slots[top], swap, RIGHT)
           stack == [slots EXCEPT ![t + 1] = <<swap, 1 - RIGHT>>]
           m     == top - 1
           Y     == [j \in 1..top |-> IF j <= t THEN X[j] \ {target} ELSE X[j] \ {swap}]
<1>1. /\ top \in Nat /\ top + 1 = Len(slots) /\ t \in 1..top /\ Path(h, slots, dirs, top, X, K)
      /\ slots \in Seq(Slots) /\ slots[1] = RootSlot
      /\ X[1] = B /\ B \in SUBSET Nodes /\ target \in X[t] /\ X[t] \subseteq B
      /\ target = At(h, slots[t]) /\ target \in Nodes
      /\ \A i \in (t + 1)..top : dirs[i] = RIGHT
      /\ \A j \in 1..(top + 1) : slots[j] \in Slots /\ X[j] \in SUBSET Nodes /\ K[j] \in Nat
      /\ \A j \in 1..top : slots[j + 1] = <<At(h, slots[j]), dirs[j]>> /\ dirs[j] \in Dirs
  BY Zenon DEF TargetPath
<1>2. /\ m \in Nat /\ m + 1 = top /\ top = Len(slots) - 1 /\ t \in 1..m /\ t \in Nat /\ 1 \in 1..t /\ 1 \in 1..top
      /\ top \in (t + 1)..top /\ top \in 1..top /\ t \in 1..(top + 1) /\ top \in 1..(top + 1)
      /\ ~(top <= t)
  BY ONLY <1>1, t < top, SMT DEF m
<1>3. Hanging(h, slots, t, top, dirs, X, B, target, swap)
  BY HangingIs
<1>4. /\ swap \in X[top] /\ swap \in X[t] /\ swap \in Nodes /\ swap # target
      /\ slots[top] = <<At(h, slots[top - 1]), dirs[top - 1]>> /\ Outside(slots[t], X[t])
      /\ slots[t] # slots[top] /\ At(h, slots[top - 1]) \in X[t] /\ swap # At(h, slots[top - 1])
  BY <1>2, <1>3, Zenon DEF Hanging
<1>5. dirs[top] = RIGHT /\ 1 - RIGHT = LEFT
  BY <1>1, <1>2, Directions
<1>6. Unlink(h, slots, dirs, t) = WayUp(f, stack, dirs, m, FALSE)
  <2>1. Linked(h, slots, dirs, t, top, RIGHT, target, swap, stack)
    BY <1>1, <1>2, <1>5, Zenon DEF Linked
  <2> HIDE DEF stack, swap
  <2>2. Unlinked(h, slots, dirs, t, top, RIGHT, target, swap, stack)
    BY <2>1, UnlinkIs
  <2>3. QED
    BY <2>2 DEF Unlinked
<1>7. SplicedOther(f, h, slots[t], target, slots[top], swap)
  <2>1. slots[top] # RootSlot
    <3>1. dirs[top - 1] \in Dirs
      BY <1>1, <1>2
    <3>2. At(h, slots[top - 1]) \in Nodes
      BY <1>1, <1>2, <1>4
    <3>3. QED
      BY <1>4, <3>1, <3>2, SlotFacts
  <2>2. Outside(slots[t], {target, swap})
    BY <1>1, <1>4 DEF Outside
  <2>3. Outside(slots[top], {swap})
    BY <1>4 DEF Outside
  <2>4. slots[t] \in Slots /\ slots[top] \in Slots
    BY <1>1, <1>2
  <2> HIDE DEF swap
  <2>5. QED
    BY <1>1, <1>4, <2>1, <2>2, <2>3, <2>4, SplicedOtherIs
<1>8. f \in Heaps /\ f.child[target] = NoChildren
  BY <1>7 DEF SplicedOther
<1> HIDE DEF f
<1>9. Moved(h, f, slots, key, t, top, dirs, X, K, B, target, swap)
  BY <1>7, <1>8 DEF Moved
<1>10. /\ \A j \in 1..t : stack[j] = slots[j]
       /\ stack[t + 1] = <<swap, LEFT>>
       /\ \A j \in (t + 2)..top : stack[j] = slots[j]
  <2>1. DOMAIN slots = 1..(top + 1)
    BY <1>1
  <2>2. /\ \A j \in 1..t : j \in 1..(top + 1) /\ j # t + 1
        /\ t + 1 \in 1..(top + 1)
        /\ \A j \in (t + 2)..top : j \in 1..(top + 1) /\ j # t + 1
    BY ONLY <1>1, <1>2, SMT
  <2> HIDE DEF swap
  <2>3. QED
    BY <1>5, <2>1, <2>2
<1>11. /\ \A j \in 1..t : Y[j] = X[j] \ {target}
       /\ \A j \in (t + 1)..top : Y[j] = X[j] \ {swap}
  <2>1. /\ \A j \in 1..t : j \in 1..top /\ j <= t
        /\ \A j \in (t + 1)..top : j \in 1..top /\ ~(j <= t)
    BY ONLY <1>1, <1>2, SMT
  <2> HIDE DEF swap
  <2>2. QED
    BY <2>1
<1>12. Y[t] = X[t] \ {target} /\ Y[t + 1] = X[t + 1] \ {swap} /\ stack[t] = slots[t]
       /\ Y[1] = B \ {target} /\ Y[top] = X[top] \ {swap}
  <2>1. t \in 1..t /\ t + 1 \in (t + 1)..top
    BY ONLY <1>1, <1>2, SMT
  <2> HIDE DEF Y, stack
  <2>2. QED
    BY <1>1, <1>2, <1>10, <1>11, <2>1
<1>13. Path(f, stack, dirs, m, Y, K)
  <2>1. stack[1] = RootSlot
    BY <1>1, <1>2, <1>10
  <2>2. ASSUME NEW j \in 1..(m + 1) PROVE Y[j] \in SUBSET Nodes /\ K[j] \in Nat /\ stack[j] \in Slots
    <3>1. j \in 1..(top + 1) /\ (j \in 1..t \/ j = t + 1 \/ j \in (t + 2)..top) /\ (j \in 1..t \/ j \in (t + 1)..top)
      BY ONLY <1>1, <1>2, j \in 1..(m + 1), SMT
    <3> HIDE DEF Y, stack
    <3>2. Y[j] \in SUBSET Nodes
      BY <1>1, <1>11, <3>1
    <3>3. <<swap, LEFT>> \in Slots
      BY <1>4, Directions, SlotFacts
    <3>4. stack[j] \in Slots
      BY <1>1, <1>10, <3>1, <3>3
    <3>5. QED
      BY <1>1, <3>1, <3>2, <3>4
  <2>3. ASSUME NEW j \in 1..m PROVE HasKnot(f, stack, dirs, j, Y, K)
    <3> HIDE DEF Y, stack, swap
    <3>1. j \in 1..(t - 1) \/ j = t \/ j \in (t + 1)..(top - 1)
      BY ONLY <1>1, <1>2, j \in 1..m, SMT DEF m
    <3>2. CASE j \in 1..(t - 1)
      BY <1>8, <1>9, <1>10, <1>11, <3>2, KnotsAbove
    <3>3. CASE j = t
      <4>1. HasKnot(f, stack, dirs, t, Y, K)
        BY <1>8, <1>9, <1>10, <1>12, KnotOfSwap
      <4>2. QED
        BY <3>3, <4>1
    <3>4. CASE j \in (t + 1)..(top - 1)
      BY <1>8, <1>9, <1>10, <1>11, <3>4, KnotsBetween
    <3>5. QED
      BY <3>1, <3>2, <3>3, <3>4
  <2> HIDE DEF Y, stack, m
  <2>4. QED
    BY <1>2, <2>1, <2>2, <2>3, Zenon DEF Path, HasKnot
<1> HIDE DEF Y, stack, swap
<1>14. PICK ko \in Nat : Avl(f, At(f, stack[top]), X[top] \ {swap}, ko) /\ K[top] = ko + 1
  <2> HIDE DEF m
  <2>1. LeftOver(f, stack, top, X, K, swap)
    BY <1>8, <1>9, <1>10, SwapLeft
  <2>2. QED
    BY <2>1, Zenon DEF LeftOver
<1>15. Same(f, h, Nodes \ B)
  <2>1. ASSUME NEW x \in Nodes \ B
        PROVE  f.state[x] = h.state[x] /\ \A e \in Dirs : f.child[x][e] = h.child[x][e]
    <3>1. x \notin {target, swap} /\ \A e \in Dirs : <<x, e>> # slots[top]
      BY <1>1, <1>4
    <3>2. ASSUME NEW e \in Dirs PROVE <<x, e>> # slots[t]
      <4>1. CASE t = 1
        BY <1>1, <4>1, SlotFacts
      <4>2. CASE t # 1
        <5> DEFINE i == t - 1
        <5>1. i \in 1..top /\ i + 1 = t /\ 1 <= i /\ 1 \in 1..(top + 1) /\ i \in 1..(top + 1)
          BY ONLY <1>1, <4>2, SMT
        <5> HIDE DEF i
        <5>2. slots[t] = <<At(h, slots[i]), dirs[i]>>
          BY <1>1, <5>1
        <5>3. At(h, slots[i]) \in X[i] /\ X[i] \subseteq X[1]
          <6>1. Nested(h, slots, top, X)
            BY <1>1, PathNested
          <6>2. QED
            BY <5>1, <6>1 DEF Nested
        <5>4. QED
          BY <1>1, <5>2, <5>3
      <4>3. QED
        BY <4>1, <4>2
    <3>3. QED
      BY <1>9, <3>1, <3>2, ChildKept
  <2>2. QED
    BY <2>1 DEF Same
<1>16. target \in B
  BY <1>1
<1> HIDE DEF m
<1>17. Avl(f, At(f, stack[m + 1]), Y[m + 1], ko) /\ K[m + 1] = ko + 1
  BY <1>2, <1>12, <1>14
<1>18. Removed(WayUp(f, stack, dirs, m, FALSE), h, B, target)
  BY <1>1, <1>8, <1>12, <1>13, <1>15, <1>16, <1>17, RemoveEnds
<1>19. QED
  BY <1>6, <1>18

\* Remove takes the target, and no other node, out of the tree.
LEMMA RemoveWorks ==
  ASSUME NEW h \in Heaps, NEW slots, NEW key \in Int, NEW t, Removable(h, slots, key, t)
  PROVE  Removed(Unlink(h, slots, DirsTo(h, slots, key), t), h, Below(h, h.root), At(h, slots[t]))
<1> DEFINE top == Len(slots) - 1
           dirs == DirsTo(h, slots, key)
           X == Unders(h, slots)
           K == Highs(h, slots)
           B == Below(h, h.root)
           target == At(h, slots[t])
<1>1. TargetPath(h, slots, key, t, top, dirs, X, K, B, target)
  BY TargetPathIs
<1> HIDE DEF top, dirs, X, K, B, target
<1>2. t \in 1..top /\ top \in Nat
  BY <1>1, Zenon DEF TargetPath
<1>3. t = top \/ t < top
  BY <1>2
<1>4. Removed(Unlink(h, slots, dirs, t), h, B, target)
  BY <1>1, <1>3, RemoveLastWorks, RemoveOtherWorks
<1>5. QED
  BY <1>4 DEF dirs, B, target
-----------------------------------------------------------------------------
(* The tree and the nodes outside it. *)

\* Every node of a tree is the root of one, and but for the first the child of
\* another.
Rooted(h, n, S) ==
  \A x \in S : /\ IsTree(h, x) /\ Below(h, x) \subseteq S
               /\ x = n \/ \E y \in S, d \in Dirs : h.child[y][d] = x

LEMMA AllRooted ==
  ASSUME NEW h, NEW n, NEW S, NEW k \in Nat, Avl(h, n, S, k)
  PROVE  Rooted(h, n, S)
<1> DEFINE T == {j \in Nat : \A m, X : Avl(h, m, X, j) => Rooted(h, m, X)}
<1>1. ASSUME NEW j \in Nat, \A i \in Nat : i < j => i \in T
      PROVE  j \in T
  <2>1. SUFFICES ASSUME NEW m, NEW X, Avl(h, m, X, j)
                 PROVE  Rooted(h, m, X)
    BY Zenon
  <2>2. CASE m = Null
    BY <2>1, <2>2, AvlType DEF Rooted
  <2>3. CASE m # Null
    <3>1. PICK D \in SUBSET Nodes, O \in SUBSET Nodes, kd \in Nat, ko \in Nat :
             Splits(h, m, X, j, LEFT, D, O, kd, ko)
      BY <2>1, <2>3, Directions, AvlUnfold
    <3>2. /\ Avl(h, h.child[m][LEFT], D, kd) /\ Avl(h, h.child[m][RIGHT], O, ko)
          /\ X = D \cup {m} \cup O /\ j = 1 + Higher(kd, ko)
      BY <3>1, Directions DEF Splits
    <3>3. kd < j /\ ko < j
      BY <3>2, SMT DEF Higher
    <3>4. Rooted(h, h.child[m][LEFT], D) /\ Rooted(h, h.child[m][RIGHT], O)
      BY <1>1, <3>2, <3>3, Zenon
    <3>5. IsTree(h, m) /\ Below(h, m) = X
      BY <2>1, TreeIs
    <3>6. ASSUME NEW x \in X
          PROVE  /\ IsTree(h, x) /\ Below(h, x) \subseteq X
                 /\ x = m \/ \E y \in X, d \in Dirs : h.child[y][d] = x
      <4>1. CASE x = m
        BY <3>5, <4>1
      <4>2. CASE x \in D
        <5>1. /\ IsTree(h, x) /\ Below(h, x) \subseteq D
              /\ x = h.child[m][LEFT] \/ \E y \in D, d \in Dirs : h.child[y][d] = x
          BY <3>4, <4>2 DEF Rooted
        <5>2. QED
          BY <3>2, <5>1, Directions
      <4>3. CASE x \in O
        <5>1. /\ IsTree(h, x) /\ Below(h, x) \subseteq O
              /\ x = h.child[m][RIGHT] \/ \E y \in O, d \in Dirs : h.child[y][d] = x
          BY <3>4, <4>3 DEF Rooted
        <5>2. QED
          BY <3>2, <5>1, Directions
      <4>4. QED
        BY <3>2, <4>1, <4>2, <4>3
    <3>7. QED
      BY <3>6 DEF Rooted
  <2>4. QED
    BY <2>2, <2>3
<1> HIDE DEF T
<1>2. \A j \in Nat : j \in T
  BY <1>1, StrongInduction
<1>3. QED
  BY <1>2, Zenon DEF T

\* The heap between two operations.
Whole(h) ==
  /\ h \in Heaps /\ IsTree(h, h.root)
  /\ \A n \in Nodes \ Below(h, h.root) : h.child[n] = NoChildren /\ h.state[n] = BALANCED

LEMMA WholeIs ==
  ASSUME NEW h, Whole(h)
  PROVE  /\ h \in Heaps /\ IsTree(h, h.root) /\ Below(h, h.root) \in SUBSET Nodes
         /\ Rooted(h, h.root, Below(h, h.root))
         /\ h.root \in NodesOrNull /\ (h.root # Null => h.root \in Below(h, h.root))
<1>1. Avl(h, h.root, Below(h, h.root), High(h, h.root)) /\ High(h, h.root) \in Nat
  BY TreeBelow DEF Whole
<1>2. QED
  BY <1>1, AllRooted, AvlType DEF Whole

\* TreeNodes are the nodes below the root.
LEMMA TreeNodesAre ==
  ASSUME NEW h, Whole(h)
  PROVE  TreeNodes(h) = Below(h, h.root)
<1> DEFINE B == Below(h, h.root)
<1>1. /\ h \in Heaps /\ B \in SUBSET Nodes /\ Rooted(h, h.root, B)
      /\ h.root \in NodesOrNull /\ (h.root # Null => h.root \in B)
  BY WholeIs
<1>2. Null \notin Nodes
  BY NodesAssumption
<1>3. ASSUME NEW x \in TreeNodes(h) PROVE x \in B
  <2>1. CASE x = h.root
    BY <1>1, <2>1 DEF TreeNodes
  <2>2. CASE x # h.root
    <3>1. PICK y \in Nodes, d \in Dirs : x = h.child[y][d] /\ x # Null
      BY <2>2 DEF TreeNodes
    <3>2. CASE y \notin B
      BY <3>1, <3>2 DEF Whole, NoChildren
    <3>3. CASE y \in B
      <4>1. IsTree(h, y) /\ Below(h, y) \subseteq B /\ y # Null
        BY <1>1, <1>2, <3>3 DEF Rooted
      <4>2. Halves(h, y, d)
        BY <4>1, TreeHalves
      <4>3. x \in Below(h, x)
        <5>1. IsTree(h, x)
          BY <3>1, <4>2 DEF Halves
        <5>2. Avl(h, x, Below(h, x), High(h, x)) /\ High(h, x) \in Nat
          BY <5>1, TreeBelow
        <5>3. QED
          BY <3>1, <5>2, AvlType
      <4>4. Below(h, x) \subseteq Below(h, y)
        BY <3>1, <4>2 DEF Halves, Splits
      <4>5. QED
        BY <4>1, <4>3, <4>4
    <3>4. QED
      BY <3>2, <3>3
  <2>3. QED
    BY <2>1, <2>2
<1>4. ASSUME NEW x \in B PROVE x \in TreeNodes(h)
  <2>1. x = h.root \/ \E y \in B, d \in Dirs : h.child[y][d] = x
    BY <1>1 DEF Rooted
  <2>2. x # Null /\ B \subseteq Nodes
    BY <1>1, <1>2
  <2> HIDE DEF B
  <2>3. QED
    BY <2>1, <2>2 DEF TreeNodes
<1>5. QED
  BY <1>3, <1>4

\* Every node is the root of a tree, one outside the tree of itself alone.
LEMMA NodesAreTrees ==
  ASSUME NEW h, Whole(h), NEW n \in NodesOrNull
  PROVE  /\ IsTree(h, n)
         /\ n # Null => /\ h.child[n][LEFT] \in NodesOrNull /\ h.child[n][RIGHT] \in NodesOrNull
                        /\ High(h, h.child[n][LEFT]) \in Nat /\ High(h, h.child[n][RIGHT]) \in Nat
                        /\ Weighs(h.state[n], LEFT, High(h, h.child[n][LEFT]), High(h, h.child[n][RIGHT]))
                        /\ High(h, n) = 1 + Higher(High(h, h.child[n][LEFT]), High(h, h.child[n][RIGHT]))
         /\ n = Null => High(h, n) = 0
<1> DEFINE B == Below(h, h.root)
<1>1. h \in Heaps /\ B \in SUBSET Nodes /\ Rooted(h, h.root, B)
  BY WholeIs
<1>2. Avl(h, Null, {}, 0)
  BY AvlEmpty
<1>3. 1 - LEFT = RIGHT /\ LEFT \in Dirs /\ RIGHT \in Dirs
  BY Directions
<1>4. IsTree(h, n)
  <2>1. CASE n = Null
    BY <1>2, <2>1, TreeIs
  <2>2. CASE n \in B
    BY <1>1, <2>2 DEF Rooted
  <2>3. CASE n # Null /\ n \notin B
    <3>1. n \in Nodes /\ n \in Nodes \ B
      BY <2>3 DEF NodesOrNull
    <3>2. h.child[n] = NoChildren /\ h.state[n] = BALANCED
      BY <3>1 DEF Whole
    <3>3. h.child[n][LEFT] = Null /\ h.child[n][RIGHT] = Null
      BY <1>3, <3>2 DEF NoChildren
    <3>4. Weighs(h.state[n], LEFT, 0, 0) /\ 1 = 1 + Higher(0, 0)
      BY <3>2 DEF Weighs, Higher
    <3>5. Splits(h, n, {n}, 1, LEFT, {}, {}, 0, 0)
      BY <1>2, <1>3, <3>3, <3>4 DEF Splits
    <3>6. Avl(h, n, {n}, 1)
      BY <1>3, <3>1, <3>5, AvlFold
    <3>7. QED
      BY <3>6, TreeIs
  <2>4. QED
    BY <2>1, <2>2, <2>3
<1>5. ASSUME n # Null
      PROVE  /\ h.child[n][LEFT] \in NodesOrNull /\ h.child[n][RIGHT] \in NodesOrNull
             /\ High(h, h.child[n][LEFT]) \in Nat /\ High(h, h.child[n][RIGHT]) \in Nat
             /\ Weighs(h.state[n], LEFT, High(h, h.child[n][LEFT]), High(h, h.child[n][RIGHT]))
             /\ High(h, n) = 1 + Higher(High(h, h.child[n][LEFT]), High(h, h.child[n][RIGHT]))
  <2>1. Halves(h, n, LEFT)
    BY <1>3, <1>4, <1>5, TreeHalves
  <2>2. IsTree(h, h.child[n][LEFT]) /\ IsTree(h, h.child[n][RIGHT])
    BY <1>3, <2>1 DEF Halves
  <2>3. High(h, h.child[n][LEFT]) \in Nat /\ High(h, h.child[n][RIGHT]) \in Nat
    BY <2>2, TreeBelow
  <2>4. n \in Nodes
    BY <1>5 DEF NodesOrNull
  <2>5. h.child[n][LEFT] \in NodesOrNull /\ h.child[n][RIGHT] \in NodesOrNull
    BY <1>1, <1>3, <2>4, HeapType
  <2>6. /\ Weighs(h.state[n], LEFT, High(h, h.child[n][LEFT]), High(h, h.child[n][RIGHT]))
        /\ High(h, n) = 1 + Higher(High(h, h.child[n][LEFT]), High(h, h.child[n][RIGHT]))
    BY <1>3, <2>1 DEF Halves, Splits
  <2>7. QED
    BY <2>3, <2>5, <2>6
<1>6. n = Null => High(h, n) = 0
  BY <1>2, TreeIs
<1>7. QED
  BY <1>4, <1>5, <1>6
-----------------------------------------------------------------------------
(* What each operation makes of the tree. *)

\* The heap is well formed, and S are the nodes of the tree.
Holds(g, S) == Whole(g) /\ Below(g, g.root) = S

LEMMA HoldsIf ==
  ASSUME NEW g \in Heaps, NEW S, NEW k \in Nat, Avl(g, g.root, S, k),
         \A x \in Nodes \ S : g.child[x] = NoChildren /\ g.state[x] = BALANCED
  PROVE  Holds(g, S)
BY TreeIs DEF Holds, Whole

LEMMA SameNode ==
  ASSUME NEW g \in Heaps, NEW h \in Heaps, NEW Z, Same(g, h, Z), NEW x \in Z, x \in Nodes
  PROVE  g.child[x] = h.child[x] /\ g.state[x] = h.state[x]
<1>1. g.state[x] = h.state[x] /\ \A e \in Dirs : g.child[x][e] = h.child[x][e]
  BY DEF Same
<1>2. g.child[x] \in [Dirs -> NodesOrNull] /\ h.child[x] \in [Dirs -> NodesOrNull]
  BY NodeType
<1>3. QED
  BY <1>1, <1>2

\* The slots Insert, Remove and Replace walk along.
WayTo(h, key) == Descent(h, <<RootSlot>>, key)

LEMMA WayFound ==
  ASSUME NEW h, Whole(h), NEW key \in Int, NEW slots, slots = WayTo(h, key)
  PROVE  /\ Sound(h, slots, key) /\ Chain(h, slots, key) /\ At(h, Last(slots)) = Null
         /\ Len(slots) - 1 \in Nat /\ Len(slots) - 1 <= High(h, h.root) /\ slots \in Seq(Slots)
         /\ Last(slots) = slots[Len(slots)]
         /\ \/ /\ FoundAt(h, slots, key) = 0
               /\ \A i \in 1..(Len(slots) - 1) : Key(At(h, slots[i])) # key
               /\ \A x \in Below(h, h.root) : Key(x) # key
            \/ /\ FoundAt(h, slots, key) \in 1..(Len(slots) - 1)
               /\ FoundAt(h, slots, key) # 0
               /\ Key(At(h, slots[FoundAt(h, slots, key)])) = key
               /\ At(h, slots[FoundAt(h, slots, key)]) \in Below(h, h.root)
<1>1. h \in Heaps /\ IsTree(h, h.root)
  BY WholeIs
<1>2. Sound(h, slots, key)
  BY <1>1, DescentSound DEF WayTo
<1>3. Chain(h, slots, key) /\ At(h, Last(slots)) = Null /\ Len(slots) - 1 <= High(h, h.root)
  BY <1>2 DEF Sound
<1>4. Len(slots) \in Nat /\ Len(slots) - 1 \in Nat /\ slots \in Seq(Slots) /\ Last(slots) = slots[Len(slots)]
  BY <1>3 DEF Chain, Last
<1>5. CASE FoundAt(h, slots, key) = 0
  <2>1. \A i \in 1..(Len(slots) - 1) : Key(At(h, slots[i])) # key
    BY <1>4, <1>5, FoundIs
  <2>2. \A x \in Below(h, h.root) : Key(x) # key
    BY <1>1, <1>2, <2>1, KeyMissing
  <2>3. QED
    BY <1>2, <1>3, <1>4, <1>5, <2>1, <2>2
<1>6. CASE FoundAt(h, slots, key) # 0
  <2> DEFINE t == FoundAt(h, slots, key)
  <2>1. t \in 1..(Len(slots) - 1) /\ Key(At(h, slots[t])) = key
    BY <1>4, <1>6, FoundIs
  <2> HIDE DEF t
  <2>2. Removable(h, slots, key, t)
    BY <1>1, <1>2, <2>1 DEF Removable
  <2>3. TargetPath(h, slots, key, t, Len(slots) - 1, DirsTo(h, slots, key), Unders(h, slots),
                   Highs(h, slots), Below(h, h.root), At(h, slots[t]))
    BY <1>1, <2>2, TargetPathIs
  <2>4. At(h, slots[t]) \in Below(h, h.root)
    BY <2>3, Zenon DEF TargetPath
  <2>5. QED
    BY <1>2, <1>3, <1>4, <1>6, <2>1, <2>4 DEF t
<1>7. QED
  BY <1>5, <1>6

\* What Insert(1) and Insert(2) make of the heap when the key is not there.
Inserted(h, slots, n) ==
  WayUp(Put(h, slots[Len(slots)], n), slots, DirsTo(h, slots, Key(n)), Len(slots) - 1, TRUE)

LEMMA InsertedHolds ==
  ASSUME NEW h, Whole(h), NEW n \in Nodes, NEW slots, slots = WayTo(h, Key(n)),
         FoundAt(h, slots, Key(n)) = 0
  PROVE  Holds(Inserted(h, slots, n), Below(h, h.root) \cup {n})
<1> DEFINE B   == Below(h, h.root)
           S   == B \cup {n}
           top == Len(slots) - 1
           dirs == DirsTo(h, slots, Key(n))
           g   == WayUp(Put(h, slots[top + 1], n), slots, dirs, top, TRUE)
<1>1. h \in Heaps /\ IsTree(h, h.root) /\ Key(n) \in Int
  BY WholeIs, KeyType
<1>2. /\ Sound(h, slots, Key(n)) /\ Len(slots) - 1 \in Nat /\ slots \in Seq(Slots)
      /\ \A i \in 1..(Len(slots) - 1) : Key(At(h, slots[i])) # Key(n)
      /\ \A x \in B : Key(x) # Key(n)
  BY <1>1, WayFound
<1>3. n \notin B /\ n \in Nodes \ B
  BY <1>2
<1>4. h.child[n] = NoChildren /\ h.state[n] = BALANCED
  BY <1>3 DEF Whole
<1>5. top + 1 = Len(slots) /\ top = Len(slots) - 1
  BY <1>2
<1>6. Became(g, h, S, S)
  <2>1. \A i \in 1..top : Key(At(h, slots[i])) # Key(n)
    BY <1>2
  <2>2. n \notin Below(h, h.root)
    BY <1>3
  <2>3. dirs = DirsTo(h, slots, Key(n))
    OBVIOUS
  <2> HIDE DEF top, dirs
  <2>4. QED
    BY <1>1, <1>2, <1>4, <1>5, <2>1, <2>2, <2>3, InsertWorks
<1>7. Inserted(h, slots, n) = g
  BY <1>5 DEF Inserted
<1> HIDE DEF g
<1>8. PICK k \in Nat : Avl(g, g.root, S, k)
  BY <1>6 DEF Became
<1>9. g \in Heaps /\ Same(g, h, Nodes \ S)
  BY <1>6 DEF Became
<1>10. ASSUME NEW x \in Nodes \ S PROVE g.child[x] = NoChildren /\ g.state[x] = BALANCED
  <2>1. x \in Nodes \ B
    OBVIOUS
  <2>2. h.child[x] = NoChildren /\ h.state[x] = BALANCED
    BY <2>1 DEF Whole
  <2> HIDE DEF S
  <2>3. QED
    BY <1>1, <1>9, <2>2, SameNode
<1> HIDE DEF S
<1>11. Holds(g, S)
  BY <1>8, <1>9, <1>10, HoldsIf
<1>12. QED
  BY <1>7, <1>11 DEF S, B

LEMMA RecycledHolds ==
  ASSUME ~MayReuse, NEW g \in Heaps, NEW h, Whole(h), NEW target \in Below(h, h.root),
         target \in Nodes, Removed(g, h, Below(h, h.root), target)
  PROVE  Holds(Recycled(g, target), Below(h, h.root) \ {target})
<1> DEFINE B == Below(h, h.root)
           S == B \ {target}
           f == [g EXCEPT !.state[target] = BALANCED]
<1>1. Recycled(g, target) = f
  BY NodesAssumption DEF Recycled
<1>2. /\ f \in Heaps /\ f.root = g.root /\ f.child = g.child
      /\ f.state[target] = BALANCED /\ \A x \in Nodes \ {target} : f.state[x] = g.state[x]
  BY DEF Heaps
<1>3. h \in Heaps /\ B \in SUBSET Nodes
  BY WholeIs
<1>4. /\ Same(g, h, Nodes \ B) /\ g.child[target] = NoChildren
  BY DEF Removed, Became
<1>5. PICK k \in Nat : Avl(g, g.root, S, k)
  BY DEF Removed, Became
<1> HIDE DEF f
<1>6. Avl(f, f.root, S, k)
  <2>1. \A x \in S : f.child[x] = g.child[x] /\ f.state[x] = g.state[x]
    BY <1>2, <1>3
  <2> HIDE DEF S
  <2>2. Avl(f, g.root, S, k)
    BY <1>5, <2>1, Frame
  <2>3. QED
    BY <1>2, <2>2
<1>7. ASSUME NEW x \in Nodes \ S PROVE f.child[x] = NoChildren /\ f.state[x] = BALANCED
  <2>1. CASE x = target
    BY <1>2, <1>4, <2>1
  <2>2. CASE x # target
    <3>1. x \in Nodes \ B
      BY <2>2
    <3>2. h.child[x] = NoChildren /\ h.state[x] = BALANCED
      BY <3>1 DEF Whole
    <3>3. g.child[x] = h.child[x] /\ g.state[x] = h.state[x]
      BY <1>3, <1>4, <3>1, SameNode
    <3>4. QED
      BY <1>2, <2>2, <3>2, <3>3
  <2>3. QED
    BY <2>1, <2>2
<1> HIDE DEF S
<1>8. Holds(f, S)
  BY <1>2, <1>5, <1>6, <1>7, HoldsIf
<1>9. QED
  BY <1>1, <1>8 DEF S, B

\* What Remove(1) and Remove(2) make of the heap when the key is there.
TakenOut(h, slots, key, t) ==
  Recycled(Unlink(h, slots, DirsTo(h, slots, key), t), At(h, slots[t]))

LEMMA TakenOutHolds ==
  ASSUME ~MayReuse, NEW h, Whole(h), NEW key \in Int, NEW slots, slots = WayTo(h, key),
         NEW t, t = FoundAt(h, slots, key), t # 0
  PROVE  Holds(TakenOut(h, slots, key, t), Below(h, h.root) \ {At(h, slots[t])})
<1> DEFINE g == Unlink(h, slots, DirsTo(h, slots, key), t)
           target == At(h, slots[t])
<1>1. h \in Heaps /\ IsTree(h, h.root) /\ Below(h, h.root) \in SUBSET Nodes
  BY WholeIs
<1>2. /\ Sound(h, slots, key) /\ t \in 1..(Len(slots) - 1)
      /\ Key(target) = key /\ target \in Below(h, h.root)
  BY WayFound
<1>3. Removable(h, slots, key, t)
  BY <1>1, <1>2 DEF Removable
<1>4. Removed(g, h, Below(h, h.root), target)
  BY <1>1, <1>3, RemoveWorks
<1>5. target \in Nodes
  BY <1>1, <1>2
<1> HIDE DEF g, target
<1>6. g \in Heaps
  BY <1>4 DEF Removed, Became
<1>7. Holds(Recycled(g, target), Below(h, h.root) \ {target})
  BY <1>2, <1>4, <1>5, <1>6, RecycledHolds
<1>8. QED
  BY <1>7 DEF TakenOut, g, target

LEMMA ExchangedHolds ==
  ASSUME NEW h, Whole(h), NEW n \in Nodes, NEW slots, slots = WayTo(h, Key(n)),
         NEW t, t = FoundAt(h, slots, Key(n)), t # 0, NEW old, old = At(h, slots[t]), old # n
  PROVE  Holds(Exchange(h, slots[t], n), (Below(h, h.root) \ {old}) \cup {n})
<1> DEFINE B == Below(h, h.root)
           S == (B \ {old}) \cup {n}
           g == Exchange(h, slots[t], n)
<1>1. h \in Heaps /\ IsTree(h, h.root) /\ B \in SUBSET Nodes /\ Key(n) \in Int
  BY WholeIs, KeyType
<1>2. /\ Chain(h, slots, Key(n)) /\ t \in 1..(Len(slots) - 1) /\ Key(old) = Key(n) /\ old \in B
  BY <1>1, WayFound
<1>3. n \notin B
  <2>1. Avl(h, h.root, B, High(h, h.root)) /\ High(h, h.root) \in Nat
    BY <1>1, TreeBelow
  <2>2. \A x, y \in B : Key(x) = Key(y) => x = y
    BY <2>1, KeysDiffer
  <2>3. QED
    BY <1>2, <2>2
<1>4. Became(g, h, S, B \cup {n}) /\ g.child[old] = NoChildren /\ g.state[old] = BALANCED
  <2>1. n \notin Below(h, h.root) /\ IsTree(h, h.root) /\ h \in Heaps /\ Chain(h, slots, Key(n))
        /\ t \in 1..(Len(slots) - 1) /\ Key(old) = Key(n)
    BY <1>1, <1>2, <1>3
  <2>2. Traded(Exchange(h, slots[t], n), h, Below(h, h.root), old, n)
    BY <2>1, ReplaceWorks
  <2>3. QED
    BY <2>2, Zenon DEF Traded
<1> HIDE DEF g
<1>5. PICK k \in Nat : Avl(g, g.root, S, k)
  BY <1>4 DEF Became
<1>6. g \in Heaps /\ Same(g, h, Nodes \ (B \cup {n}))
  BY <1>4 DEF Became
<1>7. ASSUME NEW x \in Nodes \ S PROVE g.child[x] = NoChildren /\ g.state[x] = BALANCED
  <2>1. CASE x = old
    BY <1>4, <2>1
  <2>2. CASE x # old
    <3>1. x \in Nodes \ B /\ x \in Nodes \ (B \cup {n})
      BY <2>2
    <3>2. h.child[x] = NoChildren /\ h.state[x] = BALANCED
      BY <3>1 DEF Whole
    <3>3. g.child[x] = h.child[x] /\ g.state[x] = h.state[x]
      BY <1>1, <1>6, <3>1, SameNode
    <3>4. QED
      BY <3>2, <3>3
  <2>3. QED
    BY <2>1, <2>2
<1> HIDE DEF S
<1>8. Holds(g, S)
  BY <1>5, <1>6, <1>7, HoldsIf
<1>9. QED
  BY <1>8 DEF g, S, B
-----------------------------------------------------------------------------
(* The path of Probe. *)

LEMMA HeightBound ==
  ASSUME Fits, NEW h, Whole(h)
  PROVE  High(h, h.root) \in Nat /\ High(h, h.root) < TREE_MAX_HEIGHT
         /\ TREE_MAX_HEIGHT \in Nat /\ TREE_MAX_HEIGHT # 0
<1>1. Avl(h, h.root, Below(h, h.root), High(h, h.root)) /\ High(h, h.root) \in Nat
  BY WholeIs, TreeBelow
<1>2. QED
  BY <1>1, HeightFits, HeightAssumption

\* The way down fits into the stacks.
LEMMA WayFits ==
  ASSUME Fits, NEW h, Whole(h), NEW key \in Int, NEW slots, slots = WayTo(h, key)
  PROVE  /\ Len(slots) - 1 \in Nat /\ Len(slots) - 1 < TREE_MAX_HEIGHT
         /\ ~(Len(slots) - 1 > TREE_MAX_HEIGHT) /\ ~(Len(slots) - 1 >= TREE_MAX_HEIGHT)
         /\ FoundAt(h, slots, key) # TREE_MAX_HEIGHT
<1>1. Len(slots) - 1 \in Nat /\ Len(slots) - 1 <= High(h, h.root)
      /\ (FoundAt(h, slots, key) = 0 \/ FoundAt(h, slots, key) \in 1..(Len(slots) - 1))
  BY WayFound
<1>2. High(h, h.root) \in Nat /\ High(h, h.root) < TREE_MAX_HEIGHT
      /\ TREE_MAX_HEIGHT \in Nat /\ TREE_MAX_HEIGHT # 0
  BY HeightBound
<1> DEFINE d == Len(slots) - 1
           t == FoundAt(h, slots, key)
<1> HIDE DEF d, t
<1>3. d \in Nat /\ d <= High(h, h.root) /\ (t = 0 \/ t \in 1..d)
  BY <1>1 DEF d, t
<1>4. d < TREE_MAX_HEIGHT /\ ~(d > TREE_MAX_HEIGHT) /\ ~(d >= TREE_MAX_HEIGHT) /\ t # TREE_MAX_HEIGHT
  BY ONLY <1>2, <1>3, SMT
<1>5. QED
  BY <1>3, <1>4 DEF d, t

\* p is the path to the node of key k, or to the empty slot where it would be.
LeadsTo(p, slots, dirs, t, k) ==
  /\ p.key = k /\ Len(p.stack) \in Nat \ {0} /\ p.stack \in Seq(Slots)
  /\ p.stack[Len(p.stack)] = slots[Len(p.stack)]
  /\ \/ t = 0 /\ p.result = "NOT_FOUND" /\ p.stack = slots /\ p.dirs = dirs
     \/ /\ t # 0 /\ p.result = "FOUND" /\ Len(p.stack) = t
        /\ p.stack = SubSeq(slots, 1, t) /\ p.dirs = SubSeq(dirs, 1, t)
        /\ DOMAIN p.dirs = 1..t /\ \A i \in 1..t : p.dirs[i] = dirs[i]

LEMMA ProbedLeads ==
  ASSUME Fits, NEW h, Whole(h), NEW k \in Int, NEW slots, slots = WayTo(h, k),
         NEW t, t = FoundAt(h, slots, k), NEW dirs, dirs = DirsTo(h, slots, k),
         NEW p, p = Probed(h, k)
  PROVE  LeadsTo(p, slots, dirs, t, k)
<1> DEFINE depth == Len(slots) - 1
           full == (t = 0 \/ t > TREE_MAX_HEIGHT) /\ depth >= TREE_MAX_HEIGHT
           top  == IF t # 0 THEN t ELSE depth + 1
           last == IF top > depth THEN depth ELSE top
<1>1. depth \in Nat /\ slots \in Seq(Slots) /\ (t = 0 \/ t \in 1..depth) /\ Len(slots) = depth + 1
  <2>1. depth \in Nat /\ slots \in Seq(Slots) /\ (t = 0 \/ t \in 1..depth)
    BY WayFound
  <2>2. QED
    BY <2>1
<1>2. ~full
  BY WayFits
<1>3. p = [result |-> IF t # 0 THEN "FOUND" ELSE "NOT_FOUND", key |-> k,
           stack |-> SubSeq(slots, 1, top), dirs |-> SubSeq(dirs, 1, last)]
  BY <1>2 DEF Probed, WayTo
<1>4. dirs \in Seq(Dirs) /\ Len(dirs) = depth
  <2>1. dirs = [i \in 1..depth |-> DirTo(At(h, slots[i]), k)]
    BY DEF DirsTo
  <2> HIDE DEF depth
  <2>2. QED
    BY <1>1, <2>1, DirType
<1>5. CASE t = 0
  <2>1. SubSeq(slots, 1, depth + 1) = slots
    BY <1>1
  <2>2. SubSeq(dirs, 1, depth) = dirs
    <3> HIDE DEF depth
    <3>1. QED
      BY <1>1, <1>4
  <2>3. top = depth + 1
    BY <1>5
  <2> HIDE DEF top, depth
  <2>4. last = depth
    BY <1>1, <2>3
  <2> HIDE DEF last
  <2>5. SubSeq(slots, 1, top) = slots /\ SubSeq(dirs, 1, last) = dirs
    BY <2>1, <2>2, <2>3, <2>4
  <2>6. p.stack = slots /\ p.dirs = dirs /\ p.result = "NOT_FOUND" /\ p.key = k
    BY <1>3, <1>5, <2>5
  <2>7. Len(slots) \in Nat \ {0}
    BY ONLY <1>1, SMT
  <2>8. QED
    BY <1>1, <1>5, <2>6, <2>7 DEF LeadsTo
<1>6. CASE t # 0
  <2>1. t \in 1..depth /\ top = t /\ last = t
    BY <1>1, <1>6
  <2>2. /\ p.stack = SubSeq(slots, 1, t) /\ p.dirs = SubSeq(dirs, 1, t)
        /\ p.result = "FOUND" /\ p.key = k
    BY <1>3, <1>6, <2>1
  <2> HIDE DEF depth
  <2>3. /\ SubSeq(slots, 1, t) \in Seq(Slots) /\ Len(SubSeq(slots, 1, t)) = t
        /\ SubSeq(slots, 1, t)[t] = slots[t]
    BY <1>1, <2>1
  <2>4. DOMAIN SubSeq(dirs, 1, t) = 1..t /\ \A i \in 1..t : SubSeq(dirs, 1, t)[i] = dirs[i]
    BY <1>1, <1>4, <2>1
  <2>5. QED
    BY <1>6, <2>1, <2>2, <2>3, <2>4 DEF LeadsTo
<1>7. QED
  BY <1>5, <1>6

\* Remove(2) goes on from the node on top of the path and so goes the whole way.
Resumes(h, p, t, node, slots, dirs) ==
  LET r == Descent(h, Append(p.stack, <<node, p.dirs[t]>>), Key(node))
  IN  /\ r = slots
      /\ [i \in 1..(Len(r) - 1) |-> IF i <= t THEN p.dirs[i]
                                    ELSE DirTo(At(h, r[i]), Key(node))] = dirs

LEMMA GoesOn ==
  ASSUME Fits, NEW h, Whole(h), NEW k \in Int, NEW slots, slots = WayTo(h, k),
         NEW t, t = FoundAt(h, slots, k), t # 0, NEW dirs, dirs = DirsTo(h, slots, k),
         NEW p, LeadsTo(p, slots, dirs, t, k), NEW node, node = At(h, slots[t])
  PROVE  Resumes(h, p, t, node, slots, dirs)
<1> DEFINE s == Append(p.stack, <<node, p.dirs[t]>>)
           r == Descent(h, s, Key(node))
           depth == Len(slots) - 1
<1>1. /\ Chain(h, slots, k) /\ slots \in Seq(Slots) /\ depth \in Nat
      /\ t \in 1..depth /\ Key(node) = k
  BY WayFound
<1>2. Len(slots) = depth + 1
  BY <1>1
<1>3. /\ p.stack = SubSeq(slots, 1, t) /\ \A i \in 1..t : p.dirs[i] = dirs[i]
  BY DEF LeadsTo
<1>4. dirs = [i \in 1..depth |-> DirTo(At(h, slots[i]), k)]
  BY DEF DirsTo
<1>5. slots[t + 1] = <<node, p.dirs[t]>>
  <2>1. slots[t + 1] = <<At(h, slots[t]), DirTo(At(h, slots[t]), k)>>
    BY <1>1 DEF Chain
  <2>2. t \in 1..t /\ p.dirs[t] = dirs[t]
    BY <1>1, <1>3
  <2>3. dirs[t] = DirTo(At(h, slots[t]), k)
    <3> HIDE DEF depth
    <3>1. QED
      BY <1>1, <1>4
  <2>4. QED
    BY <2>1, <2>2, <2>3
<1> HIDE DEF depth
<1>6. s = SubSeq(slots, 1, t + 1)
  <2>1. Append(SubSeq(slots, 1, t), slots[t + 1]) = SubSeq(slots, 1, t + 1)
    BY <1>1, <1>2
  <2>2. QED
    BY <1>3, <1>5, <2>1
<1>7. Chain(h, s, k)
  <2>1. /\ s \in Seq(Slots) /\ Len(s) = t + 1 /\ s # <<>> /\ \A i \in 1..(t + 1) : s[i] = slots[i]
    <3> HIDE DEF s
    <3>1. QED
      BY <1>1, <1>2, <1>6
  <2>2. slots[1] = RootSlot /\ \A i \in 1..depth :
          /\ At(h, slots[i]) \in Nodes
          /\ slots[i + 1] = <<At(h, slots[i]), DirTo(At(h, slots[i]), k)>>
    BY <1>1 DEF Chain, depth
  <2>3. 1 \in 1..(t + 1) /\ \A i \in 1..((t + 1) - 1) : i \in 1..(t + 1) /\ i + 1 \in 1..(t + 1) /\ i \in 1..depth
    BY ONLY <1>1, SMT
  <2> HIDE DEF s
  <2>4. QED
    BY <2>1, <2>2, <2>3 DEF Chain
<1>8. r = slots
  <2>1. Descent(h, s, k) = Descent(h, <<RootSlot>>, k)
    BY <1>7, WholeIs, DescentGoesOn
  <2>2. QED
    BY <1>1, <2>1 DEF WayTo
<1> HIDE DEF r
<1>9. [i \in 1..(Len(r) - 1) |-> IF i <= t THEN p.dirs[i] ELSE DirTo(At(h, r[i]), Key(node))] = dirs
  <2>1. Len(r) - 1 = depth
    BY <1>1, <1>2, <1>8
  <2>2. \A i \in 1..depth : i <= t => i \in 1..t
    BY <1>1
  <2>3. \A i \in 1..depth : (IF i <= t THEN p.dirs[i] ELSE DirTo(At(h, r[i]), Key(node)))
                            = DirTo(At(h, slots[i]), k)
    BY <1>1, <1>3, <1>4, <1>8, <2>2
  <2>4. QED
    BY <1>4, <2>1, <2>3
<1>10. QED
  BY <1>8, <1>9 DEF r, Resumes
-----------------------------------------------------------------------------
(* The inductive invariant. *)

PathInv == path.result # "none" => path.key \in Keys /\ path = Probed(heap, path.key)
OutInv  == out = Nothing \/ out.node \in NodesOrNull

IInv == Whole(heap) /\ PathInv /\ OutInv /\ oob = FALSE

\* What an operation does to the nodes of the tree, as a map of their keys: B
\* becomes S and r is given back.
Adds(B, S, n) == S = IF \E m \in B : Key(m) = Key(n) THEN B ELSE B \cup {n}

Takes(B, S, k, r) ==
  \/ r \in B /\ Key(r) = k /\ S = B \ {r}
  \/ r = Null /\ (\A m \in B : Key(m) # k) /\ S = B

Swaps(B, S, n, r) ==
  \/ r \in B /\ Key(r) = Key(n) /\ S = (B \ {r}) \cup {n}
  \/ r = n /\ (\A m \in B : Key(m) # Key(n)) /\ S = B

\* Nothing has changed.
LEMMA HoldsStill ==
  ASSUME NEW h, Whole(h)
  PROVE  Holds(h, Below(h, h.root))
BY DEF Holds

InsertEffect(h, g, n) == \E S : Holds(g, S) /\ Adds(Below(h, h.root), S, n)
RemoveEffect(h, g, k, r) ==
  r \in NodesOrNull /\ \E S : Holds(g, S) /\ Takes(Below(h, h.root), S, k, r)
ReplaceEffect(h, g, n, r) ==
  r \in NodesOrNull /\ \E S : Holds(g, S) /\ Swaps(Below(h, h.root), S, n, r)

LEMMA InsertHas ==
  ASSUME NEW h, Whole(h), NEW n \in Nodes, NEW slots, slots = WayTo(h, Key(n)),
         NEW g, g = IF FoundAt(h, slots, Key(n)) # 0 THEN h ELSE Inserted(h, slots, n)
  PROVE  InsertEffect(h, g, n)
<1> DEFINE B == Below(h, h.root)
           t == FoundAt(h, slots, Key(n))
<1>1. Key(n) \in Int
  BY KeyType
<1>2. CASE t # 0
  <2>1. Key(At(h, slots[t])) = Key(n) /\ At(h, slots[t]) \in B
    BY <1>1, <1>2, WayFound
  <2>2. Holds(g, B)
    BY <1>2, HoldsStill
  <2>3. Adds(B, B, n)
    BY <2>1 DEF Adds
  <2>4. QED
    BY <2>2, <2>3 DEF InsertEffect
<1>3. CASE t = 0
  <2>1. \A x \in B : Key(x) # Key(n)
    BY <1>1, <1>3, WayFound
  <2>2. Holds(g, B \cup {n})
    BY <1>3, InsertedHolds
  <2>3. Adds(B, B \cup {n}, n)
    BY <2>1 DEF Adds
  <2>4. QED
    BY <2>2, <2>3 DEF InsertEffect
<1>4. QED
  BY <1>2, <1>3

LEMMA RemoveHas ==
  ASSUME ~MayReuse, NEW h, Whole(h), NEW k \in Int, NEW slots, slots = WayTo(h, k),
         NEW t, t = FoundAt(h, slots, k),
         NEW r, r = IF t = 0 THEN Null ELSE At(h, slots[t]),
         NEW g, g = IF t = 0 THEN h ELSE TakenOut(h, slots, k, t)
  PROVE  RemoveEffect(h, g, k, r)
<1> DEFINE B == Below(h, h.root)
<1>1. B \in SUBSET Nodes
  BY WholeIs
<1>2. CASE t # 0
  <2>1. Key(r) = k /\ r \in B
    BY <1>2, WayFound
  <2>2. Holds(g, B \ {r})
    BY <1>2, TakenOutHolds
  <2>3. Takes(B, B \ {r}, k, r)
    BY <2>1 DEF Takes
  <2>4. QED
    BY <1>1, <2>1, <2>2, <2>3 DEF RemoveEffect, NodesOrNull
<1>3. CASE t = 0
  <2>1. \A x \in B : Key(x) # k
    BY <1>3, WayFound
  <2>2. Holds(g, B)
    BY <1>3, HoldsStill
  <2>3. Takes(B, B, k, r)
    BY <1>3, <2>1 DEF Takes
  <2>4. QED
    BY <1>3, <2>2, <2>3 DEF RemoveEffect, NodesOrNull
<1>4. QED
  BY <1>2, <1>3

LEMMA ReplaceHas ==
  ASSUME NEW h, Whole(h), NEW n \in Nodes, NEW slots, slots = WayTo(h, Key(n)),
         NEW t, t = FoundAt(h, slots, Key(n)),
         NEW r, r = IF t = 0 THEN n ELSE At(h, slots[t]),
         NEW g, g = IF t = 0 \/ r = n THEN h ELSE Exchange(h, slots[t], n)
  PROVE  ReplaceEffect(h, g, n, r)
<1> DEFINE B == Below(h, h.root)
<1>1. B \in SUBSET Nodes /\ Key(n) \in Int
  BY WholeIs, KeyType
<1>2. CASE t # 0
  <2>1. Key(r) = Key(n) /\ r \in B
    BY <1>1, <1>2, WayFound
  <2>2. Holds(g, (B \ {r}) \cup {n})
    <3>1. CASE r = n
      <4>1. (B \ {r}) \cup {n} = B
        BY <2>1, <3>1
      <4>2. g = h
        BY <3>1
      <4>3. QED
        BY <4>1, <4>2, HoldsStill
    <3>2. CASE r # n
      BY <1>2, <3>2, ExchangedHolds
    <3>3. QED
      BY <3>1, <3>2
  <2>3. Swaps(B, (B \ {r}) \cup {n}, n, r)
    BY <2>1 DEF Swaps
  <2>4. QED
    BY <1>1, <2>1, <2>2, <2>3 DEF ReplaceEffect, NodesOrNull
<1>3. CASE t = 0
  <2>1. \A x \in B : Key(x) # Key(n)
    BY <1>1, <1>3, WayFound
  <2>2. Holds(g, B)
    BY <1>3, HoldsStill
  <2>3. Swaps(B, B, n, r)
    BY <1>3, <2>1 DEF Swaps
  <2>4. QED
    BY <1>3, <2>2, <2>3 DEF ReplaceEffect, NodesOrNull
<1>4. QED
  BY <1>2, <1>3
-----------------------------------------------------------------------------
(* The actions. *)

UsedUp == path' = NoPath /\ oob' = FALSE

DoesInsert(n)  == UsedUp /\ InsertEffect(heap, heap', n) /\ out' = Returned("Insert", n, Null)
DoesRemove(k)  == UsedUp /\ \E r : RemoveEffect(heap, heap', k, r) /\ out' = Returned("Remove", k, r)
DoesReplace(n) == UsedUp /\ \E r : ReplaceEffect(heap, heap', n, r) /\ out' = Returned("Replace", n, r)
DoesProbe(k)   == /\ path' = Probed(heap, k) /\ heap' = heap /\ oob' = FALSE
                  /\ out' = Returned("Probe", k, Null)

Does ==
  \/ \E n \in Nodes : DoesInsert(n) \/ DoesReplace(n)
  \/ \E k \in Keys : DoesRemove(k) \/ DoesProbe(k)

LEMMA KeysAreInt == \A k \in Keys : k \in Int
BY KeyType DEF Keys

LEMMA Insert1Does ==
  ASSUME Fits, IInv, NEW n \in Nodes, Insert1(n)
  PROVE  DoesInsert(n)
<1> DEFINE slots == WayTo(heap, Key(n))
           depth == Len(slots) - 1
<1>1. Whole(heap) /\ Key(n) \in Int /\ oob = FALSE
  BY KeyType DEF IInv
<1>2. depth \in Nat /\ ~(depth > TREE_MAX_HEIGHT) /\ depth + 1 = Len(slots)
  <2>1. depth \in Nat /\ ~(depth > TREE_MAX_HEIGHT) /\ slots \in Seq(Slots)
    BY <1>1, WayFits, WayFound
  <2>2. QED
    BY <2>1
<1>3. heap' = IF FoundAt(heap, slots, Key(n)) # 0 THEN heap ELSE Inserted(heap, slots, n)
  <2>1. heap' = IF FoundAt(heap, slots, Key(n)) # 0 \/ depth > TREE_MAX_HEIGHT
                THEN heap
                ELSE WayUp(Put(heap, slots[depth + 1], n), slots,
                           DirsTo(heap, slots, Key(n)), depth, TRUE)
    BY Zenon DEF Insert1, WayTo
  <2>2. Inserted(heap, slots, n) = WayUp(Put(heap, slots[depth + 1], n), slots,
                                         DirsTo(heap, slots, Key(n)), depth, TRUE)
    BY <1>2 DEF Inserted
  <2> HIDE DEF slots, depth
  <2>3. QED
    BY <1>2, <2>1, <2>2
<1> HIDE DEF depth
<1>4. InsertEffect(heap, heap', n)
  BY <1>1, <1>3, InsertHas
<1>5. QED
  BY <1>1, <1>4 DEF Insert1, DoesInsert, UsedUp

LEMMA Remove1Does ==
  ASSUME ~MayReuse, Fits, IInv, NEW k \in Keys, Remove1(k)
  PROVE  DoesRemove(k)
<1> DEFINE slots == WayTo(heap, k)
           t == FoundAt(heap, slots, k)
           r == IF t = 0 THEN Null ELSE At(heap, slots[t])
<1>1. Whole(heap) /\ k \in Int /\ oob = FALSE
  BY KeysAreInt DEF IInv
<1>2. ~(Len(slots) - 1 > TREE_MAX_HEIGHT) /\ t # TREE_MAX_HEIGHT
  BY <1>1, WayFits
<1>3. path' = NoPath /\ oob' = FALSE
  <2>1. path' = NoPath
    BY DEF Remove1
  <2>2. CASE t = 0
    <3>1. oob' = (Len(slots) - 1 > TREE_MAX_HEIGHT)
      BY <2>2, Zenon DEF Remove1, WayTo
    <3>2. (Len(slots) - 1 > TREE_MAX_HEIGHT) = FALSE
      BY <1>2
    <3> HIDE DEF slots, t
    <3>3. oob' = FALSE
      BY <3>1, <3>2, Zenon
    <3>4. QED
      BY <2>1, <3>3
  <2>3. CASE t # 0
    <3>1. oob' = (Len(slots) - 1 > TREE_MAX_HEIGHT \/ t = TREE_MAX_HEIGHT)
      BY <2>3, Zenon DEF Remove1, WayTo
    <3> HIDE DEF slots, t
    <3>2. QED
      BY <1>2, <2>1, <3>1
  <2>4. QED
    BY <2>2, <2>3
<1>4. out' = Returned("Remove", k, r)
  BY Zenon DEF Remove1, WayTo
<1>5. heap' = IF t = 0 THEN heap ELSE TakenOut(heap, slots, k, t)
  BY Zenon DEF Remove1, WayTo, TakenOut
<1>6. RemoveEffect(heap, heap', k, r)
  BY <1>1, <1>5, RemoveHas
<1> HIDE DEF r
<1>7. QED
  BY <1>3, <1>4, <1>6 DEF DoesRemove, UsedUp

LEMMA Replace1Does ==
  ASSUME Fits, IInv, NEW n \in Nodes, Replace1(n)
  PROVE  DoesReplace(n)
<1> DEFINE slots == WayTo(heap, Key(n))
           t == FoundAt(heap, slots, Key(n))
           r == IF t = 0 THEN n ELSE At(heap, slots[t])
<1>1. Whole(heap) /\ oob = FALSE
  BY DEF IInv
<1>2. path' = NoPath /\ oob' = FALSE
  BY <1>1 DEF Replace1
<1>3. out' = Returned("Replace", n, r)
  BY Zenon DEF Replace1, WayTo
<1>4. heap' = IF t = 0 \/ r = n THEN heap ELSE Exchange(heap, slots[t], n)
  BY Zenon DEF Replace1, WayTo
<1>5. ReplaceEffect(heap, heap', n, r)
  BY <1>1, <1>4, ReplaceHas
<1> HIDE DEF r
<1>6. QED
  BY <1>2, <1>3, <1>5 DEF DoesReplace, UsedUp

LEMMA ProbeDoes ==
  ASSUME IInv, NEW k \in Keys, Probe(k)
  PROVE  DoesProbe(k)
BY DEF Probe, DoesProbe, IInv

\* A path that may be used is that of the last Probe.
LEMMA PathKnown ==
  ASSUME Fits, IInv, HasPath, NEW k, k = path.key, NEW slots, slots = WayTo(heap, k),
         NEW t, t = FoundAt(heap, slots, k)
  PROVE  /\ k \in Keys /\ k \in Int /\ Whole(heap) /\ oob = FALSE
         /\ LeadsTo(path, slots, DirsTo(heap, slots, k), t, k)
         /\ At(heap, path.stack[Len(path.stack)]) = IF t = 0 THEN Null ELSE At(heap, slots[t])
         /\ t # 0 => path.stack[Len(path.stack)] = slots[t]
<1>1. k \in Keys /\ path = Probed(heap, k) /\ Whole(heap) /\ oob = FALSE /\ k \in Int
  BY KeysAreInt DEF IInv, PathInv, HasPath
<1>2. LeadsTo(path, slots, DirsTo(heap, slots, k), t, k)
  BY <1>1, ProbedLeads
<1>3. At(heap, slots[Len(slots)]) = Null
  BY <1>1, WayFound
<1>4. /\ path.stack[Len(path.stack)] = slots[Len(path.stack)]
      /\ \/ t = 0 /\ path.stack = slots
         \/ t # 0 /\ Len(path.stack) = t
  BY <1>2 DEF LeadsTo
<1>5. At(heap, path.stack[Len(path.stack)]) = IF t = 0 THEN Null ELSE At(heap, slots[t])
  BY <1>3, <1>4
<1>6. t # 0 => path.stack[Len(path.stack)] = slots[t]
  BY <1>4
<1>7. QED
  BY <1>1, <1>2, <1>5, <1>6

\* A node of the tree is none of the numbers and no Null.
LEMMA FoundNode ==
  ASSUME NEW h, Whole(h), NEW k \in Int, NEW slots, slots = WayTo(h, k),
         NEW t, t = FoundAt(h, slots, k), t # 0
  PROVE  At(h, slots[t]) \in Nodes /\ At(h, slots[t]) # Null
BY WayFound, WholeIs, NodesAssumption

LEMMA Insert2Does ==
  ASSUME Fits, IInv, NEW n \in Nodes, Insert2(n)
  PROVE  DoesInsert(n)
<1> DEFINE k == Key(n)
           slots == WayTo(heap, k)
           t == FoundAt(heap, slots, k)
           top == Len(path.stack)
<1>1. HasPath /\ k = path.key
  BY DEF Insert2
<1>2. /\ k \in Int /\ Whole(heap) /\ oob = FALSE
      /\ LeadsTo(path, slots, DirsTo(heap, slots, k), t, k)
      /\ At(heap, path.stack[top]) = IF t = 0 THEN Null ELSE At(heap, slots[t])
  BY <1>1, PathKnown
<1>3. heap' = IF At(heap, path.stack[top]) # Null THEN heap
              ELSE WayUp(Put(heap, path.stack[top], n), path.stack, path.dirs, top - 1, TRUE)
  BY Zenon DEF Insert2
<1>4. heap' = IF t # 0 THEN heap ELSE Inserted(heap, slots, n)
  <2>1. CASE t = 0
    <3>1. path.stack = slots /\ path.dirs = DirsTo(heap, slots, k)
      BY <1>2, <2>1 DEF LeadsTo
    <3>2. QED
      BY <1>2, <1>3, <2>1, <3>1, Zenon DEF Inserted
  <2>2. CASE t # 0
    <3>1. At(heap, slots[t]) # Null
      BY <1>2, <2>2, FoundNode
    <3>2. QED
      BY <1>2, <1>3, <2>2, <3>1
  <2>3. QED
    BY <2>1, <2>2
<1>5. InsertEffect(heap, heap', n)
  BY <1>2, <1>4, InsertHas
<1>6. QED
  BY <1>2, <1>5 DEF Insert2, DoesInsert, UsedUp

LEMMA Remove2Does ==
  ASSUME ~MayReuse, Fits, IInv, Remove2
  PROVE  \E k \in Keys : DoesRemove(k)
<1> DEFINE k == path.key
           slots == WayTo(heap, k)
           t == FoundAt(heap, slots, k)
           top == Len(path.stack)
           r == IF t = 0 THEN Null ELSE At(heap, slots[t])
           dirs == DirsTo(heap, slots, k)
<1>1. HasPath
  BY DEF Remove2
<1>2. /\ k \in Keys /\ k \in Int /\ Whole(heap) /\ oob = FALSE
      /\ LeadsTo(path, slots, dirs, t, k)
      /\ At(heap, path.stack[top]) = r
  BY <1>1, PathKnown
<1>3. path' = NoPath
  BY DEF Remove2
<1>4. out' = Returned("Remove", k, r) /\ oob' = FALSE
      /\ heap' = IF t = 0 THEN heap ELSE TakenOut(heap, slots, k, t)
  <2>1. CASE t = 0
    <3>1. At(heap, path.stack[top]) = Null /\ r = Null
      BY <1>2, <2>1
    <3>2. out' = Returned("Remove", k, Null) /\ UNCHANGED <<heap, oob>>
      BY <3>1, Zenon DEF Remove2
    <3>3. QED
      BY <1>2, <2>1, <3>1, <3>2
  <2>2. CASE t # 0
    <3> DEFINE node == At(heap, slots[t])
               w == Descent(heap, Append(path.stack, <<node, path.dirs[top]>>), Key(node))
               e == [i \in 1..(Len(w) - 1) |-> IF i <= top THEN path.dirs[i]
                                               ELSE DirTo(At(heap, w[i]), Key(node))]
    <3>1. At(heap, path.stack[top]) = node /\ node # Null /\ r = node
      BY <1>2, <2>2, FoundNode
    <3>2. /\ heap' = Recycled(Unlink(heap, w, e, top), node)
          /\ out' = Returned("Remove", k, node)
          /\ oob' = (Len(w) - 1 > TREE_MAX_HEIGHT \/ top = TREE_MAX_HEIGHT)
      BY <3>1, Zenon DEF Remove2
    <3>3. top = t
      BY <1>2, <2>2 DEF LeadsTo
    <3>4. w = slots /\ e = dirs
      <4>1. Resumes(heap, path, t, node, slots, dirs)
        BY <1>2, <2>2, GoesOn
      <4>2. QED
        BY <3>3, <4>1, Zenon DEF Resumes
    <3>5. heap' = TakenOut(heap, slots, k, t)
      BY <3>2, <3>3, <3>4, Zenon DEF TakenOut
    <3>6. oob' = FALSE
      <4>1. ~(Len(slots) - 1 > TREE_MAX_HEIGHT) /\ t # TREE_MAX_HEIGHT
        BY <1>2, WayFits
      <4> HIDE DEF w, e, top, slots, t, node
      <4>2. QED
        BY <3>2, <3>3, <3>4, <4>1
    <3>7. QED
      BY <2>2, <3>1, <3>2, <3>5, <3>6
  <2>3. QED
    BY <2>1, <2>2
<1>5. RemoveEffect(heap, heap', k, r)
  BY <1>2, <1>4, RemoveHas
<1> HIDE DEF r
<1>6. DoesRemove(k)
  BY <1>3, <1>4, <1>5 DEF DoesRemove, UsedUp
<1>7. QED
  BY <1>2, <1>6

LEMMA Replace2Does ==
  ASSUME Fits, IInv, NEW n \in Nodes, Replace2(n)
  PROVE  DoesReplace(n)
<1> DEFINE k == Key(n)
           slots == WayTo(heap, k)
           t == FoundAt(heap, slots, k)
           top == Len(path.stack)
           r == IF t = 0 THEN n ELSE At(heap, slots[t])
<1>1. HasPath /\ k = path.key /\ path.stack # <<>>
  BY DEF Replace2
<1>2. /\ k \in Int /\ Whole(heap) /\ oob = FALSE
      /\ LeadsTo(path, slots, DirsTo(heap, slots, k), t, k)
      /\ At(heap, path.stack[top]) = (IF t = 0 THEN Null ELSE At(heap, slots[t]))
      /\ (t # 0 => path.stack[top] = slots[t])
  BY <1>1, PathKnown
<1>3. Last(path.stack) = path.stack[top]
  BY DEF Last
<1>4. path' = NoPath /\ oob' = FALSE
  BY <1>2 DEF Replace2
<1>5. out' = Returned("Replace", n, r)
      /\ heap' = IF t = 0 \/ r = n THEN heap ELSE Exchange(heap, slots[t], n)
  <2>1. CASE t = 0
    <3>1. At(heap, Last(path.stack)) \in {Null, n} /\ r = n
      BY <1>2, <1>3, <2>1
    <3>2. out' = Returned("Replace", n, n) /\ heap' = heap
      BY <3>1, Zenon DEF Replace2
    <3>3. QED
      BY <2>1, <3>1, <3>2
  <2>2. CASE t # 0
    <3>1. At(heap, Last(path.stack)) = r /\ r # Null /\ Last(path.stack) = slots[t]
      BY <1>2, <1>3, <2>2, FoundNode
    <3>2. CASE r = n
      <4>1. At(heap, Last(path.stack)) \in {Null, n}
        BY <3>1, <3>2
      <4>2. out' = Returned("Replace", n, n) /\ heap' = heap
        BY <4>1, Zenon DEF Replace2
      <4>3. QED
        BY <3>2, <4>2
    <3>3. CASE r # n
      <4>1. ~(At(heap, Last(path.stack)) \in {Null, n})
        BY <3>1, <3>3
      <4>2. heap' = Exchange(heap, Last(path.stack), n)
            /\ out' = Returned("Replace", n, At(heap, Last(path.stack)))
        BY <4>1, Zenon DEF Replace2
      <4> HIDE DEF r, slots, t
      <4>3. QED
        BY <2>2, <3>1, <3>3, <4>2
    <3>4. QED
      BY <3>2, <3>3
  <2>3. QED
    BY <2>1, <2>2
<1>6. ReplaceEffect(heap, heap', n, r)
  BY <1>2, <1>5, ReplaceHas
<1> HIDE DEF r
<1>7. QED
  BY <1>4, <1>5, <1>6 DEF DoesReplace, UsedUp

\* Every step is one of the four operations on the map.
LEMMA NextDoes ==
  ASSUME ~MayReuse, Fits, IInv, Next
  PROVE  Does
<1>1. CASE \E n \in Nodes : Insert1(n) \/ Replace1(n) \/ Insert2(n) \/ Replace2(n)
  <2>1. PICK n \in Nodes : Insert1(n) \/ Replace1(n) \/ Insert2(n) \/ Replace2(n)
    BY <1>1
  <2>2. DoesInsert(n) \/ DoesReplace(n)
    BY <2>1, Insert1Does, Replace1Does, Insert2Does, Replace2Does
  <2>3. QED
    BY <2>2 DEF Does
<1>2. CASE \E k \in Keys : Remove1(k) \/ Probe(k)
  <2>1. PICK k \in Keys : Remove1(k) \/ Probe(k)
    BY <1>2
  <2>2. DoesRemove(k) \/ DoesProbe(k)
    BY <2>1, Remove1Does, ProbeDoes
  <2>3. QED
    BY <2>2 DEF Does
<1>3. CASE Remove2
  BY <1>3, Remove2Does DEF Does
<1>4. QED
  BY <1>1, <1>2, <1>3 DEF Next
-----------------------------------------------------------------------------
(* The invariant of the specification. *)

LEMMA InitOK == Init => IInv
<1> SUFFICES ASSUME Init PROVE IInv
  OBVIOUS
<1>1. Null \in NodesOrNull /\ Null \notin Nodes
  BY NodesAssumption DEF NodesOrNull
<1>2. heap \in Heaps
  BY DEF Init, Heaps, NoChildren, Dirs, LEFT, RIGHT, BALANCED
<1>3. Avl(heap, heap.root, {}, 0)
  BY AvlEmpty DEF Init
<1>4. heap.child \in [Nodes -> {NoChildren}] /\ heap.state \in [Nodes -> {BALANCED}]
  BY DEF Init
<1>5. \A x \in Nodes \ {} : heap.child[x] = NoChildren /\ heap.state[x] = BALANCED
  BY <1>4
<1>6. Holds(heap, {})
  BY <1>2, <1>3, <1>5, HoldsIf
<1>7. path.result = "none" /\ out = Nothing /\ oob = FALSE
  BY DEF Init, NoPath
<1>8. QED
  BY <1>6, <1>7 DEF IInv, PathInv, OutInv, Holds

\* A path that is used up says nothing.
LEMMA NoPathOK == path = NoPath => PathInv
BY DEF NoPath, PathInv

LEMMA DoesOK ==
  ASSUME IInv, Does
  PROVE  IInv'
<1>1. path = NoPath => PathInv
  BY NoPathOK
<1>2. (path = NoPath => PathInv)'
  BY NoPathOK, PTL
<1>3. Null \in NodesOrNull /\ Nodes \subseteq NodesOrNull
  BY DEF NodesOrNull
<1>4. ASSUME UsedUp, NEW S, Holds(heap', S), NEW o, NEW a, NEW r \in NodesOrNull,
             out' = Returned(o, a, r)
      PROVE  IInv'
  <2>1. Whole(heap)' /\ oob' = FALSE
    BY <1>4 DEF Holds, UsedUp
  <2>2. PathInv'
    BY <1>2, <1>4 DEF UsedUp
  <2>3. OutInv'
    BY <1>4 DEF OutInv, Returned
  <2>4. QED
    BY <2>1, <2>2, <2>3 DEF IInv
<1>5. ASSUME NEW n \in Nodes, DoesInsert(n) PROVE IInv'
  <2>1. PICK S : Holds(heap', S)
    BY <1>5 DEF DoesInsert, InsertEffect
  <2>2. QED
    BY <1>3, <1>4, <1>5, <2>1 DEF DoesInsert
<1>6. ASSUME NEW n \in Nodes, DoesReplace(n) PROVE IInv'
  <2>1. PICK r : ReplaceEffect(heap, heap', n, r) /\ out' = Returned("Replace", n, r)
    BY <1>6 DEF DoesReplace
  <2>2. r \in NodesOrNull /\ \E S : Holds(heap', S)
    BY <2>1 DEF ReplaceEffect
  <2>3. QED
    BY <1>4, <1>6, <2>1, <2>2 DEF DoesReplace
<1>7. ASSUME NEW k \in Keys, DoesRemove(k) PROVE IInv'
  <2>1. PICK r : RemoveEffect(heap, heap', k, r) /\ out' = Returned("Remove", k, r)
    BY <1>7 DEF DoesRemove
  <2>2. r \in NodesOrNull /\ \E S : Holds(heap', S)
    BY <2>1 DEF RemoveEffect
  <2>3. QED
    BY <1>4, <1>7, <2>1, <2>2 DEF DoesRemove
<1>8. ASSUME NEW k \in Keys, DoesProbe(k) PROVE IInv'
  <2>1. Whole(heap)' /\ oob' = FALSE
    BY <1>8 DEF DoesProbe, IInv
  <2>2. path' = Probed(heap', k)
    BY <1>8 DEF DoesProbe
  <2>3. path'.key = k
    BY <2>2 DEF Probed
  <2>4. PathInv'
    BY <2>2, <2>3 DEF PathInv
  <2>5. OutInv'
    BY <1>3, <1>8 DEF DoesProbe, OutInv, Returned
  <2>6. QED
    BY <2>1, <2>4, <2>5 DEF IInv
<1>9. QED
  BY <1>5, <1>6, <1>7, <1>8 DEF Does

LEMMA NextOK ==
  ASSUME ~MayReuse, Fits
  PROVE  IInv /\ [Next]_vars => IInv'
<1> SUFFICES ASSUME IInv, [Next]_vars PROVE IInv'
  OBVIOUS
<1>1. CASE Next
  BY <1>1, NextDoes, DoesOK
<1>2. CASE UNCHANGED vars
  BY <1>2, Zenon DEF vars, IInv, PathInv, OutInv
<1>3. QED
  BY <1>1, <1>2

\* The tree is an AVL tree in the order of the keys, the nodes outside it are
\* as new, a path is that of the last Probe, and no stack was overrun: for every
\* set of nodes and every order of the calls.
THEOREM Invariant ==
  ASSUME ~MayReuse, Fits
  PROVE  Spec => []IInv
<1>1. Init => IInv
  BY InitOK
<1>2. IInv /\ [Next]_vars => IInv'
  BY NextOK
<1>3. QED
  BY <1>1, <1>2, PTL DEF Spec

\* Insert, Remove, Replace and Probe stay inside "arppNodeStack[TREE_MAX_HEIGHT]".
THEOREM StacksAreBigEnough ==
  ASSUME ~MayReuse, Fits
  PROVE  Spec => []StackInBounds
<1>1. IInv => StackInBounds
  BY DEF IInv, StackInBounds
<1>2. QED
  BY <1>1, Invariant, PTL

LEMMA PathShape ==
  ASSUME Fits, IInv, path.result # "none"
  PROVE  /\ path.key \in Keys /\ path.stack # <<>>
         /\ Len(path.stack) <= TREE_MAX_HEIGHT
         /\ \A i \in DOMAIN path.dirs : path.dirs[i] \in Dirs
         /\ At(heap, Last(path.stack)) = Null \/ Key(At(heap, Last(path.stack))) = path.key
<1> DEFINE k == path.key
           slots == WayTo(heap, k)
           t == FoundAt(heap, slots, k)
           dirs == DirsTo(heap, slots, k)
<1>1. k \in Keys /\ k \in Int /\ Whole(heap) /\ path = Probed(heap, k)
  BY KeysAreInt DEF IInv, PathInv
<1>2. LeadsTo(path, slots, dirs, t, k)
  BY <1>1, ProbedLeads
<1>3. /\ Len(slots) - 1 \in Nat /\ slots \in Seq(Slots) /\ At(heap, slots[Len(slots)]) = Null
      /\ t = 0 \/ t \in 1..(Len(slots) - 1)
      /\ t # 0 => Key(At(heap, slots[t])) = k
      /\ dirs \in Seq(Dirs)
  <2>1. dirs = [i \in 1..(Len(slots) - 1) |-> DirTo(At(heap, slots[i]), k)]
    BY DEF DirsTo
  <2>2. /\ Len(slots) - 1 \in Nat /\ slots \in Seq(Slots) /\ At(heap, slots[Len(slots)]) = Null
        /\ t = 0 \/ t \in 1..(Len(slots) - 1)
        /\ t # 0 => Key(At(heap, slots[t])) = k
    BY <1>1, WayFound
  <2>3. dirs \in Seq(Dirs)
    BY <2>1, <2>2, DirType
  <2>4. QED
    BY <2>2, <2>3
<1>4. Len(slots) - 1 < TREE_MAX_HEIGHT
  BY <1>1, WayFits
<1> HIDE DEF slots, t, dirs
<1>5. Len(path.stack) \in Nat \ {0} /\ Last(path.stack) = path.stack[Len(path.stack)]
      /\ path.stack # <<>> /\ path.stack[Len(path.stack)] = slots[Len(path.stack)]
  BY <1>2 DEF LeadsTo, Last
<1>6. CASE t = 0
  <2>1. path.stack = slots /\ path.dirs = dirs
    BY <1>2, <1>6 DEF LeadsTo
  <2>2. Len(path.stack) <= TREE_MAX_HEIGHT
    BY <1>3, <1>4, <1>5, <2>1, HeightAssumption
  <2>3. At(heap, Last(path.stack)) = Null
    BY <1>3, <1>5, <2>1
  <2>4. \A i \in DOMAIN path.dirs : path.dirs[i] \in Dirs
    BY <1>3, <2>1
  <2>5. QED
    BY <1>1, <1>5, <2>2, <2>3, <2>4
<1>7. CASE t # 0
  <2>1. Len(path.stack) = t /\ DOMAIN path.dirs = 1..t /\ \A i \in 1..t : path.dirs[i] = dirs[i]
    BY <1>2, <1>7 DEF LeadsTo
  <2>2. Len(path.stack) <= TREE_MAX_HEIGHT
    BY <1>3, <1>4, <1>7, <2>1, HeightAssumption
  <2>3. Key(At(heap, Last(path.stack))) = path.key
    BY <1>3, <1>5, <1>7, <2>1
  <2>4. \A i \in 1..t : dirs[i] \in Dirs
    <3>1. Len(dirs) = Len(slots) - 1
      BY <1>3, DirType DEF dirs, DirsTo
    <3>2. QED
      BY <1>3, <1>7, <3>1
  <2>5. \A i \in DOMAIN path.dirs : path.dirs[i] \in Dirs
    BY <2>1, <2>4
  <2>6. QED
    BY <1>1, <1>5, <2>2, <2>3, <2>5
<1>8. QED
  BY <1>6, <1>7

\* The nodes, the links and the balances stay what they are declared to be, and
\* a path of Probe fits into its stack and holds directions only.
THEOREM TypeCorrect ==
  ASSUME ~MayReuse, Fits
  PROVE  Spec => []TypeOK
<1>1. IInv => TypeOK
  <2> SUFFICES ASSUME IInv PROVE TypeOK
    OBVIOUS
  <2>1. heap \in Heaps /\ oob \in BOOLEAN
    BY WholeIs DEF IInv
  <2>2. out = Nothing \/ out.node \in Nodes \cup {Null}
    BY DEF IInv, OutInv, NodesOrNull
  <2>3. path.result # "none" => /\ path.key \in Keys
                                /\ Len(path.stack) <= TREE_MAX_HEIGHT
                                /\ \A i \in DOMAIN path.dirs : path.dirs[i] \in Dirs
    BY PathShape
  <2>4. QED
    BY <2>1, <2>2, <2>3 DEF TypeOK
<1>2. QED
  BY <1>1, Invariant, PTL

\* The path of Probe ends at the node of the key that was probed or at the empty
\* slot where it would be, and goes on to do so until it is used.
THEOREM PathsLeadToTheirKey ==
  ASSUME ~MayReuse, Fits
  PROVE  Spec => []PathLeadsToKey
<1>1. IInv => PathLeadsToKey
  <2> SUFFICES ASSUME IInv, path.result \in {"FOUND", "NOT_FOUND"}
               PROVE  /\ path.stack # <<>>
                      /\ LET n == At(heap, Last(path.stack)) IN n = Null \/ Key(n) = path.key
    BY DEF PathLeadsToKey
  <2>1. QED
    BY PathShape
<1>2. QED
  BY <1>1, Invariant, PTL
-----------------------------------------------------------------------------
(* The tree is a map. *)

\* The nodes of the tree, for the operations of the map.
Content == TreeNodes(heap)

LEMMA ContentIs == IInv => Content = Below(heap, heap.root)
BY TreeNodesAre DEF IInv, Content

LEMMA ContentHolds ==
  ASSUME NEW S, Holds(heap', S)
  PROVE  Content' = S
<1>1. TreeNodes(heap') = Below(heap', heap'.root)
  BY TreeNodesAre DEF Holds
<1>2. QED
  BY <1>1 DEF Holds, Content

LEMMA SameKeys == Map!Keys = Keys
BY Zenon DEF Map!Keys, Keys

LEMMA InitMaps == Init => Map!Init
<1> SUFFICES ASSUME Init PROVE Map!Init
  OBVIOUS
<1>1. Content = {}
  <2>1. /\ heap.root = Null
        /\ \A n \in Nodes, d \in Dirs : heap.child[n][d] = Null
    BY DEF Init, NoChildren
  <2>2. {heap.child[n][d] : n \in Nodes, d \in Dirs} \subseteq {Null}
    BY <2>1
  <2>3. Content = ({heap.root} \cup {heap.child[n][d] : n \in Nodes, d \in Dirs}) \ {Null}
    BY DEF Content, TreeNodes
  <2>4. QED
    BY <2>1, <2>2, <2>3
<1>2. QED
  BY <1>1 DEF Init, Map!Init, Content, Nothing

LEMMA InsertMaps ==
  ASSUME IInv, NEW n \in Nodes, DoesInsert(n)
  PROVE  Map!Insert(n)
<1>1. PICK S : Holds(heap', S) /\ Adds(Below(heap, heap.root), S, n)
  BY DEF DoesInsert, InsertEffect
<1>2. Content = Below(heap, heap.root) /\ Content' = S
  BY <1>1, ContentIs, ContentHolds
<1>3. Content' = IF \E m \in Content : Key(m) = Key(n) THEN Content ELSE Content \cup {n}
  BY <1>1, <1>2, Zenon DEF Adds
<1>4. out' = Map!Returned("Insert", n, Null)
  BY Zenon DEF DoesInsert, Returned, Map!Returned
<1>5. QED
  BY <1>3, <1>4, Zenon DEF Map!Insert, Content

LEMMA RemoveMaps ==
  ASSUME IInv, NEW k \in Keys, DoesRemove(k)
  PROVE  Map!Remove(k)
<1>1. PICK r : RemoveEffect(heap, heap', k, r) /\ out' = Returned("Remove", k, r)
  BY DEF DoesRemove
<1>2. PICK S : Holds(heap', S) /\ Takes(Below(heap, heap.root), S, k, r)
  BY <1>1 DEF RemoveEffect
<1>3. Content = Below(heap, heap.root) /\ Content' = S
  BY <1>2, ContentIs, ContentHolds
<1>4. Takes(Content, Content', k, r)
  BY <1>2, <1>3
<1>5. out' = Map!Returned("Remove", k, r)
  BY <1>1, Zenon DEF Returned, Map!Returned
<1>6. QED
  BY <1>4, <1>5, Zenon DEF Takes, Map!Remove, Content

LEMMA ReplaceMaps ==
  ASSUME IInv, NEW n \in Nodes, DoesReplace(n)
  PROVE  Map!Replace(n)
<1>1. PICK r : ReplaceEffect(heap, heap', n, r) /\ out' = Returned("Replace", n, r)
  BY DEF DoesReplace
<1>2. PICK S : Holds(heap', S) /\ Swaps(Below(heap, heap.root), S, n, r)
  BY <1>1 DEF ReplaceEffect
<1>3. Content = Below(heap, heap.root) /\ Content' = S
  BY <1>2, ContentIs, ContentHolds
<1>4. Swaps(Content, Content', n, r)
  BY <1>2, <1>3
<1>5. out' = Map!Returned("Replace", n, r)
  BY <1>1, Zenon DEF Returned, Map!Returned
<1>6. QED
  BY <1>4, <1>5, Zenon DEF Swaps, Map!Replace, Content

LEMMA ProbeMaps ==
  ASSUME IInv, NEW k \in Keys, DoesProbe(k)
  PROVE  Map!Probe(k)
BY Zenon DEF DoesProbe, Map!Probe, Returned, Map!Returned

LEMMA NextMaps ==
  ASSUME ~MayReuse, Fits
  PROVE  IInv /\ [Next]_vars => [Map!Next]_(Map!vars)
<1> SUFFICES ASSUME IInv, [Next]_vars PROVE [Map!Next]_(Map!vars)
  OBVIOUS
<1>1. CASE UNCHANGED vars
  BY <1>1, Zenon DEF vars, Map!vars
<1>2. CASE Next
  <2>1. Does
    BY <1>2, NextDoes
  <2>2. \/ \E n \in Nodes : Map!Insert(n) \/ Map!Replace(n)
        \/ \E k \in Keys : Map!Remove(k) \/ Map!Probe(k)
    BY <2>1, InsertMaps, RemoveMaps, ReplaceMaps, ProbeMaps DEF Does
  <2>3. QED
    BY <2>2, SameKeys, Zenon DEF Map!Next
<1>3. QED
  BY <1>1, <1>2

\* The tree implements the ordered map: every operation, by key or by the path of
\* Probe, concerns the node of its key and leaves all the others.
THEOREM TreeImplementsMap ==
  ASSUME ~MayReuse, Fits
  PROVE  Spec => ImplementsMap
<1>1. Init => Map!Init
  BY InitMaps
<1>2. IInv /\ [Next]_vars => [Map!Next]_(Map!vars)
  BY NextMaps
<1>3. QED
  BY <1>1, <1>2, Invariant, PTL DEF Spec, ImplementsMap, Map!Spec
-----------------------------------------------------------------------------
(* CheckIntegrity. *)

LevelsBy(h, f) ==
  [n \in Nodes \cup {Null} |->
     IF n = Null THEN 0
     ELSE LET l == f[h.child[n][LEFT]]
              r == f[h.child[n][RIGHT]]
          IN  1 + (IF l > r THEN l ELSE r)]

HighsOf(h) == [n \in NodesOrNull |-> High(h, n)]

\* The heights are a solution of the recursion of Levels, and the only one.
LEMMA HighsAreLevels ==
  ASSUME NEW h, Whole(h)
  PROVE  HighsOf(h) = LevelsBy(h, HighsOf(h))
<1> DEFINE f == HighsOf(h)
<1>1. ASSUME NEW n \in NodesOrNull, n # Null
      PROVE  High(h, n) = LET l == f[h.child[n][LEFT]]
                              r == f[h.child[n][RIGHT]]
                          IN  1 + (IF l > r THEN l ELSE r)
  <2> DEFINE l == High(h, h.child[n][LEFT])
             r == High(h, h.child[n][RIGHT])
  <2>1. /\ h.child[n][LEFT] \in NodesOrNull /\ h.child[n][RIGHT] \in NodesOrNull
        /\ l \in Nat /\ r \in Nat /\ High(h, n) = 1 + Higher(l, r)
    BY <1>1, NodesAreTrees
  <2>2. f[h.child[n][LEFT]] = l /\ f[h.child[n][RIGHT]] = r
    BY <2>1 DEF HighsOf
  <2> HIDE DEF l, r, f
  <2>3. 1 + Higher(l, r) = 1 + (IF l > r THEN l ELSE r)
    BY <2>1, SMT DEF Higher
  <2>4. QED
    BY <2>1, <2>2, <2>3
<1>2. \A n \in NodesOrNull : n = Null => High(h, n) = 0
  BY NodesAreTrees
<1>3. f = [n \in NodesOrNull |-> High(h, n)]
  BY DEF HighsOf
<1> HIDE DEF f
<1>4. \A n \in NodesOrNull : High(h, n) = LevelsBy(h, f)[n]
  BY <1>1, <1>2 DEF LevelsBy, NodesOrNull
<1>5. LevelsBy(h, f) = [n \in NodesOrNull |-> LevelsBy(h, f)[n]]
  BY DEF LevelsBy, NodesOrNull
<1>6. QED
  BY <1>3, <1>4, <1>5 DEF f

LEMMA LevelsAreHighs ==
  ASSUME NEW h, Whole(h), NEW n \in NodesOrNull
  PROVE  Levels(h)[n] = High(h, n)
<1> DEFINE f == Levels(h)
<1>1. f = LevelsBy(h, f)
  <2>1. \E g : g = LevelsBy(h, g)
    BY HighsAreLevels
  <2>2. f = CHOOSE g : g = LevelsBy(h, g)
    BY Zenon DEF Levels, LevelsBy
  <2> HIDE DEF f
  <2>3. QED
    BY <2>1, <2>2, Zenon
<1> HIDE DEF f
<1>2. ASSUME NEW m \in NodesOrNull
      PROVE  f[m] = IF m = Null THEN 0
                    ELSE LET l == f[h.child[m][LEFT]]
                             r == f[h.child[m][RIGHT]]
                         IN  1 + (IF l > r THEN l ELSE r)
  <2>1. LevelsBy(h, f)[m] = IF m = Null THEN 0
                    ELSE LET l == f[h.child[m][LEFT]]
                             r == f[h.child[m][RIGHT]]
                         IN  1 + (IF l > r THEN l ELSE r)
    BY DEF LevelsBy, NodesOrNull
  <2>2. QED
    BY <1>1, <2>1, Zenon
<1> DEFINE T == {j \in Nat : \A m \in NodesOrNull : High(h, m) = j => f[m] = j}
<1>3. ASSUME NEW j \in Nat, \A i \in Nat : i < j => i \in T
      PROVE  j \in T
  <2>1. SUFFICES ASSUME NEW m \in NodesOrNull, High(h, m) = j PROVE f[m] = j
    BY Zenon
  <2>2. CASE m = Null
    BY <1>2, <2>1, <2>2, NodesAreTrees
  <2>3. CASE m # Null
    <3> DEFINE cl == h.child[m][LEFT]
               cr == h.child[m][RIGHT]
               l == High(h, cl)
               r == High(h, cr)
    <3>1. cl \in NodesOrNull /\ cr \in NodesOrNull /\ l \in Nat /\ r \in Nat
          /\ j = 1 + Higher(l, r)
      BY <2>1, <2>3, NodesAreTrees
    <3>2. f[m] = 1 + (IF f[cl] > f[cr] THEN f[cl] ELSE f[cr])
      BY <1>2, <2>1, <2>3
    <3> HIDE DEF l, r
    <3>3. l < j /\ r < j /\ 1 + (IF l > r THEN l ELSE r) = j
      BY ONLY <3>1, SMT DEF Higher
    <3> HIDE DEF cl, cr
    <3>4. f[cl] = l
      BY <1>3, <3>1, <3>3, Zenon DEF l
    <3>5. f[cr] = r
      BY <1>3, <3>1, <3>3, Zenon DEF r
    <3>6. QED
      BY <3>2, <3>3, <3>4, <3>5
  <2>4. QED
    BY <2>2, <2>3
<1> HIDE DEF T
<1>4. \A j \in Nat : j \in T
  BY <1>3, StrongInduction, Zenon
<1>5. High(h, n) \in Nat
  BY NodesAreTrees, TreeBelow
<1>6. QED
  BY <1>4, <1>5 DEF T, f

\* What m_nState says is the difference of the heights of the two sides.
LEMMA Balance ==
  ASSUME NEW st, NEW kd \in Nat, NEW ko \in Nat, Weighs(st, LEFT, kd, ko)
  PROVE  st = CASE ko - kd = -1 -> LEFT [] ko - kd = 0 -> BALANCED [] ko - kd = 1 -> RIGHT
<1>1. CASE st = BALANCED /\ kd = ko
  BY <1>1
<1>2. CASE st = LEFT /\ kd = ko + 1
  BY <1>2
<1>3. CASE st = 1 - LEFT /\ ko = kd + 1
  BY <1>3 DEF LEFT, RIGHT
<1>4. QED
  BY <1>1, <1>2, <1>3 DEF Weighs

\* The two sides of every node differ in height by at most one, and m_nState
\* says which is higher, after every Insert, Remove and Replace.
THEOREM TreeIsBalanced ==
  ASSUME ~MayReuse, Fits
  PROVE  Spec => []CheckIntegrity
<1>1. IInv => CheckIntegrity
  <2> SUFFICES ASSUME Whole(heap), NEW n \in TreeNodes(heap)
               PROVE  LET balance == Levels(heap)[heap.child[n][RIGHT]]
                                       - Levels(heap)[heap.child[n][LEFT]]
                      IN  heap.state[n] = CASE balance = -1 -> LEFT
                                            [] balance = 0  -> BALANCED
                                            [] balance = 1  -> RIGHT
    BY DEF IInv, CheckIntegrity
  <2> DEFINE cl == heap.child[n][LEFT]
             cr == heap.child[n][RIGHT]
  <2>1. n \in NodesOrNull /\ n # Null
    BY TreeNodesAre, WholeIs, NodesAssumption DEF NodesOrNull
  <2>2. /\ cl \in NodesOrNull /\ cr \in NodesOrNull
        /\ High(heap, cl) \in Nat /\ High(heap, cr) \in Nat
        /\ Weighs(heap.state[n], LEFT, High(heap, cl), High(heap, cr))
    BY <2>1, NodesAreTrees
  <2>3. Levels(heap)[cl] = High(heap, cl) /\ Levels(heap)[cr] = High(heap, cr)
    BY <2>2, LevelsAreHighs
  <2> DEFINE kd == High(heap, cl)
             ko == High(heap, cr)
  <2> HIDE DEF kd, ko
  <2>4. heap.state[n] = CASE ko - kd = -1 -> LEFT [] ko - kd = 0 -> BALANCED
                          [] ko - kd = 1 -> RIGHT
    BY <2>2, Balance DEF kd, ko
  <2>5. QED
    BY <2>3, <2>4 DEF kd, ko
<1>2. QED
  BY <1>1, Invariant, PTL
-----------------------------------------------------------------------------
(* The traversal. *)

\* The nodes below the child on side d are on that side of the node, and the
\* others below it are not.
SideOf(h, n, d) ==
  LET c == h.child[n][d]
      o == h.child[n][1 - d]
  IN  /\ c \in NodesOrNull /\ o \in NodesOrNull
      /\ Below(h, n) = Below(h, c) \cup {n} \cup Below(h, o)
      /\ Below(h, c) \in SUBSET Nodes /\ Below(h, o) \in SUBSET Nodes
      /\ \A x \in Below(h, c) : OnSide(d, x, n)
      /\ \A x \in Below(h, o) : OnSide(1 - d, x, n)
      /\ High(h, c) \in Nat /\ High(h, n) \in Nat /\ High(h, c) < High(h, n)

LEMMA BelowSides ==
  ASSUME NEW h, Whole(h), NEW n \in Nodes, NEW d \in Dirs
  PROVE  SideOf(h, n, d)
<1> DEFINE c == h.child[n][d]
           o == h.child[n][1 - d]
<1>0. n # Null /\ n \in NodesOrNull /\ 1 - d \in Dirs
  BY NodesAssumption, Directions DEF NodesOrNull
<1>1. c \in NodesOrNull /\ o \in NodesOrNull
  BY <1>0, WholeIs, HeapType
<1>2. IsTree(h, n) /\ IsTree(h, c) /\ IsTree(h, o)
  BY <1>0, <1>1, NodesAreTrees
<1>3. Splits(h, n, Below(h, n), High(h, n), d, Below(h, c), Below(h, o), High(h, c), High(h, o))
  BY <1>0, <1>2, TreeHalves DEF Halves
<1>4. /\ Below(h, c) \in SUBSET Nodes /\ Below(h, o) \in SUBSET Nodes
      /\ High(h, c) \in Nat /\ High(h, o) \in Nat /\ High(h, n) \in Nat
  BY <1>2, TreeBelow
<1>5. /\ Below(h, n) = Below(h, c) \cup {n} \cup Below(h, o)
      /\ \A x \in Below(h, c) : OnSide(d, x, n)
      /\ \A x \in Below(h, o) : OnSide(1 - d, x, n)
      /\ High(h, n) = 1 + Higher(High(h, c), High(h, o))
  BY <1>3 DEF Splits
<1> DEFINE kc == High(h, c)
           ko == High(h, o)
           kn == High(h, n)
<1> HIDE DEF kc, ko, kn
<1>6. kc < kn
  <2>1. kc \in Nat /\ ko \in Nat /\ kn = 1 + Higher(kc, ko)
    BY <1>4, <1>5 DEF kc, ko, kn
  <2>2. QED
    BY ONLY <2>1, SMT DEF Higher
<1>7. High(h, c) < High(h, n)
  BY <1>6 DEF kc, kn
<1>8. QED
  BY <1>1, <1>4, <1>5, <1>7 DEF SideOf

LEMMA NothingBelow ==
  ASSUME NEW h
  PROVE  Below(h, Null) = {} /\ High(h, Null) = 0
<1>1. Avl(h, Null, {}, 0)
  BY AvlEmpty
<1>2. QED
  BY <1>1, TreeIs

\* A node and those that come after it below it.
Late(h, n) == {n} \cup Below(h, h.child[n][RIGHT])

LEMMA LateIs ==
  ASSUME NEW h, Whole(h), NEW n \in Nodes
  PROVE  /\ h.child[n][LEFT] \in NodesOrNull /\ h.child[n][RIGHT] \in NodesOrNull
         /\ Below(h, n) = Below(h, h.child[n][LEFT]) \cup Late(h, n)
         /\ Below(h, h.child[n][LEFT]) \in SUBSET Nodes
         /\ Below(h, h.child[n][RIGHT]) \in SUBSET Nodes
         /\ Late(h, n) \in SUBSET Nodes
         /\ \A x \in Below(h, h.child[n][LEFT]) : Key(x) < Key(n)
         /\ \A x \in Below(h, h.child[n][RIGHT]) : Key(n) < Key(x)
         /\ High(h, h.child[n][LEFT]) \in Nat /\ High(h, n) \in Nat
         /\ High(h, h.child[n][LEFT]) < High(h, n)
<1>1. LEFT \in Dirs /\ RIGHT \in Dirs /\ 1 - LEFT = RIGHT /\ RIGHT # LEFT
  BY Directions
<1>2. SideOf(h, n, LEFT)
  BY <1>1, BelowSides
<1>3. /\ h.child[n][LEFT] \in NodesOrNull /\ h.child[n][RIGHT] \in NodesOrNull
      /\ Below(h, n) = Below(h, h.child[n][LEFT]) \cup {n} \cup Below(h, h.child[n][RIGHT])
      /\ Below(h, h.child[n][LEFT]) \in SUBSET Nodes
      /\ Below(h, h.child[n][RIGHT]) \in SUBSET Nodes
      /\ \A x \in Below(h, h.child[n][LEFT]) : OnSide(LEFT, x, n)
      /\ \A x \in Below(h, h.child[n][RIGHT]) : OnSide(RIGHT, x, n)
      /\ High(h, h.child[n][LEFT]) \in Nat /\ High(h, n) \in Nat
      /\ High(h, h.child[n][LEFT]) < High(h, n)
  BY <1>1, <1>2, Zenon DEF SideOf
<1>4. Key(n) \in Int /\ \A x \in Nodes : Key(x) \in Int
  BY KeyType
<1>5. \A x \in Below(h, h.child[n][LEFT]) : Key(x) < Key(n)
  BY <1>3 DEF OnSide
<1>6. \A x \in Below(h, h.child[n][RIGHT]) : Key(n) < Key(x)
  <2>1. \A x \in Below(h, h.child[n][RIGHT]) : Key(x) > Key(n) /\ x \in Nodes
    BY <1>1, <1>3 DEF OnSide
  <2>2. QED
    BY <1>4, <2>1
<1>7. QED
  BY <1>3, <1>5, <1>6 DEF Late

\* The nodes a traversal with the stack s has yet to return, and the order they
\* wait in.
Rest(h, s) == UNION {Late(h, s[i]) : i \in 1..Len(s)}

Precede(X, s) == \A x \in X : \A i \in 1..Len(s) : Key(x) < Key(s[i])

Ready(h, s) ==
  /\ s \in Seq(Nodes)
  /\ \A i, j \in 1..Len(s) : i < j => \A x \in Late(h, s[j]) : Key(x) < Key(s[i])

\* m is the next node to be pushed.
Going(h, s, m) == Ready(h, s) /\ m \in NodesOrNull /\ Precede(Below(h, m), s)

LEMMA RestAppend ==
  ASSUME NEW h, NEW s \in Seq(Nodes), NEW m
  PROVE  Rest(h, Append(s, m)) = Rest(h, s) \cup Late(h, m)
<1> DEFINE t == Append(s, m)
<1>1. Len(s) \in Nat /\ Len(t) = Len(s) + 1 /\ t[Len(s) + 1] = m
      /\ \A i \in 1..Len(s) : t[i] = s[i]
  OBVIOUS
<1> HIDE DEF t
<1>2. \A i : i \in 1..(Len(s) + 1) <=> i \in 1..Len(s) \/ i = Len(s) + 1
  BY <1>1
<1>3. QED
  BY <1>1, <1>2 DEF Rest, t

LEMMA PushOne ==
  ASSUME NEW h, Whole(h), NEW s, NEW m, m # Null, Going(h, s, m)
  PROVE  /\ Going(h, Append(s, m), h.child[m][LEFT])
         /\ Rest(h, Append(s, m)) \cup Below(h, h.child[m][LEFT]) = Rest(h, s) \cup Below(h, m)
         /\ Append(s, m) \in Seq(Nodes) /\ Len(Append(s, m)) = Len(s) + 1 /\ Len(s) \in Nat
         /\ Last(Append(s, m)) = m
<1> DEFINE t == Append(s, m)
           c == h.child[m][LEFT]
<1>1. m \in Nodes /\ s \in Seq(Nodes) /\ Precede(Below(h, m), s)
      /\ \A i, j \in 1..Len(s) : i < j => \A x \in Late(h, s[j]) : Key(x) < Key(s[i])
  BY DEF Going, Ready, NodesOrNull
<1>2. /\ c \in NodesOrNull /\ Below(h, m) = Below(h, c) \cup Late(h, m)
      /\ \A x \in Below(h, c) : Key(x) < Key(m)
  BY <1>1, LateIs
<1>3. Len(s) \in Nat /\ Len(t) = Len(s) + 1 /\ t[Len(s) + 1] = m /\ t \in Seq(Nodes)
      /\ \A i \in 1..Len(s) : t[i] = s[i]
  BY <1>1
<1>4. Rest(h, t) = Rest(h, s) \cup Late(h, m)
  BY <1>1, RestAppend
<1>5. Last(t) = m
  BY <1>3 DEF Last
<1> HIDE DEF t, c
<1>6. \A i : i \in 1..Len(t) => i \in 1..Len(s) \/ i = Len(s) + 1
  BY <1>3
<1>7. \A x \in Below(h, m) : \A i \in 1..Len(s) : Key(x) < Key(s[i])
  BY <1>1 DEF Precede
<1>8. Precede(Below(h, c), t)
  BY <1>2, <1>3, <1>6, <1>7 DEF Precede
<1>9. ASSUME NEW i \in 1..Len(t), NEW j \in 1..Len(t), i < j, NEW x \in Late(h, t[j])
      PROVE  Key(x) < Key(t[i])
  <2>1. i \in 1..Len(s) /\ t[i] = s[i]
    BY <1>3, <1>9
  <2>2. CASE j \in 1..Len(s)
    BY <1>1, <1>3, <1>9, <2>1, <2>2
  <2>3. CASE j = Len(s) + 1
    <3>1. x \in Below(h, m)
      BY <1>2, <1>3, <1>9, <2>3
    <3>2. QED
      BY <1>7, <2>1, <3>1
  <2>4. QED
    BY <1>6, <2>2, <2>3
<1>10. Ready(h, t)
  BY <1>3, <1>9 DEF Ready
<1>11. Going(h, t, c)
  BY <1>2, <1>8, <1>10 DEF Going
<1>12. Rest(h, t) \cup Below(h, c) = Rest(h, s) \cup Below(h, m)
  BY <1>2, <1>4
<1>13. QED
  BY <1>3, <1>5, <1>11, <1>12 DEF t, c
\* The body of Pushed.
PushLeft(h) ==
  [s \in Seq(Nodes) |->
     LET m == h.child[Last(s)][LEFT]
     IN  IF m = Null THEN s ELSE Append(s, m)]

\* x is the stack when m and some of the nodes that follow it to the left are on it.
Pushing(h, s, m, x) ==
  /\ x \in Seq(Nodes) /\ Last(x) \in Nodes
  /\ Going(h, x, h.child[Last(x)][LEFT])
  /\ Rest(h, x) \cup Below(h, h.child[Last(x)][LEFT]) = Rest(h, s) \cup Below(h, m)

Pushes(h, s, m, x) == Ready(h, x) /\ Rest(h, x) = Rest(h, s) \cup Below(h, m)

LEMMA PushedWorks ==
  ASSUME NEW h, Whole(h), NEW s, NEW m, Going(h, s, m)
  PROVE  Pushes(h, s, m, Pushed(h, s, m))
<1>1. CASE m = Null
  BY <1>1, NothingBelow DEF Pushed, Pushes, Going
<1>2. CASE m # Null
  <2> DEFINE body == PushLeft(h)
             after(i) == Iterated(body, Append(s, m), i)
             left(x) == h.child[Last(x)][LEFT]
             T == {i \in Nat : /\ Pushing(h, s, m, after(i))
                               /\ left(after(i)) = Null \/ High(h, left(after(i))) + i < High(h, m)}
  <2>1. Pushed(h, s, m) = after(Walk)
    BY <1>2, Zenon DEF Pushed, PushLeft
  <2>2. \A x \in Seq(Nodes) : body[x] = IF left(x) = Null THEN x ELSE Append(x, left(x))
    BY Zenon DEF PushLeft
  <2>3. after(0) = Append(s, m) /\ \A i \in Nat : after(i + 1) = body[after(i)]
    BY Iteration, Zenon
  <2>4. m \in Nodes /\ IsTree(h, m) /\ High(h, m) \in Nat
    <3>1. m \in Nodes /\ m \in NodesOrNull
      BY <1>2 DEF Going, NodesOrNull
    <3>2. QED
      BY <3>1, NodesAreTrees, TreeBelow
  <2> HIDE DEF body, after
  <2>5. 0 \in T
    <3>1. /\ Going(h, Append(s, m), h.child[m][LEFT])
          /\ Rest(h, Append(s, m)) \cup Below(h, h.child[m][LEFT]) = Rest(h, s) \cup Below(h, m)
          /\ Append(s, m) \in Seq(Nodes) /\ Last(Append(s, m)) = m
      BY <1>2, PushOne
    <3>2. Pushing(h, s, m, Append(s, m))
      BY <2>4, <3>1 DEF Pushing
    <3>3. left(Append(s, m)) = h.child[m][LEFT]
      BY <3>1
    <3>4. High(h, h.child[m][LEFT]) + 0 < High(h, m)
      BY <2>4, LateIs
    <3> HIDE DEF left
    <3>5. QED
      BY <2>3, <3>2, <3>3, <3>4
  <2>6. ASSUME NEW i \in Nat, i \in T PROVE i + 1 \in T
    <3> DEFINE x == after(i)
               c == left(x)
    <3>1. Pushing(h, s, m, x) /\ (c = Null \/ High(h, c) + i < High(h, m))
      BY <2>6
    <3>2. x \in Seq(Nodes) /\ Going(h, x, c)
          /\ Rest(h, x) \cup Below(h, c) = Rest(h, s) \cup Below(h, m)
      BY <3>1 DEF Pushing
    <3>3. after(i + 1) = IF c = Null THEN x ELSE Append(x, c)
      BY <2>2, <2>3, <3>2
    <3> HIDE DEF x
    <3>4. CASE c = Null
      <4>1. after(i + 1) = x
        BY <3>3, <3>4
      <4>2. Pushing(h, s, m, after(i + 1)) /\ left(after(i + 1)) = Null
        BY <3>1, <3>4, <4>1
      <4> HIDE DEF left
      <4>3. QED
        BY <4>2, i + 1 \in Nat, Zenon
    <3>5. CASE c # Null
      <4> DEFINE y == Append(x, c)
      <4> HIDE DEF c
      <4>1. after(i + 1) = y
        BY <3>3, <3>5
      <4>2. /\ Going(h, y, h.child[c][LEFT])
            /\ Rest(h, y) \cup Below(h, h.child[c][LEFT]) = Rest(h, x) \cup Below(h, c)
            /\ y \in Seq(Nodes) /\ Last(y) = c
        BY <3>2, <3>5, PushOne
      <4>3. c \in Nodes
        BY <3>2, <3>5 DEF Going, NodesOrNull
      <4>4. High(h, h.child[c][LEFT]) \in Nat /\ High(h, c) \in Nat
            /\ High(h, h.child[c][LEFT]) < High(h, c)
        BY <4>3, LateIs
      <4> HIDE DEF y
      <4>5. Pushing(h, s, m, y)
        BY <3>2, <4>2, <4>3 DEF Pushing
      <4>6. left(y) = h.child[c][LEFT]
        BY <4>2
      <4> DEFINE k == High(h, h.child[c][LEFT])
                 kc == High(h, c)
                 km == High(h, m)
      <4>7. k \in Nat /\ kc \in Nat /\ k < kc /\ kc + i < km /\ km \in Nat
        BY <2>4, <3>1, <3>5, <4>4
      <4> HIDE DEF k, kc, km
      <4>8. k + (i + 1) < km
        BY ONLY <4>7, i \in Nat, SMT
      <4>9. High(h, left(y)) + (i + 1) < High(h, m)
        BY <4>6, <4>8 DEF k, km
      <4> HIDE DEF left
      <4>10. QED
        BY <4>1, <4>5, <4>9, i + 1 \in Nat, Zenon
    <3>6. QED
      BY <3>4, <3>5
  <2> HIDE DEF T
  <2>7. Walk \in Nat /\ High(h, m) <= Walk
    BY <2>4, TreeBelow, AvlSize
  <2>8. Walk \in T
    BY <2>5, <2>6, <2>7, Induction
  <2> DEFINE x == after(Walk)
             c == left(x)
  <2>9. Pushing(h, s, m, x) /\ (c = Null \/ High(h, c) + Walk < High(h, m))
    BY <2>8 DEF T
  <2> HIDE DEF x
  <2>10. x \in Seq(Nodes) /\ Going(h, x, c)
         /\ Rest(h, x) \cup Below(h, c) = Rest(h, s) \cup Below(h, m)
    BY <2>9 DEF Pushing
  <2> HIDE DEF c
  <2>11. c = Null
    <3>1. High(h, c) \in Nat
      BY <2>10, NodesAreTrees, TreeBelow DEF Going
    <3>2. ~(High(h, c) + Walk < High(h, m))
      BY <2>4, <2>7, <3>1, SMT
    <3>3. QED
      BY <2>9, <3>2
  <2>12. Rest(h, x) = Rest(h, s) \cup Below(h, m)
    BY <2>10, <2>11, NothingBelow
  <2>13. Ready(h, x)
    BY <2>10 DEF Going
  <2>14. QED
    BY <2>1, <2>12, <2>13 DEF Pushes, x
<1>3. QED
  BY <1>1, <1>2

\* The top of the stack is the next node.
LEMMA TakeTop ==
  ASSUME NEW h, Whole(h), NEW s, Ready(h, s), s # <<>>
  PROVE  /\ Last(s) \in Nodes /\ Last(s) \in Rest(h, s)
         /\ Going(h, Front(s), h.child[Last(s)][RIGHT])
         /\ Rest(h, s) = {Last(s)} \cup (Rest(h, Front(s)) \cup Below(h, h.child[Last(s)][RIGHT]))
         /\ \A x \in Rest(h, Front(s)) \cup Below(h, h.child[Last(s)][RIGHT]) : Key(Last(s)) < Key(x)
<1> DEFINE n == Last(s)
           f == Front(s)
           L == Len(s)
           c == h.child[n][RIGHT]
<1>1. /\ s \in Seq(Nodes) /\ L \in Nat \ {0} /\ n = s[L] /\ n \in Nodes
      /\ \A i \in 1..L : s[i] \in Nodes
      /\ \A i, j \in 1..L : i < j => \A x \in Late(h, s[j]) : Key(x) < Key(s[i])
  BY DEF Ready, Last
<1>2. /\ f \in Seq(Nodes) /\ Len(f) = L - 1 /\ \A i \in 1..(L - 1) : f[i] = s[i]
  <2>1. f = SubSeq(s, 1, L - 1)
    BY DEF Front
  <2> HIDE DEF f, n, L
  <2>2. s \in Seq(Nodes) /\ L = Len(s) /\ L \in Nat \ {0}
    BY <1>1 DEF L
  <2>3. L - 1 \in Nat /\ L - 1 <= Len(s)
    BY <2>2
  <2>4. QED
    BY ONLY <2>1, <2>2, <2>3, SMT
<1>3. /\ c \in NodesOrNull /\ Late(h, n) = {n} \cup Below(h, c)
      /\ \A x \in Below(h, c) : Key(n) < Key(x)
  BY <1>1, LateIs DEF Late
<1> HIDE DEF n, f, c
<1> HIDE DEF L
<1>4. /\ \A i : i \in 1..L <=> i \in 1..(L - 1) \/ i = L
      /\ \A i : i \in 1..(L - 1) => i \in 1..L /\ i < L
      /\ L \in 1..L
  BY <1>1
<1>5. Rest(h, s) = Rest(h, f) \cup Late(h, n)
  <2>1. Rest(h, s) = UNION {Late(h, s[i]) : i \in 1..L}
    BY DEF Rest, L
  <2>2. Rest(h, f) = UNION {Late(h, s[i]) : i \in 1..(L - 1)}
    BY <1>2 DEF Rest
  <2>3. QED
    BY <1>1, <1>4, <2>1, <2>2
<1>6. \A i \in 1..(L - 1) : \A x \in Late(h, n) : Key(x) < Key(f[i])
  BY <1>1, <1>2, <1>4
<1>7. Precede(Below(h, c), f)
  BY <1>2, <1>3, <1>6 DEF Precede
<1>8. Ready(h, f)
  <2>1. ASSUME NEW i \in 1..Len(f), NEW j \in 1..Len(f), i < j, NEW x \in Late(h, f[j])
        PROVE  Key(x) < Key(f[i])
    BY <1>1, <1>2, <1>4, <2>1
  <2>2. QED
    BY <1>2, <2>1 DEF Ready
<1>9. \A x \in Rest(h, f) : Key(n) < Key(x)
  <2>1. SUFFICES ASSUME NEW x \in Rest(h, f) PROVE Key(n) < Key(x)
    OBVIOUS
  <2>2. PICK i \in 1..(L - 1) : x \in Late(h, f[i])
    BY <1>2, <2>1 DEF Rest
  <2>3. f[i] \in Nodes
    BY <1>1, <1>2, <1>4
  <2>4. Key(n) < Key(f[i])
    BY <1>3, <1>6
  <2>5. x = f[i] \/ (Key(f[i]) < Key(x) /\ x \in Nodes)
    BY <2>2, <2>3, LateIs DEF Late
  <2>6. Key(n) \in Int /\ Key(f[i]) \in Int /\ (x \in Nodes => Key(x) \in Int)
    BY <1>1, <2>3, KeyType
  <2>7. QED
    BY <2>4, <2>5, <2>6
<1>10. Going(h, f, c)
  BY <1>3, <1>7, <1>8 DEF Going
<1>11. QED
  BY <1>1, <1>3, <1>5, <1>9, <1>10 DEF n, f, c
\* The body of Traverse.
Visits == [stack : Seq(Nodes), returned : Seq(Nodes)]

Visit(h) ==
  [p \in Visits |->
     IF p.stack = <<>> THEN p
     ELSE [stack    |-> Pushed(h, Front(p.stack), h.child[Last(p.stack)][RIGHT]),
           returned |-> Append(p.returned, Last(p.stack))]]

\* The nodes returned so far are in the order of the keys and before those that
\* are not; i of them unless it is over.
InOrder(s) == \A a, b \in 1..Len(s) : a < b => Key(s[a]) < Key(s[b])

Visited(h, p, i) ==
  /\ p \in Visits /\ Ready(h, p.stack)
  /\ Rest(h, p.stack) \cup Range(p.returned) = Below(h, h.root)
  /\ InOrder(p.returned)
  /\ \A x \in Range(p.returned) : \A y \in Rest(h, p.stack) : Key(x) < Key(y)
  /\ p.stack = <<>> \/ Cardinality(Range(p.returned)) = i

LEMMA RangeAppend ==
  ASSUME NEW s \in Seq(Nodes), NEW n
  PROVE  Range(Append(s, n)) = Range(s) \cup {n}
<1> DEFINE t == Append(s, n)
<1>1. Len(s) \in Nat /\ DOMAIN s = 1..Len(s) /\ DOMAIN t = 1..(Len(s) + 1)
      /\ t[Len(s) + 1] = n /\ \A i \in 1..Len(s) : t[i] = s[i]
  OBVIOUS
<1> HIDE DEF t
<1>2. \A i : i \in 1..(Len(s) + 1) <=> i \in 1..Len(s) \/ i = Len(s) + 1
  BY <1>1
<1>3. QED
  BY <1>1, <1>2 DEF Range, t

LEMMA VisitOne ==
  ASSUME NEW h, Whole(h), NEW i \in Nat, NEW p, Visited(h, p, i), p.stack # <<>>,
         NEW q, q = [stack    |-> Pushed(h, Front(p.stack), h.child[Last(p.stack)][RIGHT]),
                     returned |-> Append(p.returned, Last(p.stack))]
  PROVE  Visited(h, q, i + 1)
<1> DEFINE n == Last(p.stack)
           f == Front(p.stack)
           c == h.child[n][RIGHT]
           r == p.returned
           R == Rest(h, f) \cup Below(h, c)
<1>1. /\ p \in Visits /\ Ready(h, p.stack)
      /\ Rest(h, p.stack) \cup Range(r) = Below(h, h.root)
      /\ InOrder(r) /\ \A x \in Range(r) : \A y \in Rest(h, p.stack) : Key(x) < Key(y)
      /\ Cardinality(Range(r)) = i
  BY DEF Visited
<1>2. /\ n \in Nodes /\ n \in Rest(h, p.stack) /\ Going(h, f, c)
      /\ Rest(h, p.stack) = {n} \cup R
      /\ \A x \in R : Key(n) < Key(x)
  BY <1>1, TakeTop
<1>3. Pushes(h, f, c, q.stack) /\ q.returned = Append(r, n)
  BY <1>2, PushedWorks
<1>4. r \in Seq(Nodes)
  BY <1>1 DEF Visits
<1> HIDE DEF n, f, c, R, r
<1>5. Ready(h, q.stack) /\ Rest(h, q.stack) = R
  BY <1>3 DEF Pushes, R
<1>6. Range(q.returned) = Range(r) \cup {n}
  BY <1>3, <1>4, RangeAppend
<1>7. q \in Visits
  <2>1. q.stack \in Seq(Nodes) /\ q.returned \in Seq(Nodes)
    <3>1. q.stack \in Seq(Nodes)
      BY <1>5, Zenon DEF Ready
    <3>2. Append(r, n) \in Seq(Nodes)
      BY <1>2, <1>4, SMT
    <3>3. QED
      BY <1>3, <3>1, <3>2, Zenon
  <2>2. q = [stack |-> q.stack, returned |-> q.returned]
    OBVIOUS
  <2>3. QED
    BY <2>1, <2>2, Zenon DEF Visits
<1>8. Rest(h, q.stack) \cup Range(q.returned) = Below(h, h.root)
  BY <1>1, <1>2, <1>5, <1>6
<1>9. Key(n) \in Int /\ \A x \in Nodes : Key(x) \in Int
  BY <1>2, KeyType
<1>10. \A x \in Range(r) : Key(x) < Key(n)
  BY <1>1, <1>2
<1>11. Below(h, h.root) \in SUBSET Nodes
  BY WholeIs
<1>12. R \subseteq Nodes /\ Range(r) \subseteq Nodes
  BY <1>1, <1>2, <1>11
<1>13. \A x \in Range(q.returned) : \A y \in Rest(h, q.stack) : Key(x) < Key(y)
  <2>1. SUFFICES ASSUME NEW x \in Range(r) \cup {n}, NEW y \in R PROVE Key(x) < Key(y)
    BY <1>5, <1>6
  <2>2. CASE x = n
    BY <1>2, <2>2
  <2>3. CASE x \in Range(r)
    BY <1>1, <1>2, <2>3
  <2>4. QED
    BY <2>2, <2>3
<1>14. InOrder(q.returned)
  <2> DEFINE s == q.returned
  <2>1. Len(r) \in Nat /\ Len(s) = Len(r) + 1 /\ s[Len(r) + 1] = n
        /\ \A j \in 1..Len(r) : s[j] = r[j] /\ r[j] \in Range(r)
    BY <1>3, <1>4 DEF Range
  <2> HIDE DEF s
  <2>2. ASSUME NEW a \in 1..Len(s), NEW b \in 1..Len(s), a < b PROVE Key(s[a]) < Key(s[b])
    <3>1. a \in 1..Len(r) /\ (b \in 1..Len(r) \/ b = Len(r) + 1)
      BY <2>1, <2>2
    <3>2. CASE b \in 1..Len(r)
      BY <1>1, <2>1, <2>2, <3>1, <3>2 DEF InOrder
    <3>3. CASE b = Len(r) + 1
      BY <1>10, <2>1, <3>1, <3>3
    <3>4. QED
      BY <3>1, <3>2, <3>3
  <2>3. QED
    BY <2>2 DEF InOrder, s
<1>15. Cardinality(Range(q.returned)) = i + 1
  <2>1. n \notin Range(r)
    BY <1>9, <1>10
  <2>2. IsFiniteSet(Range(r))
    BY <1>12, NodesAssumption, FS_Subset
  <2>3. QED
    BY <1>1, <1>6, <2>1, <2>2, FS_AddElement DEF r
<1>16. QED
  BY <1>5, <1>7, <1>8, <1>13, <1>14, <1>15 DEF Visited

\* The nodes of the tree, in the order of the keys.
Orders(h, s) == s \in Seq(Nodes) /\ Range(s) = Below(h, h.root) /\ InOrder(s)

LEMMA TraverseWorks ==
  ASSUME NEW h, Whole(h)
  PROVE  Orders(h, Traverse(h))
<1> DEFINE body == Visit(h)
           p0 == [stack |-> InitTraverse(h), returned |-> <<>>]
           after(i) == Iterated(body, p0, i)
           T == {i \in Nat : Visited(h, after(i), i)}
<1>1. Traverse(h) = after(Walk).returned
  BY Zenon DEF Traverse, Visit, Visits
<1>2. after(0) = p0 /\ \A i \in Nat : after(i + 1) = body[after(i)]
  BY Iteration, Zenon
<1>3. \A p \in Visits :
        body[p] = IF p.stack = <<>> THEN p
                  ELSE [stack    |-> Pushed(h, Front(p.stack), h.child[Last(p.stack)][RIGHT]),
                        returned |-> Append(p.returned, Last(p.stack))]
  BY Zenon DEF Visit
<1> HIDE DEF body, after
<1>4. 0 \in T
  <2> DEFINE x == InitTraverse(h)
  <2>1. <<>> \in Seq(Nodes) /\ Len(<<>>) = 0 /\ 1..0 = {} /\ DOMAIN <<>> = {}
    OBVIOUS
  <2>2. Rest(h, <<>>) = {} /\ Range(<<>>) = {}
    BY <2>1 DEF Rest, Range
  <2>3. Going(h, <<>>, h.root)
    BY <2>1, WholeIs DEF Going, Ready, Precede
  <2>4. Pushes(h, <<>>, h.root, x)
    BY <2>3, PushedWorks DEF InitTraverse
  <2> HIDE DEF x
  <2>5. Ready(h, x) /\ Rest(h, x) = Below(h, h.root) /\ x \in Seq(Nodes)
    BY <2>2, <2>4 DEF Pushes, Ready
  <2>6. p0.stack = x /\ p0.returned = <<>>
    BY DEF x
  <2>7. p0 \in Visits
    BY <2>1, <2>5, Zenon DEF Visits, x
  <2>8. Cardinality({}) = 0
    BY FS_EmptySet
  <2> HIDE DEF p0
  <2>9. InOrder(<<>>)
    BY <2>1 DEF InOrder
  <2>10. Visited(h, p0, 0)
    BY <2>2, <2>5, <2>6, <2>7, <2>8, <2>9 DEF Visited
  <2>11. QED
    BY <1>2, <2>10
<1>5. ASSUME NEW i \in Nat, i \in T PROVE i + 1 \in T
  <2> DEFINE p == after(i)
  <2>1. Visited(h, p, i)
    BY <1>5
  <2>2. p \in Visits
    BY <2>1 DEF Visited
  <2>3. CASE p.stack = <<>>
    <3>1. after(i + 1) = p
      BY <1>2, <1>3, <2>2, <2>3
    <3>2. Visited(h, p, i + 1)
      BY <2>1, <2>3 DEF Visited
    <3>3. QED
      BY <3>1, <3>2
  <2>4. CASE p.stack # <<>>
    <3>1. after(i + 1) = [stack    |-> Pushed(h, Front(p.stack), h.child[Last(p.stack)][RIGHT]),
                          returned |-> Append(p.returned, Last(p.stack))]
      BY <1>2, <1>3, <2>2, <2>4
    <3>2. Visited(h, after(i + 1), i + 1)
      BY <2>1, <2>4, <3>1, VisitOne
    <3>3. QED
      BY <3>2, i + 1 \in Nat, Zenon
  <2>5. QED
    BY <2>3, <2>4
<1> HIDE DEF T, p0
<1>6. Walk \in Nat /\ Walk = Cardinality(Nodes)
  BY NodesAssumption, FS_CardinalityType DEF Walk
<1>7. Walk \in T
  BY <1>4, <1>5, <1>6, Induction
<1> DEFINE p == after(Walk)
<1>8. Visited(h, p, Walk)
  BY <1>7 DEF T
<1> HIDE DEF p
<1>9. /\ p \in Visits /\ Ready(h, p.stack)
      /\ Rest(h, p.stack) \cup Range(p.returned) = Below(h, h.root)
      /\ InOrder(p.returned)
      /\ \A x \in Range(p.returned) : \A y \in Rest(h, p.stack) : Key(x) < Key(y)
      /\ p.stack = <<>> \/ Cardinality(Range(p.returned)) = Walk
  BY <1>8 DEF Visited
<1>10. p.stack = <<>>
  <2> SUFFICES ASSUME p.stack # <<>> PROVE FALSE
    OBVIOUS
  <2> DEFINE n == Last(p.stack)
             X == Range(p.returned)
  <2>1. n \in Nodes /\ n \in Rest(h, p.stack)
    BY <1>9, TakeTop
  <2>2. X \subseteq Nodes /\ Cardinality(X) = Walk
    BY <1>9, WholeIs
  <2>3. n \notin X
    <3>1. n \in X => Key(n) < Key(n)
      BY <1>9, <2>1
    <3>2. Key(n) \in Int
      BY <2>1, KeyType
    <3> HIDE DEF n, X
    <3>3. QED
      BY <3>1, <3>2
  <2> HIDE DEF n, X
  <2>4. X \cup {n} \subseteq Nodes
    BY <2>1, <2>2
  <2>5. IsFiniteSet(X)
    BY <2>2, NodesAssumption, FS_Subset
  <2>6. Cardinality(X \cup {n}) = Walk + 1
    BY <2>2, <2>3, <2>5, FS_AddElement
  <2>7. Cardinality(X \cup {n}) <= Walk
    BY <1>6, <2>4, NodesAssumption, FS_Subset
  <2>8. QED
    BY <1>6, <2>6, <2>7
<1>11. Rest(h, <<>>) = {}
  BY DEF Rest
<1>12. Range(p.returned) = Below(h, h.root) /\ p.returned \in Seq(Nodes)
  BY <1>9, <1>10, <1>11 DEF Visits
<1>13. QED
  BY <1>1, <1>9, <1>12 DEF Orders, p
\* The body of GetPolarNode.
GoOn(h, d) == [m \in Nodes |-> IF h.child[m][d] = Null THEN m ELSE h.child[m][d]]

\* The nodes that are not below m are all on the other side of it than d.
Nearing(h, d, m) ==
  /\ m \in Nodes /\ m \in Below(h, h.root) /\ Below(h, m) \subseteq Below(h, h.root)
  /\ \A x \in Below(h, h.root) \ Below(h, m) : OnSide(1 - d, x, m)

Polar(h, d, m) ==
  /\ m \in Below(h, h.root)
  /\ \A x \in Below(h, h.root) \ {m} : OnSide(1 - d, x, m)

LEMMA SideOrder ==
  ASSUME NEW d \in Dirs, NEW x \in Nodes, NEW y \in Nodes
  PROVE  /\ OnSide(d, x, y) => OnSide(1 - d, y, x)
         /\ \A z \in Nodes : OnSide(d, x, y) /\ OnSide(d, y, z) => OnSide(d, x, z)
<1>1. \A z \in Nodes : Key(z) \in Int
  BY KeyType
<1>2. (d = LEFT /\ 1 - d # LEFT) \/ (d # LEFT /\ 1 - d = LEFT)
  BY Directions
<1>3. Key(x) \in Int /\ Key(y) \in Int
  BY <1>1
<1>4. CASE d = LEFT /\ 1 - d # LEFT
  BY <1>1, <1>3, <1>4 DEF OnSide
<1>5. CASE d # LEFT /\ 1 - d = LEFT
  BY <1>1, <1>3, <1>5 DEF OnSide
<1>6. QED
  BY <1>2, <1>4, <1>5

LEMMA NearOne ==
  ASSUME NEW h, Whole(h), NEW d \in Dirs, NEW m, Nearing(h, d, m), h.child[m][d] # Null
  PROVE  Nearing(h, d, h.child[m][d])
<1> DEFINE c == h.child[m][d]
           o == h.child[m][1 - d]
           B == Below(h, h.root)
           C == Below(h, c)
           O == Below(h, o)
<1>1. /\ m \in Nodes /\ m \in B /\ Below(h, m) \subseteq B
      /\ \A x \in B \ Below(h, m) : OnSide(1 - d, x, m)
  BY DEF Nearing
<1>2. /\ c \in NodesOrNull /\ Below(h, m) = C \cup {m} \cup O
      /\ C \in SUBSET Nodes /\ O \in SUBSET Nodes
      /\ \A x \in C : OnSide(d, x, m)
      /\ \A x \in O : OnSide(1 - d, x, m)
  BY <1>1, BelowSides DEF SideOf
<1>3. c \in Nodes /\ c \in C
  <2>1. IsTree(h, c)
    BY <1>2, NodesAreTrees
  <2>2. c # Null /\ Avl(h, c, C, High(h, c)) /\ High(h, c) \in Nat
    BY <2>1, TreeBelow
  <2>3. QED
    BY <1>2, <2>2, AvlType DEF NodesOrNull
<1>4. B \in SUBSET Nodes /\ 1 - d \in Dirs
  BY WholeIs, Directions
<1> HIDE DEF B, C, O, c, o
<1>5. OnSide(1 - d, m, c)
  BY <1>1, <1>2, <1>3, SideOrder
<1>6. ASSUME NEW x \in B \ C PROVE OnSide(1 - d, x, c)
  <2>1. x \in Nodes
    BY <1>4
  <2>2. CASE x = m
    BY <1>5, <2>2
  <2>3. CASE x # m
    <3>1. OnSide(1 - d, x, m)
      BY <1>1, <1>2, <2>3
    <3>2. QED
      BY <1>1, <1>3, <1>4, <1>5, <2>1, <3>1, SideOrder
  <2>4. QED
    BY <2>2, <2>3
<1>7. C \subseteq B /\ c \in B
  BY <1>1, <1>2, <1>3
<1>8. QED
  BY <1>3, <1>6, <1>7 DEF Nearing, B, C, c

LEMMA NearEnd ==
  ASSUME NEW h, Whole(h), NEW d \in Dirs, NEW m, Nearing(h, d, m), h.child[m][d] = Null
  PROVE  Polar(h, d, m)
<1> DEFINE o == h.child[m][1 - d]
           B == Below(h, h.root)
           O == Below(h, o)
<1>1. /\ m \in Nodes /\ m \in B
      /\ \A x \in B \ Below(h, m) : OnSide(1 - d, x, m)
  BY DEF Nearing
<1>2. /\ Below(h, m) = Below(h, Null) \cup {m} \cup O
      /\ \A x \in O : OnSide(1 - d, x, m)
  BY <1>1, BelowSides DEF SideOf
<1>3. Below(h, m) = {m} \cup O
  BY <1>2, NothingBelow
<1> HIDE DEF B, O
<1>4. \A x \in B \ {m} : OnSide(1 - d, x, m)
  BY <1>1, <1>2, <1>3
<1>5. QED
  BY <1>1, <1>4 DEF Polar, B

LEMMA PolarWorks ==
  ASSUME NEW h, Whole(h), h.root # Null, NEW d \in Dirs
  PROVE  Polar(h, d, GetPolarNode(h, h.root, d))
<1> DEFINE body == GoOn(h, d)
           after(i) == Iterated(body, h.root, i)
           on(m) == h.child[m][d]
           T == {i \in Nat : /\ Nearing(h, d, after(i))
                             /\ on(after(i)) = Null \/ High(h, on(after(i))) + i < High(h, h.root)}
<1>1. GetPolarNode(h, h.root, d) = after(Walk)
  BY Zenon DEF GetPolarNode, GoOn
<1>2. \A m \in Nodes : body[m] = IF on(m) = Null THEN m ELSE on(m)
  BY Zenon DEF GoOn
<1>3. after(0) = h.root /\ \A i \in Nat : after(i + 1) = body[after(i)]
  BY Iteration, Zenon
<1>4. /\ h.root \in Nodes /\ h.root \in Below(h, h.root) /\ High(h, h.root) \in Nat
      /\ High(h, h.root) <= Walk /\ Walk \in Nat
  <2>1. h.root \in NodesOrNull /\ IsTree(h, h.root) /\ h.root \in Below(h, h.root)
    BY WholeIs
  <2>2. QED
    BY <2>1, TreeBelow, AvlSize DEF NodesOrNull
<1>5. ASSUME NEW m \in Nodes
      PROVE  on(m) \in NodesOrNull /\ High(h, on(m)) \in Nat /\ High(h, m) \in Nat
             /\ High(h, on(m)) < High(h, m)
  BY <1>5, BelowSides DEF SideOf
<1> HIDE DEF body, after, on
<1>6. 0 \in T
  <2>1. Nearing(h, d, h.root)
    BY <1>4 DEF Nearing
  <2>2. High(h, on(h.root)) + 0 < High(h, h.root)
    BY <1>4, <1>5
  <2>3. QED
    BY <1>3, <2>1, <2>2
<1>7. ASSUME NEW i \in Nat, i \in T PROVE i + 1 \in T
  <2> DEFINE m == after(i)
             c == on(m)
  <2>1. Nearing(h, d, m) /\ (c = Null \/ High(h, c) + i < High(h, h.root))
    BY <1>7
  <2>2. after(i + 1) = IF c = Null THEN m ELSE c
    BY <1>2, <1>3, <2>1 DEF Nearing
  <2> HIDE DEF m
  <2>3. CASE c = Null
    <3>1. after(i + 1) = m
      BY <2>2, <2>3
    <3>2. Nearing(h, d, after(i + 1)) /\ on(after(i + 1)) = Null
      BY <2>1, <2>3, <3>1
    <3>3. QED
      BY <3>2, i + 1 \in Nat, Zenon
  <2>4. CASE c # Null
    <3>1. after(i + 1) = c
      BY <2>2, <2>4
    <3>2. Nearing(h, d, c)
      BY <2>1, <2>4, NearOne DEF on
    <3> HIDE DEF c
    <3> DEFINE k == High(h, on(c))
               kc == High(h, c)
               kr == High(h, h.root)
    <3>3. k \in Nat /\ kc \in Nat /\ k < kc /\ kc + i < kr /\ kr \in Nat
      BY <1>4, <1>5, <2>1, <2>4, <3>2 DEF Nearing
    <3> HIDE DEF k, kc, kr
    <3>4. k + (i + 1) < kr
      BY ONLY <3>3, i \in Nat, SMT
    <3>5. Nearing(h, d, after(i + 1)) /\ High(h, on(after(i + 1))) + (i + 1) < High(h, h.root)
      BY <3>1, <3>2, <3>4 DEF k, kr
    <3>6. QED
      BY <3>5, i + 1 \in Nat, Zenon
  <2>5. QED
    BY <2>3, <2>4
<1> HIDE DEF T
<1>8. Walk \in T
  BY <1>4, <1>6, <1>7, Induction
<1> DEFINE m == after(Walk)
           c == on(m)
<1>9. Nearing(h, d, m) /\ (c = Null \/ High(h, c) + Walk < High(h, h.root))
  BY <1>8 DEF T
<1> HIDE DEF m
<1>10. c = Null
  <2>1. High(h, c) \in Nat
    BY <1>5, <1>9 DEF Nearing
  <2> HIDE DEF c
  <2>2. ~(High(h, c) + Walk < High(h, h.root))
    BY <1>4, <2>1, SMT
  <2>3. QED
    BY <1>9, <2>2
<1>11. Polar(h, d, m)
  BY <1>9, <1>10, NearEnd DEF on
<1>12. QED
  BY <1>1, <1>11 DEF m

\* Every node of the tree is returned once, in the order of the keys, and
\* GetMinNode and GetMaxNode are the first and the last.
THEOREM TraversalIsInOrder ==
  ASSUME ~MayReuse, Fits
  PROVE  Spec => []TraversesInOrder
<1>1. IInv => TraversesInOrder
  <2> DEFINE B == Below(heap, heap.root)
             s == Traverse(heap)
             n == Len(s)
             lo == GetPolarNode(heap, heap.root, LEFT)
             hi == GetPolarNode(heap, heap.root, RIGHT)
  <2> SUFFICES ASSUME Whole(heap), heap.root # Null
               PROVE  /\ Range(s) = TreeNodes(heap)
                      /\ \A i \in 1..(n - 1) : Key(s[i]) < Key(s[i + 1])
                      /\ lo = s[1]
                      /\ hi = s[n]
    BY DEF IInv, TraversesInOrder
  <2>1. s \in Seq(Nodes) /\ Range(s) = B /\ InOrder(s)
    BY TraverseWorks DEF Orders
  <2>2. TreeNodes(heap) = B
    BY TreeNodesAre
  <2>3. Polar(heap, LEFT, lo) /\ Polar(heap, RIGHT, hi)
    BY PolarWorks, Directions
  <2>4. heap.root \in B /\ B \in SUBSET Nodes
    BY WholeIs
  <2> HIDE DEF B, s, lo, hi
  <2>5. /\ lo \in B /\ \A x \in B \ {lo} : Key(x) > Key(lo)
        /\ hi \in B /\ \A x \in B \ {hi} : Key(x) < Key(hi)
    BY <2>3, Directions DEF Polar, OnSide, B
  <2>6. n \in Nat /\ \A i \in 1..n : s[i] \in B
    BY <2>1 DEF Range
  <2>7. \A x \in B : \E i \in 1..n : x = s[i]
    BY <2>1 DEF Range
  <2>8. n \in Nat \ {0}
    BY <2>4, <2>6, <2>7
  <2>9. \A x \in B : Key(x) \in Int
    BY <2>4, KeyType
  <2>10. \A a, b \in 1..n : a < b => Key(s[a]) < Key(s[b])
    BY <2>1 DEF InOrder
  <2> HIDE DEF n
  <2>11. lo = s[1]
    <3>1. PICK i \in 1..n : lo = s[i]
      BY <2>5, <2>7
    <3>2. 1 \in 1..n /\ s[1] \in B
      BY <2>6, <2>8
    <3>3. i = 1 \/ 1 < i
      BY <2>8
    <3>4. 1 < i => Key(s[1]) < Key(lo)
      BY <2>10, <3>1, <3>2
    <3>5. s[1] = lo \/ Key(s[1]) > Key(lo)
      BY <2>5, <3>2
    <3>6. QED
      BY <2>5, <2>9, <3>1, <3>2, <3>3, <3>4, <3>5
  <2>12. hi = s[n]
    <3>1. PICK i \in 1..n : hi = s[i]
      BY <2>5, <2>7
    <3>2. n \in 1..n /\ s[n] \in B
      BY <2>6, <2>8
    <3>3. i = n \/ i < n
      BY <2>8
    <3>4. i < n => Key(hi) < Key(s[n])
      BY <2>10, <3>1, <3>2
    <3>5. s[n] = hi \/ Key(s[n]) < Key(hi)
      BY <2>5, <3>2
    <3>6. QED
      BY <2>5, <2>9, <3>1, <3>2, <3>3, <3>4, <3>5
  <2>13. ASSUME NEW i \in 1..(n - 1) PROVE Key(s[i]) < Key(s[i + 1])
    <3>1. i \in 1..n /\ i + 1 \in 1..n /\ i < i + 1
      BY <2>8
    <3>2. QED
      BY <2>10, <3>1
  <2>14. QED
    BY <2>1, <2>2, <2>11, <2>12, <2>13
<1>2. QED
  BY <1>1, Invariant, PTL

\* A node that is not in the tree has no children and is balanced, as its
\* constructor left it: Remove and Replace clear the node they give back.
THEOREM OutsideIsFresh ==
  ASSUME ~MayReuse, Fits
  PROVE  Spec => []OutsideNodesAreFresh
<1>1. IInv => OutsideNodesAreFresh
  <2> SUFFICES ASSUME Whole(heap), NEW n \in Nodes \ Range(Traverse(heap))
               PROVE  heap.child[n] = NoChildren /\ heap.state[n] = BALANCED
    BY DEF IInv, OutsideNodesAreFresh
  <2>1. Range(Traverse(heap)) = Below(heap, heap.root)
    BY TraverseWorks DEF Orders
  <2>2. QED
    BY <2>1 DEF Whole
<1>2. QED
  BY <1>1, Invariant, PTL
=============================================================================
