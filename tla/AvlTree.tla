------------------------------ MODULE AvlTree ------------------------------
(***************************************************************************)
(* The intrusive AVL tree AvlTreeNode                                      *)
(* (algorithms/avlTree/src/AvlTreeNode.cpp, inc/AvlTreeNode.h).            *)
(*                                                                         *)
(* The program keeps paths of addresses of child pointers.  Here such an   *)
(* address is a slot, <<node, direction>>, or RootSlot for the variable    *)
(* that holds the root.  Every operation runs to its end on its own, so it *)
(* is one action; a loop is the iteration of a function that is its body.  *)
(***************************************************************************)
EXTENDS Integers, Sequences, FiniteSets, SequencesExt

CONSTANTS
  Nodes,            \* the nodes callers have
  KeyOf,            \* the value CompareTo looks at, per node
  Null,
  TREE_MAX_HEIGHT,  \* entries of the stacks of an operation
  MayReuse          \* whether callers insert a node that was removed again

ASSUME NodesAssumption ==
  IsFiniteSet(Nodes) /\ Null \notin Nodes /\ KeyOf \in [Nodes -> Int]
ASSUME HeightAssumption == TREE_MAX_HEIGHT \in Nat \ {0}
ASSUME ReuseAssumption == MayReuse \in BOOLEAN

VARIABLES
  heap,  \* [root, child, state]: the tree, and the nodes outside it
  path,  \* the ProbePath of the last Probe, NoPath when it is used up
  out,   \* the last operation, what it was given and what it gave back
  oob    \* an operation went beyond the end of a stack

vars == <<heap, path, out, oob>>

LEFT     == 0
RIGHT    == 1
BALANCED == -1
Dirs     == {LEFT, RIGHT}

Key(n)   == KeyOf[n]
Keys     == {Key(n) : n \in Nodes}
RootSlot == <<>>
NoPath   == [result |-> "none"]

Nothing  == [op |-> "none"]
Returned(op, arg, node) == [op |-> op, arg |-> arg, node |-> node]
-----------------------------------------------------------------------------
(* The heap. *)

Slots == {RootSlot} \cup (Nodes \X Dirs)

Heaps == [root  : Nodes \cup {Null},
          child : [Nodes -> [Dirs -> Nodes \cup {Null}]],
          state : [Nodes -> {LEFT, RIGHT, BALANCED}]]

At(h, slot) == IF slot = RootSlot THEN h.root ELSE h.child[slot[1]][slot[2]]

Put(h, slot, n) ==
  IF slot = RootSlot THEN [h EXCEPT !.root = n]
                     ELSE [h EXCEPT !.child[slot[1]][slot[2]] = n]

NoChildren == [d \in Dirs |-> Null]

\* nDir = CompareTo(...) < 0
DirTo(n, key) == IF Key(n) < key THEN RIGHT ELSE LEFT

\* The body of a loop, a function, applied n times to x.
Iterated(body, x, n) ==
  LET after[i \in 0..n] == IF i = 0 THEN x ELSE body[after[i - 1]]
  IN  after[n]

\* No walk down the tree is longer.
Walk == Cardinality(Nodes)

\* The way down that goes on from the last of slots, looking for key and, past
\* the node of that key, for its neighbour; the last slot is empty.
Descent(h, slots, key) ==
  Iterated([s \in Seq(Slots) |->
              LET n == At(h, Last(s))
              IN  IF n = Null THEN s ELSE Append(s, <<n, DirTo(n, key)>>)],
           slots, Walk)

\* Seeded bug: the result of the comparison is kept instead of a direction.
DirsTo_Raw(h, slots, key) ==
  [i \in 1..(Len(slots) - 1) |-> Key(At(h, slots[i])) - key]

DirsTo(h, slots, key) ==
  [i \in 1..(Len(slots) - 1) |-> DirTo(At(h, slots[i]), key)]

\* The position of the node of that key, or 0.
FoundAt(h, slots, key) ==
  LET at == {i \in 1..(Len(slots) - 1) : Key(At(h, slots[i])) = key}
  IN  IF at = {} THEN 0 ELSE CHOOSE i \in at : TRUE

\* The nodes of the tree: those outside it have no children.
TreeNodes(h) ==
  ({h.root} \cup {h.child[n][d] : n \in Nodes, d \in Dirs}) \ {Null}
-----------------------------------------------------------------------------
(* Rotate and the two ways back to the root. *)

SingleRotation(h, slot, n) ==
  LET a == At(h, slot)
      c == h.child[a][n]
      r == 1 - n
      h1 == [h EXCEPT !.child[a][n] = h.child[c][r], !.child[c][r] = a]
      h2 == Put(h1, slot, c)
  IN  IF h.state[c] = BALANCED
      THEN [heap |-> [h2 EXCEPT !.state[c] = r], stop |-> TRUE]
      ELSE [heap |-> [h2 EXCEPT !.state[a] = BALANCED, !.state[c] = BALANCED],
            stop |-> FALSE]

\* Seeded bug: the children of the new top go to the wrong sides.
DoubleRotation_Crossed(h, slot, n) ==
  LET a == At(h, slot)
      r == 1 - n
      c == h.child[a][n]
      g == h.child[c][r]
      h1 == [h EXCEPT !.child[c][r] = h.child[g][r], !.child[a][n] = h.child[g][n]]
      h2 == [h1 EXCEPT !.child[g][n] = c, !.child[g][r] = a]
      h3 == Put(h2, slot, g)
  IN  [heap |-> [h3 EXCEPT
                   !.state[a] = IF h.state[g] = n THEN r ELSE BALANCED,
                   !.state[c] = IF h.state[g] = r THEN n ELSE BALANCED,
                   !.state[g] = BALANCED],
       stop |-> FALSE]

DoubleRotation(h, slot, n) ==
  LET a == At(h, slot)
      r == 1 - n
      c == h.child[a][n]
      g == h.child[c][r]
      h1 == [h EXCEPT !.child[c][r] = h.child[g][n], !.child[a][n] = h.child[g][r]]
      h2 == [h1 EXCEPT !.child[g][n] = c, !.child[g][r] = a]
      h3 == Put(h2, slot, g)
  IN  [heap |-> [h3 EXCEPT
                   !.state[a] = IF h.state[g] = n THEN r ELSE BALANCED,
                   !.state[c] = IF h.state[g] = r THEN n ELSE BALANCED,
                   !.state[g] = BALANCED],
       stop |-> FALSE]

\* The node in slot is too heavy on side n.
Rotate(h, slot, n) ==
  IF h.state[h.child[At(h, slot)][n]] # 1 - n
  THEN SingleRotation(h, slot, n) ELSE DoubleRotation(h, slot, n)

\* Side d of the node in slot has grown.  On the way up nothing is left to do
\* when the height of the node is what it was.
GrownAt(h, slot, d) ==
  LET n == At(h, slot)
  IN  IF h.state[n] = BALANCED
      THEN [heap |-> [h EXCEPT !.state[n] = d], stop |-> FALSE]
      ELSE IF h.state[n] = 1 - d
      THEN [heap |-> [h EXCEPT !.state[n] = BALANCED], stop |-> TRUE]
      ELSE [heap |-> Rotate(h, slot, d).heap, stop |-> TRUE]

\* Seeded bug: a rotation always ends the way back.
ShrunkAt_StopsEarly(h, slot, d) ==
  LET n == At(h, slot)
  IN  IF h.state[n] = BALANCED
      THEN [heap |-> [h EXCEPT !.state[n] = 1 - d], stop |-> TRUE]
      ELSE IF h.state[n] = d
      THEN [heap |-> [h EXCEPT !.state[n] = BALANCED], stop |-> FALSE]
      ELSE [heap |-> Rotate(h, slot, 1 - d).heap, stop |-> TRUE]

\* The same when that side has shrunk.
ShrunkAt(h, slot, d) ==
  LET n == At(h, slot)
  IN  IF h.state[n] = BALANCED
      THEN [heap |-> [h EXCEPT !.state[n] = 1 - d], stop |-> TRUE]
      ELSE IF h.state[n] = d
      THEN [heap |-> [h EXCEPT !.state[n] = BALANCED], stop |-> FALSE]
      ELSE Rotate(h, slot, 1 - d)

Up == [heap : Heaps, stop : BOOLEAN, top : Nat]

\* What was put in the slot after slots[top] has made side dirs[top] of the node
\* in slots[top] grow or shrink: the way back to the root.
WayUp(h, slots, dirs, top, grows) ==
  Iterated([u \in Up |->
              IF u.stop THEN u
              ELSE LET slot == slots[u.top]
                       d    == dirs[u.top]
                       done == IF grows THEN GrownAt(u.heap, slot, d)
                                        ELSE ShrunkAt(u.heap, slot, d)
                   IN  [heap |-> done.heap, stop |-> done.stop,
                        top  |-> u.top - 1]],
           [heap |-> h, stop |-> FALSE, top |-> top], top).heap
-----------------------------------------------------------------------------
(* The common parts of the operations. *)

\* Remove the node in slots[t]: the last node of the descent, its neighbour in
\* the order or itself, takes its place.  *pppStack, the entry after the
\* target, is corrected to the slot's new owner.
Unlink(h, slots, dirs, t) ==
  LET top    == Len(slots) - 1
      target == At(h, slots[t])
      swap   == At(h, slots[top])
      n      == dirs[top]
      h1     == Put(h, slots[t], swap)
      h2     == Put(h1, slots[top], h1.child[swap][1 - n])
      h3     == [h2 EXCEPT !.child[swap] = h2.child[target],
                           !.state[swap] = h2.state[target]]
      stack  == [slots EXCEPT ![t + 1] = <<swap, 1 - n>>]
      h4     == [h3 EXCEPT !.child[target] = NoChildren]
  IN  WayUp(h4, stack, dirs, top - 1, FALSE)

\* Seeded bug: the node that is replaced keeps its children.
Exchange_KeepsChildren(h, slot, n) ==
  LET old == At(h, slot)
      h1  == Put(h, slot, n)
      h2  == [h1 EXCEPT !.child[n] = h1.child[old], !.state[n] = h1.state[old]]
  IN  [h2 EXCEPT !.state[old] = BALANCED]

\* n takes the place of the node in slot.
Exchange(h, slot, n) ==
  LET old == At(h, slot)
      h1  == Put(h, slot, n)
      h2  == [h1 EXCEPT !.child[n] = h1.child[old], !.state[n] = h1.state[old]]
  IN  [h2 EXCEPT !.child[old] = NoChildren, !.state[old] = BALANCED]

\* The caller deletes a node it got back and makes a new one of the same key,
\* unless it reuses nodes: Remove leaves the node its last balance.
Recycled(h, n) ==
  IF MayReuse \/ n = Null THEN h ELSE [h EXCEPT !.state[n] = BALANCED]
-----------------------------------------------------------------------------
Init ==
  /\ heap = [root  |-> Null,
             child |-> [n \in Nodes |-> NoChildren],
             state |-> [n \in Nodes |-> BALANCED]]
  /\ path = NoPath
  /\ out = Nothing
  /\ oob = FALSE

\* Seeded bug: an equal node does not stop the search.
Insert1_NoCheck(n) ==
  /\ ~oob /\ n \notin TreeNodes(heap)
  /\ LET slots == Descent(heap, <<RootSlot>>, Key(n))
         depth == Len(slots) - 1
     IN  heap' = IF depth > TREE_MAX_HEIGHT THEN heap
                 ELSE WayUp(Put(heap, slots[depth + 1], n), slots,
                            DirsTo(heap, slots, Key(n)), depth, TRUE)
  /\ path' = NoPath /\ out' = Returned("Insert", n, Null)
  /\ UNCHANGED oob

\* Insert(1).  Nothing happens when the key is there, or when the path already
\* has TREE_MAX_HEIGHT nodes before one that is not empty.
Insert1(n) ==
  /\ ~oob
  /\ LET slots == Descent(heap, <<RootSlot>>, Key(n))
         depth == Len(slots) - 1
     IN  heap' = IF FoundAt(heap, slots, Key(n)) # 0 \/ depth > TREE_MAX_HEIGHT
                 THEN heap
                 ELSE WayUp(Put(heap, slots[depth + 1], n), slots,
                            DirsTo(heap, slots, Key(n)), depth, TRUE)
  /\ path' = NoPath /\ out' = Returned("Insert", n, Null)
  /\ UNCHANGED oob

\* Remove(1).  It writes the entry after the target's and one entry per node.
Remove1(k) ==
  /\ ~oob
  /\ LET slots  == Descent(heap, <<RootSlot>>, k)
         depth  == Len(slots) - 1
         t      == FoundAt(heap, slots, k)
         target == At(heap, slots[t])
     IN  IF t = 0
         THEN /\ out' = Returned("Remove", k, Null)
              /\ oob' = (depth > TREE_MAX_HEIGHT)
              /\ UNCHANGED heap
         ELSE /\ heap' = Recycled(Unlink(heap, slots, DirsTo(heap, slots, k), t),
                                  target)
              /\ out' = Returned("Remove", k, target)
              /\ oob' = (depth > TREE_MAX_HEIGHT \/ t = TREE_MAX_HEIGHT)
  /\ path' = NoPath

\* Replace(1).  Nothing happens when the node is there itself.
Replace1(n) ==
  /\ ~oob
  /\ LET slots == Descent(heap, <<RootSlot>>, Key(n))
         t     == FoundAt(heap, slots, Key(n))
     IN  IF t = 0 \/ At(heap, slots[t]) = n
         THEN out' = Returned("Replace", n, n) /\ UNCHANGED heap
         ELSE /\ heap' = Exchange(heap, slots[t], n)
              /\ out' = Returned("Replace", n, At(heap, slots[t]))
  /\ path' = NoPath
  /\ UNCHANGED oob

\* Seeded bug: the empty slot is not put on the path.
Probed_NoSlot(h, k) ==
  LET slots == Descent(h, <<RootSlot>>, k)
      depth == Len(slots) - 1
      t     == FoundAt(h, slots, k)
      top   == IF t # 0 THEN t ELSE depth
  IN  [result |-> IF t # 0 THEN "FOUND" ELSE "NOT_FOUND",
       key    |-> k,
       stack  |-> SubSeq(slots, 1, top),
       dirs   |-> SubSeq(DirsTo(h, slots, k), 1, top)]

\* The path of Probe ends at the node, at the empty slot, or when it is full.
Probed(h, k) ==
  LET slots == Descent(h, <<RootSlot>>, k)
      depth == Len(slots) - 1
      t     == FoundAt(h, slots, k)
      full  == (t = 0 \/ t > TREE_MAX_HEIGHT) /\ depth >= TREE_MAX_HEIGHT
      top   == IF full THEN TREE_MAX_HEIGHT
               ELSE IF t # 0 THEN t ELSE depth + 1
  IN  [result |-> IF full THEN "FULL"
                  ELSE IF t # 0 THEN "FOUND" ELSE "NOT_FOUND",
       key    |-> k,
       stack  |-> SubSeq(slots, 1, top),
       dirs   |-> SubSeq(DirsTo(h, slots, k), 1,
                         IF top > depth THEN depth ELSE top)]

Probe(k) ==
  /\ ~oob
  /\ path' = Probed(heap, k)
  /\ out' = Returned("Probe", k, Null)
  /\ UNCHANGED <<heap, oob>>

\* The caller has a path; the entry on its top exists.
HasPath == ~oob /\ path.result # "none"

\* Insert(2).  As in the assertions, n is a node of the key that was probed.
Insert2(n) ==
  /\ HasPath /\ path.stack # <<>> /\ Key(n) = path.key
  /\ LET top == Len(path.stack)
     IN  heap' = IF At(heap, path.stack[top]) # Null THEN heap
                 ELSE WayUp(Put(heap, path.stack[top], n), path.stack,
                            path.dirs, top - 1, TRUE)
  /\ path' = NoPath /\ out' = Returned("Insert", n, Null)
  /\ UNCHANGED oob

\* Remove(2): the slot on top, if not empty, is taken for the node's, whatever
\* the result of Probe was.
Remove2 ==
  /\ HasPath /\ path.stack # <<>>
  /\ LET top  == Len(path.stack)
         node == At(heap, path.stack[top])
     IN  IF node = Null
         THEN out' = Returned("Remove", path.key, Null) /\ UNCHANGED <<heap, oob>>
         ELSE LET slots == Descent(heap, Append(path.stack, <<node, path.dirs[top]>>),
                                   Key(node))
                  dirs  == [i \in 1..(Len(slots) - 1) |->
                              IF i <= top THEN path.dirs[i]
                              ELSE DirTo(At(heap, slots[i]), Key(node))]
              IN  /\ heap' = Recycled(Unlink(heap, slots, dirs, top), node)
                  /\ out' = Returned("Remove", path.key, node)
                  /\ oob' = (Len(slots) - 1 > TREE_MAX_HEIGHT \/ top = TREE_MAX_HEIGHT)
  /\ path' = NoPath

\* Replace(2) takes the top off the path's own stack: the path is used up.
Replace2(n) ==
  /\ HasPath /\ path.stack # <<>> /\ Key(n) = path.key
  /\ LET slot == Last(path.stack)
     IN  IF At(heap, slot) \in {Null, n} THEN out' = Returned("Replace", n, n) /\ UNCHANGED heap
         ELSE heap' = Exchange(heap, slot, n) /\ out' = Returned("Replace", n, At(heap, slot))
  /\ path' = NoPath
  /\ UNCHANGED oob

Next ==
  \/ \E n \in Nodes : Insert1(n) \/ Replace1(n) \/ Insert2(n) \/ Replace2(n)
  \/ \E k \in Keys : Remove1(k) \/ Probe(k)
  \/ Remove2

Spec == Init /\ [][Next]_vars
-----------------------------------------------------------------------------
(* InitTraverse, Traverse and GetPolarNode. *)

\* n and the nodes that follow it to the left go on the stack.
Pushed(h, stack, n) ==
  IF n = Null THEN stack
  ELSE Iterated([s \in Seq(Nodes) |->
                   LET m == h.child[Last(s)][LEFT]
                   IN  IF m = Null THEN s ELSE Append(s, m)],
                Append(stack, n), Walk)

InitTraverse(h) == Pushed(h, <<>>, h.root)

\* The nodes Traverse returns one after the other.
Traverse(h) ==
  Iterated([p \in [stack : Seq(Nodes), returned : Seq(Nodes)] |->
              IF p.stack = <<>> THEN p
              ELSE [stack    |-> Pushed(h, Front(p.stack),
                                        h.child[Last(p.stack)][RIGHT]),
                    returned |-> Append(p.returned, Last(p.stack))]],
           [stack |-> InitTraverse(h), returned |-> <<>>], Walk).returned

GetPolarNode(h, n, d) ==
  Iterated([m \in Nodes |-> IF h.child[m][d] = Null THEN m ELSE h.child[m][d]],
           n, Walk)
-----------------------------------------------------------------------------
(* Properties. *)

Levels(h) ==
  LET levels[n \in Nodes \cup {Null}] ==
        IF n = Null THEN 0
        ELSE LET l == levels[h.child[n][LEFT]]
                 r == levels[h.child[n][RIGHT]]
             IN  1 + (IF l > r THEN l ELSE r)
  IN  levels

\* The fewest nodes of an AVL tree of height k: one more than those of the two
\* heights below.
Fewest(k) == Iterated([p \in Nat \X Nat |-> <<1 + p[1] + p[2], p[1]>>], <<0, 0>>, k)[1]

\* "enum { TREE_MAX_HEIGHT = 33 };": the callers have too few nodes for a tree that
\* fills the stacks.
Fits == Cardinality(Nodes) < Fewest(TREE_MAX_HEIGHT)

\* The heap and the path are well formed.
TypeOK ==
  /\ heap \in Heaps
  /\ (out = Nothing \/ out.node \in Nodes \cup {Null}) /\ oob \in BOOLEAN
  /\ path.result # "none" =>
       /\ path.key \in Keys
       /\ Len(path.stack) <= TREE_MAX_HEIGHT
       /\ \A i \in DOMAIN path.dirs : path.dirs[i] \in Dirs

\* CheckIntegrity, which Insert and Remove verify in their development build:
\* the heights of the two sides of every node differ by at most one, and its
\* m_nState says which is higher.
CheckIntegrity ==
  \A n \in TreeNodes(heap) :
    LET balance == Levels(heap)[heap.child[n][RIGHT]]
                     - Levels(heap)[heap.child[n][LEFT]]
    IN  heap.state[n] = CASE balance = -1 -> LEFT
                          [] balance = 0  -> BALANCED
                          [] balance = 1  -> RIGHT

\* Traverse returns every node once, in the order of the keys, and
\* GetMinNode and GetMaxNode the first and the last.
TraversesInOrder ==
  heap.root # Null =>
    LET s == Traverse(heap)
    IN  /\ Range(s) = TreeNodes(heap)
        /\ \A i \in 1..(Len(s) - 1) : Key(s[i]) < Key(s[i + 1])
        /\ GetPolarNode(heap, heap.root, LEFT) = s[1]
        /\ GetPolarNode(heap, heap.root, RIGHT) = s[Len(s)]

\* A node outside the tree is as its constructor left it, so that callers may
\* insert it: Remove and Replace clear it, "Just to be strict."
OutsideNodesAreFresh ==
  heap.root # Null =>
    \A n \in Nodes \ Range(Traverse(heap)) :
      heap.child[n] = NoChildren /\ heap.state[n] = BALANCED

\* No operation goes beyond the end of "arppNodeStack[TREE_MAX_HEIGHT]".
StackInBounds == ~oob

\* The path a caller may use leads to the place of the key that was probed:
\* "you can call other tree-operation functions with the 'ProbePath' object
\* returned."
PathLeadsToKey ==
  path.result \in {"FOUND", "NOT_FOUND"} =>
    /\ path.stack # <<>>
    /\ LET n == At(heap, Last(path.stack)) IN n = Null \/ Key(n) = path.key

\* An operation on a key concerns the node of that key: the tree is a map.
Map == INSTANCE OrderedMap WITH content <- TreeNodes(heap)
ImplementsMap == Map!Spec
=============================================================================
