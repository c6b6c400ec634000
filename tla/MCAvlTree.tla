----------------------------- MODULE MCAvlTree -----------------------------
(***************************************************************************)
(* Instances of AvlTree for TLC: a node is a number, and its key too,      *)
(* except that one has the key of another.                                 *)
(***************************************************************************)
EXTENDS AvlTree

Many == 1..12
Few == 1..7 \union {13}
Nodes4 == 1..4
Nodes13 == 1..13

Distinct == [n \in Nodes |-> n]
OneTwice == [n \in Nodes |-> IF n = 13 THEN 3 ELSE n]

\* As in the code, no tree of these nodes fills a stack.
ASSUME FitsHere == Fits

\* A tree of few nodes, under every operation and with the paths callers keep.
EveryOperation ==
  /\ TreeNodes(heap) \subseteq Few
  /\ \/ \E n \in Few : Insert1(n) \/ Replace1(n) \/ Insert2(n) \/ Replace2(n)
     \/ \E k \in {Key(n) : n \in Few} : Remove1(k) \/ Probe(k)
     \/ Remove2

\* A tree high enough for two rotations in a row: twelve nodes that come and
\* go by Insert(1) and Remove(1) only.
ComeAndGo ==
  /\ TreeNodes(heap) \subseteq Many
  /\ path = NoPath
  /\ \/ \E n \in Many : Insert1(n)
     \/ \E k \in {Key(n) : n \in Many} : Remove1(k)

FewOrMany == Init /\ [][EveryOperation \/ ComeAndGo]_vars

\* What the last operation gave back is left out of the state.
TreeView == <<heap, path, oob>>
=============================================================================
