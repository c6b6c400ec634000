----------------------------- MODULE OrderedMap -----------------------------
(***************************************************************************)
(* What a search tree of nodes promises: it holds at most one node of each *)
(* key, and an operation on a key concerns the node of that key and no     *)
(* other.                                                                  *)
(***************************************************************************)
CONSTANTS
  Nodes,   \* the nodes callers have
  Key(_),  \* the key of a node
  Null     \* no node

VARIABLES
  content,  \* the nodes in the tree
  out       \* the last operation, what it was given and what it gave back

vars == <<content, out>>

Keys == {Key(n) : n \in Nodes}

Returned(op, arg, node) == [op |-> op, arg |-> arg, node |-> node]

Init == content = {} /\ out = [op |-> "none"]

\* A node is refused when its key is there already.
Insert(n) ==
  /\ out' = Returned("Insert", n, Null)
  /\ content' = IF \E m \in content : Key(m) = Key(n)
                THEN content ELSE content \cup {n}

Remove(k) ==
  \/ \E n \in content :
       /\ Key(n) = k
       /\ out' = Returned("Remove", k, n)
       /\ content' = content \ {n}
  \/ /\ out' = Returned("Remove", k, Null)
     /\ \A n \in content : Key(n) # k
     /\ UNCHANGED content

\* n takes the place of the node of its key, which is given back.
Replace(n) ==
  \/ \E m \in content :
       /\ Key(m) = Key(n)
       /\ out' = Returned("Replace", n, m)
       /\ content' = (content \ {m}) \cup {n}
  \/ /\ out' = Returned("Replace", n, n)
     /\ \A m \in content : Key(m) # Key(n)
     /\ UNCHANGED content

Probe(k) == out' = Returned("Probe", k, Null) /\ UNCHANGED content

Next ==
  \/ \E n \in Nodes : Insert(n) \/ Replace(n)
  \/ \E k \in Keys : Remove(k) \/ Probe(k)

Spec == Init /\ [][Next]_vars
=============================================================================
