----------------------------- MODULE MCHashHmac -----------------------------
(***************************************************************************)
(* Instances of HashHmac for TLC: an algorithm of small blocks that writes *)
(* low bytes first, as MD5 does, whose low counter wraps at 32 bytes, and  *)
(* one of larger blocks that writes high bytes first.                      *)
(***************************************************************************)
EXTENDS HashHmac

Small == [block |-> 4, wordLen |-> 1, word |-> 256, lowFirst |-> TRUE, size |-> 2]
Large == [block |-> 8, wordLen |-> 2, word |-> 65536, lowFirst |-> FALSE, size |-> 3]
MCAlgorithms == {Small, Large}

Text(n) == [i \in 1..n |-> Byte(i)]
\* A key shorter than the small block, as long, longer, and longer than both.
MCKeys == {[i \in 1..n |-> Byte(200 + i)] : n \in {0, 1, 4, 5, 9}}
MCInputs == {Text(n) : n \in {0, 3, 33}}
=============================================================================
