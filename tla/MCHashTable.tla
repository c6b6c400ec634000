---------------------------- MODULE MCHashTable ----------------------------
(***************************************************************************)
(* Instances of HashTable for TLC: keys of every type in one table, and an *)
(* int of six bits.  Of the five keys, the two strings have one hash value *)
(* and the MainCC shares their bin, with a negative value; the number is   *)
(* in the other bin, with the empty string, which is never found again.    *)
(***************************************************************************)
EXTENDS HashTable, TLC

MCHashOf == [number |-> 2, mainCC |-> -17, string |-> 31, other |-> 31, empty |-> 0]

ASSUME HashesAreTheirs ==
  MCHashOf = [number |-> PairHash(9, -7), mainCC |-> CCHash(-5),
              string |-> StringHash(<<0, 31>>), other |-> StringHash(<<1, 0>>),
              empty |-> StringHash(<<>>)]

MCKeys == DOMAIN MCHashOf
MCNeverSame == {"empty"}

\* What the last operation returned is left out of the state.
TableView == <<mDuplicateNumber, table, bin, pCur>>

MCSymmetry == Permutations(Elements)
=============================================================================
