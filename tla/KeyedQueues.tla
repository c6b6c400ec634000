---------------------------- MODULE KeyedQueues ----------------------------
(***************************************************************************)
(* What a hash table promises: for every key a queue of the data inserted  *)
(* under it, first in, first out.                                          *)
(***************************************************************************)
EXTENDS Naturals, Sequences

CONSTANTS
  Keys,
  Data,
  Nothing,     \* no datum
  Unfindable,  \* keys that are never found again
  Capacity     \* bound: elements in all queues together

VARIABLES
  Duplicates,  \* whether a key may be inserted again
  queues,  \* per key, the data under it
  size,    \* elements in all queues
  out      \* the last operation, its key and what it returned

vars == <<Duplicates, queues, size, out>>

Init ==
  /\ Duplicates \in BOOLEAN
  /\ queues = [k \in Keys |-> <<>>]
  /\ size = 0
  /\ out = <<>>

Found(k) == queues[k] # <<>> /\ k \notin Unfindable

Insert(k, d) ==
  IF ~Duplicates /\ Found(k)
  THEN out' = <<"insert", k, FALSE>> /\ UNCHANGED <<queues, size>>
  ELSE /\ size < Capacity
       /\ queues' = [queues EXCEPT ![k] = Append(@, d)]
       /\ size' = size + 1
       /\ out' = <<"insert", k, TRUE>>

Remove(k) ==
  IF ~Found(k)
  THEN out' = <<"remove", k, Nothing>> /\ UNCHANGED <<queues, size>>
  ELSE /\ queues' = [queues EXCEPT ![k] = Tail(@)]
       /\ size' = size - 1
       /\ out' = <<"remove", k, Head(queues[k])>>

Find(k) ==
  /\ out' = <<"find", k, IF Found(k) THEN Head(queues[k]) ELSE Nothing>>
  /\ UNCHANGED <<queues, size>>

Clear ==
  /\ queues' = [k \in Keys |-> <<>>]
  /\ size' = 0
  /\ out' = <<>>

Next ==
  /\ UNCHANGED Duplicates
  /\ \/ \E k \in Keys, d \in Data : Insert(k, d)
     \/ \E k \in Keys : Remove(k) \/ Find(k)
     \/ Clear

Spec == Init /\ [][Next]_vars
=============================================================================
