----------------------------- MODULE HashTable -----------------------------
(***************************************************************************)
(* The hash table mxHashTable (platform/common/src/mxHashTable.cpp,        *)
(* inc/mxHashTable.h): an array of bins, each a ring of elements doubly    *)
(* linked, entered at the element inserted first.                          *)
(*                                                                         *)
(* A table takes keys of one of four types, each with its own overload of  *)
(* insert, remove and find; they differ in the hash value and in isSameKey *)
(* only, which are the constants HashOf and NeverSame.  The list dataRoot, *)
(* which is written and never read, is left out.                           *)
(***************************************************************************)
EXTENDS BinIndex, FiniteSets

CONSTANTS
  Keys,
  HashOf,            \* per key, the int that findBinIndex reduces
  NeverSame,         \* keys isSameKey matches with nothing: NULL, and ""
  OwnsKey,           \* whether an element keeps its key in a buffer: strings
  Data,
  Nothing,           \* the NULL find and remove return
  Elements,          \* bound: the memory new takes elements from
  Null               \* no element

ASSUME KeyAssumption ==
  /\ HashOf \in [Keys -> Int]
  /\ NeverSame \subseteq Keys
  /\ OwnsKey \in BOOLEAN
ASSUME DataAssumption == Nothing \notin Data
ASSUME MemoryAssumption == IsFiniteSet(Elements) /\ Null \notin Elements

VARIABLES
  mDuplicateNumber,  \* 0: insert refuses a key that is in the table
  mpBin,             \* per bin, the first element of its ring
  heap,              \* [pPrev, pNext, key, data] of the elements, Nothing if dead
  live,              \* elements that were made and not deleted
  mNumberOfElement,
  frees,             \* per element, how often its key's buffer was freed
  bin,               \* the bin clear is at; the number of bins if it is not running
  pCur,              \* the element clear destroys next, Null if the bin is empty
  out                \* the last operation, its key and what it returned

table == <<mpBin, heap, live, mNumberOfElement, frees>>
vars == <<mDuplicateNumber, table, bin, pCur, out>>

-----------------------------------------------------------------------------
findBinIndex(k) == Reduced(HashOf[k])

\* Seeded bug: elements are compared by their hash value.
isSameKey_ByHash(e, k) == HashOf[heap[e].key] = HashOf[k]

isSameKey(e, k) == heap[e].key = k /\ k \notin NeverSame

\* The ring entered at first, as find and remove walk it: along pNext, until
\* first is met again.
RingFrom(h, size, first) ==
  LET at[n \in 0..size] == IF n = 0 THEN first ELSE h[at[n - 1]].pNext
      length == Min({n \in 1..size : at[n] = first})
  IN  [j \in 1..length |-> at[j - 1]]

Ring(i) == IF mpBin[i] = Null THEN <<>>
           ELSE RingFrom(heap, Cardinality(live), mpBin[i])

\* Seeded bug: the walk starts after the first element.
Lookup_SkipsFirst(k) ==
  LET ring == Ring(findBinIndex(k))
      same == {j \in 2..Len(ring) : isSameKey(ring[j], k)}
  IN  IF same = {} THEN Null ELSE ring[Min(same)]

\* The first element of that key on the ring of its bin, or Null.
Lookup(k) ==
  LET ring == Ring(findBinIndex(k))
      same == {j \in 1..Len(ring) : isSameKey(ring[j], k)}
  IN  IF same = {} THEN Null ELSE ring[Min(same)]

isOnlyOne(e) == heap[e].pPrev = e

\* ~hashElement: e is taken out of its ring; its own pointers stay.
Unlinked(h, e) ==
  IF h[e].pPrev = e THEN h
  ELSE LET h1 == [h EXCEPT ![h[e].pPrev].pNext = h[e].pNext]
       IN  [h1 EXCEPT ![h1[e].pNext].pPrev = h1[e].pPrev]
-----------------------------------------------------------------------------
\* The constructor is told whether the table takes duplicates.
Init ==
  /\ mDuplicateNumber \in {0, 1}
  /\ mpBin = [i \in Bins |-> Null]
  /\ heap = [e \in Elements |-> Nothing]
  /\ live = {}
  /\ mNumberOfElement = 0
  /\ frees = [e \in Elements |-> 0]
  /\ bin = mBinNumber /\ pCur = Null
  /\ out = <<>>

\* insertToBin: a new element, before the first one of its ring.
insertToBin(i, e, k, d) ==
  IF mpBin[i] = Null
  THEN /\ heap' = [heap EXCEPT ![e] = [pPrev |-> e, pNext |-> e, key |-> k, data |-> d]]
       /\ mpBin' = [mpBin EXCEPT ![i] = e]
  ELSE LET old  == mpBin[i]
           last == heap[old].pPrev
           h    == [heap EXCEPT ![e] = [pPrev |-> last, pNext |-> old,
                                        key |-> k, data |-> d],
                                ![last].pNext = e]
       IN  heap' = [h EXCEPT ![old].pPrev = e] /\ UNCHANGED mpBin

insert(k, d) ==
  IF mDuplicateNumber = 0 /\ Lookup(k) # Null
  THEN out' = <<"insert", k, FALSE>> /\ UNCHANGED table
  ELSE \E e \in Elements \ live :
         /\ insertToBin(findBinIndex(k), e, k, d)
         /\ live' = live \cup {e}
         /\ frees' = [frees EXCEPT ![e] = 0]
         /\ mNumberOfElement' = mNumberOfElement + 1
         /\ out' = <<"insert", k, TRUE>>

\* Seeded bug: the bin keeps pointing at the element that is deleted.
remove_KeepsFirst(k) ==
  LET e == Lookup(k)
      i == findBinIndex(k)
  IN  IF e = Null
      THEN out' = <<"remove", k, Nothing>> /\ UNCHANGED table
      ELSE /\ mpBin' = [mpBin EXCEPT ![i] = IF isOnlyOne(e) THEN Null ELSE @]
           /\ heap' = [Unlinked(heap, e) EXCEPT ![e] = Nothing]
           /\ live' = live \ {e}
           /\ frees' = [frees EXCEPT ![e] = IF OwnsKey THEN @ + 1 ELSE @]
           /\ mNumberOfElement' = mNumberOfElement - 1
           /\ out' = <<"remove", k, heap[e].data>>

\* Seeded bug: the counter is not decremented with the last element of a bin.
remove_Miscounts(k) ==
  LET e == Lookup(k)
      i == findBinIndex(k)
  IN  IF e = Null
      THEN out' = <<"remove", k, Nothing>> /\ UNCHANGED table
      ELSE /\ mpBin' = [mpBin EXCEPT ![i] = IF isOnlyOne(e) THEN Null
                                            ELSE IF e = @ THEN heap[e].pNext ELSE @]
           /\ heap' = [Unlinked(heap, e) EXCEPT ![e] = Nothing]
           /\ live' = live \ {e}
           /\ frees' = [frees EXCEPT ![e] = IF OwnsKey THEN @ + 1 ELSE @]
           /\ mNumberOfElement' = IF isOnlyOne(e) THEN mNumberOfElement
                                                  ELSE mNumberOfElement - 1
           /\ out' = <<"remove", k, heap[e].data>>

remove(k) ==
  LET e == Lookup(k)
      i == findBinIndex(k)
  IN  IF e = Null
      THEN out' = <<"remove", k, Nothing>> /\ UNCHANGED table
      ELSE /\ mpBin' = [mpBin EXCEPT ![i] = IF isOnlyOne(e) THEN Null
                                            ELSE IF e = @ THEN heap[e].pNext ELSE @]
           /\ heap' = [Unlinked(heap, e) EXCEPT ![e] = Nothing]
           /\ live' = live \ {e}
           /\ frees' = [frees EXCEPT ![e] = IF OwnsKey THEN @ + 1 ELSE @]
           /\ mNumberOfElement' = mNumberOfElement - 1
           /\ out' = <<"remove", k, heap[e].data>>

find(k) ==
  /\ out' = <<"find", k, IF Lookup(k) = Null THEN Nothing ELSE heap[Lookup(k)].data>>
  /\ UNCHANGED table

Clearing == bin # mBinNumber

\* Where clear enters a ring: at its last element.
LastOf(i) == IF i = mBinNumber \/ mpBin[i] = Null THEN Null ELSE heap[mpBin[i]].pPrev

clear ==
  /\ bin' = 0 /\ pCur' = LastOf(0)
  /\ out' = <<>>
  /\ UNCHANGED table

NextBin == bin' = bin + 1 /\ pCur' = LastOf(bin + 1)

\* clear calls the destructor of an element, and delete calls it again.
Destroy(e) ==
  /\ heap' = [Unlinked(Unlinked(heap, e), e) EXCEPT ![e] = Nothing]
  /\ live' = live \ {e}
  /\ frees' = [frees EXCEPT ![e] = IF OwnsKey THEN @ + 2 ELSE @]

\* A ring is destroyed backwards, from its last element ...
clearElement ==
  /\ Clearing /\ pCur # mpBin[bin]
  /\ Destroy(pCur)
  /\ mNumberOfElement' = mNumberOfElement - 1
  /\ pCur' = heap[pCur].pPrev
  /\ UNCHANGED <<mpBin, bin, out>>

\* Seeded bug: the first element of a ring is not counted off.
clearFirst_Miscounts ==
  /\ Clearing /\ pCur = mpBin[bin] /\ pCur # Null
  /\ Destroy(pCur)
  /\ mpBin' = [mpBin EXCEPT ![bin] = Null]
  /\ NextBin
  /\ UNCHANGED <<mNumberOfElement, out>>

\* ... and its first element comes last.
clearFirst ==
  /\ Clearing /\ pCur = mpBin[bin] /\ pCur # Null
  /\ Destroy(pCur)
  /\ mNumberOfElement' = mNumberOfElement - 1
  /\ mpBin' = [mpBin EXCEPT ![bin] = Null]
  /\ NextBin
  /\ UNCHANGED out

clearEmptyBin ==
  /\ Clearing /\ mpBin[bin] = Null
  /\ NextBin
  /\ UNCHANGED <<table, out>>

\* One thread uses a table: nothing is called while clear runs.
Operation ==
  /\ ~Clearing
  /\ \/ \E k \in Keys, d \in Data : insert(k, d)
     \/ \E k \in Keys : remove(k) \/ find(k)
  /\ UNCHANGED <<bin, pCur>>

Next ==
  /\ UNCHANGED mDuplicateNumber
  /\ \/ Operation
     \/ ~Clearing /\ clear
     \/ clearElement \/ clearFirst \/ clearEmptyBin

Spec == Init /\ [][Next]_vars
-----------------------------------------------------------------------------
(* Properties. *)

Element == [pPrev : Elements, pNext : Elements, key : Keys, data : Data]

TypeOK ==
  /\ mDuplicateNumber \in {0, 1}
  /\ mpBin \in [Bins -> Elements \cup {Null}]
  /\ live \subseteq Elements
  /\ DOMAIN heap = Elements
  /\ \A e \in Elements : IF e \in live THEN heap[e] \in Element ELSE heap[e] = Nothing
  /\ mNumberOfElement \in 0..Cardinality(Elements)
  /\ frees \in [Elements -> Nat]
  /\ bin \in 0..mBinNumber /\ pCur \in Elements \cup {Null}
  /\ out # <<>> => out[1] \in {"insert", "remove", "find"} /\ out[2] \in Keys

\* The links of insertToBin and of ~hashElement: no element that is alive has
\* a pointer to a deleted one, next and previous are inverse to each other, a
\* bin is entered at an element of its own, and the element clear goes on with
\* is the one that is now the last of its ring.
LinksConsistent ==
  /\ \A e \in live :
       /\ heap[e].pNext \in live /\ heap[e].pPrev \in live
       /\ heap[heap[e].pNext].pPrev = e
       /\ heap[heap[e].pPrev].pNext = e
       /\ findBinIndex(heap[heap[e].pNext].key) = findBinIndex(heap[e].key)
       /\ mpBin[findBinIndex(heap[e].key)] # Null
  /\ \A i \in Bins : mpBin[i] # Null =>
       mpBin[i] \in live /\ findBinIndex(heap[mpBin[i]].key) = i
  /\ Clearing => pCur = LastOf(bin) /\ \A i \in 0..(bin - 1) : mpBin[i] = Null

\* Every element that is alive is on the ring of its bin, and size() counts
\* them: none is lost by removing the first element of a ring.
EveryElementOnItsRing ==
  LinksConsistent =>
    /\ UNION {Range(Ring(i)) : i \in Bins} = live
    /\ mNumberOfElement = Cardinality(live)

\* "no duplicate": a table made without duplicates has a key once, unless it
\* is one that isSameKey never matches.
NoDuplicateKeys ==
  mDuplicateNumber = 0 =>
    \A e, f \in live :
      heap[e].key = heap[f].key /\ heap[e].key \notin NeverSame => e = f

\* The buffer of a key is freed once, by the destructor of its element.
KeysFreedOnce == \A e \in Elements : frees[e] <= 1

\* The data under a key, in the order of the ring.
DataUnder(h, ring, k) ==
  LET upTo[j \in 0..Len(ring)] ==
        IF j = 0 THEN <<>>
        ELSE IF h[ring[j]].key = k THEN Append(upTo[j - 1], h[ring[j]].data)
        ELSE upTo[j - 1]
  IN  upTo[Len(ring)]

QueueOf(k) == DataUnder(heap, Ring(findBinIndex(k)), k)

\* A table that is being cleared counts as empty.
Queues == INSTANCE KeyedQueues WITH
  Unfindable <- NeverSame, Capacity <- Cardinality(Elements),
  Duplicates <- mDuplicateNumber # 0,
  queues <- [k \in Keys |-> IF Clearing THEN <<>> ELSE QueueOf(k)],
  size <- IF Clearing THEN 0 ELSE mNumberOfElement

\* The table is a queue of data per key: find and remove give the datum that
\* was inserted first, whichever keys share a bin.
ImplementsQueues == Queues!Spec
=============================================================================
