-------------------------- MODULE HashTable_proofs --------------------------
(***************************************************************************)
(* Proofs about the hash table: findBinIndex for every int; then, for every *)
(* memory, hash function and number of bins, that the rings are whole and  *)
(* that the table is a queue of data per key.                              *)
(*                                                                         *)
(* The invariant says that there is an order of the elements of each bin   *)
(* that both links follow (Shape).  The walks of the code are recursive    *)
(* functions; what they return is proved from the least position at which  *)
(* it would be wrong (LeastExists).                                        *)
(***************************************************************************)
EXTENDS HashTable, FiniteSetTheorems, WellFoundedInduction, TLAPS

-----------------------------------------------------------------------------
(* findBinIndex. *)

\* Division with remainder.
LEMMA Division ==
  ASSUME NEW a \in Int, NEW n \in Nat \ {0}
  PROVE  a % n \in 0..(n - 1) /\ a \div n \in Int /\ a = n * (a \div n) + (a % n)
BY SMT

\* There is one remainder only.
LEMMA RemainderUnique ==
  ASSUME NEW n \in Nat \ {0}, NEW q1 \in Int, NEW q2 \in Int,
         NEW r1 \in 0..(n - 1), NEW r2 \in 0..(n - 1),
         n * q1 + r1 = n * q2 + r2
  PROVE  r1 = r2
<1>1. n * (q1 - q2) = r2 - r1
  BY SMT
<1>2. CASE q1 - q2 >= 1
  <2>1. n * (q1 - q2) >= n
    BY <1>2, SMT
  <2>2. QED
    BY <2>1, <1>1, SMT
<1>3. CASE q1 - q2 <= -1
  <2>1. n * (q1 - q2) <= -n
    BY <1>3, SMT
  <2>2. QED
    BY <2>1, <1>1, SMT
<1>4. CASE q1 - q2 = 0
  BY <1>1, <1>4, SMT
<1>5. QED
  BY <1>2, <1>3, <1>4, SMT

\* findBinIndex: the remainder of C, corrected when it is negative, is what the
\* mask gives, so that a table behaves alike for every number of bins.
THEOREM BranchesAgree ==
  ASSUME NEW hash \in Int
  PROVE  Reduced(hash) = Masked(hash)
<1> DEFINE n == mBinNumber
<1>0. n \in Nat \ {0}
  BY BinAssumption
<1> HIDE DEF n
<1>1. CASE hash >= 0
  <2>1. hash % n \in 0..(n - 1)
    BY <1>0, Division
  <2>2. QED
    BY <1>0, <1>1, <2>1, SMT DEF Reduced, CRem, Masked, n
<1>2. CASE hash < 0
  <2> DEFINE r == (-hash) % n
             q == (-hash) \div n
             m == hash % n
             p == hash \div n
  <2>1. -hash \in Int
    BY SMT
  <2>2. r \in 0..(n - 1) /\ q \in Int /\ -hash = n * q + r
    BY <1>0, <2>1, Division
  <2>3. m \in 0..(n - 1) /\ p \in Int /\ hash = n * p + m
    BY <1>0, Division
  <2>4. CRem(hash, n) = 0 - r
    BY <1>2, SMT DEF CRem
  <2>5. Reduced(hash) = IF 0 - r < 0 THEN 0 - r + n ELSE 0 - r
    BY <2>4 DEF Reduced, n
  <2>6. Masked(hash) = m
    BY DEF Masked, n
  <2> HIDE DEF r, q, m, p
  <2>7. CASE r = 0
    <3>1. n * (-q) + 0 = n * p + m
      BY <1>0, <2>2, <2>3, <2>7, SMT
    <3>2. -q \in Int /\ 0 \in 0..(n - 1)
      BY <1>0, <2>2, SMT
    <3>3. m = 0
      BY <1>0, <3>1, <3>2, <2>3, RemainderUnique, Zenon
    <3>4. 0 - 0 = 0
      BY SMT
    <3>5. Reduced(hash) = 0
      BY <3>4, <2>5, <2>7, SMT
    <3>6. QED
      BY <3>3, <3>5, <2>6
  <2>8. CASE r # 0
    <3>1. n * (-q - 1) + (n - r) = n * p + m
      BY <1>0, <2>2, <2>3, SMT
    <3>2. -q - 1 \in Int /\ n - r \in 0..(n - 1)
      BY <1>0, <2>2, <2>8, SMT
    <3>3. m = n - r
      BY <1>0, <3>1, <3>2, <2>3, RemainderUnique, Zenon
    <3>4. 0 - r < 0
      BY <1>0, <2>2, <2>8, SMT
    <3>5. QED
      BY <1>0, <3>3, <3>4, <2>2, <2>5, <2>6, SMT
  <2>9. QED
    BY <2>7, <2>8
<1>3. QED
  BY <1>1, <1>2, SMT

\* findBinIndex never leaves mpBin, however the hash wrapped around.
THEOREM IndexIsABin ==
  ASSUME NEW hash \in Int
  PROVE  Reduced(hash) \in Bins
<1>1. Masked(hash) \in Bins
  BY BinAssumption, Division DEF Masked, Bins
<1>2. QED
  BY <1>1, BranchesAgree

-----------------------------------------------------------------------------
(* Numbers, recursion and sequences. *)

\* Every set of natural numbers that is not empty has a least member.
LEMMA LeastExists ==
  ASSUME NEW T, T \subseteq Nat, T # {}
  PROVE  \E m \in T : \A n \in T : m <= n
<1> DEFINE R == {ss \in Nat \X Nat : ss[1] < ss[2]}
<1>1. IsWellFoundedOn(R, Nat)
  BY NatLessThanWellFounded, Zenon DEF OpToRel
<1>2. \A x, y \in Nat : x < y => <<x, y>> \in R
  BY SMT
<1> HIDE DEF R
<1>3. PICK m \in T : \A n \in T : ~ (<<n, m>> \in R)
  BY <1>1, WFMin
<1>4. ASSUME NEW n \in T PROVE m <= n
  <2>1. ~ (n < m)
    BY <1>2, <1>3
  <2>2. QED
    BY <2>1, SMT
<1>5. QED
  BY <1>4

\* Min is that member.
LEMMA MinIsLeast ==
  ASSUME NEW T, T \subseteq Nat, T # {}
  PROVE  Min(T) \in T /\ \A n \in T : Min(T) <= n
BY LeastExists, Zenon DEF Min

\* f is defined on 0..N from its value at 0 and a step.
IsRecursive(f, N, S, start, step) ==
  /\ f \in [0..N -> S]
  /\ f[0] = start
  /\ \A n \in 1..N : f[n] = step[<<f[n - 1], n>>]

LEMMA Recursion ==
  ASSUME NEW N \in Nat, NEW S, NEW start \in S, NEW step \in [S \X Nat -> S]
  PROVE  \E f : IsRecursive(f, N, S, start, step)
<1> DEFINE Is(f, n) == /\ f[0] = start
                       /\ \A i \in 1..n : f[i] = step[<<f[i - 1], i>>]
           T == {n \in 0..N : ~ \E f \in [0..n -> S] : Is(f, n)}
<1>1. SUFFICES ASSUME T # {} PROVE FALSE
  <2>1. N \notin T => \E f \in [0..N -> S] : Is(f, N)
    BY N \in 0..N
  <2>2. (\E f \in [0..N -> S] : Is(f, N)) => \E f : IsRecursive(f, N, S, start, step)
    BY Zenon DEF IsRecursive
  <2>3. QED
    BY <2>1, <2>2, Zenon
<1>2. PICK m \in T : \A n \in T : m <= n
  BY <1>1, LeastExists, T \subseteq Nat
<1>3. CASE m = 0
  <2> DEFINE f == [i \in 0..0 |-> start]
  <2>1. f \in [0..m -> S] /\ Is(f, m)
    BY <1>3
  <2>2. QED
    BY <2>1
<1>4. CASE m # 0
  <2>1. m \in 1..N /\ m - 1 \in 0..N /\ m - 1 \notin T
    BY <1>2, <1>4, SMT
  <2>2. PICK f \in [0..(m-1) -> S] : Is(f, m - 1)
    BY <2>1
  <2> DEFINE g == [i \in 0..m |-> IF i = m THEN step[<<f[m-1], m>>] ELSE f[i]]
  <2>3. f[m-1] \in S /\ step[<<f[m-1], m>>] \in S
    BY <2>1
  <2>4. g \in [0..m -> S]
    BY <2>1, <2>3
  <2>5. g[m] = step[<<f[m - 1], m>>] /\ \A i \in 0..(m - 1) : g[i] = f[i]
    BY <2>1
  <2> HIDE DEF g
  <2>6. g[0] = start
    BY <2>1, <2>2, <2>5
  <2>7. ASSUME NEW i \in 1..m PROVE g[i] = step[<<g[i - 1], i>>]
    <3>1. CASE i = m
      BY <3>1, <2>1, <2>5
    <3>2. CASE i # m
      <4>1. i \in 1..(m - 1) /\ i - 1 \in 0..(m - 1) /\ i \in 0..(m - 1)
        BY <3>2, <2>1
      <4>2. f[i] = step[<<f[i - 1], i>>]
        BY <4>1, <2>2
      <4>3. QED
        BY <4>1, <4>2, <2>5
    <3>3. QED
      BY <3>1, <3>2
  <2>8. Is(g, m)
    BY <2>6, <2>7
  <2>9. QED
    BY <2>4, <2>8
<1>5. QED
  BY <1>3, <1>4

\* What Append makes.
LEMMA Appended ==
  ASSUME NEW S, NEW s \in Seq(S), NEW x \in S
  PROVE  /\ Append(s, x) \in Seq(S) /\ Append(s, x) # <<>>
         /\ Len(Append(s, x)) = Len(s) + 1
         /\ Append(s, x)[Len(s) + 1] = x
         /\ \A j \in 1..Len(s) : Append(s, x)[j] = s[j]
BY SMT

\* Head and Tail of a sequence to which something is appended.
LEMMA AppendedToNonEmpty ==
  ASSUME NEW S, NEW s \in Seq(S), NEW x \in S, s # <<>>
  PROVE  Head(Append(s, x)) = Head(s) /\ Tail(Append(s, x)) = Append(Tail(s), x)
<1>1. Len(s) \in Nat /\ Len(s) >= 1
  BY SMT
<1>2. Append(s, x) \in Seq(S) /\ Append(s, x) # <<>> /\ Len(Append(s, x)) = Len(s) + 1
  BY Appended
<1>3. Head(Append(s, x)) = Head(s)
  BY <1>1, <1>2, Appended, SMT
<1>4. Tail(s) \in Seq(S) /\ Len(Tail(s)) = Len(s) - 1 /\ \A j \in 1..(Len(s) - 1) : Tail(s)[j] = s[j + 1]
  BY <1>1, SMT
<1> DEFINE a == Append(s, x)
           l == Tail(a)
           r == Append(Tail(s), x)
<1>5. r \in Seq(S) /\ Len(r) = Len(s) /\ r[Len(s)] = x /\ \A j \in 1..(Len(s) - 1) : r[j] = s[j + 1]
  <2>1. r \in Seq(S) /\ Len(r) = Len(Tail(s)) + 1 /\ r[Len(Tail(s)) + 1] = x
        /\ \A j \in 1..Len(Tail(s)) : r[j] = Tail(s)[j]
    BY <1>4, Appended
  <2> HIDE DEF r
  <2>2. QED
    BY <2>1, <1>4, <1>1
<1>6. a \in Seq(S) /\ Len(a) = Len(s) + 1 /\ a[Len(s) + 1] = x /\ \A j \in 1..Len(s) : a[j] = s[j]
  BY Appended
<1> HIDE DEF a, r
<1>7. l \in Seq(S) /\ Len(l) = Len(s) /\ \A j \in 1..Len(s) : l[j] = a[j + 1]
  BY <1>1, <1>6, SMT
<1> HIDE DEF l
<1>8. \A j \in 1..Len(s) : l[j] = r[j]
  BY <1>1, <1>5, <1>6, <1>7, SMT
<1>9. l = r
  BY <1>1, <1>5, <1>7, <1>8, SMT
<1>10. QED
  BY <1>3, <1>9 DEF l, r, a
-----------------------------------------------------------------------------
(* The walk around a ring. *)

\* The positions after and before j, of L positions on a ring.
After(j, L) == IF j = L THEN 1 ELSE j + 1
Before(j, L) == IF j = 1 THEN L ELSE j - 1

Distinct(s) == \A i, j \in 1..Len(s) : s[i] = s[j] => i = j

\* find and remove see each element of a ring once, in the order of its links.
LEMMA RingFromIs ==
  ASSUME NEW h, NEW S, NEW s \in Seq(S), s # <<>>, Distinct(s),
         \A j \in 1..Len(s) : h[s[j]].pNext = s[After(j, Len(s))],
         NEW size \in Nat, Len(s) <= size
  PROVE  RingFrom(h, size, s[1]) = s
<1> DEFINE L == Len(s)
           R == {s[j] : j \in 1..L}
           first == s[1]
           Eq(f) == f = [n \in 0..size |-> IF n = 0 THEN first ELSE h[f[n - 1]].pNext]
           at == CHOOSE f : Eq(f)
           length == Min({n \in 1..size : at[n] = first})
<1>1. L \in Nat /\ L >= 1 /\ L \in 1..size /\ first \in R
  BY SMT
<1>2. RingFrom(h, size, s[1]) = [j \in 1..length |-> at[j - 1]]
  BY Zenon DEF RingFrom
<1>3. \A x \in R : h[x].pNext \in R
  BY <1>1 DEF After
<1>4. \A j \in 1..L : h[s[j]].pNext = s[After(j, L)]
  OBVIOUS
<1>5. \A i, j \in 1..L : s[i] = s[j] => i = j
  BY DEF Distinct
<1>6. s \in [1..L -> S]
  BY SMT
<1>7. s = [j \in 1..L |-> s[j]]
  BY <1>6
<1> HIDE DEF L, R, first
<1>8. \E f : Eq(f)
  <2> DEFINE step == [x \in R \X Nat |-> h[x[1]].pNext]
  <2>1. step \in [R \X Nat -> R]
    BY <1>3
  <2> HIDE DEF step
  <2>2. PICK f \in [0..size -> R] : /\ f[0] = first
                                    /\ \A n \in 1..size : f[n] = step[<<f[n - 1], n>>]
    <3>1. \E f : IsRecursive(f, size, R, first, step)
      BY <1>1, <2>1, Recursion
    <3>2. QED
      BY <3>1, Zenon DEF IsRecursive
  <2>3. ASSUME NEW n \in 1..size PROVE f[n] = h[f[n - 1]].pNext
    <3>1. f[n - 1] \in R /\ n \in Nat
      BY <2>2
    <3>2. step[<<f[n - 1], n>>] = h[f[n - 1]].pNext
      BY <3>1 DEF step
    <3>3. QED
      BY <3>2, <2>2
  <2> DEFINE g == [n \in 0..size |-> IF n = 0 THEN first ELSE h[f[n - 1]].pNext]
  <2>4. \A n \in 0..size : f[n] = g[n]
    BY <2>2, <2>3
  <2>5. f = g
    <3>1. f \in [0..size -> R] /\ g = [n \in 0..size |-> g[n]]
      BY <2>2
    <3> HIDE DEF g
    <3>2. QED
      BY <3>1, <2>4
  <2>6. QED
    BY <2>5
<1>9. Eq(at)
  BY <1>8, Zenon
<1>10. at[0] = first /\ \A n \in 1..size : at[n] = h[at[n - 1]].pNext
  <2> HIDE DEF at
  <2>1. QED
    BY <1>9
<1> HIDE DEF at, Eq
<1>11. \A n \in 0..(L - 1) : at[n] = s[n + 1]
  <2> DEFINE T == {n \in 0..(L - 1) : at[n] # s[n + 1]}
  <2>1. SUFFICES ASSUME T # {} PROVE FALSE
    OBVIOUS
  <2>2. PICK m \in T : \A n \in T : m <= n
    BY <2>1, LeastExists, T \subseteq Nat
  <2>3. m # 0
    BY <1>10, <2>2 DEF first
  <2>4. m - 1 \in 0..(L - 1) /\ m - 1 \notin T /\ m \in 1..size /\ m \in 1..L /\ m # L
    BY <2>2, <2>3, <1>1, SMT
  <2>5. at[m - 1] = s[m]
    BY <2>4
  <2>6. at[m] = s[m + 1]
    BY <2>4, <2>5, <1>4, <1>10 DEF After
  <2>7. QED
    BY <2>2, <2>6
<1>12. at[L] = first
  <2>1. L - 1 \in 0..(L - 1) /\ L \in 1..L /\ (L - 1) + 1 = L
    BY <1>1
  <2>2. at[L - 1] = s[L] /\ h[s[L]].pNext = s[1]
    BY <2>1, <1>4, <1>11 DEF After
  <2>3. QED
    BY <2>2, <1>1, <1>10 DEF first
<1>13. \A n \in 1..(L - 1) : at[n] # first
  BY <1>1, <1>5, <1>11 DEF first
<1>14. length = L
  <2> DEFINE T == {n \in 1..size : at[n] = first}
  <2>1. L \in T /\ T \subseteq Nat
    BY <1>1, <1>12
  <2>2. length \in T /\ length <= L
    <3>1. Min(T) \in T /\ \A n \in T : Min(T) <= n
      BY <2>1, MinIsLeast
    <3>2. QED
      BY <3>1, <2>1
  <2> HIDE DEF length
  <2>3. QED
    BY <2>2, <1>1, <1>13
<1> HIDE DEF length
<1>15. [j \in 1..length |-> at[j - 1]] = [j \in 1..L |-> s[j]]
  BY <1>1, <1>11, <1>14
<1>16. QED
  BY <1>2, <1>7, <1>15

-----------------------------------------------------------------------------
(* The data under a key. *)

\* f gathers the data under k from position to position.
Gathers(f, h, s, k) ==
  /\ f \in [0..Len(s) -> Seq(Data)]
  /\ f[0] = <<>>
  /\ \A j \in 1..Len(s) :
       f[j] = IF h[s[j]].key = k THEN Append(f[j - 1], h[s[j]].data) ELSE f[j - 1]

HasData(h, s) == \A j \in 1..Len(s) : h[s[j]].data \in Data

\* DataUnder is the only function that does.
LEMMA DataUnderIs ==
  ASSUME NEW h, NEW s \in Seq(Elements), NEW k, NEW f, Gathers(f, h, s, k)
  PROVE  DataUnder(h, s, k) = f[Len(s)]
<1> DEFINE L == Len(s)
           Eq(g) == g = [j \in 0..L |->
                           IF j = 0 THEN <<>>
                           ELSE IF h[s[j]].key = k THEN Append(g[j - 1], h[s[j]].data)
                           ELSE g[j - 1]]
           upTo == CHOOSE g : Eq(g)
<1>1. DataUnder(h, s, k) = upTo[L]
  BY Zenon DEF DataUnder
<1>2. L \in Nat
  OBVIOUS
<1>3. /\ f = [j \in 0..L |-> f[j]]
      /\ f[0] = <<>>
      /\ \A j \in 1..L : f[j] = IF h[s[j]].key = k THEN Append(f[j - 1], h[s[j]].data) ELSE f[j - 1]
  BY DEF Gathers
<1> HIDE DEF L
<1>4. Eq(f)
  <2> DEFINE g == [j \in 0..L |-> IF j = 0 THEN <<>>
                           ELSE IF h[s[j]].key = k THEN Append(f[j - 1], h[s[j]].data)
                           ELSE f[j - 1]]
  <2>1. \A j \in 0..L : f[j] = g[j]
    BY <1>2, <1>3
  <2>2. [j \in 0..L |-> f[j]] = g
    BY <2>1
  <2>3. QED
    BY <2>2, <1>3
<1>5. Eq(upTo)
  BY <1>4, Zenon
<1> HIDE DEF upTo
<1>6. upTo[0] = <<>> /\ \A j \in 1..L : upTo[j] = IF h[s[j]].key = k
                     THEN Append(upTo[j - 1], h[s[j]].data) ELSE upTo[j - 1]
  <2> DEFINE Val(j) == IF j = 0 THEN <<>>
                       ELSE IF h[s[j]].key = k THEN Append(upTo[j - 1], h[s[j]].data)
                       ELSE upTo[j - 1]
  <2>1. \A j \in 0..L : upTo[j] = Val(j)
    BY <1>5, Zenon
  <2>2. 0 \in 0..L /\ \A j \in 1..L : j \in 0..L /\ j # 0
    BY <1>2
  <2>3. QED
    BY <2>1, <2>2, Zenon
<1>7. \A j \in 0..L : upTo[j] = f[j]
  <2> DEFINE T == {j \in 0..L : upTo[j] # f[j]}
  <2>1. SUFFICES ASSUME T # {} PROVE FALSE
    OBVIOUS
  <2>2. PICK m \in T : \A j \in T : m <= j
    BY <2>1, LeastExists, T \subseteq Nat
  <2>3. m # 0
    BY <1>3, <1>6, <2>2
  <2>4. m - 1 \in 0..L /\ m - 1 \notin T /\ m \in 1..L
    BY <1>2, <2>2, <2>3, SMT
  <2>5. upTo[m - 1] = f[m - 1]
    BY <2>4
  <2>6. upTo[m] = f[m]
    BY <2>4, <2>5, <1>3, <1>6, Zenon
  <2>7. QED
    BY <2>2, <2>6
<1>8. QED
  BY <1>1, <1>2, <1>7 DEF L

LEMMA Gathered ==
  ASSUME NEW h, NEW s \in Seq(Elements), NEW k, HasData(h, s)
  PROVE  /\ \E f : Gathers(f, h, s, k)
         /\ DataUnder(h, s, k) \in Seq(Data)
<1> DEFINE L == Len(s)
           Step(x) == IF x[2] \in 1..L /\ h[s[x[2]]].key = k
                      THEN Append(x[1], h[s[x[2]]].data) ELSE x[1]
           step == [x \in Seq(Data) \X Nat |-> Step(x)]
<1>1. L \in Nat /\ <<>> \in Seq(Data)
  OBVIOUS
<1>2. ASSUME NEW x \in Seq(Data) \X Nat PROVE Step(x) \in Seq(Data)
  <2>1. x[1] \in Seq(Data)
    OBVIOUS
  <2>2. CASE x[2] \in 1..L /\ h[s[x[2]]].key = k
    <3>1. h[s[x[2]]].data \in Data
      BY <2>2 DEF HasData
    <3>2. Append(x[1], h[s[x[2]]].data) \in Seq(Data)
      BY <2>1, <3>1, Appended
    <3>3. QED
      BY <3>2, <2>2
  <2>3. QED
    BY <2>1, <2>2
<1>3. step \in [Seq(Data) \X Nat -> Seq(Data)]
  BY <1>2
<1>4. \A q \in Seq(Data), j \in 1..L :
        step[<<q, j>>] = IF h[s[j]].key = k THEN Append(q, h[s[j]].data) ELSE q
  OBVIOUS
<1> HIDE DEF step
<1>5. PICK f : IsRecursive(f, L, Seq(Data), <<>>, step)
  BY <1>1, <1>3, Recursion
<1>6. f \in [0..L -> Seq(Data)] /\ f[0] = <<>> /\ \A n \in 1..L : f[n] = step[<<f[n - 1], n>>]
  BY <1>5, Zenon DEF IsRecursive
<1>7. ASSUME NEW j \in 1..L
      PROVE  f[j] = IF h[s[j]].key = k THEN Append(f[j - 1], h[s[j]].data) ELSE f[j - 1]
  <2>1. f[j - 1] \in Seq(Data)
    BY <1>1, <1>6
  <2>2. f[j] = step[<<f[j - 1], j>>]
    BY <1>6
  <2>3. step[<<f[j - 1], j>>] = IF h[s[j]].key = k THEN Append(f[j - 1], h[s[j]].data) ELSE f[j - 1]
    BY <1>4, <2>1, Zenon
  <2>4. QED
    BY <2>2, <2>3, Zenon
<1>8. Gathers(f, h, s, k)
  BY <1>6, <1>7, Zenon DEF Gathers
<1>9. DataUnder(h, s, k) = f[L]
  BY <1>8, DataUnderIs
<1>10. L \in 0..L
  BY <1>1
<1>11. QED
  BY <1>6, <1>8, <1>9, <1>10

\* The elements of s say in g what they say in h.
SameData(g, h, s) == \A j \in 1..Len(s) : g[s[j]].key = h[s[j]].key /\ g[s[j]].data = h[s[j]].data

\* Only keys and data matter to the queues, the links do not.
LEMMA DataUnderSame ==
  ASSUME NEW g, NEW h, NEW s \in Seq(Elements), NEW k, HasData(h, s), SameData(g, h, s)
  PROVE  DataUnder(g, s, k) = DataUnder(h, s, k)
<1>1. PICK f : Gathers(f, h, s, k)
  BY Gathered
<1>2. ASSUME NEW j \in 1..Len(s)
      PROVE  f[j] = IF g[s[j]].key = k THEN Append(f[j - 1], g[s[j]].data) ELSE f[j - 1]
  <2>1. f[j] = IF h[s[j]].key = k THEN Append(f[j - 1], h[s[j]].data) ELSE f[j - 1]
    BY <1>1, Zenon DEF Gathers
  <2>2. g[s[j]].key = h[s[j]].key /\ g[s[j]].data = h[s[j]].data
    BY DEF SameData
  <2>3. QED
    BY <2>1, <2>2, Zenon
<1>3. Gathers(f, g, s, k)
  BY <1>1, <1>2, Zenon DEF Gathers
<1>4. QED
  BY <1>1, <1>3, DataUnderIs

\* A key that is on no element of the ring has no data.
LEMMA DataUnderNone ==
  ASSUME NEW h, NEW s \in Seq(Elements), NEW k, \A j \in 1..Len(s) : h[s[j]].key # k
  PROVE  DataUnder(h, s, k) = <<>>
<1> DEFINE f == [j \in 0..Len(s) |-> <<>>]
<1>1. f \in [0..Len(s) -> Seq(Data)]
  OBVIOUS
<1>2. Len(s) \in Nat /\ \A j \in 0..Len(s) : f[j] = <<>>
  OBVIOUS
<1> HIDE DEF f
<1>3. f[0] = <<>> /\ f[Len(s)] = <<>> /\ \A j \in 1..Len(s) : f[j] = <<>> /\ f[j - 1] = <<>>
  BY <1>2
<1>4. Gathers(f, h, s, k)
  BY <1>1, <1>3, Zenon DEF Gathers
<1>5. QED
  BY <1>3, <1>4, DataUnderIs

\* An element at the end of the ring is at the end of the queue of its key.
LEMMA DataUnderAppended ==
  ASSUME NEW h, NEW s \in Seq(Elements), NEW e \in Elements, NEW k,
         HasData(h, s), h[e].data \in Data
  PROVE  DataUnder(h, Append(s, e), k) =
           IF h[e].key = k THEN Append(DataUnder(h, s, k), h[e].data) ELSE DataUnder(h, s, k)
<1> DEFINE L == Len(s)
           t == Append(s, e)
<1>1. PICK f : Gathers(f, h, s, k)
  BY Gathered
<1>2. DataUnder(h, s, k) = f[L] /\ L \in Nat
  BY <1>1, DataUnderIs
<1>3. t \in Seq(Elements) /\ Len(t) = L + 1 /\ t[L + 1] = e /\ \A j \in 1..L : t[j] = s[j]
  BY Appended
<1> DEFINE last == IF h[e].key = k THEN Append(f[L], h[e].data) ELSE f[L]
           g == [j \in 0..(L + 1) |-> IF j = L + 1 THEN last ELSE f[j]]
<1>4. f \in [0..L -> Seq(Data)] /\ f[0] = <<>>
  BY <1>1 DEF Gathers
<1>5. last \in Seq(Data)
  <2>1. f[L] \in Seq(Data)
    BY <1>2, <1>4
  <2>2. Append(f[L], h[e].data) \in Seq(Data)
    BY <2>1, Appended
  <2>3. QED
    BY <2>1, <2>2
<1> HIDE DEF last, t, L
<1>6. /\ g \in [0..(L + 1) -> Seq(Data)]
      /\ g[L + 1] = last
      /\ \A j \in 0..L : g[j] = f[j]
  BY <1>2, <1>4, <1>5
<1> HIDE DEF g
<1>7. ASSUME NEW j \in 1..(L + 1)
      PROVE  g[j] = IF h[t[j]].key = k THEN Append(g[j - 1], h[t[j]].data) ELSE g[j - 1]
  <2>1. CASE j = L + 1
    <3>1. j - 1 = L /\ L \in 0..L
      BY <2>1, <1>2
    <3>2. g[j - 1] = f[L] /\ t[j] = e /\ g[j] = last
      BY <3>1, <2>1, <1>3, <1>6
    <3>3. QED
      BY <3>2, Zenon DEF last
  <2>2. CASE j # L + 1
    <3>1. j \in 1..L /\ j \in 0..L /\ j - 1 \in 0..L
      BY <2>2, <1>2
    <3>2. g[j - 1] = f[j - 1] /\ t[j] = s[j] /\ g[j] = f[j]
      BY <3>1, <1>3, <1>6
    <3>3. f[j] = IF h[s[j]].key = k THEN Append(f[j - 1], h[s[j]].data) ELSE f[j - 1]
      BY <1>1, <3>1, Zenon DEF Gathers, L
    <3>4. QED
      BY <3>2, <3>3, Zenon
  <2>3. QED
    BY <2>1, <2>2
<1>8. g[0] = <<>>
  BY <1>2, <1>4, <1>6
<1>9. Gathers(g, h, t, k)
  BY <1>3, <1>6, <1>7, <1>8, Zenon DEF Gathers
<1>10. DataUnder(h, t, k) = last
  BY <1>3, <1>6, <1>9, DataUnderIs
<1>11. QED
  BY <1>2, <1>10, Zenon DEF last, t, L

\* A sequence without its element at p.
Without(s, p) == [j \in 1..(Len(s) - 1) |-> IF j < p THEN s[j] ELSE s[j + 1]]

LEMMA WithoutIs ==
  ASSUME NEW S, NEW s \in Seq(S), NEW p \in 1..Len(s)
  PROVE  /\ Without(s, p) \in Seq(S)
         /\ Len(Without(s, p)) = Len(s) - 1
         /\ \A j \in 1..(Len(s) - 1) : Without(s, p)[j] = IF j < p THEN s[j] ELSE s[j + 1]
<1> DEFINE t == Without(s, p)
<1>1. Len(s) - 1 \in Nat /\ \A j \in 1..(Len(s) - 1) : j \in 1..Len(s) /\ j + 1 \in 1..Len(s)
  OBVIOUS
<1>2. t \in [1..(Len(s) - 1) -> S] /\ \A j \in 1..(Len(s) - 1) : t[j] = IF j < p THEN s[j] ELSE s[j + 1]
  BY <1>1 DEF Without
<1> HIDE DEF t
<1>3. t \in Seq(S) /\ Len(t) = Len(s) - 1
  <2>1. PICK n \in Nat : n = Len(s) - 1
    BY <1>1
  <2>2. t \in [1..n -> S]
    BY <1>2, <2>1
  <2>3. t \in Seq(S) /\ Len(t) = n
    BY <2>2, SMT
  <2>4. QED
    BY <2>1, <2>3
<1>4. QED
  BY <1>2, <1>3, Zenon DEF t

\* Taking out an element leaves the queues of other keys alone ...
LEMMA DataUnderOther ==
  ASSUME NEW h, NEW s \in Seq(Elements), NEW p \in 1..Len(s), NEW k,
         HasData(h, s), h[s[p]].key # k
  PROVE  DataUnder(h, Without(s, p), k) = DataUnder(h, s, k)
<1> DEFINE L == Len(s)
           t == Without(s, p)
<1>1. PICK f : Gathers(f, h, s, k)
  BY Gathered
<1>2. DataUnder(h, s, k) = f[L] /\ L \in Nat /\ p \in 1..L
  BY <1>1, DataUnderIs
<1>3. t \in Seq(Elements) /\ Len(t) = L - 1 /\ \A j \in 1..(L - 1) : t[j] = IF j < p THEN s[j] ELSE s[j + 1]
  BY WithoutIs
<1> DEFINE g == [j \in 0..(L - 1) |-> IF j < p THEN f[j] ELSE f[j + 1]]
<1>4. f \in [0..L -> Seq(Data)] /\ f[0] = <<>>
  BY <1>1 DEF Gathers
<1>5. \A j \in 1..L : f[j] = IF h[s[j]].key = k THEN Append(f[j - 1], h[s[j]].data) ELSE f[j - 1]
  BY <1>1, Zenon DEF Gathers
<1> HIDE DEF t, L
<1>6. /\ g \in [0..(L - 1) -> Seq(Data)]
      /\ \A j \in 0..(L - 1) : g[j] = IF j < p THEN f[j] ELSE f[j + 1]
  <2>1. \A j \in 0..(L - 1) : j \in 0..L /\ j + 1 \in 0..L
    BY <1>2
  <2>2. QED
    BY <2>1, <1>4
<1> HIDE DEF g
<1>7. f[p] = f[p - 1]
  <2>1. h[s[p]].key # k /\ p \in 1..L
    BY <1>2
  <2>2. QED
    BY <2>1, <1>5, Zenon
<1>8. ASSUME NEW j \in 1..(L - 1)
      PROVE  g[j] = IF h[t[j]].key = k THEN Append(g[j - 1], h[t[j]].data) ELSE g[j - 1]
  <2>1. j \in 0..(L - 1) /\ j - 1 \in 0..(L - 1) /\ j \in 1..L /\ j + 1 \in 1..L /\ (j - 1) + 1 = j /\ (j + 1) - 1 = j
    BY <1>2
  <2>2. CASE j < p
    <3>1. j - 1 < p
      BY <2>2, <2>1, <1>2
    <3>2. g[j] = f[j] /\ g[j - 1] = f[j - 1] /\ t[j] = s[j]
      BY <2>1, <2>2, <3>1, <1>3, <1>6
    <3>3. QED
      BY <2>1, <3>2, <1>5, Zenon
  <2>3. CASE ~(j < p)
    <3>1. g[j] = f[j + 1] /\ t[j] = s[j + 1]
      BY <2>1, <2>3, <1>3, <1>6
    <3>2. g[j - 1] = f[j]
      <4>1. CASE j = p
        <5>1. j - 1 < p
          BY <4>1, <1>2
        <5>2. QED
          BY <5>1, <4>1, <2>1, <1>6, <1>7
      <4>2. CASE j # p
        <5>1. ~(j - 1 < p)
          BY <4>2, <2>3, <2>1, <1>2
        <5>2. QED
          BY <5>1, <2>1, <1>6
      <4>3. QED
        BY <4>1, <4>2
    <3>3. f[j + 1] = IF h[s[j + 1]].key = k THEN Append(f[j], h[s[j + 1]].data) ELSE f[j]
      <4>1. f[j + 1] = IF h[s[j + 1]].key = k THEN Append(f[(j + 1) - 1], h[s[j + 1]].data) ELSE f[(j + 1) - 1]
        BY <2>1, <1>5, Zenon
      <4>2. QED
        BY <4>1, <2>1, Zenon
    <3>4. QED
      BY <3>1, <3>2, <3>3, Zenon
  <2>4. QED
    BY <2>2, <2>3
<1>9. g[0] = <<>> /\ g[L - 1] = f[L]
  <2>1. 0 \in 0..(L - 1) /\ 0 < p /\ L - 1 \in 0..(L - 1) /\ (L - 1) + 1 = L
    BY <1>2
  <2>2. g[0] = <<>>
    BY <2>1, <1>4, <1>6
  <2>3. CASE L - 1 < p
    <3>1. p = L
      BY <2>3, <1>2
    <3>2. QED
      BY <2>1, <2>2, <2>3, <3>1, <1>6, <1>7
  <2>4. CASE ~(L - 1 < p)
    BY <2>1, <2>2, <2>4, <1>6
  <2>5. QED
    BY <2>3, <2>4
<1>10. Gathers(g, h, t, k)
  BY <1>3, <1>6, <1>8, <1>9, Zenon DEF Gathers
<1>11. DataUnder(h, t, k) = g[L - 1]
  <2>1. DataUnder(h, t, k) = g[Len(t)]
    BY <1>3, <1>10, DataUnderIs
  <2>2. QED
    BY <2>1, <1>3, Zenon
<1>12. QED
  BY <1>2, <1>9, <1>11 DEF t

\* ... and the first element of a key is the head of its queue.
LEMMA DataUnderFirst ==
  ASSUME NEW h, NEW s \in Seq(Elements), NEW p \in 1..Len(s), NEW k,
         HasData(h, s), h[s[p]].key = k, \A j \in 1..(p - 1) : h[s[j]].key # k
  PROVE  /\ DataUnder(h, s, k) # <<>>
         /\ Head(DataUnder(h, s, k)) = h[s[p]].data
         /\ DataUnder(h, Without(s, p), k) = Tail(DataUnder(h, s, k))
<1> DEFINE L == Len(s)
           t == Without(s, p)
           d == h[s[p]].data
<1>1. PICK f : Gathers(f, h, s, k)
  BY Gathered
<1>2. DataUnder(h, s, k) = f[L] /\ L \in Nat /\ p \in 1..L /\ d \in Data
  BY <1>1, DataUnderIs DEF HasData
<1>3. t \in Seq(Elements) /\ Len(t) = L - 1 /\ \A j \in 1..(L - 1) : t[j] = IF j < p THEN s[j] ELSE s[j + 1]
  BY WithoutIs
<1>4. f \in [0..L -> Seq(Data)] /\ f[0] = <<>>
  BY <1>1 DEF Gathers
<1>5. \A j \in 1..L : f[j] = IF h[s[j]].key = k THEN Append(f[j - 1], h[s[j]].data) ELSE f[j - 1]
  BY <1>1, Zenon DEF Gathers
<1>6. \A j \in 1..L : h[s[j]].data \in Data
  BY DEF HasData
<1> HIDE DEF t, L, d
<1>7. \A j \in 0..(p - 1) : f[j] = <<>>
  <2> DEFINE T == {j \in 0..(p - 1) : f[j] # <<>>}
  <2>1. SUFFICES ASSUME T # {} PROVE FALSE
    OBVIOUS
  <2>2. PICK m \in T : \A j \in T : m <= j
    BY <2>1, LeastExists, T \subseteq Nat
  <2>3. m # 0
    BY <1>4, <2>2
  <2>4. m - 1 \in 0..(p - 1) /\ m - 1 \notin T /\ m \in 1..L /\ m \in 1..(p - 1)
    BY <1>2, <2>2, <2>3, SMT
  <2>5. f[m - 1] = <<>> /\ h[s[m]].key # k
    BY <2>4
  <2>6. f[m] = f[m - 1]
    BY <2>4, <2>5, <1>5, Zenon
  <2>7. QED
    BY <2>2, <2>5, <2>6
<1>8. f[p] = <<d>>
  <2>1. f[p - 1] = <<>>
    BY <1>2, <1>7
  <2>2. f[p] = Append(f[p - 1], d)
    BY <1>2, <1>5, Zenon DEF d
  <2>3. QED
    BY <2>1, <2>2, <1>2
\* From p on, the queue has d at its head.
<1>9. \A j \in p..L : f[j] \in Seq(Data) /\ f[j] # <<>> /\ Head(f[j]) = d
  <2> DEFINE T == {j \in p..L : ~(f[j] # <<>> /\ Head(f[j]) = d)}
  <2>0. \A j \in p..L : f[j] \in Seq(Data)
    BY <1>2, <1>4
  <2>1. SUFFICES ASSUME T # {} PROVE FALSE
    BY <2>0
  <2>2. PICK m \in T : \A j \in T : m <= j
    <3>1. T \subseteq Nat
      BY <1>2
    <3>2. QED
      BY <2>1, <3>1, LeastExists
  <2>3. m # p
    <3>1. <<d>> # <<>> /\ Head(<<d>>) = d
      BY SMT
    <3>2. QED
      BY <1>8, <2>2, <3>1
  <2>4. m - 1 \in p..L /\ m - 1 \notin T /\ m \in 1..L
    BY <1>2, <2>2, <2>3, SMT
  <2>5. f[m - 1] \in Seq(Data) /\ f[m - 1] # <<>> /\ Head(f[m - 1]) = d
    BY <2>0, <2>4
  <2>6. CASE h[s[m]].key = k
    <3>1. f[m] = Append(f[m - 1], h[s[m]].data)
      BY <2>4, <2>6, <1>5, Zenon
    <3>2. h[s[m]].data \in Data
      BY <2>4, <1>6
    <3>3. Append(f[m - 1], h[s[m]].data) # <<>> /\ Head(Append(f[m - 1], h[s[m]].data)) = Head(f[m - 1])
      BY <2>5, <3>2, Appended, AppendedToNonEmpty
    <3>4. QED
      BY <2>2, <2>5, <3>1, <3>3, Zenon
  <2>7. CASE h[s[m]].key # k
    <3>1. f[m] = f[m - 1]
      BY <2>4, <2>7, <1>5, Zenon
    <3>2. QED
      BY <2>2, <2>5, <3>1
  <2>8. QED
    BY <2>6, <2>7
<1> DEFINE g == [j \in 0..(L - 1) |-> IF j < p THEN <<>> ELSE Tail(f[j + 1])]
<1>10. /\ g \in [0..(L - 1) -> Seq(Data)]
       /\ \A j \in 0..(L - 1) : g[j] = IF j < p THEN <<>> ELSE Tail(f[j + 1])
  <2>1. ASSUME NEW j \in 0..(L - 1), ~(j < p) PROVE Tail(f[j + 1]) \in Seq(Data)
    <3>1. j + 1 \in p..L
      BY <2>1, <1>2
    <3>2. f[j + 1] \in Seq(Data) /\ f[j + 1] # <<>>
      BY <3>1, <1>9
    <3>3. QED
      BY <3>2
  <2>2. <<>> \in Seq(Data)
    OBVIOUS
  <2>3. QED
    BY <2>1, <2>2
<1> HIDE DEF g
<1>11. ASSUME NEW j \in 1..(L - 1)
       PROVE  g[j] = IF h[t[j]].key = k THEN Append(g[j - 1], h[t[j]].data) ELSE g[j - 1]
  <2>1. j \in 0..(L - 1) /\ j - 1 \in 0..(L - 1) /\ j \in 1..L /\ j + 1 \in 1..L /\ (j - 1) + 1 = j /\ (j + 1) - 1 = j
    BY <1>2
  <2>2. CASE j < p
    <3>1. j - 1 < p /\ j \in 1..(p - 1)
      BY <2>2, <2>1, <1>2
    <3>2. g[j] = <<>> /\ g[j - 1] = <<>> /\ t[j] = s[j]
      BY <2>1, <2>2, <3>1, <1>3, <1>10
    <3>3. h[t[j]].key # k
      BY <3>1, <3>2
    <3>4. QED
      BY <3>2, <3>3, Zenon
  <2>3. CASE ~(j < p)
    <3>1. g[j] = Tail(f[j + 1]) /\ t[j] = s[j + 1] /\ j \in p..L
      <4>1. g[j] = Tail(f[j + 1])
        BY <2>1, <2>3, <1>10, Zenon
      <4>2. t[j] = s[j + 1]
        BY <2>3, <1>3, Zenon
      <4>3. QED
        BY <4>1, <4>2, <2>1, <2>3, <1>2
    <3>2. g[j - 1] = Tail(f[j])
      <4>1. CASE j = p
        <5>1. j - 1 < p /\ Tail(<<d>>) = <<>>
          BY <4>1, <1>2
        <5>2. QED
          BY <5>1, <4>1, <2>1, <1>8, <1>10
      <4>2. CASE j # p
        <5>1. ~(j - 1 < p)
          BY <4>2, <2>3, <2>1, <1>2
        <5>2. QED
          BY <5>1, <2>1, <1>10
      <4>3. QED
        BY <4>1, <4>2
    <3>3. f[j + 1] = IF h[s[j + 1]].key = k THEN Append(f[j], h[s[j + 1]].data) ELSE f[j]
      <4>1. f[j + 1] = IF h[s[j + 1]].key = k THEN Append(f[(j + 1) - 1], h[s[j + 1]].data) ELSE f[(j + 1) - 1]
        BY <2>1, <1>5, Zenon
      <4>2. QED
        BY <4>1, <2>1, Zenon
    <3>4. Tail(Append(f[j], h[s[j + 1]].data)) = Append(Tail(f[j]), h[s[j + 1]].data)
      BY <3>1, <2>1, <1>6, <1>9, AppendedToNonEmpty
    <3>5. QED
      BY <3>1, <3>2, <3>3, <3>4, Zenon
  <2>4. QED
    BY <2>2, <2>3
<1>12. g[0] = <<>> /\ g[L - 1] = Tail(f[L])
  <2>1. 0 \in 0..(L - 1) /\ 0 < p /\ L - 1 \in 0..(L - 1) /\ (L - 1) + 1 = L
    BY <1>2
  <2>2. g[0] = <<>>
    BY <2>1, <1>10
  <2>3. CASE L - 1 < p
    <3>1. p = L /\ Tail(<<d>>) = <<>>
      BY <2>3, <1>2
    <3>2. QED
      BY <2>1, <2>2, <2>3, <3>1, <1>8, <1>10
  <2>4. CASE ~(L - 1 < p)
    BY <2>1, <2>2, <2>4, <1>10
  <2>5. QED
    BY <2>3, <2>4
<1>13. Gathers(g, h, t, k)
  BY <1>3, <1>10, <1>11, <1>12, Zenon DEF Gathers
<1>14. DataUnder(h, t, k) = g[L - 1]
  <2>1. DataUnder(h, t, k) = g[Len(t)]
    BY <1>3, <1>13, DataUnderIs
  <2>2. QED
    BY <2>1, <1>3, Zenon
<1>15. L \in p..L
  BY <1>2
<1>16. f[L] # <<>> /\ Head(f[L]) = d
  BY <1>9, <1>15
<1>17. QED
  BY <1>2, <1>12, <1>14, <1>16 DEF t, d

-----------------------------------------------------------------------------
(* The heap of elements. *)

HeapOK(h, lv) ==
  /\ lv \subseteq Elements
  /\ DOMAIN h = Elements
  /\ \A x \in lv : h[x] \in Element

LEMMA PNextSet ==
  ASSUME NEW h, NEW lv, HeapOK(h, lv), NEW a \in lv, NEW v \in Elements
  PROVE  LET g == [h EXCEPT ![a].pNext = v]
         IN  /\ HeapOK(g, lv)
             /\ \A x \in Elements : x # a => g[x] = h[x]
             /\ g[a].pNext = v /\ g[a].pPrev = h[a].pPrev
             /\ g[a].key = h[a].key /\ g[a].data = h[a].data
<1> DEFINE r == [h[a] EXCEPT !.pNext = v]
           g == [h EXCEPT ![a].pNext = v]
<1>1. h[a] \in Element /\ a \in Elements
  BY DEF HeapOK
<1>2. r \in Element /\ r.pNext = v /\ r.pPrev = h[a].pPrev /\ r.key = h[a].key /\ r.data = h[a].data
  BY <1>1 DEF Element
<1>3. DOMAIN g = Elements /\ \A x \in Elements : g[x] = IF x = a THEN r ELSE h[x]
  BY Zenon DEF HeapOK
<1> HIDE DEF r, g
<1>4. HeapOK(g, lv)
  BY <1>2, <1>3 DEF HeapOK
<1>5. QED
  BY <1>1, <1>2, <1>3, <1>4, Zenon DEF g

LEMMA PPrevSet ==
  ASSUME NEW h, NEW lv, HeapOK(h, lv), NEW a \in lv, NEW v \in Elements
  PROVE  LET g == [h EXCEPT ![a].pPrev = v]
         IN  /\ HeapOK(g, lv)
             /\ \A x \in Elements : x # a => g[x] = h[x]
             /\ g[a].pPrev = v /\ g[a].pNext = h[a].pNext
             /\ g[a].key = h[a].key /\ g[a].data = h[a].data
<1> DEFINE r == [h[a] EXCEPT !.pPrev = v]
           g == [h EXCEPT ![a].pPrev = v]
<1>1. h[a] \in Element /\ a \in Elements
  BY DEF HeapOK
<1>2. r \in Element /\ r.pPrev = v /\ r.pNext = h[a].pNext /\ r.key = h[a].key /\ r.data = h[a].data
  BY <1>1 DEF Element
<1>3. DOMAIN g = Elements /\ \A x \in Elements : g[x] = IF x = a THEN r ELSE h[x]
  BY Zenon DEF HeapOK
<1> HIDE DEF r, g
<1>4. HeapOK(g, lv)
  BY <1>2, <1>3 DEF HeapOK
<1>5. QED
  BY <1>1, <1>2, <1>3, <1>4, Zenon DEF g

\* In g the neighbours of e are linked to each other.
TakenOut(g, h, lv, e) ==
  /\ HeapOK(g, lv)
  /\ g[e] = h[e]
  /\ \A x \in Elements \ lv : g[x] = h[x]
  /\ \A x \in lv \ {e} :
       /\ g[x].pNext = IF x = h[e].pPrev THEN h[e].pNext ELSE h[x].pNext
       /\ g[x].pPrev = IF x = h[e].pNext THEN h[e].pPrev ELSE h[x].pPrev
       /\ g[x].key = h[x].key /\ g[x].data = h[x].data

\* ~hashElement does that.
LEMMA UnlinkedTakesOut ==
  ASSUME NEW h, NEW lv, HeapOK(h, lv), NEW e \in lv, h[e].pPrev \in lv, h[e].pNext \in lv,
         h[e].pPrev = e <=> h[e].pNext = e
  PROVE  TakenOut(Unlinked(h, e), h, lv, e)
<1> DEFINE prev == h[e].pPrev
           next == h[e].pNext
<1>1. CASE prev = e
  <2>1. Unlinked(h, e) = h
    BY <1>1 DEF Unlinked
  <2>2. QED
    BY <1>1, <2>1, Zenon DEF TakenOut
<1>2. CASE prev # e
  <2> DEFINE h1 == [h EXCEPT ![prev].pNext = next]
             h2 == [h1 EXCEPT ![next].pPrev = prev]
  <2>0. lv \subseteq Elements /\ prev \in Elements /\ next \in Elements /\ e \in Elements /\ next # e
    BY <1>2 DEF HeapOK
  <2>1. /\ HeapOK(h1, lv)
        /\ \A x \in Elements : x # prev => h1[x] = h[x]
        /\ h1[prev].pNext = next /\ h1[prev].pPrev = h[prev].pPrev
        /\ h1[prev].key = h[prev].key /\ h1[prev].data = h[prev].data
    BY <2>0, PNextSet
  <2>2. h1[e] = h[e]
    BY <1>2, <2>0, <2>1
  <2>3. Unlinked(h, e) = h2
    BY <1>2, <2>2, Zenon DEF Unlinked
  <2> HIDE DEF h1
  <2>4. /\ HeapOK(h2, lv)
        /\ \A x \in Elements : x # next => h2[x] = h1[x]
        /\ h2[next].pPrev = prev /\ h2[next].pNext = h1[next].pNext
        /\ h2[next].key = h1[next].key /\ h2[next].data = h1[next].data
    BY <2>0, <2>1, PPrevSet
  <2> HIDE DEF h2, prev, next
  <2>5. h2[e] = h[e]
    BY <2>0, <2>2, <2>4
  <2>6. \A x \in Elements \ lv : h2[x] = h[x]
    BY <2>0, <2>1, <2>4 DEF prev, next
  <2>7. ASSUME NEW x \in lv \ {e}
        PROVE  /\ h2[x].pNext = IF x = prev THEN next ELSE h[x].pNext
               /\ h2[x].pPrev = IF x = next THEN prev ELSE h[x].pPrev
               /\ h2[x].key = h[x].key /\ h2[x].data = h[x].data
    <3>1. x \in Elements
      BY <2>0
    <3>2. /\ h1[x].pNext = IF x = prev THEN next ELSE h[x].pNext
          /\ h1[x].pPrev = h[x].pPrev
          /\ h1[x].key = h[x].key /\ h1[x].data = h[x].data
      BY <3>1, <2>1, Zenon
    <3>3. /\ h2[x].pPrev = IF x = next THEN prev ELSE h1[x].pPrev
          /\ h2[x].pNext = h1[x].pNext
          /\ h2[x].key = h1[x].key /\ h2[x].data = h1[x].data
      BY <3>1, <2>4, Zenon
    <3>4. QED
      BY <3>2, <3>3, Zenon
  <2>8. QED
    BY <2>3, <2>4, <2>5, <2>6, <2>7, Zenon DEF TakenOut, prev, next
<1>3. QED
  BY <1>1, <1>2

\* Run twice, it does it once.
LEMMA UnlinkedTwice ==
  ASSUME NEW h, NEW lv, HeapOK(h, lv), NEW e \in lv, h[e].pPrev \in lv, h[e].pNext \in lv,
         h[e].pPrev = e <=> h[e].pNext = e
  PROVE  TakenOut(Unlinked(Unlinked(h, e), e), h, lv, e)
<1> DEFINE g == Unlinked(h, e)
           f == Unlinked(g, e)
<1>1. TakenOut(g, h, lv, e)
  BY UnlinkedTakesOut
<1> HIDE DEF g
<1>2. HeapOK(g, lv) /\ g[e] = h[e]
  BY <1>1, Zenon DEF TakenOut
<1>3. TakenOut(f, g, lv, e)
  BY <1>2, UnlinkedTakesOut
<1> HIDE DEF f
<1>4. g[e].pPrev = h[e].pPrev /\ g[e].pNext = h[e].pNext
  BY <1>2
<1>5. ASSUME NEW x \in lv \ {e}
      PROVE  /\ f[x].pNext = IF x = h[e].pPrev THEN h[e].pNext ELSE h[x].pNext
             /\ f[x].pPrev = IF x = h[e].pNext THEN h[e].pPrev ELSE h[x].pPrev
             /\ f[x].key = h[x].key /\ f[x].data = h[x].data
  <2>1. /\ f[x].pNext = IF x = g[e].pPrev THEN g[e].pNext ELSE g[x].pNext
        /\ f[x].pPrev = IF x = g[e].pNext THEN g[e].pPrev ELSE g[x].pPrev
        /\ f[x].key = g[x].key /\ f[x].data = g[x].data
    BY <1>3, Zenon DEF TakenOut
  <2>2. /\ g[x].pNext = IF x = h[e].pPrev THEN h[e].pNext ELSE h[x].pNext
        /\ g[x].pPrev = IF x = h[e].pNext THEN h[e].pPrev ELSE h[x].pPrev
        /\ g[x].key = h[x].key /\ g[x].data = h[x].data
    BY <1>1, Zenon DEF TakenOut
  <2>3. QED
    BY ONLY <2>1, <2>2, <1>4
<1>6. HeapOK(f, lv) /\ f[e] = h[e] /\ \A x \in Elements \ lv : f[x] = h[x]
  BY <1>1, <1>3, Zenon DEF TakenOut
<1>7. QED
  BY <1>5, <1>6, Zenon DEF TakenOut, f, g

\* In g, e is taken out of its ring and deleted.
Deleted(g, h, lv, e) ==
  /\ HeapOK(g, lv \ {e})
  /\ \A x \in Elements \ (lv \ {e}) : g[x] = Nothing
  /\ \A x \in lv \ {e} :
       /\ g[x].pNext = IF x = h[e].pPrev THEN h[e].pNext ELSE h[x].pNext
       /\ g[x].pPrev = IF x = h[e].pNext THEN h[e].pPrev ELSE h[x].pPrev
       /\ g[x].key = h[x].key /\ g[x].data = h[x].data

LEMMA TakenOutAndDeleted ==
  ASSUME NEW g, NEW h, NEW lv, NEW e \in lv, TakenOut(g, h, lv, e),
         \A x \in Elements \ lv : h[x] = Nothing
  PROVE  Deleted([g EXCEPT ![e] = Nothing], h, lv, e)
<1> DEFINE f == [g EXCEPT ![e] = Nothing]
<1>1. HeapOK(g, lv) /\ \A x \in Elements \ lv : g[x] = h[x]
  BY Zenon DEF TakenOut
<1>2. /\ lv \subseteq Elements /\ DOMAIN f = Elements
      /\ \A x \in Elements : f[x] = IF x = e THEN Nothing ELSE g[x]
  BY <1>1 DEF HeapOK
<1> HIDE DEF f
<1>3. HeapOK(f, lv \ {e})
  BY <1>1, <1>2 DEF HeapOK
<1>4. \A x \in Elements \ (lv \ {e}) : f[x] = Nothing
  BY <1>1, <1>2
<1>5. \A x \in lv \ {e} : f[x] = g[x]
  BY <1>2
<1>6. \A x \in lv \ {e} :
       /\ f[x].pNext = IF x = h[e].pPrev THEN h[e].pNext ELSE h[x].pNext
       /\ f[x].pPrev = IF x = h[e].pNext THEN h[e].pPrev ELSE h[x].pPrev
       /\ f[x].key = h[x].key /\ f[x].data = h[x].data
  <2>1. ASSUME NEW x \in lv \ {e}
        PROVE  /\ g[x].pNext = IF x = h[e].pPrev THEN h[e].pNext ELSE h[x].pNext
               /\ g[x].pPrev = IF x = h[e].pNext THEN h[e].pPrev ELSE h[x].pPrev
               /\ g[x].key = h[x].key /\ g[x].data = h[x].data
    BY Zenon DEF TakenOut
  <2>2. ASSUME NEW x \in lv \ {e}
        PROVE  /\ f[x].pNext = IF x = h[e].pPrev THEN h[e].pNext ELSE h[x].pNext
               /\ f[x].pPrev = IF x = h[e].pNext THEN h[e].pPrev ELSE h[x].pPrev
               /\ f[x].key = h[x].key /\ f[x].data = h[x].data
    <3>1. f[x] = g[x]
      BY <1>5
    <3>2. QED
      BY <2>1, <3>1
  <2>3. QED
    BY <2>2
<1>7. QED
  BY <1>3, <1>4, <1>6, Zenon DEF Deleted, f

-----------------------------------------------------------------------------
(* The rings of a table. *)

\* Both links follow s, and the bin is entered at its first element.
Follows(first, h, s) ==
  /\ first = IF s = <<>> THEN Null ELSE s[1]
  /\ \A j \in 1..Len(s) : /\ h[s[j]].pNext = s[After(j, Len(s))]
                          /\ h[s[j]].pPrev = s[Before(j, Len(s))]

\* The elements of s are alive and belong to bin i.
Belongs(i, h, lv, s) ==
  \A j \in 1..Len(s) : s[j] \in lv /\ findBinIndex(h[s[j]].key) = i

IsOn(e, s) == \E j \in 1..Len(s) : s[j] = e

\* order[i] is the order of bin i, and every element that is alive is on the
\* ring of its bin.
Shape(order, bins, h, lv) ==
  /\ order \in [Bins -> Seq(Elements)]
  /\ \A i \in Bins : /\ Distinct(order[i])
                     /\ Follows(bins[i], h, order[i])
                     /\ Belongs(i, h, lv, order[i])
  /\ \A e \in lv : IsOn(e, order[findBinIndex(h[e].key)])

LEMMA BinOfKey == \A k \in Keys : findBinIndex(k) \in Bins
BY KeyAssumption, IndexIsABin DEF findBinIndex

\* A ring has no more elements than there are.
LEMMA RingIsShort ==
  ASSUME NEW order, NEW bins, NEW h, NEW lv, Shape(order, bins, h, lv), IsFiniteSet(lv),
         NEW i \in Bins
  PROVE  Len(order[i]) <= Cardinality(lv) /\ Cardinality(lv) \in Nat
<1> DEFINE s == order[i]
<1>1. s \in Seq(Elements) /\ Distinct(s) /\ \A j \in 1..Len(s) : s[j] \in lv
  BY DEF Shape, Belongs
<1> HIDE DEF s
<1>2. s \in Injection(1..Len(s), lv)
  <2>1. s \in [1..Len(s) -> lv]
    BY <1>1
  <2>2. QED
    BY <1>1, <2>1 DEF Injection, IsInjective, Distinct
<1>3. Cardinality(1..Len(s)) <= Cardinality(lv)
  BY <1>2, FS_Injection
<1>4. Cardinality(1..Len(s)) = Len(s)
  <2>1. Len(s) \in Nat /\ 1 \in Int /\ Len(s) \in Int
    BY <1>1
  <2>2. Cardinality(1..Len(s)) = IF 1 > Len(s) THEN 0 ELSE Len(s) - 1 + 1
    BY <2>1, FS_Interval
  <2>3. QED
    BY <2>1, <2>2
<1>5. Cardinality(lv) \in Nat
  BY FS_CardinalityType
<1>6. QED
  BY <1>3, <1>4, <1>5 DEF s

\* The walk of the code goes through the order.
LEMMA RingIsOrder ==
  ASSUME NEW order, NEW bins, NEW h, NEW lv, Shape(order, bins, h, lv), IsFiniteSet(lv),
         lv \subseteq Elements, NEW i \in Bins
  PROVE  /\ (bins[i] = Null <=> order[i] = <<>>)
         /\ bins[i] # Null => RingFrom(h, Cardinality(lv), bins[i]) = order[i]
<1> DEFINE s == order[i]
<1>1. s \in Seq(Elements) /\ Distinct(s) /\ Follows(bins[i], h, s)
  BY DEF Shape
<1>2. Len(s) <= Cardinality(lv) /\ Cardinality(lv) \in Nat
  BY RingIsShort
<1> HIDE DEF s
<1>3. CASE s = <<>>
  <2>1. bins[i] = Null
    BY <1>1, <1>3 DEF Follows
  <2>2. QED
    BY <1>3, <2>1 DEF s
<1>4. CASE s # <<>>
  <2>1. bins[i] = s[1] /\ \A j \in 1..Len(s) : h[s[j]].pNext = s[After(j, Len(s))]
    BY <1>1, <1>4 DEF Follows
  <2>2. s[1] \in Elements
    BY <1>1, <1>4
  <2>3. RingFrom(h, Cardinality(lv), s[1]) = s
    BY <1>1, <1>2, <1>4, <2>1, RingFromIs
  <2>4. QED
    BY <1>4, <2>1, <2>2, <2>3, MemoryAssumption DEF s
<1>5. QED
  BY <1>3, <1>4

\* Where the neighbours of the other positions are once position p is gone.
Kept(j, p) == IF j < p THEN j ELSE j + 1

LEMMA NeighboursWithout ==
  ASSUME NEW L \in Nat, NEW p \in 1..L, NEW j \in 1..(L - 1)
  PROVE  /\ Kept(j, p) \in 1..L /\ Kept(j, p) # p
         /\ After(Kept(j, p), L) \in 1..L /\ Before(Kept(j, p), L) \in 1..L
         /\ After(p, L) \in 1..L /\ Before(p, L) \in 1..L
         /\ After(j, L - 1) \in 1..(L - 1) /\ Before(j, L - 1) \in 1..(L - 1)
         /\ Kept(After(j, L - 1), p) = IF Kept(j, p) = Before(p, L) THEN After(p, L)
                                       ELSE After(Kept(j, p), L)
         /\ Kept(Before(j, L - 1), p) = IF Kept(j, p) = After(p, L) THEN Before(p, L)
                                        ELSE Before(Kept(j, p), L)
BY SMT DEF Kept, After, Before

\* The order without an element is the order of the heap without it.
LEMMA ShapeRemoved ==
  ASSUME NEW order, NEW bins, NEW h, NEW lv, Shape(order, bins, h, lv), HeapOK(h, lv),
         NEW i \in Bins, NEW p \in 1..Len(order[i]),
         NEW g, Deleted(g, h, lv, order[i][p]),
         NEW b, \A m \in Bins \ {i} : b[m] = bins[m],
         b[i] = IF Len(order[i]) = 1 THEN Null ELSE IF p = 1 THEN order[i][2] ELSE bins[i]
  PROVE  Shape([order EXCEPT ![i] = Without(order[i], p)], b, g, lv \ {order[i][p]})
<1> DEFINE s == order[i]
           L == Len(s)
           e == s[p]
           t == Without(s, p)
           o == [order EXCEPT ![i] = t]
           left == lv \ {e}
<1>1. /\ s \in Seq(Elements) /\ L \in Nat /\ p \in 1..L
      /\ \A j, m \in 1..L : s[j] = s[m] => j = m
      /\ bins[i] = IF s = <<>> THEN Null ELSE s[1]
      /\ \A j \in 1..L : h[s[j]].pNext = s[After(j, L)] /\ h[s[j]].pPrev = s[Before(j, L)]
      /\ \A j \in 1..L : s[j] \in lv /\ findBinIndex(h[s[j]].key) = i
  BY DEF Shape, Distinct, Follows, Belongs
<1>2. t \in Seq(Elements) /\ Len(t) = L - 1 /\ \A j \in 1..(L - 1) : t[j] = s[Kept(j, p)]
  <2>1. t \in Seq(Elements) /\ Len(t) = L - 1
        /\ \A j \in 1..(L - 1) : t[j] = IF j < p THEN s[j] ELSE s[j + 1]
    BY <1>1, WithoutIs
  <2>2. QED
    BY <2>1, Zenon DEF Kept
<1>3. \A x \in left :
       /\ g[x].pNext = IF x = h[e].pPrev THEN h[e].pNext ELSE h[x].pNext
       /\ g[x].pPrev = IF x = h[e].pNext THEN h[e].pPrev ELSE h[x].pPrev
       /\ g[x].key = h[x].key /\ g[x].data = h[x].data
  BY Zenon DEF Deleted
<1>4. h[e].pNext = s[After(p, L)] /\ h[e].pPrev = s[Before(p, L)]
  BY <1>1
<1>5. b[i] = IF L = 1 THEN Null ELSE IF p = 1 THEN s[2] ELSE bins[i]
  OBVIOUS
<1>6. /\ order \in [Bins -> Seq(Elements)]
      /\ \A m \in Bins : /\ Distinct(order[m])
                         /\ Follows(bins[m], h, order[m])
                         /\ Belongs(m, h, lv, order[m])
      /\ \A x \in lv : IsOn(x, order[findBinIndex(h[x].key)])
  BY Zenon DEF Shape
<1>7. /\ o \in [Bins -> Seq(Elements)]
      /\ o[i] = t
      /\ \A m \in Bins \ {i} : o[m] = order[m]
  BY <1>2, <1>6
<1>8. \A j \in 1..L : s[j] = e => j = p
  BY <1>1
<1>9. Shape(order, bins, h, lv) /\ \A m \in Bins \ {i} : b[m] = bins[m]
  OBVIOUS
<1>10. e \in lv /\ findBinIndex(h[e].key) = i
  BY <1>1
<1> HIDE DEF s, L, e, t, o
\* The ring the element was on.
<1>11. ASSUME NEW j \in 1..(L - 1)
       PROVE  /\ t[j] \in left
              /\ g[t[j]].pNext = t[After(j, L - 1)]
              /\ g[t[j]].pPrev = t[Before(j, L - 1)]
              /\ findBinIndex(g[t[j]].key) = i
  <2> DEFINE q == Kept(j, p)
  <2>1. /\ q \in 1..L /\ q # p
        /\ After(q, L) \in 1..L /\ Before(q, L) \in 1..L
        /\ After(p, L) \in 1..L /\ Before(p, L) \in 1..L
        /\ After(j, L - 1) \in 1..(L - 1) /\ Before(j, L - 1) \in 1..(L - 1)
        /\ Kept(After(j, L - 1), p) = IF q = Before(p, L) THEN After(p, L) ELSE After(q, L)
        /\ Kept(Before(j, L - 1), p) = IF q = After(p, L) THEN Before(p, L) ELSE Before(q, L)
    BY <1>1, NeighboursWithout
  <2>2. t[j] = s[q]
    BY <1>2
  <2> HIDE DEF q
  <2>3. s[q] \in left
    BY <1>1, <1>8, <2>1
  <2>4. s[q] = s[Before(p, L)] <=> q = Before(p, L)
    BY <1>1, <2>1
  <2>5. s[q] = s[After(p, L)] <=> q = After(p, L)
    BY <1>1, <2>1
  <2>6. g[s[q]].pNext = s[Kept(After(j, L - 1), p)]
    <3>1. g[s[q]].pNext = IF s[q] = h[e].pPrev THEN h[e].pNext ELSE h[s[q]].pNext
      BY <1>3, <2>3, Zenon
    <3>2. h[s[q]].pNext = s[After(q, L)]
      BY <1>1, <2>1
    <3>3. QED
      BY ONLY <3>1, <3>2, <2>1, <2>4, <1>4
  <2>7. g[s[q]].pPrev = s[Kept(Before(j, L - 1), p)]
    <3>1. g[s[q]].pPrev = IF s[q] = h[e].pNext THEN h[e].pPrev ELSE h[s[q]].pPrev
      BY <1>3, <2>3, Zenon
    <3>2. h[s[q]].pPrev = s[Before(q, L)]
      BY <1>1, <2>1
    <3>3. QED
      BY ONLY <3>1, <3>2, <2>1, <2>5, <1>4
  <2>8. findBinIndex(g[s[q]].key) = i
    <3>1. g[s[q]].key = h[s[q]].key
      BY <1>3, <2>3
    <3>2. findBinIndex(h[s[q]].key) = i
      BY <1>1, <2>1
    <3>3. QED
      BY <3>1, <3>2
  <2>9. t[After(j, L - 1)] = s[Kept(After(j, L - 1), p)] /\ t[Before(j, L - 1)] = s[Kept(Before(j, L - 1), p)]
    BY <1>2, <2>1, Zenon
  <2>10. QED
    BY <2>2, <2>3, <2>6, <2>7, <2>8, <2>9
<1>12. Distinct(t)
  <2>1. ASSUME NEW j \in 1..(L - 1), NEW m \in 1..(L - 1), t[j] = t[m] PROVE j = m
    <3>1. Kept(j, p) \in 1..L /\ Kept(m, p) \in 1..L
      BY <1>1, NeighboursWithout
    <3>2. s[Kept(j, p)] = s[Kept(m, p)]
      BY <1>2, <2>1, Zenon
    <3>3. Kept(j, p) = Kept(m, p)
      BY <1>1, <3>1, <3>2
    <3>4. QED
      BY <3>3, <1>1 DEF Kept
  <2>2. QED
    BY <1>2, <2>1 DEF Distinct
<1>13. Follows(b[i], g, t)
  <2>1. b[i] = IF t = <<>> THEN Null ELSE t[1]
    <3>1. CASE L = 1
      <4>1. t = <<>> /\ b[i] = Null
        BY <3>1, <1>2, <1>5
      <4>2. QED
        BY <4>1
    <3>2. CASE L # 1
      <4>1. t # <<>> /\ 1 \in 1..(L - 1) /\ t[1] = s[Kept(1, p)]
        BY <3>2, <1>1, <1>2
      <4>2. Kept(1, p) = IF p = 1 THEN 2 ELSE 1
        BY <1>1 DEF Kept
      <4>3. bins[i] = s[1] /\ s # <<>>
        BY <1>1 DEF L
      <4>4. QED
        BY ONLY <3>2, <4>1, <4>2, <4>3, <1>5
    <3>3. QED
      BY <3>1, <3>2
  <2>2. \A j \in 1..Len(t) : /\ g[t[j]].pNext = t[After(j, Len(t))]
                             /\ g[t[j]].pPrev = t[Before(j, Len(t))]
    BY <1>2, <1>11, Zenon
  <2>3. QED
    BY <2>1, <2>2, Zenon DEF Follows
<1>14. Belongs(i, g, left, t)
  BY <1>2, <1>11, Zenon DEF Belongs
\* The other rings.
<1>15. ASSUME NEW m \in Bins \ {i}
       PROVE  Follows(b[m], g, order[m]) /\ Belongs(m, g, left, order[m])
  <2> DEFINE r == order[m]
             n == Len(r)
  <2>1. /\ r \in Seq(Elements) /\ n \in Nat
        /\ bins[m] = IF r = <<>> THEN Null ELSE r[1]
        /\ \A j \in 1..n : h[r[j]].pNext = r[After(j, n)] /\ h[r[j]].pPrev = r[Before(j, n)]
        /\ \A j \in 1..n : r[j] \in lv /\ findBinIndex(h[r[j]].key) = m
    BY <1>6 DEF Follows, Belongs
  <2>2. b[m] = bins[m] /\ m # i
    BY <1>9
  <2> HIDE DEF r, n
  <2>3. ASSUME NEW j \in 1..n
        PROVE  /\ r[j] \in left
               /\ g[r[j]].pNext = h[r[j]].pNext /\ g[r[j]].pPrev = h[r[j]].pPrev
               /\ g[r[j]].key = h[r[j]].key
    <3>1. r[j] \in left
      BY <1>10, <2>1, <2>2
    <3>2. After(p, L) \in 1..L /\ Before(p, L) \in 1..L
      BY <1>1 DEF After, Before
    <3>3. r[j] # h[e].pPrev /\ r[j] # h[e].pNext
      <4>1. findBinIndex(h[r[j]].key) = m
        BY <2>1
      <4>2. findBinIndex(h[s[After(p, L)]].key) = i /\ findBinIndex(h[s[Before(p, L)]].key) = i
        BY <1>1, <3>2
      <4>3. QED
        BY ONLY <4>1, <4>2, <2>2, <1>4
    <3>4. QED
      BY <1>3, <3>1, <3>3, Zenon
  <2>4. \A j \in 1..n : /\ g[r[j]].pNext = r[After(j, n)] /\ g[r[j]].pPrev = r[Before(j, n)]
                        /\ r[j] \in left /\ findBinIndex(g[r[j]].key) = m
    BY <2>1, <2>3
  <2>5. QED
    BY <2>1, <2>2, <2>4, Zenon DEF Follows, Belongs, n, r
<1>16. ASSUME NEW x \in left PROVE IsOn(x, o[findBinIndex(g[x].key)])
  <2> DEFINE m == findBinIndex(h[x].key)
  <2>1. findBinIndex(g[x].key) = m
    BY <1>3
  <2>2. x \in lv /\ x # e
    OBVIOUS
  <2>3. IsOn(x, order[m])
    BY <1>6, <2>2
  <2>4. h[x] \in Element
    BY <2>2 DEF HeapOK
  <2>5. m \in Bins
    BY <2>4, BinOfKey DEF Element
  <2> HIDE DEF m
  <2>6. CASE m = i
    <3>1. PICK j \in 1..L : s[j] = x
      BY <2>3, <2>6 DEF IsOn, s, L
    <3>2. j # p
      BY <2>2, <3>1 DEF e
    <3> DEFINE q == IF j < p THEN j ELSE j - 1
    <3>3. q \in 1..(L - 1) /\ Kept(q, p) = j
      BY <3>2, <1>1 DEF Kept
    <3>4. t[q] = x
      BY <3>1, <3>3, <1>2
    <3>5. IsOn(x, t)
      BY <3>3, <3>4, <1>2 DEF IsOn
    <3>6. QED
      BY <2>1, <2>6, <3>5, <1>7
  <2>7. CASE m # i
    <3>1. o[m] = order[m]
      BY <2>5, <2>7, <1>7
    <3>2. QED
      BY <3>1, <2>1, <2>3
  <2>8. QED
    BY <2>6, <2>7
<1>17. \A m \in Bins : Distinct(o[m]) /\ Follows(b[m], g, o[m]) /\ Belongs(m, g, left, o[m])
  <2>1. TAKE m \in Bins
  <2>2. CASE m = i
    BY <2>2, <1>7, <1>12, <1>13, <1>14
  <2>3. CASE m # i
    <3>1. m \in Bins \ {i}
      BY <2>3
    <3>2. o[m] = order[m] /\ Distinct(order[m])
      BY <3>1, <1>6, <1>7
    <3>3. Follows(b[m], g, order[m]) /\ Belongs(m, g, left, order[m])
      BY <3>1, <1>15
    <3>4. QED
      BY <3>2, <3>3
  <2>4. QED
    BY <2>2, <2>3
<1>18. Shape(o, b, g, left)
  BY <1>7, <1>16, <1>17, Zenon DEF Shape
<1>19. QED
  BY <1>18 DEF o, t, e, s

\* In g, e is a new element between the last and the first of the ring s.
Added(g, h, lv, s, e, k, d) ==
  /\ HeapOK(g, lv \cup {e})
  /\ \A x \in Elements \ (lv \cup {e}) : g[x] = h[x]
  /\ g[e].key = k /\ g[e].data = d
  /\ g[e].pNext = IF s = <<>> THEN e ELSE s[1]
  /\ g[e].pPrev = IF s = <<>> THEN e ELSE s[Len(s)]
  /\ \A x \in lv : /\ g[x].pNext = IF s # <<>> /\ x = s[Len(s)] THEN e ELSE h[x].pNext
                   /\ g[x].pPrev = IF s # <<>> /\ x = s[1] THEN e ELSE h[x].pPrev
                   /\ g[x].key = h[x].key /\ g[x].data = h[x].data

\* The order with e at the end is the order of the heap with e.
LEMMA ShapeAdded ==
  ASSUME NEW order, NEW bins, NEW h, NEW lv, Shape(order, bins, h, lv), HeapOK(h, lv),
         NEW k \in Keys, NEW d, NEW e \in Elements \ lv, NEW i \in Bins, i = findBinIndex(k),
         NEW g, Added(g, h, lv, order[i], e, k, d),
         NEW b, \A m \in Bins \ {i} : b[m] = bins[m],
         b[i] = IF order[i] = <<>> THEN e ELSE bins[i]
  PROVE  Shape([order EXCEPT ![i] = Append(order[i], e)], b, g, lv \cup {e})
<1> DEFINE s == order[i]
           L == Len(s)
           t == Append(s, e)
           o == [order EXCEPT ![i] = t]
           all == lv \cup {e}
<1>1. /\ s \in Seq(Elements) /\ L \in Nat
      /\ \A j, m \in 1..L : s[j] = s[m] => j = m
      /\ bins[i] = IF s = <<>> THEN Null ELSE s[1]
      /\ \A j \in 1..L : h[s[j]].pNext = s[After(j, L)] /\ h[s[j]].pPrev = s[Before(j, L)]
      /\ \A j \in 1..L : s[j] \in lv /\ findBinIndex(h[s[j]].key) = i
  BY DEF Shape, Distinct, Follows, Belongs
<1>2. t \in Seq(Elements) /\ t # <<>> /\ Len(t) = L + 1 /\ t[L + 1] = e /\ \A j \in 1..L : t[j] = s[j]
  BY <1>1, Appended
<1>3. \A x \in lv : /\ g[x].pNext = IF s # <<>> /\ x = s[L] THEN e ELSE h[x].pNext
                    /\ g[x].pPrev = IF s # <<>> /\ x = s[1] THEN e ELSE h[x].pPrev
                    /\ g[x].key = h[x].key
  BY Zenon DEF Added
<1>4. /\ g[e].pNext = IF s = <<>> THEN e ELSE s[1]
      /\ g[e].pPrev = IF s = <<>> THEN e ELSE s[L]
      /\ g[e].key = k
  BY Zenon DEF Added
<1>5. /\ order \in [Bins -> Seq(Elements)]
      /\ \A m \in Bins : /\ Distinct(order[m])
                         /\ Follows(bins[m], h, order[m])
                         /\ Belongs(m, h, lv, order[m])
      /\ \A x \in lv : IsOn(x, order[findBinIndex(h[x].key)])
  BY Zenon DEF Shape
<1>6. /\ o \in [Bins -> Seq(Elements)]
      /\ o[i] = t
      /\ \A m \in Bins \ {i} : o[m] = order[m]
  BY <1>2, <1>5
<1>7. b[i] = IF s = <<>> THEN e ELSE bins[i]
  OBVIOUS
<1>8. s = <<>> <=> L = 0
  BY <1>1
<1> HIDE DEF s, L, t, o
\* The ring the element is added to.
<1>9. ASSUME NEW j \in 1..L
      PROVE  /\ t[j] \in all
             /\ g[t[j]].pNext = t[After(j, L + 1)]
             /\ g[t[j]].pPrev = t[Before(j, L + 1)]
             /\ findBinIndex(g[t[j]].key) = i
  <2>1. L # 0 /\ 1 \in 1..L /\ L \in 1..L /\ s # <<>> /\ t[j] = s[j] /\ s[j] \in lv
    BY <1>1, <1>2, <1>8
  <2>2. s[j] = s[L] <=> j = L
    BY <1>1, <2>1
  <2>3. s[j] = s[1] <=> j = 1
    BY <1>1, <2>1
  <2>4. g[s[j]].pNext = t[After(j, L + 1)]
    <3>1. g[s[j]].pNext = IF j = L THEN e ELSE h[s[j]].pNext
      BY <1>3, <2>1, <2>2, Zenon
    <3>2. CASE j = L
      <4>1. After(j, L + 1) = L + 1
        BY <3>2, <1>1 DEF After
      <4>2. QED
        BY <3>1, <3>2, <4>1, <1>2
    <3>3. CASE j # L
      <4>1. After(j, L + 1) = j + 1 /\ After(j, L) = j + 1 /\ j + 1 \in 1..L
        BY <3>3, <1>1 DEF After
      <4>2. h[s[j]].pNext = s[j + 1] /\ t[j + 1] = s[j + 1]
        BY <4>1, <1>1, <1>2
      <4>3. QED
        BY <3>1, <3>3, <4>1, <4>2
    <3>4. QED
      BY <3>2, <3>3
  <2>5. g[s[j]].pPrev = t[Before(j, L + 1)]
    <3>1. g[s[j]].pPrev = IF j = 1 THEN e ELSE h[s[j]].pPrev
      BY <1>3, <2>1, <2>3, Zenon
    <3>2. CASE j = 1
      <4>1. Before(j, L + 1) = L + 1
        BY <3>2 DEF Before
      <4>2. QED
        BY <3>1, <3>2, <4>1, <1>2
    <3>3. CASE j # 1
      <4>1. Before(j, L + 1) = j - 1 /\ Before(j, L) = j - 1 /\ j - 1 \in 1..L
        BY <3>3, <1>1 DEF Before
      <4>2. h[s[j]].pPrev = s[j - 1] /\ t[j - 1] = s[j - 1]
        BY <4>1, <1>1, <1>2
      <4>3. QED
        BY <3>1, <3>3, <4>1, <4>2
    <3>4. QED
      BY <3>2, <3>3
  <2>6. findBinIndex(g[s[j]].key) = i
    <3>1. g[s[j]].key = h[s[j]].key
      BY <1>3, <2>1
    <3>2. findBinIndex(h[s[j]].key) = i
      BY <1>1
    <3>3. QED
      BY <3>1, <3>2
  <2>7. QED
    BY <2>1, <2>4, <2>5, <2>6
<1>10. /\ t[L + 1] \in all
       /\ g[t[L + 1]].pNext = t[After(L + 1, L + 1)]
       /\ g[t[L + 1]].pPrev = t[Before(L + 1, L + 1)]
       /\ findBinIndex(g[t[L + 1]].key) = i
  <2>1. After(L + 1, L + 1) = 1
    BY DEF After
  <2>2. CASE L = 0
    <3>1. Before(L + 1, L + 1) = 1 /\ L + 1 = 1 /\ s = <<>>
      BY <2>2, <1>8 DEF Before
    <3>2. QED
      BY <2>1, <3>1, <1>2, <1>4
  <2>3. CASE L # 0
    <3>1. Before(L + 1, L + 1) = L /\ 1 \in 1..L /\ L \in 1..L /\ s # <<>>
      BY <2>3, <1>1, <1>8 DEF Before
    <3>2. t[1] = s[1] /\ t[L] = s[L]
      BY <3>1, <1>2
    <3>3. QED
      BY <2>1, <3>1, <3>2, <1>2, <1>4
  <2>4. QED
    BY <2>2, <2>3
<1>11. ASSUME NEW j \in 1..(L + 1)
       PROVE  /\ t[j] \in all
              /\ g[t[j]].pNext = t[After(j, L + 1)]
              /\ g[t[j]].pPrev = t[Before(j, L + 1)]
              /\ findBinIndex(g[t[j]].key) = i
  <2>1. CASE j = L + 1
    BY <1>10, <2>1
  <2>2. CASE j # L + 1
    <3>1. j \in 1..L
      BY <2>2, <1>1
    <3>2. QED
      BY <3>1, <1>9
  <2>3. QED
    BY <2>1, <2>2
<1>12. Distinct(t)
  <2>1. \A j \in 1..L : t[j] # e
    BY <1>1, <1>2
  <2>2. ASSUME NEW j \in 1..(L + 1), NEW m \in 1..(L + 1), t[j] = t[m] PROVE j = m
    BY <1>1, <1>2, <2>1, <2>2
  <2>3. QED
    BY <1>2, <2>2 DEF Distinct
<1>13. Follows(b[i], g, t)
  <2>1. b[i] = t[1]
    <3>1. CASE L = 0
      <4>1. s = <<>> /\ L + 1 = 1
        BY <3>1, <1>8
      <4>2. QED
        BY <4>1, <1>2, <1>7
    <3>2. CASE L # 0
      BY <3>2, <1>1, <1>2, <1>7, <1>8
    <3>3. QED
      BY <3>1, <3>2
  <2>2. \A j \in 1..Len(t) : /\ g[t[j]].pNext = t[After(j, Len(t))]
                             /\ g[t[j]].pPrev = t[Before(j, Len(t))]
    BY <1>2, <1>11, Zenon
  <2>3. QED
    BY <2>1, <2>2, <1>2, Zenon DEF Follows
<1>14. Belongs(i, g, all, t)
  BY <1>2, <1>11, Zenon DEF Belongs
\* The other rings.
<1>15. ASSUME NEW m \in Bins \ {i}
       PROVE  Follows(b[m], g, order[m]) /\ Belongs(m, g, all, order[m])
  <2> DEFINE r == order[m]
             n == Len(r)
  <2>1. /\ r \in Seq(Elements) /\ n \in Nat
        /\ bins[m] = IF r = <<>> THEN Null ELSE r[1]
        /\ \A j \in 1..n : h[r[j]].pNext = r[After(j, n)] /\ h[r[j]].pPrev = r[Before(j, n)]
        /\ \A j \in 1..n : r[j] \in lv /\ findBinIndex(h[r[j]].key) = m
    BY <1>5 DEF Follows, Belongs
  <2>2. b[m] = bins[m] /\ m # i
    OBVIOUS
  <2> HIDE DEF r, n
  <2>3. ASSUME NEW j \in 1..n
        PROVE  /\ r[j] \in all
               /\ g[r[j]].pNext = h[r[j]].pNext /\ g[r[j]].pPrev = h[r[j]].pPrev
               /\ g[r[j]].key = h[r[j]].key
    <3>1. r[j] \in lv /\ findBinIndex(h[r[j]].key) = m
      BY <2>1
    <3>2. s # <<>> => r[j] # s[1] /\ r[j] # s[L]
      <4>1. ASSUME s # <<>> PROVE 1 \in 1..L /\ L \in 1..L
        BY <4>1, <1>1, <1>8
      <4>2. ASSUME s # <<>> PROVE findBinIndex(h[s[1]].key) = i /\ findBinIndex(h[s[L]].key) = i
        BY <4>1, <4>2, <1>1
      <4>3. QED
        BY ONLY <4>2, <3>1, <2>2
    <3>3. QED
      BY <1>3, <3>1, <3>2, Zenon
  <2>4. \A j \in 1..n : /\ g[r[j]].pNext = r[After(j, n)] /\ g[r[j]].pPrev = r[Before(j, n)]
                        /\ r[j] \in all /\ findBinIndex(g[r[j]].key) = m
    BY <2>1, <2>3
  <2>5. QED
    BY <2>1, <2>2, <2>4, Zenon DEF Follows, Belongs, n, r
<1>16. ASSUME NEW x \in all PROVE IsOn(x, o[findBinIndex(g[x].key)])
  <2>1. CASE x = e
    <3>1. IsOn(e, t)
      <4>1. L + 1 \in 1..Len(t)
        BY <1>1, <1>2
      <4>2. QED
        BY <4>1, <1>2 DEF IsOn
    <3>2. QED
      BY <2>1, <3>1, <1>4, <1>6
  <2>2. CASE x # e
    <3> DEFINE m == findBinIndex(h[x].key)
    <3>1. findBinIndex(g[x].key) = m /\ x \in lv
      BY <2>2, <1>3
    <3>2. IsOn(x, order[m])
      BY <1>5, <3>1
    <3>3. m \in Bins
      BY <3>1, BinOfKey DEF Element, HeapOK
    <3> HIDE DEF m
    <3>4. CASE m = i
      <4>1. PICK j \in 1..L : s[j] = x
        BY <3>2, <3>4 DEF IsOn, s, L
      <4>2. t[j] = x /\ j \in 1..Len(t)
        BY <4>1, <1>1, <1>2
      <4>3. IsOn(x, t)
        BY <4>2 DEF IsOn
      <4>4. QED
        BY <3>1, <3>4, <4>3, <1>6
    <3>5. CASE m # i
      <4>1. o[m] = order[m]
        BY <3>3, <3>5, <1>6
      <4>2. QED
        BY <4>1, <3>1, <3>2
    <3>6. QED
      BY <3>4, <3>5
  <2>3. QED
    BY <2>1, <2>2
<1>17. \A m \in Bins : Distinct(o[m]) /\ Follows(b[m], g, o[m]) /\ Belongs(m, g, all, o[m])
  <2>1. TAKE m \in Bins
  <2>2. CASE m = i
    BY <2>2, <1>6, <1>12, <1>13, <1>14
  <2>3. CASE m # i
    <3>1. m \in Bins \ {i}
      BY <2>3
    <3>2. o[m] = order[m] /\ Distinct(order[m])
      BY <3>1, <1>5, <1>6
    <3>3. Follows(b[m], g, order[m]) /\ Belongs(m, g, all, order[m])
      BY <3>1, <1>15
    <3>4. QED
      BY <3>2, <3>3
  <2>4. QED
    BY <2>2, <2>3
<1>18. Shape(o, b, g, all)
  BY <1>6, <1>16, <1>17, Zenon DEF Shape
<1>19. QED
  BY <1>18 DEF o, t, s

-----------------------------------------------------------------------------
(* What the operations do to the rings. *)

\* The neighbours of an element are alive, and are itself if it is alone.
LEMMA Neighbours ==
  ASSUME NEW order, NEW bins, NEW h, NEW lv, Shape(order, bins, h, lv),
         NEW i \in Bins, NEW p \in 1..Len(order[i])
  PROVE  LET s == order[i]
             e == order[i][p]
         IN  /\ e \in lv /\ h[e].pPrev \in lv /\ h[e].pNext \in lv
             /\ h[e].pNext = s[After(p, Len(s))] /\ h[e].pPrev = s[Before(p, Len(s))]
             /\ h[e].pPrev = e <=> Len(s) = 1
             /\ h[e].pNext = e <=> Len(s) = 1
             /\ s # <<>> /\ bins[i] = s[1]
             /\ findBinIndex(h[e].key) = i
<1> DEFINE s == order[i]
           L == Len(s)
           e == s[p]
<1>1. /\ s \in Seq(Elements) /\ L \in Nat /\ p \in 1..L
      /\ \A j, m \in 1..L : s[j] = s[m] => j = m
      /\ bins[i] = IF s = <<>> THEN Null ELSE s[1]
      /\ \A j \in 1..L : h[s[j]].pNext = s[After(j, L)] /\ h[s[j]].pPrev = s[Before(j, L)]
      /\ \A j \in 1..L : s[j] \in lv /\ findBinIndex(h[s[j]].key) = i
  BY DEF Shape, Distinct, Follows, Belongs
<1>2. /\ After(p, L) \in 1..L /\ Before(p, L) \in 1..L
      /\ After(p, L) = p <=> L = 1
      /\ Before(p, L) = p <=> L = 1
  <2>1. L \in Nat /\ p \in 1..L
    BY <1>1
  <2> HIDE DEF s, L
  <2>2. QED
    BY ONLY <2>1, SMT DEF After, Before
<1>3. s # <<>>
  BY <1>1
<1> HIDE DEF s, L
<1>4. /\ e \in lv /\ h[e].pNext = s[After(p, L)] /\ h[e].pPrev = s[Before(p, L)]
      /\ findBinIndex(h[e].key) = i
  BY <1>1
<1>5. s[After(p, L)] \in lv /\ s[Before(p, L)] \in lv
  BY <1>1, <1>2
<1>6. (s[After(p, L)] = s[p] <=> L = 1) /\ (s[Before(p, L)] = s[p] <=> L = 1)
  BY <1>1, <1>2
<1>7. bins[i] = s[1]
  BY <1>1, <1>3
<1> HIDE DEF e
<1>8. /\ e \in lv /\ h[e].pPrev \in lv /\ h[e].pNext \in lv
      /\ h[e].pNext = s[After(p, L)] /\ h[e].pPrev = s[Before(p, L)]
      /\ h[e].pPrev = e <=> L = 1
      /\ h[e].pNext = e <=> L = 1
  BY <1>4, <1>5, <1>6 DEF e
<1>9. QED
  BY <1>3, <1>4, <1>7, <1>8, Zenon DEF e, s, L

LEMMA LiveIsFinite ==
  ASSUME TypeOK
  PROVE  IsFiniteSet(live) /\ HeapOK(heap, live) /\ \A x \in Elements \ live : heap[x] = Nothing
<1>1. live \in SUBSET Elements
  BY DEF TypeOK
<1>2. IsFiniteSet(live)
  BY <1>1, MemoryAssumption, FS_Subset
<1>3. QED
  BY <1>1, <1>2 DEF TypeOK, HeapOK

\* Lookup gives the first element on the ring that isSameKey matches.
LEMMA LookupIs ==
  ASSUME TypeOK, NEW order, Shape(order, mpBin, heap, live), NEW k \in Keys
  PROVE  LET s == order[findBinIndex(k)]
         IN  \/ /\ Lookup(k) = Null
                /\ \A j \in 1..Len(s) : ~isSameKey(s[j], k)
             \/ \E p \in 1..Len(s) :
                  /\ Lookup(k) = s[p] /\ Lookup(k) # Null /\ isSameKey(s[p], k)
                  /\ \A j \in 1..(p - 1) : ~isSameKey(s[j], k)
<1> DEFINE i == findBinIndex(k)
           s == order[i]
           same == {j \in 1..Len(s) : isSameKey(s[j], k)}
<1>1. i \in Bins
  BY BinOfKey
<1>2. Ring(i) = s
  BY <1>1, LiveIsFinite, RingIsOrder DEF Ring, HeapOK
<1>3. Lookup(k) = IF same = {} THEN Null ELSE s[Min(same)]
  BY <1>2, Zenon DEF Lookup
<1>4. s \in Seq(Elements)
  BY <1>1 DEF Shape
<1>5. CASE same = {}
  BY <1>3, <1>5
<1>6. CASE same # {}
  <2> DEFINE p == Min(same)
  <2>1. same \subseteq Nat
    BY <1>4
  <2>2. p \in same /\ \A j \in same : p <= j
    BY <2>1, <1>6, MinIsLeast
  <2>3. Lookup(k) = s[p]
    BY <1>3, <1>6
  <2> HIDE DEF p
  <2>4. p \in 1..Len(s) /\ isSameKey(s[p], k)
    BY <2>2
  <2>5. ASSUME NEW j \in 1..(p - 1) PROVE ~isSameKey(s[j], k)
    <3>1. j \in 1..Len(s) /\ ~(p <= j)
      BY <1>4, <2>4
    <3>2. QED
      BY <2>2, <3>1
  <2>6. s[p] # Null
    BY <1>4, <2>4, MemoryAssumption
  <2>7. QED
    BY <2>3, <2>4, <2>5, <2>6
<1>7. QED
  BY <1>5, <1>6

\* insertToBin puts the element at the end of the ring of its bin.
LEMMA InsertStep ==
  ASSUME TypeOK, NEW order, Shape(order, mpBin, heap, live),
         NEW k \in Keys, NEW d \in Data, NEW e \in Elements \ live,
         insertToBin(findBinIndex(k), e, k, d)
  PROVE  LET i == findBinIndex(k)
         IN  /\ Added(heap', heap, live, order[i], e, k, d)
             /\ mpBin' \in [Bins -> Elements \cup {Null}]
             /\ Shape([order EXCEPT ![i] = Append(order[i], e)], mpBin', heap', live \cup {e})
             /\ \A m \in Bins : mpBin'[m] # mpBin[m] => m = i
<1> DEFINE i == findBinIndex(k)
           s == order[i]
           L == Len(s)
           all == live \cup {e}
<1>1. i \in Bins /\ HeapOK(heap, live)
  BY BinOfKey, LiveIsFinite
<1>2. /\ s \in Seq(Elements) /\ L \in Nat
      /\ mpBin[i] = IF s = <<>> THEN Null ELSE s[1]
      /\ \A j \in 1..L : heap[s[j]].pPrev = s[Before(j, L)]
      /\ \A j \in 1..L : s[j] \in live
  BY <1>1 DEF Shape, Follows, Belongs
<1>3. mpBin \in [Bins -> Elements \cup {Null}] /\ DOMAIN heap = Elements
  BY DEF TypeOK
<1>4. s # <<>> => 1 \in 1..L /\ L \in 1..L /\ Before(1, L) = L
  BY <1>2 DEF Before
<1>5. mpBin[i] = Null <=> s = <<>>
  BY <1>2, MemoryAssumption
<1> HIDE DEF s, L, i
\* The heap and the bins, as insertToBin leaves them.
<1>6. Added(heap', heap, live, s, e, k, d)
  <2>1. CASE s = <<>>
    <3> DEFINE r == [pPrev |-> e, pNext |-> e, key |-> k, data |-> d]
    <3>1. heap' = [heap EXCEPT ![e] = r]
      BY <1>5, <2>1 DEF insertToBin, i
    <3>2. r \in Element /\ r.pPrev = e /\ r.pNext = e /\ r.key = k /\ r.data = d
      BY DEF Element
    <3> HIDE DEF r
    <3>3. DOMAIN heap' = Elements /\ \A x \in Elements : heap'[x] = IF x = e THEN r ELSE heap[x]
      BY <1>3, <3>1
    <3>4. HeapOK(heap', all)
      BY <1>1, <3>2, <3>3 DEF HeapOK
    <3>5. \A x \in live : heap'[x] = heap[x] /\ x # e
      BY <1>1, <3>3 DEF HeapOK
    <3>6. heap'[e] = r /\ \A x \in Elements \ all : heap'[x] = heap[x]
      BY <3>3
    <3>7. QED
      BY <2>1, <3>2, <3>4, <3>5, <3>6, Zenon DEF Added
  <2>2. CASE s # <<>>
    <3> DEFINE old == mpBin[i]
               last == heap[old].pPrev
               r == [pPrev |-> last, pNext |-> old, key |-> k, data |-> d]
               h0 == [heap EXCEPT ![e] = r]
               h1 == [h0 EXCEPT ![last].pNext = e]
    <3>1. old = s[1] /\ last = s[L] /\ old \in live /\ last \in live /\ s[L] \in live
      <4>1. old = s[1] /\ s[1] \in live /\ s[L] \in live
        BY <1>2, <1>4, <2>2
      <4>2. heap[s[1]].pPrev = s[L]
        BY <1>2, <1>4, <2>2
      <4>3. QED
        BY <4>1, <4>2
    <3>2. [heap EXCEPT ![e] = r, ![last].pNext = e] = h1
      OBVIOUS
    <3>3. heap' = [h1 EXCEPT ![old].pPrev = e]
      <4>1. ~(mpBin[i] = Null)
        BY <1>5, <2>2
      <4>2. QED
        BY <4>1, <3>2, Zenon DEF insertToBin, i
    <3>4. last \in Elements /\ old \in Elements
      BY <1>1, <3>1 DEF HeapOK
    <3>5. r \in Element /\ r.pPrev = last /\ r.pNext = old /\ r.key = k /\ r.data = d
      BY <3>4 DEF Element
    <3> HIDE DEF r, old, last
    <3>6. DOMAIN h0 = Elements /\ \A x \in Elements : h0[x] = IF x = e THEN r ELSE heap[x]
      BY <1>3
    <3> HIDE DEF h0
    <3>7. HeapOK(h0, all)
      BY <1>1, <3>5, <3>6 DEF HeapOK
    <3>8. last \in all /\ old \in all /\ last # e /\ old # e
      BY <3>1
    <3>9. /\ HeapOK(h1, all)
          /\ \A x \in Elements : x # last => h1[x] = h0[x]
          /\ h1[last].pNext = e /\ h1[last].pPrev = h0[last].pPrev
          /\ h1[last].key = h0[last].key /\ h1[last].data = h0[last].data
      BY <3>7, <3>8, PNextSet
    <3> HIDE DEF h1
    <3>10. /\ HeapOK(heap', all)
           /\ \A x \in Elements : x # old => heap'[x] = h1[x]
           /\ heap'[old].pPrev = e /\ heap'[old].pNext = h1[old].pNext
           /\ heap'[old].key = h1[old].key /\ heap'[old].data = h1[old].data
      <4>1. LET g == [h1 EXCEPT ![old].pPrev = e]
            IN  /\ HeapOK(g, all)
                /\ \A x \in Elements : x # old => g[x] = h1[x]
                /\ g[old].pPrev = e /\ g[old].pNext = h1[old].pNext
                /\ g[old].key = h1[old].key /\ g[old].data = h1[old].data
        BY <3>8, <3>9, PPrevSet
      <4>2. QED
        BY <4>1, <3>3, Zenon
    <3>11. heap'[e] = r
      BY <3>6, <3>8, <3>9, <3>10
    <3>12. \A x \in Elements \ all : heap'[x] = heap[x]
      BY <3>6, <3>8, <3>9, <3>10
    <3>13. ASSUME NEW x \in live
           PROVE  /\ heap'[x].pNext = IF x = last THEN e ELSE heap[x].pNext
                  /\ heap'[x].pPrev = IF x = old THEN e ELSE heap[x].pPrev
                  /\ heap'[x].key = heap[x].key /\ heap'[x].data = heap[x].data
      <4>1. x \in Elements /\ x # e
        BY <1>1 DEF HeapOK
      <4>2. h0[x] = heap[x]
        BY <4>1, <3>6
      <4>3. /\ h1[x].pNext = IF x = last THEN e ELSE heap[x].pNext
            /\ h1[x].pPrev = heap[x].pPrev
            /\ h1[x].key = heap[x].key /\ h1[x].data = heap[x].data
        BY <4>1, <4>2, <3>9, Zenon
      <4>4. /\ heap'[x].pPrev = IF x = old THEN e ELSE h1[x].pPrev
            /\ heap'[x].pNext = h1[x].pNext
            /\ heap'[x].key = h1[x].key /\ heap'[x].data = h1[x].data
        BY <4>1, <3>10, Zenon
      <4>5. QED
        BY <4>3, <4>4, Zenon
    <3>14. /\ heap'[e].key = k /\ heap'[e].data = d
           /\ heap'[e].pNext = s[1] /\ heap'[e].pPrev = s[L]
      BY <3>1, <3>5, <3>11
    <3>15. \A x \in live :
             /\ heap'[x].pNext = IF x = s[L] THEN e ELSE heap[x].pNext
             /\ heap'[x].pPrev = IF x = s[1] THEN e ELSE heap[x].pPrev
             /\ heap'[x].key = heap[x].key /\ heap'[x].data = heap[x].data
      BY <3>1, <3>13, Zenon
    <3>16. QED
      BY <2>2, <3>10, <3>12, <3>14, <3>15, Zenon DEF Added, L
  <2>3. QED
    BY <2>1, <2>2
<1>7. /\ mpBin' \in [Bins -> Elements \cup {Null}]
      /\ \A m \in Bins \ {i} : mpBin'[m] = mpBin[m]
      /\ mpBin'[i] = IF s = <<>> THEN e ELSE mpBin[i]
  <2>1. mpBin' = IF s = <<>> THEN [mpBin EXCEPT ![i] = e] ELSE mpBin
    BY <1>5, Zenon DEF insertToBin, i
  <2>2. QED
    BY <1>1, <1>3, <2>1
<1>8. Shape([order EXCEPT ![i] = Append(s, e)], mpBin', heap', all)
  BY <1>1, <1>6, <1>7, ShapeAdded DEF i, s
<1>9. QED
  BY <1>6, <1>7, <1>8 DEF i, s

\* ~hashElement, run once or twice, takes the element out of the ring.
LEMMA RemoveStep ==
  ASSUME TypeOK, NEW order, Shape(order, mpBin, heap, live),
         NEW i \in Bins, NEW p \in 1..Len(order[i]), NEW e, e = order[i][p],
         NEW u, u = Unlinked(heap, e) \/ u = Unlinked(Unlinked(heap, e), e),
         heap' = [u EXCEPT ![e] = Nothing],
         mpBin' = [mpBin EXCEPT ![i] = IF Len(order[i]) = 1 THEN Null
                                       ELSE IF p = 1 THEN order[i][2] ELSE @]
  PROVE  /\ Deleted(heap', heap, live, e)
         /\ mpBin' \in [Bins -> Elements \cup {Null}]
         /\ Shape([order EXCEPT ![i] = Without(order[i], p)], mpBin', heap', live \ {e})
<1>1. HeapOK(heap, live) /\ \A x \in Elements \ live : heap[x] = Nothing
  BY LiveIsFinite
<1>2. /\ e \in live /\ heap[e].pPrev \in live /\ heap[e].pNext \in live
      /\ heap[e].pPrev = e <=> heap[e].pNext = e
  <2> DEFINE f == order[i][p]
  <2>1. /\ f \in live /\ heap[f].pPrev \in live /\ heap[f].pNext \in live
        /\ heap[f].pPrev = f <=> Len(order[i]) = 1
        /\ heap[f].pNext = f <=> Len(order[i]) = 1
    BY Neighbours
  <2>2. QED
    BY <2>1
<1>3. TakenOut(u, heap, live, e)
  <2>1. CASE u = Unlinked(heap, e)
    BY <2>1, <1>1, <1>2, UnlinkedTakesOut
  <2>2. CASE u = Unlinked(Unlinked(heap, e), e)
    BY <2>2, <1>1, <1>2, UnlinkedTwice
  <2>3. QED
    BY <2>1, <2>2
<1>4. Deleted(heap', heap, live, e)
  BY <1>1, <1>2, <1>3, TakenOutAndDeleted
<1>5. /\ mpBin' \in [Bins -> Elements \cup {Null}]
      /\ \A m \in Bins \ {i} : mpBin'[m] = mpBin[m]
      /\ mpBin'[i] = IF Len(order[i]) = 1 THEN Null ELSE IF p = 1 THEN order[i][2] ELSE mpBin[i]
  <2>1. mpBin \in [Bins -> Elements \cup {Null}] /\ order[i] \in Seq(Elements)
    BY DEF TypeOK, Shape
  <2>2. Len(order[i]) \in Nat /\ p \in 1..Len(order[i])
    BY <2>1
  <2>3. Len(order[i]) # 1 => 2 \in 1..Len(order[i])
    <3> DEFINE n == Len(order[i])
    <3>1. n \in Nat /\ p \in 1..n
      BY <2>2
    <3> HIDE DEF n
    <3>2. n # 1 => 2 \in 1..n
      BY ONLY <3>1, SMT
    <3>3. QED
      BY <3>2 DEF n
  <2> DEFINE v == IF Len(order[i]) = 1 THEN Null ELSE IF p = 1 THEN order[i][2] ELSE mpBin[i]
  <2>4. v \in Elements \cup {Null}
    BY <2>1, <2>3
  <2>5. mpBin' = [mpBin EXCEPT ![i] = v]
    OBVIOUS
  <2> HIDE DEF v
  <2>6. mpBin' \in [Bins -> Elements \cup {Null}] /\ mpBin'[i] = v /\ \A m \in Bins \ {i} : mpBin'[m] = mpBin[m]
    BY <2>1, <2>4, <2>5
  <2>7. QED
    BY <2>6 DEF v
<1>6. Shape([order EXCEPT ![i] = Without(order[i], p)], mpBin', heap', live \ {e})
  BY <1>1, <1>4, <1>5, ShapeRemoved
<1>7. QED
  BY <1>4, <1>5, <1>6

\* A bin is entered at the first element, and clear begins with the last.
LEMMA LastInRing ==
  ASSUME NEW order, NEW bins, NEW h, NEW lv, Shape(order, bins, h, lv), lv \subseteq Elements,
         NEW i \in Bins
  PROVE  /\ order[i] \in Seq(Elements)
         /\ bins[i] = Null <=> order[i] = <<>>
         /\ bins[i] # Null =>
              /\ bins[i] = order[i][1] /\ bins[i] \in lv
              /\ h[bins[i]].pPrev = order[i][Len(order[i])]
              /\ order[i][Len(order[i])] \in lv
              /\ Len(order[i]) \in 1..Len(order[i]) /\ 1 \in 1..Len(order[i])
<1> DEFINE s == order[i]
           L == Len(s)
<1>1. /\ s \in Seq(Elements) /\ L \in Nat
      /\ bins[i] = IF s = <<>> THEN Null ELSE s[1]
      /\ \A j \in 1..L : h[s[j]].pPrev = s[Before(j, L)]
      /\ \A j \in 1..L : s[j] \in lv
  BY DEF Shape, Follows, Belongs
<1>2. s # <<>> => 1 \in 1..L /\ L \in 1..L /\ Before(1, L) = L
  BY <1>1 DEF Before
<1> HIDE DEF s, L
<1>3. bins[i] = Null <=> s = <<>>
  BY <1>1, <1>2, MemoryAssumption
<1>4. bins[i] # Null => /\ bins[i] = s[1] /\ bins[i] \in lv
                        /\ h[bins[i]].pPrev = s[L] /\ s[L] \in lv
                        /\ L \in 1..L /\ 1 \in 1..L
  BY <1>1, <1>2, <1>3
<1>5. QED
  BY <1>1, <1>3, <1>4 DEF s, L

\* The inductive invariant: both links of every ring follow an order, size()
\* counts the elements, and clear has emptied the bins before the one it is at.
RingsWhole == \E order : Shape(order, mpBin, heap, live)

Counted == mNumberOfElement = Cardinality(live)

ClearingAt == Clearing => pCur = LastOf(bin) /\ \A i \in 0..(bin - 1) : mpBin[i] = Null

IInv == TypeOK /\ RingsWhole /\ Counted /\ ClearingAt /\ NoDuplicateKeys

LEMMA BinsAre == Bins \subseteq Nat /\ 0 \in Bins /\ mBinNumber \in Nat
                 /\ \A n \in 0..mBinNumber : n # mBinNumber => n \in Bins /\ n + 1 \in 0..mBinNumber
BY BinAssumption DEF Bins

LEMMA LastIsElement ==
  ASSUME NEW order, Shape(order, mpBin, heap, live), live \subseteq Elements,
         NEW i, i # mBinNumber => i \in Bins
  PROVE  LastOf(i) \in Elements \cup {Null}
<1>1. CASE i = mBinNumber \/ mpBin[i] = Null
  BY <1>1 DEF LastOf
<1>2. CASE i # mBinNumber /\ mpBin[i] # Null
  <2>1. LastOf(i) = heap[mpBin[i]].pPrev
    BY <1>2 DEF LastOf
  <2>2. QED
    BY <1>2, <2>1, LastInRing
<1>3. QED
  BY <1>1, <1>2

LEMMA InitOK ==
  ASSUME Init
  PROVE  IInv /\ \A i \in Bins : mpBin[i] = Null
<1>1. /\ mDuplicateNumber \in {0, 1}
      /\ mpBin = [i \in Bins |-> Null]
      /\ heap = [e \in Elements |-> Nothing]
      /\ live = {} /\ mNumberOfElement = 0
      /\ frees = [e \in Elements |-> 0]
      /\ bin = mBinNumber /\ pCur = Null /\ out = <<>>
  BY DEF Init
<1>2. Cardinality({}) = 0 /\ Cardinality(Elements) \in Nat
  BY FS_EmptySet, FS_CardinalityType, MemoryAssumption
<1>3. mNumberOfElement \in 0..Cardinality(Elements) /\ bin \in 0..mBinNumber /\ frees \in [Elements -> Nat]
  BY <1>1, <1>2, BinsAre
<1>4. TypeOK
  BY <1>1, <1>3 DEF TypeOK
<1>5. RingsWhole
  <2> DEFINE order == [i \in Bins |-> <<>>]
  <2>1. order \in [Bins -> Seq(Elements)] /\ \A i \in Bins : order[i] = <<>>
    OBVIOUS
  <2> HIDE DEF order
  <2>2. \A i \in Bins : /\ Distinct(order[i]) /\ Follows(mpBin[i], heap, order[i])
                        /\ Belongs(i, heap, live, order[i])
    <3>1. Len(<<>>) = 0 /\ 1..0 = {}
      OBVIOUS
    <3>2. QED
      BY <1>1, <2>1, <3>1 DEF Distinct, Follows, Belongs
  <2>3. Shape(order, mpBin, heap, live)
    BY <1>1, <2>1, <2>2 DEF Shape
  <2>4. QED
    BY <2>3 DEF RingsWhole
<1>6. QED
  BY <1>1, <1>2, <1>4, <1>5 DEF IInv, Counted, ClearingAt, Clearing, NoDuplicateKeys

\* size() never exceeds the memory.
LEMMA CountIsBounded ==
  ASSUME NEW S, S \subseteq Elements
  PROVE  IsFiniteSet(S) /\ Cardinality(S) \in 0..Cardinality(Elements)
<1>1. S \in SUBSET Elements
  OBVIOUS
<1>2. IsFiniteSet(S) /\ Cardinality(S) <= Cardinality(Elements)
  BY <1>1, MemoryAssumption, FS_Subset
<1>3. Cardinality(S) \in Nat /\ Cardinality(Elements) \in Nat
  BY <1>2, MemoryAssumption, FS_CardinalityType
<1>4. QED
  BY <1>2, <1>3

LEMMA CountAdded ==
  ASSUME Counted, live \subseteq Elements, NEW e \in Elements \ live
  PROVE  /\ mNumberOfElement + 1 = Cardinality(live \cup {e})
         /\ mNumberOfElement + 1 \in 0..Cardinality(Elements)
<1>1. IsFiniteSet(live) /\ live \cup {e} \subseteq Elements
  BY CountIsBounded
<1>2. Cardinality(live \cup {e}) = Cardinality(live) + 1
  BY <1>1, FS_AddElement
<1>3. Cardinality(live \cup {e}) \in 0..Cardinality(Elements)
  BY <1>1, CountIsBounded
<1>4. QED
  BY <1>2, <1>3 DEF Counted

LEMMA CountRemoved ==
  ASSUME Counted, live \subseteq Elements, NEW e \in live
  PROVE  /\ mNumberOfElement - 1 = Cardinality(live \ {e})
         /\ mNumberOfElement - 1 \in 0..Cardinality(Elements)
<1>1. IsFiniteSet(live) /\ live \ {e} \subseteq Elements
  BY CountIsBounded
<1>2. Cardinality(live \ {e}) = Cardinality(live) - 1
  BY <1>1, FS_RemoveElement
<1>3. Cardinality(live \ {e}) \in 0..Cardinality(Elements)
  BY <1>1, CountIsBounded
<1>4. QED
  BY <1>2, <1>3 DEF Counted

\* The part of TypeOK that is about the table.
TableOK ==
  /\ mpBin \in [Bins -> Elements \cup {Null}]
  /\ live \subseteq Elements
  /\ DOMAIN heap = Elements
  /\ \A e \in Elements : IF e \in live THEN heap[e] \in Element ELSE heap[e] = Nothing
  /\ mNumberOfElement \in 0..Cardinality(Elements)
  /\ frees \in [Elements -> Nat]

\* The element at position p of bin i is taken out of its ring and deleted:
\* what remove and both destroying steps of clear do.
TakesOut(order, i, p) ==
  LET e == order[i][p]
  IN  /\ \E u : /\ u = Unlinked(heap, e) \/ u = Unlinked(Unlinked(heap, e), e)
                /\ heap' = [u EXCEPT ![e] = Nothing]
      /\ mpBin' = [mpBin EXCEPT ![i] = IF Len(order[i]) = 1 THEN Null
                                       ELSE IF p = 1 THEN order[i][2] ELSE @]
      /\ live' = live \ {e}
      /\ mNumberOfElement' = mNumberOfElement - 1
      /\ frees' \in [Elements -> Nat]

LEMMA TakesOutKeeps ==
  ASSUME IInv, NEW order, Shape(order, mpBin, heap, live),
         NEW i \in Bins, NEW p \in 1..Len(order[i]), TakesOut(order, i, p), mDuplicateNumber' = mDuplicateNumber
  PROVE  /\ Deleted(heap', heap, live, order[i][p]) /\ order[i][p] \in live
         /\ Shape([order EXCEPT ![i] = Without(order[i], p)], mpBin', heap', live')
         /\ TableOK' /\ RingsWhole' /\ Counted' /\ NoDuplicateKeys'
<1> DEFINE e == order[i][p]
<1>1. PICK u : /\ u = Unlinked(heap, e) \/ u = Unlinked(Unlinked(heap, e), e)
               /\ heap' = [u EXCEPT ![e] = Nothing]
  BY Zenon DEF TakesOut
<1>2. /\ mpBin' = [mpBin EXCEPT ![i] = IF Len(order[i]) = 1 THEN Null
                                       ELSE IF p = 1 THEN order[i][2] ELSE @]
      /\ live' = live \ {e}
      /\ mNumberOfElement' = mNumberOfElement - 1
      /\ frees' \in [Elements -> Nat]
  BY Zenon DEF TakesOut
<1>3. TypeOK /\ Counted /\ NoDuplicateKeys /\ live \subseteq Elements
  BY DEF IInv, TypeOK
<1>4. e \in live
  BY Neighbours
<1>5. /\ Deleted(heap', heap, live, e)
      /\ mpBin' \in [Bins -> Elements \cup {Null}]
      /\ Shape([order EXCEPT ![i] = Without(order[i], p)], mpBin', heap', live \ {e})
  BY <1>1, <1>2, <1>3, RemoveStep
<1> HIDE DEF e
<1>6. Shape([order EXCEPT ![i] = Without(order[i], p)], mpBin', heap', live')
  BY <1>2, <1>5
<1>7. RingsWhole'
  BY <1>6 DEF RingsWhole
<1>8. mNumberOfElement' = Cardinality(live') /\ mNumberOfElement' \in 0..Cardinality(Elements)
  BY <1>2, <1>3, <1>4, CountRemoved
<1>9. HeapOK(heap', live') /\ \A x \in Elements \ live' : heap'[x] = Nothing
  BY <1>2, <1>5 DEF Deleted
<1>10. TableOK'
  BY <1>2, <1>5, <1>8, <1>9 DEF TableOK, HeapOK
<1>11. \A x \in live' : x \in live /\ heap'[x].key = heap[x].key
  BY <1>2, <1>5 DEF Deleted
<1>12. NoDuplicateKeys'
  BY <1>3, <1>11 DEF NoDuplicateKeys
<1>13. QED
  BY <1>4, <1>5, <1>6, <1>7, <1>8, <1>10, <1>12 DEF Counted, e

\* The new element e of insert.
InsertNew(k, d, e) ==
  /\ insertToBin(findBinIndex(k), e, k, d)
  /\ live' = live \cup {e}
  /\ frees' = [frees EXCEPT ![e] = 0]
  /\ mNumberOfElement' = mNumberOfElement + 1
  /\ out' = <<"insert", k, TRUE>>

LEMMA InsertCases ==
  ASSUME NEW k, NEW d, insert(k, d)
  PROVE  \/ /\ mDuplicateNumber = 0 /\ Lookup(k) # Null
            /\ out' = <<"insert", k, FALSE>> /\ UNCHANGED table
         \/ /\ ~(mDuplicateNumber = 0 /\ Lookup(k) # Null)
            /\ \E e \in Elements \ live : InsertNew(k, d, e)
BY Zenon DEF insert, InsertNew

\* A key that Lookup does not find is on no element, or can never be found.
LEMMA NotFound ==
  ASSUME TypeOK, NEW order, Shape(order, mpBin, heap, live), NEW k \in Keys, Lookup(k) = Null,
         k \notin NeverSame, NEW x \in live
  PROVE  heap[x].key # k
<1>1. SUFFICES ASSUME heap[x].key = k PROVE FALSE
  OBVIOUS
<1>2. IsOn(x, order[findBinIndex(k)])
  BY <1>1 DEF Shape
<1>3. PICK j \in 1..Len(order[findBinIndex(k)]) : order[findBinIndex(k)][j] = x
  BY <1>2 DEF IsOn
<1>4. isSameKey(order[findBinIndex(k)][j], k)
  BY <1>1, <1>3 DEF isSameKey
<1>5. QED
  BY <1>4, LookupIs

LEMMA InsertKeeps ==
  ASSUME IInv, NEW order, Shape(order, mpBin, heap, live), NEW k \in Keys, NEW d \in Data,
         NEW e \in Elements \ live, InsertNew(k, d, e), mDuplicateNumber' = mDuplicateNumber,
         ~(mDuplicateNumber = 0 /\ Lookup(k) # Null)
  PROVE  /\ Added(heap', heap, live, order[findBinIndex(k)], e, k, d)
         /\ Shape([order EXCEPT ![findBinIndex(k)] = Append(order[findBinIndex(k)], e)], mpBin', heap', live')
         /\ TableOK' /\ RingsWhole' /\ Counted' /\ NoDuplicateKeys'
<1> DEFINE i == findBinIndex(k)
<1>1. /\ insertToBin(i, e, k, d)
      /\ live' = live \cup {e}
      /\ frees' = [frees EXCEPT ![e] = 0]
      /\ mNumberOfElement' = mNumberOfElement + 1
  BY DEF InsertNew
<1>2. TypeOK /\ Counted /\ NoDuplicateKeys /\ live \subseteq Elements /\ frees \in [Elements -> Nat]
      /\ \A x \in Elements \ live : heap[x] = Nothing
  BY LiveIsFinite DEF IInv, TypeOK
<1>3. /\ Added(heap', heap, live, order[i], e, k, d)
      /\ mpBin' \in [Bins -> Elements \cup {Null}]
      /\ Shape([order EXCEPT ![i] = Append(order[i], e)], mpBin', heap', live \cup {e})
  BY <1>1, <1>2, InsertStep
<1> HIDE DEF i
<1>4. Shape([order EXCEPT ![i] = Append(order[i], e)], mpBin', heap', live')
  BY <1>1, <1>3
<1>5. RingsWhole'
  BY <1>4 DEF RingsWhole
<1>6. mNumberOfElement' = Cardinality(live') /\ mNumberOfElement' \in 0..Cardinality(Elements)
  BY <1>1, <1>2, CountAdded
<1>7. HeapOK(heap', live') /\ \A x \in Elements \ live' : heap'[x] = Nothing
  BY <1>1, <1>2, <1>3 DEF Added
<1>8. frees' \in [Elements -> Nat]
  BY <1>1, <1>2
<1>9. TableOK'
  BY <1>3, <1>6, <1>7, <1>8 DEF TableOK, HeapOK
<1>10. heap'[e].key = k /\ \A x \in live : heap'[x].key = heap[x].key
  BY <1>3 DEF Added
<1>11. NoDuplicateKeys'
  <2>1. SUFFICES ASSUME mDuplicateNumber = 0, NEW x \in live', NEW y \in live',
                        heap'[x].key = heap'[y].key, heap'[x].key \notin NeverSame
                 PROVE  x = y
    BY DEF NoDuplicateKeys
  <2>2. Lookup(k) = Null
    BY <2>1
  <2>3. k \notin NeverSame => \A z \in live : heap[z].key # k
    BY <1>2, <2>2, NotFound
  <2>4. CASE x \in live /\ y \in live
    BY <1>2, <1>10, <2>1, <2>4 DEF NoDuplicateKeys
  <2>5. CASE ~(x \in live /\ y \in live)
    BY <1>1, <1>10, <2>1, <2>3, <2>5
  <2>6. QED
    BY <2>4, <2>5
<1>12. QED
  BY <1>3, <1>4, <1>5, <1>6, <1>9, <1>11 DEF Counted, i

\* remove takes out the first element of its key.
LEMMA RemoveCases ==
  ASSUME IInv, NEW order, Shape(order, mpBin, heap, live), NEW k \in Keys, remove(k)
  PROVE  LET i == findBinIndex(k)
         IN  \/ /\ Lookup(k) = Null
                /\ out' = <<"remove", k, Nothing>> /\ UNCHANGED table
             \/ \E p \in 1..Len(order[i]) :
                  /\ TakesOut(order, i, p)
                  /\ isSameKey(order[i][p], k) /\ \A j \in 1..(p - 1) : ~isSameKey(order[i][j], k)
                  /\ out' = <<"remove", k, heap[order[i][p]].data>>
<1> DEFINE i == findBinIndex(k)
           s == order[i]
<1>1. TypeOK /\ i \in Bins
  BY BinOfKey DEF IInv
<1>2. CASE Lookup(k) = Null
  BY <1>2, Zenon DEF remove
<1>3. CASE Lookup(k) # Null
  <2>1. PICK p \in 1..Len(s) : /\ Lookup(k) = s[p]
                               /\ isSameKey(s[p], k) /\ \A j \in 1..(p - 1) : ~isSameKey(s[j], k)
    BY <1>1, <1>3, LookupIs
  <2> DEFINE e == s[p]
  <2>2. /\ mpBin' = [mpBin EXCEPT ![i] = IF isOnlyOne(e) THEN Null
                                         ELSE IF e = @ THEN heap[e].pNext ELSE @]
        /\ heap' = [Unlinked(heap, e) EXCEPT ![e] = Nothing]
        /\ live' = live \ {e}
        /\ frees' = [frees EXCEPT ![e] = IF OwnsKey THEN @ + 1 ELSE @]
        /\ mNumberOfElement' = mNumberOfElement - 1
        /\ out' = <<"remove", k, heap[e].data>>
    BY <1>3, <2>1, Zenon DEF remove
  <2>3. /\ e \in live
        /\ heap[e].pNext = s[After(p, Len(s))]
        /\ heap[e].pPrev = e <=> Len(s) = 1
        /\ mpBin[i] = s[1]
    BY <1>1, Neighbours
  <2>4. /\ s \in Seq(Elements)
        /\ \A j, m \in 1..Len(s) : s[j] = s[m] => j = m
    BY <1>1 DEF Shape, Distinct
  <2>5. Len(s) # 1 => (e = mpBin[i] <=> p = 1) /\ (p = 1 => heap[e].pNext = s[2])
    <3>1. Len(s) \in Nat /\ p \in 1..Len(s) /\ 1 \in 1..Len(s)
      BY <2>4
    <3>2. Len(s) # 1 /\ p = 1 => After(p, Len(s)) = 2
      BY <3>1 DEF After
    <3>3. QED
      BY <3>1, <3>2, <2>3, <2>4
  <2>6. mpBin' = [mpBin EXCEPT ![i] = IF Len(s) = 1 THEN Null ELSE IF p = 1 THEN s[2] ELSE @]
    <3>1. (IF isOnlyOne(e) THEN Null ELSE IF e = mpBin[i] THEN heap[e].pNext ELSE mpBin[i])
          = IF Len(s) = 1 THEN Null ELSE IF p = 1 THEN s[2] ELSE mpBin[i]
      BY <2>3, <2>5 DEF isOnlyOne
    <3>2. QED
      BY <2>2, <3>1
  <2>7. frees' \in [Elements -> Nat]
    <3>1. frees \in [Elements -> Nat] /\ e \in Elements
      BY <1>1, <2>3 DEF TypeOK
    <3>2. QED
      BY <3>1, <2>2
  <2>8. TakesOut(order, i, p)
    BY <2>2, <2>6, <2>7, Zenon DEF TakesOut
  <2>9. QED
    BY <2>1, <2>2, <2>8
<1>4. QED
  BY <1>2, <1>3

\* The case that is taken if Lookup finds the key.
LEMMA RemoveNotNull ==
  ASSUME IInv, NEW order, Shape(order, mpBin, heap, live), NEW k \in Keys, remove(k), Lookup(k) # Null
  PROVE  \E p \in 1..Len(order[findBinIndex(k)]) :
           /\ TakesOut(order, findBinIndex(k), p)
           /\ isSameKey(order[findBinIndex(k)][p], k)
           /\ \A j \in 1..(p - 1) : ~isSameKey(order[findBinIndex(k)][j], k)
BY RemoveCases

LEMMA DestroyTakesOut ==
  ASSUME IInv, NEW order, Shape(order, mpBin, heap, live), NEW i \in Bins, NEW p \in 1..Len(order[i]),
         Destroy(order[i][p]), mNumberOfElement' = mNumberOfElement - 1,
         mpBin' = [mpBin EXCEPT ![i] = IF Len(order[i]) = 1 THEN Null
                                       ELSE IF p = 1 THEN order[i][2] ELSE @]
  PROVE  TakesOut(order, i, p)
<1> DEFINE e == order[i][p]
<1>1. /\ heap' = [Unlinked(Unlinked(heap, e), e) EXCEPT ![e] = Nothing]
      /\ live' = live \ {e}
      /\ frees' = [frees EXCEPT ![e] = IF OwnsKey THEN @ + 2 ELSE @]
  BY DEF Destroy
<1>2. frees \in [Elements -> Nat] /\ e \in Elements
  <2>1. TypeOK /\ e \in live
    BY Neighbours DEF IInv
  <2>2. QED
    BY <2>1 DEF TypeOK
<1>3. frees' \in [Elements -> Nat]
  BY <1>1, <1>2
<1>4. QED
  BY <1>1, <1>3, Zenon DEF TakesOut

\* clear is at the last element of the ring, or the bin is empty.
LEMMA ClearIsAtLast ==
  ASSUME IInv, NEW order, Shape(order, mpBin, heap, live), Clearing
  PROVE  /\ bin \in Bins /\ bin # mBinNumber
         /\ order[bin] \in Seq(Elements) /\ Distinct(order[bin])
         /\ mpBin[bin] = Null => pCur = Null
         /\ mpBin[bin] # Null => /\ mpBin[bin] = order[bin][1] /\ pCur = order[bin][Len(order[bin])]
                                 /\ Len(order[bin]) \in 1..Len(order[bin]) /\ 1 \in 1..Len(order[bin])
<1>1. TypeOK /\ ClearingAt /\ live \subseteq Elements
  BY DEF IInv, TypeOK
<1>2. bin \in Bins /\ bin # mBinNumber
  BY <1>1, BinsAre DEF TypeOK, Clearing
<1>3. pCur = IF mpBin[bin] = Null THEN Null ELSE heap[mpBin[bin]].pPrev
  BY <1>1, <1>2 DEF ClearingAt, LastOf
<1>4. Distinct(order[bin])
  BY <1>2 DEF Shape
<1>5. QED
  BY <1>1, <1>2, <1>3, <1>4, LastInRing

LEMMA ClearElementIs ==
  ASSUME IInv, NEW order, Shape(order, mpBin, heap, live), clearElement
  PROVE  LET L == Len(order[bin])
         IN  /\ bin \in Bins /\ L \in 1..L /\ L # 1
             /\ pCur = order[bin][L]
             /\ TakesOut(order, bin, L)
<1> DEFINE s == order[bin]
           L == Len(s)
<1>1. /\ Clearing /\ pCur # mpBin[bin]
      /\ Destroy(pCur)
      /\ mNumberOfElement' = mNumberOfElement - 1
      /\ mpBin' = mpBin
  BY DEF clearElement
<1>2. bin \in Bins /\ s \in Seq(Elements) /\ mpBin[bin] = s[1] /\ pCur = s[L] /\ L \in 1..L
  BY <1>1, ClearIsAtLast
<1>3. L # 1
  BY <1>1, <1>2
<1>4. mpBin' = [mpBin EXCEPT ![bin] = IF L = 1 THEN Null ELSE IF L = 1 THEN s[2] ELSE @]
  <2>1. mpBin \in [Bins -> Elements \cup {Null}]
    BY DEF IInv, TypeOK
  <2>2. [mpBin EXCEPT ![bin] = mpBin[bin]] = mpBin
    BY <1>2, <2>1
  <2>3. QED
    BY <1>1, <1>3, <2>2
<1>5. TakesOut(order, bin, L)
  BY <1>1, <1>2, <1>4, DestroyTakesOut
<1>6. QED
  BY <1>2, <1>3, <1>5

LEMMA ClearFirstIs ==
  ASSUME IInv, NEW order, Shape(order, mpBin, heap, live), clearFirst
  PROVE  /\ bin \in Bins /\ Len(order[bin]) = 1 /\ 1 \in 1..Len(order[bin])
         /\ pCur = order[bin][1]
         /\ TakesOut(order, bin, 1)
<1> DEFINE s == order[bin]
           L == Len(s)
<1>1. /\ Clearing /\ pCur = mpBin[bin] /\ pCur # Null
      /\ Destroy(pCur)
      /\ mNumberOfElement' = mNumberOfElement - 1
      /\ mpBin' = [mpBin EXCEPT ![bin] = Null]
  BY DEF clearFirst
<1>2. bin \in Bins /\ s \in Seq(Elements) /\ Distinct(s) /\ pCur = s[1] /\ pCur = s[L] /\ L \in 1..L /\ 1 \in 1..L
  BY <1>1, ClearIsAtLast
<1>3. L = 1
  BY <1>2 DEF Distinct
<1>4. mpBin' = [mpBin EXCEPT ![bin] = IF L = 1 THEN Null ELSE IF 1 = 1 THEN s[2] ELSE @]
  BY <1>1, <1>3
<1>5. TakesOut(order, bin, 1)
  BY <1>1, <1>2, <1>4, DestroyTakesOut
<1>6. QED
  BY <1>2, <1>3, <1>5

-----------------------------------------------------------------------------
(* Every step keeps the invariant. *)

LEMMA TypeOKSplit ==
  TypeOK <=> /\ mDuplicateNumber \in {0, 1}
             /\ TableOK
             /\ bin \in 0..mBinNumber /\ pCur \in Elements \cup {Null}
             /\ out # <<>> => out[1] \in {"insert", "remove", "find"} /\ out[2] \in Keys
BY Zenon DEF TypeOK, TableOK

\* insert, remove and find, while clear is not running.
LEMMA OperationOK ==
  ASSUME IInv, Operation, mDuplicateNumber' = mDuplicateNumber
  PROVE  IInv'
<1>1. ~Clearing /\ bin' = bin /\ pCur' = pCur
  BY DEF Operation
<1>2. /\ TypeOK /\ RingsWhole /\ Counted /\ NoDuplicateKeys
      /\ mDuplicateNumber \in {0, 1} /\ TableOK
      /\ bin \in 0..mBinNumber /\ pCur \in Elements \cup {Null}
  BY TypeOKSplit DEF IInv
<1>3. ClearingAt'
  BY <1>1 DEF ClearingAt, Clearing
<1>4. PICK order : Shape(order, mpBin, heap, live)
  BY <1>2 DEF RingsWhole
<1>5. SUFFICES /\ TableOK' /\ RingsWhole' /\ Counted' /\ NoDuplicateKeys'
               /\ out' # <<>> => out'[1] \in {"insert", "remove", "find"} /\ out'[2] \in Keys
  <2>1. ASSUME /\ TableOK' /\ RingsWhole' /\ Counted' /\ NoDuplicateKeys'
               /\ out' # <<>> => out'[1] \in {"insert", "remove", "find"} /\ out'[2] \in Keys
        PROVE  TypeOK'
    BY <1>1, <1>2, <2>1 DEF TypeOK, TableOK
  <2>2. QED
    BY <1>3, <2>1 DEF IInv
<1>6. ASSUME UNCHANGED table PROVE TableOK' /\ RingsWhole' /\ Counted' /\ NoDuplicateKeys'
  <2>1. /\ mpBin' = mpBin /\ heap' = heap /\ live' = live
        /\ mNumberOfElement' = mNumberOfElement /\ frees' = frees
    BY <1>6 DEF table
  <2>2. QED
    BY <1>2, <2>1 DEF TableOK, RingsWhole, Counted, NoDuplicateKeys
<1>7. ASSUME NEW k \in Keys, NEW d \in Data, insert(k, d)
      PROVE  /\ TableOK' /\ RingsWhole' /\ Counted' /\ NoDuplicateKeys'
             /\ out' # <<>> => out'[1] \in {"insert", "remove", "find"} /\ out'[2] \in Keys
  <2>1. CASE out' = <<"insert", k, FALSE>> /\ UNCHANGED table
    BY <1>6, <2>1
  <2>2. CASE /\ ~(mDuplicateNumber = 0 /\ Lookup(k) # Null)
             /\ \E e \in Elements \ live : InsertNew(k, d, e)
    <3>1. PICK e \in Elements \ live : InsertNew(k, d, e)
      BY <2>2
    <3>2. TableOK' /\ RingsWhole' /\ Counted' /\ NoDuplicateKeys'
      BY <1>4, <2>2, <3>1, InsertKeeps
    <3>3. out' = <<"insert", k, TRUE>>
      BY <3>1 DEF InsertNew
    <3>4. QED
      BY <3>2, <3>3
  <2>3. QED
    BY <1>7, <2>1, <2>2, InsertCases
<1>8. ASSUME NEW k \in Keys, remove(k)
      PROVE  /\ TableOK' /\ RingsWhole' /\ Counted' /\ NoDuplicateKeys'
             /\ out' # <<>> => out'[1] \in {"insert", "remove", "find"} /\ out'[2] \in Keys
  <2>1. CASE out' = <<"remove", k, Nothing>> /\ UNCHANGED table
    BY <1>6, <2>1
  <2>2. ASSUME NEW p \in 1..Len(order[findBinIndex(k)]), TakesOut(order, findBinIndex(k), p),
               out' = <<"remove", k, heap[order[findBinIndex(k)][p]].data>>
        PROVE  /\ TableOK' /\ RingsWhole' /\ Counted' /\ NoDuplicateKeys'
               /\ out' # <<>> => out'[1] \in {"insert", "remove", "find"} /\ out'[2] \in Keys
    <3>1. TableOK' /\ RingsWhole' /\ Counted' /\ NoDuplicateKeys'
      BY <1>4, <2>2, BinOfKey, TakesOutKeeps
    <3>2. QED
      BY <2>2, <3>1
  <2>3. QED
    BY <1>4, <1>8, <2>1, <2>2, RemoveCases
<1>9. ASSUME NEW k \in Keys, find(k)
      PROVE  /\ TableOK' /\ RingsWhole' /\ Counted' /\ NoDuplicateKeys'
             /\ out' # <<>> => out'[1] \in {"insert", "remove", "find"} /\ out'[2] \in Keys
  <2>1. out' = <<"find", k, IF Lookup(k) = Null THEN Nothing ELSE heap[Lookup(k)].data>> /\ UNCHANGED table
    BY <1>9 DEF find
  <2>2. QED
    BY <1>6, <2>1
<1>10. QED
  BY <1>7, <1>8, <1>9 DEF Operation

\* The first step of clear.
LEMMA ClearOK ==
  ASSUME IInv, clear, mDuplicateNumber' = mDuplicateNumber
  PROVE  IInv'
<1>1. /\ bin' = 0 /\ pCur' = LastOf(0) /\ out' = <<>>
      /\ mpBin' = mpBin /\ heap' = heap /\ live' = live
      /\ mNumberOfElement' = mNumberOfElement /\ frees' = frees
  BY DEF clear, table
<1>2. TypeOK /\ RingsWhole /\ Counted /\ NoDuplicateKeys
  BY DEF IInv
<1>3. PICK order : Shape(order, mpBin, heap, live)
  BY <1>2 DEF RingsWhole
<1>4. 0 \in Bins /\ 0 # mBinNumber /\ 0 \in 0..mBinNumber
  BY BinAssumption DEF Bins
<1>5. LastOf(0) \in Elements \cup {Null}
  <2>1. live \subseteq Elements
    BY <1>2 DEF TypeOK
  <2>2. QED
    BY <1>3, <1>4, <2>1, LastInRing DEF LastOf
<1>6. TypeOK'
  BY <1>1, <1>2, <1>4, <1>5 DEF TypeOK
<1>7. ClearingAt'
  <2>1. \A i \in 0..(0 - 1) : FALSE
    OBVIOUS
  <2>2. LastOf(bin)' = LastOf(0)
    BY <1>1 DEF LastOf
  <2>3. QED
    BY <1>1, <2>1, <2>2 DEF ClearingAt
<1>8. RingsWhole' /\ Counted' /\ NoDuplicateKeys'
  BY <1>1, <1>2 DEF RingsWhole, Counted, NoDuplicateKeys
<1>9. QED
  BY <1>6, <1>7, <1>8 DEF IInv

\* clear goes on with the element before the one it destroyed.
LEMMA ClearElementOK ==
  ASSUME IInv, clearElement, mDuplicateNumber' = mDuplicateNumber
  PROVE  IInv'
<1>1. PICK order : Shape(order, mpBin, heap, live)
  BY DEF IInv, RingsWhole
<1> DEFINE s == order[bin]
           L == Len(s)
           o == [order EXCEPT ![bin] = Without(s, L)]
<1>2. /\ bin \in Bins /\ L \in 1..L /\ L # 1
      /\ pCur = s[L]
      /\ TakesOut(order, bin, L)
  BY <1>1, ClearElementIs
<1>3. /\ Deleted(heap', heap, live, s[L]) /\ s[L] \in live
      /\ Shape(o, mpBin', heap', live')
      /\ TableOK' /\ RingsWhole' /\ Counted' /\ NoDuplicateKeys'
  BY <1>1, <1>2, TakesOutKeeps
<1>4. /\ Clearing /\ pCur' = heap[pCur].pPrev
      /\ mpBin' = mpBin /\ bin' = bin /\ out' = out
  BY DEF clearElement
<1>5. /\ mDuplicateNumber \in {0, 1} /\ TableOK
      /\ bin \in 0..mBinNumber /\ pCur \in Elements \cup {Null}
      /\ out # <<>> => out[1] \in {"insert", "remove", "find"} /\ out[2] \in Keys
      /\ \A i \in 0..(bin - 1) : mpBin[i] = Null
  BY <1>4, TypeOKSplit DEF IInv, ClearingAt
<1>6. order \in [Bins -> Seq(Elements)] /\ s \in Seq(Elements) /\ L \in Nat
  BY <1>1, <1>2 DEF Shape
<1>7. heap[s[L]].pPrev = s[L - 1] /\ L - 1 \in 1..L
  <2>1. heap[s[L]].pPrev = s[Before(L, L)]
    BY <1>1, <1>2, Neighbours
  <2>2. L \in Nat /\ L \in 1..L /\ L # 1
    BY <1>2, <1>6
  <2> HIDE DEF s, L
  <2>3. Before(L, L) = L - 1 /\ L - 1 \in 1..L
    BY ONLY <2>2, SMT DEF Before
  <2>4. QED
    BY <2>1, <2>3
<1>8. LastOf(bin)' = s[L - 1]
  <2>1. o[bin] = Without(s, L)
    BY <1>2, <1>6
  <2>2. Len(Without(s, L)) = L - 1 /\ Without(s, L)[L - 1] = s[L - 1]
    <3>1. Len(Without(s, L)) = L - 1
          /\ \A j \in 1..(L - 1) : Without(s, L)[j] = IF j < L THEN s[j] ELSE s[j + 1]
      BY <1>2, <1>6, WithoutIs
    <3>2. L - 1 \in 1..(L - 1) /\ L - 1 < L
      BY <1>6, <1>7
    <3> HIDE DEF s, L
    <3>3. QED
      BY <3>1, <3>2
  <2>3. mpBin'[bin] # Null
    <3>1. mpBin[bin] = s[1] /\ s[1] \in Elements
      BY <1>1, <1>2, <1>6, Neighbours
    <3>2. QED
      BY <1>4, <3>1, MemoryAssumption
  <2>4. live' \subseteq Elements
    BY <1>3 DEF TableOK
  <2>5. heap'[mpBin'[bin]].pPrev = o[bin][Len(o[bin])]
    <3>1. Shape(o, mpBin', heap', live') /\ bin \in Bins
      BY <1>2, <1>3
    <3> HIDE DEF o
    <3>2. mpBin'[bin] # Null => heap'[mpBin'[bin]].pPrev = o[bin][Len(o[bin])]
      BY <2>4, <3>1, LastInRing
    <3>3. QED
      BY <2>3, <3>2
  <2>6. bin # mBinNumber
    BY <1>4 DEF Clearing
  <2>7. QED
    BY <1>4, <2>1, <2>2, <2>3, <2>5, <2>6 DEF LastOf
<1>9. pCur' = s[L - 1] /\ pCur' \in Elements
  BY <1>2, <1>4, <1>6, <1>7
<1>10. ClearingAt'
  BY <1>4, <1>5, <1>8, <1>9 DEF ClearingAt
<1>11. TypeOK'
  <2>1. mDuplicateNumber' \in {0, 1} /\ bin' \in 0..mBinNumber /\ pCur' \in Elements \cup {Null}
        /\ (out' # <<>> => out'[1] \in {"insert", "remove", "find"} /\ out'[2] \in Keys)
    BY <1>4, <1>5, <1>9
  <2>2. QED
    BY <1>3, <2>1 DEF TypeOK, TableOK
<1>12. QED
  BY <1>3, <1>10, <1>11 DEF IInv

\* clear goes on with the next bin once the first element is destroyed ...
LEMMA ClearFirstOK ==
  ASSUME IInv, clearFirst, mDuplicateNumber' = mDuplicateNumber
  PROVE  IInv'
<1>1. PICK order : Shape(order, mpBin, heap, live)
  BY DEF IInv, RingsWhole
<1> DEFINE o == [order EXCEPT ![bin] = Without(order[bin], 1)]
<1>2. /\ bin \in Bins /\ Len(order[bin]) = 1 /\ 1 \in 1..Len(order[bin])
      /\ TakesOut(order, bin, 1)
  BY <1>1, ClearFirstIs
<1>3. /\ TableOK' /\ RingsWhole' /\ Counted' /\ NoDuplicateKeys'
      /\ Shape(o, mpBin', heap', live')
  BY <1>1, <1>2, TakesOutKeeps
<1>4. /\ Clearing /\ bin' = bin + 1 /\ pCur' = LastOf(bin + 1)
      /\ mpBin' = [mpBin EXCEPT ![bin] = Null] /\ out' = out
      /\ heap' = [Unlinked(Unlinked(heap, pCur), pCur) EXCEPT ![pCur] = Nothing]
  BY DEF clearFirst, NextBin, Destroy
<1>5. /\ mDuplicateNumber \in {0, 1}
      /\ bin \in 0..mBinNumber /\ mpBin \in [Bins -> Elements \cup {Null}] /\ live \subseteq Elements
      /\ out # <<>> => out[1] \in {"insert", "remove", "find"} /\ out[2] \in Keys
      /\ \A i \in 0..(bin - 1) : mpBin[i] = Null
  BY <1>4 DEF IInv, TypeOK, ClearingAt
<1>6. bin # mBinNumber /\ bin + 1 \in 0..mBinNumber /\ bin + 1 # bin
      /\ (bin + 1 # mBinNumber => bin + 1 \in Bins)
  BY <1>4, <1>5, BinsAre DEF Clearing
\* The last element of another ring is the one it was.
<1>7. LastOf(bin)' = LastOf(bin + 1)
  <2>1. CASE bin + 1 = mBinNumber
    BY <1>4, <2>1 DEF LastOf
  <2>2. CASE bin + 1 # mBinNumber
    <3> DEFINE n == bin + 1
    <3>1. n \in Bins /\ n # bin /\ n # mBinNumber
      BY <1>6, <2>2
    <3>2. bin' = n
      BY <1>4
    <3> HIDE DEF n
    <3>3. mpBin'[n] = mpBin[n]
      BY <1>4, <1>5, <3>1
    <3>4. mpBin[n] # Null => heap'[mpBin[n]].pPrev = heap[mpBin[n]].pPrev
      <4>1. o[n] = order[n]
        BY <1>1, <3>1 DEF Shape
      <4>2. Shape(o, mpBin', heap', live') /\ live' \subseteq Elements
        BY <1>3 DEF TableOK
      <4> HIDE DEF o
      <4>3. mpBin'[n] # Null => heap'[mpBin'[n]].pPrev = o[n][Len(o[n])]
        BY <4>2, <3>1, LastInRing
      <4>4. mpBin[n] # Null => heap[mpBin[n]].pPrev = order[n][Len(order[n])]
        BY <1>1, <1>5, <3>1, LastInRing
      <4>5. QED
        BY <3>3, <4>1, <4>3, <4>4
    <3>5. LastOf(n) = IF mpBin[n] = Null THEN Null ELSE heap[mpBin[n]].pPrev
      BY <3>1 DEF LastOf
    <3>6. LastOf(bin)' = IF mpBin'[n] = Null THEN Null ELSE heap'[mpBin'[n]].pPrev
      BY <3>1, <3>2 DEF LastOf
    <3>7. QED
      BY <3>3, <3>4, <3>5, <3>6 DEF n
  <2>3. QED
    BY <2>1, <2>2
<1>8. LastOf(bin + 1) \in Elements \cup {Null}
  BY <1>1, <1>5, <1>6, LastIsElement
<1>9. ClearingAt'
  <2>1. ASSUME NEW i \in 0..(bin' - 1) PROVE mpBin'[i] = Null
    <3>1. bin' = bin + 1 /\ bin \in 0..(mBinNumber - 1) /\ mBinNumber \in Nat
      BY <1>2, <1>4, BinsAre DEF Bins
    <3>2. i \in Bins /\ (i = bin \/ i \in 0..(bin - 1))
      BY <3>1 DEF Bins
    <3>3. QED
      BY <1>4, <1>5, <3>2
  <2>2. pCur' = LastOf(bin)'
    BY <1>4, <1>7
  <2>3. \A i \in 0..(bin' - 1) : mpBin'[i] = Null
    BY <2>1
  <2>4. QED
    BY <2>2, <2>3, Zenon DEF ClearingAt
<1>10. TypeOK'
  <2>1. mDuplicateNumber' \in {0, 1} /\ bin' \in 0..mBinNumber /\ pCur' \in Elements \cup {Null}
        /\ (out' # <<>> => out'[1] \in {"insert", "remove", "find"} /\ out'[2] \in Keys)
    BY <1>4, <1>5, <1>6, <1>8
  <2>2. QED
    BY <1>3, <2>1 DEF TypeOK, TableOK
<1>11. QED
  BY <1>3, <1>9, <1>10 DEF IInv

\* ... and passes over the bins that are empty.
LEMMA ClearEmptyOK ==
  ASSUME IInv, clearEmptyBin, mDuplicateNumber' = mDuplicateNumber
  PROVE  IInv'
<1>1. PICK order : Shape(order, mpBin, heap, live)
  BY DEF IInv, RingsWhole
<1>2. /\ Clearing /\ mpBin[bin] = Null /\ bin' = bin + 1 /\ pCur' = LastOf(bin + 1)
      /\ mpBin' = mpBin /\ heap' = heap /\ live' = live
      /\ mNumberOfElement' = mNumberOfElement /\ frees' = frees /\ out' = out
  BY DEF clearEmptyBin, NextBin, table
<1>3. TypeOK /\ RingsWhole /\ Counted /\ NoDuplicateKeys
      /\ bin \in 0..mBinNumber /\ live \subseteq Elements
      /\ \A i \in 0..(bin - 1) : mpBin[i] = Null
  BY <1>2 DEF IInv, TypeOK, ClearingAt
<1>4. bin + 1 \in 0..mBinNumber /\ (bin + 1 # mBinNumber => bin + 1 \in Bins)
  BY <1>2, <1>3, BinsAre DEF Clearing
<1>5. LastOf(bin + 1) \in Elements \cup {Null}
  BY <1>1, <1>3, <1>4, LastIsElement
<1>6. TypeOK'
  BY <1>2, <1>3, <1>4, <1>5 DEF TypeOK
<1>7. LastOf(bin)' = LastOf(bin + 1)
  BY <1>2 DEF LastOf
<1>8. \A i \in 0..(bin' - 1) : mpBin'[i] = Null
  BY <1>2, <1>3
<1>9. ClearingAt'
  <2>1. pCur' = LastOf(bin)'
    BY <1>2, <1>7
  <2>2. QED
    BY <1>8, <2>1, Zenon DEF ClearingAt
<1>10. RingsWhole' /\ Counted' /\ NoDuplicateKeys'
  BY <1>2, <1>3 DEF RingsWhole, Counted, NoDuplicateKeys
<1>11. QED
  BY <1>6, <1>9, <1>10 DEF IInv

LEMMA NextOK == IInv /\ [Next]_vars => IInv'
<1> SUFFICES ASSUME IInv, [Next]_vars PROVE IInv'
  OBVIOUS
<1>1. CASE Next
  <2>1. mDuplicateNumber' = mDuplicateNumber
    BY <1>1 DEF Next
  <2>2. QED
    BY <1>1, <2>1, OperationOK, ClearOK, ClearElementOK, ClearFirstOK, ClearEmptyOK DEF Next
<1>2. CASE UNCHANGED vars
  BY <1>2 DEF vars, table, IInv, TypeOK, RingsWhole, Counted, ClearingAt, Clearing, LastOf, NoDuplicateKeys
<1>3. QED
  BY <1>1, <1>2
-----------------------------------------------------------------------------
(* The invariants of the rings. *)

\* The rings are followed by an order in every state.
THEOREM Invariant == Spec => []IInv
<1>1. Init => IInv
  BY InitOK
<1>2. QED
  BY <1>1, NextOK, PTL DEF Spec

\* What Shape says of an element.
LEMMA LinksOfElement ==
  ASSUME NEW order, Shape(order, mpBin, heap, live), live \subseteq Elements, NEW e \in live,
         findBinIndex(heap[e].key) \in Bins
  PROVE  /\ heap[e].pNext \in live /\ heap[e].pPrev \in live
         /\ heap[heap[e].pNext].pPrev = e
         /\ heap[heap[e].pPrev].pNext = e
         /\ findBinIndex(heap[heap[e].pNext].key) = findBinIndex(heap[e].key)
         /\ mpBin[findBinIndex(heap[e].key)] # Null
<1> DEFINE i == findBinIndex(heap[e].key)
           s == order[i]
           L == Len(s)
<1>1. PICK p \in 1..L : s[p] = e
  BY DEF Shape, IsOn
<1>2. /\ s \in Seq(Elements) /\ L \in Nat
      /\ \A j \in 1..L : heap[s[j]].pNext = s[After(j, L)] /\ heap[s[j]].pPrev = s[Before(j, L)]
      /\ \A j \in 1..L : s[j] \in live /\ findBinIndex(heap[s[j]].key) = i
  BY DEF Shape, Follows, Belongs
<1>3. mpBin[i] # Null
  <2>1. s # <<>>
    BY <1>1, <1>2
  <2>2. QED
    BY <2>1, LastInRing
<1> HIDE DEF s, L, i
<1>4. /\ After(p, L) \in 1..L /\ Before(p, L) \in 1..L
      /\ Before(After(p, L), L) = p /\ After(Before(p, L), L) = p
  BY ONLY <1>1, <1>2, SMT DEF After, Before
<1>5. heap[e].pNext = s[After(p, L)] /\ heap[e].pPrev = s[Before(p, L)]
  BY <1>1, <1>2
<1>6. /\ heap[e].pNext \in live /\ heap[e].pPrev \in live
      /\ findBinIndex(heap[heap[e].pNext].key) = i
  BY <1>2, <1>4, <1>5
<1>7. heap[heap[e].pNext].pPrev = e /\ heap[heap[e].pPrev].pNext = e
  BY <1>1, <1>2, <1>4, <1>5
<1>8. QED
  BY <1>3, <1>6, <1>7 DEF i

\* Next and previous are inverse to each other, and no pointer dangles.
LEMMA LinksFromIInv == IInv => LinksConsistent
<1> SUFFICES ASSUME IInv PROVE LinksConsistent
  OBVIOUS
<1>1. PICK order : Shape(order, mpBin, heap, live)
  BY DEF IInv, RingsWhole
<1>2. live \subseteq Elements /\ \A e \in live : heap[e].key \in Keys
  BY DEF IInv, TypeOK, Element
<1>3. \A e \in live :
       /\ heap[e].pNext \in live /\ heap[e].pPrev \in live
       /\ heap[heap[e].pNext].pPrev = e
       /\ heap[heap[e].pPrev].pNext = e
       /\ findBinIndex(heap[heap[e].pNext].key) = findBinIndex(heap[e].key)
       /\ mpBin[findBinIndex(heap[e].key)] # Null
  BY <1>1, <1>2, BinOfKey, LinksOfElement
<1>4. ASSUME NEW i \in Bins, mpBin[i] # Null
      PROVE  mpBin[i] \in live /\ findBinIndex(heap[mpBin[i]].key) = i
  <2>1. mpBin[i] = order[i][1] /\ 1 \in 1..Len(order[i]) /\ mpBin[i] \in live
    BY <1>1, <1>2, <1>4, LastInRing
  <2>2. findBinIndex(heap[order[i][1]].key) = i
    BY <1>1, <2>1 DEF Shape, Belongs
  <2>3. QED
    BY <2>1, <2>2
<1>5. Clearing => pCur = LastOf(bin) /\ \A i \in 0..(bin - 1) : mpBin[i] = Null
  BY DEF IInv, ClearingAt
<1>6. QED
  BY <1>3, <1>4, <1>5 DEF LinksConsistent

\* The rings of all bins together are the elements that are alive.
LEMMA RingsFromIInv == IInv => EveryElementOnItsRing
<1> SUFFICES ASSUME IInv PROVE EveryElementOnItsRing
  OBVIOUS
<1>1. PICK order : Shape(order, mpBin, heap, live)
  BY DEF IInv, RingsWhole
<1>2. live \subseteq Elements /\ TypeOK /\ Counted /\ \A e \in live : heap[e].key \in Keys
  BY DEF IInv, TypeOK, Element
<1>3. ASSUME NEW i \in Bins PROVE Ring(i) = order[i] /\ order[i] \in Seq(Elements)
  <2>1. order[i] \in Seq(Elements)
    BY <1>1 DEF Shape
  <2>2. Ring(i) = order[i]
    BY <1>1, <1>2, LiveIsFinite, RingIsOrder DEF Ring
  <2>3. QED
    BY <2>1, <2>2
<1>4. \A i \in Bins : Range(Ring(i)) = {order[i][j] : j \in 1..Len(order[i])}
  BY <1>3 DEF Range
<1>5. ASSUME NEW i \in Bins, NEW x \in Range(Ring(i)) PROVE x \in live
  <2>1. PICK j \in 1..Len(order[i]) : x = order[i][j]
    BY <1>4
  <2>2. QED
    BY <1>1, <2>1 DEF Shape, Belongs
<1>6. ASSUME NEW e \in live PROVE \E i \in Bins : e \in Range(Ring(i))
  <2> DEFINE i == findBinIndex(heap[e].key)
  <2>1. i \in Bins
    BY <1>2, BinOfKey
  <2>2. PICK j \in 1..Len(order[i]) : order[i][j] = e
    BY <1>1 DEF Shape, IsOn
  <2>3. e \in Range(Ring(i))
    BY <1>4, <2>1, <2>2
  <2>4. QED
    BY <2>1, <2>3
<1>7. UNION {Range(Ring(i)) : i \in Bins} = live
  BY <1>5, <1>6
<1>8. QED
  BY <1>2, <1>7 DEF EveryElementOnItsRing, Counted

\* The types of the table, of the place clear is at and of what was returned.
THEOREM TypeCorrect == Spec => []TypeOK
<1>1. IInv => TypeOK
  BY DEF IInv
<1>2. QED
  BY <1>1, Invariant, PTL

\* insertToBin, ~hashElement and clear keep the links of every ring inverse to
\* each other, without a pointer to a deleted element.
THEOREM LinksAreConsistent == Spec => []LinksConsistent
BY LinksFromIInv, Invariant, PTL

\* No element is lost from its ring, and size() counts them all.
THEOREM ElementsOnTheirRings == Spec => []EveryElementOnItsRing
BY RingsFromIInv, Invariant, PTL

\* A table made without duplicates holds a key once.
THEOREM NoDuplicates == Spec => []NoDuplicateKeys
<1>1. IInv => NoDuplicateKeys
  BY DEF IInv
<1>2. QED
  BY <1>1, Invariant, PTL
-----------------------------------------------------------------------------
(* The table is a queue of data per key. *)

\* The order of a ring says in which order the data of a key come.
LEMMA QueueIs ==
  ASSUME NEW order, Shape(order, mpBin, heap, live), live \subseteq Elements, NEW k \in Keys
  PROVE  QueueOf(k) = DataUnder(heap, order[findBinIndex(k)], k)
<1>1. IsFiniteSet(live) /\ findBinIndex(k) \in Bins
  BY BinOfKey, CountIsBounded
<1>2. Ring(findBinIndex(k)) = order[findBinIndex(k)]
  BY <1>1, RingIsOrder DEF Ring
<1>3. QED
  BY <1>2, Zenon DEF QueueOf

LEMMA QueueIsThen ==
  ASSUME NEW order, Shape(order, mpBin', heap', live'), live' \subseteq Elements, NEW k \in Keys
  PROVE  QueueOf(k)' = DataUnder(heap', order[findBinIndex(k)], k)
<1>1. IsFiniteSet(live') /\ findBinIndex(k) \in Bins
  BY BinOfKey, CountIsBounded
<1>2. Ring(findBinIndex(k))' = order[findBinIndex(k)]
  BY <1>1, RingIsOrder DEF Ring
<1>3. QED
  BY <1>2, Zenon DEF QueueOf

\* Elements that are alive have data.
LEMMA RingHasData ==
  ASSUME NEW order, NEW bins, NEW h, NEW lv, Shape(order, bins, h, lv), HeapOK(h, lv), NEW i \in Bins
  PROVE  /\ order[i] \in Seq(Elements) /\ HasData(h, order[i])
         /\ \A j \in 1..Len(order[i]) : order[i][j] \in lv /\ findBinIndex(h[order[i][j]].key) = i
<1>1. order[i] \in Seq(Elements)
      /\ \A j \in 1..Len(order[i]) : order[i][j] \in lv /\ findBinIndex(h[order[i][j]].key) = i
  BY DEF Shape, Belongs
<1>2. \A e \in lv : h[e].data \in Data
  BY DEF HeapOK, Element
<1>3. QED
  BY <1>1, <1>2 DEF HasData

\* Lookup finds a key if its queue is not empty, and then the head of it.
LEMMA LookupIsHead ==
  ASSUME IInv, NEW k \in Keys
  PROVE  /\ Lookup(k) # Null <=> QueueOf(k) # <<>> /\ k \notin NeverSame
         /\ Lookup(k) # Null => heap[Lookup(k)].data = Head(QueueOf(k))
<1>1. PICK order : Shape(order, mpBin, heap, live)
  BY DEF IInv, RingsWhole
<1> DEFINE s == order[findBinIndex(k)]
<1>2. TypeOK /\ live \subseteq Elements /\ findBinIndex(k) \in Bins
  BY BinOfKey DEF IInv, TypeOK
<1>3. QueueOf(k) = DataUnder(heap, s, k)
  BY <1>1, <1>2, QueueIs
<1>4. /\ s \in Seq(Elements) /\ HasData(heap, s)
      /\ \A j \in 1..Len(s) : s[j] \in live
  BY <1>1, <1>2, LiveIsFinite, RingHasData
<1>5. CASE Lookup(k) = Null
  <2>1. k \notin NeverSame => \A j \in 1..Len(s) : heap[s[j]].key # k
    BY <1>1, <1>2, <1>4, <1>5, NotFound
  <2>2. k \notin NeverSame => DataUnder(heap, s, k) = <<>>
    BY <1>4, <2>1, DataUnderNone
  <2>3. QED
    BY <1>3, <1>5, <2>2
<1>6. CASE Lookup(k) # Null
  <2>1. PICK p \in 1..Len(s) : /\ Lookup(k) = s[p] /\ isSameKey(s[p], k)
                               /\ \A j \in 1..(p - 1) : ~isSameKey(s[j], k)
    BY <1>1, <1>2, <1>6, LookupIs
  <2>2. heap[s[p]].key = k /\ k \notin NeverSame /\ \A j \in 1..(p - 1) : heap[s[j]].key # k
    BY <2>1 DEF isSameKey
  <2>3. DataUnder(heap, s, k) # <<>> /\ Head(DataUnder(heap, s, k)) = heap[s[p]].data
    BY <1>4, <2>2, DataUnderFirst
  <2>4. QED
    BY <1>3, <1>6, <2>1, <2>2, <2>3
<1>7. QED
  BY <1>5, <1>6

\* insert puts a datum at the end of the queue of its key, whichever keys are
\* in the same bin.
LEMMA InsertQueues ==
  ASSUME IInv, NEW order, Shape(order, mpBin, heap, live), NEW k \in Keys, NEW d \in Data,
         NEW e \in Elements \ live, InsertNew(k, d, e), mDuplicateNumber' = mDuplicateNumber,
         ~(mDuplicateNumber = 0 /\ Lookup(k) # Null), NEW q \in Keys
  PROVE  QueueOf(q)' = IF q = k THEN Append(QueueOf(q), d) ELSE QueueOf(q)
<1> DEFINE i == findBinIndex(k)
           m == findBinIndex(q)
           s == order[m]
           o == [order EXCEPT ![i] = Append(order[i], e)]
<1>1. /\ Added(heap', heap, live, order[i], e, k, d)
      /\ Shape(o, mpBin', heap', live') /\ TableOK'
  BY InsertKeeps
<1>2. i \in Bins /\ m \in Bins /\ TypeOK /\ live \subseteq Elements /\ live' \subseteq Elements
  BY <1>1, BinOfKey DEF IInv, TypeOK, TableOK
<1>3. /\ s \in Seq(Elements) /\ HasData(heap, s)
      /\ \A j \in 1..Len(s) : s[j] \in live
  BY <1>2, LiveIsFinite, RingHasData
<1>4. QueueOf(q) = DataUnder(heap, s, q)
  BY <1>2, QueueIs
<1>5. o[m] = IF m = i THEN Append(s, e) ELSE s
  BY <1>2 DEF Shape
<1> HIDE DEF o
<1>6. QueueOf(q)' = DataUnder(heap', o[m], q)
  BY <1>1, <1>2, QueueIsThen
<1>7. heap'[e].key = k /\ heap'[e].data = d
      /\ \A x \in live : heap'[x].key = heap[x].key /\ heap'[x].data = heap[x].data
  BY <1>1 DEF Added
<1> HIDE DEF s, i, m
<1>8. SameData(heap', heap, s) /\ HasData(heap', s)
  BY <1>3, <1>7 DEF SameData, HasData
<1>9. DataUnder(heap', s, q) = QueueOf(q)
  BY <1>3, <1>4, <1>8, DataUnderSame
<1>10. CASE m = i
  <2>1. DataUnder(heap', Append(s, e), q)
          = IF heap'[e].key = q THEN Append(DataUnder(heap', s, q), heap'[e].data) ELSE DataUnder(heap', s, q)
    BY <1>3, <1>7, <1>8, DataUnderAppended
  <2>2. QED
    BY <1>5, <1>6, <1>7, <1>9, <1>10, <2>1
<1>11. CASE m # i
  <2>1. q # k
    BY <1>11 DEF m, i
  <2>2. QED
    BY <1>5, <1>6, <1>9, <1>11, <2>1
<1>12. QED
  BY <1>10, <1>11

\* Taking out the first element of a key takes the head off the queue of that
\* key, and leaves the other queues alone.
LEMMA RemoveQueues ==
  ASSUME IInv, NEW order, Shape(order, mpBin, heap, live), NEW k \in Keys,
         NEW p \in 1..Len(order[findBinIndex(k)]), TakesOut(order, findBinIndex(k), p),
         mDuplicateNumber' = mDuplicateNumber,
         heap[order[findBinIndex(k)][p]].key = k,
         \A j \in 1..(p - 1) : heap[order[findBinIndex(k)][j]].key # k,
         NEW q \in Keys
  PROVE  QueueOf(q)' = IF q = k THEN Tail(QueueOf(q)) ELSE QueueOf(q)
<1> DEFINE i == findBinIndex(k)
           m == findBinIndex(q)
           s == order[m]
           e == order[i][p]
           o == [order EXCEPT ![i] = Without(order[i], p)]
<1>1. i \in Bins /\ m \in Bins /\ TypeOK /\ live \subseteq Elements
  BY BinOfKey DEF IInv, TypeOK
<1>2. /\ Deleted(heap', heap, live, e)
      /\ Shape(o, mpBin', heap', live') /\ TableOK' /\ live' = live \ {e}
  BY <1>1, TakesOutKeeps, Zenon DEF TakesOut
<1>3. live' \subseteq Elements
  BY <1>2 DEF TableOK
<1>4. s \in Seq(Elements) /\ HasData(heap, s)
  BY <1>1, LiveIsFinite, RingHasData
<1>5. QueueOf(q) = DataUnder(heap, s, q)
  BY <1>1, QueueIs
<1>6. o[m] = IF m = i THEN Without(s, p) ELSE s
  BY <1>1 DEF Shape
<1>7. \A x \in live \ {e} : heap'[x].key = heap[x].key /\ heap'[x].data = heap[x].data
  BY <1>2 DEF Deleted
<1>8. heap[e].key = k
  OBVIOUS
<1> HIDE DEF o, e
<1>9. QueueOf(q)' = DataUnder(heap', o[m], q)
  BY <1>2, <1>3, QueueIsThen
<1>10. o[m] \in Seq(Elements) /\ \A j \in 1..Len(o[m]) : o[m][j] \in live \ {e}
  BY <1>1, <1>2 DEF Shape, Belongs
<1>11. HasData(heap, o[m]) /\ SameData(heap', heap, o[m])
  <2>1. \A x \in live : heap[x].data \in Data
    BY <1>1 DEF TypeOK, Element
  <2>2. QED
    BY <1>7, <1>10, <2>1 DEF HasData, SameData
<1>12. QueueOf(q)' = DataUnder(heap, o[m], q)
  BY <1>9, <1>10, <1>11, DataUnderSame
<1>13. CASE q = k
  <2>1. DataUnder(heap, Without(s, p), k) = Tail(DataUnder(heap, s, k))
    BY <1>4, <1>13, DataUnderFirst
  <2>2. QED
    BY <1>5, <1>6, <1>12, <1>13, <2>1
<1>14. CASE q # k /\ m = i
  <2>1. p \in 1..Len(s) /\ heap[s[p]].key # q
    BY <1>14
  <2>2. DataUnder(heap, Without(s, p), q) = DataUnder(heap, s, q)
    BY <1>4, <2>1, DataUnderOther
  <2>3. QED
    BY <1>5, <1>6, <1>12, <1>14, <2>2
<1>15. CASE q # k /\ m # i
  BY <1>5, <1>6, <1>12, <1>15
<1>16. QED
  BY <1>13, <1>14, <1>15

\* The queues and the size the table stands for.
QueuesNow == [k \in Keys |-> IF Clearing THEN <<>> ELSE QueueOf(k)]

SizeNow == IF Clearing THEN 0 ELSE mNumberOfElement

\* A table whose bins are empty has empty queues.
LEMMA EmptyTable ==
  IInv /\ (\A i \in Bins : mpBin[i] = Null) =>
    QueuesNow = [k \in Keys |-> <<>>] /\ SizeNow = 0
<1> SUFFICES ASSUME IInv, \A i \in Bins : mpBin[i] = Null
             PROVE  QueuesNow = [k \in Keys |-> <<>>] /\ SizeNow = 0
  OBVIOUS
<1>1. PICK order : Shape(order, mpBin, heap, live)
  BY DEF IInv, RingsWhole
<1>2. live \subseteq Elements /\ Counted /\ \A e \in live : heap[e].key \in Keys
  BY DEF IInv, TypeOK, Element
<1>3. \A i \in Bins : order[i] = <<>>
  BY <1>1, <1>2, LastInRing
<1>4. live = {}
  <2>1. SUFFICES ASSUME NEW e \in live PROVE FALSE
    OBVIOUS
  <2>2. IsOn(e, order[findBinIndex(heap[e].key)]) /\ findBinIndex(heap[e].key) \in Bins
    BY <1>1, <1>2, BinOfKey DEF Shape
  <2>3. IsOn(e, <<>>)
    BY <1>3, <2>2
  <2>4. QED
    BY <2>3 DEF IsOn
<1>5. SizeNow = 0
  BY <1>2, <1>4, FS_EmptySet DEF Counted, SizeNow
<1>6. ASSUME NEW k \in Keys PROVE QueueOf(k) = <<>>
  <2>1. QueueOf(k) = DataUnder(heap, <<>>, k)
    BY <1>1, <1>2, <1>3, BinOfKey, QueueIs
  <2>2. <<>> \in Seq(Elements) /\ \A j \in 1..Len(<<>>) : heap[<<>>[j]].key # k
    OBVIOUS
  <2>3. QED
    BY <2>1, <2>2, DataUnderNone
<1>7. QED
  BY <1>5, <1>6 DEF QueuesNow

LEMMA EmptyTableThen ==
  IInv' /\ (\A i \in Bins : mpBin'[i] = Null) =>
    QueuesNow' = [k \in Keys |-> <<>>] /\ SizeNow' = 0
<1>1. (IInv /\ (\A i \in Bins : mpBin[i] = Null) =>
        QueuesNow = [k \in Keys |-> <<>>] /\ SizeNow = 0)'
  BY EmptyTable, PTL
<1>2. QED
  BY <1>1

\* A new table stands for empty queues.
LEMMA InitRefines == Init => Queues!Init
<1> SUFFICES ASSUME Init PROVE Queues!Init
  OBVIOUS
<1>1. QueuesNow = [k \in Keys |-> <<>>] /\ SizeNow = 0
  BY InitOK, EmptyTable
<1>2. mDuplicateNumber \in {0, 1} /\ out = <<>>
  BY DEF Init
<1>3. QED
  BY <1>1, <1>2 DEF Queues!Init, QueuesNow, SizeNow

\* What a table that is not touched stands for.
LEMMA SameTable ==
  ASSUME UNCHANGED table, Clearing' <=> Clearing
  PROVE  QueuesNow' = QueuesNow /\ SizeNow' = SizeNow
<1>1. mpBin' = mpBin /\ heap' = heap /\ live' = live /\ mNumberOfElement' = mNumberOfElement
  BY DEF table
<1>2. \A k \in Keys : QueueOf(k)' = QueueOf(k)
  BY <1>1, Zenon DEF QueueOf, Ring
<1>3. QED
  BY <1>1, <1>2 DEF QueuesNow, SizeNow

\* What changes if the queue of one key changes.
LEMMA QueueChanged ==
  ASSUME ~Clearing, ~Clearing', NEW k \in Keys, NEW v,
         \A q \in Keys : QueueOf(q)' = IF q = k THEN v ELSE QueueOf(q)
  PROVE  QueuesNow' = [QueuesNow EXCEPT ![k] = v]
BY DEF QueuesNow

LEMMA InsertRefines ==
  ASSUME IInv, ~Clearing, ~Clearing', mDuplicateNumber' = mDuplicateNumber,
         NEW k \in Keys, NEW d \in Data, insert(k, d)
  PROVE  Queues!Insert(k, d)
<1>1. QueuesNow[k] = QueueOf(k) /\ SizeNow = mNumberOfElement /\ SizeNow' = mNumberOfElement'
  BY DEF QueuesNow, SizeNow
<1>2. Lookup(k) # Null <=> QueuesNow[k] # <<>> /\ k \notin NeverSame
  BY <1>1, LookupIsHead
<1>3. mDuplicateNumber = 0 <=> ~(mDuplicateNumber # 0)
  OBVIOUS
<1>4. CASE /\ mDuplicateNumber = 0 /\ Lookup(k) # Null
           /\ out' = <<"insert", k, FALSE>> /\ UNCHANGED table
  <2>1. QueuesNow' = QueuesNow /\ SizeNow' = SizeNow
    BY <1>4, SameTable
  <2>2. QED
    BY <1>2, <1>4, <2>1 DEF Queues!Insert, Queues!Found, QueuesNow, SizeNow
<1>5. ASSUME ~(mDuplicateNumber = 0 /\ Lookup(k) # Null),
             NEW e \in Elements \ live, InsertNew(k, d, e)
      PROVE  Queues!Insert(k, d)
  <2>1. PICK order : Shape(order, mpBin, heap, live)
    BY DEF IInv, RingsWhole
  <2>2. \A q \in Keys : QueueOf(q)' = IF q = k THEN Append(QueueOf(k), d) ELSE QueueOf(q)
    BY <1>5, <2>1, InsertQueues
  <2>3. QueuesNow' = [QueuesNow EXCEPT ![k] = Append(QueuesNow[k], d)]
    BY <1>1, <2>2, QueueChanged
  <2>4. mNumberOfElement' = mNumberOfElement + 1 /\ out' = <<"insert", k, TRUE>>
    BY <1>5 DEF InsertNew
  <2>5. mNumberOfElement < Cardinality(Elements)
    <3>1. mNumberOfElement + 1 \in 0..Cardinality(Elements) /\ mNumberOfElement \in 0..Cardinality(Elements)
      BY <1>5, CountAdded DEF IInv, TypeOK
    <3>2. Cardinality(Elements) \in Nat
      BY MemoryAssumption, FS_CardinalityType
    <3>3. QED
      BY <3>1, <3>2
  <2>6. ~(~(mDuplicateNumber # 0) /\ QueuesNow[k] # <<>> /\ k \notin NeverSame)
    BY <1>2, <1>5
  <2>7. QED
    BY <1>1, <2>3, <2>4, <2>5, <2>6, Zenon DEF Queues!Insert, Queues!Found, QueuesNow, SizeNow
<1>6. QED
  BY <1>4, <1>5, InsertCases

LEMMA RemoveRefines ==
  ASSUME IInv, ~Clearing, ~Clearing', mDuplicateNumber' = mDuplicateNumber,
         NEW k \in Keys, remove(k)
  PROVE  Queues!Remove(k)
<1>1. QueuesNow[k] = QueueOf(k) /\ SizeNow = mNumberOfElement /\ SizeNow' = mNumberOfElement'
  BY DEF QueuesNow, SizeNow
<1>2. /\ Lookup(k) # Null <=> QueuesNow[k] # <<>> /\ k \notin NeverSame
      /\ Lookup(k) # Null => heap[Lookup(k)].data = Head(QueuesNow[k])
  BY <1>1, LookupIsHead
<1>3. CASE Lookup(k) = Null
  <2>1. out' = <<"remove", k, Nothing>> /\ UNCHANGED table
    BY <1>3, Zenon DEF remove
  <2>2. QueuesNow' = QueuesNow /\ SizeNow' = SizeNow
    BY <2>1, SameTable
  <2>3. ~(QueuesNow[k] # <<>> /\ k \notin NeverSame)
    BY <1>2, <1>3
  <2>4. QED
    BY <2>1, <2>2, <2>3, Zenon DEF Queues!Remove, Queues!Found, QueuesNow, SizeNow
<1>4. CASE Lookup(k) # Null
  <2>1. PICK order : Shape(order, mpBin, heap, live)
    BY DEF IInv, RingsWhole
  <2> DEFINE s == order[findBinIndex(k)]
  <2>2. PICK p \in 1..Len(s) :
          /\ TakesOut(order, findBinIndex(k), p)
          /\ isSameKey(s[p], k) /\ \A j \in 1..(p - 1) : ~isSameKey(s[j], k)
    BY <1>4, <2>1, RemoveNotNull
  <2>3. heap[s[p]].key = k /\ \A j \in 1..(p - 1) : heap[s[j]].key # k
    BY <2>2 DEF isSameKey
  <2>4. \A q \in Keys : QueueOf(q)' = IF q = k THEN Tail(QueueOf(k)) ELSE QueueOf(q)
    BY <2>1, <2>2, <2>3, RemoveQueues
  <2>5. QueuesNow' = [QueuesNow EXCEPT ![k] = Tail(QueuesNow[k])]
    BY <1>1, <2>4, QueueChanged
  <2>6. mNumberOfElement' = mNumberOfElement - 1 /\ out' = <<"remove", k, heap[Lookup(k)].data>>
    BY <1>4, Zenon DEF remove
  <2>7. QueuesNow[k] # <<>> /\ k \notin NeverSame /\ heap[Lookup(k)].data = Head(QueuesNow[k])
    BY <1>2, <1>4
  <2> HIDE DEF s
  <2>8. QED
    BY <1>1, <2>5, <2>6, <2>7, Zenon DEF Queues!Remove, Queues!Found, QueuesNow, SizeNow
<1>5. QED
  BY <1>3, <1>4

LEMMA FindRefines ==
  ASSUME IInv, Clearing' = Clearing, ~Clearing, NEW k \in Keys, find(k)
  PROVE  Queues!Find(k)
<1>1. QueuesNow[k] = QueueOf(k)
  BY DEF QueuesNow
<1>2. /\ Lookup(k) # Null <=> QueuesNow[k] # <<>> /\ k \notin NeverSame
      /\ Lookup(k) # Null => heap[Lookup(k)].data = Head(QueuesNow[k])
  BY <1>1, LookupIsHead
<1>3. out' = <<"find", k, IF Lookup(k) = Null THEN Nothing ELSE heap[Lookup(k)].data>> /\ UNCHANGED table
  BY DEF find
<1>4. QueuesNow' = QueuesNow /\ SizeNow' = SizeNow
  BY <1>3, SameTable
<1>5. out' = <<"find", k, IF QueuesNow[k] # <<>> /\ k \notin NeverSame THEN Head(QueuesNow[k]) ELSE Nothing>>
  BY <1>2, <1>3, Zenon
<1>6. QED
  BY <1>4, <1>5, Zenon DEF Queues!Find, Queues!Found, QueuesNow, SizeNow

\* clear empties all queues with its first step ...
LEMMA ClearRefines ==
  ASSUME clear
  PROVE  Queues!Clear
<1>1. bin' = 0 /\ out' = <<>> /\ 0 # mBinNumber
  BY BinAssumption DEF clear
<1>2. Clearing'
  BY <1>1 DEF Clearing
<1>3. QED
  BY <1>1, <1>2 DEF Queues!Clear

\* ... and the others show nothing, up to the last one, after which the bins
\* are empty.
LEMMA ClearingRefines ==
  ASSUME IInv, IInv', clearElement \/ clearFirst \/ clearEmptyBin,
         mDuplicateNumber' = mDuplicateNumber
  PROVE  UNCHANGED Queues!vars
<1>1. Clearing /\ out' = out
  BY DEF clearElement, clearFirst, clearEmptyBin
<1>2. QueuesNow = [k \in Keys |-> <<>>] /\ SizeNow = 0
  BY <1>1 DEF QueuesNow, SizeNow
<1>3. QueuesNow' = [k \in Keys |-> <<>>] /\ SizeNow' = 0
  <2>1. CASE Clearing'
    BY <2>1 DEF QueuesNow, SizeNow
  <2>2. CASE ~Clearing'
    <3>1. bin \in 0..mBinNumber /\ mBinNumber \in Nat /\ bin # mBinNumber
          /\ \A i \in 0..(bin - 1) : mpBin[i] = Null
      BY <1>1, BinsAre DEF IInv, TypeOK, ClearingAt, Clearing
    <3>2. bin' = mBinNumber
      BY <2>2 DEF Clearing
    <3>3. /\ bin' = bin + 1
          /\ mpBin' = [mpBin EXCEPT ![bin] = Null] \/ (mpBin' = mpBin /\ mpBin[bin] = Null)
      <4>1. ~clearElement
        BY <3>1, <3>2 DEF clearElement
      <4>2. QED
        BY <4>1 DEF clearFirst, clearEmptyBin, NextBin, table
    <3>4. mpBin \in [Bins -> Elements \cup {Null}]
      BY DEF IInv, TypeOK
    <3>5. \A i \in Bins : i = bin \/ i \in 0..(bin - 1)
      BY <3>1, <3>2, <3>3 DEF Bins
    <3>6. \A i \in Bins : mpBin'[i] = Null
      BY <3>1, <3>3, <3>4, <3>5
    <3>7. QED
      BY <3>6, EmptyTableThen
  <2>3. QED
    BY <2>1, <2>2
<1>4. QueuesNow' = QueuesNow /\ SizeNow' = SizeNow /\ (mDuplicateNumber # 0)' = (mDuplicateNumber # 0)
  BY <1>2, <1>3
<1>5. QED
  BY <1>1, <1>4, Zenon DEF Queues!vars, QueuesNow, SizeNow

LEMMA NextRefines == IInv /\ IInv' /\ [Next]_vars => [Queues!Next]_(Queues!vars)
<1> SUFFICES ASSUME IInv, IInv', [Next]_vars PROVE [Queues!Next]_(Queues!vars)
  OBVIOUS
<1>1. CASE UNCHANGED vars
  <2>1. UNCHANGED table /\ bin' = bin /\ out' = out /\ mDuplicateNumber' = mDuplicateNumber
    BY <1>1 DEF vars, table
  <2>2. Clearing' = Clearing /\ (mDuplicateNumber # 0)' = (mDuplicateNumber # 0)
    BY <2>1 DEF Clearing
  <2>3. QueuesNow' = QueuesNow /\ SizeNow' = SizeNow
    BY <2>1, <2>2, SameTable
  <2>4. QED
    BY <2>1, <2>2, <2>3, Zenon DEF Queues!vars, QueuesNow, SizeNow
<1>2. CASE Next
  <2>1. mDuplicateNumber' = mDuplicateNumber
    BY <1>2 DEF Next
  <2>2. (mDuplicateNumber # 0)' = (mDuplicateNumber # 0)
    BY <2>1
  <2>3. CASE Operation
    <3>1. ~Clearing /\ ~Clearing' /\ Clearing' = Clearing
      BY <2>3 DEF Operation, Clearing
    <3>2. \/ \E k \in Keys, d \in Data : Queues!Insert(k, d)
          \/ \E k \in Keys : Queues!Remove(k) \/ Queues!Find(k)
      BY <2>1, <2>3, <3>1, InsertRefines, RemoveRefines, FindRefines DEF Operation
    <3>3. QED
      BY <2>2, <3>2 DEF Queues!Next
  <2>4. CASE clear
    BY <2>2, <2>4, ClearRefines DEF Queues!Next
  <2>5. CASE clearElement \/ clearFirst \/ clearEmptyBin
    BY <2>1, <2>5, ClearingRefines
  <2>6. QED
    BY <1>2, <2>3, <2>4, <2>5 DEF Next
<1>3. QED
  BY <1>1, <1>2

\* Whatever keys share a bin, a table gives back the data of a key in the order
\* in which they were inserted, refuses a key only while it holds it, and is
\* empty after clear.
THEOREM TableImplementsQueues == Spec => ImplementsQueues
<1>1. IInv /\ [Next]_vars => [Queues!Next]_(Queues!vars)
  BY NextOK, NextRefines
<1>2. QED
  BY <1>1, InitRefines, Invariant, PTL DEF Spec, ImplementsQueues, Queues!Spec
=============================================================================
