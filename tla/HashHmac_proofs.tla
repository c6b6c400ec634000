--------------------------- MODULE HashHmac_proofs ---------------------------
(***************************************************************************)
(* What a hash object has taken in does not depend on the pieces it came   *)
(* in, and a digest is that of the padded message: for every algorithm,    *)
(* every message and every length.  An HMAC object that is given one key   *)
(* computes the HMAC of RFC 2104, for every key and every text.            *)
(***************************************************************************)
EXTENDS HashHmac, HashAlgorithms, SequenceTheorems, TLAPS
-----------------------------------------------------------------------------
(* Arithmetic. *)

\* Division with remainder.
LEMMA Division ==
  ASSUME NEW a \in Int, NEW n \in Nat \ {0}
  PROVE  a % n \in 0..(n - 1) /\ a \div n \in Int /\ a = n * (a \div n) + (a % n)
BY SMT

\* There is one quotient only.
LEMMA QuotientUnique ==
  ASSUME NEW n \in Nat \ {0}, NEW q1 \in Int, NEW q2 \in Int,
         NEW r1 \in 0..(n - 1), NEW r2 \in 0..(n - 1),
         n * q1 + r1 = n * q2 + r2
  PROVE  q1 = q2
<1>1. n * (q1 - q2) = r2 - r1
  BY SMT
<1>2. CASE q1 - q2 >= 1
  <2>1. n * (q1 - q2) >= n
    BY <1>2, SMT
  <2>2. QED
    BY <2>1, <1>1, SMT
<1>3. CASE q1 - q2 <= -1
  <2>1. n * (q1 - q2) <= 0 - n
    BY <1>3, SMT
  <2>2. QED
    BY <2>1, <1>1, SMT
<1>4. CASE q1 - q2 = 0
  BY <1>4, SMT
<1>5. QED
  BY <1>2, <1>3, <1>4, SMT

\* There is one remainder only.
LEMMA RemainderUnique ==
  ASSUME NEW n \in Nat \ {0}, NEW q1 \in Int, NEW q2 \in Int,
         NEW r1 \in 0..(n - 1), NEW r2 \in 0..(n - 1),
         n * q1 + r1 = n * q2 + r2
  PROVE  r1 = r2
<1>1. q1 = q2
  BY QuotientUnique
<1>2. QED
  BY <1>1, SMT

\* What a number is, its quotient and remainder are.
LEMMA DivisionIs ==
  ASSUME NEW n \in Nat \ {0}, NEW q \in Int, NEW r \in 0..(n - 1)
  PROVE  (n * q + r) \div n = q /\ (n * q + r) % n = r
<1> DEFINE a == n * q + r
<1>1. a \in Int
  BY SMT
<1>2. a % n \in 0..(n - 1) /\ a \div n \in Int /\ a = n * (a \div n) + (a % n)
  BY <1>1, Division
<1>3. n * (a \div n) + (a % n) = n * q + r
  BY <1>2
<1> HIDE DEF a
<1>4. a \div n = q
  BY <1>2, <1>3, QuotientUnique
<1>5. a % n = r
  BY <1>2, <1>3, RemainderUnique
<1>6. QED
  BY <1>4, <1>5 DEF a

\* The remainder of a number smaller than n, and than 2n.
LEMMA RemainderIs ==
  ASSUME NEW n \in Nat \ {0}, NEW r \in 0..(n - 1)
  PROVE  r % n = r /\ (n + r) % n = r
<1>1. n * 0 + r = r /\ n * 1 + r = n + r /\ 0 \in Int /\ 1 \in Int
  BY SMT
<1>2. \A q \in Int : (n * q + r) % n = r
  BY DivisionIs
<1>3. (n * 0 + r) % n = r /\ (n * 1 + r) % n = r
  BY <1>1, <1>2, Zenon
<1>4. QED
  BY <1>1, <1>3, Zenon

\* A remainder may be taken early.
LEMMA RemainderOfSum ==
  ASSUME NEW n \in Nat \ {0}, NEW a \in Int, NEW b \in Int
  PROVE  ((a % n) + b) % n = (a + b) % n
<1> DEFINE r == a % n
           q == a \div n
           s == r + b
           t == s % n
           p == s \div n
<1>1. r \in 0..(n - 1) /\ q \in Int /\ a = n * q + r
  BY Division
<1> HIDE DEF r, q
<1>2. s \in Int
  BY <1>1, SMT
<1>3. t \in 0..(n - 1) /\ p \in Int /\ s = n * p + t
  BY <1>2, Division
<1>4. a + b = n * (q + p) + t
  <2>1. s = r + b
    OBVIOUS
  <2> HIDE DEF s, p, t
  <2>2. QED
    BY <1>1, <1>2, <1>3, <2>1, SMT
<1> HIDE DEF t, p
<1>5. (a + b) % n = t
  <2>1. q + p \in Int
    BY <1>1, <1>3, SMT
  <2>2. QED
    BY <1>3, <1>4, <2>1, DivisionIs
<1>6. QED
  BY <1>5 DEF t, r

\* A multiple of n more or less does not change the remainder.
LEMMA RemainderOfMultiple ==
  ASSUME NEW n \in Nat \ {0}, NEW a \in Int, NEW k \in Int
  PROVE  (n * k + a) % n = a % n
<1> DEFINE r == a % n
           q == a \div n
<1>1. r \in 0..(n - 1) /\ q \in Int /\ a = n * q + r
  BY Division
<1> HIDE DEF r, q
<1>2. k + q \in Int /\ n * k + a = n * (k + q) + r
  BY <1>1, SMT
<1>3. QED
  BY <1>1, <1>2, DivisionIs DEF r
-----------------------------------------------------------------------------
(* Sequences of anything. *)

LEMMA SeqOf ==
  ASSUME NEW s, IsSeq(s)
  PROVE  s \in Seq({s[i] : i \in 1..Len(s)})
<1> DEFINE S == {s[i] : i \in 1..Len(s)}
<1>1. \A i \in 1..Len(s) : s[i] \in S
  OBVIOUS
<1>2. [i \in 1..Len(s) |-> s[i]] \in [1..Len(s) -> S]
  BY <1>1
<1>3. s \in [1..Len(s) -> S]
  BY <1>2 DEF IsSeq
<1>4. Len(s) \in Nat
  BY DEF IsSeq
<1> HIDE DEF S
<1>5. s \in UNION {[1..n -> S] : n \in Nat}
  BY <1>3, <1>4
<1>6. QED
  BY <1>5, SeqDef DEF S

LEMMA IsSeqOf ==
  ASSUME NEW S, NEW s \in Seq(S)
  PROVE  IsSeq(s)
BY LenProperties DEF IsSeq

LEMMA Concat ==
  ASSUME NEW s, NEW t, IsSeq(s), IsSeq(t)
  PROVE  /\ IsSeq(s \o t)
         /\ Len(s \o t) = Len(s) + Len(t)
         /\ \A i \in 1..(Len(s) + Len(t)) :
              (s \o t)[i] = IF i <= Len(s) THEN s[i] ELSE t[i - Len(s)]
<1> DEFINE S == {s[i] : i \in 1..Len(s)}
           T == {t[i] : i \in 1..Len(t)}
<1>1. s \in Seq(S) /\ t \in Seq(T)
  BY SeqOf
<1> HIDE DEF S, T
<1>2. s \in Seq(S \cup T) /\ t \in Seq(S \cup T)
  BY <1>1, SeqMonotonic
<1>3. QED
  BY <1>2, ConcatProperties, IsSeqOf

LEMMA Associative ==
  ASSUME NEW s, NEW t, NEW u, IsSeq(s), IsSeq(t), IsSeq(u)
  PROVE  (s \o t) \o u = s \o (t \o u)
<1> DEFINE S == {s[i] : i \in 1..Len(s)}
           T == {t[i] : i \in 1..Len(t)}
           U == {u[i] : i \in 1..Len(u)}
<1>1. s \in Seq(S) /\ t \in Seq(T) /\ u \in Seq(U)
  BY SeqOf
<1> HIDE DEF S, T, U
<1> DEFINE A == S \cup T \cup U
<1>2. s \in Seq(A) /\ t \in Seq(A) /\ u \in Seq(A)
  BY <1>1, SeqMonotonic
<1> HIDE DEF A
<1>3. QED
  BY <1>2, ConcatAssociative

LEMMA Same ==
  ASSUME NEW s, NEW t, IsSeq(s), IsSeq(t), Len(s) = Len(t),
         \A i \in 1..Len(s) : s[i] = t[i]
  PROVE  s = t
BY DEF IsSeq

LEMMA Empty ==
  /\ IsSeq(<<>>) /\ Len(<<>>) = 0
  /\ \A s : IsSeq(s) => s \o <<>> = s /\ <<>> \o s = s
<1>1. <<>> \in Seq({}) /\ Len(<<>>) = 0
  BY EmptySeq
<1>2. ASSUME NEW s, IsSeq(s)
      PROVE  s \o <<>> = s /\ <<>> \o s = s
  BY <1>2, SeqOf, ConcatEmptySeq
<1>3. QED
  BY <1>1, <1>2, IsSeqOf

\* A function on 1..n is a sequence of length n.
LEMMA Listed ==
  ASSUME NEW n \in Nat, NEW s, s = [i \in 1..n |-> s[i]]
  PROVE  IsSeq(s) /\ Len(s) = n
<1> DEFINE S == {s[i] : i \in 1..n}
<1>1. s \in [1..n -> S]
  OBVIOUS
<1> HIDE DEF S
<1>2. s \in Seq(S)
  BY <1>1, SeqDef
<1>3. Len(s) = n
  BY <1>1, <1>2, LenProperties
<1>4. QED
  BY <1>2, <1>3, IsSeqOf

LEMMA Part ==
  ASSUME NEW s, IsSeq(s), NEW i \in 0..Len(s), NEW j \in i..Len(s)
  PROVE  /\ IsSeq(SubSeq(s, i + 1, j))
         /\ Len(SubSeq(s, i + 1, j)) = j - i
         /\ \A k \in 1..(j - i) : SubSeq(s, i + 1, j)[k] = s[i + k]
<1> DEFINE S == {s[k] : k \in 1..Len(s)}
<1>1. s \in Seq(S)
  BY SeqOf
<1>2. Len(s) \in Nat /\ i \in Nat /\ j \in Nat
  BY DEF IsSeq
<1>3. \A k \in (i + 1)..j : s[k] \in S
  BY <1>2
<1> HIDE DEF S
<1>4. i + 1 \in Int /\ j \in Int
  BY <1>2
<1>5. /\ SubSeq(s, i + 1, j) \in Seq(S)
      /\ Len(SubSeq(s, i + 1, j)) = IF i + 1 <= j THEN j - (i + 1) + 1 ELSE 0
      /\ \A k \in 1..(j - (i + 1) + 1) : SubSeq(s, i + 1, j)[k] = s[(i + 1) + k - 1]
  BY <1>3, <1>4, SubSeqProperties
<1>6. IsSeq(SubSeq(s, i + 1, j))
  BY <1>5, IsSeqOf
<1>7. Len(SubSeq(s, i + 1, j)) = j - i
  BY <1>2, <1>5
<1>8. \A k \in 1..(j - i) : SubSeq(s, i + 1, j)[k] = s[i + k]
  <2> TAKE k \in 1..(j - i)
  <2>1. k \in 1..(j - (i + 1) + 1) /\ (i + 1) + k - 1 = i + k
    BY <1>2
  <2>2. QED
    BY <1>5, <2>1
<1>9. QED
  BY <1>6, <1>7, <1>8

\* A sequence cut in two, up to j.
LEMMA Split ==
  ASSUME NEW s, IsSeq(s), NEW i \in 0..Len(s), NEW j \in i..Len(s)
  PROVE  SubSeq(s, 1, i) \o SubSeq(s, i + 1, j) = SubSeq(s, 1, j)
<1>1. Len(s) \in Nat /\ i \in Nat /\ j \in Nat
  BY DEF IsSeq
<1>2. s \in Seq({s[k] : k \in 1..Len(s)})
  BY SeqOf
<1>3. 1 \in 1..(Len(s) + 1) /\ i \in (1 - 1)..Len(s) /\ j \in i..Len(s)
  BY <1>1
<1>4. QED
  BY <1>2, <1>3, ConcatAdjacentSubSeq

LEMMA Entire ==
  ASSUME NEW s, IsSeq(s)
  PROVE  SubSeq(s, 1, Len(s)) = s
BY SeqOf, SubSeqFull

\* The first part of a concatenation.
LEMMA First ==
  ASSUME NEW s, NEW t, IsSeq(s), IsSeq(t)
  PROVE  SubSeq(s \o t, 1, Len(s)) = s
<1>1. Len(s) \in Nat /\ Len(t) \in Nat
  BY DEF IsSeq
<1>2. /\ IsSeq(s \o t) /\ Len(s \o t) = Len(s) + Len(t)
      /\ \A i \in 1..(Len(s) + Len(t)) :
              (s \o t)[i] = IF i <= Len(s) THEN s[i] ELSE t[i - Len(s)]
  BY Concat
<1>3. 0 \in 0..Len(s \o t) /\ Len(s) \in 0..Len(s \o t)
  BY <1>1, <1>2
<1>4. /\ IsSeq(SubSeq(s \o t, 0 + 1, Len(s)))
      /\ Len(SubSeq(s \o t, 0 + 1, Len(s))) = Len(s) - 0
      /\ \A k \in 1..(Len(s) - 0) : SubSeq(s \o t, 0 + 1, Len(s))[k] = (s \o t)[0 + k]
  BY <1>2, <1>3, Part
<1>5. 0 + 1 = 1 /\ Len(s) - 0 = Len(s) /\ \A k \in 1..Len(s) : 0 + k = k
  BY <1>1
<1>6. \A k \in 1..Len(s) : SubSeq(s \o t, 1, Len(s))[k] = s[k]
  <2> TAKE k \in 1..Len(s)
  <2>1. k \in 1..(Len(s) + Len(t)) /\ k <= Len(s)
    BY <1>1
  <2>2. SubSeq(s \o t, 0 + 1, Len(s))[k] = (s \o t)[0 + k]
    BY <1>4, <1>5
  <2>3. QED
    BY <1>2, <1>5, <2>1, <2>2
<1>7. QED
  BY <1>4, <1>5, <1>6, Same
-----------------------------------------------------------------------------
(* The bit counter. *)

\* A word counts the bits of V bytes, and V is a whole number of blocks.
LEMMA WordIs ==
  ASSUME NEW a, IsAlgorithm(a)
  PROVE  \E k \in Nat \ {0} : a.word = 8 * (a.block * k)
                            /\ a.word \div 8 = a.block * k
                            /\ a.block * k \in Nat \ {0}
<1> DEFINE W == a.word
           B == a.block
           k == W \div (8 * B)
<1>1. W \in Nat \ {0} /\ B \in Nat \ {0} /\ W % (8 * B) = 0
  BY DEF IsAlgorithm
<1> HIDE DEF W, B
<1> DEFINE M == 8 * B
<1>2. M \in Nat \ {0} /\ W \in Int
  BY <1>1, SMT
<1>3. k \in Int /\ W = (8 * B) * k + 0
  <2>1. W % M = 0
    BY <1>1
  <2> HIDE DEF M
  <2>2. W \div M \in Int /\ W = M * (W \div M) + (W % M)
    BY <1>2, Division
  <2>3. QED
    BY <2>1, <2>2 DEF M
<1> HIDE DEF k
<1>4. W = 8 * (B * k)
  BY <1>1, <1>3, SMT
<1>5. B * k \in Int
  BY <1>1, <1>3, SMT
<1>6. B * k > 0
  BY <1>1, <1>4, <1>5, SMT
<1>7. k > 0
  <2>1. CASE k <= 0
    <3>1. B * k <= 0
      BY <2>1, <1>1, <1>3, SMT
    <3>2. QED
      BY <3>1, <1>6, <1>5, SMT
  <2>2. QED
    BY <2>1, <1>3, SMT
<1>8. W \div 8 = B * k
  <2>1. W = 8 * (B * k) + 0 /\ 0 \in 0..(8 - 1)
    BY <1>4, <1>5, SMT
  <2>2. 8 \in Nat \ {0}
    BY SMT
  <2>3. QED
    BY <1>5, <2>1, <2>2, DivisionIs
<1>9. QED
  BY <1>3, <1>4, <1>5, <1>6, <1>7, <1>8 DEF W, B

\* updateSha1: the index into the buffer is read from the low word alone, and
\* that is enough.
LEMMA IndexIsLength ==
  ASSUME NEW a, IsAlgorithm(a), NEW c, NEW n \in Nat, c.low = (8 * n) % a.word
  PROVE  Index(a, c) = n % a.block
<1> DEFINE B == a.block
<1>1. PICK k \in Nat \ {0} : a.word = 8 * (B * k) /\ B * k \in Nat \ {0}
  BY WordIs
<1>2. B \in Nat \ {0}
  BY DEF IsAlgorithm
<1> HIDE DEF B
<1> DEFINE V == B * k
           q == n \div V
           s == n % V
<1>3. V \in Nat \ {0} /\ n \in Int
  BY <1>1, SMT
<1>4. s \in 0..(V - 1) /\ q \in Int /\ n = V * q + s
  BY <1>3, Division
<1> HIDE DEF q, s
<1>5. (8 * n) % a.word = 8 * s
  <2> HIDE DEF V
  <2>1. 8 * V \in Nat \ {0} /\ 8 * s \in 0..(8 * V - 1) /\ 8 * n = (8 * V) * q + 8 * s
    BY <1>3, <1>4, SMT
  <2>2. (8 * n) % (8 * V) = 8 * s
    <3> DEFINE M == 8 * V
               t == 8 * s
    <3>1. 8 * n = M * q + t /\ M \in Nat \ {0} /\ t \in 0..(M - 1)
      BY <2>1
    <3> HIDE DEF M, t
    <3>2. (M * q + t) % M = t
      BY <3>1, <1>4, DivisionIs
    <3>3. (8 * n) % M = t
      BY <3>1, <3>2, Zenon
    <3>4. QED
      BY <3>3 DEF M, t
  <2>3. a.word = 8 * V
    BY <1>1 DEF V
  <2>4. QED
    BY <2>2, <2>3
<1>6. (8 * s) \div 8 = s
  <2>1. 8 * s = 8 * s + 0 /\ 0 \in 0..(8 - 1) /\ 8 \in Nat \ {0} /\ s \in Int
    BY <1>4, SMT
  <2>2. QED
    BY <2>1, DivisionIs
<1>7. n % B = s % B
  <2>1. n = B * (k * q) + s /\ k * q \in Int /\ s \in Int
    BY <1>1, <1>2, <1>4, SMT
  <2>2. QED
    BY <2>1, <1>2, RemainderOfMultiple
<1>8. QED
  BY <1>5, <1>6, <1>7 DEF Index, B

\* mCount counts the bits of all that was taken in, across its two words and
\* whatever the low word carries.
LEMMA CountIsLength ==
  ASSUME NEW a, IsAlgorithm(a), NEW c, NEW n \in Nat, NEW len \in Nat,
         c = [state |-> c.state, buffer |-> c.buffer, low |-> c.low, high |-> c.high],
         c.low = (8 * n) % a.word,
         c.high = ((8 * n) \div a.word) % a.word
  PROVE  /\ Counted(a, c, len).low = (8 * (n + len)) % a.word
         /\ Counted(a, c, len).high = ((8 * (n + len)) \div a.word) % a.word
<1> DEFINE W  == a.word
           V  == W \div 8
           r1 == (8 * n) % W
           q1 == (8 * n) \div W
           r2 == (8 * len) % W
           q2 == (8 * len) \div W
           low == (r1 + r2) % W
           carry == IF low < r2 THEN 1 ELSE 0
<1>1. W \in Nat \ {0} /\ V \in Nat \ {0} /\ W = 8 * V
  BY WordIs
<1>2. /\ Counted(a, c, len).low = low
      /\ Counted(a, c, len).high = ((q1 % W) + carry + len \div V) % W
  BY DEF Counted
<1> HIDE DEF W, V
<1>3. r1 \in 0..(W - 1) /\ q1 \in Int /\ 8 * n = W * q1 + r1
  <2>1. 8 * n \in Int
    BY SMT
  <2>2. QED
    BY <2>1, <1>1, Division
<1>4. r2 \in 0..(W - 1) /\ q2 \in Int /\ 8 * len = W * q2 + r2
  <2>1. 8 * len \in Int
    BY SMT
  <2>2. QED
    BY <2>1, <1>1, Division
<1> HIDE DEF r1, q1, r2, q2
<1>5. len \div V = q2
  <2> DEFINE s == len - V * q2
  <2>1. s \in 0..(V - 1) /\ len = V * q2 + s
    BY <1>1, <1>4, SMT
  <2> HIDE DEF s
  <2>2. QED
    BY <2>1, <1>1, <1>4, DivisionIs
<1>6. 8 * (n + len) \in Int /\ 8 * (n + len) = W * (q1 + q2) + (r1 + r2)
  <2>1. 8 * (n + len) = 8 * n + 8 * len /\ 8 * (n + len) \in Int
    BY SMT
  <2>2. W * (q1 + q2) = W * q1 + W * q2 /\ W * q1 \in Int /\ W * q2 \in Int
    BY <1>1, <1>3, <1>4, SMT
  <2> DEFINE x == W * q1
             y == W * q2
             z == 8 * n
             u == 8 * len
  <2>3. x \in Int /\ y \in Int /\ r1 \in Int /\ r2 \in Int
    BY <2>2, <1>1, <1>3, <1>4, SMT
  <2>4. z = x + r1 /\ u = y + r2
    BY <1>3, <1>4
  <2>5. 8 * (n + len) = z + u /\ W * (q1 + q2) = x + y
    BY <2>1, <2>2
  <2> HIDE DEF x, y, z, u
  <2>6. z + u = (x + y) + (r1 + r2)
    BY <2>3, <2>4, SMT
  <2>7. QED
    BY <2>1, <2>5, <2>6, Zenon
<1>7. CASE r1 + r2 < W
  <2>1. r1 + r2 \in 0..(W - 1) /\ q1 + q2 \in Int
    BY <1>1, <1>3, <1>4, <1>7, SMT
  <2>2. /\ (8 * (n + len)) % W = r1 + r2
        /\ (8 * (n + len)) \div W = q1 + q2
    BY <1>1, <1>6, <2>1, DivisionIs
  <2>3. low = r1 + r2
    BY <2>1, <1>1, RemainderIs
  <2> HIDE DEF low
  <2>4. carry = 0
    BY <2>3, <1>3, <1>4, <1>1, SMT
  <2> HIDE DEF carry
  <2>5. Counted(a, c, len).high = (q1 + q2) % W
    <3>1. ((q1 % W) + carry + len \div V) = (q1 % W) + q2
      <4>1. q1 % W \in Int
        BY <1>1, <1>3, Division
      <4>2. QED
        BY <4>1, <1>4, <1>5, <2>4, SMT
    <3>2. ((q1 % W) + q2) % W = (q1 + q2) % W
      BY <1>1, <1>3, <1>4, RemainderOfSum
    <3>3. QED
      BY <3>1, <3>2, <1>2
  <2>6. QED
    BY <1>2, <2>2, <2>3, <2>5 DEF W
<1>8. CASE r1 + r2 >= W
  <2>1. r1 + r2 - W \in 0..(W - 1) /\ q1 + q2 + 1 \in Int
    BY <1>1, <1>3, <1>4, <1>8, SMT
  <2>2. /\ (8 * (n + len)) % W = r1 + r2 - W
        /\ (8 * (n + len)) \div W = q1 + q2 + 1
    <3>1. W * (q1 + q2) + (r1 + r2) = W * (q1 + q2 + 1) + (r1 + r2 - W)
      BY <1>1, <1>3, <1>4, SMT
    <3>2. QED
      BY <1>1, <1>6, <3>1, <2>1, DivisionIs
  <2>3. low = r1 + r2 - W
    <3>1. W + (r1 + r2 - W) = r1 + r2
      BY <1>1, <1>3, <1>4, SMT
    <3>2. (W + (r1 + r2 - W)) % W = r1 + r2 - W
      BY <2>1, <1>1, RemainderIs, Zenon
    <3>3. QED
      BY <3>1, <3>2, Zenon
  <2> HIDE DEF low
  <2>4. carry = 1
    BY <2>3, <1>3, <1>4, <1>1, SMT
  <2> HIDE DEF carry
  <2>5. Counted(a, c, len).high = (q1 + q2 + 1) % W
    <3>1. ((q1 % W) + carry + len \div V) = (q1 % W) + (q2 + 1) /\ q2 + 1 \in Int
      <4>1. q1 % W \in Int
        BY <1>1, <1>3, Division
      <4>2. QED
        BY <4>1, <1>4, <1>5, <2>4, SMT
    <3>2. ((q1 % W) + (q2 + 1)) % W = (q1 + (q2 + 1)) % W
      BY <1>1, <1>3, <3>1, RemainderOfSum
    <3>3. q1 + (q2 + 1) = q1 + q2 + 1
      BY <1>3, <1>4, SMT
    <3>4. QED
      BY <3>1, <3>2, <3>3, <1>2
  <2>6. QED
    BY <1>2, <2>2, <2>3, <2>5 DEF W
<1>9. r1 + r2 < W \/ r1 + r2 >= W
  BY <1>1, <1>3, <1>4, SMT
<1>10. QED
  BY <1>7, <1>8, <1>9
-----------------------------------------------------------------------------
(* The buffer. *)

\* The members of a hash object, with a buffer of one block.
IsContext(a, c) ==
  /\ c = [state |-> c.state, buffer |-> c.buffer, low |-> c.low, high |-> c.high]
  /\ IsSeq(c.state) /\ IsSeq(c.buffer) /\ Len(c.buffer) = a.block

\* memcpy within an array leaves its length alone.
LEMMA OverwriteIs ==
  ASSUME NEW array, NEW bytes, IsSeq(array), IsSeq(bytes), Len(bytes) <= Len(array)
  PROVE  /\ IsSeq(Overwrite(array, bytes))
         /\ Len(Overwrite(array, bytes)) = Len(array)
         /\ SubSeq(Overwrite(array, bytes), 1, Len(bytes)) = bytes
<1> DEFINE rest == SubSeq(array, Len(bytes) + 1, Len(array))
<1>1. Len(array) \in Nat /\ Len(bytes) \in Nat
  BY DEF IsSeq
<1>2. Len(bytes) \in 0..Len(array) /\ Len(array) \in Len(bytes)..Len(array)
  BY <1>1
<1>3. IsSeq(rest) /\ Len(rest) = Len(array) - Len(bytes)
  BY <1>2, Part
<1> HIDE DEF rest
<1>4. IsSeq(bytes \o rest) /\ Len(bytes \o rest) = Len(bytes) + Len(rest)
  BY <1>3, Concat
<1>5. Len(bytes \o rest) = Len(array)
  BY <1>1, <1>3, <1>4
<1>6. SubSeq(bytes \o rest, 1, Len(bytes)) = bytes
  BY <1>3, First
<1>7. QED
  BY <1>4, <1>5, <1>6 DEF Overwrite, rest

\* L bytes of input are about to be added to x bytes in a buffer of B.
Adding(B, x, L, state, buffer, input) ==
  /\ B \in Nat \ {0} /\ x \in 0..(B - 1) /\ L \in Nat
  /\ IsSeq(state) /\ IsSeq(buffer) /\ Len(buffer) = B
  /\ IsSeq(input) /\ Len(input) = L

\* They have been: y bytes are in the buffer new.
Added(B, x, L, y, state, buffer, input, newState, new) ==
  /\ IsSeq(newState) /\ Len(newState) = Len(state) + x + L - y
  /\ IsSeq(new) /\ Len(new) = B
  /\ newState \o SubSeq(new, 1, y) = (state \o SubSeq(buffer, 1, x)) \o input

\* An update that does not complete the buffer puts the input where the
\* buffer's contents end.
LEMMA ShortBuffer ==
  ASSUME NEW B, NEW x, NEW L, NEW state, NEW buffer, NEW input,
         Adding(B, x, L, state, buffer, input), x + L < B
  PROVE  Added(B, x, L, x + L, state, buffer, input, state,
               SubSeq(buffer, 1, x) \o Overwrite(SubSeq(buffer, x + 1, B), input))
<1> DEFINE front == SubSeq(buffer, 1, x)
           tail  == SubSeq(buffer, x + 1, B)
           over  == Overwrite(tail, input)
           new   == front \o over
           after == SubSeq(over, L + 1, B - x)
<1>0. /\ B \in Nat \ {0} /\ x \in 0..(B - 1) /\ L \in Nat
      /\ IsSeq(state) /\ IsSeq(buffer) /\ Len(buffer) = B
      /\ IsSeq(input) /\ Len(input) = L
  BY DEF Adding
<1>1. IsSeq(front) /\ Len(front) = x
  <2>1. 0 \in 0..Len(buffer) /\ x \in 0..Len(buffer)
    BY <1>0
  <2>2. IsSeq(SubSeq(buffer, 0 + 1, x)) /\ Len(SubSeq(buffer, 0 + 1, x)) = x - 0
    BY <1>0, <2>1, Part
  <2>3. 0 + 1 = 1 /\ x - 0 = x
    BY <1>0
  <2>4. QED
    BY <2>2, <2>3
<1>2. IsSeq(tail) /\ Len(tail) = B - x
  <2>1. x \in 0..Len(buffer) /\ B \in x..Len(buffer)
    BY <1>0
  <2>2. QED
    BY <1>0, <2>1, Part
<1> HIDE DEF front, tail
<1>3. IsSeq(over) /\ Len(over) = B - x /\ SubSeq(over, 1, L) = input
  <2>1. Len(input) <= Len(tail)
    BY <1>0, <1>2
  <2>2. QED
    BY <1>0, <1>2, <2>1, OverwriteIs
<1> HIDE DEF over
<1>4. new = front \o over
  OBVIOUS
<1> HIDE DEF new
<1>5. IsSeq(after)
  <2>1. L \in 0..Len(over) /\ B - x \in L..Len(over)
    BY <1>0, <1>3
  <2>2. QED
    BY <1>3, <2>1, Part
<1>6. input \o after = over
  <2>1. L \in 0..Len(over) /\ B - x \in L..Len(over)
    BY <1>0, <1>3
  <2>2. SubSeq(over, 1, L) \o after = SubSeq(over, 1, B - x)
    BY <1>3, <2>1, Split
  <2>3. SubSeq(over, 1, Len(over)) = over
    BY <1>3, Entire
  <2>4. QED
    BY <1>3, <2>2, <2>3
<1> HIDE DEF after
<1>7. IsSeq(new) /\ Len(new) = B
  <2>1. IsSeq(front \o over) /\ Len(front \o over) = x + (B - x)
    BY <1>1, <1>3, Concat
  <2>2. x + (B - x) = B
    BY <1>0
  <2>3. QED
    BY <1>4, <2>1, <2>2
<1>8. IsSeq(front \o input) /\ Len(front \o input) = x + L
  BY <1>0, <1>1, Concat
<1>9. new = (front \o input) \o after
  <2>1. (front \o input) \o after = front \o (input \o after)
    BY ONLY <1>0, <1>1, <1>5, Associative
  <2>2. QED
    BY <1>4, <1>6, <2>1
<1>10. SubSeq(new, 1, x + L) = front \o input
  <2>1. SubSeq((front \o input) \o after, 1, Len(front \o input)) = front \o input
    BY ONLY <1>5, <1>8, First
  <2>2. QED
    BY <1>8, <1>9, <2>1
<1>11. (state \o front) \o input = state \o (front \o input)
  BY ONLY <1>0, <1>1, Associative
<1>12. Len(state) = Len(state) + x + L - (x + L)
  <2>1. Len(state) \in Nat /\ x \in Int /\ L \in Int
    BY <1>0 DEF IsSeq
  <2>2. QED
    BY ONLY <2>1
<1>13. state \o SubSeq(new, 1, x + L) = (state \o front) \o input
  BY ONLY <1>10, <1>11
<1>14. QED
  BY ONLY <1>0, <1>7, <1>12, <1>13 DEF Added, front, tail, over, new

\* An update that completes the buffer hashes it and whole blocks of input up
\* to i, and starts the buffer anew with the rest.
LEMMA LongBuffer ==
  ASSUME NEW B, NEW x, NEW L, NEW state, NEW buffer, NEW input,
         Adding(B, x, L, state, buffer, input),
         NEW p \in Nat, x + p = B, p <= L, NEW i \in p..L, L - i < B
  PROVE  LET full == SubSeq(buffer, 1, x) \o SubSeq(input, 1, p)
         IN  Added(B, x, L, L - i, state, buffer, input,
                   state \o (full \o SubSeq(input, p + 1, i)),
                   Overwrite(full, SubSeq(input, i + 1, L)))
<1> DEFINE front == SubSeq(buffer, 1, x)
           head == SubSeq(input, 1, p)
           mid  == SubSeq(input, p + 1, i)
           rest == SubSeq(input, i + 1, L)
           full     == front \o head
           newState == state \o (full \o mid)
           new      == Overwrite(full, rest)
<1>0. /\ B \in Nat \ {0} /\ x \in 0..(B - 1) /\ L \in Nat
      /\ IsSeq(state) /\ IsSeq(buffer) /\ Len(buffer) = B
      /\ IsSeq(input) /\ Len(input) = L
  BY DEF Adding
<1>1. IsSeq(front) /\ Len(front) = x
  <2>1. 0 \in 0..Len(buffer) /\ x \in 0..Len(buffer)
    BY <1>0
  <2>2. IsSeq(SubSeq(buffer, 0 + 1, x)) /\ Len(SubSeq(buffer, 0 + 1, x)) = x - 0
    BY <1>0, <2>1, Part
  <2>3. 0 + 1 = 1 /\ x - 0 = x
    BY <1>0
  <2>4. QED
    BY <2>2, <2>3
<1>2. /\ p \in 1..B /\ p \in 0..L /\ i \in p..L /\ i \in 0..L /\ L \in i..L
      /\ 0 \in 0..L /\ 0 + 1 = 1 /\ p - 0 = p /\ x + p = B
  BY <1>0
<1>3. full = front \o head /\ newState = state \o (full \o mid) /\ new = Overwrite(full, rest)
  OBVIOUS
<1>4. IsSeq(head) /\ Len(head) = p
  <2>1. IsSeq(SubSeq(input, 0 + 1, p)) /\ Len(SubSeq(input, 0 + 1, p)) = p - 0
    BY <1>0, <1>2, Part
  <2>2. QED
    BY <2>1, <1>2
<1>5. IsSeq(mid) /\ Len(mid) = i - p
  BY <1>0, <1>2, Part
<1>6. IsSeq(rest) /\ Len(rest) = L - i
  BY <1>0, <1>2, Part
<1>7. (head \o mid) \o rest = input
  <2>1. head \o mid = SubSeq(input, 1, i)
    BY <1>0, <1>2, Split
  <2>2. SubSeq(input, 1, i) \o rest = SubSeq(input, 1, L)
    BY <1>0, <1>2, Split
  <2>3. SubSeq(input, 1, L) = input
    BY <1>0, Entire
  <2>4. QED
    BY <2>1, <2>2, <2>3
<1> HIDE DEF front, head, mid, rest, full, newState, new
<1>8. IsSeq(full) /\ Len(full) = B
  BY <1>0, <1>1, <1>2, <1>3, <1>4, Concat
<1>9. IsSeq(full \o mid) /\ Len(full \o mid) = B + (i - p)
  BY <1>5, <1>8, Concat
<1>10. IsSeq(newState) /\ Len(newState) = Len(state) + x + L - (L - i)
  <2>1. IsSeq(newState) /\ Len(newState) = Len(state) + (B + (i - p))
    <3> DEFINE more == full \o mid
    <3>1. IsSeq(state) /\ IsSeq(more) /\ Len(more) = B + (i - p) /\ newState = state \o more
      BY <1>0, <1>3, <1>9
    <3> HIDE DEF more
    <3>2. IsSeq(state \o more) /\ Len(state \o more) = Len(state) + Len(more)
      BY ONLY <3>1, Concat
    <3>3. QED
      BY ONLY <3>1, <3>2
  <2>2. Len(state) \in Nat
    BY <1>0 DEF IsSeq
  <2>3. \A l \in Nat : l + (B + (i - p)) = l + x + L - (L - i)
    BY <1>0, <1>2
  <2>4. QED
    BY ONLY <2>1, <2>2, <2>3
<1>11. IsSeq(new) /\ Len(new) = B /\ SubSeq(new, 1, L - i) = rest
  <2>1. Len(rest) <= Len(full)
    BY <1>0, <1>2, <1>6, <1>8
  <2>2. QED
    BY ONLY <1>3, <1>6, <1>8, <2>1, OverwriteIs
<1>12. newState \o rest = (state \o front) \o input
  <2>1. IsSeq(head \o mid)
    BY <1>4, <1>5, Concat
  <2>2. full \o mid = front \o (head \o mid)
    <3>1. IsSeq(front) /\ IsSeq(head) /\ IsSeq(mid)
      BY <1>1, <1>4, <1>5
    <3>2. (front \o head) \o mid = front \o (head \o mid)
      BY ONLY <3>1, Associative
    <3>3. QED
      BY ONLY <1>3, <3>2
  <2>3. state \o (front \o (head \o mid)) = (state \o front) \o (head \o mid)
    <3>1. IsSeq(state) /\ IsSeq(front)
      BY <1>0, <1>1
    <3> DEFINE more == head \o mid
    <3>2. IsSeq(more)
      BY <2>1
    <3> HIDE DEF more
    <3>3. (state \o front) \o more = state \o (front \o more)
      BY ONLY <3>1, <3>2, Associative
    <3>4. QED
      BY ONLY <3>3 DEF more
  <2>4. IsSeq(state \o front)
    BY <1>0, <1>1, Concat
  <2>5. ((state \o front) \o (head \o mid)) \o rest = (state \o front) \o ((head \o mid) \o rest)
    BY ONLY <1>6, <2>1, <2>4, Associative
  <2>6. QED
    BY <1>3, <1>7, <2>2, <2>3, <2>5
<1>13. newState \o SubSeq(new, 1, L - i) = (state \o front) \o input
  BY ONLY <1>11, <1>12
<1>14. QED
  BY ONLY <1>10, <1>11, <1>13 DEF Added, front, head, mid, rest, full, newState, new

\* L bytes of input complete a buffer that n bytes have gone through.
Completes(a, n, L, p) ==
  /\ a.block \in Nat \ {0} /\ n \in Nat /\ L \in Nat
  /\ p = a.block - (n % a.block) /\ p <= L

\* The arithmetic of the loop over whole blocks.
LEMMA WholeIs ==
  ASSUME NEW a, NEW n, NEW L, NEW p, Completes(a, n, L, p)
  PROVE  /\ Whole(a, p, L) \in p..L
         /\ (n + L) % a.block = L - Whole(a, p, L)
         /\ L - Whole(a, p, L) < a.block
<1> DEFINE B == a.block
           x == n % B
           d == L - p
           y == d % B
           k == d \div B
           q == n \div B
           i == Whole(a, p, L)
<1>0. /\ B \in Nat \ {0} /\ n \in Nat /\ n \in Int /\ L \in Nat
      /\ p = B - x /\ p <= L
  BY DEF Completes
<1>4. i = p + k * B
  BY DEF Whole
<1> HIDE DEF B, i
<1>1. x \in 0..(B - 1) /\ q \in Int /\ n = B * q + x
  BY <1>0, Division
<1> HIDE DEF x, q
<1>2. d \in Nat /\ d \in Int /\ L = d + p /\ x + p = B /\ p \in Nat
  BY <1>0, <1>1
<1> HIDE DEF d
<1>3. y \in 0..(B - 1) /\ k \in Int /\ d = B * k + y
  BY <1>0, <1>2, Division
<1> HIDE DEF y, k
<1>6. k \in Nat
  <2>1. CASE k <= -1
    <3>1. B * k <= 0 - B
      BY <2>1, <1>0, <1>3, SMT
    <3>2. QED
      BY <3>1, <1>0, <1>2, <1>3, SMT
  <2>2. QED
    BY <2>1, <1>3, SMT
<1>7. k * B = B * k /\ B * k \in Nat
  BY <1>0, <1>6, SMT
<1>8. i = L - y /\ i \in p..L
  <2> DEFINE z == B * k
  <2>1. i = p + z /\ d = z + y /\ z \in Nat
    BY <1>3, <1>4, <1>7
  <2> HIDE DEF z
  <2>2. QED
    BY <1>0, <1>2, <1>3, <2>1
<1>9. (n + L) % B = y
  <2>1. B * (q + 1 + k) = B * q + B + B * k /\ q + 1 + k \in Int
    BY <1>0, <1>1, <1>3, SMT
  <2> DEFINE u == B * q
             z == B * k
  <2>2. n = u + x /\ d = z + y /\ u \in Int /\ z \in Int /\ B * (q + 1 + k) = u + B + z
    BY <1>0, <1>1, <1>3, <1>7, <2>1, SMT
  <2> HIDE DEF u, z
  <2>3. n + L = B * (q + 1 + k) + y
    <3>1. n + L = (u + B + z) + y
      <4>1. n = u + x /\ d = z + y /\ L = d + p /\ x + p = B
        BY <1>2, <2>2
      <4>2. /\ u \in Int /\ z \in Int /\ x \in Int /\ p \in Int /\ y \in Int /\ B \in Int
        BY <1>0, <1>1, <1>2, <1>3, <2>2
      <4>3. QED
        BY ONLY <4>1, <4>2
    <3>2. QED
      BY <2>2, <3>1
  <2> DEFINE w == q + 1 + k
  <2>4. w \in Int /\ n + L = B * w + y
    BY <2>1, <2>3
  <2> HIDE DEF w
  <2>5. (B * w + y) % B = y
    BY <1>0, <1>3, <2>4, DivisionIs
  <2>6. QED
    BY ONLY <2>4, <2>5
<1>10. QED
  BY <1>0, <1>3, <1>8, <1>9 DEF i, B

\* updateSha1 and its copies, for every piece of input: what was taken in is
\* the message so far and the piece, whatever the buffer held before.
THEOREM UpdateTakes ==
  ASSUME NEW a, IsAlgorithm(a), NEW c, IsContext(a, c), NEW m, IsSeq(m),
         HasTaken(a, c, m), NEW input, IsSeq(input)
  PROVE  /\ IsContext(a, updateHash(a, c, input))
         /\ HasTaken(a, updateHash(a, c, input), m \o input)
<1> DEFINE B == a.block
           n == Len(m)
           L == Len(input)
           x == n % B
           u == updateHash(a, c, input)
           counted == Counted(a, c, L)
           front == SubSeq(c.buffer, 1, x)
<1>1. B \in Nat \ {0} /\ n \in Nat /\ L \in Nat /\ n \in Int
  BY DEF IsAlgorithm, IsSeq
<1>2. Index(a, c) = x
  BY <1>1, IndexIsLength DEF HasTaken
<1>3. /\ counted.low = (8 * (n + L)) % a.word
      /\ counted.high = ((8 * (n + L)) \div a.word) % a.word
      /\ counted.state = c.state /\ counted.buffer = c.buffer
      /\ counted = [state |-> counted.state, buffer |-> counted.buffer,
                    low |-> counted.low, high |-> counted.high]
  <2>1. /\ c = [state |-> c.state, buffer |-> c.buffer, low |-> c.low, high |-> c.high]
        /\ c.low = (8 * n) % a.word /\ c.high = ((8 * n) \div a.word) % a.word
    BY DEF IsContext, HasTaken
  <2>2. /\ counted.state = c.state /\ counted.buffer = c.buffer
        /\ counted = [state |-> counted.state, buffer |-> counted.buffer,
                      low |-> counted.low, high |-> counted.high]
    <3> HIDE DEF L, front, u, x
    <3>1. PICK low, high : counted = [c EXCEPT !.low = low, !.high = high]
      BY DEF Counted
    <3> HIDE DEF counted
    <3>2. QED
      BY ONLY <2>1, <3>1
  <2> HIDE DEF n, L, B
  <2>3. /\ counted.low = (8 * (n + L)) % a.word
        /\ counted.high = ((8 * (n + L)) \div a.word) % a.word
    BY ONLY <1>1, <2>1, IsAlgorithm(a), CountIsLength
  <2>4. QED
    BY ONLY <2>2, <2>3
<1>4. /\ IsSeq(c.state) /\ IsSeq(c.buffer) /\ Len(c.buffer) = B
      /\ c.state \o front = m /\ Len(c.state) = n - x
  BY DEF IsContext, HasTaken
<1>5. IsSeq(m \o input) /\ Len(m \o input) = n + L
  BY Concat
<1>6. u = IF L >= B - x
          THEN [counted EXCEPT
                  !.state  = c.state \o ((front \o SubSeq(input, 1, B - x))
                                \o SubSeq(input, (B - x) + 1, Whole(a, B - x, L))),
                  !.buffer = Overwrite(front \o SubSeq(input, 1, B - x),
                                       SubSeq(input, Whole(a, B - x, L) + 1, L))]
          ELSE [counted EXCEPT
                  !.buffer = front \o Overwrite(SubSeq(c.buffer, x + 1, B), input)]
  BY <1>2 DEF updateHash, Transform
<1>7. x \in 0..(B - 1)
  <2> HIDE DEF n, B
  <2>1. QED
    BY <1>1, Division
<1>8. Len(m \o input) % B = (n + L) % B
  BY <1>5
<1>9. SUFFICES /\ u = [state |-> u.state, buffer |-> u.buffer, low |-> u.low, high |-> u.high]
               /\ u.low = counted.low /\ u.high = counted.high
               /\ IsSeq(u.state) /\ IsSeq(u.buffer) /\ Len(u.buffer) = B
               /\ u.state \o SubSeq(u.buffer, 1, (n + L) % B) = m \o input
               /\ Len(u.state) = (n + L) - ((n + L) % B)
  <2> HIDE DEF u
  <2>1. QED
    BY <1>3, <1>5, <1>9 DEF IsContext, HasTaken, u
<1> DEFINE p == B - x
<1>a. p \in Nat /\ x + p = B
  <2> HIDE DEF x, B, n, L
  <2>1. QED
    BY <1>1, <1>7
<1>b. Adding(B, x, L, c.state, c.buffer, input)
  BY <1>1, <1>4, <1>7 DEF Adding
<1> HIDE DEF counted, u
<1>10. CASE p <= L
  <2> DEFINE i    == Whole(a, p, L)
             full == front \o SubSeq(input, 1, p)
             newState == c.state \o (full \o SubSeq(input, p + 1, i))
             new  == Overwrite(full, SubSeq(input, i + 1, L))
  <2>1. u = [counted EXCEPT !.state = newState, !.buffer = new]
    <3> HIDE DEF i
    <3>1. L >= B - x
      BY <1>10, <1>1, <1>7
    <3>2. QED
      BY <1>6, <3>1 DEF i
  <2>2. i \in p..L /\ (n + L) % B = L - i /\ L - i < B
    <3>1. Completes(a, n, L, p)
      BY <1>1, <1>10 DEF Completes
    <3> HIDE DEF x, n, L, p
    <3>2. QED
      BY ONLY <3>1, WholeIs
  <2>3. Added(B, x, L, L - i, c.state, c.buffer, input, newState, new)
    <3> HIDE DEF i, x, B, n, L, p
    <3>1. QED
      BY ONLY <1>a, <1>b, <1>10, <2>2, LongBuffer
  <2>a. /\ IsSeq(newState) /\ Len(newState) = Len(c.state) + x + L - (L - i)
        /\ IsSeq(new) /\ Len(new) = B
        /\ newState \o SubSeq(new, 1, L - i) = (c.state \o front) \o input
    <3> HIDE DEF i, x, B, n, L, p, newState, new
    <3>1. QED
      BY ONLY <2>3 DEF Added, front
  <2> HIDE DEF newState, new, front, i, x, B, n, L, p
  <2>4. /\ u.state = newState /\ u.buffer = new
        /\ u.low = counted.low /\ u.high = counted.high
        /\ u = [state |-> u.state, buffer |-> u.buffer, low |-> u.low, high |-> u.high]
    BY ONLY <1>3, <2>1
  <2>5. Len(newState) = (n + L) - (L - i)
    <3>1. Len(newState) = (n - x) + x + L - (L - i)
      BY ONLY <1>4, <2>a
    <3>2. QED
      BY <1>1, <1>7, <1>a, <2>2, <3>1
  <2>6. QED
    BY ONLY <1>4, <2>2, <2>a, <2>4, <2>5
<1>11. CASE ~ (p <= L)
  <2> DEFINE tail == SubSeq(c.buffer, x + 1, B)
             new == front \o Overwrite(tail, input)
  <2>1. u = [counted EXCEPT !.buffer = new]
    <3>1. ~ (L >= B - x)
      BY <1>11, <1>1, <1>7
    <3>2. QED
      BY <1>6, <3>1
  <2>2. x + L \in 0..(B - 1) /\ x + L < B
    <3> HIDE DEF x, n, B, L, p
    <3>1. QED
      BY <1>1, <1>7, <1>a, <1>11
  <2>3. (n + L) % B = x + L
    <3> HIDE DEF n, B, L, p
    <3>1. (x + L) % B = x + L
      <4> HIDE DEF x
      <4>1. QED
        BY <1>1, <2>2, RemainderIs
    <3>2. ((n % B) + L) % B = (n + L) % B
      <4>1. L \in Int
        BY <1>1
      <4>2. QED
        BY <1>1, <4>1, RemainderOfSum
    <3>3. QED
      BY <3>1, <3>2
  <2>4. Added(B, x, L, x + L, c.state, c.buffer, input, c.state, new)
    <3> HIDE DEF x, B, n, L, p
    <3>1. QED
      BY ONLY <1>b, <2>2, ShortBuffer
  <2>a. /\ IsSeq(new) /\ Len(new) = B
        /\ c.state \o SubSeq(new, 1, x + L) = (c.state \o front) \o input
    <3> HIDE DEF x, B, n, L, p, new
    <3>1. QED
      BY ONLY <2>4 DEF Added, front
  <2> HIDE DEF new, front, x, n, B, L, p
  <2>5. /\ u.state = c.state /\ u.buffer = new
        /\ u.low = counted.low /\ u.high = counted.high
        /\ u = [state |-> u.state, buffer |-> u.buffer, low |-> u.low, high |-> u.high]
    BY ONLY <1>3, <2>1
  <2>6. n - x = (n + L) - (x + L)
    BY <1>1, <1>7
  <2>7. QED
    BY ONLY <1>4, <2>3, <2>a, <2>5, <2>6
<1>12. QED
  BY <1>10, <1>11
-----------------------------------------------------------------------------
(* The padding and the digest. *)

LEMMA ZerosAre ==
  ASSUME NEW n \in Nat
  PROVE  IsSeq(Zeros(n)) /\ Len(Zeros(n)) = n /\ \A i \in 1..n : Zeros(n)[i] = Byte(0)
<1>1. \A i \in 1..n : Zeros(n)[i] = Byte(0)
  BY DEF Zeros
<1>2. Zeros(n) = [i \in 1..n |-> Zeros(n)[i]]
  BY DEF Zeros
<1>3. IsSeq(Zeros(n)) /\ Len(Zeros(n)) = n
  BY ONLY <1>2, n \in Nat, Listed
<1>4. QED
  BY <1>1, <1>3

LEMMA PaddingIs ==
  ASSUME NEW n \in Nat
  PROVE  IsSeq(Padding(n)) /\ Len(Padding(n)) = n
<1>1. Padding(n) = [i \in 1..n |-> Padding(n)[i]]
  BY DEF Padding
<1>2. QED
  BY ONLY <1>1, n \in Nat, Listed

LEMMA LengthFieldIs ==
  ASSUME NEW a, IsAlgorithm(a), NEW low, NEW high
  PROVE  /\ IsSeq(LengthField(a, low, high))
         /\ Len(LengthField(a, low, high)) = FieldLen(a)
<1>1. a.wordLen \in Nat /\ a.lowFirst \in BOOLEAN
  BY DEF IsAlgorithm
<1>2. ASSUME NEW w
      PROVE  IsSeq(WordBytes(a, w)) /\ Len(WordBytes(a, w)) = a.wordLen
  <2>1. WordBytes(a, w) = [i \in 1..a.wordLen |-> WordBytes(a, w)[i]]
    BY DEF WordBytes
  <2>2. QED
    BY ONLY <2>1, <1>1, Listed
<1>3. /\ IsSeq(WordBytes(a, low)) /\ Len(WordBytes(a, low)) = a.wordLen
      /\ IsSeq(WordBytes(a, high)) /\ Len(WordBytes(a, high)) = a.wordLen
  BY <1>2
<1>4. /\ IsSeq(WordBytes(a, low) \o WordBytes(a, high))
      /\ Len(WordBytes(a, low) \o WordBytes(a, high)) = a.wordLen + a.wordLen
      /\ IsSeq(WordBytes(a, high) \o WordBytes(a, low))
      /\ Len(WordBytes(a, high) \o WordBytes(a, low)) = a.wordLen + a.wordLen
  BY ONLY <1>3, Concat
<1>5. a.wordLen + a.wordLen = FieldLen(a)
  BY <1>1 DEF FieldLen
<1>6. QED
  BY ONLY <1>4, <1>5 DEF LengthField

LEMMA DigestOfIs ==
  ASSUME NEW a, IsAlgorithm(a), NEW state
  PROVE  IsSeq(DigestOf(a, state)) /\ Len(DigestOf(a, state)) = a.size
<1>1. a.size \in Nat
  BY DEF IsAlgorithm
<1>2. DigestOf(a, state) = [i \in 1..a.size |-> DigestOf(a, state)[i]]
  BY DEF DigestOf
<1>3. QED
  BY ONLY <1>1, <1>2, Listed

\* padLen, computed from the index, is the padding the message needs, and with
\* the length it fills up the last block.
LEMMA PadLenIs ==
  ASSUME NEW a, IsAlgorithm(a), NEW n \in Nat
  PROVE  /\ padLen(a, n % a.block)
              = ((a.block - FieldLen(a) - 1 - n) % a.block) + 1
         /\ padLen(a, n % a.block) \in Nat
         /\ (n + padLen(a, n % a.block) + FieldLen(a)) % a.block = 0
<1> DEFINE B == a.block
           F == FieldLen(a)
           q == n \div B
           x == n % B
           r == B - F
           len == padLen(a, x)
           z == (B - F - 1 - n) % B
           d == len - 1
<1>0. B \in Nat \ {0} /\ F \in Nat /\ F < B
  BY DEF IsAlgorithm, FieldLen
<1>a. len = IF x < r THEN r - x ELSE r + B - x
  BY DEF padLen
<1>b. r = B - F
  OBVIOUS
<1> HIDE DEF B, F, len
<1>1. x \in 0..(B - 1) /\ q \in Int /\ n = B * q + x
  BY <1>0, Division
<1> HIDE DEF q, z, x, r
<1>2. d \in 0..(B - 1) /\ len = d + 1 /\ len \in Nat
  BY ONLY <1>0, <1>1, <1>a, <1>b
<1>3. PICK k \in {0, 1} : d = B - F - 1 - x + B * k
  <2>1. CASE x < r
    <3>1. d = B - F - 1 - x + B * 0
      BY ONLY <2>1, <1>1, <1>0, <1>a, <1>b
    <3>2. QED
      BY <3>1
  <2>2. CASE ~ (x < r)
    <3>1. d = B - F - 1 - x + B * 1
      BY ONLY <2>2, <1>1, <1>0, <1>a, <1>b
    <3>2. QED
      BY <3>1
  <2>3. QED
    BY <2>1, <2>2
<1> HIDE DEF d
<1>4. B - F - 1 - n = B * (0 - q - k) + d /\ 0 - q - k \in Int
  <2> DEFINE u == B * q
             v == B * k
  <2>1. B * (0 - q - k) = 0 - u - v /\ u \in Int /\ v \in Int /\ 0 - q - k \in Int
    BY <1>0, <1>1, SMT
  <2>2. n = u + x /\ d = B - F - 1 - x + v
    BY <1>1, <1>3
  <2> HIDE DEF u, v
  <2>3. B - F - 1 - n = (0 - u - v) + d
    BY ONLY <1>1, <2>1, <2>2, <1>0
  <2>4. QED
    BY ONLY <2>1, <2>3
<1>5. z = d
  <2> DEFINE w == 0 - q - k
  <2>1. w \in Int /\ B - F - 1 - n = B * w + d
    BY ONLY <1>4
  <2> HIDE DEF w
  <2>2. (B * w + d) % B = d
    BY ONLY <1>2, <2>1, <1>0, DivisionIs
  <2>3. QED
    BY ONLY <2>1, <2>2 DEF z
<1>6. (n + len + F) % B = 0
  <2> DEFINE u == B * q
             v == B * k
             w == q + 1 + k
  <2>1. B * w = u + B + v /\ u \in Int /\ v \in Int /\ w \in Int
    BY <1>0, <1>1, SMT
  <2>2. n = u + x /\ d = B - F - 1 - x + v
    BY <1>1, <1>3
  <2> HIDE DEF u, v, w
  <2>3. n + len + F = B * w + 0 /\ 0 \in 0..(B - 1)
    BY ONLY <1>1, <1>2, <2>1, <2>2, <1>0
  <2>4. (B * w + 0) % B = 0
    BY ONLY <2>1, <2>3, <1>0, DivisionIs
  <2>5. QED
    BY ONLY <2>3, <2>4
<1>7. QED
  BY ONLY <1>2, <1>5, <1>6 DEF z, len, x, B, F

\* finalSha1 and its copies, for every message and every length: the state that
\* is written as the digest has taken in the padded message, all of it.
THEOREM FinalIsPadded ==
  ASSUME NEW a, IsAlgorithm(a), NEW c, IsContext(a, c), NEW m, IsSeq(m),
         HasTaken(a, c, m)
  PROVE  /\ IsContext(a, finalHash(a, c))
         /\ finalHash(a, c).state = Padded(a, m)
<1> DEFINE B == a.block
           F == FieldLen(a)
           n == Len(m)
           x == Index(a, c)
           len == padLen(a, x)
           zeros  == (B - F - 1 - n) % B
           pad    == Padding(len)
           field  == LengthField(a, c.low, c.high)
           c1     == updateHash(a, c, pad)
           c2     == updateHash(a, c1, field)
<1>1. B \in Nat \ {0} /\ F \in Nat /\ F < B /\ n \in Nat
  BY DEF IsAlgorithm, FieldLen, IsSeq
<1>2. x = n % B
  BY <1>1, IndexIsLength DEF HasTaken
<1>3. finalHash(a, c) = c2
  BY DEF finalHash
<1>4. /\ c.low = (8 * n) % a.word /\ c.high = ((8 * n) \div a.word) % a.word
  BY DEF HasTaken
<1>5. Padded(a, m) = (m \o Padding(zeros + 1)) \o field
  BY ONLY <1>4 DEF Padded
<1>6. len = zeros + 1 /\ len \in Nat /\ (n + len + F) % B = 0
  <2> HIDE DEF n
  <2>1. /\ padLen(a, n % a.block)
              = ((a.block - FieldLen(a) - 1 - n) % a.block) + 1
        /\ padLen(a, n % a.block) \in Nat
        /\ (n + padLen(a, n % a.block) + FieldLen(a)) % a.block = 0
    BY ONLY IsAlgorithm(a), <1>1, PadLenIs
  <2> HIDE DEF x
  <2>2. QED
    BY ONLY <1>2, <2>1
<1> HIDE DEF B, F, n, x, len, zeros
<1>7. IsSeq(pad) /\ Len(pad) = len
  BY ONLY <1>6, PaddingIs
<1>8. IsSeq(field) /\ Len(field) = F
  BY LengthFieldIs DEF F
<1>9. Padded(a, m) = (m \o pad) \o field
  BY ONLY <1>5, <1>6
<1> HIDE DEF pad, field
<1>10. IsContext(a, c1) /\ HasTaken(a, c1, m \o pad) /\ IsSeq(m \o pad)
  <2>1. IsSeq(m \o pad)
    BY <1>7, Concat
  <2>2. QED
    BY <2>1, <1>7, UpdateTakes
<1> HIDE DEF c1
<1>11. IsContext(a, c2) /\ HasTaken(a, c2, (m \o pad) \o field)
  BY ONLY IsAlgorithm(a), <1>8, <1>10, UpdateTakes
<1> DEFINE all == (m \o pad) \o field
<1>12. Len(all) = n + len + F /\ IsSeq(all)
  <2>1. IsSeq(m \o pad) /\ Len(m \o pad) = n + len
    BY <1>7, Concat DEF n
  <2>2. QED
    BY ONLY <2>1, <1>8, Concat
<1> HIDE DEF c2, all
<1>13. c2.state = all
  <2>1. c2.state \o SubSeq(c2.buffer, 1, Len(all) % a.block) = all
    BY ONLY <1>11 DEF HasTaken, all
  <2>2. Len(all) % a.block = 0
    BY ONLY <1>6, <1>12 DEF B
  <2>3. SubSeq(c2.buffer, 1, 0) = <<>>
    BY SubSeqEmpty
  <2>4. c2.state \o <<>> = c2.state
    BY ONLY <1>11, Empty DEF IsContext
  <2>5. QED
    BY ONLY <2>1, <2>2, <2>3, <2>4
<1>14. QED
  BY ONLY <1>3, <1>9, <1>11, <1>13 DEF all

\* A context that has taken in nothing: after initHash, and a new one.
LEMMA FreshTakes ==
  ASSUME NEW a, IsAlgorithm(a)
  PROVE  /\ IsContext(a, NewHash(a)) /\ HasTaken(a, NewHash(a), <<>>)
         /\ \A c : IsContext(a, c) =>
              IsContext(a, initHash(c)) /\ HasTaken(a, initHash(c), <<>>)
<1> DEFINE B == a.block
<1>1. B \in Nat \ {0} /\ a.word \in Nat \ {0}
  BY DEF IsAlgorithm
<1>2. ASSUME NEW c, c.low = 0, c.high = 0, c.state = <<>>
      PROVE  HasTaken(a, c, <<>>)
  <2>1. 0 % B = 0
    BY <1>1, RemainderIs
  <2>2. 0 % a.word = 0
    BY <1>1, RemainderIs
  <2>3. 0 \div a.word = 0
    <3>1. a.word * 0 + 0 = 0 /\ 0 \in 0..(a.word - 1) /\ 0 \in Int
      BY <1>1
    <3>2. (a.word * 0 + 0) \div a.word = 0
      BY ONLY <1>1, <3>1, DivisionIs
    <3>3. QED
      BY ONLY <3>1, <3>2
  <2>4. Len(<<>>) = 0 /\ 8 * 0 = 0 /\ 0 - 0 = 0
    BY Empty
  <2>5. SubSeq(c.buffer, 1, 0) = <<>>
    BY SubSeqEmpty
  <2>6. <<>> \o <<>> = <<>>
    BY Empty
  <2>7. QED
    BY ONLY <1>2, <2>1, <2>2, <2>3, <2>4, <2>5, <2>6 DEF HasTaken, B
<1>3. IsContext(a, NewHash(a)) /\ HasTaken(a, NewHash(a), <<>>)
  <2> DEFINE buffer == [i \in 1..B |-> Garbage]
  <2>1. buffer = [i \in 1..B |-> buffer[i]]
    OBVIOUS
  <2> HIDE DEF buffer
  <2>2. IsSeq(buffer) /\ Len(buffer) = B
    BY ONLY <1>1, <2>1, Listed
  <2>3. NewHash(a) = [state |-> <<>>, buffer |-> buffer, low |-> 0, high |-> 0]
    BY DEF NewHash, buffer
  <2> DEFINE c == NewHash(a)
  <2>4. c.state = <<>> /\ c.buffer = buffer /\ c.low = 0 /\ c.high = 0
    BY ONLY <2>3
  <2>5. HasTaken(a, c, <<>>)
    BY ONLY <1>2, <2>4
  <2>6. IsContext(a, c)
    BY ONLY <2>2, <2>3, <2>4, Empty DEF IsContext, B
  <2>7. QED
    BY ONLY <2>5, <2>6
<1>4. ASSUME NEW c, IsContext(a, c)
      PROVE  IsContext(a, initHash(c)) /\ HasTaken(a, initHash(c), <<>>)
  <2> DEFINE d == initHash(c)
  <2>1. /\ d = [state |-> d.state, buffer |-> d.buffer, low |-> d.low, high |-> d.high]
        /\ d.state = <<>> /\ d.buffer = c.buffer /\ d.low = 0 /\ d.high = 0
    <3>1. c = [state |-> c.state, buffer |-> c.buffer, low |-> c.low, high |-> c.high]
      BY ONLY <1>4 DEF IsContext
    <3>2. d = [c EXCEPT !.state = <<>>, !.low = 0, !.high = 0]
      BY DEF initHash
    <3> HIDE DEF d
    <3>3. d = [state |-> <<>>, buffer |-> c.buffer, low |-> 0, high |-> 0]
      BY ONLY <3>1, <3>2
    <3>4. QED
      BY ONLY <3>3
  <2> HIDE DEF d
  <2>2. IsContext(a, d)
    BY ONLY <1>4, <2>1, Empty DEF IsContext
  <2>3. HasTaken(a, d, <<>>)
    BY ONLY <1>2, <2>1
  <2>4. QED
    BY ONLY <2>2, <2>3 DEF d
<1>5. QED
  BY ONLY <1>3, <1>4

\* calcHash with a place for the digest: it is that of the message, all its
\* pieces together, and the object is ready for the next one.
THEOREM DigestIs ==
  ASSUME NEW a, IsAlgorithm(a), NEW c, IsContext(a, c), NEW m, IsSeq(m),
         HasTaken(a, c, m), NEW input, IsSeq(input)
  PROVE  /\ calcDigest(a, c, input).digest = Digest(a, m \o input)
         /\ IsContext(a, calcDigest(a, c, input).ctx)
         /\ HasTaken(a, calcDigest(a, c, input).ctx, <<>>)
<1> DEFINE u == updateHash(a, c, input)
           done == finalHash(a, u)
<1>1. IsContext(a, u) /\ HasTaken(a, u, m \o input)
  BY UpdateTakes
<1>2. IsSeq(m \o input)
  BY Concat
<1> HIDE DEF u
<1>3. IsContext(a, done) /\ done.state = Padded(a, m \o input)
  BY ONLY IsAlgorithm(a), <1>1, <1>2, FinalIsPadded
<1>4. calcDigest(a, c, input) = [digest |-> DigestOf(a, done.state), ctx |-> initHash(done)]
  BY DEF calcDigest, u
<1> HIDE DEF done
<1>5. /\ calcDigest(a, c, input).digest = DigestOf(a, done.state)
      /\ calcDigest(a, c, input).ctx = initHash(done)
  BY ONLY <1>4
<1>6. IsContext(a, initHash(done)) /\ HasTaken(a, initHash(done), <<>>)
  BY ONLY IsAlgorithm(a), <1>3, FreshTakes
<1>7. QED
  BY ONLY <1>3, <1>5, <1>6 DEF Digest

\* The counters of a context stay within their words, its states are whole
\* blocks.
LEMMA TakenIsBounded ==
  ASSUME NEW a, IsAlgorithm(a), NEW c, NEW m, IsSeq(m), HasTaken(a, c, m)
  PROVE  /\ c.low \in 0..(a.word - 1) /\ c.high \in 0..(a.word - 1)
         /\ Len(c.state) % a.block = 0
<1> DEFINE W == a.word
           B == a.block
           n == Len(m)
<1>1. W \in Nat \ {0} /\ B \in Nat \ {0} /\ n \in Int
  BY DEF IsAlgorithm, IsSeq
<1>2. c.low = (8 * n) % W /\ c.high = ((8 * n) \div W) % W /\ Len(c.state) = n - (n % B)
  BY DEF HasTaken
<1> HIDE DEF W, B, n
<1>3. 8 * n \in Int
  BY <1>1
<1>4. c.low \in 0..(W - 1) /\ (8 * n) \div W \in Int
  BY ONLY <1>1, <1>2, <1>3, Division
<1>5. c.high \in 0..(W - 1)
  BY ONLY <1>1, <1>2, <1>4, Division
<1>6. n % B \in 0..(B - 1) /\ n \div B \in Int /\ n = B * (n \div B) + (n % B)
  BY ONLY <1>1, Division
<1>7. Len(c.state) % B = 0
  <2> DEFINE q == n \div B
             r == n % B
  <2>1. r \in 0..(B - 1) /\ q \in Int /\ n = B * q + r /\ Len(c.state) = n - r
    BY ONLY <1>2, <1>6
  <2> HIDE DEF q, r
  <2>2. Len(c.state) = B * q + 0 /\ 0 \in 0..(B - 1)
    <3> DEFINE u == B * q
    <3>1. u \in Int /\ n = u + r
      BY ONLY <1>1, <2>1, SMT
    <3> HIDE DEF u
    <3>2. Len(c.state) = u /\ u + 0 = u
      BY ONLY <1>1, <2>1, <3>1
    <3>3. QED
      BY ONLY <1>1, <3>2 DEF u
  <2>3. (B * q + 0) % B = 0
    BY ONLY <1>1, <2>1, <2>2, DivisionIs
  <2>4. QED
    BY ONLY <2>2, <2>3
<1>8. QED
  BY ONLY <1>4, <1>5, <1>7 DEF W, B

\* initHash and an update.
LEMMA RestartTakes ==
  ASSUME NEW a, IsAlgorithm(a), NEW c, IsContext(a, c), NEW p, IsSeq(p)
  PROVE  /\ IsContext(a, calcHash(a, initHash(c), p))
         /\ HasTaken(a, calcHash(a, initHash(c), p), p)
<1>1. IsContext(a, initHash(c)) /\ HasTaken(a, initHash(c), <<>>)
  BY ONLY IsAlgorithm(a), IsContext(a, c), FreshTakes
<1>2. IsSeq(<<>>) /\ <<>> \o p = p
  BY Empty
<1> DEFINE d == initHash(c)
<1> HIDE DEF d
<1>3. IsContext(a, updateHash(a, d, p)) /\ HasTaken(a, updateHash(a, d, p), <<>> \o p)
  BY ONLY IsAlgorithm(a), IsSeq(p), <1>1, <1>2, UpdateTakes DEF d
<1>4. QED
  BY ONLY <1>2, <1>3 DEF calcHash, d
-----------------------------------------------------------------------------
(* The classes of the library. *)

\* What the theorems ask of an algorithm, the six classes of the library have,
\* and their blocks fit the pads of HashHmac, of 128 bytes.
THEOREM ClassesAreAlgorithms ==
  \A a \in HashTypes : IsAlgorithm(a) /\ a.block <= 128
<1>1. /\ U32 \in Nat \ {0} /\ U32 = 512 * 8388608
      /\ 8 * 64 = 512 /\ 8 * 128 = 1024
  BY SMT DEF U32
<1> HIDE DEF U32
<1>2. U32 % 512 = 0
  <2>1. 512 * 8388608 = 512 * 8388608 + 0 /\ 0 \in 0..(512 - 1) /\ 8388608 \in Int
    BY SMT
  <2>2. (512 * 8388608 + 0) % 512 = 0
    BY ONLY <2>1, DivisionIs, SMT
  <2>3. QED
    BY ONLY <1>1, <2>1, <2>2, SMT
<1>3. U64 \in Nat \ {0} /\ U64 % 1024 = 0
  <2> DEFINE k == 4194304 * U32
  <2>1. k \in Int /\ U64 = 1024 * k + 0 /\ U64 \in Nat \ {0}
    <3>1. U64 = (512 * 8388608) * U32
      BY ONLY <1>1 DEF U64
    <3>2. (512 * 8388608) * U32 = 1024 * (4194304 * U32) /\ 4194304 * U32 \in Nat \ {0}
      <4>1. U32 \in Nat \ {0}
        BY <1>1
      <4>2. QED
        BY ONLY <4>1, SMT
    <3> HIDE DEF k
    <3>3. U64 = 1024 * k /\ k \in Nat \ {0}
      BY ONLY <3>1, <3>2 DEF k
    <3>4. QED
      BY ONLY <3>3, SMT
  <2> HIDE DEF k
  <2>2. (1024 * k + 0) % 1024 = 0
    BY ONLY <2>1, DivisionIs, SMT
  <2>3. QED
    BY ONLY <2>1, <2>2
<1>4. ASSUME NEW a, a.block = 64, a.wordLen = 4, a.word = U32,
                a.size \in 1..64, a.lowFirst \in BOOLEAN
      PROVE  IsAlgorithm(a) /\ a.block <= 128
  <2>1. a.block \in Nat \ {0} /\ a.block <= 128
    BY ONLY <1>4, SMT
  <2>2. a.wordLen \in Nat \ {0} /\ 2 * a.wordLen < a.block
    BY ONLY <1>4, SMT
  <2>3. a.size \in Nat \ {0} /\ a.size <= a.block
    BY ONLY <1>4, SMT
  <2>4. 8 * a.block = 512
    BY ONLY <1>1, <1>4
  <2>5. a.word \in Nat \ {0} /\ a.word % (8 * a.block) = 0
    BY ONLY <1>1, <1>2, <1>3, <1>4, <2>4
  <2>6. QED
    BY ONLY <1>4, <2>1, <2>2, <2>3, <2>5 DEF IsAlgorithm
<1>5. ASSUME NEW a, a.block = 128, a.wordLen = 8, a.word = U64,
                a.size \in 1..128, a.lowFirst \in BOOLEAN
      PROVE  IsAlgorithm(a) /\ a.block <= 128
  <2>1. a.block \in Nat \ {0} /\ a.block <= 128
    BY ONLY <1>5, SMT
  <2>2. a.wordLen \in Nat \ {0} /\ 2 * a.wordLen < a.block
    BY ONLY <1>5, SMT
  <2>3. a.size \in Nat \ {0} /\ a.size <= a.block
    BY ONLY <1>5, SMT
  <2>4. 8 * a.block = 1024
    BY ONLY <1>1, <1>5
  <2>5. a.word \in Nat \ {0} /\ a.word % (8 * a.block) = 0
    BY ONLY <1>1, <1>2, <1>3, <1>5, <2>4
  <2>6. QED
    BY ONLY <1>5, <2>1, <2>2, <2>3, <2>5 DEF IsAlgorithm
<1>6. IsAlgorithm(HashMd5) /\ HashMd5.block <= 128
  <2>1. /\ HashMd5.block = 64 /\ HashMd5.wordLen = 4 /\ HashMd5.word = U32
        /\ HashMd5.size = 16 /\ HashMd5.lowFirst = TRUE
    BY DEF HashMd5
  <2>2. HashMd5.size \in 1..64
    BY ONLY <2>1, SMT
  <2>3. HashMd5.lowFirst \in BOOLEAN
    BY ONLY <2>1
  <2>4. QED
    BY ONLY <1>4, <2>1, <2>2, <2>3
<1>7. IsAlgorithm(HashSha1) /\ HashSha1.block <= 128
  <2>1. /\ HashSha1.block = 64 /\ HashSha1.wordLen = 4 /\ HashSha1.word = U32
        /\ HashSha1.size = 20 /\ HashSha1.lowFirst = FALSE
    BY DEF HashSha1
  <2>2. HashSha1.size \in 1..64
    BY ONLY <2>1, SMT
  <2>3. HashSha1.lowFirst \in BOOLEAN
    BY ONLY <2>1
  <2>4. QED
    BY ONLY <1>4, <2>1, <2>2, <2>3
<1>8. IsAlgorithm(HashSha224) /\ HashSha224.block <= 128
  <2>1. /\ HashSha224.block = 64 /\ HashSha224.wordLen = 4 /\ HashSha224.word = U32
        /\ HashSha224.size = 28 /\ HashSha224.lowFirst = FALSE
    BY DEF HashSha224
  <2>2. HashSha224.size \in 1..64
    BY ONLY <2>1, SMT
  <2>3. HashSha224.lowFirst \in BOOLEAN
    BY ONLY <2>1
  <2>4. QED
    BY ONLY <1>4, <2>1, <2>2, <2>3
<1>9. IsAlgorithm(HashSha256) /\ HashSha256.block <= 128
  <2>1. /\ HashSha256.block = 64 /\ HashSha256.wordLen = 4 /\ HashSha256.word = U32
        /\ HashSha256.size = 32 /\ HashSha256.lowFirst = FALSE
    BY DEF HashSha256
  <2>2. HashSha256.size \in 1..64
    BY ONLY <2>1, SMT
  <2>3. HashSha256.lowFirst \in BOOLEAN
    BY ONLY <2>1
  <2>4. QED
    BY ONLY <1>4, <2>1, <2>2, <2>3
<1>10. IsAlgorithm(HashSha384) /\ HashSha384.block <= 128
  <2>1. /\ HashSha384.block = 128 /\ HashSha384.wordLen = 8 /\ HashSha384.word = U64
        /\ HashSha384.size = 48 /\ HashSha384.lowFirst = FALSE
    BY DEF HashSha384
  <2>2. HashSha384.size \in 1..128
    BY ONLY <2>1, SMT
  <2>3. HashSha384.lowFirst \in BOOLEAN
    BY ONLY <2>1
  <2>4. QED
    BY ONLY <1>5, <2>1, <2>2, <2>3
<1>11. IsAlgorithm(HashSha512) /\ HashSha512.block <= 128
  <2>1. /\ HashSha512.block = 128 /\ HashSha512.wordLen = 8 /\ HashSha512.word = U64
        /\ HashSha512.size = 64 /\ HashSha512.lowFirst = FALSE
    BY DEF HashSha512
  <2>2. HashSha512.size \in 1..128
    BY ONLY <2>1, SMT
  <2>3. HashSha512.lowFirst \in BOOLEAN
    BY ONLY <2>1
  <2>4. QED
    BY ONLY <1>5, <2>1, <2>2, <2>3
<1>12. QED
  BY ONLY <1>6, <1>7, <1>8, <1>9, <1>10, <1>11 DEF HashTypes
-----------------------------------------------------------------------------
(* The pads. *)

LEMMA XorPadIs ==
  ASSUME NEW c, NEW pad, IsSeq(pad), NEW n \in 0..Len(pad)
  PROVE  /\ IsSeq(XorPad(c, pad, n)) /\ Len(XorPad(c, pad, n)) = Len(pad)
         /\ SubSeq(XorPad(c, pad, n), 1, n) = [i \in 1..n |-> Xor(c, pad[i])]
<1> DEFINE x == XorPad(c, pad, n)
           f == [i \in 1..n |-> Xor(c, pad[i])]
<1>1. Len(pad) \in Nat /\ n \in Nat
  BY DEF IsSeq
<1>2. x = [i \in 1..Len(pad) |-> x[i]]
  BY DEF XorPad
<1>3. \A i \in 1..n : x[i] = f[i]
  BY <1>1 DEF XorPad
<1>4. f = [i \in 1..n |-> f[i]]
  OBVIOUS
<1> HIDE DEF x, f
<1>5. IsSeq(x) /\ Len(x) = Len(pad)
  BY ONLY <1>1, <1>2, Listed
<1>6. IsSeq(f) /\ Len(f) = n
  BY ONLY <1>1, <1>4, Listed
<1>7. SubSeq(x, 1, n) = f
  <2>1. 0 \in 0..Len(x) /\ n \in 0..Len(x)
    BY <1>1, <1>5
  <2>2. /\ IsSeq(SubSeq(x, 0 + 1, n)) /\ Len(SubSeq(x, 0 + 1, n)) = n - 0
        /\ \A k \in 1..(n - 0) : SubSeq(x, 0 + 1, n)[k] = x[0 + k]
    BY ONLY <1>5, <2>1, Part
  <2>3. 0 + 1 = 1 /\ n - 0 = n /\ \A k \in 1..n : 0 + k = k
    BY <1>1
  <2>4. /\ IsSeq(SubSeq(x, 1, n)) /\ Len(SubSeq(x, 1, n)) = n
        /\ \A k \in 1..n : SubSeq(x, 1, n)[k] = x[k]
    BY ONLY <2>2, <2>3
  <2>5. QED
    BY ONLY <1>3, <1>6, <2>4, Same
<1>8. QED
  BY ONLY <1>5, <1>7 DEF x, f

\* A key copied over zeros is the key, filled up with zeros.
LEMMA PadIs ==
  ASSUME NEW B \in Nat, B <= PadLen, NEW short, IsSeq(short), Len(short) <= B
  PROVE  LET pad == Overwrite(Zeros(PadLen), short)
         IN  /\ IsSeq(pad) /\ Len(pad) = PadLen
             /\ \A i \in 1..B : pad[i] = (short \o Zeros(B - Len(short)))[i]
<1> DEFINE l    == Len(short)
           tail == SubSeq(Zeros(PadLen), l + 1, PadLen)
           rest == Zeros(B - l)
           pad  == Overwrite(Zeros(PadLen), short)
<1>1. PadLen \in Nat /\ l \in Nat /\ B - l \in Nat /\ l <= PadLen
  BY HmacAssumption DEF IsSeq
<1>2. /\ IsSeq(Zeros(PadLen)) /\ Len(Zeros(PadLen)) = PadLen
      /\ \A i \in 1..PadLen : Zeros(PadLen)[i] = Byte(0)
  BY ONLY <1>1, ZerosAre
<1>3. IsSeq(rest) /\ Len(rest) = B - l /\ \A i \in 1..(B - l) : rest[i] = Byte(0)
  BY ONLY <1>1, ZerosAre
<1>4. /\ IsSeq(tail) /\ Len(tail) = PadLen - l
      /\ \A k \in 1..(PadLen - l) : tail[k] = Zeros(PadLen)[l + k]
  <2>1. l \in 0..Len(Zeros(PadLen)) /\ PadLen \in l..Len(Zeros(PadLen))
    BY <1>1, <1>2
  <2> HIDE DEF l
  <2>2. QED
    BY ONLY <1>2, <2>1, Part
<1>5. pad = short \o tail
  BY ONLY <1>2 DEF Overwrite
<1> HIDE DEF tail, rest, pad, l
<1>6. /\ IsSeq(pad) /\ Len(pad) = l + (PadLen - l)
      /\ \A i \in 1..(l + (PadLen - l)) : pad[i] = IF i <= l THEN short[i] ELSE tail[i - l]
  BY ONLY IsSeq(short), <1>4, <1>5, Concat DEF l
<1>7. /\ \A i \in 1..(l + (B - l)) :
           (short \o rest)[i] = IF i <= l THEN short[i] ELSE rest[i - l]
  BY ONLY IsSeq(short), <1>3, Concat DEF l
<1>8. l + (PadLen - l) = PadLen /\ l + (B - l) = B
  BY <1>1
<1>9. ASSUME NEW i \in 1..B
      PROVE  pad[i] = (short \o rest)[i]
  <2>1. i \in 1..(l + (PadLen - l)) /\ i \in 1..(l + (B - l))
    BY <1>1, <1>8
  <2>2. CASE i <= l
    BY ONLY <1>6, <1>7, <2>1, <2>2
  <2>3. CASE ~ (i <= l)
    <3> DEFINE j == i - l
    <3>1. j \in 1..(PadLen - l) /\ j \in 1..(B - l) /\ l + j = i /\ i \in 1..PadLen
      BY <1>1, <2>3
    <3> HIDE DEF j
    <3>2. tail[j] = Byte(0) /\ rest[j] = Byte(0)
      BY ONLY <1>2, <1>3, <1>4, <3>1
    <3>3. pad[i] = tail[j] /\ (short \o rest)[i] = rest[j]
      BY ONLY <1>6, <1>7, <2>1, <2>3 DEF j
    <3>4. QED
      BY ONLY <3>2, <3>3
  <2>4. QED
    BY <2>2, <2>3
<1>10. QED
  BY ONLY <1>6, <1>8, <1>9 DEF pad, rest, l

LEMMA KeyPadIs ==
  ASSUME NEW a, IsAlgorithm(a), NEW k, NEW c
  PROVE  IsSeq(KeyPad(a, k, c)) /\ Len(KeyPad(a, k, c)) = a.block
<1>1. a.block \in Nat
  BY DEF IsAlgorithm
<1>2. KeyPad(a, k, c) = [i \in 1..a.block |-> KeyPad(a, k, c)[i]]
  BY DEF KeyPad
<1>3. QED
  BY ONLY <1>1, <1>2, Listed

\* The loop of setHashKey over clean pads makes the pad of RFC 2104.
LEMMA PadIsKeyPad ==
  ASSUME NEW a \in Algorithms, NEW k, NEW c, NEW short, IsSeq(short),
         Len(short) <= a.block,
         BlockKey(a, k) = short \o Zeros(a.block - Len(short))
  PROVE  LET pad == XorPad(c, Overwrite(Zeros(PadLen), short), a.block)
         IN  /\ IsSeq(pad) /\ Len(pad) = PadLen
             /\ SubSeq(pad, 1, a.block) = KeyPad(a, k, c)
<1> DEFINE B == a.block
           over == Overwrite(Zeros(PadLen), short)
           pad  == XorPad(c, over, B)
<1>1. IsAlgorithm(a) /\ B <= PadLen
  BY AlgorithmAssumption
<1>2. B \in Nat /\ PadLen \in Nat
  BY <1>1, HmacAssumption DEF IsAlgorithm
<1>3. /\ IsSeq(over) /\ Len(over) = PadLen
      /\ \A i \in 1..B : over[i] = (short \o Zeros(B - Len(short)))[i]
  BY <1>1, <1>2, PadIs
<1> HIDE DEF over
<1>4. B \in 0..Len(over)
  BY <1>1, <1>2, <1>3
<1>5. /\ IsSeq(pad) /\ Len(pad) = PadLen
      /\ SubSeq(pad, 1, B) = [i \in 1..B |-> Xor(c, over[i])]
  BY ONLY <1>3, <1>4, XorPadIs
<1>6. \A i \in 1..B : over[i] = BlockKey(a, k)[i]
  BY <1>3
<1>7. [i \in 1..B |-> Xor(c, over[i])] = KeyPad(a, k, c)
  BY ONLY <1>6 DEF KeyPad
<1>8. QED
  BY ONLY <1>5, <1>7 DEF over
-----------------------------------------------------------------------------
(* The inductive invariant. *)

Shapes ==
  /\ IsSeq(mIpad) /\ IsSeq(mOpad) /\ IsSeq(text)
  /\ key \in HashKeys \cup {NULL}
  /\ mpHash # NULL => IsContext(mpHash, ctx)

\* The pads have not been used, or they are those of the key.
PadsClean == ~keyed => mIpad = Zeros(PadLen) /\ mOpad = Zeros(PadLen)
PadsKeyed ==
  HasKey => /\ Front(mIpad) = KeyPad(mpHash, key, IPAD)
            /\ Front(mOpad) = KeyPad(mpHash, key, OPAD)

IInv ==
  TypeOK /\ Shapes /\ PadsClean /\ PadsKeyed /\ StreamExact /\ MacCorrect

\* What is known when there is a key.
LEMMA Keyed ==
  ASSUME IInv, HasKey
  PROVE  /\ IsAlgorithm(mpHash) /\ mpHash \in Algorithms /\ mpHash # NULL
         /\ mBlockLen = mpHash.block /\ IsContext(mpHash, ctx) /\ IsSeq(text)
         /\ SubSeq(mIpad, 1, mpHash.block) = KeyPad(mpHash, key, IPAD)
         /\ SubSeq(mOpad, 1, mpHash.block) = KeyPad(mpHash, key, OPAD)
         /\ IsSeq(KeyPad(mpHash, key, IPAD)) /\ IsSeq(KeyPad(mpHash, key, OPAD))
         /\ HasTaken(mpHash, ctx, KeyPad(mpHash, key, IPAD) \o text)
<1>1. mpHash # NULL /\ mpHash \in Algorithms
  BY DEF IInv, TypeOK, HasKey
<1>2. IsAlgorithm(mpHash)
  BY <1>1, AlgorithmAssumption
<1>3. IsSeq(KeyPad(mpHash, key, IPAD)) /\ IsSeq(KeyPad(mpHash, key, OPAD))
  BY ONLY <1>2, KeyPadIs
<1>4. mBlockLen = mpHash.block
  BY <1>1 DEF IInv, TypeOK
<1>5. QED
  BY <1>1, <1>2, <1>3, <1>4 DEF IInv, Shapes, PadsKeyed, StreamExact, Front

\* The members of a context that has taken something in are in their ranges.
LEMMA ContextTyped ==
  ASSUME NEW a, IsAlgorithm(a), NEW c, IsContext(a, c), NEW m, IsSeq(m), HasTaken(a, c, m)
  PROVE  /\ Len(c.buffer) = a.block /\ Len(c.state) % a.block = 0
         /\ c.low \in 0..(a.word - 1) /\ c.high \in 0..(a.word - 1)
<1>1. Len(c.buffer) = a.block
  BY DEF IsContext
<1>2. QED
  BY ONLY <1>1, IsAlgorithm(a), IsSeq(m), HasTaken(a, c, m), TakenIsBounded

LEMMA CleanStart ==
  ASSUME mpHash = NULL, mIpad = Zeros(PadLen), mOpad = Zeros(PadLen),
         key = NULL, text = <<>>, keyed = FALSE, out = NULL
  PROVE  IInv
<1>1. IsSeq(Zeros(PadLen)) /\ Len(Zeros(PadLen)) = PadLen
  BY HmacAssumption, ZerosAre
<1>2. TypeOK
  BY <1>1 DEF TypeOK
<1>3. Shapes
  BY <1>1, Empty DEF Shapes
<1>4. PadsClean /\ PadsKeyed /\ StreamExact /\ MacCorrect
  BY DEF PadsClean, PadsKeyed, StreamExact, MacCorrect, HasKey
<1>5. QED
  BY <1>2, <1>3, <1>4 DEF IInv

LEMMA RenewKeeps ==
  ASSUME Renew
  PROVE  IInv'
<1>1. IsSeq(Zeros(PadLen)) /\ Len(Zeros(PadLen)) = PadLen
  BY HmacAssumption, ZerosAre
<1>2. TypeOK'
  BY <1>1 DEF TypeOK, Renew
<1>3. Shapes'
  BY <1>1, Empty DEF Shapes, Renew
<1>4. PadsClean' /\ PadsKeyed' /\ StreamExact' /\ MacCorrect'
  BY DEF PadsClean, PadsKeyed, StreamExact, MacCorrect, HasKey, Renew
<1>5. QED
  BY <1>2, <1>3, <1>4 DEF IInv

LEMMA TypeKeeps ==
  ASSUME IInv, NEW type \in Algorithms \cup {NULL}, setHashType(type)
  PROVE  IInv'
<1>1. /\ mpHash' = type /\ key' = NULL /\ text' = <<>> /\ out' = NULL
      /\ mIpad' = mIpad /\ mOpad' = mOpad /\ keyed' = keyed
  BY DEF setHashType
<1>2. ASSUME type # NULL
      PROVE  /\ mBlockLen' = type.block /\ ctx' = NewHash(type)
             /\ IsContext(type, ctx')
             /\ Len(ctx'.buffer) = type.block /\ Len(ctx'.state) % type.block = 0
             /\ ctx'.low \in 0..(type.word - 1) /\ ctx'.high \in 0..(type.word - 1)
  <2>1. IsAlgorithm(type)
    BY <1>2, AlgorithmAssumption
  <2>2. mBlockLen' = type.block /\ ctx' = NewHash(type)
    BY <1>2 DEF setHashType
  <2>3. IsContext(type, NewHash(type)) /\ HasTaken(type, NewHash(type), <<>>)
    BY ONLY <2>1, FreshTakes
  <2> DEFINE c == NewHash(type)
  <2> HIDE DEF c
  <2>4. /\ Len(c.buffer) = type.block /\ Len(c.state) % type.block = 0
        /\ c.low \in 0..(type.word - 1) /\ c.high \in 0..(type.word - 1)
    BY ONLY <2>1, <2>3, Empty, ContextTyped DEF c
  <2>5. QED
    BY ONLY <2>2, <2>3, <2>4 DEF c
<1>3. TypeOK'
  BY <1>1, <1>2 DEF IInv, TypeOK
<1>4. Shapes'
  BY <1>1, <1>2, Empty DEF IInv, Shapes
<1>5. PadsClean' /\ PadsKeyed' /\ StreamExact' /\ MacCorrect'
  BY <1>1 DEF IInv, PadsClean, PadsKeyed, StreamExact, MacCorrect, HasKey
<1>6. QED
  BY <1>3, <1>4, <1>5 DEF IInv

LEMMA RefuseKeeps ==
  ASSUME IInv, NEW input, NEW outLen, RefuseLength(input, outLen)
  PROVE  IInv'
<1>1. /\ mpHash' = mpHash /\ ctx' = ctx /\ mBlockLen' = mBlockLen
      /\ mIpad' = mIpad /\ mOpad' = mOpad /\ key' = key /\ text' = text
      /\ keyed' = keyed /\ out' = NULL
  BY DEF RefuseLength
<1>2. TypeOK'
  BY <1>1 DEF IInv, TypeOK
<1>3. Shapes' /\ PadsClean' /\ PadsKeyed' /\ StreamExact'
  BY <1>1 DEF IInv, Shapes, PadsClean, PadsKeyed, StreamExact, HasKey, Front
<1>4. MacCorrect'
  BY <1>1 DEF MacCorrect
<1>5. QED
  BY <1>2, <1>3, <1>4 DEF IInv

LEMMA AppendKeeps ==
  ASSUME IInv, NEW input \in Inputs, AppendText(input)
  PROVE  IInv'
<1> DEFINE pad == KeyPad(mpHash, key, IPAD)
<1>1. /\ mpHash' = mpHash /\ mBlockLen' = mBlockLen /\ ctx' = updateHash(mpHash, ctx, input)
      /\ mIpad' = mIpad /\ mOpad' = mOpad /\ key' = key /\ text' = text \o input
      /\ keyed' = keyed /\ out' = NULL /\ HasKey
  BY DEF AppendText, calcHash
<1>2. IsSeq(input)
  BY HmacAssumption
<1>3. /\ IsAlgorithm(mpHash) /\ IsContext(mpHash, ctx) /\ IsSeq(text)
      /\ IsSeq(pad) /\ HasTaken(mpHash, ctx, pad \o text)
  BY <1>1, Keyed
<1> HIDE DEF pad
<1>4. IsSeq(pad \o text) /\ (pad \o text) \o input = pad \o (text \o input)
  BY ONLY <1>2, <1>3, Concat, Associative
<1>5. IsSeq(text \o input) /\ IsSeq((pad \o text) \o input)
  BY ONLY <1>2, <1>3, <1>4, Concat
<1>6. /\ IsContext(mpHash, ctx')
      /\ HasTaken(mpHash, ctx', (pad \o text) \o input)
  BY ONLY <1>1, <1>2, <1>3, <1>4, UpdateTakes
<1>7. /\ Len(ctx'.buffer) = mpHash.block /\ Len(ctx'.state) % mpHash.block = 0
      /\ ctx'.low \in 0..(mpHash.word - 1) /\ ctx'.high \in 0..(mpHash.word - 1)
  BY ONLY <1>3, <1>5, <1>6, ContextTyped
<1>8. TypeOK'
  BY <1>1, <1>7 DEF IInv, TypeOK
<1>9. Shapes'
  BY <1>1, <1>5, <1>6 DEF IInv, Shapes
<1>10. PadsClean' /\ PadsKeyed'
  BY <1>1 DEF IInv, PadsClean, PadsKeyed, HasKey, Front
<1>11. StreamExact'
  BY ONLY <1>1, <1>4, <1>6 DEF StreamExact, pad
<1>12. MacCorrect'
  BY <1>1 DEF MacCorrect
<1>13. QED
  BY <1>8, <1>9, <1>10, <1>11, <1>12 DEF IInv

LEMMA KeyKeeps ==
  ASSUME IInv, ~MayRekey, NEW k \in HashKeys, setHashKey(k)
  PROVE  IInv'
<1> DEFINE a      == mpHash
           B      == a.block
           long   == Len(k) > B
           hashed == calcDigest(a, initHash(ctx), k)
           c1     == IF long THEN hashed.ctx ELSE ctx
           short  == IF long THEN hashed.digest ELSE k
           pad    == Overwrite(Zeros(PadLen), short)
           ipad   == XorPad(IPAD, pad, B)
           opad   == XorPad(OPAD, pad, B)
<1>1. /\ a \in Algorithms /\ a # NULL /\ mBlockLen = B /\ IsContext(a, ctx)
      /\ mIpad = Zeros(PadLen) /\ mOpad = Zeros(PadLen)
  BY DEF IInv, TypeOK, Shapes, PadsClean, setHashKey
<1>2. IsAlgorithm(a) /\ B \in Nat \ {0} /\ B <= PadLen /\ a.size \in Nat /\ a.size <= B
  BY <1>1, AlgorithmAssumption DEF IsAlgorithm
<1>3. IsSeq(k) /\ k # NULL
  BY HmacAssumption
<1>4. /\ mpHash' = a /\ mBlockLen' = B
      /\ mIpad' = ipad /\ mOpad' = opad
      /\ ctx' = calcHash(a, initHash(c1), SubSeq(ipad, 1, B))
      /\ key' = k /\ text' = <<>> /\ keyed' = TRUE /\ out' = NULL
  <2>1. SubSeq(ipad, 1, mBlockLen) = SubSeq(ipad, 1, B)
    BY <1>1
  <2>2. Len(k) > mBlockLen <=> long
    BY <1>1
  <2> HIDE DEF B, a
  <2>3. CASE long
    BY ONLY setHashKey(k), <1>1, <2>2, <2>3 DEF setHashKey, Front, a
  <2>4. CASE ~ long
    BY ONLY setHashKey(k), <1>1, <2>2, <2>4 DEF setHashKey, Front, a
  <2>5. QED
    BY ONLY <2>3, <2>4
<1>5. /\ hashed.digest = Digest(a, k) /\ IsContext(a, hashed.ctx)
  <2>1. IsContext(a, initHash(ctx)) /\ HasTaken(a, initHash(ctx), <<>>)
    BY ONLY <1>1, <1>2, FreshTakes
  <2>2. IsSeq(<<>>) /\ <<>> \o k = k
    BY <1>3, Empty
  <2> DEFINE c == initHash(ctx)
             m == <<>>
  <2>3. /\ IsContext(a, c) /\ HasTaken(a, c, m) /\ IsSeq(m) /\ m \o k = k
    BY ONLY <2>1, <2>2
  <2> HIDE DEF c, m, a
  <2>4. /\ calcDigest(a, c, k).digest = Digest(a, m \o k)
        /\ IsContext(a, calcDigest(a, c, k).ctx)
    <3>1. IsAlgorithm(a) /\ IsSeq(k)
      BY <1>2, <1>3
    <3>2. QED
      BY ONLY <3>1, <2>3, DigestIs
  <2>5. QED
    BY ONLY <2>3, <2>4 DEF c
<1>6. IsSeq(Digest(a, k)) /\ Len(Digest(a, k)) = a.size
  BY ONLY <1>2, DigestOfIs DEF Digest
<1> HIDE DEF hashed, B, a
<1>7. /\ IsSeq(short) /\ Len(short) <= B /\ IsContext(a, c1)
      /\ BlockKey(a, k) = short \o Zeros(B - Len(short))
  <2>1. Len(k) \in Nat
    BY <1>3 DEF IsSeq
  <2>2. CASE long
    BY ONLY <1>1, <1>2, <1>5, <1>6, <2>2 DEF BlockKey, B
  <2>3. CASE ~ long
    <3>1. short = k /\ c1 = ctx
      BY ONLY <2>3
    <3>2. Len(k) <= B
      BY ONLY <1>2, <2>1, <2>3
    <3>3. BlockKey(a, k) = k \o Zeros(B - Len(k))
      BY ONLY <2>3 DEF BlockKey, B
    <3> HIDE DEF short, c1
    <3>4. QED
      BY ONLY <1>1, <1>3, <3>1, <3>2, <3>3
  <2>4. QED
    BY ONLY <2>2, <2>3
<1> HIDE DEF c1, short
<1>8. /\ IsSeq(ipad) /\ Len(ipad) = PadLen /\ SubSeq(ipad, 1, B) = KeyPad(a, k, IPAD)
      /\ IsSeq(opad) /\ Len(opad) = PadLen /\ SubSeq(opad, 1, B) = KeyPad(a, k, OPAD)
  BY ONLY <1>1, <1>7, PadIsKeyPad DEF B
<1> HIDE DEF ipad, opad
<1>9. IsSeq(KeyPad(a, k, IPAD)) /\ KeyPad(a, k, IPAD) \o <<>> = KeyPad(a, k, IPAD)
  BY ONLY <1>2, KeyPadIs, Empty
<1>10. IsContext(a, ctx') /\ HasTaken(a, ctx', KeyPad(a, k, IPAD))
  BY ONLY <1>2, <1>4, <1>7, <1>8, <1>9, RestartTakes
<1>11. /\ Len(ctx'.buffer) = B /\ Len(ctx'.state) % B = 0
       /\ ctx'.low \in 0..(a.word - 1) /\ ctx'.high \in 0..(a.word - 1)
  BY ONLY <1>2, <1>9, <1>10, ContextTyped DEF B
<1>12. TypeOK'
  BY ONLY <1>1, <1>4, <1>8, <1>11 DEF TypeOK, B
<1>13. Shapes'
  BY ONLY <1>4, <1>8, <1>10, Empty, k \in HashKeys DEF Shapes
<1>14. PadsClean' /\ PadsKeyed'
  BY ONLY <1>4, <1>8 DEF PadsClean, PadsKeyed, Front
<1>15. StreamExact'
  BY ONLY <1>4, <1>9, <1>10 DEF StreamExact
<1>16. MacCorrect'
  BY <1>4 DEF MacCorrect
<1>17. QED
  BY ONLY <1>12, <1>13, <1>14, <1>15, <1>16 DEF IInv

LEMMA CompleteKeeps ==
  ASSUME IInv, NEW input \in Inputs, NEW outLen, CompleteHmac(input, outLen)
  PROVE  IInv'
<1> DEFINE a     == mpHash
           I     == KeyPad(a, key, IPAD)
           O     == KeyPad(a, key, OPAD)
           inner == calcDigest(a, ctx, input)
           begun == calcHash(a, inner.ctx, O)
           outer == calcDigest(a, begun, inner.digest)
           len   == IF outLen = 0 THEN a.size ELSE outLen
<1>1. /\ HasKey /\ mpHash' = a /\ mBlockLen' = mBlockLen /\ mIpad' = mIpad /\ mOpad' = mOpad
      /\ key' = key /\ keyed' = keyed /\ text' = <<>>
  BY DEF CompleteHmac
<1>2. /\ IsAlgorithm(a) /\ IsContext(a, ctx) /\ IsSeq(text)
      /\ Front(mIpad) = I /\ Front(mOpad) = O /\ IsSeq(I) /\ IsSeq(O)
      /\ HasTaken(a, ctx, I \o text)
  BY <1>1, Keyed DEF Front
<1>3. /\ out' = [type |-> a, key |-> key, text |-> text \o input,
                 mac |-> SubSeq(outer.digest, 1, len), len |-> len]
      /\ ctx' = calcHash(a, initHash(outer.ctx), I)
  BY ONLY CompleteHmac(input, outLen), <1>2 DEF CompleteHmac
<1>4. IsSeq(input)
  BY HmacAssumption
<1> HIDE DEF I, O, a, len
<1>5. IsSeq(I \o text) /\ (I \o text) \o input = I \o (text \o input)
  BY ONLY <1>2, <1>4, Concat, Associative
<1>6. /\ inner.digest = Digest(a, (I \o text) \o input)
      /\ IsContext(a, inner.ctx) /\ HasTaken(a, inner.ctx, <<>>)
  BY ONLY <1>2, <1>4, <1>5, DigestIs
<1>7. IsSeq(inner.digest)
  BY ONLY <1>2, <1>6, DigestOfIs DEF Digest
<1> HIDE DEF inner
<1>8. IsContext(a, begun) /\ HasTaken(a, begun, O)
  <2>1. IsSeq(<<>>) /\ <<>> \o O = O
    BY <1>2, Empty
  <2> DEFINE c == inner.ctx
  <2> HIDE DEF c
  <2>2. IsContext(a, updateHash(a, c, O)) /\ HasTaken(a, updateHash(a, c, O), <<>> \o O)
    BY ONLY <1>2, <1>6, <2>1, UpdateTakes DEF c
  <2>3. QED
    BY ONLY <2>1, <2>2 DEF calcHash, c
<1> HIDE DEF begun
<1>9. /\ outer.digest = Digest(a, O \o inner.digest) /\ IsContext(a, outer.ctx)
  BY ONLY <1>2, <1>7, <1>8, DigestIs
<1> HIDE DEF outer
<1>10. IsContext(a, ctx') /\ HasTaken(a, ctx', I)
  <2> DEFINE c == outer.ctx
  <2> HIDE DEF c
  <2>1. IsContext(a, calcHash(a, initHash(c), I)) /\ HasTaken(a, calcHash(a, initHash(c), I), I)
    BY ONLY <1>2, <1>9, RestartTakes DEF c
  <2>2. QED
    BY ONLY <1>3, <2>1 DEF c
<1>11. /\ Len(ctx'.buffer) = a.block /\ Len(ctx'.state) % a.block = 0
       /\ ctx'.low \in 0..(a.word - 1) /\ ctx'.high \in 0..(a.word - 1)
  BY ONLY <1>2, <1>10, ContextTyped
<1>12. TypeOK'
  BY <1>1, <1>11 DEF IInv, TypeOK, a
<1>13. Shapes'
  BY <1>1, <1>10, Empty DEF IInv, Shapes, a
<1>14. PadsClean' /\ PadsKeyed'
  BY <1>1 DEF IInv, PadsClean, PadsKeyed, HasKey, Front, a
<1>15. StreamExact'
  <2>1. I \o <<>> = I
    BY <1>2, Empty
  <2>2. QED
    BY ONLY <1>1, <1>10, <2>1 DEF StreamExact, I
<1>16. MacCorrect'
  <2>1. outer.digest = Hmac(a, key, text \o input)
    BY ONLY <1>5, <1>6, <1>9 DEF Hmac, I, O
  <2>2. /\ out'.mac = SubSeq(outer.digest, 1, len) /\ out'.type = a /\ out'.key = key
        /\ out'.text = text \o input /\ out'.len = len
    BY ONLY <1>3
  <2>3. QED
    BY ONLY <2>1, <2>2 DEF MacCorrect
<1>17. QED
  BY ONLY <1>12, <1>13, <1>14, <1>15, <1>16 DEF IInv

LEMMA StutterKeeps ==
  ASSUME IInv, UNCHANGED vars
  PROVE  IInv'
BY DEF IInv, vars, TypeOK, Shapes, PadsClean, PadsKeyed, StreamExact, MacCorrect, HasKey, Front

\* An object that is given one key at most keeps the inductive invariant.
THEOREM Invariance ==
  ASSUME ~MayRekey
  PROVE  Spec => []IInv
<1>1. Init => IInv
  BY CleanStart DEF Init
<1>2. IInv /\ [Next]_vars => IInv'
  <2> SUFFICES ASSUME IInv, [Next]_vars
               PROVE  IInv'
    OBVIOUS
  <2>1. CASE Renew
    BY <2>1, RenewKeeps
  <2>2. CASE \E type \in Algorithms \cup {NULL} : setHashType(type)
    BY <2>2, TypeKeeps
  <2>3. CASE \E k \in HashKeys : setHashKey(k)
    BY <2>3, KeyKeeps
  <2>4. ASSUME NEW input \in Inputs, AppendText(input)
        PROVE  IInv'
    BY <2>4, AppendKeeps
  <2>5. ASSUME NEW input \in Inputs, NEW outLen \in 0..(PadLen + 1),
               RefuseLength(input, outLen) \/ CompleteHmac(input, outLen)
        PROVE  IInv'
    BY <2>5, RefuseKeeps, CompleteKeeps
  <2>6. CASE UNCHANGED vars
    BY <2>6, StutterKeeps
  <2>7. QED
    BY <2>1, <2>2, <2>3, <2>4, <2>5, <2>6 DEF Next
<1>3. QED
  BY <1>1, <1>2, PTL DEF Spec

\* The members of the hash object keep their sizes.
THEOREM TypeCorrect ==
  ASSUME ~MayRekey
  PROVE  Spec => []TypeOK
<1>1. IInv => TypeOK
  BY DEF IInv
<1>2. QED
  BY <1>1, Invariance, PTL

\* Between two calls the inner hash has taken in the inner pad and the text,
\* however the text was cut.
THEOREM StreamIsExact ==
  ASSUME ~MayRekey
  PROVE  Spec => []StreamExact
<1>1. IInv => StreamExact
  BY DEF IInv
<1>2. QED
  BY <1>1, Invariance, PTL

\* Every result of getHashHmac is the HMAC of RFC 2104 of key and text.
THEOREM MacIsCorrect ==
  ASSUME ~MayRekey
  PROVE  Spec => []MacCorrect
<1>1. IInv => MacCorrect
  BY DEF IInv
<1>2. QED
  BY <1>1, Invariance, PTL
==============================================================================
