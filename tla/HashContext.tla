---------------------------- MODULE HashContext ----------------------------
(***************************************************************************)
(* What the six classes of algorithms/hash/src have in common: a message   *)
(* comes in pieces, is collected in a block buffer and goes through the    *)
(* compression function block by block.  An algorithm is a record:         *)
(*   block     bytes of a block                                            *)
(*   wordLen   bytes of a word of mCount                                   *)
(*   word      values of a word of mCount                                  *)
(*   lowFirst  whether words are written low byte, and low word, first     *)
(*   size      bytes of a digest                                           *)
(* The compression function itself is free: a state of the algorithm is    *)
(* the sequence of bytes it has absorbed, and a byte of a digest is known  *)
(* by the state it comes from.                                             *)
(***************************************************************************)
EXTENDS Integers, Sequences

\* A sequence, of whatever.
IsSeq(s) == Len(s) \in Nat /\ s = [i \in 1..Len(s) |-> s[i]]

Byte(n)  == <<"byte", n>>
Zeros(n) == [i \in 1..n |-> Byte(0)]

\* A byte of memory nobody has written.
Garbage == <<"garbage">>

IsAlgorithm(a) ==
  /\ a.block \in Nat \ {0} /\ a.wordLen \in Nat \ {0} /\ a.word \in Nat \ {0}
  /\ a.size \in Nat \ {0} /\ a.lowFirst \in BOOLEAN
  /\ a.size <= a.block
  /\ 2 * a.wordLen < a.block
  /\ a.word % (8 * a.block) = 0

FieldLen(a) == 2 * a.wordLen

\* A new object: the constructor leaves mBuffer as it is.
NewHash(a) == [state |-> <<>>, buffer |-> [i \in 1..a.block |-> Garbage],
               low |-> 0, high |-> 0]

initHash(c) == [c EXCEPT !.state = <<>>, !.low = 0, !.high = 0]

Transform(state, bytes) == state \o bytes

Index(a, c) == (c.low \div 8) % a.block

\* Seeded bug: no carry into the high word.
Counted_NoCarry(a, c, len) ==
  [c EXCEPT !.low  = (c.low + 8 * len) % a.word,
            !.high = (c.high + len \div (a.word \div 8)) % a.word]

\* mCount counts bits; the shift of len loses its upper three.
Counted(a, c, len) ==
  LET added == (8 * len) % a.word
      low   == (c.low + added) % a.word
      carry == IF low < added THEN 1 ELSE 0
  IN  [c EXCEPT !.low  = low,
                !.high = (c.high + carry + len \div (a.word \div 8)) % a.word]

\* The bytes update takes straight from the input: what completes the buffer,
\* and whole blocks.
Whole(a, partLen, len) == partLen + ((len - partLen) \div a.block) * a.block

\* memcpy to the start of an array.
Overwrite(array, bytes) == bytes \o SubSeq(array, Len(bytes) + 1, Len(array))

\* Seeded bug: index is not set back after a block.
updateHash_KeepsIndex(a, c, input) ==
  LET index   == Index(a, c)
      partLen == a.block - index
      i       == Whole(a, partLen, Len(input))
      full    == SubSeq(c.buffer, 1, index) \o SubSeq(input, 1, partLen)
      counted == Counted(a, c, Len(input))
  IN  IF Len(input) >= partLen
      THEN [counted EXCEPT
              !.state  = Transform(c.state, full \o SubSeq(input, partLen + 1, i)),
              !.buffer = SubSeq(full, 1, index)
                           \o Overwrite(SubSeq(full, index + 1, a.block),
                                        SubSeq(input, i + 1, Len(input)))]
      ELSE [counted EXCEPT
              !.buffer = SubSeq(c.buffer, 1, index)
                           \o Overwrite(SubSeq(c.buffer, index + 1, a.block), input)]

\* updateSha1 and its five copies.
updateHash(a, c, input) ==
  LET index   == Index(a, c)
      partLen == a.block - index
      i       == Whole(a, partLen, Len(input))
      full    == SubSeq(c.buffer, 1, index) \o SubSeq(input, 1, partLen)
      counted == Counted(a, c, Len(input))
  IN  IF Len(input) >= partLen
      THEN [counted EXCEPT
              !.state  = Transform(c.state, full \o SubSeq(input, partLen + 1, i)),
              !.buffer = Overwrite(full, SubSeq(input, i + 1, Len(input)))]
      ELSE [counted EXCEPT
              !.buffer = SubSeq(c.buffer, 1, index)
                           \o Overwrite(SubSeq(c.buffer, index + 1, a.block), input)]

\* The bytes of a word of mCount.
WordBytes(a, w) ==
  [j \in 1..a.wordLen |->
     Byte((w \div 256^(IF a.lowFirst THEN j - 1 ELSE a.wordLen - j)) % 256)]

LengthField(a, low, high) ==
  IF a.lowFirst THEN WordBytes(a, low) \o WordBytes(a, high)
                ELSE WordBytes(a, high) \o WordBytes(a, low)

\* The first n bytes of the table of padding.
Padding(n) == [i \in 1..n |-> Byte(IF i = 1 THEN 128 ELSE 0)]

\* Seeded bug: a message that just leaves room for the length gets no padding.
padLen_None(a, index) ==
  LET room == a.block - FieldLen(a)
  IN  IF index <= room THEN room - index ELSE room + a.block - index

\* Pad out to 56 mod 64: one byte at least.
padLen(a, index) ==
  LET room == a.block - FieldLen(a)
  IN  IF index < room THEN room - index ELSE room + a.block - index

\* The padding, and then the length of what came before it.
finalHash(a, c) ==
  updateHash(a, updateHash(a, c, Padding(padLen(a, Index(a, c)))),
             LengthField(a, c.low, c.high))

DigestOf(a, state) == [i \in 1..a.size |-> <<"digest", i, a.block, state>>]

\* calcHash, without and with a place for the digest.
calcHash(a, c, input) == updateHash(a, c, input)

calcDigest(a, c, input) ==
  LET done == finalHash(a, updateHash(a, c, input))
  IN  [digest |-> DigestOf(a, done.state), ctx |-> initHash(done)]
-----------------------------------------------------------------------------
(* What the RFCs say. *)

\* The message with its padding: 1000..., up to the length, up to a block.
Padded(a, message) ==
  LET bits  == 8 * Len(message)
      zeros == (a.block - FieldLen(a) - 1 - Len(message)) % a.block
  IN  message \o Padding(zeros + 1)
        \o LengthField(a, bits % a.word, (bits \div a.word) % a.word)

Digest(a, message) == DigestOf(a, Padded(a, message))

\* The context has taken in the message and nothing else.
HasTaken(a, c, message) ==
  /\ c.low = (8 * Len(message)) % a.word
  /\ c.high = ((8 * Len(message)) \div a.word) % a.word
  /\ c.state \o SubSeq(c.buffer, 1, Len(message) % a.block) = message
  /\ Len(c.state) = Len(message) - (Len(message) % a.block)
=============================================================================
