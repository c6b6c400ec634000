------------------------------ MODULE HashHmac ------------------------------
(***************************************************************************)
(* HMAC over the hash classes: HashHmac                                    *)
(* (algorithms/hash/src/hashHmac.cpp).  The pads are the inner and the     *)
(* outer key; getHashHmac takes the text in pieces and ends it when it is  *)
(* given a place for the result.                                           *)
(***************************************************************************)
EXTENDS HashContext

CONSTANTS
  Algorithms,  \* the types setHashType knows
  NULL,        \* no hash, no key, no result
  PadLen,      \* bytes of mIpad and mOpad, 128
  HashKeys,    \* keys callers use
  Inputs,      \* pieces of text callers pass
  MaxText,     \* bound: bytes of a text
  MayRekey     \* whether callers set the key of an object again

ASSUME AlgorithmAssumption ==
  \A a \in Algorithms : IsAlgorithm(a) /\ a.block <= PadLen
ASSUME HmacAssumption ==
  /\ PadLen \in Nat /\ MaxText \in Nat
  /\ NULL \notin Algorithms /\ NULL \notin HashKeys
  /\ \A bytes \in HashKeys \cup Inputs : IsSeq(bytes)
  /\ MayRekey \in BOOLEAN

VARIABLES
  mpHash,     \* the type of the hash object, NULL if there is none
  ctx,        \* its members
  mBlockLen,
  mIpad, mOpad,
  key, text,  \* what the caller means: the key, and the text so far
  keyed,      \* the pads are no longer as the constructor left them
  out         \* what getHashHmac wrote last, and for which key and text

vars == <<mpHash, ctx, mBlockLen, mIpad, mOpad, key, text, keyed, out>>

IPAD == 54  \* 0x36
OPAD == 92  \* 0x5C

\* Exclusive or with the same constant twice is nothing.
Xor(c, b) ==
  IF b[1] = "xor" /\ b[2] = c THEN b[3] ELSE <<"xor", c, b>>

\* The loop over the first mBlockLen bytes of a pad.
XorPad(c, pad, n) ==
  [i \in 1..Len(pad) |-> IF i <= n THEN Xor(c, pad[i]) ELSE pad[i]]

Front(pad) == SubSeq(pad, 1, mBlockLen)
-----------------------------------------------------------------------------
Init ==
  /\ mpHash = NULL /\ ctx = NULL /\ mBlockLen = 0
  /\ mIpad = Zeros(PadLen) /\ mOpad = Zeros(PadLen)
  /\ key = NULL /\ text = <<>> /\ keyed = FALSE /\ out = NULL

\* The object is deleted and another one made.
Renew ==
  /\ mpHash' = NULL /\ ctx' = NULL /\ mBlockLen' = 0
  /\ mIpad' = Zeros(PadLen) /\ mOpad' = Zeros(PadLen)
  /\ key' = NULL /\ text' = <<>> /\ keyed' = FALSE /\ out' = NULL

\* An unknown type leaves mBlockLen; the pads stay in any case.
setHashType(type) ==
  /\ mpHash' = type
  /\ ctx' = IF type = NULL THEN NULL ELSE NewHash(type)
  /\ mBlockLen' = IF type = NULL THEN mBlockLen ELSE type.block
  /\ key' = NULL /\ text' = <<>> /\ out' = NULL
  /\ UNCHANGED <<mIpad, mOpad, keyed>>

\* A key longer than a block is hashed first; the pads are not cleared.
setHashKey(k) ==
  /\ mpHash # NULL /\ (MayRekey \/ ~keyed)
  /\ LET long   == Len(k) > mBlockLen
         hashed == calcDigest(mpHash, initHash(ctx), k)
         c1     == IF long THEN hashed.ctx ELSE ctx
         pad    == Overwrite(mIpad, IF long THEN hashed.digest ELSE k)
         opad   == IF long THEN pad ELSE Overwrite(mOpad, k)
         ipad   == XorPad(IPAD, pad, mBlockLen)
     IN  /\ mIpad' = ipad
         /\ mOpad' = XorPad(OPAD, opad, mBlockLen)
         /\ ctx' = calcHash(mpHash, initHash(c1), Front(ipad))
  /\ key' = k /\ text' = <<>> /\ keyed' = TRUE /\ out' = NULL
  /\ UNCHANGED <<mpHash, mBlockLen>>

\* getHashHmac wants a key.  With output.ptr NULL the input is appended.
HasKey == mpHash # NULL /\ key # NULL

AppendText(input) ==
  /\ HasKey /\ Len(text) + Len(input) <= MaxText
  /\ ctx' = calcHash(mpHash, ctx, input)
  /\ text' = text \o input
  /\ out' = NULL
  /\ UNCHANGED <<mpHash, mBlockLen, mIpad, mOpad, key, keyed>>

\* A result longer than the digest is asked for: nothing happens.
RefuseLength(input, outLen) ==
  /\ HasKey /\ outLen > mpHash.size
  /\ out' = NULL
  /\ UNCHANGED <<mpHash, ctx, mBlockLen, mIpad, mOpad, key, text, keyed>>

\* The inner hash is completed, the outer one done, the next inner one begun.
CompleteHmac(input, outLen) ==
  /\ HasKey /\ outLen <= mpHash.size /\ Len(text) + Len(input) <= MaxText
  /\ LET inner == calcDigest(mpHash, ctx, input)
         begun == calcHash(mpHash, inner.ctx, Front(mOpad))
         outer == calcDigest(mpHash, begun, inner.digest)
         len   == IF outLen = 0 THEN mpHash.size ELSE outLen
     IN  /\ out' = [type |-> mpHash, key |-> key, text |-> text \o input,
                    mac |-> SubSeq(outer.digest, 1, len), len |-> len]
         /\ ctx' = calcHash(mpHash, initHash(outer.ctx), Front(mIpad))
  /\ text' = <<>>
  /\ UNCHANGED <<mpHash, mBlockLen, mIpad, mOpad, key, keyed>>

Next ==
  \/ Renew
  \/ \E type \in Algorithms \cup {NULL} : setHashType(type)
  \/ \E k \in HashKeys : setHashKey(k)
  \/ \E input \in Inputs :
       \/ AppendText(input)
       \/ \E outLen \in 0..(PadLen + 1) :
            RefuseLength(input, outLen) \/ CompleteHmac(input, outLen)

Spec == Init /\ [][Next]_vars
-----------------------------------------------------------------------------
(* Properties. *)

\* RFC 2104: "append zeros to the end of K to create a B byte string".
BlockKey(a, k) ==
  LET short == IF Len(k) > a.block THEN Digest(a, k) ELSE k
  IN  short \o Zeros(a.block - Len(short))

KeyPad(a, k, c) == [i \in 1..a.block |-> Xor(c, BlockKey(a, k)[i])]

\* H(K XOR opad, H(K XOR ipad, text))
Hmac(a, k, t) ==
  Digest(a, KeyPad(a, k, OPAD) \o Digest(a, KeyPad(a, k, IPAD) \o t))

\* The members of the hash object keep their sizes; the buffer does not
\* overflow and the states are whole blocks.
TypeOK ==
  /\ mpHash \in Algorithms \cup {NULL}
  /\ mpHash # NULL =>
       /\ mBlockLen = mpHash.block
       /\ Len(ctx.buffer) = mpHash.block
       /\ Len(ctx.state) % mpHash.block = 0
       /\ ctx.low \in 0..(mpHash.word - 1) /\ ctx.high \in 0..(mpHash.word - 1)
  /\ Len(mIpad) = PadLen /\ Len(mOpad) = PadLen
  /\ keyed \in BOOLEAN

\* The inner hash has taken in the inner pad and the text of the caller, in
\* whatever pieces it came, and nothing a former computation left behind.
StreamExact ==
  HasKey => HasTaken(mpHash, ctx, KeyPad(mpHash, key, IPAD) \o text)

\* What getHashHmac writes is the HMAC of the key and of the text, cut to the
\* length that was asked for: H(K XOR opad, H(K XOR ipad, text)), where "(1)
\* append zeros to the end of K to create a B byte string".
MacCorrect ==
  out # NULL => out.mac = SubSeq(Hmac(out.type, out.key, out.text), 1, out.len)
=============================================================================
