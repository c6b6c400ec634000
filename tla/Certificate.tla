---------------------------- MODULE Certificate ----------------------------
(***************************************************************************)
(* The walk of certX509::calculatePublicKeyInfoHash over a certificate     *)
(* (library/credentials/src/certX509.cpp).                                 *)
(*                                                                         *)
(* A certificate is the choice of its optional fields; its other fields    *)
(* are short and all different, so that bytes tell which field they are.   *)
(***************************************************************************)
EXTENDS Asn1Types, Sequences, SequencesExt

VARIABLES cert, blob, mLine, mLoopAddr, mBlobs, found, walk

\* version, uid1 and uid2 say whether a field is there; exts is << >> or the
\* extensions, in <<e>>, each TRUE when it has its "critical"; octets is how
\* many octets hold the length of tbsCertificate; tail is what follows the
\* certificate; damage is <<what, row>>.
Cert(version, uid1, uid2, exts, octets, tail, damage) ==
  [version |-> version, uid1 |-> uid1, uid2 |-> uid2, exts |-> exts,
   octets |-> octets, tail |-> tail, damage |-> damage]

INSTANCE Asn1Parser WITH Objects <- certObjects

SubjectPublicKeyInfo == 11
-----------------------------------------------------------------------------
\* DER.  Damage: "tag" makes the object of a row one of another type, "length"
\* says that it is longer than the whole certificate.

Broken(c, what, row, last) == last /\ c.damage = <<what, row>>

TooLong == 127

Length(octets, n) ==
  IF octets = 1 THEN <<n>> ELSE <<127 + octets>> \o [i \in 1..octets - 2 |-> 0] \o <<n>>

\* The object of a row.  Of several extensions the last one is damaged.
Encoded(c, row, type, body, last) ==
  <<IF Broken(c, "tag", row, last) THEN 9 ELSE type>>
    \o Length(IF row = 1 THEN c.octets ELSE 1,
              IF Broken(c, "length", row, last) THEN TooLong ELSE Len(body))
    \o body

\* A field: its encoding, and what the walk should give out for it; nothing
\* from a damaged object on.
Field(der, gives) == [der |-> der, gives |-> gives]
Nothing == Field(<<>>, <<>>)

Break == [id |-> -1]
BreakAt(c, row, last) == IF last /\ c.damage[2] = row THEN <<Break>> ELSE <<>>

Leaf(c, row, type, body, last) ==
  LET der == Encoded(c, row, type, body, last)
      flags == certObjects[row].flags
  IN  Field(der, BreakAt(c, row, last)
                   \o <<[id |-> row, bytes |-> IF "BODY" \in flags THEN body ELSE der]>>)

\* A field made of fields.
Node(c, row, type, fields, last) ==
  LET der == Encoded(c, row, type, FlattenSeq([i \in DOMAIN fields |-> fields[i].der]), last)
      own == IF "OBJ" \in certObjects[row].flags THEN <<[id |-> row, bytes |-> der]>> ELSE <<>>
  IN  Field(der, BreakAt(c, row, last) \o own \o FlattenSeq([i \in DOMAIN fields |-> fields[i].gives]))

Extension(c, i) ==
  LET last == i = Len(c.exts[1])
  IN  Node(c, 18, SEQUENCE,
           <<Leaf(c, 19, OID, <<100 + i>>, last),
             IF c.exts[1][i] THEN Leaf(c, 20, BOOL, <<255>>, last) ELSE Nothing,
             Leaf(c, 21, OCTET_STRING, <<200 + i, 1>>, last)>>, last)

\* An identifier is skipped: no row of the table gives it out.
Identifier(c, row, n) ==
  Field(Encoded(c, row, CONTEXT(n), <<20 + n>>, TRUE), BreakAt(c, row, TRUE))

TbsCertificate(c) ==
  Node(c, 1, SEQUENCE,
    <<IF c.version THEN Node(c, 2, CONTEXT(0), <<Leaf(c, 3, INTEGER, <<2>>, TRUE)>>, TRUE)
                   ELSE Nothing,
      Leaf(c, 4, INTEGER, <<11>>, TRUE), Leaf(c, 5, SEQUENCE, <<12>>, TRUE),
      Leaf(c, 6, SEQUENCE, <<13>>, TRUE),
      Node(c, 7, SEQUENCE, <<Leaf(c, 8, 23, <<14>>, TRUE), Leaf(c, 9, 23, <<15>>, TRUE)>>, TRUE),
      Leaf(c, 10, SEQUENCE, <<16>>, TRUE), Leaf(c, 11, SEQUENCE, <<17>>, TRUE),
      IF c.uid1 THEN Identifier(c, 12, 1) ELSE Nothing,
      IF c.uid2 THEN Identifier(c, 14, 2) ELSE Nothing,
      IF c.exts = <<>> THEN Nothing
      ELSE Node(c, 16, CONTEXT(3),
             <<Node(c, 17, SEQUENCE,
                 [i \in DOMAIN c.exts[1] |-> Extension(c, i)], TRUE)>>, TRUE)>>, TRUE)

Whole(c) ==
  Node(c, 0, SEQUENCE,
    <<TbsCertificate(c), Leaf(c, 24, SEQUENCE, <<18>>, TRUE),
      Leaf(c, 25, BIT_STRING, <<0, 19>>, TRUE)>>, TRUE)

Trailer(c) == CASE c.tail = "none" -> <<>> [] c.tail = "newline" -> <<10>>
             [] c.tail = "more" -> <<10, 10>>
-----------------------------------------------------------------------------
walkVars == <<asn1Vars, cert>>

InitWalk(certificates) ==
  /\ cert \in certificates
  /\ InitParser(Whole(cert).der \o Trailer(cert))

WalkNext == iterate /\ UNCHANGED cert

\* What calculatePublicKeyInfoHash passes to the digest: it stops at the key,
\* or with an empty object when iterate ends.
Digested ==
  LET keys == {i \in DOMAIN found : found[i].id = SubjectPublicKeyInfo}
  IN  IF keys = {} THEN <<>> ELSE found[CHOOSE i \in keys : TRUE].bytes
-----------------------------------------------------------------------------
\* What the walk should give out.
Fields(c) == Whole(c).gives
Undamaged(c) == Break \notin ToSet(Fields(c))
UpToDamage(c) == LET f == Fields(c)
                 IN  IF Undamaged(c) THEN f ELSE SubSeq(f, 1, SelectInSeq(f, LAMBDA x : x = Break) - 1)

\* Whatever optional fields a certificate has, the walk gives out its fields in
\* their order and ends at the last row, having hashed the key; a certificate
\* that is damaged gives out what comes before the damage and no more.  As a
\* file it is taken for DER with nothing or a newline behind it.
WalkDeliversFields ==
  /\ IsPrefix(found, UpToDamage(cert))
  /\ walk = "exit" => Undamaged(cert)
  /\ walk # "on" => found = UpToDamage(cert)
  /\ walk = "exit" => Digested = Leaf(cert, SubjectPublicKeyInfo, SEQUENCE, <<17>>, TRUE).der
  /\ mLine = -1 => (IsAsn1Encode(blob) <=>
                       cert.tail # "more" /\ cert.damage \notin {<<"tag", 0>>, <<"length", 0>>})
=============================================================================
