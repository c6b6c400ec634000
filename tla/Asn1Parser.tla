----------------------------- MODULE Asn1Parser -----------------------------
(***************************************************************************)
(* asn1Parser (library/encoder/src/asn1Parser.cpp): a walk over DER guided *)
(* by a table of rows.  No table of the program has a CHOICE, whose        *)
(* branches are left out; mImplicit is never set.                          *)
(*                                                                         *)
(* A chunk is an offset into the blob and a length.                        *)
(***************************************************************************)
EXTENDS Integers, Sequences, SequencesExt
LOCAL INSTANCE Asn1Types

CONSTANT Objects  \* mpObjects: from row 0 on, [level, type, flags]

VARIABLES
  blob,       \* the blob of this parser
  mLine,      \* the row iterate was at, -1 before the first
  mLoopAddr,  \* for each level the row to which a loop goes back, or 0
  mBlobs,     \* for each level what is left to parse
  found,      \* the objects iterate gave out: row and bytes
  walk        \* "on", "exit" or "failed"

asn1Vars == <<blob, mLine, mLoopAddr, mBlobs, found, walk>>

Chunk(ptr, len) == [ptr |-> ptr, len |-> len]
BytesOf(c) == SubSeq(blob, c.ptr, c.ptr + c.len - 1)
Invalid == Chunk(0, -1)

InitParser(bytes) ==
  /\ blob = bytes
  /\ mLine = -1
  /\ mLoopAddr = [level \in 0..10 |-> 0]
  /\ mBlobs = [level \in 0..11 |-> IF level = 0 THEN Chunk(1, Len(blob)) ELSE Chunk(0, 0)]
  /\ found = <<>>
  /\ walk = "on"
-----------------------------------------------------------------------------
\* The octets of a composite length.
Longer(len, octet) == 256 * len + octet
LengthOf(octets) == FoldLeft(Longer, 0, octets)

\* asn1Length: the contents of the object at the front of c, and its length.
\* len is a signed integer of four octets, compared as an unsigned one.
Contents(bytes, c) ==
  LET n == bytes[c.ptr + 1]
      octets == IF n < 128 THEN 0 ELSE n - 128
      start == c.ptr + 2 + octets
      left == c.len - 2 - octets
      len == IF n < 128 THEN n ELSE LengthOf(SubSeq(bytes, c.ptr + 2, c.ptr + 1 + octets))
  IN  IF c.len < 2 \/ n = 128 \/ left < 0 \/ octets > 4 THEN Invalid
      ELSE IF len > left THEN Invalid
      ELSE Chunk(start, len)

\* The blob is one object, of which a file may have a newline more.
IsAsn1Encode(bytes) ==
  LET c == Contents(bytes, Chunk(1, Len(bytes)))
  IN  /\ bytes # <<>>
      /\ bytes[1] \in {SEQUENCE, SET, OCTET_STRING}
      /\ c # Invalid
      /\ \/ c.ptr + c.len = Len(bytes) + 1
         \/ c.ptr + c.len = Len(bytes) /\ bytes[Len(bytes)] = 10
-----------------------------------------------------------------------------
Is(row, flag) == flag \in Objects[row].flags
Level(row) == Objects[row].level
IsConstructed(row) == CONSTRUCTED(Objects[row].type)

\* The row that ends the option or the loop of a row.
EndOf(row) ==
  Min({r \in DOMAIN Objects : r > row /\ Is(r, "END") /\ Level(r) = Level(row)})

\* Seeded bug: it is asked whether the loop itself has more behind it.
LoopsAgain_OwnLevel(row) ==
  /\ Is(row, "END")
  /\ mLoopAddr[Level(row)] # 0
  /\ mBlobs[Level(row)].len > 0

LoopsAgain(row) ==
  /\ Is(row, "END")
  /\ mLoopAddr[Level(row)] # 0
  /\ mBlobs[Level(row) + 1].len > 0

\* The row iterate works on: the next one, or the first of a loop.
Current == LET next == mLine + 1
           IN  IF LoopsAgain(next) THEN mLoopAddr[Level(next)] ELSE next

Rest == mBlobs[Level(Current)]

\* The field of the row is not what comes next.
IsMissing(row) == Rest.len > 0 => blob[Rest.ptr] # Objects[row].type

Walking == walk = "on"

\* Nothing is given out; the walk goes on behind row.
GoOn(row) ==
  /\ mLine' = row
  /\ UNCHANGED <<blob, found, walk>>

Exit ==
  /\ Walking /\ Is(Current, "EXIT")
  /\ mLine' = Current
  /\ walk' = "exit"
  /\ UNCHANGED <<blob, mLoopAddr, mBlobs, found>>

End ==
  /\ Walking /\ Is(Current, "END")
  /\ mLoopAddr' = [mLoopAddr EXCEPT ![Level(Current)] = 0]
  /\ GoOn(Current)
  /\ UNCHANGED mBlobs

\* A default that is missing; with a tag of its own it has a second row.
Default ==
  /\ Walking /\ Is(Current, "DEF") /\ IsMissing(Current)
  /\ GoOn(IF IsConstructed(Current) THEN Current + 1 ELSE Current)
  /\ UNCHANGED <<mLoopAddr, mBlobs>>

Option ==
  /\ Walking /\ Is(Current, "OPT") /\ IsMissing(Current)
  /\ GoOn(EndOf(Current))
  /\ UNCHANGED <<mLoopAddr, mBlobs>>

Object ==
  LET row == Current
      level == Level(row)
      body == Contents(blob, Rest)
      whole == Chunk(Rest.ptr, body.ptr + body.len - Rest.ptr)
      behind == Chunk(body.ptr + body.len, Rest.ptr + Rest.len - body.ptr - body.len)
      raw == Is(row, "RAW")
      out == IF raw \/ Is(row, "OBJ") THEN <<[id |-> row, bytes |-> BytesOf(whole)]>>
             ELSE IF Is(row, "BODY") THEN <<[id |-> row, bytes |-> BytesOf(body)]>>
             ELSE <<>>
  IN  /\ Walking
      /\ ~Is(row, "EXIT") /\ ~Is(row, "END")
      /\ (Is(row, "DEF") \/ Is(row, "OPT")) => ~IsMissing(row)
      /\ \/ /\ body = Invalid
            /\ walk' = "failed" /\ mLine' = row
            /\ UNCHANGED <<blob, mLoopAddr, mBlobs, found>>
         \/ /\ body # Invalid
            /\ mBlobs' = [mBlobs EXCEPT ![level] = behind, ![level + 1] = body]
            /\ \/ /\ ~raw /\ blob[Rest.ptr] # Objects[row].type
                  /\ walk' = "failed" /\ mLine' = row
                  /\ UNCHANGED <<blob, mLoopAddr, found>>
               \/ /\ raw \/ blob[Rest.ptr] = Objects[row].type
                  /\ mLoopAddr' = IF ~raw /\ Is(row, "LOOP") /\ body.len > 0
                                  THEN [mLoopAddr EXCEPT ![level] = row + 1] ELSE mLoopAddr
                  /\ mLine' = IF ~raw /\ Is(row, "LOOP") /\ body.len = 0
                              THEN EndOf(row) ELSE row
                  /\ found' = found \o out
                  /\ UNCHANGED <<blob, walk>>

iterate == Exit \/ End \/ Default \/ Option \/ Object

Asn1Spec(bytes) == InitParser(bytes) /\ [][iterate]_asn1Vars
=============================================================================
