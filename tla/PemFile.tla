------------------------------ MODULE PemFile ------------------------------
(***************************************************************************)
(* mxLexparser::convertPEM2BIN (platform/common/src/mxLexparser.cpp): a    *)
(* file is read line by line and decoded in place, the lines between the   *)
(* boundaries being base64 text.                                           *)
(*                                                                         *)
(* A line is what the parser asks of it: the boundary it is, whether it    *)
(* has a colon, whether it is empty, and its characters up to the first    *)
(* blank.  The encryption headers are recognised and never used, so their  *)
(* values are left out.                                                    *)
(***************************************************************************)
EXTENDS Integers, Sequences, FiniteSets, SequencesExt

VARIABLES
  file,     \* the lines of the file read
  read,     \* how many of them fetchLine returned
  pemState, \* the state of convertPEM2BIN
  result,   \* the bytes decoded so far
  verdict   \* "reading", or what convertPEM2BIN returned

pemVars == <<file, read, pemState, result, verdict>>

Line(boundary, colon, empty, text) ==
  [boundary |-> boundary, colon |-> colon, empty |-> empty, text |-> text]

\* The lines there are, whatever the characters: an empty one has no colon.
Lines(chars) ==
  {line \in [boundary : {"none", "BEGIN", "END"}, colon : BOOLEAN, empty : BOOLEAN,
             text : Seq(chars)] : line.empty => ~line.colon}

\* findBoundary, and extractKeyValue, which fails for a line without a colon.
IsBoundary(line, tag) == line.boundary = tag
IsHeader(line) == line.colon

InitPem(files) ==
  /\ file \in files
  /\ read = 0
  /\ pemState = "PRE"
  /\ result = <<>>
  /\ verdict = "reading"
-----------------------------------------------------------------------------
(* chunk_from_base64. *)

Digits(text) == SubSeq(text, 1, 4 * (Len(text) \div 4))

\* Three bytes a quad, one less for every '=' as long as there are some.
DecodedLen(digits) ==
  FoldLeftDomain(LAMBDA n, j :
    LET begun == n + (IF j % 4 = 1 THEN 3 ELSE 0)
    IN  IF digits[j] = "=" /\ begun > 0 THEN begun - 1 ELSE begun, 0, digits)

\* A byte is known by its quad and its place in the quad.
Decoded(text) ==
  LET quad(i) == SubSeq(text, 4 * (i \div 3) + 1, 4 * (i \div 3) + 4)
  IN  [i \in 1..DecodedLen(Digits(text)) |-> <<quad(i - 1), (i - 1) % 3>>]
-----------------------------------------------------------------------------
\* Seeded bug: the line that follows the boundary is not analysed again.
Analysed_Once(line, state) ==
  CASE state = "PRE" -> IF IsBoundary(line, "BEGIN") THEN "MSG" ELSE "PRE"
    [] state = "MSG" -> IF line.colon THEN "HEADER" ELSE "BODY"
    [] state = "HEADER" -> IF line.empty THEN "BODY"
                           ELSE IF IsHeader(line) THEN "HEADER" ELSE "FAILED"
    [] state = "BODY" -> IF IsBoundary(line, "END") THEN "POST" ELSE "BODY"
    [] state = "POST" -> "FAILED"

\* analyseDataOfPEM, called again for the same line after MSG.
Analysed(line, state) ==
  LET s == IF state # "MSG" THEN state ELSE IF line.colon THEN "HEADER" ELSE "BODY"
  IN  CASE s = "PRE" -> IF IsBoundary(line, "BEGIN") THEN "MSG" ELSE "PRE"
        [] s = "HEADER" -> IF line.empty THEN "BODY"
                           ELSE IF IsHeader(line) THEN "HEADER" ELSE "FAILED"
        [] s = "BODY" -> IF IsBoundary(line, "END") THEN "POST" ELSE "BODY"
        [] s = "POST" -> "FAILED"

\* A line of the body adds to the result.
IsText(line, state) ==
  /\ state = "BODY" \/ (state = "MSG" /\ ~line.colon)
  /\ ~IsBoundary(line, "END")

ReadLine ==
  LET line == file[read + 1]
      next == Analysed(line, pemState)
  IN  /\ verdict = "reading"
      /\ read < Len(file)
      /\ read' = read + 1
      /\ pemState' = next
      /\ verdict' = IF next = "FAILED" THEN "FAILED" ELSE "reading"
      /\ result' = IF IsText(line, pemState) THEN result \o Decoded(line.text)
                   ELSE result
      /\ UNCHANGED file

EndOfFile ==
  /\ verdict = "reading"
  /\ read = Len(file)
  /\ verdict' = IF pemState = "POST" THEN "SUCCESS" ELSE "FAILED"
  /\ UNCHANGED <<file, read, pemState, result>>

PemNext == ReadLine \/ EndOfFile

PemSpec(files) == InitPem(files) /\ [][PemNext]_pemVars
-----------------------------------------------------------------------------
\* What a PEM file is: anything, the first line that begins a message,
\* headers and an empty line, the text, and an end with nothing behind it.
Boundary(f, i, tag) == IsBoundary(f[i], tag)

IsPem(f, b, t) ==
  /\ Boundary(f, b, "BEGIN") /\ \A i \in 1..b - 1 : ~Boundary(f, i, "BEGIN")
  /\ t \in b + 1..Len(f)
  /\ t = b + 1 => ~f[t].colon
  /\ t > b + 1 => /\ \A i \in b + 1..t - 2 : f[i].colon /\ ~f[i].empty
                  /\ f[t - 1].empty /\ t - 1 > b + 1
  /\ Boundary(f, Len(f), "END")
  /\ \A i \in t..Len(f) - 1 : ~Boundary(f, i, "END")

\* How a text is cut into lines: whole quads, padding on the last line only,
\* and no quad of nothing but padding.
Tidy(text) ==
  \A i \in DOMAIN text :
    /\ Len(text[i]) % 4 = 0
    /\ i < Len(text) => ~Contains(text[i], "=")
    /\ \A q \in 1..Len(text[i]) \div 4 : \E j \in 4 * q - 3..4 * q : text[i][j] # "="

Text(f, t) == [i \in 1..Len(f) - t |-> f[t + i - 1].text]

\* A file is accepted just when it is a PEM file, and then, when its text is
\* tidy, the result is what the text of all lines together stands for.
PemDecoded ==
  LET parts == {p \in (1..Len(file)) \X (1..Len(file)) : IsPem(file, p[1], p[2])}
  IN  /\ verdict = "SUCCESS" => parts # {}
      /\ verdict = "FAILED" => parts = {}
      /\ verdict = "SUCCESS" =>
           \A p \in parts :
             Tidy(Text(file, p[2])) => result = Decoded(FlattenSeq(Text(file, p[2])))
=============================================================================
