----------------------------- MODULE Asn1Types -----------------------------
(* The tags of asn1Parser.h, the rows of its tables, and that of certX509. *)
EXTENDS Integers

BOOL == 1
INTEGER == 2
BIT_STRING == 3
OCTET_STRING == 4
OID == 6
SEQUENCE == 48
SET == 49
CONTEXT(n) == 160 + n

CONSTRUCTED(type) == (type \div 32) % 2 = 1

\* Flags is a set of "DEF", "OPT", "LOOP", "END", "OBJ", "BODY", "RAW", "EXIT".
Row(level, type, flags) == [level |-> level, type |-> type, flags |-> flags]

\* The table of an X.509 certificate.
certObjects ==
  LET rows == <<
    Row(0, SEQUENCE, {"OBJ"}), Row(1, SEQUENCE, {"OBJ"}),
    Row(2, CONTEXT(0), {"DEF"}), Row(3, INTEGER, {"BODY"}),
    Row(2, INTEGER, {"BODY"}), Row(2, 0, {"RAW"}), Row(2, SEQUENCE, {"OBJ"}),
    Row(2, SEQUENCE, {}), Row(3, 0, {"RAW"}), Row(3, 0, {"RAW"}),
    Row(2, SEQUENCE, {"OBJ"}), Row(2, SEQUENCE, {"RAW"}),
    Row(2, CONTEXT(1), {"OPT"}), Row(2, 0, {"END"}),
    Row(2, CONTEXT(2), {"OPT"}), Row(2, 0, {"END"}),
    Row(2, CONTEXT(3), {"OPT"}), Row(3, SEQUENCE, {"LOOP"}), Row(4, SEQUENCE, {}),
    Row(5, OID, {"BODY"}), Row(5, BOOL, {"DEF", "BODY"}), Row(5, OCTET_STRING, {"BODY"}),
    Row(3, 0, {"END"}), Row(2, 0, {"END"}),
    Row(1, 0, {"RAW"}), Row(1, BIT_STRING, {"BODY"}), Row(0, 0, {"EXIT"})>>
  IN  [r \in 0..26 |-> rows[r + 1]]
=============================================================================
