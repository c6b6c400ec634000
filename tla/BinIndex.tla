------------------------------ MODULE BinIndex ------------------------------
(***************************************************************************)
(* The four versions of mxHashTable::findBinIndex                          *)
(* (platform/common/src/mxHashTable.cpp): what is hashed, in the width of  *)
(* the machine, and how it is reduced to the index of a bin.               *)
(***************************************************************************)
EXTENDS Integers, Sequences, SequencesExt

CONSTANTS
  IntSize,     \* number of values of an int, 2^32
  HighUnit,    \* the weight of bit 24
  mBinNumber

HASH_STR_CONSTANT == 31

ASSUME BinAssumption == mBinNumber \in Nat \ {0}
ASSUME IntAssumption == IntSize \in Nat \ {0} /\ HighUnit \in Nat \ {0}

Bins == 0..(mBinNumber - 1)

\* Conversion to s32_t.
ToInt(n) == ((n + IntSize \div 2) % IntSize) - IntSize \div 2

\* INT32Type, INT64Type, MainCCType and PointerType, and StringType, whose
\* sum is unsigned.
IntHash(key) == key
PairHash(key1, key2) == ToInt(key1 + key2)
CCHash(key) == ToInt(4 * key + ((key \div HighUnit) % 4))
StringHash(chars) ==
  LET Step(sum, c) == (HASH_STR_CONSTANT * sum + c) % IntSize
  IN  FoldLeft(Step, 0, chars)

\* The operator % of C takes the sign of its left operand.
CRem(a, n) == IF a >= 0 THEN a % n ELSE 0 - ((-a) % n)

\* The remainder, made non-negative.
Reduced(hash) ==
  LET val == CRem(hash, mBinNumber)
  IN  IF val < 0 THEN val + mBinNumber ELSE val

\* The other branch: for a power of two the low bits of the two's complement
\* are masked.
Masked(hash) == hash % mBinNumber
=============================================================================
