--------------------------- MODULE HashAlgorithms ---------------------------
(***************************************************************************)
(* The six classes of algorithms/hash/src, as algorithms of HashContext.   *)
(***************************************************************************)
EXTENDS HashContext

\* The values of u32_t and of u64_t.
U32 == 65536 * 65536
U64 == U32 * U32

HashMd5    == [block |-> 64, wordLen |-> 4, word |-> U32, lowFirst |-> TRUE, size |-> 16]
HashSha1   == [block |-> 64, wordLen |-> 4, word |-> U32, lowFirst |-> FALSE, size |-> 20]
HashSha224 == [block |-> 64, wordLen |-> 4, word |-> U32, lowFirst |-> FALSE, size |-> 28]
HashSha256 == [block |-> 64, wordLen |-> 4, word |-> U32, lowFirst |-> FALSE, size |-> 32]
HashSha384 == [block |-> 128, wordLen |-> 8, word |-> U64, lowFirst |-> FALSE, size |-> 48]
HashSha512 == [block |-> 128, wordLen |-> 8, word |-> U64, lowFirst |-> FALSE, size |-> 64]

\* The types HashHmac::setHashType knows.
HashTypes == {HashMd5, HashSha1, HashSha224, HashSha256, HashSha384, HashSha512}
=============================================================================
