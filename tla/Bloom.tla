------------------------------- MODULE Bloom -------------------------------
(* The bloom filter of a block's messages (bloom.go).  A message or a needle *)
(* is a sequence of bytes.  Hashing is a constant: nothing may depend on     *)
(* which bits a trigram gets, only on a trigram always getting the same.     *)
EXTENDS Integers, FiniteSets, Sequences

CONSTANT BitOf(_, _, _)   \* bit of a trigram for the i-th hash, of n bits

BloomHashes == 6
BloomBitsPerTrigram == 16

ByteTrigrams(s) == {<<s[i], s[i + 1], s[i + 2]>> : i \in 1..Len(s) - 2}

MsgTrigrams(msgs) == UNION {ByteTrigrams(msgs[j]) : j \in DOMAIN msgs}

(* newBloomFilter: whole words of 64 bits, for the trigrams of all messages, *)
(* repeated ones included.                                                   *)
NBits(msgs) ==
    LET count == Cardinality(UNION {{j} \X (1..Len(msgs[j]) - 2) : j \in DOMAIN msgs})
        nBits == BloomBitsPerTrigram * (IF count < 1 THEN 1 ELSE count)
    IN  64 * ((nBits + 63) \div 64)

(* buildMsgBloom.                                                            *)
MsgBloom(msgs) ==
    LET n == NBits(msgs) IN
    [nBits |-> n,
     bits  |-> {BitOf(tg, i, n) : tg \in MsgTrigrams(msgs), i \in 0..BloomHashes - 1}]

MightContain(bf, tg) ==
    \A i \in 0..BloomHashes - 1 : BitOf(tg, i, bf.nBits) \in bf.bits

(* A needle of fewer than three bytes has no trigram: never rejected.        *)
MightContainSubstring(bf, needle) ==
    \A tg \in ByteTrigrams(needle) : MightContain(bf, tg)

(* strings.Contains.                                                         *)
ContainsNeedle(msg, needle) ==
    \E k \in 0..Len(msg) - Len(needle) :
        \A i \in 1..Len(needle) : msg[k + i] = needle[i]
=============================================================================
