---------------------------- MODULE BloomProofs ----------------------------
(* Proof that the bloom filter of a block never rejects a needle one of the  *)
(* block's messages contains: for all messages, needles and hash functions.  *)
EXTENDS Bloom, TLAPS

(* byteTrigrams: the trigrams of a substring are trigrams of the string,     *)
(* whatever the offset; a needle shorter than three bytes has none.          *)
LEMMA SubstringTrigrams ==
    ASSUME NEW B, NEW msg \in Seq(B), NEW needle \in Seq(B),
           ContainsNeedle(msg, needle)
    PROVE  ByteTrigrams(needle) \subseteq ByteTrigrams(msg)
<1>1. PICK k \in 0..Len(msg) - Len(needle) :
               \A i \in 1..Len(needle) : msg[k + i] = needle[i]
  BY DEF ContainsNeedle
<1>2. SUFFICES ASSUME NEW i \in 1..Len(needle) - 2
               PROVE  <<needle[i], needle[i + 1], needle[i + 2]>> \in ByteTrigrams(msg)
  BY DEF ByteTrigrams
<1>3. /\ Len(msg) \in Nat /\ Len(needle) \in Nat
      /\ i \in 1..Len(needle) /\ i + 1 \in 1..Len(needle) /\ i + 2 \in 1..Len(needle)
      /\ k + i \in 1..Len(msg) - 2
  OBVIOUS
<1>4. /\ needle[i] = msg[k + i]
      /\ needle[i + 1] = msg[(k + i) + 1]
      /\ needle[i + 2] = msg[(k + i) + 2]
  BY <1>1, <1>3
<1>5. QED
  BY <1>3, <1>4 DEF ByteTrigrams

(* mightContain finds the bits of every trigram buildMsgBloom has added.     *)
LEMMA AddedIsFound ==
    ASSUME NEW msgs, NEW tg \in MsgTrigrams(msgs)
    PROVE  MightContain(MsgBloom(msgs), tg)
BY DEF MightContain, MsgBloom

(* bloom.go:21: substrings "can be rejected without false negatives".  A     *)
(* query never skips a block with a matching message, in whichever message   *)
(* of the block and at whichever offset the needle occurs.                   *)
THEOREM NoFalseNegative ==
    ASSUME NEW B, NEW msgs \in Seq(Seq(B)), NEW needle \in Seq(B),
           NEW j \in DOMAIN msgs, ContainsNeedle(msgs[j], needle)
    PROVE  MightContainSubstring(MsgBloom(msgs), needle)
<1>1. msgs[j] \in Seq(B)
  OBVIOUS
<1>2. ByteTrigrams(needle) \subseteq MsgTrigrams(msgs)
  BY <1>1, SubstringTrigrams DEF MsgTrigrams
<1>3. QED
  BY <1>2, AddedIsFound DEF MightContainSubstring
=============================================================================
