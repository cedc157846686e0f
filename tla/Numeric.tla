------------------------------- MODULE Numeric -------------------------------
(***************************************************************************)
(* The searches for bits of kernel/numeric/src/lib.rs, and the order that  *)
(* Zone::free_page_range computes with them.                               *)
(***************************************************************************)
EXTENDS Integers, Sequences, SequencesExt

CONSTANT Halvings     \* a word has 2^Halvings bits; 6 in the code

Bits == 2^Halvings
Word == 2^Bits

(* 32, 16, 8, 4, 2, 1 for 64 bits.                                         *)
Halves == [i \in 1 .. Halvings |-> 2^(Halvings - i)]

(* Larger than the number of any bit: u32::MAX.                            *)
NoBit == 2^Bits

(* lsb counts the bits from one, and shifts out the ones that are zero.    *)
LsbStep(s, half) ==
  IF s.x % 2^half = 0 THEN [x |-> s.x \div 2^half, r |-> s.r + half] ELSE s

Lsb(x) == IF x = 0 THEN NoBit ELSE FoldLeft(LsbStep, [x |-> x, r |-> 1], Halves).r

(* msb counts down from the highest one.                                   *)
MsbStep(s, half) ==
  IF s.x \div 2^(Bits - half) = 0
  THEN [x |-> (s.x * 2^half) % Word, r |-> s.r - half] ELSE s

Msb(x) == IF x = 0 THEN 0 ELSE FoldLeft(MsbStep, [x |-> x, r |-> Bits], Halves).r

Ilog2(x) == Msb(x) - 1

LeastOf(S) == CHOOSE x \in S : \A y \in S : x <= y

(* The order of the block that begins at index, of a range that ends at    *)
(* end, for that many levels.                                              *)
Order(index, end, levels) ==
  LeastOf({levels - 1, Ilog2(end - index), Lsb(index) - 1})
=============================================================================
