--------------------------- MODULE MCBuddySystem ----------------------------
(* BuddySystem over a small zone of pages, and the arithmetic of words of  *)
(* 2^3 bits that it relies on.                                             *)
EXTENDS BuddySystem

MCSize == [l \in 0 .. MaxOrder |-> 2^l]

N == INSTANCE Numeric WITH Halvings <- 3

(* lsb and msb find the lowest and the highest bit of every word.          *)
ASSUME BitsFound ==
  /\ \A x \in 1 .. N!Word - 1 :
       /\ x % 2^(N!Lsb(x) - 1) = 0 /\ x % 2^N!Lsb(x) # 0
       /\ 2^N!Ilog2(x) <= x /\ x < 2^N!Msb(x)
  /\ N!Msb(0) = 0 /\ \A x \in 0 .. N!Word - 1 : N!Lsb(x) <= N!Lsb(0)

(* The order computed for a range of pages is the largest one whose block  *)
(* lies in the range and is aligned.                                       *)
FitsIn(l, index, end) == index % 2^l = 0 /\ index + 2^l <= end

ASSUME OrderIsLargestFit ==
  \A levels \in 1 .. 5, end \in 1 .. 40 : \A index \in 0 .. end - 1 :
    LET order == N!Order(index, end, levels)
    IN  /\ order \in 0 .. levels - 1 /\ FitsIn(order, index, end)
        /\ \A l \in order + 1 .. levels - 1 : ~ FitsIn(l, index, end)
=============================================================================
