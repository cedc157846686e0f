------------------------------- MODULE Buddy --------------------------------
(***************************************************************************)
(* Page arithmetic shared by the page allocators: blocks of 2^o pages,     *)
(* named by the absolute number of their first page, and their buddies     *)
(* (memory/memory.h, memory/memory.cc).                                    *)
(***************************************************************************)
EXTENDS Integers, FiniteSets

CONSTANTS
  Offset,     \* number of the first page of the zone
  Pages,      \* how many pages the zone has
  MaxOrder,   \* kMaxOrder: the order of the largest block
  Size        \* Size[o] = 2^o, the pages in a block of order o

Orders == 0 .. MaxOrder

ASSUME ZoneAssumption ==
  /\ Offset \in Nat
  /\ Pages \in Nat
  /\ MaxOrder \in Nat

ASSUME SizeAssumption ==
  /\ Size \in [Orders -> Nat]
  /\ Size[0] = 1
  /\ \A o \in 0 .. MaxOrder - 1 : Size[o + 1] = 2 * Size[o]

(* The pages that have an element in the zone's array of struct Page.      *)
Frames == Offset .. Offset + Pages - 1

Aligned(p, o) == p % Size[o] = 0

(* The pages of the block of order o that starts at p.                     *)
Block(p, o) == p .. p + Size[o] - 1

(* p XOR 2^o: flip bit o of the absolute page number.                      *)
BuddyOffset(p, o) ==
  IF (p \div Size[o]) % 2 = 0 THEN p + Size[o] ELSE p - Size[o]

Lower(p, q) == IF p <= q THEN p ELSE q

(* Of blocks <<p, o>>: aligned and in the zone; without a common page; and *)
(* a page of one that is not its first.                                    *)
Inside(b) ==
  /\ Aligned(b[1], b[2])
  /\ Offset <= b[1]
  /\ b[1] + Size[b[2]] <= Offset + Pages

Apart(b, c) == b[1] + Size[b[2]] <= c[1] \/ c[1] + Size[c[2]] <= b[1]

Within(p, b) == b[1] < p /\ p < b[1] + Size[b[2]]

(* The block is in S and no larger one that contains it is.                *)
Maximal(p, o, S) ==
  /\ Aligned(p, o)
  /\ Block(p, o) \subseteq S
  /\ o < MaxOrder => ~ Block(Lower(p, BuddyOffset(p, o)), o + 1) \subseteq S
=============================================================================
