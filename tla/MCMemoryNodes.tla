---------------------------- MODULE MCMemoryNodes ----------------------------
(* MemoryNodes over headers that put the blocks inside and outside the     *)
(* blob, a few reserved memory blocks (one ends early, one has half a      *)
(* terminator, one has entries without address or size), and every tree    *)
(* with up to two children and small cells.                                *)
EXTENDS MemoryNodes

CONSTANTS Totals, MaxBytes, MaxCells

Bodies == {<<>>, <<0, 1, 0, 1, 0, 0, 0, 0>>, <<0, 1, 0, 0, 0, 0>>,
           <<0, 0, 0, 1, 0, 1, 0, 0, 0, 0, 0, 0>>}

(* Where a block begins and its size, in cells; the blobs have 10 to 22.   *)
Places == {<<10, 0>>, <<10, 9>>, <<23, 0>>}

MCBlobs ==
  {<<1, 0, 0>>} \cup
  {<<m, total, structs[1], 10, rsv, 1, v, 0, nstrings, structs[2]>> \o body :
     m \in {1, 2}, v \in {0, 2}, total \in Totals, rsv \in {10, 14, 23},
     structs \in Places, nstrings \in {4, 13}, body \in Bodies}

Children == [memory : BOOLEAN, reg : {NoReg} \cup 0 .. MaxBytes]
MCTrees ==
  [children : UNION {[1 .. n -> Children] : n \in 0 .. 2},
   cells : (0 .. MaxCells) \X (0 .. MaxCells)]
=============================================================================
