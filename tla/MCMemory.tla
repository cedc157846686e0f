------------------------------ MODULE MCMemory ------------------------------
(* Memory over a few layouts of the memory nodes, with one reserved range  *)
(* and the bootstrap code's range at chosen points, and a heap inside the  *)
(* latter.                                                                 *)
EXTENDS Memory

CONSTANTS
  ReservedPoints,       \* where the reserved range begins and ends
  BootPoints            \* where the bootstrap code's range begins and ends

MCSize == [o \in 0 .. MaxOrder |-> 2^o]

RangesAt(points) == {r \in points \X points : r[1] < r[2]}

(* One node; two out of order with a gap inside a page; two neighbours.    *)
MCNodes == {<<<<0, 40>>>>, <<<<19, 46>>, <<0, 18>>>>, <<<<3, 17>>, <<17, 42>>>>}

MCReserved == {<<>>} \cup {<<r>> : r \in RangesAt(ReservedPoints)}

MCInputs ==
  UNION {[nodes : MCNodes, reserved : MCReserved, boot : {<<b>>},
          heap : {<<0, 0>>, b, <<b[1] + 1, b[2]>>}] : b \in RangesAt(BootPoints)}
=============================================================================
