----------------------------- MODULE MCFdtNodes -----------------------------
(* FdtNodes with two values of a property and of a number of cells.        *)
EXTENDS FdtNodes

MCProperties ==
  {<<"reg", 1>>, <<"reg", 2>>, <<"#size-cells", 2>>, <<"#size-cells", 0>>}
=============================================================================
