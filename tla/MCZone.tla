------------------------------- MODULE MCZone -------------------------------
(* Zone over a small zone of pages.                                        *)
EXTENDS Zone

MCSize == [o \in 0 .. MaxOrder |-> 2^o]
=============================================================================
