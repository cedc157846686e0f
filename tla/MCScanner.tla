------------------------------ MODULE MCScanner ------------------------------
(* Scanner over every byte string up to a length.                          *)
EXTENDS Scanner

CONSTANT MaxLength        \* the longest data

MCDatas == UNION {[1 .. n -> Bytes] : n \in 0 .. MaxLength}
=============================================================================
