------------------------------- MODULE MCPL011 -------------------------------
(* PL011 with the clock and the rate of the kernel and a few messages.     *)
EXTENDS PL011

MCMessages == {<<>>, <<"\n">>, <<"x", "x", "x">>, <<"x", "\n">>, <<"\n", "x", "\n">>}
MCLeftovers == {<<>>, <<"x">>, <<"x", "\n">>}
=============================================================================
