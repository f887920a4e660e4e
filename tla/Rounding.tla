------------------------------ MODULE Rounding ------------------------------
(* The one rounding helper all quote models share. *)
EXTENDS Integers

\* div_up, div_ceil: the quotient rounded up
CeilDiv(a, b) == (a + b - 1) \div b
=============================================================================
