----------------------------- MODULE MCArithmetic ----------------------------
(***************************************************************************)
(* Every pair of operands of small signed and unsigned integers.  The kinds *)
(* of the language are 8, 32 and 64 bits wide; a signed integer of one bit  *)
(* is left out, since there -1 is the least value.                          *)
(***************************************************************************)
EXTENDS Arithmetic

MCKinds == [signed : BOOLEAN, half : {2 ^ 2, 2 ^ 3}]
MCSigned == [signed : {TRUE}, half : {2 ^ 3}]
==============================================================================
