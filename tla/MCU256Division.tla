--------------------------- MODULE MCU256Division ---------------------------
(***************************************************************************)
(* Every two integers of four words, of which each is one of WordValues.   *)
(***************************************************************************)
EXTENDS U256Division

CONSTANT WordValues

MCOperands == [Index -> WordValues]
=============================================================================
