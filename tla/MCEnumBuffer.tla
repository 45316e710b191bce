---------------------------- MODULE MCEnumBuffer ----------------------------
(***************************************************************************)
(* An instance of EnumBuffer for TLC: an array of one cell that grows      *)
(* twice, to two and to four.                                              *)
(***************************************************************************)
EXTENDS EnumBuffer

CONSTANTS b1, b2, b3, b4

MCBlocks == {b1, b2, b3, b4}
=============================================================================
