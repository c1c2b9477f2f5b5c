------------------------------ MODULE Options -----------------------------
(* Option::None of an empty slot or field.                                 *)

CONSTANT None
===========================================================================
