--------------------------- MODULE MCLocalOrderBook ---------------------------
(* Small instances of LocalOrderBook for TLC. *)
EXTENDS LocalOrderBook, TLC

CONSTANTS b1, b2

BookSymmetry == Permutations(Books)
=============================================================================
