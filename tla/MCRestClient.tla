----------------------------- MODULE MCRestClient -----------------------------
(* Small instances of RestClient for TLC. *)
EXTENDS RestClient
CONSTANTS c1, c2
CallSymmetry == Permutations(Calls)
=============================================================================
