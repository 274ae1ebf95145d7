------------------------------ MODULE MCPairing ------------------------------
(* Small instances of Pairing: one machine, one or two accounts. *)
EXTENDS Pairing, TLC

CONSTANTS ann, bea

Alike == Permutations(Users)
=============================================================================
