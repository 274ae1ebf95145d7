----------------------------- MODULE MCApprovals -----------------------------
(* Small instances of Approvals: one person, two commands, one machine. *)
EXTENDS Approvals, TLC

CONSTANTS c1, c2, pc, t1, t2

OnPc == [c \in Calls |-> pc]

Alike == Permutations(Calls) \union Permutations(Threads)
=============================================================================
