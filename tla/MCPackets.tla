----------------------------- MODULE MCPackets -----------------------------
(* Instances of Packets for TLC. *)
EXTENDS Packets, TLC

CONSTANTS c1, c2, s1, s2

Symmetry == Permutations(Cmds)
=============================================================================
