-------------------------- MODULE MCChangePackets --------------------------
(* Small instances of ChangePackets for TLC. *)
EXTENDS ChangePackets, TLC

CONSTANTS r1, r2, a1, a2, b1, srcA, srcB, none

MCUnowned == {<<srcB, 0>>}
=============================================================================
