---------------------------- MODULE MCActivityGate ----------------------------
(* A small instance of ActivityGate: the sweep ticks twice as often as the *)
(* reconcile.                                                              *)
EXTENDS ActivityGate, TLC

CONSTANTS r1, r2

MCGap == [w \in Workers |-> IF w = "sweep" THEN 1 ELSE 2]
MCSymmetry == Permutations({r1, r2})
=============================================================================
