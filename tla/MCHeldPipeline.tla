--------------------------- MODULE MCHeldPipeline ---------------------------
(* Small instances of HeldPipeline: r2 retransmits r1's key. *)
EXTENDS HeldPipeline, TLC

CONSTANTS r1, r2, r3, r4, k1, k2, k3

MCKeyOf == [r \in Requests |-> CASE r = r3 -> k2 [] r = r4 -> k3 [] OTHER -> k1]
MCQty == [r \in Requests |-> IF r = r3 THEN 2 ELSE 1]

(* r1 and r2 carry the same key and the same quantity. *)
Retransmission == Permutations({r1, r2})
=============================================================================
