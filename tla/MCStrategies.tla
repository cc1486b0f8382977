---------------------------- MODULE MCStrategies ----------------------------
(* A small instance of Strategies: a call for two seats, the others for one. *)
EXTENDS Strategies, TLC

CONSTANTS c1, c2, c3, c4

MCQty == [r \in Requests |-> IF r = c4 THEN 2 ELSE 1]

(* The calls for one seat are alike. *)
MCSymmetry == Permutations({c1, c2, c3})
=============================================================================
