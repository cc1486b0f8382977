---------------------------- MODULE MCSimulation ----------------------------
(* Small instances of Simulation: a reset, and a simulation or a dashboard *)
(* that may have created the event with more seats than the reset asks for. *)
EXTENDS Simulation

CONSTANTS sim, stats, reset, u1, u2

MCOpOf == [c \in Calls |-> CASE c = sim -> "simulate" [] c = stats -> "stats" [] c = reset -> "reset"]
MCTotalOf == [c \in Calls |-> IF c = reset THEN 1 ELSE 2]
=============================================================================
