---------------------------- MODULE SeatCounting ----------------------------
(***************************************************************************)
(* Seats as a sum of quantities: a booking asks for one or more seats, and *)
(* stock and bookings are compared by the number of seats they stand for.  *)
(***************************************************************************)
EXTENDS Integers, FiniteSets

CONSTANTS
    Requests,  \* POST /events/:eventId/reservations calls of one event
    Qty,       \* the quantity a request asks for (DTO: an integer, at least 1)
    MaxQty     \* a bound on Qty

ASSUME SeatAssumption ==
    /\ IsFiniteSet(Requests)
    /\ MaxQty \in Nat
    /\ Qty \in [Requests -> 1..MaxQty]

(* One element per seat of the rows or requests in S, and their number. *)
Seats(S) == {s \in S \X (1..MaxQty) : s[2] <= Qty[s[1]]}
SeatCount(S) == Cardinality(Seats(S))
=============================================================================
