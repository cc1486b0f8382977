----------------------------- MODULE TicketSale -----------------------------
(***************************************************************************)
(* What the booking pipeline promises, without Redis, queues or workers:   *)
(* each key (userId, idempotencyKey) gets at most one ticket, a ticket is  *)
(* granted only while its seats fit into the total, and a held ticket      *)
(* settles once. A settled ticket never changes again, and seats come back *)
(* to the sale only by cancellation or expiry.                             *)
(***************************************************************************)
EXTENDS Integers, FiniteSets

CONSTANTS
    Keys,     \* (userId, idempotencyKey) pairs
    MaxQty,   \* a bound on the quantity of one reservation
    TotalQty  \* Inventory.totalQty

VARIABLES
    ticket,  \* "none" or the ReservationStatus of each key's reservation
    seats    \* how many seats it is for

saleVars == <<ticket, seats>>

Occupied ==
    {s \in Keys \X (1..MaxQty) : ticket[s[1]] \in {"HELD", "CONFIRMED"} /\ s[2] <= seats[s[1]]}

Init ==
    /\ ticket = [k \in Keys |-> "none"]
    /\ seats = [k \in Keys |-> 0]

(* A reservation is granted: its seats are free. *)
Grant(k, q) ==
    /\ ticket[k] = "none"
    /\ Cardinality(Occupied) + q <= TotalQty
    /\ ticket' = [ticket EXCEPT ![k] = "HELD"]
    /\ seats' = [seats EXCEPT ![k] = q]

(* Payment confirms or cancels one held ticket. *)
Settle(k, verdict) ==
    /\ ticket[k] = "HELD"
    /\ ticket' = [ticket EXCEPT ![k] = verdict]
    /\ UNCHANGED seats

(* One sweep expires any number of held tickets together. *)
Expire(K) ==
    /\ K # {}
    /\ \A k \in K : ticket[k] = "HELD"
    /\ ticket' = [k \in Keys |-> IF k \in K THEN "EXPIRED" ELSE ticket[k]]
    /\ UNCHANGED seats

Next ==
    \/ \E k \in Keys, q \in 1..MaxQty : Grant(k, q)
    \/ \E k \in Keys : Settle(k, "CONFIRMED") \/ Settle(k, "CANCELLED")
    \/ \E K \in SUBSET Keys : Expire(K)

Spec == Init /\ [][Next]_saleVars
=============================================================================
