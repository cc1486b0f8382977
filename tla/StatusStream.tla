----------------------------- MODULE StatusStream -----------------------------
(***************************************************************************)
(* How a page learns what became of its reservation: the status stream     *)
(* merges one read of the row with the bus of this process, to which the   *)
(* workers publish after they have written, and completes with the first   *)
(* status it gets (take(1)).                                               *)
(*                                                                         *)
(* Only what a page can be told is here: the races of the workers over the *)
(* row are HeldPipeline's.                                                 *)
(***************************************************************************)
EXTENDS Naturals

CONSTANT Reservations   \* the ids the sequence of reservations hands out

VARIABLES
    status,       \* the row: "free" before the INSERT, "gone" after a DELETE
    payment,      \* its payment, "none" without one
    due,          \* what a worker has written, and is about to publish
    unpublished,  \* history: the publication was skipped by an error
    conn,         \* the stream of each reservation, seen from both its ends
    wire          \* the status its connection carries

rowVars    == <<status, payment, due, unpublished>>
streamVars == <<conn, wire>>

Final == {"CONFIRMED", "CANCELLED", "EXPIRED"}

(* Where the server has subscribed to the bus. (Mistake: concat instead of *)
(* merge, which subscribes when the read has been answered.)               *)
HearsLate == {"listening"}
Hears == {"reading", "read", "listening"}

StreamInit ==
    /\ status = [r \in Reservations |-> "free"]
    /\ payment = [r \in Reservations |-> "none"]
    /\ due = [r \in Reservations |-> "none"]
    /\ unpublished = [r \in Reservations |-> FALSE]
    /\ conn = [r \in Reservations |-> "closed"]
    /\ wire = [r \in Reservations |-> "none"]

-----------------------------------------------------------------------------
(* The workers *)

(* The payment is charged or declined; as long as the row is HELD the      *)
(* verdict settles it, and whoever wrote the row goes on to publish it.    *)
(* (The confirm job between PAID and CONFIRMED is HeldPipeline's.)         *)
Charge(r, accepted) ==
    /\ payment[r] = "PENDING"
    /\ IF status[r] = "HELD"
       THEN LET verdict == IF accepted THEN "CONFIRMED" ELSE "CANCELLED" IN
            /\ payment' = [payment EXCEPT ![r] = IF accepted THEN "PAID" ELSE "FAILED"]
            /\ status' = [status EXCEPT ![r] = verdict]
            /\ due' = [due EXCEPT ![r] = verdict]
       ELSE /\ payment' = [payment EXCEPT ![r] = "FAILED"]
            /\ UNCHANGED <<status, due>>
    /\ UNCHANGED <<unpublished, streamVars>>

(* The sweep tells nobody. *)
Expire(r) ==
    /\ status[r] = "HELD"
    /\ status' = [status EXCEPT ![r] = "EXPIRED"]
    /\ UNCHANGED <<payment, due, unpublished, streamVars>>

(* The first status, from either source, is sent and completes the stream. *)
Carry(r, what) ==
    /\ conn' = [conn EXCEPT ![r] = "delivering"]
    /\ wire' = [wire EXCEPT ![r] = what]

Publish(r) ==
    /\ due[r] # "none"
    /\ due' = [due EXCEPT ![r] = "none"]
    /\ IF conn[r] \in Hears THEN Carry(r, due[r]) ELSE UNCHANGED streamVars
    /\ UNCHANGED <<status, payment, unpublished>>

(* INCRBY of the returned seat throws: the job is tried again, finds no    *)
(* HELD row, and publishes nothing.                                        *)
PublishFails(r) ==
    /\ due[r] = "CANCELLED"
    /\ due' = [due EXCEPT ![r] = "none"]
    /\ unpublished' = [unpublished EXCEPT ![r] = TRUE]
    /\ UNCHANGED <<status, payment, streamVars>>

-----------------------------------------------------------------------------
(* One connection *)

Refuse(r) ==
    /\ conn[r] = "connecting"
    /\ conn' = [conn EXCEPT ![r] = "refused"]
    /\ UNCHANGED <<rowVars, wire>>

(* assertOwned finds the row; the stream subscribes to the bus and asks    *)
(* for the row's status.                                                   *)
Subscribe(r) ==
    /\ conn[r] = "connecting"
    /\ status[r] # "gone"
    /\ conn' = [conn EXCEPT ![r] = "reading"]
    /\ UNCHANGED <<rowVars, wire>>

(* A settled row is told at once; HELD or no row is filtered out.          *)
(* (Mistake: what settled before the stream opened is told to nobody.)     *)
FutureOnly(r) == FALSE
ToldAtOnce(r) == status[r] \in Final

ReadRow(r) ==
    /\ conn[r] = "reading"
    /\ IF ToldAtOnce(r)
       THEN Carry(r, status[r])
       ELSE conn' = [conn EXCEPT ![r] = "read"] /\ UNCHANGED wire
    /\ UNCHANGED rowVars

ReadAnswered(r) ==
    /\ conn[r] = "read"
    /\ conn' = [conn EXCEPT ![r] = "listening"]
    /\ UNCHANGED <<rowVars, wire>>

(* EventSource connects again by itself; what was on the wire is lost. *)
Disconnect(r) ==
    /\ conn[r] \in Hears \cup {"delivering"}
    /\ conn' = [conn EXCEPT ![r] = "connecting"]
    /\ wire' = [wire EXCEPT ![r] = "none"]
    /\ UNCHANGED rowVars
=============================================================================
