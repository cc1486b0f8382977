------------------------------ MODULE EventSetup ------------------------------
(***************************************************************************)
(* How a request obtains the one event its owner plays with: find it, or   *)
(* create the row and then seed the Redis stock the gate of the held       *)
(* bookings reads. Requests of one owner overlap, because a page opens its *)
(* statistics stream and starts its simulation without waiting.            *)
(*                                                                         *)
(* A missing stock key is worth 0 to DECRBY and INCRBY, so stock is 0      *)
(* until the key is seeded.                                                *)
(***************************************************************************)
EXTENDS Integers, FiniteSets

CONSTANTS
    Calls,    \* HTTP requests of the owner
    DemoQty,  \* seats of every demo event: 100
    TotalOf   \* seats a request to the load test asks for: DEFAULT_STOCK, or a reset's totalQty

ASSUME SetupAssumption ==
    /\ IsFiniteSet(Calls)
    /\ DemoQty \in Nat \ {0}
    /\ TotalOf \in [Calls -> Nat \ {0}]

VARIABLES
    kind,      \* "demo" or "loadTest": which of the two services the owner uses
    event,     \* is the owner's row in events
    totalQty,  \* its inventory's total, 0 without one
    stock,     \* Redis stock:event:<id>
    call       \* where each request is

eventVars == <<kind, event, totalQty, stock>>

(* The seats of the event as this request has them. *)
Asked(c) == IF kind = "demo" THEN DemoQty ELSE TotalOf[c]

Moves(c, before, after) == call[c] = before /\ call' = [call EXCEPT ![c] = after]

(* findUnique by the owner. *)
FindEvent(c) ==
    /\ Moves(c, "finding", IF event THEN "ready" ELSE "creating")
    /\ UNCHANGED eventVars

(* The row and its inventory; the owner's column is unique. *)
CreateEvent(c) ==
    /\ ~event
    /\ Moves(c, "creating", "seeding")
    /\ event' = TRUE
    /\ totalQty' = Asked(c)
    /\ UNCHANGED <<kind, stock>>

(* The total this request has created the event with, whatever the event's *)
(* total may be by now.                                                    *)
SeedStock(c) ==
    /\ Moves(c, "seeding", "ready")
    /\ stock' = Asked(c)
    /\ UNCHANGED <<kind, event, totalQty>>

(* findOrCreateOwnDemoEvent lets the unique violation out: 500. *)
LoseDemoRace(c) ==
    /\ kind = "demo"
    /\ event
    /\ Moves(c, "creating", "failed")
    /\ UNCHANGED eventVars

(* findOrCreateOwnLoadTestEvent reads the row of the winner. *)
LoseLoadTestRace(c) ==
    /\ kind = "loadTest"
    /\ event
    /\ Moves(c, "creating", "losing")
    /\ UNCHANGED eventVars

FindWinner(c) ==
    /\ Moves(c, "losing", "ready")
    /\ UNCHANGED eventVars

FindOrCreateDemo(c) ==
    kind = "demo" /\ (FindEvent(c) \/ CreateEvent(c) \/ SeedStock(c) \/ LoseDemoRace(c))

FindOrCreateLoadTest(c) ==
    kind = "loadTest" /\ (FindEvent(c) \/ CreateEvent(c) \/ SeedStock(c)
                            \/ LoseLoadTestRace(c) \/ FindWinner(c))
=============================================================================
