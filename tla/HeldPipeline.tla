---------------------------- MODULE HeldPipeline ----------------------------
(***************************************************************************)
(* The W3 booking pipeline of one event: the Redis gate that every         *)
(* booking request passes (createHeld), the mock payment (pay and the      *)
(* payment worker), the confirm worker, the sweep that expires lapsed      *)
(* holds and the reconcile that rewrites the Redis stock from Postgres.    *)
(*                                                                         *)
(* Every await of the code is a step boundary here: a request, a job, the  *)
(* sweep and the reconcile interleave exactly where the API process yields.*)
(* Postgres statements are atomic, except the two that decide on what      *)
(* another statement changes without a common row lock (READ COMMITTED):   *)
(* pay's INSERT ... SELECT reads its snapshot before it inserts, and the   *)
(* sweep's UPDATE reads its own before it commits. Requests are the calls  *)
(* with strategy=held; a row is named by the call that inserted it.        *)
(***************************************************************************)
EXTENDS SeatCounting

CONSTANTS
    Keys,      \* (userId, idempotencyKey) pairs
    KeyOf,     \* the key a request carries: two requests with one key are a call and its retransmission
    TotalQty,  \* Inventory.totalQty of the event
    Attempts,  \* attempts of a payment or confirm job (3 in reservations.module.ts)
    Faults     \* which of FaultKinds may happen

FaultKinds ==
    { "requestDies",      \* the process dies, or an un-caught Redis call throws, inside createHeld
      "insertFails",      \* the HELD INSERT fails and leaves no row
      "insertAmbiguous",  \* the HELD INSERT commits but its caller sees an error
      "flagFails",        \* the write of the activity flag after the INSERT throws
      "payDies",          \* pay dies between its statements
      "jobFails",         \* a payment or confirm job throws, or stalls in a crash, and is redelivered
      "sweepDies",        \* the sweep dies inside its UPDATE, or between it and its INCRBY
      "reconcileDies",    \* the reconcile dies between its read and its SET
      "backlog" }         \* a paid-for hold grows older than PAYMENT_ATTEMPT_FALLBACK_MS

ASSUME PipelineAssumption ==
    /\ KeyOf \in [Requests -> Keys]
    /\ TotalQty \in Nat
    /\ Attempts \in Nat \ {0}
    /\ Faults \subseteq FaultKinds

VARIABLES
    stock,        \* Redis stock:event:<id>
    pc,           \* where each createHeld call is
    resv,         \* reservations."status" of the row each request inserted, "none" without a row
    age,          \* the row against heldUntil and against createdAt + 5 min
    payment,      \* payments."status" of the row's payment, "none" without one
    payCall,      \* where the row's PaymentsService.pay call is
    payJob,       \* where the row's payment job is
    payFails,     \* how often that job has failed
    confirmJob,   \* where the row's confirm job is
    confirmFails, \* how often that job has failed
    sweepSeen,    \* rows the sweep's running UPDATE saw expirable, {} when none runs
    overlooked,   \* history: rows whose payment was inserted behind the back of that UPDATE
    sweepBatch,   \* rows the sweep has expired and not yet returned to Redis
    reconPc,      \* where the reconcile is
    reconValue    \* the stock it computed and is about to SET

requestVars == <<stock, pc>>
holdVars    == <<resv, age>>
payVars     == <<payment, payCall>>
jobVars     == <<payJob, payFails, confirmJob, confirmFails>>
sweepVars   == <<sweepSeen, overlooked, sweepBatch>>
reconVars   == <<reconPc, reconValue>>
vars == <<stock, pc, resv, age, payment, payCall, payJob, payFails,
          confirmJob, confirmFails, sweepSeen, overlooked, sweepBatch, reconPc, reconValue>>

Status == {"HELD", "CONFIRMED", "CANCELLED", "EXPIRED"}

(* The rows that occupy seats: what the reconcile sums. *)
Live == {r \in Requests : resv[r] \in {"HELD", "CONFIRMED"}}

(* The row the unique index on (userId, idempotencyKey) finds for r's key. *)
(* (Mistake: there is no such index.)                                      *)
NoIndex(r) == FALSE
HasRow(r) == \E q \in Requests : KeyOf[q] = KeyOf[r] /\ resv[q] # "none"

(* Requests that have decremented the stock and own no row for it. *)
InFlight == {r \in Requests : pc[r] \in {"taken", "overdrawn", "duplicate", "failed"}}

(* Rows that have left the live set and whose seats a worker is about to   *)
(* return to Redis.                                                        *)
Owed == sweepBatch \cup {r \in Requests : payJob[r] = "cancelled"}

(* Nothing is between a change of the database and the matching change of  *)
(* Redis, in either order.                                                 *)
Quiescent == InFlight = {} /\ Owed = {}

Init ==
    /\ stock = TotalQty
    /\ pc = [r \in Requests |-> "idle"]
    /\ resv = [r \in Requests |-> "none"]
    /\ age = [r \in Requests |-> "fresh"]
    /\ payment = [r \in Requests |-> "none"]
    /\ payCall = [r \in Requests |-> "idle"]
    /\ payJob = [r \in Requests |-> "none"]
    /\ payFails = [r \in Requests |-> 0]
    /\ confirmJob = [r \in Requests |-> "none"]
    /\ confirmFails = [r \in Requests |-> 0]
    /\ sweepSeen = {} /\ overlooked = {} /\ sweepBatch = {}
    /\ reconPc = "idle"
    /\ reconValue = 0

-----------------------------------------------------------------------------
(* ReservationsService.createHeld *)

(* DECRBY, and the branch on its result. (Mistake: one below zero passes.) *)
RefusedOffByOne(remaining) == remaining < -1
Refused(remaining) == remaining < 0
Decrement(r) ==
    /\ pc[r] = "idle"
    /\ stock' = stock - Qty[r]
    /\ pc' = [pc EXCEPT ![r] = IF Refused(stock - Qty[r]) THEN "overdrawn" ELSE "taken"]
    /\ UNCHANGED <<holdVars, payVars, jobVars, sweepVars, reconVars>>

(* A step of createHeld that changes only where the call is. *)
Move(r, before, after) ==
    /\ pc[r] = before
    /\ pc' = [pc EXCEPT ![r] = after]
    /\ UNCHANGED <<stock, holdVars, payVars, jobVars, sweepVars, reconVars>>

(* INCRBY of a compensation; the call then ends in the state after. *)
GiveBack(r, before, after) ==
    /\ pc[r] = before
    /\ stock' = stock + Qty[r]
    /\ pc' = [pc EXCEPT ![r] = after]
    /\ UNCHANGED <<holdVars, payVars, jobVars, sweepVars, reconVars>>

GiveBackOverdrawn(r) == GiveBack(r, "overdrawn", "soldout")
(* Mistake: the retransmission answers without its compensation. *)
AnswerDuplicate(r) == Move(r, "duplicate", "answered")
GiveBackDuplicate(r) == GiveBack(r, "duplicate", "answered")
GiveBackFailed(r)    == GiveBack(r, "failed", "error")

(* The HELD INSERT commits. *)
InsertHeld(r) ==
    /\ pc[r] = "taken"
    /\ ~HasRow(r)
    /\ resv' = [resv EXCEPT ![r] = "HELD"]
    /\ pc' = [pc EXCEPT ![r] = "inserted"]
    /\ UNCHANGED <<stock, age, payVars, jobVars, sweepVars, reconVars>>

(* The HELD INSERT commits and createHeld sees an error: its catch takes   *)
(* every error but a unique violation for a failed INSERT.                 *)
InsertAmbiguous(r) ==
    /\ "insertAmbiguous" \in Faults
    /\ pc[r] = "taken"
    /\ ~HasRow(r)
    /\ resv' = [resv EXCEPT ![r] = "HELD"]
    /\ pc' = [pc EXCEPT ![r] = "failed"]
    /\ UNCHANGED <<stock, age, payVars, jobVars, sweepVars, reconVars>>

(* The unique violation of a retransmission. *)
InsertDuplicate(r) == HasRow(r) /\ Move(r, "taken", "duplicate")
InsertFails(r) == "insertFails" \in Faults /\ Move(r, "taken", "failed")
MarkActivity(r) == Move(r, "inserted", "answered")
(* The SET of the activity flag throws inside the try block. *)
FlagFails(r) == "flagFails" \in Faults /\ Move(r, "inserted", "failed")

(* The call ends where it stands: a crash, or a Redis command that throws  *)
(* outside the try block or inside the catch block.                        *)
RequestDies(r) ==
    /\ "requestDies" \in Faults
    /\ pc[r] \in {"taken", "overdrawn", "inserted", "duplicate", "failed"}
    /\ pc' = [pc EXCEPT ![r] = "error"]
    /\ UNCHANGED <<stock, holdVars, payVars, jobVars, sweepVars, reconVars>>

CreateHeldStep(r) ==
    \/ Decrement(r)
    \/ GiveBackOverdrawn(r)
    \/ InsertHeld(r)
    \/ InsertDuplicate(r)
    \/ GiveBackDuplicate(r)
    \/ GiveBackFailed(r)
    \/ MarkActivity(r)

-----------------------------------------------------------------------------
(* The age of a hold: heldUntil (30 s), then createdAt + 5 min. *)

HoldLapses(r) ==
    /\ resv[r] = "HELD"
    /\ age[r] = "fresh"
    /\ age' = [age EXCEPT ![r] = "due"]
    /\ UNCHANGED <<requestVars, resv, payVars, jobVars, sweepVars, reconVars>>

PaymentFallbackLapses(r) ==
    /\ "backlog" \in Faults
    /\ resv[r] = "HELD"
    /\ age[r] = "due"
    /\ payment[r] # "none"
    /\ age' = [age EXCEPT ![r] = "stale"]
    /\ UNCHANGED <<requestVars, resv, payVars, jobVars, sweepVars, reconVars>>

-----------------------------------------------------------------------------
(* PaymentsService.pay *)

(* The caller knows the reservation: some call of its key was answered. *)
Known(r) == \E q \in Requests : KeyOf[q] = KeyOf[r] /\ pc[q] = "answered"

(* The statement's snapshot shows a HELD row without a payment. On any     *)
(* other snapshot pay answers 404, 403, 409 or the existing payment and    *)
(* changes nothing.                                                        *)
PayRead(r) ==
    /\ Known(r)
    /\ payCall[r] = "idle"
    /\ resv[r] = "HELD"
    /\ payment[r] = "none"
    /\ payCall' = [payCall EXCEPT ![r] = "read"]
    /\ UNCHANGED <<requestVars, holdVars, payment, jobVars, sweepVars, reconVars>>

PayInsert(r) ==
    /\ payCall[r] = "read"
    /\ payment' = [payment EXCEPT ![r] = "PENDING"]
    /\ payCall' = [payCall EXCEPT ![r] = "inserted"]
    /\ overlooked' = IF r \in sweepSeen THEN overlooked \cup {r} ELSE overlooked
    /\ UNCHANGED <<requestVars, holdVars, jobVars, sweepSeen, sweepBatch, reconVars>>

PayEnqueue(r) ==
    /\ payCall[r] = "inserted"
    /\ payJob' = [payJob EXCEPT ![r] = "waiting"]
    /\ payCall' = [payCall EXCEPT ![r] = "answered"]
    /\ UNCHANGED <<requestVars, holdVars, payment, payFails, confirmJob,
                   confirmFails, sweepVars, reconVars>>

(* Before the commit the call can be made again; after it, a second call   *)
(* meets the unique index on payments."reservationId" and adds no job.     *)
PayDies(r) ==
    /\ "payDies" \in Faults
    /\ payCall[r] \in {"read", "inserted"}
    /\ payCall' = [payCall EXCEPT ![r] = IF @ = "read" THEN "idle" ELSE "answered"]
    /\ UNCHANGED <<requestVars, holdVars, payment, jobVars, sweepVars, reconVars>>

-----------------------------------------------------------------------------
(* PaymentProcessor.process *)

(* What the success branch writes into the payment: PAID if the row is     *)
(* still HELD, FAILED otherwise, in one statement. (Mistakes: PAID in any  *)
(* case; nothing if the row is no longer HELD.)                            *)
PaidInAnyCase(r) == "PAID"
PaidIfHeld(r) == IF resv[r] = "HELD" THEN "PAID" ELSE payment[r]
Verdict(r) == IF resv[r] = "HELD" THEN "PAID" ELSE "FAILED"

ChargeSucceeds(r) ==
    /\ payJob[r] = "waiting"
    /\ payment' = [payment EXCEPT ![r] = Verdict(r)]
    /\ payJob' = [payJob EXCEPT ![r] = IF resv[r] = "HELD" THEN "paid" ELSE "finishing"]
    /\ UNCHANGED <<requestVars, holdVars, payCall, payFails, confirmJob,
                   confirmFails, sweepVars, reconVars>>

(* Mistake: the confirm job is never added. *)
ForgetConfirm(r) ==
    /\ payJob[r] = "paid"
    /\ payJob' = [payJob EXCEPT ![r] = "finishing"]
    /\ UNCHANGED <<requestVars, holdVars, payVars, payFails, confirmJob,
                   confirmFails, sweepVars, reconVars>>

(* confirmQueue.add: a redelivered payment job adds a second confirm job,  *)
(* which finds nothing to do or does what the first would have done.       *)
EnqueueConfirm(r) ==
    /\ payJob[r] = "paid"
    /\ payJob' = [payJob EXCEPT ![r] = "finishing"]
    /\ confirmJob' = [confirmJob EXCEPT ![r] = "waiting"]
    /\ confirmFails' = [confirmFails EXCEPT ![r] = 0]
    /\ UNCHANGED <<requestVars, holdVars, payVars, payFails, sweepVars, reconVars>>

(* The failure branch: FAILED, and CANCELLED if the row is still HELD.     *)
Cancels(r) == resv[r] = "HELD"
ChargeFails(r) ==
    /\ payJob[r] = "waiting"
    /\ payment' = [payment EXCEPT ![r] = "FAILED"]
    /\ resv' = [resv EXCEPT ![r] = IF Cancels(r) THEN "CANCELLED" ELSE @]
    /\ payJob' = [payJob EXCEPT ![r] = IF Cancels(r) THEN "cancelled" ELSE "finishing"]
    /\ UNCHANGED <<requestVars, age, payCall, payFails, confirmJob,
                   confirmFails, sweepVars, reconVars>>

ReturnCancelled(r) ==
    /\ payJob[r] = "cancelled"
    /\ stock' = stock + Qty[r]
    /\ payJob' = [payJob EXCEPT ![r] = "finishing"]
    /\ UNCHANGED <<pc, holdVars, payVars, payFails, confirmJob, confirmFails,
                   sweepVars, reconVars>>

PaymentJobCompletes(r) ==
    /\ payJob[r] = "finishing"
    /\ payJob' = [payJob EXCEPT ![r] = "done"]
    /\ UNCHANGED <<requestVars, holdVars, payVars, payFails, confirmJob,
                   confirmFails, sweepVars, reconVars>>

(* BullMQ's decision on the n-th failure. (Mistake: it retries for ever.)  *)
AlwaysRetry(n) == "waiting"
Redelivery(n) == IF n < Attempts THEN "waiting" ELSE "failed"

(* The job throws or stalls wherever it stands; it starts again from the   *)
(* top until its attempts are used up.                                     *)
PaymentJobFails(r) ==
    /\ "jobFails" \in Faults
    /\ payJob[r] \in {"waiting", "paid", "cancelled", "finishing"}
    /\ payFails' = [payFails EXCEPT ![r] = @ + 1]
    /\ payJob' = [payJob EXCEPT ![r] = Redelivery(payFails[r] + 1)]
    /\ UNCHANGED <<requestVars, holdVars, payVars, confirmJob, confirmFails,
                   sweepVars, reconVars>>

-----------------------------------------------------------------------------
(* ConfirmProcessor.process *)

(* The UPDATE ... WHERE status = 'HELD'. *)
Confirmed(status) == IF status = "HELD" THEN "CONFIRMED" ELSE status

Confirm(r) ==
    /\ confirmJob[r] = "waiting"
    /\ resv' = [resv EXCEPT ![r] = Confirmed(@)]
    /\ confirmJob' = [confirmJob EXCEPT ![r] = "done"]
    /\ UNCHANGED <<requestVars, age, payVars, payJob, payFails, confirmFails,
                   sweepVars, reconVars>>

ConfirmJobFails(r) ==
    /\ "jobFails" \in Faults
    /\ confirmJob[r] = "waiting"
    /\ confirmFails' = [confirmFails EXCEPT ![r] = @ + 1]
    /\ confirmJob' = [confirmJob EXCEPT ![r] = Redelivery(confirmFails[r] + 1)]
    /\ UNCHANGED <<requestVars, holdVars, payVars, payJob, payFails, sweepVars, reconVars>>

-----------------------------------------------------------------------------
(* SweepProcessor.process, one tick that does not skip *)

(* Mistakes: without NOT EXISTS (payment), without the 5 min fallback. *)
ExpirableThoughPaying(r) == resv[r] = "HELD" /\ age[r] # "fresh"
ExpirableWithoutFallback(r) == resv[r] = "HELD" /\ age[r] # "fresh" /\ payment[r] = "none"

Expirable(r) ==
    /\ resv[r] = "HELD"
    /\ \/ age[r] # "fresh" /\ payment[r] = "none"
       \/ age[r] = "stale"

(* The UPDATE reads its snapshot: NOT EXISTS (payment) is decided here. *)
SweepSnapshot ==
    /\ sweepSeen = {}
    /\ sweepBatch = {}
    /\ sweepSeen' = {r \in Requests : Expirable(r)}
    /\ sweepSeen' # {}
    /\ UNCHANGED <<requestVars, holdVars, payVars, jobVars, overlooked, sweepBatch, reconVars>>

(* It commits. A row that another statement has updated since is checked   *)
(* again, on its status; a payment that pay has inserted since is not seen *)
(* (its foreign key's lock on the row does not conflict). (Mistake: no     *)
(* status is looked at again.)                                             *)
SeenAtAll(r) == r \in sweepSeen
StillExpirable(r) == r \in sweepSeen /\ resv[r] = "HELD"

SweepExpire ==
    /\ sweepSeen # {}
    /\ sweepSeen' = {}
    /\ sweepBatch' = {r \in Requests : StillExpirable(r)}
    /\ resv' = [r \in Requests |-> IF StillExpirable(r) THEN "EXPIRED" ELSE resv[r]]
    /\ UNCHANGED <<requestVars, age, payVars, jobVars, overlooked, reconVars>>

SweepReturn ==
    /\ sweepBatch # {}
    /\ stock' = stock + SeatCount(sweepBatch)
    /\ sweepBatch' = {}
    /\ UNCHANGED <<pc, holdVars, payVars, jobVars, sweepSeen, overlooked, reconVars>>

(* The UPDATE is rolled back, or the rows it has expired are forgotten. *)
SweepDies ==
    /\ "sweepDies" \in Faults
    /\ sweepSeen # {} \/ sweepBatch # {}
    /\ sweepSeen' = {} /\ sweepBatch' = {}
    /\ UNCHANGED <<requestVars, holdVars, payVars, jobVars, overlooked, reconVars>>

-----------------------------------------------------------------------------
(* ReconcileProcessor.process, one tick that does not skip *)

(* The rows groupBy sums. (Mistakes: only those already CONFIRMED; rows of *)
(* every status.)                                                          *)
CountedAll == {r \in Requests : resv[r] # "none"}
CountedConfirmed == {r \in Requests : resv[r] = "CONFIRMED"}
Counted == Live

ReconcileRead ==
    /\ reconPc = "idle"
    /\ reconPc' = "read"
    /\ reconValue' = TotalQty - SeatCount(Counted)
    /\ UNCHANGED <<requestVars, holdVars, payVars, jobVars, sweepVars>>

ReconcileSet ==
    /\ reconPc = "read"
    /\ stock' = reconValue
    /\ reconPc' = "idle"
    /\ reconValue' = 0
    /\ UNCHANGED <<pc, holdVars, payVars, jobVars, sweepVars>>

ReconcileDies ==
    /\ "reconcileDies" \in Faults
    /\ reconPc = "read"
    /\ reconPc' = "idle"
    /\ reconValue' = 0
    /\ UNCHANGED <<requestVars, holdVars, payVars, jobVars, sweepVars>>

-----------------------------------------------------------------------------
PayStep(r) == PayInsert(r) \/ PayEnqueue(r)

PaymentStep(r) ==
    \/ ChargeSucceeds(r)
    \/ ChargeFails(r)
    \/ EnqueueConfirm(r)
    \/ ReturnCancelled(r)
    \/ PaymentJobCompletes(r)

FaultStep(r) ==
    \/ InsertAmbiguous(r)
    \/ InsertFails(r)
    \/ FlagFails(r)
    \/ RequestDies(r)
    \/ PayDies(r)
    \/ PaymentJobFails(r)
    \/ ConfirmJobFails(r)

RequestStep(r) ==
    \/ CreateHeldStep(r)
    \/ HoldLapses(r)
    \/ PaymentFallbackLapses(r)
    \/ PayRead(r)
    \/ PayStep(r)
    \/ PaymentStep(r)
    \/ Confirm(r)
    \/ FaultStep(r)

SweepStep == SweepSnapshot \/ SweepExpire \/ SweepReturn \/ SweepDies
ReconcileStep == ReconcileRead \/ ReconcileSet \/ ReconcileDies

Next == (\E r \in Requests : RequestStep(r)) \/ SweepStep \/ ReconcileStep

Spec == Init /\ [][Next]_vars

(* The same system with every reconcile in a quiet moment: no change is    *)
(* half done when it starts, and it is over before anything else moves.    *)
QuietReconcile ==
    /\ Quiescent
    /\ stock' = TotalQty - SeatCount(Counted)
    /\ UNCHANGED <<pc, holdVars, payVars, jobVars, sweepVars, reconVars>>

QuietNext == (\E r \in Requests : RequestStep(r)) \/ SweepStep \/ QuietReconcile

QuietSpec == Init /\ [][QuietNext]_vars

(* Once started, a call, a job and the two repeating workers go on, and    *)
(* time passes. Nobody has to book or to pay, and no fault has to happen.  *)
(* A sweep or a reconcile may die and the next tick starts afresh (strong  *)
(* fairness): not every tick for ever is hit by a crash.                   *)
HandlerFairness ==
    /\ \A r \in Requests :
         /\ WF_vars(CreateHeldStep(r) /\ pc[r] # "idle")
         /\ WF_vars(PayStep(r))
         /\ WF_vars(PaymentStep(r))
         /\ WF_vars(Confirm(r))
         /\ WF_vars(HoldLapses(r))
         /\ WF_vars(PaymentFallbackLapses(r))
    /\ WF_vars(SweepSnapshot)
    /\ SF_vars(SweepExpire)
    /\ WF_vars(SweepReturn)

Fairness == HandlerFairness /\ WF_vars(ReconcileRead) /\ SF_vars(ReconcileSet)

QuietFairSpec == QuietSpec /\ HandlerFairness

FairSpec == Spec /\ Fairness

-----------------------------------------------------------------------------
(* Type invariant: every variable of the pipeline has its type; the stock  *)
(* is an integer because DECRBY goes below zero before its compensation.   *)
TypeOK ==
    /\ stock \in Int
    /\ pc \in [Requests -> {"idle", "taken", "overdrawn", "inserted", "duplicate",
                            "failed", "answered", "soldout", "error"}]
    /\ resv \in [Requests -> Status \cup {"none"}]
    /\ age \in [Requests -> {"fresh", "due", "stale"}]
    /\ payment \in [Requests -> {"none", "PENDING", "PAID", "FAILED"}]
    /\ payCall \in [Requests -> {"idle", "read", "inserted", "answered"}]
    /\ payJob \in [Requests -> {"none", "waiting", "paid", "cancelled",
                                "finishing", "done", "failed"}]
    /\ payFails \in [Requests -> 0..Attempts]
    /\ confirmJob \in [Requests -> {"none", "waiting", "done", "failed"}]
    /\ confirmFails \in [Requests -> 0..Attempts]
    /\ {sweepSeen, overlooked, sweepBatch} \subseteq SUBSET Requests
    /\ reconPc \in {"idle", "read"}
    /\ reconValue \in Int

(* Every seat Redis still offers is one nobody holds, has taken or is      *)
(* about to give back: the stock never counts a seat twice, whatever       *)
(* crashes and retries lose. Seats may go missing from Redis, none may     *)
(* appear.                                                                 *)
Backed ==
    stock + SeatCount(Live) + SeatCount(InFlight) + SeatCount(Owed) <= TotalQty

(* The seats of HELD and CONFIRMED rows never exceed the event's total:    *)
(* what the whole pipeline is for.                                         *)
NoOversell == SeatCount(Live) <= TotalQty

(* With no fault, every path of createHeld, the payment worker and the     *)
(* sweep gives back exactly what it took: whenever nothing is half done,   *)
(* Redis equals total minus (HELD + CONFIRMED), before any reconcile.      *)
QuiescentExact == Quiescent => stock = TotalQty - SeatCount(Live)

(* As the comments of the payment worker have it: of the charge and the    *)
(* sweep only one wins, so a payment recorded PAID belongs to a row that   *)
(* is still HELD or already CONFIRMED.                                     *)
PaidHasTicket ==
    \A r \in Requests : payment[r] = "PAID" => resv[r] \in {"HELD", "CONFIRMED"}

(* What the two statements do ensure: the sweep takes the ticket of        *)
(* somebody who has paid only if his payment was inserted while its UPDATE *)
(* was running.                                                            *)
PaidKept ==
    \A r \in Requests \ overlooked :
        payment[r] = "PAID" => resv[r] \in {"HELD", "CONFIRMED"}

(* A CONFIRMED row has a PAID payment: confirmation follows the charge. *)
ConfirmedIsPaid ==
    \A r \in Requests : resv[r] = "CONFIRMED" => payment[r] = "PAID"

(* A CANCELLED row has a FAILED payment, and a redelivered payment job     *)
(* that rolls success later does not turn it into PAID.                    *)
CancelledIsFailed ==
    \A r \in Requests : resv[r] = "CANCELLED" => payment[r] = "FAILED"

(* After whatever loss or race, Redis returns to total minus (HELD +       *)
(* CONFIRMED) for good: the reconcile repairs every drift, in either       *)
(* direction.                                                              *)
StockHeals == <>[](stock = TotalQty - SeatCount(Live))

(* No seat is held for ever: every HELD row is confirmed, cancelled or     *)
(* expired, even if its payment call or its jobs died on the way.          *)
HoldsSettle == \A r \in Requests : resv[r] = "HELD" ~> resv[r] # "HELD"

(* A payment that was taken leads to the ticket, except behind the back of *)
(* a running sweep.                                                        *)
PaidLeadsToConfirmed ==
    \A r \in Requests : payment[r] = "PAID" /\ r \notin overlooked ~> resv[r] = "CONFIRMED"

(* A pay call that created a payment gets a verdict, also when the sweep   *)
(* expired the row between the snapshot and the INSERT of pay.             *)
PaymentsSettle ==
    \A r \in Requests : payment[r] = "PENDING" ~> payment[r] \in {"PAID", "FAILED"}

(* The abstract sale: one ticket per key, named by the row of the key. *)
RowsOf(k) == {r \in Requests : KeyOf[r] = k /\ resv[r] # "none"}
ticketOfKey == [k \in Keys |-> IF RowsOf(k) = {} THEN "none" ELSE resv[CHOOSE r \in RowsOf(k) : TRUE]]
seatsOfKey == [k \in Keys |-> IF RowsOf(k) = {} THEN 0 ELSE Qty[CHOOSE r \in RowsOf(k) : TRUE]]
Sale == INSTANCE TicketSale WITH ticket <- ticketOfKey, seats <- seatsOfKey
SaleSpec == Sale!Spec

-----------------------------------------------------------------------------
(* The inductive invariants of the proofs. *)

(* Calls of pay and the two jobs of a row advance together. *)
JobPhases ==
    \A r \in Requests :
      /\ payCall[r] \in {"idle", "read"} <=> payment[r] = "none"
      /\ payCall[r] # "answered" => payJob[r] = "none"
      /\ payJob[r] # "failed" => payFails[r] < Attempts
      /\ confirmJob[r] # "failed" => confirmFails[r] < Attempts

(* A tick of the sweep has returned its batch before the next begins. *)
OneSweep == sweepSeen = {} \/ sweepBatch = {}

TypeInv == TypeOK /\ JobPhases /\ OneSweep

(* Requests that have passed the gate and may still insert a row. *)
Passed == {r \in Requests : pc[r] = "taken"}

SweptExpired == \A r \in sweepBatch : resv[r] = "EXPIRED"
ReturningCancelled == \A r \in Requests : payJob[r] = "cancelled" => resv[r] = "CANCELLED"

(* Those rows would still fit. Backed alone does not say so: a call that   *)
(* died below zero leaves the stock negative.                              *)
PassedFit == SeatCount(Live) + SeatCount(Passed) <= TotalQty

SeatInv == SweptExpired /\ ReturningCancelled /\ PassedFit /\ Backed

(* What QuiescentExact rests on: as long as nothing is lost, every seat is *)
(* in exactly one place, also in the middle of a booking or a return.      *)
Exact ==
    stock + SeatCount(Live) + SeatCount(InFlight) + SeatCount(Owed) = TotalQty

(* What ConfirmedIsPaid rests on when no job is redelivered: a charge      *)
(* always meets a PENDING payment, a confirm job a PAID one.               *)
ChargedOnce ==
    \A r \in Requests :
      /\ payCall[r] = "inserted" \/ payJob[r] = "waiting" => payment[r] = "PENDING"
      /\ payJob[r] = "paid" \/ confirmJob[r] # "none" => payment[r] = "PAID"

(* What PaidKept rests on: the fallback of the sweep never applies, and a  *)
(* running sweep has in view no paid row but those it overlooks.           *)
NoneStale == \A r \in Requests : age[r] # "stale"
SweepSees ==
    \A r \in sweepSeen :
      /\ resv[r] # "none"
      /\ resv[r] = "HELD" => payment[r] = "none" \/ r \in overlooked
=============================================================================
