------------------------------ MODULE Simulation ------------------------------
(***************************************************************************)
(* The simulated crowd of one owner: DemoService and LoadTestService       *)
(* inject virtual users in batches, each of them waits for his admission,  *)
(* gives up or books and pays, and Redis counters record what became of    *)
(* him; the statistics stream adds the counters up, and a reset deletes    *)
(* and rewrites everything step by step while the crowd goes on.           *)
(*                                                                         *)
(* The services differ in their reset, in what they count and in how a     *)
(* simulation starts; kind says which one runs. The line itself is         *)
(* AdmissionQueue's and the payment workers' races are HeldPipeline's:     *)
(* here an admission is one step, and so is each statement of a booking.   *)
(***************************************************************************)
EXTENDS EventSetup, FiniteSetsExt, Sequences

CONSTANTS
    Users,      \* the virtual users it can create, their rows carry the event's prefix
    OpOf,       \* what each request asks for
    MaxVu,      \* DEMO_SIM_MAX_VU, LOAD_TEST_MAX_VU
    BatchSize,  \* SIM_BATCH_SIZE, LOAD_TEST_SIM_BATCH_SIZE
    Guarantee,  \* AUTO_JOIN_GUARANTEE_MAX
    Faults      \* subset of FaultKinds

Operations == {"list", "stats", "simulate", "reset"}
FaultKinds == {"injectFails", "insertFails", "countFails", "crash"}

ASSUME SimulationAssumption ==
    /\ IsFiniteSet(Users)
    /\ OpOf \in [Calls -> Operations]
    /\ {MaxVu, BatchSize, Guarantee} \subseteq Nat \ {0}
    /\ Faults \subseteq FaultKinds

VARIABLES
    auto,         \* the simulations a page has asked for on its own
    left,         \* virtual users a request has still to inject, its batch not counted
    batch,        \* the virtual users a request is injecting
    step,         \* how far a reset has come in its plan
    requested,    \* Redis loadtest:injection:requested:<id>
    injected,     \* Redis loadtest:injection:injected:<id>
    at,           \* where each virtual user is
    account,      \* who has a row in users
    resv,         \* status of his reservation, "none" without one
    payment,      \* status of its payment, "none" without one
    owed,         \* whose seats the sweep or the payment worker is about to return
    soldout,      \* Redis soldout:event:<id>
    abandoned,    \* Redis abandoned:event:<id>
    systemError,  \* Redis system-error:event:<id>
    stragglers,   \* history: how many held a seat when the stock was last SET
    granted,      \* history: the total it was SET to
    late,         \* history: who was about to SET another total when the inventory was last written
    old,          \* history: who was through when the last reset began
    crashes       \* history: restarts of the API

callVars    == <<auto, left, batch, step>>
injectVars  == <<requested, injected>>
userVars    == <<at, account>>
rowVars     == <<resv, payment, owed>>
counterVars == <<soldout, abandoned, systemError>>
setupVars   == <<eventVars, call>>
writeVars   == <<stragglers, granted, late>>
pastVars    == <<writeVars, old, crashes>>
vars == <<setupVars, callVars, injectVars, userVars, rowVars, counterVars, pastVars>>

Here(S) == {u \in Users : at[u] \in S}

(* Virtual users in the middle of their injection. *)
Arriving == {"creating", "joining", "failing"}

(* Nothing more happens to him. *)
Through == {u \in Here({"abandoned", "soldOut", "conflict", "error", "booked", "stranded", "lost"}) :
              payment[u] # "PENDING"}

(* Rows that occupy a seat, and everybody whose decrement is not yet given *)
(* back.                                                                   *)
Live == {u \in Users : resv[u] = "HELD"}
Holding == Live \cup owed \cup Here({"taken", "overdrawn", "returning"})

Tally(status) == Cardinality({u \in Users : payment[u] = status})
DatabaseOutcomes == Tally("PAID") + Tally("FAILED")

Init ==
    /\ kind \in {"demo", "loadTest"}
    /\ event = FALSE
    /\ totalQty = 0 /\ stock = 0
    /\ call = [c \in Calls |-> "idle"]
    /\ auto = {}
    /\ left = [c \in Calls |-> 0]
    /\ batch = [c \in Calls |-> {}]
    /\ step = [c \in Calls |-> 1]
    /\ requested = 0 /\ injected = 0
    /\ at = [u \in Users |-> "free"]
    /\ account = {}
    /\ resv = [u \in Users |-> "none"]
    /\ payment = [u \in Users |-> "none"]
    /\ owed = {}
    /\ soldout = 0 /\ abandoned = 0 /\ systemError = 0
    /\ stragglers = 0 /\ granted = 0 /\ late = {}
    /\ old = {}
    /\ crashes = 0

-----------------------------------------------------------------------------
(* A request arrives, and obtains the owner's event. *)

(* list, stats and reset start with findOrCreate. *)
Ask(c) ==
    /\ OpOf[c] \in {"list", "stats", "reset"}
    /\ OpOf[c] = "list" => kind = "demo"
    /\ Moves(c, "idle", "finding")
    /\ UNCHANGED <<eventVars, callVars, injectVars, userVars, rowVars,
                   counterVars, pastVars>>

(* Automatic and other simulations have a cooldown key each: it exists at  *)
(* most as long as another request has set it, and may end at any time.    *)
Cooling(c, automatic) ==
    \E d \in Calls \ {c} :
        OpOf[d] = "simulate" /\ call[d] \notin {"idle", "refused"} /\ (d \in auto <=> automatic)

(* simulateLoad up to its cooldown: 400, 429, or SET ... PX ... NX. (The   *)
(* pool of Users bounds what is accepted here.)                            *)
Simulate(c, n, automatic) ==
    /\ OpOf[c] = "simulate"
    /\ automatic => kind = "demo"
    /\ \/ /\ n > MaxVu \/ Cooling(c, automatic)
          /\ Moves(c, "idle", "refused")
          /\ UNCHANGED <<auto, left>>
       \/ /\ n <= MaxVu
          /\ n <= Cardinality(Here({"free"})) - MapThenSumSet(LAMBDA d : left[d], Calls)
          /\ Moves(c, "idle", "finding")
          /\ auto' = IF automatic THEN auto \cup {c} ELSE auto
          /\ left' = [left EXCEPT ![c] = n]
    /\ UNCHANGED <<eventVars, batch, step, injectVars, userVars, rowVars,
                   counterVars, pastVars>>

SetUp(c) ==
    /\ FindOrCreateDemo(c) \/ FindOrCreateLoadTest(c)
    /\ IF call[c] = "seeding"
       THEN stragglers' = Cardinality(Holding) /\ granted' = Asked(c)
       ELSE UNCHANGED <<stragglers, granted>>
    /\ UNCHANGED <<callVars, injectVars, userVars, rowVars, counterVars, late, old, crashes>>

-----------------------------------------------------------------------------
(* The batches of an injection *)

(* A request begins to inject its next size users at once (Simulate has   *)
(* seen to it that there are as many).                                     *)
NextBatch(c, size) ==
    LET n == IF size < left[c] THEN size ELSE left[c]
        fresh == CHOOSE S \in kSubset(n, Here({"free"})) : TRUE
    IN  /\ fresh \in kSubset(n, Here({"free"}))
        /\ batch' = [batch EXCEPT ![c] = fresh]
        /\ left' = [left EXCEPT ![c] = @ - n]
        /\ at' = [u \in Users |-> IF u \in fresh THEN "creating" ELSE at[u]]
        /\ UNCHANGED <<auto, step, account>>

(* Mistake: a user who fails fails his batch, and the injection with it. *)
InjectedWell(c) == batch[c] # {} /\ batch[c] \cap Here(Arriving \cup {"error"}) = {}

Injected(c) == batch[c] # {} /\ batch[c] \cap Here(Arriving) = {}

(* requested counts the whole request before its first batch. *)
Announce(c) ==
    /\ kind = "loadTest"
    /\ OpOf[c] = "simulate"
    /\ Moves(c, "ready", "injecting")
    /\ requested' = requested + left[c]
    /\ UNCHANGED <<eventVars, callVars, injected, userVars, rowVars,
                   counterVars, pastVars>>

(* A manual simulation answers and goes on in the background; an automatic *)
(* one answers after its first batch.                                      *)
StartDemo(c) ==
    /\ kind = "demo"
    /\ OpOf[c] = "simulate"
    /\ IF c \in auto
       THEN Moves(c, "ready", "guaranteeing") /\ NextBatch(c, Guarantee)
       ELSE Moves(c, "ready", "injecting") /\ UNCHANGED <<callVars, userVars>>
    /\ UNCHANGED <<eventVars, injectVars, rowVars, counterVars, pastVars>>

AnswerAuto(c) ==
    /\ Injected(c)
    /\ Moves(c, "guaranteeing", "injecting")
    /\ batch' = [batch EXCEPT ![c] = {}]
    /\ UNCHANGED <<eventVars, auto, left, step, injectVars, userVars, rowVars,
                   counterVars, pastVars>>

StartBatch(c) ==
    /\ call[c] = "injecting"
    /\ batch[c] = {}
    /\ left[c] > 0
    /\ NextBatch(c, BatchSize)
    /\ UNCHANGED <<setupVars, injectVars, rowVars, counterVars, pastVars>>

EndBatch(c) ==
    /\ call[c] = "injecting"
    /\ Injected(c)
    /\ batch' = [batch EXCEPT ![c] = {}]
    /\ UNCHANGED <<setupVars, auto, left, step, userVars, rowVars, counterVars,
                   pastVars>>

DemoBatches(c) == kind = "demo" /\ (StartBatch(c) \/ (EndBatch(c) /\ UNCHANGED injectVars))

(* INCRBY of the users whose injection has ended, well or not.             *)
(* (Mistake: the count of the whole request, after every batch.)           *)
WholeRequest(c) == left[c] + Cardinality(batch[c])
BatchCount(c) == Cardinality(batch[c])

LoadTestBatches(c) ==
    /\ kind = "loadTest"
    /\ \/ StartBatch(c)
       \/ /\ EndBatch(c)
          /\ injected' = injected + BatchCount(c)
          /\ UNCHANGED requested

-----------------------------------------------------------------------------
(* injectVirtualUser *)

(* A step of a virtual user that changes only where he is. *)
Goes(u, before, after) == at[u] = before /\ at' = [at EXCEPT ![u] = after]

CreateUser(u) ==
    /\ Goes(u, "creating", "joining")
    /\ account' = account \cup {u}
    /\ UNCHANGED <<setupVars, callVars, injectVars, rowVars, counterVars,
                   pastVars>>

(* He is in the line, and listens for his admission. *)
JoinLine(u) ==
    /\ Goes(u, "joining", "waiting")
    /\ UNCHANGED <<setupVars, callVars, injectVars, account, rowVars,
                   counterVars, pastVars>>

InjectionFails(u, after) ==
    /\ "injectFails" \in Faults
    /\ Goes(u, "creating", after) \/ Goes(u, "joining", after)
    /\ UNCHANGED <<setupVars, callVars, injectVars, account, rowVars,
                   counterVars, pastVars>>

CountError(u, before) ==
    /\ Goes(u, before, "error")
    /\ systemError' = systemError + 1
    /\ UNCHANGED <<setupVars, callVars, injectVars, account, rowVars,
                   soldout, abandoned, pastVars>>

(* The demo only logs the failure. *)
DemoInject(u) ==
    /\ kind = "demo"
    /\ CreateUser(u) \/ JoinLine(u) \/ InjectionFails(u, "error")

LoadTestInject(u) ==
    /\ kind = "loadTest"
    /\ \/ CreateUser(u) \/ JoinLine(u)
       \/ InjectionFails(u, "failing") \/ CountError(u, "failing")

(* Redis refuses a counter of the injection. The INCRBY of a request or of *)
(* a batch throws: 500 before the first batch, and otherwise no further    *)
(* one follows.                                                            *)
BatchUncounted(c) ==
    /\ "countFails" \in Faults
    /\ kind = "loadTest"
    /\ OpOf[c] = "simulate"
    /\ \/ Moves(c, "ready", "failed")
       \/ Injected(c) /\ Moves(c, "injecting", "cutOff")
    /\ UNCHANGED <<eventVars, callVars, injectVars, userVars, rowVars, counterVars, pastVars>>

(* The INCR for a failed user throws out of his injection, and with it     *)
(* Promise.all: the injection ends, the rest of the batch goes on.         *)
ErrorUncounted(u) ==
    /\ "countFails" \in Faults
    /\ kind = "loadTest"
    /\ Goes(u, "failing", "lost")
    /\ call' = [c \in Calls |-> IF u \in batch[c] /\ call[c] = "injecting" THEN "cutOff" ELSE call[c]]
    /\ UNCHANGED <<eventVars, callVars, injectVars, account, rowVars, counterVars, pastVars>>

-----------------------------------------------------------------------------
(* The line admits him *)

Admit(u) ==
    /\ Goes(u, "waiting", "heard")
    /\ UNCHANGED <<setupVars, callVars, injectVars, account, rowVars, counterVars,
                   pastVars>>

-----------------------------------------------------------------------------
(* simulateBookingAttempt *)

elseVars == <<setupVars, callVars, injectVars, account, pastVars>>

(* He gives up, or waits a while and then asks to book: assertAdmitted     *)
(* finds his permission, or its time is over.                              *)
Decide(u) ==
    /\ Goes(u, "heard", "leaving") \/ Goes(u, "heard", "booking")
    /\ UNCHANGED <<elseVars, rowVars, counterVars>>

(* Mistake: nobody records who gives up. *)
LeaveUncounted(u) ==
    /\ Goes(u, "leaving", "abandoned")
    /\ UNCHANGED <<elseVars, rowVars, counterVars>>

CountAbandoned(u) ==
    /\ Goes(u, "leaving", "abandoned")
    /\ abandoned' = abandoned + 1
    /\ UNCHANGED <<elseVars, rowVars, soldout, systemError>>

(* createHeld: DECRBY; below zero INCRBY, INCR soldout and 409; otherwise  *)
(* the INSERT, whose foreign key needs the virtual user's row.             *)
Seat(u, change, before, after) ==
    /\ Goes(u, before, after)
    /\ stock' = stock + change
    /\ UNCHANGED <<kind, event, totalQty, call, callVars, injectVars, account, rowVars,
                   counterVars, pastVars>>

(* Mistake: an empty stock is let through. *)
TakeOneMore(u) == Seat(u, -1, "booking", IF stock < 0 THEN "overdrawn" ELSE "taken")

Take(u) == Seat(u, -1, "booking", IF stock < 1 THEN "overdrawn" ELSE "taken")
GiveBack(u) == Seat(u, 1, "overdrawn", "refused") \/ Seat(u, 1, "returning", "erring")

(* Mistake: the caller counts him again. *)
CountTwice(u) ==
    /\ Goes(u, "refused", "soldOut")
    /\ soldout' = soldout + 2
    /\ UNCHANGED <<elseVars, rowVars, abandoned, systemError>>

CountSoldOut(u) ==
    /\ Goes(u, "refused", "soldOut")
    /\ soldout' = soldout + 1
    /\ UNCHANGED <<elseVars, rowVars, abandoned, systemError>>

Insert(u) ==
    /\ u \in account
    /\ Goes(u, "taken", "held")
    /\ resv' = [resv EXCEPT ![u] = "HELD"]
    /\ UNCHANGED <<elseVars, payment, owed, counterVars>>

(* Mistake: only the unique violation gives the seat back. *)
KeepSeat(u) ==
    /\ u \notin account \/ "insertFails" \in Faults
    /\ Goes(u, "taken", "erring")
    /\ UNCHANGED <<elseVars, rowVars, counterVars>>

InsertFails(u) ==
    /\ u \notin account \/ "insertFails" \in Faults
    /\ Goes(u, "taken", "returning")
    /\ UNCHANGED <<elseVars, rowVars, counterVars>>

(* pay: the row is HELD, or gone (404), or no longer HELD (409). The       *)
(* caller takes every 409 for sold out.                                    *)
Pay(u) ==
    /\ \/ resv[u] = "HELD" /\ Goes(u, "held", "booked")
       \/ resv[u] = "none" /\ Goes(u, "held", "erring")
       \/ resv[u] \notin {"HELD", "none"} /\ Goes(u, "held", "conflict")
    /\ payment' = [payment EXCEPT ![u] = IF resv[u] = "HELD" THEN "PENDING" ELSE @]
    /\ UNCHANGED <<elseVars, resv, owed, counterVars>>

Attempt(u) ==
    \/ Decide(u) \/ CountAbandoned(u)
    \/ Take(u) \/ GiveBack(u) \/ CountSoldOut(u)
    \/ Insert(u) \/ InsertFails(u) \/ Pay(u)

(* The demo only logs an error that escapes. *)
DemoAttempt(u) ==
    /\ kind = "demo"
    /\ \/ Attempt(u)
       \/ Goes(u, "erring", "error") /\ UNCHANGED <<elseVars, rowVars, counterVars>>

LoadTestAttempt(u) == kind = "loadTest" /\ (Attempt(u) \/ CountError(u, "erring"))

-----------------------------------------------------------------------------
(* The workers behind a booking *)

(* PaymentProcessor: PAID or FAILED by whether the row is still HELD; on a *)
(* declined charge the row is cancelled and its seat is owed.              *)
Charge(u, accepted) ==
    /\ payment[u] = "PENDING"
    /\ payment' = [payment EXCEPT ![u] = IF accepted /\ resv[u] = "HELD" THEN "PAID" ELSE "FAILED"]
    /\ IF ~accepted /\ resv[u] = "HELD"
       THEN resv' = [resv EXCEPT ![u] = "CANCELLED"] /\ owed' = owed \cup {u}
       ELSE UNCHANGED <<resv, owed>>
    /\ UNCHANGED <<setupVars, callVars, injectVars, userVars, counterVars, pastVars>>

(* The sweep: a hold without a payment lapses. *)
Expire(u) ==
    /\ resv[u] = "HELD"
    /\ payment[u] = "none"
    /\ resv' = [resv EXCEPT ![u] = "EXPIRED"]
    /\ owed' = owed \cup {u}
    /\ UNCHANGED <<setupVars, callVars, injectVars, userVars, payment, counterVars,
                   pastVars>>

ReturnSeat(u) ==
    /\ u \in owed
    /\ owed' = owed \ {u}
    /\ stock' = stock + 1
    /\ UNCHANGED <<kind, event, totalQty, call, callVars, injectVars, userVars, resv, payment,
                   counterVars, pastVars>>

-----------------------------------------------------------------------------
(* The reset, in the order of its statements. (Of the inventory only its   *)
(* total is kept; the event's opening time, which nothing here reads, is   *)
(* left out.)                                                              *)

DemoPlan == <<"payments", "reservations", "users", "inventory", "stock", "soldout", "abandoned",
              "queue">>
(* Mistake: the load test resets what the demo resets. *)
SameAsDemo == DemoPlan

LoadTestPlan == <<"payments", "reservations", "users", "inventory", "stock", "soldout",
                  "abandoned", "systemError", "requested", "injected", "queue">>
ResetPlan == IF kind = "demo" THEN DemoPlan ELSE LoadTestPlan

NextInPlan(c, plan, what) ==
    /\ OpOf[c] = "reset"
    /\ call[c] = "ready"
    /\ step[c] \in DOMAIN plan
    /\ plan[step[c]] = what
Does(c, plan, what) ==
    /\ NextInPlan(c, plan, what)
    /\ step' = [step EXCEPT ![c] = @ + 1]

resetFrame == <<setupVars, auto, left, batch, crashes>>

DeletePayments(c, plan) ==
    /\ Does(c, plan, "payments")
    /\ payment' = [u \in Users |-> "none"]
    /\ old' = Through
    /\ UNCHANGED <<resetFrame, injectVars, userVars, resv, owed, counterVars, writeVars>>

DeleteReservations(c, plan) ==
    /\ Does(c, plan, "reservations")
    /\ \A u \in Users : payment[u] = "none"
    /\ resv' = [u \in Users |-> "none"]
    /\ UNCHANGED <<resetFrame, injectVars, userVars, payment, owed, counterVars,
                   writeVars, old>>

DeleteUsers(c, plan) ==
    /\ Does(c, plan, "users")
    /\ \A u \in Users : resv[u] = "none"
    /\ account' = {}
    /\ UNCHANGED <<resetFrame, injectVars, at, rowVars, counterVars, writeVars, old>>

(* A payment or a reservation inserted since the last statement still      *)
(* refers to what this one deletes: 500, and the rest is not done.         *)
ForeignKeyFails(c, plan) ==
    /\ \/ NextInPlan(c, plan, "reservations") /\ \E u \in Users : payment[u] # "none"
       \/ NextInPlan(c, plan, "users") /\ \E u \in Users : resv[u] # "none"
    /\ Moves(c, "ready", "failed")
    /\ UNCHANGED <<eventVars, callVars, injectVars, userVars, rowVars,
                   counterVars, pastVars>>

(* Who is about to SET the stock: the request that has created the event,  *)
(* and resets that have written the inventory.                             *)
Writers == {c \in Calls : call[c] = "seeding" \/ NextInPlan(c, ResetPlan, "stock")}

resetElse == <<kind, event, call, auto, left, batch, injectVars, userVars, rowVars, counterVars,
               old, crashes>>

(* Mistake: the load test keeps the total, as the demo does. *)
KeepTotal(c, plan) ==
    /\ Does(c, plan, "inventory")
    /\ late' = {d \in Writers : Asked(d) # Asked(c)}
    /\ UNCHANGED <<resetElse, totalQty, stock, stragglers, granted>>

(* The demo restores the total the event has, which is always the same. *)
ResetInventory(c, plan) ==
    /\ Does(c, plan, "inventory")
    /\ totalQty' = Asked(c)
    /\ late' = {d \in Writers : Asked(d) # Asked(c)}
    /\ UNCHANGED <<resetElse, stock, stragglers, granted>>

ResetStock(c, plan) ==
    /\ Does(c, plan, "stock")
    /\ stock' = Asked(c)
    /\ stragglers' = Cardinality(Holding)
    /\ granted' = Asked(c)
    /\ UNCHANGED <<resetElse, totalQty, late>>

ResetCounter(c, plan) ==
    /\ \/ Does(c, plan, "soldout") /\ soldout' = 0 /\ UNCHANGED <<abandoned, systemError, injectVars>>
       \/ Does(c, plan, "abandoned") /\ abandoned' = 0 /\ UNCHANGED <<soldout, systemError, injectVars>>
       \/ Does(c, plan, "systemError") /\ systemError' = 0 /\ UNCHANGED <<soldout, abandoned, injectVars>>
       \/ Does(c, plan, "requested") /\ requested' = 0 /\ UNCHANGED <<counterVars, injected>>
       \/ Does(c, plan, "injected") /\ injected' = 0 /\ UNCHANGED <<counterVars, requested>>
    /\ UNCHANGED <<resetFrame, userVars, rowVars, writeVars, old>>

(* Whoever waits is out of the line, and goes on listening for nothing. *)
PurgeLine(c, plan) ==
    /\ Does(c, plan, "queue")
    /\ at' = [u \in Users |-> IF at[u] = "waiting" THEN "stranded" ELSE at[u]]
    /\ UNCHANGED <<resetFrame, injectVars, account, rowVars, counterVars,
                   writeVars, old>>

ResetStep(c, plan) ==
    \/ DeletePayments(c, plan) \/ DeleteReservations(c, plan) \/ DeleteUsers(c, plan)
    \/ ForeignKeyFails(c, plan)
    \/ ResetInventory(c, plan) \/ ResetStock(c, plan) \/ ResetCounter(c, plan)
    \/ PurgeLine(c, plan)

DemoReset(c) == kind = "demo" /\ ResetStep(c, DemoPlan)
LoadTestReset(c) == kind = "loadTest" /\ ResetStep(c, LoadTestPlan)

-----------------------------------------------------------------------------
(* getStats, polled by an open statistics stream: what a dashboard shows.  *)

AtLeastZero(n) == IF n < 0 THEN 0 ELSE n

DemoStats ==
    [outcomes |-> soldout + abandoned + DatabaseOutcomes,
     remaining |-> AtLeastZero(stock),
     pending |-> 0]

LoadTestStats ==
    [outcomes |-> soldout + abandoned + systemError + DatabaseOutcomes,
     remaining |-> AtLeastZero(stock),
     pending |-> AtLeastZero(requested - injected)]

-----------------------------------------------------------------------------
(* The API restarts: whatever it was doing is lost, Redis, Postgres and    *)
(* the payment jobs stay, and an open dashboard asks for its stream again. *)
Crash ==
    /\ "crash" \in Faults
    /\ crashes = 0
    /\ crashes' = 1
    /\ call' = [c \in Calls |->
          IF call[c] \in {"idle", "refused", "failed", "cutOff"} THEN call[c]
          ELSE IF OpOf[c] = "stats" THEN "idle"
          ELSE IF call[c] = "injecting" THEN "cutOff" ELSE "dead"]
    /\ at' = [u \in Users |-> IF u \in Through \/ at[u] \in {"free", "booked"} THEN at[u] ELSE "lost"]
    /\ owed' = {}
    /\ UNCHANGED <<eventVars, callVars, injectVars, account, resv,
                   payment, counterVars, writeVars, old>>

CallStep(c) ==
    \/ SetUp(c)
    \/ StartDemo(c) \/ Announce(c) \/ AnswerAuto(c)
    \/ DemoBatches(c) \/ LoadTestBatches(c)
    \/ DemoReset(c) \/ LoadTestReset(c)

UserStep(u) ==
    \/ DemoInject(u) \/ LoadTestInject(u)
    \/ Admit(u)
    \/ DemoAttempt(u) \/ LoadTestAttempt(u)

Next ==
    \/ \E c \in Calls : Ask(c) \/ (\E n \in 1..(MaxVu + 1), automatic \in BOOLEAN : Simulate(c, n, automatic)) \/ CallStep(c)
    \/ \E u \in Users : UserStep(u)
    \/ \E u \in Users : (\E accepted \in BOOLEAN : Charge(u, accepted)) \/ Expire(u) \/ ReturnSeat(u)
    \/ (\E c \in Calls : BatchUncounted(c)) \/ (\E u \in Users : ErrorUncounted(u))
    \/ Crash

Spec == Init /\ [][Next]_vars

(* Node goes on with what it has begun, and the workers of the line tick on *)
(* (AdmissionQueue: WaiterLeavesLine).                                      *)
FairSpec ==
    /\ Spec
    /\ WF_vars(\E c \in Calls : CallStep(c))
    /\ WF_vars(\E u \in Users : UserStep(u))

-----------------------------------------------------------------------------
(* What must hold *)

Resets == {c \in Calls : OpOf[c] = "reset"}
Untouched(c) == step[c] = 1
Stats == IF kind = "demo" THEN DemoStats ELSE LoadTestStats
Finished(c) == step[c] = Len(ResetPlan) + 1
Injecting == {c \in Calls : call[c] = "injecting"}
Begun == Users \ Here({"free"})

(* Types; the counters never exceed the users there are. *)
TypeOK ==
    /\ kind \in {"demo", "loadTest"}
    /\ event \in BOOLEAN
    /\ totalQty \in Nat /\ granted \in Nat /\ late \subseteq Calls
    /\ stock \in -Cardinality(Users)..(granted + Cardinality(Users))
    /\ call \in [Calls -> {"idle", "finding", "creating", "seeding", "losing", "ready",
                           "guaranteeing", "injecting", "refused", "failed", "dead",
                           "cutOff"}]
    /\ auto \subseteq Calls
    /\ left \in [Calls -> 0..MaxVu]
    /\ batch \in [Calls -> SUBSET Users]
    /\ step \in [Calls -> 1..(Len(LoadTestPlan) + 1)]
    /\ requested \in Nat /\ injected \in Nat
    /\ at \in [Users -> Arriving \cup
              {"free", "waiting", "heard", "leaving", "booking", "overdrawn",
               "refused", "taken", "returning", "erring", "held", "booked", "abandoned",
               "soldOut", "conflict", "error", "stranded", "lost"}]
    /\ account \subseteq Users
    /\ resv \in [Users -> {"none", "HELD", "EXPIRED", "CANCELLED"}]
    /\ payment \in [Users -> {"none", "PENDING", "PAID", "FAILED"}]
    /\ owed \subseteq Users
    /\ {soldout, abandoned, systemError} \subseteq 0..Cardinality(Users)
    /\ stragglers \in 0..Cardinality(Users)
    /\ old \subseteq Users
    /\ crashes \in 0..1

(* Who is in no counter: those whose hold lapsed before they paid (their   *)
(* 409 is taken for sold out), those an error stopped in the demo, and in  *)
(* the load test those whose error could not be counted.                   *)
Uncounted == Here({"conflict"} \cup (IF kind = "demo" THEN {"error"} ELSE {"lost"}))

(* The injected users equal the sum of the outcomes: once everybody is     *)
(* through, without a reset or a restart, only Uncounted are missing.      *)
OutcomesAddUp ==
    Begun = Through /\ crashes = 0 /\ (\A c \in Resets : Untouched(c)) =>
        Stats.outcomes = Cardinality(Begun \ Uncounted)

(* One element for each user that a request has still to inject, or is     *)
(* injecting, from its announcement on.                                    *)
ToInject(c) == left[c] + Cardinality(batch[c])
Rest == {r \in Calls \X (1..(MaxVu + Cardinality(Users))) :
            call[r[1]] \in {"injecting", "cutOff"} /\ r[2] <= ToInject(r[1])}

(* What the load test shows as still to be injected is what its requests   *)
(* have still to inject, dead ones included, until a reset forgets it.     *)
PendingIsRest ==
    kind = "loadTest" /\ (\A c \in Resets : Untouched(c)) =>
        Stats.pending = Cardinality(Rest)

(* A finished reset forgets whoever was through when it began: the         *)
(* outcomes are those of later users, or of users who were on their way.   *)
ResetForgets ==
    (\A c \in Resets : Finished(c)) /\ Resets # {} =>
        Stats.outcomes <= Cardinality(Begun \ old)

(* No more seats are sold than the last SET of the stock granted and were  *)
(* held at that moment: neither the late seed of an event nor a reset      *)
(* under load gives away more.                                             *)
SoldWithinStragglers == Cardinality(Live) <= granted + stragglers

(* And, unless a reset is under way or has failed, no seat of that grant   *)
(* is lost: it is in the stock, or somebody has it or is about to return   *)
(* it.                                                                     *)
SeatsNotLost ==
    /\ event
    /\ crashes = 0
    /\ \A c \in Calls : call[c] # "seeding"
    /\ \A c \in Resets : Untouched(c) \/ Finished(c)
    => stock + Cardinality(Holding) >= granted

(* What Redis was last told is the inventory's total, which two requests   *)
(* of different totals write in turns: unless somebody was late, who had   *)
(* still to SET another total when the inventory was written.              *)
GrantedIsTotal ==
    event /\ crashes = 0 /\ late = {} /\ Writers = {} => granted = totalQty

(* An injection goes through all its users, whatever becomes of each; only *)
(* a restart, or a counter that Redis refuses, ends it before.             *)
InjectionCompletes ==
    Injecting # {} ~> \A c \in Injecting : left[c] = 0 /\ batch[c] = {}

(* As the comment of the load test's reset has it: whether the request     *)
(* finds the event or creates it, the final stock is what it has asked     *)
(* for, as long as nobody books.                                           *)
FinalStockIsRequested ==
    kind = "loadTest" /\ Begun = {} =>
        \A c \in Resets : Finished(c) => stock = TotalOf[c]

(* As the comments of both resets have it: after the payments the          *)
(* reservations can be deleted, and after them the users, without any      *)
(* foreign key in the way.                                                 *)
ResetCompletes == \A c \in Resets : call[c] = "failed" => Untouched(c)
=============================================================================
