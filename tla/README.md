# Formal verification of Sunchak

Sunchak is a first-come-first-served ticket service: a NestJS API (`src/apps/api`), a Next.js client
(`src/apps/web`), Postgres through Prisma, Redis, and BullMQ workers that run inside the one API
process. This directory holds TLA+ modules of its booking core, of the simulated crowd around it and
of the page in front of it, TLC configurations that check them on small instances, and TLAPS proofs
for every instance. `PROJECT.json` maps every definition to the
source lines it stands for.

## 1. The system

Paths are below `src/apps/api/src` unless they say otherwise.

| Component | State | Operations | Interacts through |
|---|---|---|---|
| Held pipeline: `reservations/reservations.service.ts` (createHeld), `payments.service.ts`, `payment.processor.ts`, `confirm.processor.ts`, `sweep.processor.ts`, `reconcile.processor.ts` | Redis `stock:event:<id>`; rows of `reservations` and `payments`; BullMQ jobs `payment`, `confirm` | book, pay, charge, confirm, expire, rebuild the stock | Redis and Postgres, never in one transaction; BullMQ redelivers |
| Status stream: `streamStatus`, `reservation-events.service.ts` | in-process bus of terminal statuses | subscribe, publish | workers publish after their UPDATE; a stream merges the bus with one read |
| W2 strategies: createNaive, createPessimistic, createOptimistic, createAtomic, createRedis | `inventories.remainingQty`, `version`, the Redis stock | one booking each | the same inventory row |
| Activity gate: `reservations.constants.ts`, first lines of both repeating workers | flag with 90 s TTL, two daily keys | set, test, skip a tick | createHeld sets what sweep and reconcile test |
| Admission queue: `queue/queue.service.ts`, `queue/admission.processor.ts` | sorted set of waiting users, admitted keys with TTL, set of active events | join, tick, status, purge | one shared Redis connection; bus of admissions |
| Load-test admission: `load-test/load-test-admission.processor.ts`, `queue/poisson-batch.ts` | the same keys, another active set | tick with backpressure | counts HELD rows |
| Demo and load-test services | counters of virtual users, cooldown keys | inject, simulate one visitor, reset, statistics | every component above |
| Event set-up: `events/events.service.ts` | event and inventory rows, stock key | find or create | seeds the key after the row |
| Booking form: `src/apps/web/src/app/booking-form.tsx` | phase of one visitor | join, book, pay, follow two streams | HTTP and SSE |
| Pages and authentication: `src/apps/web/src/app/{page,gate-form,event-list}.tsx`, `auth/` | screen of the visitor, gate and login cookies | pass the gate, log in, list, open a page, log out | every request passes both doors |
| Metrics, deployment | | | not part of the booking logic |

What makes it hard: every handler changes Redis and Postgres in separate awaits and may stop between
them; four writers (payment success, payment failure, confirm, sweep) compete for one row; jobs are
delivered more than once; clients retransmit; a periodic job overwrites the stock with a value read
earlier. The list with source lines is `hazards` in `PROJECT.json`.

What must hold, by component: no seat is sold or offered twice, drift heals, a payment and its
reservation agree, nothing stays half done (held pipeline); a stream delivers the final status
(status stream); no decrement is lost where the code claims none is (strategies); a lapsed row is
seen in time (activity gate); nobody who waits is forgotten or overtaken (admission queue); the injected
visitors equal the counted ones, and an injection goes through all of them (demo and load-test
services); neither a late seed nor a reset under load creates or loses a seat beside what the last
write of the stock granted, and that is the event's total (the same, and event set-up); the page
sends nobody into the line ahead of its crowd or of its own reset, and shows the outcome of the
reservation it holds (booking form); whoever is turned away is led to the door that
turned him away (pages and authentication).

## 2. Modules

**`HeldPipeline.tla`** is one event of the held pipeline. Requests are calls of
`POST /reservations?strategy=held`; `KeyOf` gives two of them one `(userId, idempotencyKey)` when one
is the retransmission of the other, and a row is named by the call that inserted it. An await is a
step boundary: `Decrement`, `InsertHeld`, `GiveBackDuplicate`, `MarkActivity` and the others are the
segments of `createHeld` between its awaits, and `pc` says where a call stands. `PayRead` and
`PayInsert` split the one statement of `pay`, because READ COMMITTED lets the sweep commit between
its snapshot and its INSERT. `ChargeSucceeds`/`ChargeFails` are the two statements of the payment
worker, followed by `EnqueueConfirm` or `ReturnCancelled`; `Confirm` is the confirm worker.
`SweepSnapshot`, `SweepExpire` and `SweepReturn` are the three moments of a sweep: its UPDATE reads
(`NOT EXISTS (payment)` is decided here), it commits, and the INCRBY follows. A row that another
statement has updated in between is checked again on its status (`StillExpirable`), since both lock
it; a payment inserted in between is not seen, and the charge, which only reads the row's status, can
meet a row that the running UPDATE is about to expire. The history `overlooked` names the rows whose
payment was inserted while a sweep had them in view. `ChargeSucceeds` is one instant: with the sweep
split, a charge that reads HELD before the commit of a sweep is a charge before that commit, and the
other statements that settle a row are this job's own or come after it. `ReconcileRead`/`ReconcileSet`
are the two halves of the reconcile; BullMQ runs one tick of each worker at a time.

Time is the `age` of a hold: `fresh`, `due` (past `heldUntil`, 30 s) and `stale` (past
`createdAt` + 5 min, kept apart only for rows with a payment, since `due` already suffices for the
others). A worker tick that the activity gate skips changes nothing and is not a step; which ticks
those are is `ActivityGate`'s.

`Faults` names what may go wrong: a call that dies at any await (a crash or a Redis error), an INSERT
that fails or whose outcome is unknown, the activity write that throws after the INSERT, `pay` dying
between its statements, jobs that fail or stall and are delivered again (`Attempts` bounds the
deliveries: a retry and a stalled job look the same to the handler), a sweep dying inside its UPDATE
or after it, a reconcile dying, and a payment backlog longer than the fallback. A process crash is
several of these steps together.

**`TicketSale.tla`** is what the pipeline promises without Redis, queues or workers: one ticket per
key, granted while its seats fit, settled once. `HeldPipeline` implements it: `Sale == INSTANCE
TicketSale WITH ticket <- ticketOfKey, seats <- seatsOfKey`, checked as `SaleSpec`.

**`MCHeldPipeline.tla`** gives the constants: `r2` is the retransmission of `r1`, `r3` asks for two
seats, `r4` is a third visitor.

**`SeatCounting.tla`** counts the seats of a set of requests, as the cardinality of a set of seats so
that it can be proved about without recursion. `HeldPipeline` and `Strategies` extend it.

Four specifications share the actions. `Spec` lets the reconcile run at any moment. `QuietSpec` has
`QuietReconcile` instead, one step that happens only while no handler is between its two stores
(`Quiescent`): this is the assumption under which the code's claim of no oversell is true, and
`reconcile_race` shows that it is needed. `FairSpec` and `QuietFairSpec` add fairness to them.

**`AdmissionQueue.tla`** is the waiting line of one event. Every module of the API injects the same
`RedisService`, so one ioredis connection carries all commands, and Redis answers them in the order
they were sent. `wire` is that order: the commands sent and not yet executed. A step executes its head,
and the handler's next command goes to the end, since its reply is handled before any later one. This
is why `join` (DEL, INCR, ZADD, SADD) and `deactivateIfEmpty` (ZCARD, SREM) work at all, each being
several commands: a handler that is one command ahead stays ahead. `Executed` is the definition that
says so, and its mutant `AnyConnection`, a connection for each handler, breaks `NoOvertaking` and
`VirtualHearsAdmission`. The argument is only as long as the handlers' chains of
commands: `purge` has one command more than it can bear (section 6). `LoadTest` selects
`joinLoadTest` and the worker with backpressure. A score of 0 is "not in the line"; the counter of
INCR starts at 1. The HELD rows are what the worker counts of the held pipeline; `Book` and `Settle`
stand for it. `view` is what a visitor's page shows.

**`Strategies.tla`** is the five W2 strategies on one inventory row and one stock key, statement by
statement under READ COMMITTED: a plain read takes the last committed value, a write waits for the
row lock (`Unlocked`), `SELECT ... FOR UPDATE` takes it to the commit. A call names its strategy when
it is made (`Call`), so one run holds every mix of the five. `Dies` ends a call between statements; a
row whose `reservation.create` never came has pc `lost`. `SoundMix` says which calls may share the
row: nobody is naive, and optimistic calls meet only optimistic ones, since atomic and pessimistic
writes do not count the version up. **`MCStrategies.tla`** gives the quantities (three calls of one
seat, one of two) and the symmetry of the calls that ask for the same.

**`EventSetup.tla`** is how a request obtains its owner's one event: find it, or create the row and
then seed the stock. Several requests of one owner do so at once. A missing key is worth 0 to Redis,
so `stock` is 0 until `SeedStock`; the loser of the race for the unique owner gets a 500 in the demo
and the winner's row in the load test. A demo event always has `DemoQty` seats. To the load test each
request brings a total of its own (`TotalOf`, `Asked`): `DEFAULT_STOCK` of the statistics stream and
of a simulation, the requested one of a reset. Whoever creates the row seeds his own total, however
late.

**`Simulation.tla`** extends it with the crowd of one owner: `DemoService` or `LoadTestService`, as
`kind` says. A request (`Calls`, `OpOf`) lists, polls the statistics, simulates or resets. `Simulate`
is the way to the cooldown, `StartBatch`/`EndBatch` are the batches, `CreateUser`/`JoinLine` the
injection of one virtual user, and `Decide` to `Pay` his attempt, one step per statement. `DemoPlan`
and `LoadTestPlan` are the statements of the two resets in order, so a reset is as many steps and
meets the crowd between any two of them. `getStats` changes nothing: `DemoStats` and `LoadTestStats`
are functions of the state, and the properties speak of them. Abstracted: a cooldown may exist only
while another request of its kind has set it, and may end at any moment; whether a permission is
still alive when its owner asks to book is `Decide`'s choice; the line is one step (`AdmissionQueue` has
its commands, and the one connection is why the entry and the subscription of `JoinLine` may be one
step); the reconcile is `HeldPipeline`'s. History variables
remember who was through when a reset began (`old`), and of the last SET of the stock what it
`granted` and how many held a seat then (`stragglers`); `late` are those who were still to SET another
total when the inventory was last written. `BatchUncounted` and `ErrorUncounted` are the counters of
the load test that Redis refuses: either ends an injection. **`MCSimulation.tla`** gives a
simulation, a statistics stream and a reset, which asks for one seat where the others ask for two.

**`ActivityGate.tla`** is the flag and the daily keys that decide whether a tick of the sweep or of the
reconcile looks at Postgres. Time is discrete: `Time` is one unit, and every key, hold and fallback
counts it. `Gap` is the longest time between two ticks of a worker that do not fail, so it stands for
the interval together with a busy, failing or restarting process. `Diverge` is any handler that leaves
the stock wrong, and `met` says that somebody has set the flag since. `FailCheck` is a tick that fails
after it has taken the daily key; `grace` adds up what that costs. **`MCActivityGate.tla`** gives the
gaps and the symmetry of the rows.

**`Session.tla`** is the gate and the login, the order in which the server asks for them, the message
by which a page tells them apart, and the pages before the booking page.

**`StatusStream.tla`** is the merge of one read of the row with the bus, and the workers that publish
after they have written: `Subscribe`, `ReadRow` and `ReadAnswered` are three moments, because the
stream promises to miss nothing between them. The confirm job is folded into `Charge`.

**`BookingPage.tla`** extends both: `BookingForm` on the page of a casual event and on the load-test
page. A request is a record in `calls` that is sent, served and answered in any order; `mine` says
that the page that sent it is still there. `Show` is `setState` together with the two effects that
open and close the streams as the phase changes. The server is as coarse as the page can tell: one
step per handler, two for the long ones (crowd, reset). A reservation has one id, so it is a ticket
of its own (`Reservations`); quantity, rank and texts are left out, and so are the statistics the
load-test page polls, which may be stale, so that `GetReady` is free once the reset is answered.

**`HeldPipelineProofs.tla`**, **`TicketSaleProofs.tla`** (the refinement), **`SeatCountingProofs.tla`**,
**`StrategiesProofs.tla`**, **`AdmissionQueueProofs.tla`**, **`SimulationProofs.tla`**,
**`ActivityGateProofs.tla`** and **`BookingPageProofs.tla`** hold the proofs.

## 3. Runs

| Run | Question | Properties |
|---|---|---|
| `faults` | a call, its retransmission and a rival; calls and the sweep die anywhere, jobs are redelivered or given up | `TypeOK`, `Backed`, `NoOversell`, `CancelledIsFailed` |
| `lossless` | nothing dies: is every compensation exact, does every payment come to its end? | `QuiescentExact`, `PaidKept`, `SaleSpec`, `PaidLeadsToConfirmed`, `PaymentsSettle` |
| `heals` | does drift heal, does every hold settle, whatever died? | `SaleSpec`, `StockHeals`, `HoldsSettle` |
| `reconcile_race` | violated: a reconcile amid bookings oversells | `NoOversell` |
| `redelivery` | violated: CONFIRMED and FAILED after a second roll | `ConfirmedIsPaid` |
| `admission_casual` | every order of commands, with a reset and a restart | `ActiveIfWaiting`, `NoOvertaking`, `VirtualHearsAdmission` |
| `admission_load_test` | batches and backpressure: does everybody who waits leave the line? | `TypeOK`, `WaiterLeavesLine` |
| `strategies` | any mix of the five, calls die anywhere | `TypeOK`, `Accounted`, `NoOversell`, `NeverNegative`, `RetriesPaidFor`, `LockIsHeld` |
| `simulation` | a crowd of either service, a reset to another total at any moment, injections and counters that fail, a restart | `TypeOK`, `OutcomesAddUp`, `PendingIsRest`, `ResetForgets`, `SoldWithinStragglers`, `SeatsNotLost`, `GrantedIsTotal`, `InjectionCompletes` |
| `reset_fk` | violated: a reset under load ends half done on a foreign key | `ResetCompletes` |
| `visitor` | any order of answers, late ones, double taps, lost answers and connections, a restart, doors that close | `TypeOK`, `NothingMissed`, `CrowdFirst`, `ResetFirst`, `OutcomeIsOwn`, `PayingSettles` |
| `gate` | bookings that die before the flag, dashboards, late ticks, a daily check that fails | `CheckedDaily`, `SweptInTime`, `DriftMet` |

**Held pipeline.** One event. `faults` has a call, its retransmission and another visitor on one
seat, with two deliveries of each job: the smallest instance in which a retransmission, a last-seat
race and a redelivery with a second verdict meet. `lossless` has two seats, a request for both of them
with a retransmitted request for one, so that a request is refused while a seat is left; an INSERT may
fail, which the compensation must make good. No job is delivered twice there; that confirmation
follows the charge as long as none is, is the theorem `ConfirmedWasPaid`, and `redelivery` shows what a
second verdict does to it. `heals` has a call and its retransmission on one seat, with two deliveries, a reconcile at any
moment and every fault that `lossless` does not have, `pay` dying, the backlog, an INSERT of unknown
outcome and the throwing flag write included; two calls of one key are enough for two decrements on
one seat and for a reconcile between them. `SaleSpec` is checked in both: of several keys that compete
in `lossless`, of one under every fault in `heals`; the theorem `PipelineSellsTickets` has both at once.
Bookings are finite (one call per request), so the system of an instance comes to rest.

**Admission queue.** Two or three users, batches of one or two, one reset and one restart: two
visitors are needed for an order, a third handler for one of them to be overtaken by, and the hazards
of join against worker, purge and join are between two handlers. `ActiveIfWaiting` and
`VirtualHearsAdmission` speak of the time before a restart (`crashes = 0`), which may fall between
the ZADD and the SADD of a join; `NoOvertaking` survives it.

**Strategies.** Four calls on four seats with two attempts, so that an optimistic call can lose both
attempts while others take seats; the code's five attempts repeat the same loop, and the proofs
take any number.

**Crowd.** One simulation of up to two users and one reset, batches of one, both services. The demo
has one seat; to the load test the simulation brings two and the reset one, so that each of them may
create the event, seed late and be overwritten by the other. One seat is enough for a last-seat race
and for a sold-out user; two batches are what an injection needs to be caught between two by the
reset, a refused counter or the restart; a second reset would begin from a state the first one can
leave. The statistics are functions of the state; as a request, a list or statistics stream differs
from the simulation only in stopping once it has the event, so the simulation is the one that races the
reset for it. An INSERT fails there when a reset has deleted its user; that it fails for itself is the
same step (`InsertFails`), and in the theorems. `SimulationProofs` has any number of requests, users
and seats, and any total for each request. `reset_fk` is the same instance without a fault.

`GrantedIsTotal` is what the code does ensure of two totals: once everybody has written, Redis and the
inventory have one total, unless somebody was already on his way to SET another one when the inventory
was written. `late` is that exception and no more, and the first visit of the load-test page can
reach it: its statistics stream creates the event with 1000 seats while it resets to 10 000
(`load-test/page.tsx`), and the late SET loses 9000 seats (section 6). `SoldWithinStragglers` and
`SeatsNotLost` speak of what the last SET granted, so the three together bound what is sold by the
event's own total wherever `late` is empty.

**Visitor.** One reservation, two requests under way, a button pressed twice, two openings of the
page, one fault. Two requests are what it takes for answers to come in the wrong order; two openings
let an answer to the first page come when the second is there. With one reservation `OutcomeIsOwn`
says that no stream is heard by a page that has left it; that an outcome is never shown of *another*
reservation is only in the theorem `OutcomesAreOwn`, which has any number of them.

**Gate.** Two rows (one to book after the other, and so renew the flag), a hold of one unit, a flag of
three, a fallback of four (longer than the flag, as in the code) and a day of four; the sweep ticks
at least every unit and the reconcile every two, so the code's order of durations is kept. One daily
check fails. `ActivityGateProofs` has all durations, and is where the types are proved.

`Simulation` and `BookingPage` may stop (`CHECK_DEADLOCK FALSE`): requests and users are finite, and
nothing forces a visitor to go on. What must not stop is `InjectionCompletes` and `PayingSettles`.

The central invariant is `Backed`: the stock of Redis, the live rows, the calls that hold a decrement
and the rows whose return is pending never add up to more than the total. It bounds the stock from
above only, because faults may lose seats from Redis (`StockHeals` returns them) and never create
them. Deadlock is checked in every run of `HeldPipeline` and `AdmissionQueue`: a repeating worker always
has a next step, and while something is half done the worker that has it does. In `strategies` every
call ends and then the model stops (`CHECK_DEADLOCK FALSE`); that a row lock is never left behind by
a call that ended is `LockIsHeld`.

## 4. Fairness

`HandlerFairness`, the fairness of `FairSpec` and `QuietFairSpec`, assumes what the process does once started: a call, a job and the repeating workers take
their next step (weak fairness per request and worker; BullMQ's repeat keeps both ticks coming), and
time passes. No fairness is put on booking, on paying or on any fault. `ReconcileSet` and
`SweepExpire` have strong fairness since a reconcile may die between its halves, and a sweep inside
its UPDATE, and the next tick starts again; it would be weak if they could not: a crash in every tick
for ever is what is excluded. `StockHeals` says "finally and for good": bookings of an instance are finite,
so the system comes to rest, and the last reconcile reads a quiet database.

In `AdmissionQueue`, Redis executes what is on the wire and the worker ticks for ever (BullMQ's repeat
again); a HELD row settles, which is what `HoldsSettle` shows of the pipeline. Joining, polling and
booking are not fair. `Strategies` has no liveness property and no fairness.

In `Simulation`, Node goes on with the requests and the virtual users it has begun with (weak fairness
of some request's next step and of some user's), and the admission they wait for is
`WaiterLeavesLine`. Asking, simulating, the payment workers, the sweep and faults are not fair. In
`BookingPage`, the workers charge and publish and a connection and a delivery go on, each per
reservation. Nothing is assumed of the visitor: he need not press a button, and `PayingSettles` speaks
only of a page that shows a payment under way.

## 5. Proofs

`HeldPipelineProofs` proves for all requests, keys, quantities, totals, attempts and, where not said
otherwise, faults:

- `TypeCorrect`: `Spec => []TypeOK`, from `TypeInv` (types and `JobPhases`: the failure counters
  stay below their bound, and a row has a job only after its pay call).
- `NeverOversold` and `StockBacked`: `QuietSpec => []NoOversell` and `[]Backed` unless a fault sends
  a committed INSERT into the compensation (`insertAmbiguous`, `flagFails`). `NoOversell` is not
  inductive, and neither is `Backed`: a call that died below zero leaves the stock negative, so
  `Backed` alone does not say that the rows still to be inserted will fit. `SeatInv` adds
  `PassedFit` (live rows and calls past the gate fit into the total), and `SweptExpired`
  and `ReturningCancelled` (what is about to be returned has left the live set, so the groups are
  disjoint). The
  arithmetic is about cardinalities of seat sets; `SeatCountUnion`, `SeatCountAdd`,
  `SeatCountRemove` and `SeatCountMonotone` are its lemmas.
- `CancelledStaysFailed`: `Spec => []CancelledIsFailed` under every fault.
- `PaidKeepsTicket`: `Spec => []PaidKept` without a backlog (`NoneStale`). `SweepSees` says that a
  running sweep has in view no HELD row with a payment but those it overlooks, and the charge writes
  PAID only for a row that is still HELD. `PaidHasTicket`, which the comments of the payment worker
  claim, is `PaidKept` without the exception, and false (section 6).
- `ConfirmedWasPaid`: `Spec => []ConfirmedIsPaid` without redelivery (`ChargedOnce`).
- `ExactWhenQuiescent`: `QuietSpec => []QuiescentExact` unless a fault may fall between a change of
  the rows and the matching change of Redis (`insertAmbiguous`, `flagFails`; `Lossless` names the
  other three: a call, a job or a sweep that dies). INSERTs that fail, pay calls and reconciles that
  die and the backlog are allowed. `QuiescentExact` speaks of quiet moments only; `Exact` is what holds in between:
  the stock, the live rows, the decrements under way and the returns owed make up the total.

`TicketSaleProofs` proves `PipelineSellsTickets`, the refinement `QuietSpec => SaleSpec`, for the same
faults as `NeverOversold`. `RowSteps` sorts the actions by what they do to the rows: one row is
inserted (`Grant`), one is settled (`Settle`), some expire (`Expire`), or none changes (a stutter of
the sale, which most steps of the pipeline are). `OneRowPerKey`, the unique index of the
database, makes the ticket of a key the state of one row, and `PassedFit` from `SeatInv` is why a
granted ticket fits: the gate in Redis, not the INSERT, is the point where seats are spoken for.

`AdmissionQueueProofs` proves for all users, numbers of joins, resets and restarts and all batch
sizes:

- `QueueTypes` and `QueueNumbered`: `Spec => []TypeOK` and `[]Numbered`. They are proved together: that
  a popped batch has a k-th user for each k, and so one SET each, needs all numbers in the line to be
  different.
- `NobodyOvertakes`: `Spec => NoOvertaking`, from `Numbered`: a number on the wire is larger than all
  that are in the line, and of two on the wire the one in front is the smaller.
- `QueueStaysActive`: `Spec => []ActiveIfWaiting` for a casual event, and for a load-test event without
  a reset. Being in the set is not inductive, since an SREM may be on the wire; `Reactivated` says that
  whoever waits has an SADD behind every removal on the wire. A load-test reset is excluded because
  the claim is false with one (section 6): its last SREM comes one command later than that of a casual
  event, which a join can pass. `PurgedByReset` is what excludes it: without a reset no purge is on
  the wire.
- `VirtualUsersHear`: `Spec => VirtualHearsAdmission`. `JoinsOnce` says that a virtual user is in one
  place at most, on the wire, in the line or being admitted; `HearsInTime`, that as long as he does
  not listen, the reply that makes him listen is ahead of his SET.

`StrategiesProofs` proves for all calls, quantities, totals and retry limits, and for every mix:

- `StrategiesTypeCorrect`: `Spec => []TypeOK`.
- `NoUpdateLost` and `StrategiesNeverOversell`: `Spec => []Accounted` and `[]NoOversell`, which say
  of the row what they say only where the mix is sound (`SoundMix`), and of the stock key always.
- `RowNeverNegative`, `RetriesArePaidFor` and `LockAlwaysHeld`: `[]NeverNegative`,
  `[]RetriesPaidFor` and `[]LockIsHeld`, sound mix or not.

Their invariant `StockInv` adds what a call knows when it writes. `CallInv` holds in every mix:
`IdleUncalled`, `TriesLeft`, `ReadSuffices` (who goes on to write has read enough seats),
`LockedIsRead` (a locked row is as its holder read it), `ReadBefore` (a version read is not ahead of
the row). `VersionedIsRead` (a row whose version is still the one read is as it was read) needs the
sound mix. `KeySuffices` is about the stock key: it may stay below zero when a call dies before its
give-back, so the limit is on the calls that passed, not on the key.

`SimulationProofs` proves for all requests, users, batch sizes, totals and faults:

- `SoldIsBounded`: `Spec => []SoldWithinStragglers`, and `NoSeatLost`: `Spec => []SeatsNotLost`, both
  of what the last SET granted, whichever request wrote it.
- `RedisHasTheTotal`: `Spec => []GrantedIsTotal`, which ties that grant to the inventory. `TotalInv`
  follows those who are about to write: unless somebody was late, each of them has the inventory's
  total, and when nobody is left, the last one has SET it.
- `SimulationTypes`: `Spec => []TypeOK`. The bounds of the stock are the part that is no matter of
  types; `StockFloor` backs what is below zero by the users who have overdrawn and not yet
  returned.
- `EverybodyCounted`: `Spec => []OutcomesAddUp`. `Exact` has each counter equal to the number of the
  users whose end it counts; `PaidIsBooked` and `CountersBacked` hold through resets too.
- `ResetsForget`: `Spec => []ResetForgets`. A reset is many statements, among which users end and other
  resets run, so the invariant follows one of them: `LastCleared` says that there is always a
  reset that has cleared each counter it has come past of all who had ended when the last one began
  (`OldHaveEnded`: these do not move any more).
- `PendingIsExact`: `Spec => []PendingIsRest`. `Backlog` relates the two counters to what the requests
  have still to inject. A sum over requests is counted as the cardinality of a set of pairs
  (`Rest`), so that a batch of k users is k pairs less (`PairsMore`) and no induction is needed.

Neither of the first two says alone how a seat moves between the stock and a user. `SeatInv` says it in two parts:
`NoneTwice` (the holders of a seat, and those who overdrew, fit with the stock into the total and the
stragglers of the last write) and `NoneLost` (together they make up the total); `Shape` and `BookedIsAfter`
are what they need of the requests and of the order in which a user goes. The
holders are counted as cardinalities of sets, so that a step which moves one user is a lemma about
one element.

`BookingPageProofs` proves for all reservations and bounds, with every fault:

- `NoOutcomeMissed` and `OutcomesAreOwn`: `Spec => []NothingMissed` and `Spec => OutcomeIsOwn`. What a
  stream carries is what the row has or had (`ToldInv`: the status on the wire, the one about to be
  published and the row agree, a ticket was booked, a pay call is of a booked row).
- `CrowdComesFirst` and `ResetComesFirst`: `Spec => []CrowdFirst` and `[]ResetFirst`. `FirstInv` adds
  that a page that is away has no request of its own, that before the form is shown there is neither
  crowd nor entry (`Unformed`), that set-up and crowd each come before everything the page does next
  (`SetupBefore`, `CrowdBefore`), and that each is sent once per visit (`SentOncePerVisit`).
- `PageTypes`: `Spec => []TypeOK`, with its last conjunct, that no page has two bookings under way.
  `OneBooking` adds that `pending` is up as long as there is one, which is what a second press of the
  button meets. `TapFree` is a pigeonhole: a press finds a free number for its request.

`ActivityGateProofs` proves for all rows and all durations that keep `GateAssumption` (a hold and the
longest gap between two sweeps are together shorter than the flag, and so is the gap between two
reconciles; with the code's values, 30 s, 5 s, 60 s and 90 s, the process may be 55 s late for a sweep
and 30 s for a reconcile):

- `GateTypeCorrect`, `HoldsSweptInTime`, `DriftMetByNextReconcile` and `NobodyForgotten`: `Spec =>
  []TypeOK`, `[]SweptInTime`, `[]DriftMet` and `[]CheckedDaily`. `GateInv` relates each age to what is
  left of the flag (`FlagOutlives`, `FlagAwaits`) and to the life of the daily key (`RowsSeen`,
  `DriftSeen`, by `Unseen`): a tick that is skipped proves by the missing flag that nothing it vouched
  for is open.

Two of the conditions of the held pipeline's theorems are shown to be needed by a violation run
(`reconcile_race`, `redelivery`), the other two in section 6, and so are the exceptions of `PaidKept`
and `GrantedIsTotal`. Assumed of the constants:
`PipelineAssumption` (finitely many requests, quantities at least 1, at least one attempt), `SeatAssumption` and
`StrategyAssumption` likewise.

Every safety property that a passing run checks is a theorem, under conditions that the run fulfils.
Only model-checked is liveness: `PaidLeadsToConfirmed`, `PaymentsSettle`, `StockHeals`, `HoldsSettle`,
`WaiterLeavesLine`, `InjectionCompletes` and `PayingSettles`. It needs fairness and `ENABLED`, which
are outside the prover. So is induction over recursively defined data; the models count seats, users
and requests by cardinalities instead, and use no `RECURSIVE` operator.

## 6. Not modelled, and the plan

Left out of `HeldPipeline`: several events at once (no handler but the sweep and the reconcile
touches two, and those treat them one after the other), HTTP errors 400/403/404 and authentication,
the `soldout` counter, prices, and Redis losing its last second of writes in a crash of its own.

Left out of `AdmissionQueue`: the time to live of a permission is a step that may come at any moment,
the waiting time shown with the rank is not computed, and the normal approximation behind the size of
a load-test batch is a choice among all sizes its clamps allow. Left out of `Strategies`: calls for an
event that does not exist, and the sweep, which expires the HELD rows of these strategies like any
other without giving seats back to the row.

Left out of `Simulation`: of the inventory row everything but its total, and the opening time a reset
rewrites (nothing there reads them); the reconcile, which recomputes the stock from the inventory and
so ends what a late seed leaves; an error of a booking whose counter Redis refuses (line 263 of the load
test: an unhandled rejection, which ends the process and so is the restart); the delay before each
attempt, and several owners, who share nothing but the workers. There, in `StatusStream` and in
`BookingPage` the sweep and the charge are one step each: what comes of their overlap is
`HeldPipeline`'s. Left out of `BookingPage`: above. In `StatusStream` a paid row is confirmed
at once; when the confirm job is lost between its INSERT and its enqueue the row ends as EXPIRED,
which is the sweep's step. Left out of `Session`: sign-up, password hashing and the Google profile,
which are library calls without a state of their own here.

`ActivityGate` says what the gate promises and no more: a drift that begins after the last activity is
left to the daily check. It can begin late: a sweep may die 35 s after the last booking, and the 55 s
until the end of the flag are shorter than the 60 s of the reconcile.

Not modelled at all: metrics and deployment, which change no state.

**Disagreements without a run.** Each of these was seen with the checker and can be seen again with
the module, constants and property given.

| Where | What happens | How to see it |
|---|---|---|
| `reservations.service.ts:290` | The write of the activity flag (270) throws after the INSERT; the catch-all returns the seat of a live row, which is sold again. | `MCHeldPipeline`, `Requests` {r1, r4}, `TotalQty` and `Attempts` 1, `Faults` {"flagFails"}, `QuietSpec`, `NoOversell` |
| `sweep.processor.ts:96` | A payment job waits longer than the 5 min fallback, and is PAID for a row that is EXPIRED; `docs/decisions/0023` line 50 excludes this. | the same with `Requests` {r1} and `Faults` {"backlog"}, `PaidKept` |
| `payment.processor.ts:84`, `sweep.processor.ts:88` | The charge reads the status of the reservation without a lock on it. A sweep whose UPDATE began before `pay` committed and is still running sees no payment, so the payment becomes PAID and the row EXPIRED, without any fault. The comments at `payment.processor.ts:20-22` and 77-79 say that only one of the two wins. | the same with `Requests` {r1} and `Faults` {}, `PaidHasTicket` |
| `events.service.ts:127` | The statistics stream creates the load-test event, a reset asks for another total and finishes, and the stream's SET of the stock to its own total comes last. The comment at `load-test.service.ts:326-328` says that the final stock is what the reset asked for. A reconcile puts it right. | `MCSimulation`, `Calls` {stats, reset}, the rest as in `reset_fk`, `FinalStockIsRequested` |
| `queue.service.ts:258` | `purge` removes a load-test event from the active set after a join has entered the line: nobody reads it until the next join. | `AdmissionQueue`, one virtual user, `MaxCalls` and `MaxResets` 1, no restart, `LoadTest` TRUE, `ActiveIfWaiting` |
| `booking-form.tsx:16` | The login expires on the booking page. The error offers to repeat what cannot succeed, since `needsReauth` knows the messages of the gate and of a deleted account but not passport's own, against the comments at 8-15 and 379-381. | `BookingPage`, constants of `visitor`, `ReauthOffered` |
| `queue.service.ts:92` | A visitor joins again while the worker pops him, is queued and admitted at once, and his page jumps to the booking. | `AdmissionQueue`, one user who is not virtual, `MaxCalls` 2, no reset or restart, `LoadTest` FALSE, `NoJumpToAdmitted` |

**Behaviours that the models have and no property excludes**, because the code accepts them or has
nobody who could prevent them:

- A retransmission that arrives when the stock is at zero is refused with 409 before it comes to its
  reservation, against `docs/decisions/0015` line 48 (the loser of the UNIQUE race gets the existing
  one, but the gate comes first).
- A page may show an admission as expired between the worker's ZPOPMIN and its SET, which a comment of
  the worker accepts; a restart between the ZADD and the SADD of a join hides the line until the next
  join.
- A reset that meets the crowd leaves users who were on their way in the counters of the next round
  (`ResetForgets` bounds them), and those who wait listen for nothing. A restart leaves a pending
  count of users nobody will inject, until a reset forgets it.
- A 409 of `pay` is taken for sold out by the caller, and counted by nobody (`OutcomesAddUp` excepts
  it); the demo does not count an error either.
- After a booking whose fetch rejects, the button stays disabled until the page is left.
- The last answer wins: a second join or a payment pressed twice may overwrite a card, a confirmed one
  included. A repeated pay after settlement is answered 409, although the comment at
  `payments.service.ts:84` promises the same answer.
- The sweep publishes no EXPIRED, and a CANCELLED whose INCRBY throws is never published: the page
  waits. A stream that is refused when it connects again does not try again.
- Log-out with an expired gate keeps the login cookie, since the gate refuses the request that would
  clear it.

What is left, in order: the pure operators of batch size and waiting time against their definitions;
the steps of the leads-to arguments that are safety (that a hold which is not settled always has a
worker that will see it), as invariants.
