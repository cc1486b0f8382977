---------------------------- MODULE SimulationProofs ----------------------------
(***************************************************************************)
(* Proofs about Simulation, for any number of requests, resets, virtual    *)
(* users and seats: how many seats a late seed or a reset under load can   *)
(* give away, and that none is lost; that the outcomes add up, that a      *)
(* reset forgets them, and that the backlog shown is what is to come.      *)
(***************************************************************************)
EXTENDS Simulation, FiniteSetTheorems, TLAPS

-----------------------------------------------------------------------------
(* The inductive invariant *)

Shape ==
    /\ stock \in Int
    /\ stragglers \in Nat /\ granted \in Nat
    /\ owed \subseteq Users
    /\ at = [u \in Users |-> at[u]]
    /\ resv = [u \in Users |-> resv[u]]
    /\ call = [c \in Calls |-> call[c]]
    /\ step \in [Calls -> Nat]
    /\ \A c \in Calls : call[c] = "seeding" => event

(* Whoever has a reservation, or has had one and its seat is owed, is past *)
(* the booking.                                                            *)
After == {"held", "booked", "conflict", "erring", "error", "lost"}
BookedIsAfter ==
    \A u \in Users :
        /\ resv[u] = "HELD" \/ u \in owed => at[u] \in After
        /\ u \in owed => resv[u] # "HELD"

(* Seats given, and decrements below zero not yet taken back. *)
Kept == Live \cup owed \cup Here({"taken", "returning"})
Over == Here({"overdrawn"})

(* At most the seats granted, and those held when the stock was written.   *)
NoneTwice ==
    /\ Cardinality(Kept) + Cardinality(Over) + stock <= granted + stragglers
    /\ Cardinality(Kept) <= granted + stragglers

(* A reset is not between the deletion of the reservations and its SET of  *)
(* the stock.                                                              *)
Settled == \A c \in Resets : step[c] <= 2 \/ step[c] > 5
NoneLost ==
    event /\ crashes = 0 /\ (\A c \in Calls : call[c] # "seeding") /\ Settled =>
        Cardinality(Kept) + Cardinality(Over) + stock >= granted

SeatInv == Shape /\ BookedIsAfter /\ NoneTwice /\ NoneLost

-----------------------------------------------------------------------------
(* Counting *)

LEMMA Finite ==
    ASSUME NEW S \in SUBSET Users
    PROVE  IsFiniteSet(S) /\ Cardinality(S) \in Nat
BY SimulationAssumption, FS_Subset, FS_CardinalityType

LEMMA KeptAreUsers ==
    ASSUME Shape
    PROVE  Kept \in SUBSET Users /\ Over \in SUBSET Users
BY DEF Shape, Kept, Over, Live, Here

LEMMA CountOneMore ==
    ASSUME NEW S \in SUBSET Users, NEW u \in Users, u \notin S
    PROVE  Cardinality(S \cup {u}) = Cardinality(S) + 1
BY Finite, FS_AddElement

LEMMA CountOneLess ==
    ASSUME NEW S \in SUBSET Users, NEW u \in S
    PROVE  Cardinality(S \ {u}) = Cardinality(S) - 1
BY Finite, FS_RemoveElement

LEMMA AskedIsNat == \A c \in Calls : Asked(c) \in Nat \ {0}
BY SetupAssumption DEF Asked

LEMMA CountFewer ==
    ASSUME NEW S \in SUBSET Users, NEW T \in SUBSET S
    PROVE  Cardinality(T) <= Cardinality(S)
BY Finite, FS_Subset

(* Everybody who holds a seat is in one of the two, and in one only. *)
LEMMA HoldingCounted ==
    ASSUME Shape, BookedIsAfter
    PROVE  Cardinality(Holding) = Cardinality(Kept) + Cardinality(Over)
<1>1. Holding = Kept \cup Over
  BY DEF Holding, Kept, Over, Here
<1>2. Kept \cap Over = {}
  BY DEF Kept, Over, Here, Live, BookedIsAfter, After
<1>3. IsFiniteSet(Kept) /\ IsFiniteSet(Over)
  BY KeptAreUsers, Finite
<1>4. Cardinality(Kept) \in Nat /\ Cardinality(Over) \in Nat
  BY KeptAreUsers, Finite
<1>5. Cardinality(Kept \cup Over)
         = Cardinality(Kept) + Cardinality(Over) - Cardinality(Kept \cap Over)
  BY <1>3, FS_Union
<1>6. Cardinality(Kept \cap Over) = 0
  BY <1>2, FS_EmptySet
<1> QED
  BY <1>1, <1>4, <1>5, <1>6

-----------------------------------------------------------------------------
(* What a step may do to the seats. Sound: the two bounds follow. *)

SameHolders == Kept' = Kept /\ Over' = Over
Unmoved == SameHolders /\ UNCHANGED <<stock, stragglers, granted>>
Taken(u) == u \notin Kept /\ Kept' = Kept \cup {u} /\ Over' = Over /\ stock >= 1 /\ stock' = stock - 1
Overdrawn(u) == u \notin Over /\ Over' = Over \cup {u} /\ Kept' = Kept /\ stock' = stock - 1
Returned(u) == u \in Kept /\ Kept' = Kept \ {u} /\ Over' = Over /\ stock' = stock + 1
TakenBack(u) == u \in Over /\ Over' = Over \ {u} /\ Kept' = Kept /\ stock' = stock + 1
Forgotten == Kept' \subseteq Kept /\ Over' \subseteq Over /\ UNCHANGED <<stock, stragglers, granted>>
Rewritten ==
    SameHolders /\ stock' = granted' /\ granted' \in Nat /\ stragglers' = Cardinality(Holding)

Moved(u) == UNCHANGED <<stragglers, granted>> /\ (Taken(u) \/ Overdrawn(u) \/ Returned(u) \/ TakenBack(u))

LEMMA MovedCounts ==
    ASSUME Shape, Shape', NEW u \in Users, Moved(u)
    PROVE  /\ NoneTwice => NoneTwice'
           /\ Cardinality(Kept') + Cardinality(Over') + stock'
                = Cardinality(Kept) + Cardinality(Over) + stock
<1> DEFINE k == Cardinality(Kept)  o == Cardinality(Over)
           l == Cardinality(Kept') p == Cardinality(Over')
<1>1. k \in Nat /\ o \in Nat /\ granted \in Nat
  BY KeptAreUsers, Finite DEF Shape
<1>2. stock \in Int /\ stock' \in Int /\ stragglers \in Nat
  BY DEF Shape
<1>3. CASE Taken(u)
  <2>1. l = k + 1 /\ p = o
    BY <1>3, KeptAreUsers, CountOneMore DEF Taken
  <2> QED
    BY <1>1, <1>2, <1>3, <2>1 DEF Taken, Moved, NoneTwice
<1>4. CASE Overdrawn(u)
  <2>1. l = k /\ p = o + 1
    BY <1>4, KeptAreUsers, CountOneMore DEF Overdrawn
  <2> QED
    BY <1>1, <1>2, <1>4, <2>1 DEF Overdrawn, Moved, NoneTwice
<1>5. CASE Returned(u)
  <2>1. l = k - 1 /\ p = o
    BY <1>5, KeptAreUsers, CountOneLess DEF Returned
  <2> QED
    BY <1>1, <1>2, <1>5, <2>1 DEF Returned, Moved, NoneTwice
<1>6. CASE TakenBack(u)
  <2>1. l = k /\ p = o - 1
    BY <1>6, KeptAreUsers, CountOneLess DEF TakenBack
  <2> QED
    BY <1>1, <1>2, <1>6, <2>1 DEF TakenBack, Moved, NoneTwice
<1> QED
  BY <1>3, <1>4, <1>5, <1>6 DEF Moved

LEMMA ForgottenCounts ==
    ASSUME Shape, NoneTwice, Forgotten
    PROVE  NoneTwice'
<1>1. Cardinality(Kept') <= Cardinality(Kept) /\ Cardinality(Over') <= Cardinality(Over)
  BY KeptAreUsers, CountFewer DEF Forgotten
<1>2. /\ Cardinality(Kept) \in Nat /\ Cardinality(Over) \in Nat
      /\ Cardinality(Kept') \in Nat /\ Cardinality(Over') \in Nat
  BY KeptAreUsers, Finite DEF Forgotten
<1> QED
  BY <1>1, <1>2, SetupAssumption DEF Forgotten, NoneTwice, Shape

LEMMA RewrittenCounts ==
    ASSUME Shape, BookedIsAfter, Rewritten
    PROVE  NoneTwice' /\ Cardinality(Kept') + Cardinality(Over') + stock' >= granted'
<1>1. Cardinality(Kept) \in Nat /\ Cardinality(Over) \in Nat
  BY KeptAreUsers, Finite
<1>2. /\ Cardinality(Kept') = Cardinality(Kept) /\ Cardinality(Over') = Cardinality(Over)
      /\ stock' = granted' /\ granted' \in Nat
      /\ stragglers' = Cardinality(Kept) + Cardinality(Over)
  BY HoldingCounted DEF Rewritten, SameHolders
<1> QED
  BY <1>1, <1>2 DEF NoneTwice

-----------------------------------------------------------------------------
(* One step *)

(* Nobody becomes answerable for lost seats by this step. *)
Calm ==
    /\ event' /\ crashes' = 0 /\ (\A c \in Calls : call'[c] # "seeding") /\ Settled'
    => event /\ crashes = 0 /\ (\A c \in Calls : call[c] # "seeding") /\ Settled

LEMMA UnmovedKeeps ==
    ASSUME SeatInv, Shape', BookedIsAfter', Unmoved, Calm
    PROVE  SeatInv'
BY DEF SeatInv, Unmoved, SameHolders, Calm, NoneTwice, NoneLost

LEMMA MovedKeeps ==
    ASSUME SeatInv, Shape', BookedIsAfter', NEW u \in Users, Moved(u), Calm
    PROVE  SeatInv'
BY MovedCounts DEF SeatInv, Calm, NoneLost, Moved

LEMMA SeatInit == Init => SeatInv
<1> SUFFICES ASSUME Init PROVE SeatInv
  OBVIOUS
<1>1. Shape /\ BookedIsAfter
  BY DEF Init, Shape, BookedIsAfter
<1>2. Kept = {} /\ Over = {}
  BY DEF Init, Kept, Over, Live, Here
<1>3. Cardinality(Kept) = 0 /\ Cardinality(Over) = 0
  BY <1>2, FS_EmptySet
<1> QED
  BY <1>1, <1>3, SetupAssumption DEF Init, SeatInv, NoneTwice, NoneLost

(* A virtual user: only his booking moves a seat. *)
LEMMA UserKeeps ==
    ASSUME SeatInv, NEW u \in Users, UserStep(u)
    PROVE  SeatInv'
<1>1. Calm
  BY DEF UserStep, DemoInject, LoadTestInject, Admit, DemoAttempt, LoadTestAttempt, Attempt,
         CreateUser, JoinLine, InjectionFails, CountError, Decide, CountAbandoned, Take, GiveBack,
         Seat, CountSoldOut, Insert, InsertFails, Pay, Calm, Settled, elseVars, setupVars, eventVars,
         callVars, pastVars, writeVars
<1>2. ASSUME NEW before, NEW after, Goes(u, before, after),
             after \in After \/ before \notin After,
             UNCHANGED <<stock, event, call, step, stragglers, granted, resv, owed>>,
             before \notin {"taken", "returning", "overdrawn"} \/ (before = "taken" /\ after = "returning"),
             after \notin {"taken", "returning", "overdrawn"} \/ (before = "taken" /\ after = "returning")
      PROVE  SeatInv'
  <2>1. Shape' /\ BookedIsAfter'
    BY <1>2 DEF SeatInv, Shape, BookedIsAfter, Goes
  <2>2. Unmoved
    BY <1>2 DEF SeatInv, Shape, Unmoved, SameHolders, Kept, Over, Live, Here, Goes
  <2> QED
    BY <1>1, <2>1, <2>2, UnmovedKeeps
<1> USE DEF elseVars, setupVars, eventVars, callVars, pastVars, writeVars, rowVars, After
<1>3. CASE CreateUser(u) \/ JoinLine(u) \/ (\E after \in {"error", "failing"} : InjectionFails(u, after))
  BY <1>2, <1>3 DEF CreateUser, JoinLine, InjectionFails
<1>4. CASE \E before \in {"failing", "erring"} : CountError(u, before)
  BY <1>2, <1>4 DEF CountError
<1>5. CASE Admit(u) \/ Decide(u) \/ CountAbandoned(u) \/ CountSoldOut(u)
  BY <1>2, <1>5 DEF Admit, Decide, CountAbandoned, CountSoldOut
<1>6. CASE InsertFails(u) \/ Pay(u) \/ (Goes(u, "erring", "error") /\ UNCHANGED <<elseVars, rowVars, counterVars>>)
  BY <1>2, <1>6 DEF InsertFails, Pay
<1>7. CASE Take(u)
  <2>1. at[u] = "booking" /\ resv[u] # "HELD" /\ u \notin owed
    BY <1>7 DEF Take, Seat, Goes, SeatInv, BookedIsAfter
  <2>2. Shape' /\ BookedIsAfter'
    BY <1>7, <2>1 DEF Take, Seat, Goes, SeatInv, Shape, BookedIsAfter
  <2>3. Moved(u)
    <3>1. CASE stock < 1
      <4>1. Overdrawn(u)
        BY <1>7, <2>1, <3>1 DEF Take, Seat, Goes, SeatInv, Shape, Overdrawn, Kept, Over, Live, Here
      <4> QED
        BY <1>7, <4>1 DEF Take, Seat, Moved
    <3>2. CASE stock >= 1
      <4>1. Taken(u)
        BY <1>7, <2>1, <3>2 DEF Take, Seat, Goes, SeatInv, Shape, Taken, Kept, Over, Live, Here
      <4> QED
        BY <1>7, <4>1 DEF Take, Seat, Moved
    <3> QED
      BY <3>1, <3>2 DEF SeatInv, Shape
  <2> QED
    BY <1>1, <2>2, <2>3, MovedKeeps
<1>8. CASE GiveBack(u)
  <2>1. at[u] \notin After /\ resv[u] # "HELD" /\ u \notin owed
    BY <1>8 DEF GiveBack, Seat, Goes, SeatInv, BookedIsAfter
  <2>2. Shape' /\ BookedIsAfter'
    BY <1>8, <2>1 DEF GiveBack, Seat, Goes, SeatInv, Shape, BookedIsAfter
  <2>3. CASE Seat(u, 1, "overdrawn", "refused")
    <3>1. TakenBack(u) /\ UNCHANGED <<stragglers, granted>>
      BY <2>1, <2>3 DEF Seat, Goes, SeatInv, Shape, TakenBack, Kept, Over, Live, Here
    <3> QED
      BY <1>1, <2>2, <3>1, MovedKeeps DEF Moved
  <2>4. CASE Seat(u, 1, "returning", "erring")
    <3>1. Returned(u) /\ UNCHANGED <<stragglers, granted>>
      BY <2>1, <2>4 DEF Seat, Goes, SeatInv, Shape, Returned, Kept, Over, Live, Here
    <3> QED
      BY <1>1, <2>2, <3>1, MovedKeeps DEF Moved
  <2> QED
    BY <1>8, <2>3, <2>4 DEF GiveBack
<1>9. CASE Insert(u)
  <2>1. Shape' /\ BookedIsAfter'
    BY <1>9 DEF Insert, Goes, SeatInv, Shape, BookedIsAfter
  <2>2. Unmoved
    BY <1>9 DEF Insert, Goes, SeatInv, Shape, Unmoved, SameHolders, Kept, Over, Live, Here
  <2> QED
    BY <1>1, <2>1, <2>2, UnmovedKeeps
<1> QED
  BY <1>3, <1>4, <1>5, <1>6, <1>7, <1>8, <1>9
     DEF UserStep, DemoInject, LoadTestInject, DemoAttempt, LoadTestAttempt, Attempt

(* The workers: a seat that is owed is still taken until it is returned. *)
LEMMA WorkerKeeps ==
    ASSUME SeatInv, NEW u \in Users,
           (\E accepted \in BOOLEAN : Charge(u, accepted)) \/ Expire(u) \/ ReturnSeat(u)
    PROVE  SeatInv'
<1> USE DEF setupVars, eventVars, callVars, pastVars, writeVars, userVars, After
<1>1. Calm
  BY DEF Charge, Expire, ReturnSeat, Calm, Settled
<1>2. CASE (\E accepted \in BOOLEAN : Charge(u, accepted)) \/ Expire(u)
  <2>1. /\ UNCHANGED <<stock, event, call, step, stragglers, granted, at>>
        /\ \/ UNCHANGED <<resv, owed>>
           \/ /\ resv[u] = "HELD" /\ owed' = owed \cup {u}
              /\ \E after \in {"CANCELLED", "EXPIRED"} : resv' = [resv EXCEPT ![u] = after]
    BY <1>2 DEF Charge, Expire
  <2>2. Shape' /\ BookedIsAfter'
    BY <2>1 DEF SeatInv, Shape, BookedIsAfter
  <2>3. Unmoved
    BY <2>1 DEF SeatInv, Shape, Unmoved, SameHolders, Kept, Over, Live, Here
  <2> QED
    BY <1>1, <2>2, <2>3, UnmovedKeeps
<1>3. CASE ReturnSeat(u)
  <2>1. Shape' /\ BookedIsAfter'
    BY <1>3 DEF ReturnSeat, SeatInv, Shape, BookedIsAfter
  <2>2. Moved(u)
    <3>1. at[u] \in After /\ u \in owed
      BY <1>3 DEF ReturnSeat, SeatInv, BookedIsAfter
    <3>2. resv[u] # "HELD"
      BY <3>1 DEF SeatInv, BookedIsAfter
    <3>3. Returned(u)
      BY <1>3, <3>1, <3>2 DEF ReturnSeat, Returned, Kept, Over, Live, Here
    <3> QED
      BY <1>3, <3>3 DEF ReturnSeat, Moved
  <2> QED
    BY <1>1, <2>1, <2>2, MovedKeeps
<1> QED
  BY <1>2, <1>3

(* Obtaining the event, and injecting, leave the seats alone: only the     *)
(* seed writes the stock.                                                  *)
LEMMA SetUpKeeps ==
    ASSUME SeatInv, NEW c \in Calls, SetUp(c)
    PROVE  SeatInv'
<1> USE DEF callVars, rowVars, userVars, Moves, FindOrCreateDemo, FindOrCreateLoadTest
<1>1. UNCHANGED <<step, at, resv, owed, crashes>>
  BY DEF SetUp
<1>2. SameHolders
  BY <1>1 DEF SameHolders, Kept, Over, Live, Here
<1>3. BookedIsAfter'
  BY <1>1 DEF SeatInv, BookedIsAfter
<1>4. CASE call[c] = "seeding"
  <2>1. SeedStock(c) /\ stragglers' = Cardinality(Holding) /\ granted' = Asked(c)
    BY <1>4 DEF SetUp, FindEvent, CreateEvent, SeedStock, eventVars, LoseDemoRace, LoseLoadTestRace, FindWinner
  <2>2. stragglers' \in Nat /\ Asked(c) \in Nat
    <3>1. Holding \in SUBSET Users
      BY DEF Holding, Live, Here, SeatInv, Shape
    <3> QED
      BY <2>1, <3>1, Finite, AskedIsNat
  <2>3. Shape'
    BY <1>1, <2>1, <2>2 DEF SeedStock, SeatInv, Shape
  <2>4. Rewritten
    BY <1>2, <2>1, <2>2 DEF SeedStock, Rewritten
  <2> QED
    BY <1>3, <2>3, <2>4, RewrittenCounts DEF SeatInv, NoneLost
<1>5. CASE call[c] # "seeding"
  <2>1. UNCHANGED <<stock, stragglers, granted>>
    BY <1>5 DEF SetUp, FindEvent, CreateEvent, SeedStock, eventVars, LoseDemoRace, LoseLoadTestRace, FindWinner
  <2>2. Shape'
    BY <1>1, <1>5, <2>1
       DEF SetUp, FindEvent, CreateEvent, SeedStock, eventVars, LoseDemoRace, LoseLoadTestRace, FindWinner,
           SeatInv, Shape
  <2>3. Calm
    <3>1. CASE CreateEvent(c)
      <4>1. call'[c] = "seeding"
        BY <3>1 DEF CreateEvent, SeatInv, Shape
      <4> QED
        BY <4>1 DEF Calm
    <3>2. CASE ~CreateEvent(c)
      <4>1. UNCHANGED event /\ \A d \in Calls : call[d] = "seeding" => call'[d] = "seeding"
        BY <1>5, <3>2
           DEF SetUp, FindEvent, SeedStock, eventVars, LoseDemoRace, LoseLoadTestRace, FindWinner,
               SeatInv, Shape
      <4> QED
        BY <1>1, <4>1 DEF Calm, Settled
    <3> QED
      BY <3>1, <3>2
  <2>4. Unmoved
    BY <1>2, <2>1 DEF Unmoved
  <2> QED
    BY <1>3, <2>2, <2>3, <2>4, UnmovedKeeps
<1> QED
  BY <1>4, <1>5

(* A request that goes on without touching a seat. *)
LEMMA CallKeeps ==
    ASSUME SeatInv, NEW c \in Calls,
           UNCHANGED <<stock, stragglers, granted, event, crashes, resv, owed, step>>,
           UNCHANGED call \/ \E before, after : Moves(c, before, after) /\ {before, after} \cap {"seeding"} = {},
           UNCHANGED at \/ \E fresh \in SUBSET Here({"free"}) :
              at' = [u \in Users |-> IF u \in fresh THEN "creating" ELSE at[u]]
    PROVE  SeatInv'
<1>1. \A u \in Users : at'[u] = at[u] \/ (at[u] = "free" /\ at'[u] = "creating")
  BY DEF Here
<1>2. Shape' /\ BookedIsAfter'
  BY <1>1 DEF SeatInv, Shape, BookedIsAfter, Moves, After
<1>3. Unmoved
  BY <1>1 DEF Unmoved, SameHolders, Kept, Over, Live, Here
<1>4. Calm
  BY DEF Calm, Settled, Moves, SeatInv, Shape
<1> QED
  BY <1>2, <1>3, <1>4, UnmovedKeeps

LEMMA InjectKeeps ==
    ASSUME SeatInv, NEW c \in Calls,
           \/ Ask(c) \/ (\E n, automatic : Simulate(c, n, automatic))
           \/ StartDemo(c) \/ Announce(c) \/ AnswerAuto(c) \/ DemoBatches(c) \/ LoadTestBatches(c)
    PROVE  SeatInv'
<1> USE DEF setupVars, eventVars, callVars, pastVars, writeVars, userVars, rowVars
<1>1. CASE Ask(c) \/ (\E n, automatic : Simulate(c, n, automatic)) \/ Announce(c) \/ AnswerAuto(c)
  <2>1. \/ Moves(c, "idle", "finding") \/ Moves(c, "idle", "refused")
        \/ Moves(c, "ready", "injecting") \/ Moves(c, "guaranteeing", "injecting")
    BY <1>1 DEF Ask, Simulate, Announce, AnswerAuto
  <2>2. UNCHANGED <<stock, stragglers, granted, event, crashes, resv, owed, step, at>>
    BY <1>1 DEF Ask, Simulate, Announce, AnswerAuto
  <2> QED
    BY <2>1, <2>2, CallKeeps
<1>2. ASSUME NEW size, NextBatch(c, size),
             UNCHANGED <<stock, stragglers, granted, event, crashes, resv, owed>>,
             UNCHANGED call \/ \E before, after : Moves(c, before, after) /\ {before, after} \cap {"seeding"} = {}
      PROVE  SeatInv'
  <2>1. \E fresh \in SUBSET Here({"free"}) :
           at' = [u \in Users |-> IF u \in fresh THEN "creating" ELSE at[u]]
    BY <1>2 DEF NextBatch, kSubset
  <2>2. UNCHANGED step
    BY <1>2 DEF NextBatch
  <2> QED
    BY <1>2, <2>1, <2>2, CallKeeps
<1>3. CASE StartDemo(c)
  <2>1. CASE Moves(c, "ready", "guaranteeing") /\ NextBatch(c, Guarantee)
    BY <1>2, <1>3, <2>1 DEF StartDemo
  <2>2. CASE Moves(c, "ready", "injecting") /\ UNCHANGED <<callVars, userVars>>
    BY <1>3, <2>2, CallKeeps DEF StartDemo
  <2> QED
    BY <1>3, <2>1, <2>2 DEF StartDemo
<1>4. CASE StartBatch(c)
  BY <1>2, <1>4 DEF StartBatch
<1>5. CASE EndBatch(c)
  BY <1>5, CallKeeps DEF EndBatch
<1> QED
  BY <1>1, <1>3, <1>4, <1>5 DEF DemoBatches, LoadTestBatches

-----------------------------------------------------------------------------
(* The reset *)

Plans == {DemoPlan, LoadTestPlan}

(* The first five statements are the same in both plans. *)
LEMMA PlanOrder ==
    ASSUME NEW plan \in Plans, NEW i \in Nat, i \in DOMAIN plan
    PROVE  /\ plan[i] = "payments" <=> i = 1
           /\ plan[i] = "reservations" <=> i = 2
           /\ plan[i] = "users" <=> i = 3
           /\ plan[i] = "inventory" <=> i = 4
           /\ plan[i] = "stock" <=> i = 5
<1>1. CASE plan = DemoPlan
  BY <1>1 DEF DemoPlan
<1>2. CASE plan = LoadTestPlan
  BY <1>2 DEF LoadTestPlan
<1> QED
  BY <1>1, <1>2 DEF Plans

LEMMA ResetKeeps ==
    ASSUME SeatInv, NEW c \in Calls, NEW plan \in Plans, ResetStep(c, plan)
    PROVE  SeatInv'
<1> USE DEF resetFrame, setupVars, eventVars, callVars, pastVars, writeVars, userVars, rowVars, counterVars, injectVars
<1>1. c \in Resets /\ step \in [Calls -> Nat] /\ step[c] \in Nat /\ step[c] \in DOMAIN plan
  BY DEF ResetStep, DeletePayments, DeleteReservations, DeleteUsers, ForeignKeyFails, ResetInventory, ResetStock, resetElse,
         ResetCounter, PurgeLine, Does, NextInPlan, Resets, SeatInv, Shape
<1>2. ASSUME NEW what, Does(c, plan, what)
      PROVE  /\ step' = [step EXCEPT ![c] = step[c] + 1]
             /\ step' \in [Calls -> Nat]
             /\ what = "payments" => step[c] = 1
             /\ what = "reservations" => step[c] = 2
             /\ what = "users" => step[c] = 3
             /\ what = "inventory" => step[c] = 4
             /\ what = "stock" => step[c] = 5
             /\ what \notin {"payments", "reservations", "users", "inventory", "stock"} =>
                   step[c] \notin 1..5
             /\ step[c] # 0
  <2>1. plan[step[c]] = what /\ step' = [step EXCEPT ![c] = step[c] + 1]
    BY <1>2 DEF Does, NextInPlan
  <2>2. step' \in [Calls -> Nat]
    BY <1>1, <2>1
  <2>3. step[c] # 0
    BY <1>1 DEF Plans, DemoPlan, LoadTestPlan
  <2> QED
    BY <1>1, <2>1, <2>2, <2>3, PlanOrder
<1>3. ASSUME NEW what, Does(c, plan, what), what \notin {"reservations", "stock"},
             UNCHANGED <<stock, stragglers, granted, event, call, crashes, resv, owed>>,
             \A u \in Users : at'[u] = at[u] \/ (at[u] = "waiting" /\ at'[u] = "stranded"),
             at' = [u \in Users |-> at'[u]]
      PROVE  SeatInv'
  <2>1. Shape' /\ BookedIsAfter'
    BY <1>2, <1>3 DEF SeatInv, Shape, BookedIsAfter, After
  <2>2. Unmoved
    BY <1>3 DEF Unmoved, SameHolders, Kept, Over, Live, Here
  <2>3. Settled' => Settled
    BY <1>1, <1>2, <1>3 DEF Settled, Resets
  <2>4. Calm
    BY <1>3, <2>3 DEF Calm
  <2> QED
    BY <2>1, <2>2, <2>4, UnmovedKeeps
<1>4. CASE \/ DeletePayments(c, plan) \/ DeleteUsers(c, plan) \/ ResetInventory(c, plan)
           \/ ResetCounter(c, plan) \/ PurgeLine(c, plan)
  BY <1>3, <1>4
     DEF DeletePayments, DeleteUsers, ResetInventory, resetElse, ResetCounter, PurgeLine, SeatInv, Shape
<1>5. CASE ForeignKeyFails(c, plan)
  BY <1>5, CallKeeps DEF ForeignKeyFails
<1>6. CASE DeleteReservations(c, plan)
  <2>1. /\ UNCHANGED <<stock, stragglers, granted, event, call, crashes, at, owed>>
        /\ resv' = [u \in Users |-> "none"]
    BY <1>6 DEF DeleteReservations
  <2>2. Does(c, plan, "reservations")
    BY <1>6 DEF DeleteReservations
  <2>3. Shape' /\ BookedIsAfter'
    BY <1>2, <2>1, <2>2 DEF SeatInv, Shape, BookedIsAfter
  <2>4. NoneTwice'
    <3>1. Forgotten
      BY <2>1 DEF Forgotten, Kept, Over, Live, Here
    <3> QED
      BY <3>1, ForgottenCounts DEF SeatInv
  <2>5. ~Settled'
    <3>1. step'[c] = 3
      BY <1>1, <1>2, <2>2
    <3> QED
      BY <1>1, <3>1 DEF Settled, Resets
  <2> QED
    BY <2>3, <2>4, <2>5 DEF SeatInv, NoneLost
<1>7. CASE ResetStock(c, plan)
  <2>1. /\ UNCHANGED <<event, call, crashes, resv, at, owed>>
        /\ stock' = Asked(c) /\ stragglers' = Cardinality(Holding) /\ granted' = Asked(c)
    BY <1>7 DEF ResetStock, resetElse
  <2>2. stragglers' \in Nat /\ Asked(c) \in Nat
    <3>1. Holding \in SUBSET Users
      BY DEF Holding, Live, Here, SeatInv, Shape
    <3> QED
      BY <2>1, <3>1, Finite, AskedIsNat
  <2>3. step' \in [Calls -> Nat]
    BY <1>2, <1>7 DEF ResetStock
  <2>4. Shape' /\ BookedIsAfter'
    BY <2>1, <2>2, <2>3 DEF SeatInv, Shape, BookedIsAfter
  <2>5. Rewritten
    BY <2>1, <2>2 DEF Rewritten, SameHolders, Kept, Over, Live, Here
  <2> QED
    BY <2>4, <2>5, RewrittenCounts DEF SeatInv, NoneLost
<1> QED
  BY <1>4, <1>5, <1>6, <1>7 DEF ResetStep

(* A counter that fails touches no seat. *)
LEMMA UncountedKeeps ==
    ASSUME SeatInv, (\E c \in Calls : BatchUncounted(c)) \/ (\E u \in Users : ErrorUncounted(u))
    PROVE  SeatInv'
<1> USE DEF eventVars, callVars, pastVars, writeVars, userVars, rowVars
<1>1. CASE \E c \in Calls : BatchUncounted(c)
  BY <1>1, CallKeeps DEF BatchUncounted
<1>2. CASE \E u \in Users : ErrorUncounted(u)
  <2>1. PICK u \in Users : Goes(u, "failing", "lost")
    BY <1>2 DEF ErrorUncounted
  <2>2. /\ UNCHANGED <<stock, stragglers, granted, event, crashes, resv, owed, step>>
        /\ call' = [c \in Calls |-> call'[c]]
        /\ \A c \in Calls : call'[c] = "seeding" <=> call[c] = "seeding"
    BY <1>2 DEF ErrorUncounted
  <2>3. Shape' /\ BookedIsAfter'
    BY <2>1, <2>2 DEF SeatInv, Shape, BookedIsAfter, Goes, After
  <2>4. Unmoved
    BY <2>1, <2>2 DEF Unmoved, SameHolders, Kept, Over, Live, Here, Goes, SeatInv, Shape
  <2>5. Calm
    BY <2>2 DEF Calm, Settled
  <2> QED
    BY <2>3, <2>4, <2>5, UnmovedKeeps
<1> QED
  BY <1>1, <1>2

(* A restart forgets seats, and keeps what has been written. *)
LEMMA CrashKeeps ==
    ASSUME SeatInv, Crash
    PROVE  SeatInv'
<1>1. /\ UNCHANGED <<stock, stragglers, granted, event, resv, step>> /\ crashes' = 1 /\ owed' = {}
      /\ \A u \in Users : at'[u] \in {at[u], "lost"}
      /\ at' = [u \in Users |-> at'[u]]
      /\ call' = [c \in Calls |-> call'[c]]
      /\ \A c \in Calls : call'[c] # "seeding" \/ call'[c] = call[c]
  BY DEF Crash, callVars, eventVars, writeVars
<1>2. Shape' /\ BookedIsAfter'
  BY <1>1 DEF SeatInv, Shape, BookedIsAfter, After
<1>3. Forgotten
  BY <1>1 DEF Forgotten, Kept, Over, Live, Here
<1> QED
  BY <1>1, <1>2, <1>3, ForgottenCounts DEF SeatInv, NoneLost

-----------------------------------------------------------------------------

LEMMA SeatStep == SeatInv /\ [Next]_vars => SeatInv'
<1> SUFFICES ASSUME SeatInv, [Next]_vars PROVE SeatInv'
  OBVIOUS
<1>1. CASE UNCHANGED vars
  BY <1>1 DEF vars, setupVars, eventVars, callVars, pastVars, writeVars, userVars, rowVars, SeatInv, Shape, BookedIsAfter,
              NoneTwice, NoneLost, Settled, Kept, Over, Live, Here
<1>2. ASSUME NEW c \in Calls, CallStep(c)
      PROVE  SeatInv'
  <2>1. CASE SetUp(c)
    BY <2>1, SetUpKeeps
  <2>2. CASE StartDemo(c) \/ Announce(c) \/ AnswerAuto(c) \/ DemoBatches(c) \/ LoadTestBatches(c)
    BY <2>2, InjectKeeps
  <2>3. CASE DemoReset(c) \/ LoadTestReset(c)
    BY <2>3, ResetKeeps DEF DemoReset, LoadTestReset, Plans
  <2> QED
    BY <1>2, <2>1, <2>2, <2>3 DEF CallStep
<1>3. CASE Next
  BY <1>2, <1>3, InjectKeeps, UserKeeps, WorkerKeeps, UncountedKeeps, CrashKeeps DEF Next
<1> QED
  BY <1>1, <1>3

LEMMA SeatsAlways == Spec => []SeatInv
BY SeatInit, SeatStep, PTL DEF Spec

(* However many seats are booked while the event's stock is still to be    *)
(* seeded, and whenever resets write it anew, with whatever totals, among  *)
(* bookings, sweeps and payments: no more are sold than the last write     *)
(* granted and were held at it (SET of findOrCreate and of both resets).   *)
THEOREM SoldIsBounded == Spec => []SoldWithinStragglers
<1>1. SeatInv => SoldWithinStragglers
  <2> SUFFICES ASSUME SeatInv PROVE Cardinality(Live) <= granted + stragglers
    BY DEF SoldWithinStragglers
  <2>1. Cardinality(Live) <= Cardinality(Kept)
    BY KeptAreUsers, CountFewer DEF SeatInv, Kept
  <2>2. Cardinality(Live) \in Nat /\ Cardinality(Kept) \in Nat
    BY KeptAreUsers, Finite DEF SeatInv, Live
  <2> QED
    BY <2>1, <2>2 DEF SeatInv, Shape, NoneTwice
<1> QED
  BY <1>1, SeatsAlways, PTL

(* And none of that grant is lost, by whatever order of decrements,        *)
(* refusals, failed inserts, sweeps and declined payments, as long as no   *)
(* restart and no unfinished reset has interfered (createHeld, sweep,      *)
(* payment worker).                                                        *)
THEOREM NoSeatLost == Spec => []SeatsNotLost
<1>1. SeatInv => SeatsNotLost
  <2>1. SeatInv /\ (\A c \in Resets : Untouched(c) \/ Finished(c)) => Settled
    BY DEF Settled, Untouched, Finished, ResetPlan, DemoPlan, LoadTestPlan
  <2>2. SeatInv => Cardinality(Holding) = Cardinality(Kept) + Cardinality(Over)
    BY HoldingCounted DEF SeatInv
  <2>3. SeatInv => stock \in Int /\ granted \in Nat /\ Cardinality(Kept) \in Nat /\ Cardinality(Over) \in Nat
    BY KeptAreUsers, Finite DEF SeatInv, Shape
  <2> QED
    BY <2>1, <2>2, <2>3 DEF SeatsNotLost, SeatInv, NoneLost, Shape
<1> QED
  BY <1>1, SeatsAlways, PTL

-----------------------------------------------------------------------------
(* Types *)

Places == Arriving \cup
    {"free", "waiting", "heard", "leaving", "booking", "overdrawn", "refused", "taken",
     "returning", "erring", "held", "booked", "abandoned", "soldOut", "conflict", "error",
     "stranded", "lost"}
CallPlaces == {"idle", "finding", "creating", "seeding", "losing", "ready", "guaranteeing",
               "injecting", "refused", "failed", "dead", "cutOff"}

CallTypes ==
    /\ kind \in {"demo", "loadTest"}
    /\ event \in BOOLEAN
    /\ call \in [Calls -> CallPlaces]
    /\ auto \subseteq Calls
    /\ left \in [Calls -> 0..MaxVu]
    /\ batch \in [Calls -> SUBSET Users]
    /\ step \in [Calls -> 1..12]
    /\ totalQty \in Nat /\ late \subseteq Calls
    /\ requested \in Nat /\ injected \in Nat

UserTypes ==
    /\ at \in [Users -> Places]
    /\ account \subseteq Users
    /\ resv \in [Users -> {"none", "HELD", "EXPIRED", "CANCELLED"}]
    /\ payment \in [Users -> {"none", "PENDING", "PAID", "FAILED"}]
    /\ owed \subseteq Users
    /\ soldout \in Nat /\ abandoned \in Nat /\ systemError \in Nat
    /\ old \subseteq Users
    /\ crashes \in 0..1

TypeInv == CallTypes /\ UserTypes

LEMMA TypesInit == Init => TypeInv
<1> SUFFICES ASSUME Init PROVE TypeInv
  OBVIOUS
<1>1. left \in [Calls -> 0..MaxVu] /\ batch \in [Calls -> SUBSET Users]
  BY SimulationAssumption DEF Init
<1>2. call \in [Calls -> CallPlaces] /\ step \in [Calls -> 1..12]
  BY DEF Init, CallPlaces
<1>3. at \in [Users -> Places]
  BY DEF Init, Places
<1>4. CallTypes
  BY <1>1, <1>2 DEF Init, CallTypes
<1>5. resv \in [Users -> {"none", "HELD", "EXPIRED", "CANCELLED"}]
  BY DEF Init
<1>6. payment \in [Users -> {"none", "PENDING", "PAID", "FAILED"}]
  BY DEF Init
<1>7. UserTypes
  BY <1>3, <1>5, <1>6 DEF Init, UserTypes
<1> QED
  BY <1>4, <1>7 DEF TypeInv

(* A virtual user and the workers change nothing of the requests. *)
LEMMA UserStepTypes ==
    ASSUME TypeInv, NEW u \in Users,
           \/ UserStep(u) \/ (\E accepted \in BOOLEAN : Charge(u, accepted)) \/ Expire(u)
           \/ ReturnSeat(u)
    PROVE  TypeInv'
<1> USE DEF elseVars, setupVars, eventVars, callVars, injectVars, userVars, rowVars, counterVars, pastVars, writeVars
<1>1. CallTypes'
  <2>1. UNCHANGED <<kind, event, totalQty, late, call, auto, left, batch, step, requested, injected>>
    BY DEF UserStep, DemoInject, LoadTestInject, Admit, DemoAttempt, LoadTestAttempt, Attempt,
           CreateUser, JoinLine, InjectionFails, CountError, Decide, CountAbandoned, Take,
           GiveBack, Seat, CountSoldOut, Insert, InsertFails, Pay, Charge, Expire, ReturnSeat
  <2> QED
    BY <2>1 DEF TypeInv, CallTypes
<1>2. at' \in [Users -> Places]
  BY DEF UserStep, DemoInject, LoadTestInject, Admit, DemoAttempt, LoadTestAttempt, Attempt,
         CreateUser, JoinLine, InjectionFails, CountError, Decide, CountAbandoned, Take,
         GiveBack, Seat, CountSoldOut, Insert, InsertFails, Pay, Charge, Expire, ReturnSeat,
         Goes, TypeInv, UserTypes, Places, Arriving
<1>3. /\ account' \subseteq Users
      /\ resv' \in [Users -> {"none", "HELD", "EXPIRED", "CANCELLED"}]
      /\ payment' \in [Users -> {"none", "PENDING", "PAID", "FAILED"}]
      /\ owed' \subseteq Users
  BY DEF UserStep, DemoInject, LoadTestInject, Admit, DemoAttempt, LoadTestAttempt, Attempt,
         CreateUser, JoinLine, InjectionFails, CountError, Decide, CountAbandoned, Take,
         GiveBack, Seat, CountSoldOut, Insert, InsertFails, Pay, Charge, Expire, ReturnSeat,
         TypeInv, UserTypes
<1>4. soldout' \in Nat /\ abandoned' \in Nat /\ systemError' \in Nat /\ UNCHANGED <<old, crashes>>
  BY DEF UserStep, DemoInject, LoadTestInject, Admit, DemoAttempt, LoadTestAttempt, Attempt,
         CreateUser, JoinLine, InjectionFails, CountError, Decide, CountAbandoned, Take,
         GiveBack, Seat, CountSoldOut, Insert, InsertFails, Pay, Charge, Expire, ReturnSeat,
         TypeInv, UserTypes
<1> QED
  BY <1>1, <1>2, <1>3, <1>4 DEF TypeInv, UserTypes

LEMMA SetUpTypes ==
    ASSUME TypeInv, NEW c \in Calls, SetUp(c)
    PROVE  TypeInv'
<1> USE DEF callVars, injectVars, userVars, rowVars, counterVars
<1>1. UserTypes'
  BY DEF SetUp, TypeInv, UserTypes
<1>2. UNCHANGED <<kind, auto, left, batch, step, requested, injected>>
  BY DEF SetUp, FindOrCreateDemo, FindOrCreateLoadTest, FindEvent, CreateEvent, SeedStock,
         eventVars, LoseDemoRace, LoseLoadTestRace, FindWinner
<1>3. event' \in BOOLEAN /\ call' \in [Calls -> CallPlaces] /\ totalQty' \in Nat /\ late' = late
  BY AskedIsNat DEF SetUp, FindOrCreateDemo, FindOrCreateLoadTest, FindEvent, CreateEvent, SeedStock,
         eventVars, LoseDemoRace, LoseLoadTestRace, FindWinner, Moves, TypeInv, CallTypes, CallPlaces
<1> QED
  BY <1>1, <1>2, <1>3 DEF TypeInv, CallTypes

(* What a batch takes from those who are free, and from the request. *)
LEMMA NextBatchTakes ==
    ASSUME TypeInv, NEW c \in Calls, NEW size \in Nat, NextBatch(c, size)
    PROVE  \E fresh \in SUBSET Here({"free"}) :
              /\ batch' = [batch EXCEPT ![c] = fresh]
              /\ left' = [left EXCEPT ![c] = @ - Cardinality(fresh)]
              /\ left[c] - Cardinality(fresh) \in 0..MaxVu
              /\ at' = [u \in Users |-> IF u \in fresh THEN "creating" ELSE at[u]]
              /\ UNCHANGED <<auto, step, account>>
<1> DEFINE n == IF size < left[c] THEN size ELSE left[c]
           fresh == CHOOSE S \in kSubset(n, Here({"free"})) : TRUE
<1>1. fresh \in kSubset(n, Here({"free"}))
  BY DEF NextBatch
<1>2. fresh \in SUBSET Here({"free"}) /\ Cardinality(fresh) = n
  BY <1>1 DEF kSubset
<1>3. left[c] - n \in 0..MaxVu
  BY SimulationAssumption DEF TypeInv, CallTypes
<1>4. /\ batch' = [batch EXCEPT ![c] = fresh]
      /\ left' = [left EXCEPT ![c] = @ - n]
      /\ at' = [u \in Users |-> IF u \in fresh THEN "creating" ELSE at[u]]
      /\ UNCHANGED <<auto, step, account>>
  BY DEF NextBatch
<1> HIDE DEF fresh, n
<1> QED
  BY <1>2, <1>3, <1>4

LEMMA InjectTypes ==
    ASSUME TypeInv, NEW c \in Calls,
           \/ Ask(c) \/ (\E n \in 1..(MaxVu + 1), automatic \in BOOLEAN : Simulate(c, n, automatic))
           \/ StartDemo(c) \/ Announce(c) \/ AnswerAuto(c) \/ DemoBatches(c) \/ LoadTestBatches(c)
    PROVE  TypeInv'
<1> USE DEF setupVars, eventVars, callVars, injectVars, userVars, rowVars, counterVars, pastVars, writeVars
<1>1. /\ UNCHANGED <<kind, event, totalQty, late, step, resv, payment, owed, soldout, abandoned, systemError, old,
                     crashes, account>>
      /\ call' \in [Calls -> CallPlaces]
  BY DEF Ask, Simulate, StartDemo, Announce, AnswerAuto, DemoBatches, LoadTestBatches, StartBatch,
         EndBatch, NextBatch, Moves, TypeInv, CallTypes, CallPlaces
<1>2. auto' \subseteq Calls
  BY DEF Ask, Simulate, StartDemo, Announce, AnswerAuto, DemoBatches, LoadTestBatches, StartBatch,
         EndBatch, NextBatch, TypeInv, CallTypes
<1>3. requested' \in Nat /\ injected' \in Nat
  <2>1. CASE Announce(c)
    BY <2>1 DEF Announce, TypeInv, CallTypes
  <2>2. CASE EndBatch(c) /\ injected' = injected + BatchCount(c) /\ UNCHANGED requested
    <3>1. BatchCount(c) \in Nat
      BY Finite DEF BatchCount, TypeInv, CallTypes
    <3> QED
      BY <2>2, <3>1 DEF TypeInv, CallTypes
  <2> QED
    BY <2>1, <2>2
       DEF Ask, Simulate, StartDemo, AnswerAuto, DemoBatches, LoadTestBatches, StartBatch,
           TypeInv, CallTypes
<1>4. /\ left' \in [Calls -> 0..MaxVu]
      /\ batch' \in [Calls -> SUBSET Users]
      /\ at' \in [Users -> Places]
  <2>1. CASE Ask(c) \/ Announce(c) \/ AnswerAuto(c) \/ EndBatch(c)
    BY <2>1 DEF Ask, Announce, AnswerAuto, EndBatch, TypeInv, CallTypes, UserTypes
  <2>2. CASE \E n \in 1..(MaxVu + 1), automatic \in BOOLEAN : Simulate(c, n, automatic)
    BY <2>2, SimulationAssumption DEF Simulate, TypeInv, CallTypes, UserTypes
  <2>3. ASSUME NEW size \in Nat, NextBatch(c, size)
        PROVE  /\ left' \in [Calls -> 0..MaxVu]
               /\ batch' \in [Calls -> SUBSET Users]
               /\ at' \in [Users -> Places]
    <3>1. PICK fresh \in SUBSET Here({"free"}) :
              /\ batch' = [batch EXCEPT ![c] = fresh]
              /\ left' = [left EXCEPT ![c] = @ - Cardinality(fresh)]
              /\ left[c] - Cardinality(fresh) \in 0..MaxVu
              /\ at' = [u \in Users |-> IF u \in fresh THEN "creating" ELSE at[u]]
      BY <2>3, NextBatchTakes
    <3> QED
      BY <3>1 DEF Here, Places, Arriving, TypeInv, CallTypes, UserTypes
  <2>4. CASE StartDemo(c)
    BY <2>3, <2>4, SimulationAssumption DEF StartDemo, TypeInv, CallTypes, UserTypes
  <2>5. CASE StartBatch(c)
    BY <2>3, <2>5, SimulationAssumption DEF StartBatch
  <2> QED
    BY <2>1, <2>2, <2>4, <2>5 DEF DemoBatches, LoadTestBatches
<1> QED
  BY <1>1, <1>2, <1>3, <1>4 DEF TypeInv, CallTypes, UserTypes

LEMMA ResetTypes ==
    ASSUME TypeInv, NEW c \in Calls, NEW plan \in Plans, ResetStep(c, plan)
    PROVE  TypeInv'
<1> USE DEF resetFrame, setupVars, eventVars, callVars, injectVars, userVars, rowVars, counterVars, pastVars, writeVars
<1>1. ASSUME NEW what, Does(c, plan, what)
      PROVE  step' \in [Calls -> 1..12]
  <2>1. step[c] \in 1..11 /\ step' = [step EXCEPT ![c] = step[c] + 1]
    BY <1>1 DEF Does, NextInPlan, Plans, DemoPlan, LoadTestPlan
  <2>2. step[c] + 1 \in 1..12
    BY <2>1
  <2> QED
    BY <2>1, <2>2 DEF TypeInv, CallTypes
<1>2. step' \in [Calls -> 1..12]
  BY <1>1
     DEF ResetStep, DeletePayments, DeleteReservations, DeleteUsers, ForeignKeyFails, ResetInventory, ResetStock, resetElse,
         ResetCounter, PurgeLine, TypeInv, CallTypes
<1>3. UNCHANGED <<kind, event, auto, left, batch, crashes>> /\ totalQty' \in Nat /\ late' \subseteq Calls
  BY AskedIsNat DEF Writers, TypeInv, CallTypes, ResetStep, DeletePayments, DeleteReservations, DeleteUsers, ForeignKeyFails, ResetInventory, ResetStock, resetElse,
         ResetCounter, PurgeLine
<1>4. call' \in [Calls -> CallPlaces] /\ requested' \in Nat /\ injected' \in Nat
  BY DEF ResetStep, DeletePayments, DeleteReservations, DeleteUsers, ForeignKeyFails, ResetInventory, ResetStock, resetElse,
         ResetCounter, PurgeLine, Moves, TypeInv, CallTypes, CallPlaces
<1>5. at' \in [Users -> Places]
  BY DEF ResetStep, DeletePayments, DeleteReservations, DeleteUsers, ForeignKeyFails, ResetInventory, ResetStock, resetElse,
         ResetCounter, PurgeLine, TypeInv, UserTypes, Places
<1>6. /\ account' \subseteq Users /\ owed' \subseteq Users /\ old' \subseteq Users
      /\ soldout' \in Nat /\ abandoned' \in Nat /\ systemError' \in Nat
  BY DEF ResetStep, DeletePayments, DeleteReservations, DeleteUsers, ForeignKeyFails, ResetInventory, ResetStock, resetElse,
         ResetCounter, PurgeLine, TypeInv, UserTypes, Through, Here
<1>7. resv' \in [Users -> {"none", "HELD", "EXPIRED", "CANCELLED"}]
  BY DEF ResetStep, DeletePayments, DeleteReservations, DeleteUsers, ForeignKeyFails, ResetInventory, ResetStock, resetElse,
         ResetCounter, PurgeLine, TypeInv, UserTypes
<1>8. payment' \in [Users -> {"none", "PENDING", "PAID", "FAILED"}]
  BY DEF ResetStep, DeletePayments, DeleteReservations, DeleteUsers, ForeignKeyFails, ResetInventory, ResetStock, resetElse,
         ResetCounter, PurgeLine, TypeInv, UserTypes
<1> QED
  BY <1>2, <1>3, <1>4, <1>5, <1>6, <1>7, <1>8 DEF TypeInv, CallTypes, UserTypes

LEMMA CrashTypes == ASSUME TypeInv, Crash PROVE TypeInv'
<1> USE DEF callVars, injectVars, counterVars, eventVars, writeVars
<1>1. call' \in [Calls -> CallPlaces]
  BY DEF Crash, TypeInv, CallTypes, CallPlaces
<1>2. at' \in [Users -> Places]
  BY DEF Crash, TypeInv, UserTypes, Places
<1> QED
  BY <1>1, <1>2 DEF Crash, TypeInv, CallTypes, UserTypes

LEMMA UncountedTypes ==
    ASSUME TypeInv, (\E c \in Calls : BatchUncounted(c)) \/ (\E u \in Users : ErrorUncounted(u))
    PROVE  TypeInv'
<1> USE DEF callVars, injectVars, userVars, rowVars, counterVars, pastVars, writeVars, eventVars
<1>1. call' \in [Calls -> CallPlaces]
  BY DEF BatchUncounted, ErrorUncounted, Moves, TypeInv, CallTypes, CallPlaces
<1>2. at' \in [Users -> Places]
  BY DEF BatchUncounted, ErrorUncounted, Goes, TypeInv, UserTypes, Places
<1> QED
  BY <1>1, <1>2 DEF BatchUncounted, ErrorUncounted, TypeInv, CallTypes, UserTypes

LEMMA TypesStep == TypeInv /\ [Next]_vars => TypeInv'
<1> SUFFICES ASSUME TypeInv, [Next]_vars PROVE TypeInv'
  OBVIOUS
<1>1. CASE UNCHANGED vars
  BY <1>1 DEF vars, setupVars, eventVars, callVars, injectVars, userVars, rowVars, counterVars, pastVars, writeVars,
              TypeInv, CallTypes, UserTypes
<1>2. ASSUME NEW c \in Calls, CallStep(c)
      PROVE  TypeInv'
  <2>1. CASE SetUp(c)
    BY <2>1, SetUpTypes
  <2>2. CASE StartDemo(c) \/ Announce(c) \/ AnswerAuto(c) \/ DemoBatches(c) \/ LoadTestBatches(c)
    BY <2>2, InjectTypes
  <2>3. CASE DemoReset(c) \/ LoadTestReset(c)
    BY <2>3, ResetTypes DEF DemoReset, LoadTestReset, Plans
  <2> QED
    BY <1>2, <2>1, <2>2, <2>3 DEF CallStep
<1>3. CASE Next
  BY <1>2, <1>3, InjectTypes, UserStepTypes, UncountedTypes, CrashTypes DEF Next
<1> QED
  BY <1>1, <1>3

-----------------------------------------------------------------------------
(* The total Redis was told and the total of the inventory *)

Opening == {"idle", "finding", "creating", "seeding", "losing"}

(* Unless somebody was late, whoever is about to SET the stock has the     *)
(* total the inventory has; and once nobody is, the last one has SET it.   *)
TotalInv ==
    /\ \A c \in Calls : call[c] \in {"seeding", "losing", "ready"} => event
    /\ \A c \in Resets : call[c] \in Opening => step[c] = 1
    /\ event /\ crashes = 0 /\ late = {} =>
          /\ \A c \in Writers : Asked(c) = totalQty
          /\ Writers = {} => granted = totalQty

Writing(c) == call[c] = "seeding" \/ (c \in Resets /\ call[c] = "ready" /\ step[c] = 5)

LEMMA WritersAre ==
    TypeInv => Writers = {c \in Calls : Writing(c)}
<1> SUFFICES ASSUME TypeInv PROVE Writers = {c \in Calls : Writing(c)}
  OBVIOUS
<1>1. ResetPlan \in Plans /\ 5 \in DOMAIN ResetPlan
  BY DEF ResetPlan, Plans, DemoPlan, LoadTestPlan
<1>2. ASSUME NEW c \in Calls
      PROVE  NextInPlan(c, ResetPlan, "stock") <=> c \in Resets /\ call[c] = "ready" /\ step[c] = 5
  <2>1. step[c] \in Nat
    BY DEF TypeInv, CallTypes
  <2>2. step[c] \in DOMAIN ResetPlan => (ResetPlan[step[c]] = "stock" <=> step[c] = 5)
    BY <1>1, <2>1, PlanOrder
  <2> HIDE DEF Plans
  <2> QED
    BY <1>1, <2>2 DEF NextInPlan, Resets
<1> QED
  BY <1>2 DEF Writers, Writing

LEMMA WritersAreNext == TypeInv' => Writers' = {c \in Calls : Writing(c)'}
<1>1. (TypeInv => Writers = {c \in Calls : Writing(c)})'
  BY WritersAre, PTL
<1> QED
  BY <1>1

(* Nobody begins or ends to be a writer, and no total changes. *)
LEMMA TotalsStay ==
    ASSUME TypeInv, TypeInv', TotalInv,
           UNCHANGED <<kind, event, totalQty, granted, late, crashes>>,
           \A c \in Calls :
              \/ call'[c] = call[c] /\ step'[c] = step[c]
              \/ /\ ~Writing(c) /\ ~Writing(c)'
                 /\ call'[c] \in {"seeding", "losing", "ready"} => event
                 /\ c \in Resets /\ call'[c] \in Opening => step'[c] = 1
    PROVE  TotalInv'
<1>1. \A c \in Calls : Writing(c)' <=> Writing(c)
  BY DEF Writing, Resets
<1>2. Writers' = Writers
  BY <1>1, WritersAre, WritersAreNext
<1>3. \A c \in Calls : Asked(c)' = Asked(c)
  BY DEF Asked
<1>4. \A c \in Writers : c \in Calls
  BY DEF Writers
<1>5. /\ \A c \in Calls : call'[c] \in {"seeding", "losing", "ready"} => event'
      /\ \A c \in Resets : call'[c] \in Opening => step'[c] = 1
  BY DEF TotalInv, Resets
<1>6. Resets' = Resets
  BY DEF Resets
<1> QED
  BY <1>2, <1>3, <1>4, <1>5, <1>6 DEF TotalInv

LEMMA TotalInit == Init => TotalInv
<1> SUFFICES ASSUME Init PROVE TotalInv
  OBVIOUS
<1> QED
  BY DEF Init, TotalInv, Resets

LEMMA SetUpTotals ==
    ASSUME TypeInv, TypeInv', TotalInv, NEW c \in Calls, SetUp(c)
    PROVE  TotalInv'
<1> USE DEF callVars, Moves
<1>1. /\ UNCHANGED <<step, late, crashes, kind>>
      /\ \A d \in Calls \ {c} : call'[d] = call[d]
      /\ \A d \in Calls : Asked(d)' = Asked(d)
  BY DEF SetUp, FindOrCreateDemo, FindOrCreateLoadTest, FindEvent, CreateEvent, SeedStock,
         eventVars, LoseDemoRace, LoseLoadTestRace, FindWinner, Asked, TypeInv, CallTypes
<1>2. c \in Resets => step[c] = 1
  BY DEF SetUp, FindOrCreateDemo, FindOrCreateLoadTest, FindEvent, CreateEvent, SeedStock,
         LoseDemoRace, LoseLoadTestRace, FindWinner, TotalInv, Opening
<1>3. CASE CreateEvent(c)
  <2>1. /\ ~event /\ event' /\ totalQty' = Asked(c) /\ call'[c] = "seeding"
    BY <1>3 DEF CreateEvent, TypeInv, CallTypes
  <2>2. \A d \in Calls : Writing(d)' <=> d = c
    BY <1>1, <2>1 DEF Writing, TotalInv, Resets
  <2>3. Writers' = {c}
    BY <2>2, WritersAreNext
  <2>4. Resets' = Resets /\ \A d \in Resets : call'[d] \in Opening => step'[d] = 1
    BY <1>1, <1>2 DEF TotalInv, Resets
  <2> QED
    BY <1>1, <2>1, <2>3, <2>4 DEF TotalInv
<1>4. CASE SeedStock(c)
  <2>1. /\ UNCHANGED <<event, totalQty>> /\ call[c] = "seeding" /\ call'[c] = "ready" /\ event
        /\ granted' = Asked(c)
    BY <1>4 DEF SetUp, SeedStock, TypeInv, CallTypes, TotalInv
  <2>2. Writing(c) /\ \A d \in Calls : Writing(d)' => Writing(d)
    BY <1>1, <1>2, <2>1 DEF Writing, Resets
  <2>3. c \in Writers /\ Writers' \subseteq Writers
    BY <2>2, WritersAre, WritersAreNext
  <2>4. /\ Resets' = Resets /\ \A d \in Resets : call'[d] \in Opening => step'[d] = 1
        /\ \A d \in Calls : call'[d] \in {"seeding", "losing", "ready"} => event'
    BY <1>1, <1>2, <2>1 DEF TotalInv, Resets
  <2>5. \A d \in Writers : d \in Calls
    BY DEF Writers
  <2> QED
    BY <1>1, <2>1, <2>3, <2>4, <2>5 DEF TotalInv
<1>5. CASE ~CreateEvent(c) /\ ~SeedStock(c)
  <2>1. /\ UNCHANGED <<event, totalQty>>
        /\ call[c] # "seeding" /\ call[c] # "ready" /\ call'[c] # "seeding"
        /\ call'[c] \in {"losing", "ready"} => event
    BY <1>5
       DEF SetUp, FindOrCreateDemo, FindOrCreateLoadTest, FindEvent, eventVars, LoseDemoRace,
           LoseLoadTestRace, FindWinner, TypeInv, CallTypes, TotalInv
  <2>2. UNCHANGED granted
    BY <2>1 DEF SetUp
  <2>3. ~Writing(c) /\ ~Writing(c)'
    BY <1>1, <1>2, <2>1 DEF Writing
  <2> QED
    BY <1>1, <1>2, <2>1, <2>2, <2>3, TotalsStay
<1> QED
  BY <1>3, <1>4, <1>5

LEMMA ResetTotals ==
    ASSUME TypeInv, TypeInv', TotalInv, NEW c \in Calls, NEW plan \in Plans, ResetStep(c, plan)
    PROVE  TotalInv'
<1> USE DEF resetFrame, resetElse, setupVars, eventVars, callVars, writeVars, pastVars
<1>1. ASSUME NEW what, Does(c, plan, what)
      PROVE  /\ c \in Resets /\ call[c] = "ready" /\ event
             /\ step'[c] = step[c] + 1 /\ step[c] \in Nat
             /\ \A d \in Calls \ {c} : step'[d] = step[d]
             /\ what = "inventory" <=> step[c] = 4
             /\ what = "stock" <=> step[c] = 5
  <2>1. /\ c \in Resets /\ call[c] = "ready" /\ step[c] \in DOMAIN plan /\ plan[step[c]] = what
        /\ step' = [step EXCEPT ![c] = step[c] + 1]
    BY <1>1 DEF Does, NextInPlan, Resets
  <2>2. step[c] \in Nat /\ step'[c] = step[c] + 1 /\ \A d \in Calls \ {c} : step'[d] = step[d]
    BY <2>1 DEF TypeInv, CallTypes
  <2> QED
    BY <2>1, <2>2, PlanOrder DEF TotalInv
<1>2. ASSUME NEW what, Does(c, plan, what), what \notin {"inventory", "stock"},
             UNCHANGED <<kind, event, totalQty, granted, late, crashes, call>>
      PROVE  TotalInv'
  <2>1. ~Writing(c) /\ ~Writing(c)'
    BY <1>1, <1>2 DEF Writing
  <2>2. call[c] = "ready" /\ event /\ \A d \in Calls \ {c} : step'[d] = step[d]
    BY <1>1, <1>2
  <2>3. "ready" \notin Opening
    BY DEF Opening
  <2> QED
    BY <1>2, <2>1, <2>2, <2>3, TotalsStay
<1>3. CASE \/ DeletePayments(c, plan) \/ DeleteReservations(c, plan) \/ DeleteUsers(c, plan)
           \/ ResetCounter(c, plan) \/ PurgeLine(c, plan)
  BY <1>2, <1>3 DEF DeletePayments, DeleteReservations, DeleteUsers, ResetCounter, PurgeLine
<1>4. CASE ForeignKeyFails(c, plan)
  <2>1. PICK what \in {"reservations", "users"} : NextInPlan(c, plan, what)
    BY <1>4 DEF ForeignKeyFails
  <2>2. step[c] \in Nat /\ step[c] \in DOMAIN plan /\ plan[step[c]] = what
    BY <2>1 DEF NextInPlan, TypeInv, CallTypes
  <2>3. step[c] # 5
    BY <2>2, PlanOrder
  <2>4. /\ UNCHANGED <<kind, event, totalQty, granted, late, crashes, step>>
        /\ call[c] = "ready" /\ call'[c] = "failed" /\ \A d \in Calls \ {c} : call'[d] = call[d]
    BY <1>4 DEF ForeignKeyFails, Moves, TypeInv, CallTypes
  <2>5. ~Writing(c) /\ ~Writing(c)' /\ "failed" \notin Opening
    BY <2>3, <2>4 DEF Writing, Opening
  <2> QED
    BY <2>4, <2>5, TotalsStay
<1>5. CASE ResetInventory(c, plan)
  <2>1. /\ UNCHANGED <<kind, event, call, crashes, granted>> /\ totalQty' = Asked(c)
        /\ late' = {d \in Writers : Asked(d) # Asked(c)}
        /\ Does(c, plan, "inventory")
    BY <1>5 DEF ResetInventory
  <2>2. /\ c \in Resets /\ call[c] = "ready" /\ event /\ step'[c] = 5
        /\ \A d \in Calls \ {c} : step'[d] = step[d]
    BY <1>1, <2>1
  <2>3. \A d \in Calls : Writing(d)' <=> Writing(d) \/ d = c
    BY <2>1, <2>2 DEF Writing, Resets
  <2>4. Writers' = Writers \cup {c}
    BY <2>3, WritersAre, WritersAreNext
  <2>5. \A d \in Calls : Asked(d)' = Asked(d)
    BY <2>1 DEF Asked
  <2>6. late' = {} => \A d \in Writers' : Asked(d)' = totalQty'
    BY <2>1, <2>4, <2>5 DEF Writers
  <2>7. /\ Resets' = Resets /\ \A d \in Resets : call'[d] \in Opening => step'[d] = 1
        /\ \A d \in Calls : call'[d] \in {"seeding", "losing", "ready"} => event'
    BY <2>1, <2>2 DEF TotalInv, Resets, Opening
  <2> QED
    BY <2>4, <2>6, <2>7 DEF TotalInv
<1>6. CASE ResetStock(c, plan)
  <2>1. /\ UNCHANGED <<kind, event, call, crashes, totalQty, late>> /\ granted' = Asked(c)
        /\ Does(c, plan, "stock")
    BY <1>6 DEF ResetStock
  <2>2. /\ c \in Resets /\ call[c] = "ready" /\ event /\ step[c] = 5 /\ step'[c] = 6
        /\ \A d \in Calls \ {c} : step'[d] = step[d]
    BY <1>1, <2>1
  <2>3. Writing(c) /\ \A d \in Calls : Writing(d)' => Writing(d)
    BY <2>1, <2>2 DEF Writing, Resets
  <2>4. c \in Writers /\ Writers' \subseteq Writers
    BY <2>3, WritersAre, WritersAreNext
  <2>5. \A d \in Writers : d \in Calls /\ Asked(d)' = Asked(d)
    BY <2>1 DEF Asked, Writers
  <2>6. /\ Resets' = Resets /\ \A d \in Resets : call'[d] \in Opening => step'[d] = 1
        /\ \A d \in Calls : call'[d] \in {"seeding", "losing", "ready"} => event'
    BY <2>1, <2>2 DEF TotalInv, Resets, Opening
  <2> QED
    BY <2>1, <2>2, <2>4, <2>5, <2>6 DEF TotalInv
<1> QED
  BY <1>3, <1>4, <1>5, <1>6 DEF ResetStep

(* Everybody else leaves the totals and their writers alone. *)
LEMMA OtherTotals ==
    ASSUME TypeInv, TypeInv', TotalInv,
           UNCHANGED <<kind, event, totalQty, granted, late, crashes, step>>,
           \A c \in Calls :
              \/ call'[c] = call[c]
              \/ /\ call[c] # "seeding" /\ (c \in Resets => call[c] # "ready")
                 /\ call'[c] \notin {"seeding", "losing", "ready"}
                 /\ call'[c] \in Opening => call[c] \in Opening
    PROVE  TotalInv'
<1>1. ASSUME NEW c \in Calls, call'[c] # call[c]
      PROVE  /\ ~Writing(c) /\ ~Writing(c)'
             /\ call'[c] \notin {"seeding", "losing", "ready"}
             /\ c \in Resets /\ call'[c] \in Opening => step'[c] = 1
  BY <1>1 DEF Writing, TotalInv
<1> QED
  BY <1>1, TotalsStay

LEMMA InjectTotals ==
    ASSUME TypeInv, TypeInv', TotalInv, NEW c \in Calls,
           \/ Ask(c) \/ (\E n \in 1..(MaxVu + 1), automatic \in BOOLEAN : Simulate(c, n, automatic))
           \/ StartDemo(c) \/ Announce(c) \/ AnswerAuto(c) \/ DemoBatches(c) \/ LoadTestBatches(c)
           \/ BatchUncounted(c)
    PROVE  TotalInv'
<1> USE DEF setupVars, eventVars, callVars, pastVars, writeVars
<1>1. UNCHANGED <<kind, event, totalQty, granted, late, crashes, step>>
  BY DEF Ask, Simulate, StartDemo, Announce, AnswerAuto, DemoBatches, LoadTestBatches, StartBatch,
         EndBatch, NextBatch, BatchUncounted
<1>2. \/ UNCHANGED call
      \/ Moves(c, "idle", "finding") \/ Moves(c, "idle", "refused")
      \/ \E to \in {"guaranteeing", "injecting", "failed"} : Moves(c, "ready", to) /\ OpOf[c] = "simulate"
      \/ Moves(c, "guaranteeing", "injecting") \/ Moves(c, "injecting", "cutOff")
  BY DEF Ask, Simulate, StartDemo, Announce, AnswerAuto, DemoBatches, LoadTestBatches, StartBatch,
         EndBatch, NextBatch, BatchUncounted
<1>3. ASSUME NEW d \in Calls, call'[d] # call[d]
      PROVE  /\ call[d] # "seeding" /\ (d \in Resets => call[d] # "ready")
             /\ call'[d] \notin {"seeding", "losing", "ready"}
             /\ call'[d] \in Opening => call[d] \in Opening
  BY <1>2, <1>3 DEF Moves, Resets, Opening, TypeInv, CallTypes
<1> QED
  BY <1>1, <1>3, OtherTotals

LEMMA CrashTotals ==
    ASSUME TotalInv, Crash
    PROVE  TotalInv'
<1>1. /\ UNCHANGED <<event, step>> /\ crashes' = 1 /\ Resets' = Resets
      /\ \A c \in Calls : call'[c] = call[c] \/ call'[c] \in {"idle", "cutOff", "dead"}
      /\ \A c \in Resets : call'[c] = call[c] \/ call'[c] \in {"cutOff", "dead"}
  BY DEF Crash, eventVars, callVars, Resets
<1> QED
  BY <1>1 DEF TotalInv, Opening, Resets

LEMMA TotalStep == TypeInv /\ TypeInv' /\ TotalInv /\ [Next]_vars => TotalInv'
<1> SUFFICES ASSUME TypeInv, TypeInv', TotalInv, [Next]_vars PROVE TotalInv'
  OBVIOUS
<1> USE DEF elseVars, setupVars, eventVars, callVars, pastVars, writeVars
<1>1. CASE UNCHANGED vars
  BY <1>1, OtherTotals DEF vars
<1>2. ASSUME NEW u \in Users,
             \/ UserStep(u) \/ (\E accepted \in BOOLEAN : Charge(u, accepted)) \/ Expire(u)
             \/ ReturnSeat(u)
      PROVE  TotalInv'
  <2>1. UNCHANGED <<kind, event, totalQty, granted, late, crashes, step, call>>
    BY <1>2
       DEF UserStep, DemoInject, LoadTestInject, Admit, DemoAttempt, LoadTestAttempt, Attempt,
           CreateUser, JoinLine, InjectionFails, CountError, Decide, CountAbandoned, Take,
           GiveBack, Seat, CountSoldOut, Insert, InsertFails, Pay, Charge, Expire, ReturnSeat
  <2> QED
    BY <2>1, OtherTotals
<1>3. ASSUME NEW u \in Users, ErrorUncounted(u)
      PROVE  TotalInv'
  <2>1. /\ UNCHANGED <<kind, event, totalQty, granted, late, crashes, step>>
        /\ \A c \in Calls : call'[c] = call[c] \/ (call[c] = "injecting" /\ call'[c] = "cutOff")
    BY <1>3 DEF ErrorUncounted
  <2>2. "cutOff" \notin Opening
    BY DEF Opening
  <2> QED
    BY <2>1, <2>2, OtherTotals
<1>4. ASSUME NEW c \in Calls, CallStep(c)
      PROVE  TotalInv'
  <2>1. CASE DemoReset(c) \/ LoadTestReset(c)
    BY <2>1, ResetTotals DEF DemoReset, LoadTestReset, Plans
  <2> QED
    BY <1>4, <2>1, SetUpTotals, InjectTotals DEF CallStep
<1>5. CASE Next
  BY <1>2, <1>3, <1>4, <1>5, InjectTotals, CrashTotals DEF Next
<1> QED
  BY <1>1, <1>5

(* However many requests of however many different totals create and reset *)
(* the event among each other: if nobody with another total was about to   *)
(* SET the stock when the inventory was written, Redis has the total the   *)
(* inventory has (findOrCreateOwnLoadTestEvent, both resets). With         *)
(* SoldIsBounded, what is sold is then bounded by the event's own total.   *)
THEOREM RedisHasTheTotal == Spec => []GrantedIsTotal
<1>1. Init => TypeInv /\ TotalInv
  BY TypesInit, TotalInit
<1>2. TypeInv /\ TotalInv /\ [Next]_vars => TypeInv' /\ TotalInv'
  BY TypesStep, TotalStep
<1>3. TotalInv => GrantedIsTotal
  BY DEF TotalInv, GrantedIsTotal
<1> QED
  BY <1>1, <1>2, <1>3, PTL DEF Spec

-----------------------------------------------------------------------------
(* The bounds of the stock *)

(* The stock is below zero by those who overdrew it and have not given     *)
(* back, or never will.                                                    *)
Overdrawing == Here({"overdrawn", "lost"})
StockFloor == stock + Cardinality(Overdrawing) >= 0
StockBounds == StockFloor /\ stragglers <= Cardinality(Users)

LEMMA BoundsInit == Init => StockBounds
<1> SUFFICES ASSUME Init PROVE StockBounds
  OBVIOUS
<1>1. Cardinality(Users) \in Nat /\ Cardinality(Overdrawing) \in Nat
  BY Finite DEF Overdrawing, Here
<1> QED
  BY <1>1 DEF Init, StockBounds, StockFloor

(* Nobody who overdrew leaves by this step, and the stock does not fall. *)
LEMMA FloorKept ==
    ASSUME StockBounds, stock \in Int, stock' \in Int, stock' >= stock, Overdrawing \subseteq Overdrawing'
    PROVE  StockFloor'
<1>1. Overdrawing' \in SUBSET Users
  BY DEF Overdrawing, Here
<1>2. Cardinality(Overdrawing) <= Cardinality(Overdrawing')
  BY <1>1, CountFewer
<1>3. Cardinality(Overdrawing) \in Nat /\ Cardinality(Overdrawing') \in Nat
  BY <1>1, Finite
<1> QED
  BY <1>2, <1>3 DEF StockBounds, StockFloor

LEMMA UserFloor ==
    ASSUME StockBounds, Shape, NEW u \in Users, UserStep(u)
    PROVE  StockBounds'
<1> USE DEF elseVars, setupVars, eventVars, callVars, pastVars, writeVars
<1>1. Overdrawing \in SUBSET Users /\ Cardinality(Overdrawing) \in Nat /\ stock \in Int
  <2>1. Overdrawing \in SUBSET Users
    BY DEF Overdrawing, Here
  <2> QED
    BY <2>1, Finite DEF Shape
<1>2. UNCHANGED <<stragglers, granted>>
  BY DEF UserStep, DemoInject, LoadTestInject, Admit, DemoAttempt, LoadTestAttempt, Attempt,
         CreateUser, JoinLine, InjectionFails, CountError, Decide, CountAbandoned, Take, GiveBack,
         Seat, CountSoldOut, Insert, InsertFails, Pay
<1>3. CASE Take(u)
  <2>1. CASE stock < 1
    <3>1. u \notin Overdrawing /\ Overdrawing' = Overdrawing \cup {u} /\ stock' = stock - 1
      BY <1>3, <2>1 DEF Take, Seat, Goes, Shape, Overdrawing, Here
    <3>2. Cardinality(Overdrawing') = Cardinality(Overdrawing) + 1
      BY <1>1, <3>1, CountOneMore
    <3> QED
      BY <1>1, <1>2, <3>1, <3>2 DEF StockBounds, StockFloor
  <2>2. CASE stock >= 1
    <3>1. Overdrawing' = Overdrawing /\ stock' = stock - 1
      BY <1>3, <2>2 DEF Take, Seat, Goes, Shape, Overdrawing, Here
    <3> QED
      BY <1>1, <1>2, <2>2, <3>1 DEF StockBounds, StockFloor
  <2> QED
    BY <1>1, <2>1, <2>2
<1>4. CASE Seat(u, 1, "overdrawn", "refused")
  <2>1. u \in Overdrawing /\ Overdrawing' = Overdrawing \ {u} /\ stock' = stock + 1
    BY <1>4 DEF Seat, Goes, Shape, Overdrawing, Here
  <2>2. Cardinality(Overdrawing') = Cardinality(Overdrawing) - 1
    BY <1>1, <2>1, CountOneLess
  <2> QED
    BY <1>1, <1>2, <2>1, <2>2 DEF StockBounds, StockFloor
<1>5. CASE ~Take(u) /\ ~Seat(u, 1, "overdrawn", "refused")
  <2>1. stock' \in {stock, stock + 1} /\ Overdrawing \subseteq Overdrawing'
    BY <1>5
       DEF UserStep, DemoInject, LoadTestInject, Admit, DemoAttempt, LoadTestAttempt, Attempt,
           CreateUser, JoinLine, InjectionFails, CountError, Decide, CountAbandoned, GiveBack,
           Seat, CountSoldOut, Insert, InsertFails, Pay, Goes, Shape, Overdrawing, Here
  <2> QED
    BY <1>1, <1>2, <2>1, FloorKept DEF StockBounds
<1> QED
  BY <1>3, <1>4, <1>5

LEMMA WrittenBounds ==
    ASSUME SeatInv, StockBounds, stragglers' = Cardinality(Holding), stock' \in Nat
    PROVE  StockBounds'
<1>1. Holding \in SUBSET Users /\ Overdrawing' \in SUBSET Users
  BY DEF Holding, Live, Here, Overdrawing, SeatInv, Shape
<1>2. Cardinality(Holding) <= Cardinality(Users)
  BY <1>1, CountFewer
<1>3. Cardinality(Overdrawing') \in Nat
  BY <1>1, Finite
<1> QED
  BY <1>2, <1>3 DEF StockBounds, StockFloor

LEMMA BoundsStep == SeatInv /\ SeatInv' /\ TypeInv /\ StockBounds /\ [Next]_vars => StockBounds'
<1> SUFFICES ASSUME SeatInv, SeatInv', TypeInv, StockBounds, [Next]_vars PROVE StockBounds'
  OBVIOUS
<1> USE DEF elseVars, setupVars, eventVars, callVars, injectVars, userVars, rowVars, counterVars, pastVars, writeVars, resetFrame
<1>1. stock \in Int /\ stock' \in Int
  BY DEF SeatInv, Shape
<1>2. ASSUME stock' \in {stock, stock + 1}, UNCHANGED stragglers, Overdrawing \subseteq Overdrawing'
      PROVE  StockBounds'
  BY <1>1, <1>2, FloorKept DEF StockBounds
<1>3. CASE UNCHANGED vars
  BY <1>2, <1>3 DEF vars, Overdrawing, Here
<1>4. ASSUME NEW u \in Users, (\E accepted \in BOOLEAN : Charge(u, accepted)) \/ Expire(u) \/ ReturnSeat(u)
      PROVE  StockBounds'
  BY <1>2, <1>4 DEF Charge, Expire, ReturnSeat, Overdrawing, Here
<1>5. CASE Crash
  <2>1. Overdrawing \subseteq Overdrawing'
    BY <1>5 DEF Crash, Overdrawing, Here, Through
  <2> QED
    BY <1>2, <1>5, <2>1 DEF Crash
<1>6. ASSUME NEW c \in Calls, SetUp(c)
      PROVE  StockBounds'
  <2>1. CASE call[c] = "seeding"
    <3>1. stragglers' = Cardinality(Holding) /\ stock' \in Nat
      BY <1>6, <2>1, AskedIsNat
         DEF SetUp, FindOrCreateDemo, FindOrCreateLoadTest, FindEvent, CreateEvent, SeedStock,
             eventVars, LoseDemoRace, LoseLoadTestRace, FindWinner, Moves
    <3> QED
      BY <3>1, WrittenBounds
  <2>2. CASE call[c] # "seeding"
    BY <1>2, <1>6, <2>2
       DEF SetUp, FindOrCreateDemo, FindOrCreateLoadTest, FindEvent, CreateEvent, SeedStock,
           eventVars, LoseDemoRace, LoseLoadTestRace, FindWinner, Moves, Overdrawing, Here
  <2> QED
    BY <2>1, <2>2
<1>7. ASSUME NEW c \in Calls, NEW plan \in Plans, ResetStep(c, plan)
      PROVE  StockBounds'
  <2>1. CASE ResetStock(c, plan)
    BY <2>1, AskedIsNat, WrittenBounds DEF ResetStock
  <2>2. CASE ~ResetStock(c, plan)
    <3>1. UNCHANGED <<stock, stragglers, granted>> /\ Overdrawing \subseteq Overdrawing'
      BY <1>7, <2>2
         DEF ResetStep, DeletePayments, DeleteReservations, DeleteUsers, ForeignKeyFails,
             ResetInventory, resetElse, ResetCounter, PurgeLine, Overdrawing, Here
    <3> QED
      BY <1>2, <3>1
  <2> QED
    BY <2>1, <2>2
<1>8. ASSUME NEW c \in Calls,
             \/ Ask(c) \/ (\E n \in 1..(MaxVu + 1), automatic \in BOOLEAN : Simulate(c, n, automatic))
             \/ StartDemo(c) \/ Announce(c) \/ AnswerAuto(c) \/ DemoBatches(c) \/ LoadTestBatches(c)
      PROVE  StockBounds'
  <2>1. UNCHANGED <<stock, stragglers, granted>>
    BY <1>8 DEF Ask, Simulate, StartDemo, Announce, AnswerAuto, DemoBatches, LoadTestBatches,
                StartBatch, EndBatch, NextBatch
  <2>2. Overdrawing \subseteq Overdrawing'
    BY <1>8 DEF Ask, Simulate, StartDemo, Announce, AnswerAuto, DemoBatches, LoadTestBatches,
                StartBatch, EndBatch, NextBatch, kSubset, Overdrawing, Here
  <2> QED
    BY <1>2, <2>1, <2>2
<1>9. CASE (\E c \in Calls : BatchUncounted(c)) \/ (\E u \in Users : ErrorUncounted(u))
  BY <1>2, <1>9 DEF BatchUncounted, ErrorUncounted, Goes, Overdrawing, Here, TypeInv, UserTypes
<1>10. CASE Next
  BY <1>4, <1>5, <1>6, <1>7, <1>8, <1>9, <1>10, UserFloor
     DEF Next, CallStep, DemoReset, LoadTestReset, Plans, SeatInv
<1> QED
  BY <1>3, <1>10

-----------------------------------------------------------------------------
(* The counters and the users they stand for *)

SoldOuts == Here({"soldOut"})
Leavers == Here({"abandoned"})
Stopped == Here({"error"})

CountersBacked ==
    /\ soldout <= Cardinality(SoldOuts)
    /\ abandoned <= Cardinality(Leavers)
    /\ systemError <= Cardinality(Stopped)

Ended == {"abandoned", "soldOut", "conflict", "error", "booked", "stranded", "lost"}
PaidIsBooked == \A u \in Users : payment[u] # "none" => at[u] = "booked"

(* Who was through when the last reset began stays where he is, and his    *)
(* payment is gone.                                                        *)
OldHaveEnded == \A u \in old : at[u] \in Ended /\ payment[u] = "none"

(* Until a reset or a restart each counter is exact, nobody is out of the  *)
(* crowd without an outcome, and whoever booked has a payment.             *)
Undisturbed == crashes = 0 /\ \A c \in Resets : Untouched(c)
Exact ==
    Undisturbed =>
        /\ soldout = Cardinality(SoldOuts)
        /\ abandoned = Cardinality(Leavers)
        /\ kind = "loadTest" => systemError = Cardinality(Stopped)
        /\ Here({"stranded"}) = {}
        /\ kind = "demo" => Here({"lost"}) = {}
        /\ \A u \in Here({"booked"}) : payment[u] # "none"

(* The reset that began last has cleared the counters it has come past:    *)
(* what they hold is not of those who were through when it began.          *)
Cleared(c) ==
    /\ step[c] >= 2
    /\ step[c] > 6 => soldout <= Cardinality(SoldOuts \ old)
    /\ step[c] > 7 => abandoned <= Cardinality(Leavers \ old)
    /\ kind = "loadTest" /\ step[c] > 8 => systemError <= Cardinality(Stopped \ old)
LastCleared == (\E c \in Resets : ~Untouched(c)) => \E c \in Resets : Cleared(c)

OutcomeInv == CountersBacked /\ PaidIsBooked /\ OldHaveEnded /\ Exact /\ LastCleared

LEMMA Sizes ==
    /\ SoldOuts \in SUBSET Users /\ Leavers \in SUBSET Users /\ Stopped \in SUBSET Users
    /\ \A S \in SUBSET Users : Cardinality(S) \in Nat
    /\ \A S \in SUBSET Users : Cardinality(S \ old) \in Nat
BY Finite DEF SoldOuts, Leavers, Stopped, Here

LEMMA OneMoreBoth ==
    ASSUME NEW S \in SUBSET Users, NEW o, NEW u \in Users, u \notin S, u \notin o
    PROVE  /\ Cardinality(S \cup {u}) = Cardinality(S) + 1
           /\ Cardinality((S \cup {u}) \ o) = Cardinality(S \ o) + 1
<1>1. (S \cup {u}) \ o = (S \ o) \cup {u} /\ S \ o \in SUBSET Users /\ u \notin S \ o
  OBVIOUS
<1> QED
  BY <1>1, CountOneMore

LEMMA OutcomesInit == Init => OutcomeInv
<1> SUFFICES ASSUME Init PROVE OutcomeInv
  OBVIOUS
<1>1. SoldOuts = {} /\ Leavers = {} /\ Stopped = {} /\ Here({"stranded"}) = {} /\ Here({"lost"}) = {} /\ Here({"booked"}) = {}
  BY DEF Init, SoldOuts, Leavers, Stopped, Here
<1>2. Cardinality({}) = 0
  BY FS_EmptySet
<1>3. CountersBacked /\ Exact
  BY <1>1, <1>2 DEF Init, CountersBacked, Exact
<1>4. PaidIsBooked /\ OldHaveEnded
  BY DEF Init, PaidIsBooked, OldHaveEnded
<1>5. LastCleared
  BY DEF Init, LastCleared, Untouched, Resets
<1> QED
  BY <1>3, <1>4, <1>5 DEF OutcomeInv

(* No counter changes and no reset goes on; who has ended stays. *)
Still == UNCHANGED <<kind, soldout, abandoned, systemError, old, step>>
         /\ SoldOuts' = SoldOuts /\ Leavers' = Leavers /\ Stopped \subseteq Stopped'
         /\ (kind = "loadTest" => Stopped' = Stopped)
Outcomes == Undisturbed' =>
                /\ Undisturbed
                /\ Here({"stranded"})' = {}
                /\ kind = "demo" => Here({"lost"})' = {}
                /\ \A u \in Here({"booked"})' : payment'[u] # "none"

LEMMA StillKeeps ==
    ASSUME TypeInv, OutcomeInv, Still, Outcomes, PaidIsBooked', OldHaveEnded'
    PROVE  OutcomeInv'
<1>1. /\ Cardinality(Stopped) <= Cardinality(Stopped')
      /\ Cardinality(Stopped \ old) <= Cardinality(Stopped' \ old)
  <2>1. Stopped' \in SUBSET Users
    BY DEF Stopped, Here
  <2>2. Stopped' \ old \in SUBSET Users /\ Stopped \ old \in SUBSET (Stopped' \ old)
    BY <2>1 DEF Still
  <2> QED
    BY <2>1, <2>2, CountFewer DEF Still
<1>2. /\ Cardinality(Stopped) \in Nat /\ Cardinality(Stopped') \in Nat
      /\ Cardinality(Stopped \ old) \in Nat /\ Cardinality(Stopped' \ old) \in Nat
  <2>1. Stopped' \in SUBSET Users /\ Stopped \in SUBSET Users
    BY DEF Stopped, Here
  <2> QED
    BY <2>1, Finite
<1>3. systemError \in Nat
  BY DEF TypeInv, UserTypes
<1>4. CountersBacked'
  BY <1>1, <1>2, <1>3 DEF OutcomeInv, CountersBacked, Still
<1>5. Exact'
  BY DEF OutcomeInv, Exact, Still, Outcomes
<1>6. ASSUME NEW c \in Resets, Cleared(c) PROVE Cleared(c)'
  BY <1>1, <1>2, <1>3, <1>6 DEF Cleared, Still
<1>7. LastCleared'
  BY <1>6 DEF OutcomeInv, LastCleared, Untouched, Still, Resets
<1> QED
  BY <1>4, <1>5, <1>7 DEF OutcomeInv

(* A user moves on, and is counted if he ends. *)
LEMMA UserCounted ==
    ASSUME TypeInv, OutcomeInv, NEW u \in Users, UserStep(u)
    PROVE  OutcomeInv'
<1> USE DEF elseVars, setupVars, eventVars, callVars, injectVars, rowVars, counterVars, pastVars, writeVars
<1>1. PICK before \in Places \ Ended, after \in Places : Goes(u, before, after)
  BY DEF UserStep, DemoInject, LoadTestInject, Admit, DemoAttempt, LoadTestAttempt, Attempt,
         CreateUser, JoinLine, InjectionFails, CountError, Decide, CountAbandoned, Take, GiveBack,
         Seat, CountSoldOut, Insert, InsertFails, Pay, Ended, Places, Arriving
<1>2. u \notin old /\ payment[u] = "none" /\ old' = old
  <2>1. u \notin old /\ payment[u] = "none"
    BY <1>1 DEF Goes, OutcomeInv, OldHaveEnded, PaidIsBooked, Ended, TypeInv, UserTypes
  <2>2. old' = old
    BY DEF UserStep, DemoInject, LoadTestInject, Admit, DemoAttempt, LoadTestAttempt, Attempt,
           CreateUser, JoinLine, InjectionFails, CountError, Decide, CountAbandoned, Take, GiveBack,
           Seat, CountSoldOut, Insert, InsertFails, Pay
  <2> QED
    BY <2>1, <2>2
<1>3. /\ UNCHANGED <<kind, step, crashes>>
      /\ \/ UNCHANGED payment /\ at'[u] # "booked"
         \/ payment' = [payment EXCEPT ![u] = "PENDING"] /\ at'[u] = "booked"
      /\ at'[u] \notin {"stranded", "lost"}
  BY DEF UserStep, DemoInject, LoadTestInject, Admit, DemoAttempt, LoadTestAttempt, Attempt,
         CreateUser, JoinLine, InjectionFails, CountError, Decide, CountAbandoned, Take, GiveBack,
         Seat, CountSoldOut, Insert, InsertFails, Pay, Goes, TypeInv, UserTypes
<1>4. PaidIsBooked'
  BY <1>1, <1>2, <1>3 DEF Goes, OutcomeInv, PaidIsBooked, TypeInv, UserTypes
<1>5. OldHaveEnded'
  BY <1>1, <1>2, <1>3 DEF Goes, OutcomeInv, OldHaveEnded, TypeInv, UserTypes
<1>6. Undisturbed' = Undisturbed
  BY <1>3 DEF Undisturbed, Untouched, Resets
<1>7. Undisturbed => /\ Here({"stranded"})' = {} /\ (kind = "demo" => Here({"lost"})' = {})
                     /\ \A w \in Here({"booked"})' : payment'[w] # "none"
  BY <1>1, <1>3 DEF Goes, OutcomeInv, Exact, Here, TypeInv, UserTypes
<1>8. soldout \in Nat /\ abandoned \in Nat /\ systemError \in Nat
  BY DEF TypeInv, UserTypes
<1>9. ASSUME UNCHANGED <<soldout, abandoned, systemError>>, after \notin {"soldOut", "abandoned"},
             after = "error" => kind = "demo"
      PROVE  OutcomeInv'
  <2>1. Still
    BY <1>1, <1>2, <1>3, <1>9 DEF Still, SoldOuts, Leavers, Stopped, Here, Goes, Ended, TypeInv, UserTypes
  <2> QED
    BY <1>4, <1>5, <1>6, <1>7, <2>1, StillKeeps DEF Outcomes
<1>10. CASE CountSoldOut(u)
  <2>1. /\ u \notin SoldOuts /\ SoldOuts' = SoldOuts \cup {u} /\ Leavers' = Leavers /\ Stopped' = Stopped
        /\ soldout' = soldout + 1 /\ UNCHANGED <<abandoned, systemError>>
    BY <1>1, <1>10 DEF CountSoldOut, Goes, SoldOuts, Leavers, Stopped, Here, TypeInv, UserTypes
  <2>2. /\ Cardinality(SoldOuts') = Cardinality(SoldOuts) + 1
        /\ Cardinality(SoldOuts' \ old) = Cardinality(SoldOuts \ old) + 1
    BY <1>2, <2>1, Sizes, OneMoreBoth
  <2>3. Cardinality(SoldOuts) \in Nat /\ Cardinality(SoldOuts \ old) \in Nat
    BY Sizes
  <2>4. CountersBacked' /\ Exact'
    BY <1>3, <1>6, <1>7, <1>8, <2>1, <2>2, <2>3 DEF OutcomeInv, CountersBacked, Exact
  <2>5. \A c \in Resets : Cleared(c) => Cleared(c)'
    BY <1>2, <1>3, <1>8, <2>1, <2>2, <2>3 DEF Cleared
  <2>6. LastCleared'
    BY <1>3, <2>5 DEF OutcomeInv, LastCleared, Untouched, Resets
  <2> QED
    BY <1>4, <1>5, <2>4, <2>6 DEF OutcomeInv
<1>11. CASE CountAbandoned(u)
  <2>1. /\ u \notin Leavers /\ Leavers' = Leavers \cup {u} /\ SoldOuts' = SoldOuts /\ Stopped' = Stopped
        /\ abandoned' = abandoned + 1 /\ UNCHANGED <<soldout, systemError>>
    BY <1>1, <1>11 DEF CountAbandoned, Goes, SoldOuts, Leavers, Stopped, Here, TypeInv, UserTypes
  <2>2. /\ Cardinality(Leavers') = Cardinality(Leavers) + 1
        /\ Cardinality(Leavers' \ old) = Cardinality(Leavers \ old) + 1
    BY <1>2, <2>1, Sizes, OneMoreBoth
  <2>3. Cardinality(Leavers) \in Nat /\ Cardinality(Leavers \ old) \in Nat
    BY Sizes
  <2>4. CountersBacked' /\ Exact'
    BY <1>3, <1>6, <1>7, <1>8, <2>1, <2>2, <2>3 DEF OutcomeInv, CountersBacked, Exact
  <2>5. \A c \in Resets : Cleared(c) => Cleared(c)'
    BY <1>2, <1>3, <1>8, <2>1, <2>2, <2>3 DEF Cleared
  <2>6. LastCleared'
    BY <1>3, <2>5 DEF OutcomeInv, LastCleared, Untouched, Resets
  <2> QED
    BY <1>4, <1>5, <2>4, <2>6 DEF OutcomeInv
<1>12. ASSUME CountError(u, before)
       PROVE  OutcomeInv'
  <2>1. /\ u \notin Stopped /\ Stopped' = Stopped \cup {u} /\ SoldOuts' = SoldOuts /\ Leavers' = Leavers
        /\ systemError' = systemError + 1 /\ UNCHANGED <<soldout, abandoned>>
    BY <1>1, <1>12 DEF CountError, Goes, SoldOuts, Leavers, Stopped, Here, Ended, TypeInv, UserTypes
  <2>2. /\ Cardinality(Stopped') = Cardinality(Stopped) + 1
        /\ Cardinality(Stopped' \ old) = Cardinality(Stopped \ old) + 1
    BY <1>2, <2>1, Sizes, OneMoreBoth
  <2>3. Cardinality(Stopped) \in Nat /\ Cardinality(Stopped \ old) \in Nat
    BY Sizes
  <2>4. CountersBacked' /\ Exact'
    BY <1>3, <1>6, <1>7, <1>8, <2>1, <2>2, <2>3 DEF OutcomeInv, CountersBacked, Exact
  <2>5. \A c \in Resets : Cleared(c) => Cleared(c)'
    BY <1>2, <1>3, <1>8, <2>1, <2>2, <2>3 DEF Cleared
  <2>6. LastCleared'
    BY <1>3, <2>5 DEF OutcomeInv, LastCleared, Untouched, Resets
  <2> QED
    BY <1>4, <1>5, <2>4, <2>6 DEF OutcomeInv
<1>13. \/ CountSoldOut(u) \/ CountAbandoned(u) \/ CountError(u, before)
       \/ /\ UNCHANGED <<soldout, abandoned, systemError>> /\ after \notin {"soldOut", "abandoned"}
          /\ after = "error" => kind = "demo"
  BY <1>1 DEF UserStep, DemoInject, LoadTestInject, Admit, DemoAttempt, LoadTestAttempt, Attempt,
         CreateUser, JoinLine, InjectionFails, CountError, Decide, Take, GiveBack,
         Seat, Insert, InsertFails, Pay, Goes, TypeInv, UserTypes
<1> QED
  BY <1>9, <1>10, <1>11, <1>12, <1>13

(* The workers: a charge is of a payment that is there. *)
LEMMA WorkerCounted ==
    ASSUME TypeInv, OutcomeInv, NEW u \in Users,
           (\E accepted \in BOOLEAN : Charge(u, accepted)) \/ Expire(u) \/ ReturnSeat(u)
    PROVE  OutcomeInv'
<1> USE DEF setupVars, eventVars, callVars, injectVars, userVars, counterVars, pastVars, writeVars
<1>1. UNCHANGED <<kind, soldout, abandoned, systemError, old, step, at, crashes>>
  BY DEF Charge, Expire, ReturnSeat
<1>2. \/ UNCHANGED payment
      \/ payment[u] = "PENDING" /\ \E to \in {"PAID", "FAILED"} : payment' = [payment EXCEPT ![u] = to]
  BY DEF Charge, Expire, ReturnSeat
<1>3. Still
  BY <1>1 DEF Still, SoldOuts, Leavers, Stopped, Here
<1>4. PaidIsBooked' /\ OldHaveEnded'
  BY <1>1, <1>2 DEF OutcomeInv, PaidIsBooked, OldHaveEnded, TypeInv, UserTypes
<1>5. Outcomes
  BY <1>1, <1>2 DEF OutcomeInv, Outcomes, Exact, Undisturbed, Untouched, Resets, Here, TypeInv, UserTypes
<1> QED
  BY <1>3, <1>4, <1>5, StillKeeps

(* Nobody who has ended is moved by the next step of a request. *)
LEMMA CallCounted ==
    ASSUME TypeInv, OutcomeInv,
           UNCHANGED <<kind, soldout, abandoned, systemError, old, step, payment, crashes>>,
           \A u \in Users : at'[u] = at[u] \/ (at[u] = "free" /\ at'[u] = "creating")
    PROVE  OutcomeInv'
<1>1. Still
  BY DEF Still, SoldOuts, Leavers, Stopped, Here
<1>2. PaidIsBooked' /\ OldHaveEnded'
  BY DEF OutcomeInv, PaidIsBooked, OldHaveEnded, Ended, TypeInv, UserTypes
<1>3. Outcomes
  BY DEF OutcomeInv, Outcomes, Exact, Undisturbed, Untouched, Resets, Here
<1> QED
  BY <1>1, <1>2, <1>3, StillKeeps

LEMMA InjectCounted ==
    ASSUME TypeInv, OutcomeInv, NEW c \in Calls,
           \/ SetUp(c)
           \/ Ask(c) \/ (\E n \in 1..(MaxVu + 1), automatic \in BOOLEAN : Simulate(c, n, automatic))
           \/ StartDemo(c) \/ Announce(c) \/ AnswerAuto(c) \/ DemoBatches(c) \/ LoadTestBatches(c)
    PROVE  OutcomeInv'
<1> USE DEF setupVars, eventVars, callVars, injectVars, userVars, rowVars, counterVars, pastVars, writeVars
<1>1. UNCHANGED <<kind, soldout, abandoned, systemError, old, step, payment, crashes>>
  BY DEF SetUp, FindOrCreateDemo, FindOrCreateLoadTest, FindEvent, CreateEvent, SeedStock,
         eventVars, LoseDemoRace, LoseLoadTestRace, FindWinner, Ask, Simulate, StartDemo, Announce,
         AnswerAuto, DemoBatches, LoadTestBatches, StartBatch, EndBatch, NextBatch
<1>2. ASSUME NEW u \in Users PROVE at'[u] = at[u] \/ (at[u] = "free" /\ at'[u] = "creating")
  BY DEF SetUp, Ask, Simulate, StartDemo, Announce, AnswerAuto, DemoBatches, LoadTestBatches,
         StartBatch, EndBatch, NextBatch, kSubset, Here
<1> QED
  BY <1>1, <1>2, CallCounted

LEMMA CrashCounted ==
    ASSUME TypeInv, OutcomeInv, Crash
    PROVE  OutcomeInv'
<1>1. /\ UNCHANGED <<kind, soldout, abandoned, systemError, old, step, payment>>
      /\ crashes' = 1
      /\ at' = [u \in Users |-> IF u \in Through \/ at[u] \in {"free", "booked"} THEN at[u] ELSE "lost"]
  BY DEF Crash, callVars, counterVars, eventVars, writeVars
<1>2. ASSUME NEW u \in Users
      PROVE  /\ at[u] \in Ended => at'[u] = at[u]
             /\ at'[u] = at[u] \/ at'[u] = "lost"
  <2>1. at[u] \in Ended => u \in Through \/ at[u] = "booked"
    BY DEF OutcomeInv, PaidIsBooked, Through, Here, Ended, TypeInv, UserTypes
  <2> QED
    BY <1>1, <2>1
<1>3. Still
  BY <1>1, <1>2 DEF Still, SoldOuts, Leavers, Stopped, Here, Ended
<1>4. PaidIsBooked' /\ OldHaveEnded'
  BY <1>1, <1>2 DEF OutcomeInv, PaidIsBooked, OldHaveEnded, Ended, TypeInv, UserTypes
<1>5. Outcomes
  BY <1>1 DEF Outcomes, Undisturbed
<1> QED
  BY <1>3, <1>4, <1>5, StillKeeps

LEMMA UncountedCounted ==
    ASSUME TypeInv, OutcomeInv,
           (\E c \in Calls : BatchUncounted(c)) \/ (\E u \in Users : ErrorUncounted(u))
    PROVE  OutcomeInv'
<1> USE DEF eventVars, callVars, injectVars, userVars, rowVars, counterVars, pastVars, writeVars
<1>1. CASE \E c \in Calls : BatchUncounted(c)
  BY <1>1, CallCounted DEF BatchUncounted
<1>2. CASE \E u \in Users : ErrorUncounted(u)
  <2>1. PICK u \in Users : ErrorUncounted(u)
    BY <1>2
  <2>2. /\ UNCHANGED <<kind, soldout, abandoned, systemError, old, step, payment, crashes>>
        /\ Goes(u, "failing", "lost") /\ kind = "loadTest"
    BY <2>1 DEF ErrorUncounted
  <2>3. Still
    BY <2>2 DEF Still, SoldOuts, Leavers, Stopped, Here, Goes, TypeInv, UserTypes
  <2>4. PaidIsBooked' /\ OldHaveEnded'
    BY <2>2 DEF OutcomeInv, PaidIsBooked, OldHaveEnded, Ended, Goes, TypeInv, UserTypes
  <2>5. Outcomes
    BY <2>2 DEF OutcomeInv, Outcomes, Exact, Undisturbed, Untouched, Resets, Here, Goes, TypeInv, UserTypes
  <2> QED
    BY <2>3, <2>4, <2>5, StillKeeps
<1> QED
  BY <1>1, <1>2

(* A reset: its first statement makes it the last to have begun; the later *)
(* ones clear one counter each, in the order of Cleared.                   *)
LEMMA CounterOrder ==
    ASSUME NEW plan \in Plans, NEW i \in DOMAIN plan, kind = "loadTest" => plan = LoadTestPlan
    PROVE  /\ i \in 1..11
           /\ plan[i] = "payments" <=> i = 1
           /\ plan[i] = "soldout" <=> i = 6
           /\ plan[i] = "abandoned" <=> i = 7
           /\ kind = "loadTest" => (plan[i] = "systemError" <=> i = 8)
<1>1. CASE plan = DemoPlan
  <2>1. i \in 1..8 /\ kind # "loadTest"
    BY <1>1 DEF DemoPlan, LoadTestPlan
  <2> QED
    BY <1>1, <2>1 DEF DemoPlan
<1>2. CASE plan = LoadTestPlan
  <2>1. i \in 1..11
    BY <1>2 DEF LoadTestPlan
  <2> QED
    BY <1>2, <2>1 DEF LoadTestPlan
<1> QED
  BY <1>1, <1>2 DEF Plans

LEMMA ResetCounted ==
    ASSUME TypeInv, TypeInv', OutcomeInv, NEW c \in Calls, NEW plan \in Plans, ResetStep(c, plan),
           kind = "loadTest" => plan = LoadTestPlan
    PROVE  OutcomeInv'
<1> USE DEF resetFrame, setupVars, eventVars, callVars, injectVars, userVars, rowVars, counterVars, pastVars, writeVars
<1>1. CASE ForeignKeyFails(c, plan)
  BY <1>1, CallCounted DEF ForeignKeyFails
<1>2. ASSUME NEW what, Does(c, plan, what)
      PROVE  /\ c \in Resets /\ step[c] \in 1..11
             /\ step' = [step EXCEPT ![c] = step[c] + 1]
             /\ step'[c] = step[c] + 1
             /\ ~Undisturbed'
             /\ what = "payments" <=> step[c] = 1
             /\ what = "soldout" <=> step[c] = 6
             /\ what = "abandoned" <=> step[c] = 7
             /\ kind = "loadTest" => (what = "systemError" <=> step[c] = 8)
  <2>1. /\ c \in Resets /\ step[c] \in DOMAIN plan /\ plan[step[c]] = what
        /\ step' = [step EXCEPT ![c] = step[c] + 1]
    BY <1>2 DEF Does, NextInPlan, Resets
  <2>2. step[c] \in 1..11
    BY <2>1, CounterOrder
  <2>3. step'[c] = step[c] + 1
    BY <2>1 DEF TypeInv, CallTypes
  <2>4. ~Undisturbed'
    BY <2>1, <2>2, <2>3 DEF Undisturbed, Untouched, Resets
  <2> QED
    BY <2>1, <2>2, <2>3, <2>4, CounterOrder
<1>3. CASE DeletePayments(c, plan)
  <2>1. /\ UNCHANGED <<at, soldout, abandoned, systemError, kind>> /\ old' = Through
        /\ payment' = [u \in Users |-> "none"]
    BY <1>3 DEF DeletePayments
  <2>2. c \in Resets /\ step'[c] = 2 /\ ~Undisturbed'
    BY <1>2, <1>3 DEF DeletePayments
  <2>3. CountersBacked' /\ PaidIsBooked'
    BY <2>1 DEF OutcomeInv, CountersBacked, PaidIsBooked, SoldOuts, Leavers, Stopped, Here
  <2>4. OldHaveEnded'
    BY <2>1 DEF OldHaveEnded, Through, Here, Ended
  <2>5. Exact'
    BY <2>2 DEF Exact
  <2>6. Cleared(c)'
    BY <2>2 DEF Cleared
  <2>7. LastCleared'
    BY <2>2, <2>6 DEF LastCleared, Resets
  <2> QED
    BY <2>3, <2>4, <2>5, <2>7 DEF OutcomeInv
<1>4. ASSUME NEW what, Does(c, plan, what), what # "payments",
             UNCHANGED <<kind, old, payment>>,
             \A u \in Users : at'[u] = at[u] \/ (at[u] = "waiting" /\ at'[u] = "stranded"),
             IF what = "soldout" THEN soldout' = 0 ELSE soldout' = soldout,
             IF what = "abandoned" THEN abandoned' = 0 ELSE abandoned' = abandoned,
             IF what = "systemError" THEN systemError' = 0 ELSE systemError' = systemError
      PROVE  OutcomeInv'
  <2>1. /\ c \in Resets /\ step[c] \in 2..11 /\ step'[c] = step[c] + 1 /\ ~Undisturbed'
        /\ step' = [step EXCEPT ![c] = step[c] + 1]
    BY <1>2, <1>4
  <2>2. SoldOuts' = SoldOuts /\ Leavers' = Leavers /\ Stopped' = Stopped
    BY <1>4 DEF SoldOuts, Leavers, Stopped, Here
  <2>3. soldout \in Nat /\ abandoned \in Nat /\ systemError \in Nat
    BY DEF TypeInv, UserTypes
  <2>4. CountersBacked'
    BY <1>4, <2>2, <2>3, Sizes DEF OutcomeInv, CountersBacked
  <2>5. PaidIsBooked' /\ OldHaveEnded'
    BY <1>4 DEF OutcomeInv, PaidIsBooked, OldHaveEnded, Ended, TypeInv, UserTypes
  <2>6. Exact'
    BY <2>1 DEF Exact
  <2>7. PICK d \in Resets : Cleared(d)
    BY <2>1 DEF OutcomeInv, LastCleared, Untouched
  <2>8. /\ what = "soldout" <=> step[c] = 6
        /\ what = "abandoned" <=> step[c] = 7
        /\ kind = "loadTest" => (what = "systemError" <=> step[c] = 8)
    BY <1>2, <1>4
  <2>9. Cleared(d)'
    <3>1. /\ Cardinality(SoldOuts \ old) \in Nat /\ Cardinality(Leavers \ old) \in Nat
          /\ Cardinality(Stopped \ old) \in Nat
      BY Sizes
    <3>2. CASE d # c
      <4>1. step'[d] = step[d]
        BY <2>1, <3>2 DEF TypeInv, CallTypes
      <4> QED
        BY <1>4, <2>2, <2>3, <2>7, <3>1, <4>1 DEF Cleared
    <3>3. CASE d = c
      BY <1>4, <2>1, <2>2, <2>3, <2>7, <2>8, <3>1, <3>3 DEF Cleared
    <3> QED
      BY <3>2, <3>3
  <2>10. LastCleared'
    BY <2>7, <2>9 DEF LastCleared, Resets
  <2> QED
    BY <2>4, <2>5, <2>6, <2>10 DEF OutcomeInv
<1>5. CASE \/ DeleteReservations(c, plan) \/ DeleteUsers(c, plan) \/ ResetInventory(c, plan)
           \/ ResetStock(c, plan)
  BY <1>4, <1>5 DEF DeleteReservations, DeleteUsers, ResetInventory, ResetStock, resetElse
<1>6. CASE ResetCounter(c, plan)
  BY <1>4, <1>6 DEF ResetCounter
<1>7. CASE PurgeLine(c, plan)
  BY <1>4, <1>7 DEF PurgeLine
<1> QED
  BY <1>1, <1>3, <1>5, <1>6, <1>7 DEF ResetStep

LEMMA OutcomesStep == TypeInv /\ TypeInv' /\ OutcomeInv /\ [Next]_vars => OutcomeInv'
<1> SUFFICES ASSUME TypeInv, TypeInv', OutcomeInv, [Next]_vars PROVE OutcomeInv'
  OBVIOUS
<1>1. CASE UNCHANGED vars
  BY <1>1, CallCounted
     DEF vars, setupVars, eventVars, callVars, userVars, rowVars, counterVars, pastVars, writeVars
<1>2. ASSUME NEW c \in Calls, CallStep(c)
      PROVE  OutcomeInv'
  <2>1. CASE DemoReset(c) \/ LoadTestReset(c)
    BY <2>1, ResetCounted DEF DemoReset, LoadTestReset, Plans
  <2> QED
    BY <1>2, <2>1, InjectCounted DEF CallStep
<1>3. CASE Next
  BY <1>2, <1>3, InjectCounted, UserCounted, WorkerCounted, UncountedCounted, CrashCounted DEF Next
<1> QED
  BY <1>1, <1>3

(* All of it holds always. *)
SimulationInv == SeatInv /\ TypeInv /\ StockBounds /\ OutcomeInv

LEMMA SimulationAlways == Spec => []SimulationInv
<1>1. Init => SimulationInv
  BY SeatInit, TypesInit, BoundsInit, OutcomesInit DEF SimulationInv
<1>2. SimulationInv /\ [Next]_vars => SimulationInv'
  BY SeatStep, TypesStep, BoundsStep, OutcomesStep DEF SimulationInv
<1> QED
  BY <1>1, <1>2, PTL DEF Spec

-----------------------------------------------------------------------------
(* Every variable keeps its type, no counter exceeds the users there are,  *)
(* and the stock stays within the overdrafts and the stragglers of its     *)
(* last write (DemoService, LoadTestService, createHeld).                  *)
THEOREM SimulationTypes == Spec => []TypeOK
<1>1. SimulationInv => TypeOK
  <2> SUFFICES ASSUME SimulationInv PROVE TypeOK
    OBVIOUS
  <2>1. Cardinality(Users) \in Nat /\ granted \in Nat /\ stock \in Int /\ stragglers \in Nat
    BY Finite DEF SimulationInv, SeatInv, Shape
  <2>2. stragglers \in 0..Cardinality(Users)
    BY <2>1 DEF SimulationInv, StockBounds
  <2>3. stock \in -Cardinality(Users)..(granted + Cardinality(Users))
    <3>1. Overdrawing \in SUBSET Users
      BY DEF Overdrawing, Here
    <3>2. Cardinality(Overdrawing) <= Cardinality(Users) /\ Cardinality(Overdrawing) \in Nat
      BY <3>1, Finite, CountFewer
    <3>3. Cardinality(Kept) \in Nat /\ Cardinality(Over) \in Nat
      BY KeptAreUsers, Finite DEF SimulationInv, SeatInv
    <3>4. stock >= -Cardinality(Users)
      BY <2>1, <3>2 DEF SimulationInv, StockBounds, StockFloor
    <3>5. stock <= granted + Cardinality(Users)
      BY <2>1, <2>2, <3>3 DEF SimulationInv, SeatInv, NoneTwice
    <3> QED
      BY <2>1, <3>4, <3>5
  <2>4. {soldout, abandoned, systemError} \subseteq 0..Cardinality(Users)
    <3>1. /\ Cardinality(SoldOuts) <= Cardinality(Users) /\ Cardinality(Leavers) <= Cardinality(Users)
          /\ Cardinality(Stopped) <= Cardinality(Users)
      BY Sizes, CountFewer
    <3>2. Cardinality(SoldOuts) \in Nat /\ Cardinality(Leavers) \in Nat /\ Cardinality(Stopped) \in Nat
      BY Sizes
    <3> QED
      BY <2>1, <3>1, <3>2 DEF SimulationInv, OutcomeInv, CountersBacked, TypeInv, UserTypes
  <2>5. step \in [Calls -> 1..(Len(LoadTestPlan) + 1)]
    <3>1. Len(LoadTestPlan) + 1 = 12
      BY DEF LoadTestPlan
    <3> QED
      BY <3>1 DEF SimulationInv, TypeInv, CallTypes
  <2>6. call \in [Calls -> CallPlaces] /\ at \in [Users -> Places]
    BY DEF SimulationInv, TypeInv, CallTypes, UserTypes
  <2> QED
    BY <2>1, <2>2, <2>3, <2>4, <2>5, <2>6
       DEF TypeOK, SimulationInv, TypeInv, CallTypes, UserTypes, CallPlaces, Places
<1> QED
  BY <1>1, SimulationAlways, PTL

-----------------------------------------------------------------------------
(* Sums of outcomes *)

LEMMA TwoAddUp ==
    ASSUME NEW S \in SUBSET Users, NEW T \in SUBSET Users, S \cap T = {}
    PROVE  Cardinality(S \cup T) = Cardinality(S) + Cardinality(T)
<1>1. IsFiniteSet(S) /\ IsFiniteSet(T) /\ Cardinality(S) \in Nat /\ Cardinality(T) \in Nat
  BY Finite
<1>2. Cardinality(S \cup T) = Cardinality(S) + Cardinality(T) - Cardinality(S \cap T)
  BY <1>1, FS_Union
<1>3. Cardinality(S \cap T) = 0
  BY FS_EmptySet
<1> QED
  BY <1>1, <1>2, <1>3

LEMMA FourAddUp ==
    ASSUME NEW A \in SUBSET Users, NEW B \in SUBSET Users, NEW C \in SUBSET Users, NEW D \in SUBSET Users,
           A \cap B = {}, (A \cup B) \cap C = {}, (A \cup B \cup C) \cap D = {}
    PROVE  Cardinality(A \cup B \cup C \cup D)
             = Cardinality(A) + Cardinality(B) + Cardinality(C) + Cardinality(D)
<1>1. Cardinality(A \cup B) = Cardinality(A) + Cardinality(B)
  BY TwoAddUp
<1>2. Cardinality(A \cup B \cup C) = Cardinality(A \cup B) + Cardinality(C)
  <2>1. A \cup B \in SUBSET Users
    OBVIOUS
  <2> QED
    BY <2>1, TwoAddUp
<1>3. Cardinality(A \cup B \cup C \cup D) = Cardinality(A \cup B \cup C) + Cardinality(D)
  <2>1. A \cup B \cup C \in SUBSET Users
    OBVIOUS
  <2> QED
    BY <2>1, TwoAddUp
<1> QED
  BY <1>1, <1>2, <1>3

WithPayment(status) == {u \in Users : payment[u] = status}

(* The outcomes of different kinds are those of different users. *)
LEMMA OutcomesOf ==
    ASSUME TypeInv, OutcomeInv, NEW o
    PROVE  LET paid == WithPayment("PAID")  failed == WithPayment("FAILED")
               counted == (SoldOuts \ o) \cup (Leavers \ o) \cup (paid \ o) \cup (failed \ o)
               all == counted \cup (Stopped \ o)
               n == Cardinality(SoldOuts \ o) + Cardinality(Leavers \ o)
                      + Cardinality(paid \ o) + Cardinality(failed \ o)
           IN  /\ counted \in SUBSET Users /\ all \in SUBSET Users
               /\ Cardinality(counted) = n
               /\ Cardinality(all) = n + Cardinality(Stopped \ o)
<1> DEFINE A == SoldOuts \ o
           B == Leavers \ o
           C == WithPayment("PAID") \ o
           D == WithPayment("FAILED") \ o
           E == Stopped \ o
<1>1. /\ A \in SUBSET Users /\ B \in SUBSET Users /\ C \in SUBSET Users /\ D \in SUBSET Users
      /\ E \in SUBSET Users
  BY DEF SoldOuts, Leavers, Stopped, WithPayment, Here
<1>2. /\ A \cap B = {} /\ (A \cup B) \cap C = {} /\ (A \cup B \cup C) \cap D = {}
      /\ (A \cup B \cup C \cup D) \cap E = {}
  BY DEF SoldOuts, Leavers, Stopped, WithPayment, Here, OutcomeInv, PaidIsBooked
<1> HIDE DEF A, B, C, D, E
<1>3. Cardinality(A \cup B \cup C \cup D)
        = Cardinality(A) + Cardinality(B) + Cardinality(C) + Cardinality(D)
  BY SMTT(40), <1>1, <1>2, FourAddUp
<1>4. A \cup B \cup C \cup D \in SUBSET Users
  BY <1>1
<1>5. Cardinality((A \cup B \cup C \cup D) \cup E) = Cardinality(A \cup B \cup C \cup D) + Cardinality(E)
  BY <1>1, <1>2, <1>4, TwoAddUp
<1> QED
  BY <1>1, <1>3, <1>4, <1>5 DEF A, B, C, D, E

(* The sum a visitor checks: once everybody is through, the outcomes of    *)
(* the counters and of the database are as many as the users injected, but *)
(* for those nobody counts (Uncounted; simulateBookingAttempt, getStats).  *)
THEOREM EverybodyCounted == Spec => []OutcomesAddUp
<1>1. SimulationInv => OutcomesAddUp
  <2> SUFFICES ASSUME TypeInv, OutcomeInv, Begun = Through, Undisturbed
               PROVE  Stats.outcomes =
                        Cardinality(Begun \ Uncounted)
    BY DEF OutcomesAddUp, SimulationInv, Undisturbed
  <2> DEFINE paid == WithPayment("PAID")  failed == WithPayment("FAILED")
             counted == SoldOuts \cup Leavers \cup paid \cup failed
  <2>1. /\ Cardinality(counted)
             = Cardinality(SoldOuts) + Cardinality(Leavers) + Cardinality(paid) + Cardinality(failed)
        /\ Cardinality(counted \cup Stopped) = Cardinality(counted) + Cardinality(Stopped)
    <3> DEFINE none == {}
               rest == (SoldOuts \ none) \cup (Leavers \ none) \cup (paid \ none) \cup (failed \ none)
               n == Cardinality(SoldOuts \ none) + Cardinality(Leavers \ none)
                      + Cardinality(paid \ none) + Cardinality(failed \ none)
    <3>1. Cardinality(rest) = n /\ Cardinality(rest \cup (Stopped \ none)) = n + Cardinality(Stopped \ none)
      BY OutcomesOf
    <3>2. /\ SoldOuts \ none = SoldOuts /\ Leavers \ none = Leavers /\ Stopped \ none = Stopped
          /\ paid \ none = paid /\ failed \ none = failed
      OBVIOUS
    <3> QED
      BY <3>1, <3>2
  <2>2. DatabaseOutcomes = Cardinality(paid) + Cardinality(failed)
    BY DEF DatabaseOutcomes, Tally, WithPayment
  <2>3. /\ soldout = Cardinality(SoldOuts) /\ abandoned = Cardinality(Leavers)
        /\ kind = "loadTest" => systemError = Cardinality(Stopped)
    BY DEF OutcomeInv, Exact
  <2>4. \A u \in Users : at[u] = "free" \/ u \in counted \cup Stopped \cup Uncounted
    <3> SUFFICES ASSUME NEW u \in Users, at[u] # "free", u \notin Uncounted
                 PROVE  u \in counted \cup Stopped
      OBVIOUS
    <3>1. u \in Through
      BY DEF Begun, Here
    <3>2. at[u] \in {"abandoned", "soldOut", "error", "booked"} /\ payment[u] # "PENDING"
      BY <3>1 DEF Through, Here, OutcomeInv, Exact, Uncounted, TypeInv, CallTypes
    <3>3. CASE at[u] = "booked"
      BY <3>2, <3>3 DEF OutcomeInv, Exact, Here, TypeInv, UserTypes, WithPayment
    <3> QED
      BY <3>2, <3>3 DEF SoldOuts, Leavers, Stopped, Here
  <2>5. \A u \in counted : at[u] \in {"soldOut", "abandoned", "booked"} /\ u \in Users
    BY DEF SoldOuts, Leavers, WithPayment, Here, OutcomeInv, PaidIsBooked
  <2>6. CASE kind = "demo"
    <3>1. Begun \ Uncounted = counted
      BY <2>4, <2>5, <2>6 DEF Begun, Stopped, Uncounted, Here
    <3>2. Stats.outcomes = soldout + abandoned + DatabaseOutcomes
      BY <2>6 DEF Stats, DemoStats
    <3>3. /\ Cardinality(SoldOuts) \in Nat /\ Cardinality(Leavers) \in Nat
          /\ Cardinality(paid) \in Nat /\ Cardinality(failed) \in Nat
      BY Sizes DEF WithPayment
    <3> HIDE DEF counted, paid, failed
    <3>4. Stats.outcomes = Cardinality(counted)
      BY <2>1, <2>2, <2>3, <2>6, <3>2, <3>3
    <3> QED
      BY <3>1, <3>4, Zenon
  <2>7. CASE kind = "loadTest"
    <3>1. Begun \ Uncounted = counted \cup Stopped
      BY <2>4, <2>5, <2>7 DEF Begun, Stopped, Uncounted, Here
    <3>2. Stats.outcomes = soldout + abandoned + systemError + DatabaseOutcomes
      BY <2>7 DEF Stats, LoadTestStats
    <3>3. /\ Cardinality(SoldOuts) \in Nat /\ Cardinality(Leavers) \in Nat /\ Cardinality(Stopped) \in Nat
          /\ Cardinality(paid) \in Nat /\ Cardinality(failed) \in Nat
      BY Sizes DEF WithPayment
    <3> HIDE DEF counted, paid, failed
    <3>4. Stats.outcomes = Cardinality(counted \cup Stopped)
      BY <2>1, <2>2, <2>3, <2>7, <3>2, <3>3
    <3> QED
      BY <3>1, <3>4, Zenon
  <2> QED
    BY <2>6, <2>7 DEF TypeInv, CallTypes
<1> QED
  BY <1>1, SimulationAlways, PTL

(* After a reset the dashboard shows no outcome of a user who was through  *)
(* when it began, whatever users and other resets do between its           *)
(* statements, and although a restart may cut another one off              *)
(* (resetDemoEvent, resetLoadTestEvent).                                   *)
THEOREM ResetsForget == Spec => []ResetForgets
<1>1. SimulationInv => ResetForgets
  <2> SUFFICES ASSUME TypeInv, OutcomeInv, \A c \in Resets : Finished(c), Resets # {}
               PROVE  Stats.outcomes <= Cardinality(Begun \ old)
    BY DEF ResetForgets, SimulationInv
  <2> DEFINE paid == WithPayment("PAID")  failed == WithPayment("FAILED")
             counted == (SoldOuts \ old) \cup (Leavers \ old) \cup (paid \ old) \cup (failed \ old)
             all == counted \cup (Stopped \ old)
             n == Cardinality(SoldOuts \ old) + Cardinality(Leavers \ old)
                    + Cardinality(paid \ old) + Cardinality(failed \ old)
  <2>1. /\ counted \in SUBSET Users /\ all \in SUBSET Users
        /\ Cardinality(counted) = n /\ Cardinality(all) = n + Cardinality(Stopped \ old)
    BY OutcomesOf
  <2>2. \A c \in Resets : step[c] = IF kind = "demo" THEN 9 ELSE 12
    BY DEF Finished, ResetPlan, DemoPlan, LoadTestPlan
  <2>3. PICK c \in Resets : Cleared(c)
    BY <2>2 DEF OutcomeInv, LastCleared, Untouched
  <2>4. /\ soldout <= Cardinality(SoldOuts \ old) /\ abandoned <= Cardinality(Leavers \ old)
        /\ kind = "loadTest" => systemError <= Cardinality(Stopped \ old)
    BY <2>2, <2>3 DEF Cleared, TypeInv, CallTypes
  <2>5. paid \ old = paid /\ failed \ old = failed
    BY DEF WithPayment, OutcomeInv, OldHaveEnded
  <2>6. DatabaseOutcomes = Cardinality(paid \ old) + Cardinality(failed \ old)
    BY <2>5 DEF DatabaseOutcomes, Tally, WithPayment
  <2>7. all \in SUBSET (Begun \ old) /\ counted \in SUBSET (Begun \ old) /\ Begun \ old \in SUBSET Users
    BY DEF Begun, SoldOuts, Leavers, Stopped, WithPayment, Here, OutcomeInv, PaidIsBooked
  <2>8. /\ Cardinality(all) <= Cardinality(Begun \ old)
        /\ Cardinality(counted) <= Cardinality(Begun \ old)
        /\ Cardinality(Begun \ old) \in Nat
    BY <2>7, CountFewer, Finite
  <2>9. /\ Cardinality(SoldOuts \ old) \in Nat /\ Cardinality(Leavers \ old) \in Nat
        /\ Cardinality(Stopped \ old) \in Nat
        /\ Cardinality(paid \ old) \in Nat /\ Cardinality(failed \ old) \in Nat
    BY Sizes DEF WithPayment
  <2>10. soldout \in Nat /\ abandoned \in Nat /\ systemError \in Nat
    BY DEF TypeInv, UserTypes
  <2>11. CASE kind = "demo"
    <3>1. Stats.outcomes = soldout + abandoned + DatabaseOutcomes
      BY <2>11 DEF Stats, DemoStats
    <3> HIDE DEF counted, all, paid, failed
    <3> QED
      BY <2>1, <2>4, <2>6, <2>8, <2>9, <2>10, <3>1
  <2>12. CASE kind = "loadTest"
    <3>1. Stats.outcomes = soldout + abandoned + systemError + DatabaseOutcomes
      BY <2>12 DEF Stats, LoadTestStats
    <3> HIDE DEF counted, all, paid, failed
    <3> QED
      BY <2>1, <2>4, <2>6, <2>8, <2>9, <2>10, <2>12, <3>1
  <2> QED
    BY <2>11, <2>12 DEF TypeInv, CallTypes
<1> QED
  BY <1>1, SimulationAlways, PTL

-----------------------------------------------------------------------------
(* Sums over the requests, as numbers of pairs *)

Most == MaxVu + Cardinality(Users)
Pairs(q) == {r \in Calls \X (1..Most) : r[2] <= q[r[1]]}

LEMMA MostIsNat == Most \in Nat
BY SimulationAssumption, Finite DEF Most

LEMMA PairsFinite ==
    ASSUME NEW q
    PROVE  IsFiniteSet(Pairs(q)) /\ Cardinality(Pairs(q)) \in Nat
<1>1. IsFiniteSet(1..Most)
  BY MostIsNat, FS_Interval
<1>2. IsFiniteSet(Calls \X (1..Most))
  BY <1>1, SetupAssumption, FS_Product
<1>3. Pairs(q) \in SUBSET (Calls \X (1..Most))
  BY DEF Pairs
<1> QED
  BY <1>2, <1>3, FS_Subset, FS_CardinalityType

(* A request with k users more adds k pairs. *)
LEMMA PairsMore ==
    ASSUME NEW q \in [Calls -> 0..Most], NEW c \in Calls, NEW k \in Nat, q[c] + k <= Most
    PROVE  Cardinality(Pairs([q EXCEPT ![c] = @ + k])) = Cardinality(Pairs(q)) + k
<1> DEFINE p == [q EXCEPT ![c] = @ + k]
           a == q[c]
           new == {c} \X ((a + 1)..(a + k))
           f == [i \in (a + 1)..(a + k) |-> <<c, i>>]
<1>1. a \in Nat /\ a + k \in Nat /\ Most \in Nat
  BY MostIsNat
<1>2. Pairs(p) = Pairs(q) \cup new
  <2>1. \A d \in Calls : p[d] = IF d = c THEN a + k ELSE q[d]
    OBVIOUS
  <2>2. ASSUME NEW d \in Calls, NEW i \in 1..Most
        PROVE  i <= p[d] <=> (i <= q[d] \/ (d = c /\ i \in (a + 1)..(a + k)))
    <3>1. CASE d = c
      BY <1>1, <2>1, <3>1
    <3>2. CASE d # c
      BY <2>1, <3>2
    <3> QED
      BY <3>1, <3>2
  <2>3. new \in SUBSET (Calls \X (1..Most))
    BY <1>1
  <2> HIDE DEF p
  <2>4. ASSUME NEW r \in Calls \X (1..Most)
        PROVE  r \in Pairs(p) <=> r \in Pairs(q) \cup new
    <3>1. r[1] \in Calls /\ r[2] \in 1..Most /\ r = <<r[1], r[2]>>
      OBVIOUS
    <3> QED
      BY <2>2, <3>1 DEF Pairs
  <2>5. Pairs(p) \subseteq Calls \X (1..Most) /\ Pairs(q) \subseteq Calls \X (1..Most)
    BY DEF Pairs
  <2> QED
    BY <2>3, <2>4, <2>5
<1>3. Pairs(q) \cap new = {}
  BY <1>1 DEF Pairs
<1>4. IsFiniteSet((a + 1)..(a + k)) /\ Cardinality((a + 1)..(a + k)) = k
  <2>1. a + 1 \in Int /\ a + k \in Int
    BY <1>1
  <2>2. Cardinality((a + 1)..(a + k)) = IF a + 1 > a + k THEN 0 ELSE (a + k) - (a + 1) + 1
    BY <2>1, FS_Interval
  <2>3. IsFiniteSet((a + 1)..(a + k))
    BY <2>1, FS_Interval
  <2> QED
    BY <1>1, <2>2, <2>3
<1>5. f \in Bijection((a + 1)..(a + k), new)
  <2>1. f \in [(a + 1)..(a + k) -> new]
    OBVIOUS
  <2>2. \A i, j \in (a + 1)..(a + k) : f[i] = f[j] => i = j
    OBVIOUS
  <2>3. \A s \in new : \E i \in (a + 1)..(a + k) : f[i] = s
    OBVIOUS
  <2> QED
    BY <2>1, <2>2, <2>3 DEF Bijection, Injection, Surjection, IsInjective
<1>6. IsFiniteSet(new) /\ Cardinality(new) = k
  <2>1. ExistsBijection((a + 1)..(a + k), new)
    BY <1>5 DEF ExistsBijection
  <2> HIDE DEF a, new
  <2> QED
    BY <1>4, <2>1, FS_Bijection
<1> HIDE DEF p, new, f
<1>7. Cardinality(Pairs(q) \cup new)
        = Cardinality(Pairs(q)) + Cardinality(new) - Cardinality(Pairs(q) \cap new)
  BY <1>6, PairsFinite, FS_Union
<1>8. Cardinality(Pairs(q) \cap new) = 0
  BY <1>3, FS_EmptySet
<1>9. Cardinality(Pairs(p)) = Cardinality(Pairs(q)) + k
  BY <1>2, <1>6, <1>7, <1>8, PairsFinite
<1> QED
  BY <1>9 DEF p

-----------------------------------------------------------------------------
(* What is still to be injected *)

(* In the load test only an announced request has a batch. *)
Announced == {"injecting", "cutOff"}
Batches ==
    \A c \in Calls :
        /\ kind = "loadTest" => call[c] # "guaranteeing"
        /\ kind = "loadTest" /\ batch[c] # {} => call[c] \in Announced
        /\ call[c] \in {"guaranteeing", "injecting"} => OpOf[c] = "simulate"

(* Until a reset the two counters differ by what is to be injected. *)
Backlog ==
    kind = "loadTest" /\ (\A c \in Resets : Untouched(c)) =>
        requested - injected = Cardinality(Rest)

RestInv == Batches /\ Backlog

Amounts == [c \in Calls |-> IF call[c] \in Announced THEN ToInject(c) ELSE 0]

LEMMA RestIsPairs ==
    ASSUME TypeInv
    PROVE  /\ Rest = Pairs(Amounts)
           /\ Amounts \in [Calls -> 0..Most]
           /\ \A c \in Calls : ToInject(c) \in 0..Most /\ Cardinality(batch[c]) \in Nat
<1>1. \A c \in Calls : left[c] \in 0..MaxVu /\ batch[c] \in SUBSET Users
  BY DEF TypeInv, CallTypes
<1>2. \A c \in Calls : Cardinality(batch[c]) \in Nat /\ Cardinality(batch[c]) <= Cardinality(Users)
  BY <1>1, Finite, CountFewer
<1>3. Cardinality(Users) \in Nat /\ MaxVu \in Nat
  BY Finite, SimulationAssumption
<1>4. \A c \in Calls : ToInject(c) \in 0..Most
  BY <1>1, <1>2, <1>3 DEF ToInject, Most
<1>5. Amounts \in [Calls -> 0..Most]
  BY <1>4, MostIsNat DEF Amounts
<1>6. ASSUME NEW r \in Calls \X (1..Most)
      PROVE  r \in Rest <=> r \in Pairs(Amounts)
  <2>1. r[1] \in Calls /\ r[2] \in 1..Most
    OBVIOUS
  <2>2. Amounts[r[1]] = IF call[r[1]] \in Announced THEN ToInject(r[1]) ELSE 0
    BY <2>1 DEF Amounts
  <2>3. CASE call[r[1]] \in Announced
    BY <2>1, <2>2, <2>3 DEF Rest, Pairs, Most, Announced
  <2>4. CASE call[r[1]] \notin Announced
    BY <2>1, <2>2, <2>4, MostIsNat DEF Rest, Pairs, Most, Announced
  <2> QED
    BY <2>3, <2>4
<1>7. Rest \subseteq Calls \X (1..Most) /\ Pairs(Amounts) \subseteq Calls \X (1..Most)
  BY DEF Rest, Pairs, Most
<1> QED
  BY <1>2, <1>4, <1>5, <1>6, <1>7

LEMMA RestInit == Init => RestInv
<1> SUFFICES ASSUME Init PROVE RestInv
  OBVIOUS
<1>1. Rest = {}
  BY DEF Init, Rest
<1>2. Cardinality(Rest) = 0
  BY <1>1, FS_EmptySet
<1> QED
  BY <1>2 DEF Init, RestInv, Batches, Backlog

RestPaired ==
    /\ Cardinality(Rest) = Cardinality(Pairs(Amounts))
    /\ Amounts \in [Calls -> 0..Most]

LEMMA RestCounted == TypeInv => RestPaired
BY RestIsPairs DEF RestPaired

LEMMA RestCountedNext == TypeInv' => RestPaired'
BY RestCounted, PTL

(* No request begins, ends or changes what it has to inject. *)
LEMMA SameBacklog ==
    ASSUME TypeInv, TypeInv', Backlog, UNCHANGED <<kind, requested, injected>>,
           kind = "loadTest" => Amounts' = Amounts,
           (\A c \in Resets : Untouched(c)') => \A c \in Resets : Untouched(c)
    PROVE  Backlog'
<1> SUFFICES ASSUME kind' = "loadTest", (\A c \in Resets : Untouched(c))'
             PROVE  requested' - injected' = Cardinality(Rest')
  BY DEF Backlog
<1>1. requested - injected = Cardinality(Rest)
  BY DEF Backlog
<1>2. Cardinality(Rest') = Cardinality(Rest)
  BY RestCounted, RestCountedNext DEF RestPaired
<1> QED
  BY <1>1, <1>2

(* A request whose users to inject become k more. *)
LEMMA MoreBacklog ==
    ASSUME TypeInv, TypeInv', Backlog, NEW c \in Calls, NEW k \in Nat,
           UNCHANGED <<kind, step>>, requested' - injected' = requested - injected + k,
           Amounts' = [Amounts EXCEPT ![c] = @ + k]
    PROVE  Backlog'
<1>1. Amounts[c] + k <= Most
  <2>1. Amounts'[c] = Amounts[c] + k
    BY RestCounted DEF RestPaired
  <2> QED
    BY <2>1, RestCountedNext, MostIsNat DEF RestPaired
<1>2. Cardinality(Pairs(Amounts')) = Cardinality(Pairs(Amounts)) + k
  BY <1>1, RestCounted, PairsMore DEF RestPaired
<1> QED
  BY <1>2, RestCounted, RestCountedNext DEF RestPaired, Backlog, Untouched, Resets

(* The same from the other side: they become k fewer. *)
LEMMA FewerBacklog ==
    ASSUME TypeInv, TypeInv', Backlog, NEW c \in Calls, NEW k \in Nat,
           UNCHANGED <<kind, step>>, requested - injected = requested' - injected' + k,
           Amounts = [Amounts' EXCEPT ![c] = @ + k]
    PROVE  Backlog'
<1> DEFINE q == Amounts'
<1>1. q \in [Calls -> 0..Most] /\ Amounts = [q EXCEPT ![c] = @ + k]
  BY RestCountedNext DEF RestPaired
<1> HIDE DEF q
<1>2. q[c] + k <= Most
  <2>1. Amounts[c] = q[c] + k
    BY <1>1
  <2> QED
    BY <2>1, RestCounted, MostIsNat DEF RestPaired
<1>3. Cardinality(Pairs(Amounts)) = Cardinality(Pairs(q)) + k
  BY ZenonT(40), <1>1, <1>2, PairsMore
<1>4. Cardinality(Pairs(q)) \in Nat
  BY PairsFinite
<1>5. Cardinality(Rest') = Cardinality(Pairs(q)) /\ Cardinality(Rest) = Cardinality(Pairs(Amounts))
  BY RestCounted, RestCountedNext DEF RestPaired, q
<1>6. requested \in Nat /\ injected \in Nat /\ requested' \in Nat /\ injected' \in Nat
  BY DEF TypeInv, CallTypes
<1> SUFFICES ASSUME kind' = "loadTest", (\A d \in Resets : Untouched(d))'
             PROVE  requested' - injected' = Cardinality(Rest')
  BY DEF Backlog
<1>7. requested - injected = Cardinality(Rest)
  BY DEF Backlog, Untouched, Resets
<1>8. Cardinality(Rest) = Cardinality(Rest') + k /\ Cardinality(Rest') \in Nat
  BY <1>3, <1>4, <1>5, Zenon
<1> DEFINE before == requested - injected  after == requested' - injected'
           n == Cardinality(Rest)  m == Cardinality(Rest')
<1>9. before = after + k /\ before = n /\ n = m + k /\ m \in Nat /\ after \in Int
  <2>1. before = after + k
    OBVIOUS
  <2>2. before = n
    BY <1>7
  <2>3. n = m + k /\ m \in Nat
    BY <1>8
  <2>4. after \in Int
    BY <1>6
  <2> QED
    BY <2>1, <2>2, <2>3, <2>4
<1> HIDE DEF before, after, n, m
<1>10. after = m
  BY <1>9
<1> QED
  BY <1>10 DEF after, m

(* Steps that leave the requests alone. *)
LEMMA OthersRest ==
    ASSUME TypeInv, TypeInv', RestInv,
           UNCHANGED <<kind, requested, injected, call, left, batch, step, crashes>>
    PROVE  RestInv'
<1>1. Batches'
  BY DEF RestInv, Batches
<1>2. Amounts' = Amounts
  BY DEF Amounts, ToInject
<1> QED
  BY <1>1, <1>2, SameBacklog DEF RestInv, Untouched

LEMMA SetUpRest ==
    ASSUME TypeInv, TypeInv', RestInv, NEW c \in Calls, SetUp(c) \/ Ask(c)
    PROVE  RestInv'
<1> USE DEF callVars, injectVars, pastVars, writeVars
<1>1. UNCHANGED <<kind, requested, injected, left, batch, step, crashes>>
  BY DEF SetUp, FindOrCreateDemo, FindOrCreateLoadTest, FindEvent, CreateEvent, SeedStock,
         eventVars, LoseDemoRace, LoseLoadTestRace, FindWinner, Ask
<1>2. \E before, after \in CallPlaces \ (Announced \cup {"guaranteeing"}) : Moves(c, before, after)
  <2>1. \/ Ask(c) \/ FindEvent(c) \/ CreateEvent(c) \/ SeedStock(c) \/ LoseDemoRace(c)
        \/ LoseLoadTestRace(c) \/ FindWinner(c)
    BY DEF SetUp, FindOrCreateDemo, FindOrCreateLoadTest
  <2>2. CASE FindEvent(c)
    BY <2>2 DEF FindEvent, CallPlaces, Announced
  <2>3. CASE Ask(c) \/ CreateEvent(c)
    BY <2>3 DEF Ask, CreateEvent, CallPlaces, Announced
  <2>4. CASE SeedStock(c) \/ LoseDemoRace(c)
    BY <2>4 DEF SeedStock, eventVars, LoseDemoRace, CallPlaces, Announced
  <2>5. CASE LoseLoadTestRace(c) \/ FindWinner(c)
    BY <2>5 DEF LoseLoadTestRace, FindWinner, CallPlaces, Announced
  <2> QED
    BY <2>1, <2>2, <2>3, <2>4, <2>5
<1>3. Batches'
  BY <1>1, <1>2 DEF RestInv, Batches, Moves, Announced, TypeInv, CallTypes
<1>4. Amounts' = Amounts
  BY <1>1, <1>2 DEF Amounts, ToInject, Moves, Announced, TypeInv, CallTypes
<1> QED
  BY <1>1, <1>3, <1>4, SameBacklog DEF RestInv, Untouched

LEMMA InjectBatches ==
    ASSUME TypeInv, RestInv, NEW c \in Calls,
           \/ \E n \in 1..(MaxVu + 1), automatic \in BOOLEAN : Simulate(c, n, automatic)
           \/ StartDemo(c) \/ Announce(c) \/ AnswerAuto(c) \/ DemoBatches(c) \/ LoadTestBatches(c)
    PROVE  Batches' /\ UNCHANGED <<kind, step, crashes>>
<1> USE DEF setupVars, eventVars, callVars, injectVars, userVars, rowVars, counterVars, pastVars, writeVars
<1>1. UNCHANGED <<kind, step, crashes>>
  BY DEF Simulate, StartDemo, Announce, AnswerAuto, DemoBatches, LoadTestBatches, StartBatch,
         EndBatch, NextBatch
<1>2. \/ UNCHANGED call
      \/ Moves(c, "idle", "finding") \/ Moves(c, "idle", "refused")
      \/ Moves(c, "ready", "injecting") /\ OpOf[c] = "simulate"
      \/ Moves(c, "ready", "guaranteeing") /\ OpOf[c] = "simulate" /\ kind = "demo"
      \/ Moves(c, "guaranteeing", "injecting")
  BY DEF Simulate, StartDemo, Announce, AnswerAuto, DemoBatches, LoadTestBatches, StartBatch,
         EndBatch, NextBatch
<1>3. kind = "loadTest" =>
         \/ UNCHANGED batch
         \/ call[c] = "injecting" /\ UNCHANGED call /\ \A d \in Calls \ {c} : batch'[d] = batch[d]
         \/ call[c] = "guaranteeing"
  BY DEF Simulate, StartDemo, Announce, AnswerAuto, DemoBatches, LoadTestBatches, StartBatch,
         EndBatch, NextBatch, Moves, TypeInv, CallTypes
<1> QED
  BY <1>1, <1>2, <1>3 DEF RestInv, Batches, Moves, Announced, TypeInv, CallTypes

LEMMA InjectRest ==
    ASSUME TypeInv, TypeInv', RestInv, NEW c \in Calls,
           \/ \E n \in 1..(MaxVu + 1), automatic \in BOOLEAN : Simulate(c, n, automatic)
           \/ StartDemo(c) \/ Announce(c) \/ AnswerAuto(c) \/ DemoBatches(c) \/ LoadTestBatches(c)
    PROVE  RestInv'
<1> USE DEF setupVars, eventVars, callVars, injectVars, userVars, rowVars, counterVars, pastVars, writeVars
<1>1. Batches' /\ UNCHANGED <<kind, step, crashes>>
  BY InjectBatches
<1>2. CASE kind # "loadTest"
  BY <1>1, <1>2 DEF RestInv, Backlog
<1>3. ASSUME UNCHANGED <<requested, injected>>, Amounts' = Amounts
      PROVE  RestInv'
  BY <1>1, <1>3, SameBacklog DEF RestInv, Untouched
<1>4. Cardinality({}) = 0 /\ \A d \in Calls : left[d] \in Nat /\ Cardinality(batch[d]) \in Nat
  BY FS_EmptySet, RestIsPairs DEF TypeInv, CallTypes
<1>5. CASE \E n \in 1..(MaxVu + 1), automatic \in BOOLEAN : Simulate(c, n, automatic)
  <2>1. /\ UNCHANGED <<requested, injected, batch>>
        /\ Moves(c, "idle", "finding") \/ Moves(c, "idle", "refused")
        /\ \A d \in Calls \ {c} : left'[d] = left[d]
    BY <1>5 DEF Simulate, TypeInv, CallTypes
  <2>2. Amounts' = Amounts
    BY <2>1 DEF Amounts, ToInject, Announced, Moves, TypeInv, CallTypes
  <2> QED
    BY <1>3, <2>1, <2>2
<1>6. CASE kind = "loadTest" /\ Announce(c)
  <2>1. /\ Moves(c, "ready", "injecting") /\ requested' = requested + left[c]
        /\ UNCHANGED <<injected, left, batch>>
    BY <1>6 DEF Announce
  <2>2. batch[c] = {}
    BY <1>6, <2>1 DEF Moves, RestInv, Batches, Announced
  <2>3. Amounts[c] = 0
    BY <2>1 DEF Amounts, Announced, Moves
  <2>4. ToInject(c)' = left[c]
    BY <1>4, <2>1, <2>2 DEF ToInject
  <2>5. Amounts' = [Amounts EXCEPT ![c] = @ + left[c]]
    <3>1. \A d \in Calls : call'[d] = IF d = c THEN "injecting" ELSE call[d]
      BY <2>1 DEF Moves, TypeInv, CallTypes
    <3>2. \A d \in Calls \ {c} : ToInject(d)' = ToInject(d)
      BY <2>1 DEF ToInject
    <3>3. \A d \in Calls : Amounts'[d] = IF d = c THEN left[c] ELSE Amounts[d]
      BY <2>4, <3>1, <3>2 DEF Amounts, Announced
    <3>4. Amounts[c] + left[c] = left[c]
      BY <1>4, <2>3
    <3>5. Amounts \in [Calls -> 0..Most] /\ Amounts' \in [Calls -> 0..Most]
      BY RestCounted, RestCountedNext DEF RestPaired
    <3> QED
      BY <3>3, <3>4, <3>5
  <2>6. requested' - injected' = requested - injected + left[c]
    BY <1>4, <2>1 DEF TypeInv, CallTypes
  <2> QED
    BY <1>1, <1>4, <2>5, <2>6, MoreBacklog DEF RestInv
<1>7. CASE kind = "loadTest" /\ LoadTestBatches(c) /\ StartBatch(c)
  <2>1. PICK fresh \in SUBSET Here({"free"}) :
           /\ batch' = [batch EXCEPT ![c] = fresh]
           /\ left' = [left EXCEPT ![c] = @ - Cardinality(fresh)]
    BY <1>7, NextBatchTakes, SimulationAssumption DEF StartBatch
  <2>2. batch[c] = {} /\ UNCHANGED <<call, requested, injected>>
    BY <1>7 DEF StartBatch
  <2>3. Cardinality(fresh) \in Nat
    BY Finite DEF Here
  <2>4. ToInject(c)' = ToInject(c)
    BY <1>4, <2>1, <2>2, <2>3 DEF ToInject, TypeInv, CallTypes
  <2>5. \A d \in Calls \ {c} : ToInject(d)' = ToInject(d)
    BY <2>1 DEF ToInject, TypeInv, CallTypes
  <2>6. Amounts' = Amounts
    BY <2>2, <2>4, <2>5 DEF Amounts
  <2> QED
    BY <1>3, <2>2, <2>6
<1>8. CASE kind = "loadTest" /\ LoadTestBatches(c) /\ ~StartBatch(c)
  <2> DEFINE k == Cardinality(batch[c])
  <2>1. /\ EndBatch(c) /\ injected' = injected + k /\ UNCHANGED requested
    BY <1>8 DEF LoadTestBatches, BatchCount
  <2>2. /\ UNCHANGED <<call, left>> /\ call[c] = "injecting"
        /\ batch' = [batch EXCEPT ![c] = {}]
    BY <2>1 DEF EndBatch
  <2>3. k \in Nat
    BY <1>4
  <2>4. ToInject(c) = ToInject(c)' + k
    BY <1>4, <2>2 DEF ToInject, TypeInv, CallTypes
  <2>5. \A d \in Calls \ {c} : ToInject(d)' = ToInject(d)
    BY <2>2 DEF ToInject, TypeInv, CallTypes
  <2> HIDE DEF k
  <2>6. Amounts = [Amounts' EXCEPT ![c] = @ + k]
    <3>1. \A d \in Calls : Amounts[d] = IF d = c THEN Amounts'[c] + k ELSE Amounts'[d]
      BY <2>2, <2>4, <2>5 DEF Amounts, Announced
    <3> QED
      BY <3>1 DEF Amounts
  <2>7. requested - injected = requested' - injected' + k
    BY <2>1, <2>3 DEF TypeInv, CallTypes
  <2> QED
    BY <1>1, <2>3, <2>6, <2>7, FewerBacklog DEF RestInv
<1>9. kind = "loadTest" => ~StartDemo(c) /\ ~DemoBatches(c) /\ ~AnswerAuto(c)
  BY DEF StartDemo, DemoBatches, AnswerAuto, Moves, RestInv, Batches
<1> QED
  BY <1>2, <1>5, <1>6, <1>7, <1>8, <1>9

LEMMA ResetRest ==
    ASSUME TypeInv, TypeInv', RestInv, NEW c \in Calls, NEW plan \in Plans, ResetStep(c, plan)
    PROVE  RestInv'
<1> USE DEF resetFrame, setupVars, eventVars, callVars, injectVars, userVars, rowVars, counterVars, pastVars, writeVars
<1>1. UNCHANGED <<kind, left, batch, crashes>> /\ (UNCHANGED call \/ Moves(c, "ready", "failed"))
  BY DEF ResetStep, DeletePayments, DeleteReservations, DeleteUsers, ForeignKeyFails, ResetInventory, ResetStock, resetElse,
         ResetCounter, PurgeLine
<1>2. Batches'
  BY <1>1 DEF RestInv, Batches, Moves, Announced, TypeInv, CallTypes
<1>3. CASE ForeignKeyFails(c, plan)
  <2>1. UNCHANGED <<requested, injected, step>>
    BY <1>3 DEF ForeignKeyFails
  <2>2. Amounts' = Amounts
    BY <1>1 DEF Amounts, ToInject, Moves, Announced, TypeInv, CallTypes
  <2> QED
    BY <1>1, <1>2, <2>1, <2>2, SameBacklog DEF RestInv, Untouched
<1>4. ASSUME NEW what, Does(c, plan, what)
      PROVE  RestInv'
  <2>1. c \in Resets /\ step[c] \in Nat /\ step[c] # 0 /\ step'[c] = step[c] + 1
    BY <1>4 DEF Does, NextInPlan, Resets, TypeInv, CallTypes
  <2>2. ~(\A d \in Resets : Untouched(d))'
    BY <2>1 DEF Untouched, Resets
  <2> QED
    BY <1>2, <2>2 DEF RestInv, Backlog
<1> QED
  BY <1>3, <1>4
     DEF ResetStep, DeletePayments, DeleteReservations, DeleteUsers, ResetInventory, ResetStock, resetElse, ResetCounter, PurgeLine

LEMMA CrashRest ==
    ASSUME TypeInv, TypeInv', RestInv, Crash
    PROVE  RestInv'
<1>1. /\ UNCHANGED <<kind, left, batch, step, requested, injected>> /\ crashes = 0 /\ crashes' = 1
      /\ call' = [c \in Calls |->
            IF call[c] \in {"idle", "refused", "failed", "cutOff"} THEN call[c]
            ELSE IF OpOf[c] = "stats" THEN "idle"
            ELSE IF call[c] = "injecting" THEN "cutOff" ELSE "dead"]
  BY DEF Crash, callVars, injectVars, eventVars, writeVars
<1>2. ASSUME NEW c \in Calls
      PROVE  (call'[c] \in Announced <=> call[c] \in Announced) /\ call'[c] \notin {"guaranteeing", "injecting"}
  BY <1>1 DEF RestInv, Batches, Announced
<1>3. Batches'
  BY <1>1, <1>2 DEF RestInv, Batches
<1>4. Amounts' = Amounts
  BY <1>1, <1>2 DEF Amounts, ToInject
<1> QED
  BY <1>1, <1>3, <1>4, SameBacklog DEF RestInv, Untouched

LEMMA UncountedRest ==
    ASSUME TypeInv, TypeInv', RestInv,
           (\E c \in Calls : BatchUncounted(c)) \/ (\E u \in Users : ErrorUncounted(u))
    PROVE  RestInv'
<1> USE DEF eventVars, callVars, injectVars
<1>1. UNCHANGED <<kind, left, batch, step, requested, injected>>
  BY DEF BatchUncounted, ErrorUncounted
<1>2. ASSUME NEW c \in Calls
      PROVE  /\ call'[c] \in Announced <=> call[c] \in Announced
             /\ call'[c] \in {"guaranteeing", "injecting"} => call'[c] = call[c]
  BY DEF BatchUncounted, ErrorUncounted, Moves, Announced, TypeInv, CallTypes
<1>3. Batches'
  BY <1>1, <1>2 DEF RestInv, Batches
<1>4. Amounts' = Amounts
  BY <1>1, <1>2 DEF Amounts, ToInject
<1> QED
  BY <1>1, <1>3, <1>4, SameBacklog DEF RestInv, Untouched

LEMMA RestStep == TypeInv /\ TypeInv' /\ RestInv /\ [Next]_vars => RestInv'
<1> SUFFICES ASSUME TypeInv, TypeInv', RestInv, [Next]_vars PROVE RestInv'
  OBVIOUS
<1> USE DEF elseVars, setupVars, eventVars, callVars, injectVars, userVars, rowVars, counterVars, pastVars, writeVars
<1>1. CASE UNCHANGED vars
  BY <1>1, OthersRest DEF vars
<1>2. ASSUME NEW u \in Users,
             \/ UserStep(u) \/ (\E accepted \in BOOLEAN : Charge(u, accepted)) \/ Expire(u)
             \/ ReturnSeat(u)
      PROVE  RestInv'
  <2>1. UNCHANGED <<kind, requested, injected, call, left, batch, step, crashes>>
    BY <1>2
       DEF UserStep, DemoInject, LoadTestInject, Admit, DemoAttempt, LoadTestAttempt, Attempt,
           CreateUser, JoinLine, InjectionFails, CountError, Decide, CountAbandoned, Take,
           GiveBack, Seat, CountSoldOut, Insert, InsertFails, Pay, Charge, Expire, ReturnSeat
  <2> QED
    BY <2>1, OthersRest
<1>3. ASSUME NEW c \in Calls, CallStep(c)
      PROVE  RestInv'
  <2>1. CASE DemoReset(c) \/ LoadTestReset(c)
    BY <2>1, ResetRest DEF DemoReset, LoadTestReset, Plans
  <2> QED
    BY <1>3, <2>1, SetUpRest, InjectRest DEF CallStep
<1>4. CASE Next
  BY <1>2, <1>3, <1>4, SetUpRest, InjectRest, UncountedRest, CrashRest DEF Next
<1> QED
  BY <1>1, <1>4

(* What the dashboard of the load test shows as pending is exactly what    *)
(* its requests have still to inject, through all batches, failures of     *)
(* single users and a restart (runSimulationBatches, getStats).            *)
THEOREM PendingIsExact == Spec => []PendingIsRest
<1>1. Init => TypeInv /\ RestInv
  BY TypesInit, RestInit
<1>2. TypeInv /\ RestInv /\ [Next]_vars => TypeInv' /\ RestInv'
  BY TypesStep, RestStep
<1>3. TypeInv /\ RestInv => PendingIsRest
  <2> SUFFICES ASSUME TypeInv, RestInv, kind = "loadTest", \A c \in Resets : Untouched(c)
               PROVE  Stats.pending = Cardinality(Rest)
    BY DEF PendingIsRest
  <2>1. requested - injected = Cardinality(Rest)
    BY DEF RestInv, Backlog
  <2>2. Cardinality(Rest) \in Nat
    BY RestIsPairs, PairsFinite
  <2>3. Stats.pending = AtLeastZero(requested - injected)
    BY DEF Stats, LoadTestStats
  <2>4. ~(Cardinality(Rest) < 0)
    BY <2>2
  <2> QED
    BY <2>1, <2>3, <2>4 DEF AtLeastZero
<1> QED
  BY <1>1, <1>2, <1>3, PTL DEF Spec
=============================================================================
