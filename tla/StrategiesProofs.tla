-------------------------- MODULE StrategiesProofs --------------------------
(***************************************************************************)
(* Proofs about Strategies, for any number of calls, any mix, quantities,  *)
(* retries and seats: the row never goes negative, a lock is let go, and   *)
(* in a sound mix no update is lost and nothing oversold.                  *)
(***************************************************************************)
EXTENDS Strategies, SeatCountingProofs

(* What r may do. *)
StepOf(r) == Call(r) \/ Step(r) \/ PessimisticRollback(r) \/ Dies(r)

(* Quantities are numbers. *)
LEMMA SeatsAreNat == \A q \in Requests : Qty[q] \in Nat
BY SeatAssumption

-----------------------------------------------------------------------------
(* The part of the invariant that holds in any mix. *)

LEMMA CallInit == Init => CallInv
BY StrategyAssumption
   DEF Init, CallInv, TypeOK, IdleUncalled, TriesLeft, ReadSuffices, LockedIsRead, ReadBefore,
       NeverNegative, RetriesPaidFor, LockIsHeld, OverdrawnOnKey, StrategyNames, Uses

(* One step keeps every type, and the bound of the attempts. *)
LEMMA TypeStep ==
    ASSUME CallInv, NEW r \in Requests, StepOf(r)
    PROVE  TypeOK' /\ TriesLeft' /\ RetriesPaidFor'
<1> USE SeatsAreNat, StrategyAssumption
    DEF CallInv, TypeOK, TriesLeft, RetriesPaidFor, ReadBefore, Goto
<1>1. CASE Call(r)
  BY <1>1 DEF Call
<1>2. CASE Read(r)
  BY <1>2 DEF Read
<1>3. CASE NaiveWrite(r)
  BY <1>3 DEF NaiveWrite
<1>4. CASE OptimisticWrite(r)
  BY <1>4 DEF OptimisticWrite, NextVersion
<1>5. CASE OptimisticRetry(r)
  <2>1. /\ tries[r] < MaxRetries /\ tries[r] \in Nat /\ MaxRetries \in Nat
        /\ tries' = [tries EXCEPT ![r] = tries[r] + 1]
    BY <1>5 DEF OptimisticRetry
  <2>2. tries' \in [Requests -> 0..MaxRetries]
    BY <2>1
  <2>3. tries[r] + 1 <= version
    BY <1>5, <2>1 DEF OptimisticRetry, Swaps
  <2>4. RetriesPaidFor'
    BY <1>5, <2>1, <2>3 DEF OptimisticRetry
  <2>5. CASE AttemptLeft(r)
    <3>1. tries[r] + 1 < MaxRetries
      BY <2>5 DEF AttemptLeft
    <3>2. TriesLeft'
      BY <1>5, <2>1, <2>5, <3>1 DEF OptimisticRetry
    <3> QED
      BY <1>5, <2>2, <2>4, <2>5, <3>2 DEF OptimisticRetry
  <2>6. CASE ~AttemptLeft(r)
    <3>1. TriesLeft'
      BY <1>5, <2>1, <2>6 DEF OptimisticRetry
    <3> QED
      BY <1>5, <2>2, <2>4, <2>6, <3>1 DEF OptimisticRetry
  <2> QED
    BY <2>5, <2>6
<1>6. CASE PessimisticLock(r)
  BY <1>6 DEF PessimisticLock, Holder
<1>7. CASE PessimisticCommit(r)
  BY <1>7 DEF PessimisticCommit
<1>8. CASE AtomicWrite(r)
  BY <1>8 DEF AtomicWrite
<1>9. CASE RedisTake(r)
  BY <1>9 DEF RedisTake
<1>10. CASE RedisGiveBack(r)
  BY <1>10 DEF RedisGiveBack
<1>11. CASE Record(r) \/ PessimisticRollback(r) \/ Dies(r)
  BY <1>11 DEF Record, PessimisticRollback, Dies
<1> QED
  BY <1>1, <1>2, <1>3, <1>4, <1>5, <1>6, <1>7, <1>8, <1>9, <1>10, <1>11 DEF StepOf, Step

(* One step keeps what a call knows when it writes, so the row stays       *)
(* nonnegative, and a lock has its holder.                                 *)
LEMMA KnownStep ==
    ASSUME CallInv, NEW r \in Requests, StepOf(r)
    PROVE  ReadSuffices' /\ LockedIsRead' /\ NeverNegative' /\ LockIsHeld'
<1> USE SeatsAreNat, StrategyAssumption
    DEF CallInv, TypeOK, ReadSuffices, LockedIsRead, NeverNegative, LockIsHeld, Goto, Unlocked, Uses
<1>1. CASE Call(r)
  BY <1>1 DEF Call, IdleUncalled
<1>2. CASE Read(r)
  BY <1>2 DEF Read
<1>3. CASE NaiveWrite(r)
  BY <1>3 DEF NaiveWrite
<1>4. CASE OptimisticWrite(r)
  BY <1>4 DEF OptimisticWrite
<1>5. CASE OptimisticRetry(r)
  BY <1>5 DEF OptimisticRetry
<1>6. CASE PessimisticLock(r)
  BY <1>6 DEF PessimisticLock, Holder
<1>7. CASE PessimisticCommit(r)
  BY <1>7 DEF PessimisticCommit
<1>8. CASE AtomicWrite(r)
  BY <1>8 DEF AtomicWrite, Enough
<1>9. CASE RedisTake(r)
  BY <1>9 DEF RedisTake
<1>10. CASE RedisGiveBack(r)
  BY <1>10 DEF RedisGiveBack
<1>11. CASE Record(r)
  BY <1>11 DEF Record
<1>12. CASE PessimisticRollback(r)
  BY <1>12 DEF PessimisticRollback
<1>13. CASE Dies(r)
  BY <1>13 DEF Dies
<1> QED
  BY <1>1, <1>2, <1>3, <1>4, <1>5, <1>6, <1>7, <1>8, <1>9, <1>10, <1>11, <1>12, <1>13
     DEF StepOf, Step

(* One step keeps which strategy can be where. *)
LEMMA PlacesStep ==
    ASSUME CallInv, NEW r \in Requests, StepOf(r)
    PROVE  IdleUncalled' /\ ReadBefore' /\ OverdrawnOnKey'
<1> USE SeatsAreNat, StrategyAssumption
    DEF CallInv, TypeOK, IdleUncalled, ReadBefore, OverdrawnOnKey, RetriesPaidFor, Goto, Uses
<1>1. CASE Call(r)
  BY <1>1 DEF Call, StrategyNames
<1>2. CASE Read(r)
  BY <1>2 DEF Read
<1>3. CASE NaiveWrite(r)
  BY <1>3 DEF NaiveWrite
<1>4. CASE OptimisticWrite(r)
  BY <1>4 DEF OptimisticWrite, NextVersion
<1>5. CASE OptimisticRetry(r)
  BY <1>5 DEF OptimisticRetry
<1>6. CASE PessimisticLock(r)
  BY <1>6 DEF PessimisticLock
<1>7. CASE PessimisticCommit(r)
  BY <1>7 DEF PessimisticCommit
<1>8. CASE AtomicWrite(r)
  BY <1>8 DEF AtomicWrite
<1>9. CASE RedisTake(r)
  BY <1>9 DEF RedisTake
<1>10. CASE RedisGiveBack(r)
  BY <1>10 DEF RedisGiveBack
<1>11. CASE Record(r)
  BY <1>11 DEF Record
<1>12. CASE PessimisticRollback(r)
  BY <1>12 DEF PessimisticRollback
<1>13. CASE Dies(r)
  BY <1>13 DEF Dies
<1> QED
  BY <1>1, <1>2, <1>3, <1>4, <1>5, <1>6, <1>7, <1>8, <1>9, <1>10, <1>11, <1>12, <1>13
     DEF StepOf, Step

LEMMA CallNext == ASSUME CallInv, [Next]_vars PROVE CallInv'
<1>1. CASE Next
  <2>1. PICK r \in Requests : StepOf(r)
    BY <1>1 DEF Next, StepOf
  <2> QED
    BY <2>1, TypeStep, KnownStep, PlacesStep DEF CallInv
<1>2. CASE UNCHANGED vars
  BY <1>2 DEF vars, CallInv, TypeOK, IdleUncalled, TriesLeft, ReadSuffices, LockedIsRead, ReadBefore,
              NeverNegative, RetriesPaidFor, LockIsHeld, OverdrawnOnKey, Uses
<1> QED
  BY <1>1, <1>2

-----------------------------------------------------------------------------
(* The books. *)

(* The sets the counters are compared with. *)
LEMMA CountTypes ==
    ASSUME TypeOK
    PROVE  /\ FromRow \in SUBSET Requests /\ FromKey \in SUBSET Requests /\ OnKey \in SUBSET Requests
           /\ SeatCount(FromRow) \in Nat /\ SeatCount(FromKey) \in Nat /\ SeatCount(OnKey) \in Nat
           /\ remaining \in Int /\ stock \in Int /\ TotalQty \in Nat
<1>1. FromRow \in SUBSET Requests /\ FromKey \in SUBSET Requests /\ OnKey \in SUBSET Requests
  BY DEF FromRow, FromKey, OnKey
<1> QED
  BY <1>1, SeatsFinite, StrategyAssumption DEF TypeOK

(* Before the first call nothing is taken. *)
LEMMA StockInit == Init => StockInv
<1> SUFFICES ASSUME Init PROVE StockInv
  OBVIOUS
<1>1. FromRow = {} /\ FromKey = {} /\ OnKey = {}
  BY DEF Init, FromRow, FromKey, OnKey
<1>2. SeatCount(FromRow) = 0 /\ SeatCount(FromKey) = 0 /\ SeatCount(OnKey) = 0
  BY <1>1, SeatCountEmpty
<1> QED
  BY <1>2, CallInit, StrategyAssumption
     DEF Init, StockInv, VersionedIsRead, Accounted, KeySuffices

(* A mix that is sound after a step was sound before it. *)
LEMMA SoundBefore ==
    ASSUME CallInv, NEW r \in Requests, StepOf(r), SoundMix'
    PROVE  SoundMix
<1>1. \A q \in Requests : strategy'[q] = strategy[q] \/ strategy[q] = "none"
  <2>1. CASE Call(r)
    BY <2>1 DEF Call, Goto, CallInv, TypeOK, IdleUncalled
  <2>2. CASE ~Call(r)
    BY <2>2 DEF StepOf, Step, Read, NaiveWrite, OptimisticWrite, OptimisticRetry, PessimisticLock,
                PessimisticCommit, AtomicWrite, RedisTake, RedisGiveBack, Record, PessimisticRollback, Dies
  <2> QED
    BY <2>1, <2>2
<1>2. \A a, b \in Requests :
         /\ strategy'[a] # "naive"
         /\ strategy'[a] = "optimistic" => strategy'[b] \in {"none", "optimistic", "redis"}
  BY DEF SoundMix, Uses
<1> QED
  BY <1>1, <1>2 DEF SoundMix, Uses

(* In a sound mix an unchanged version means an unchanged row. *)
LEMMA VersionStep ==
    ASSUME StockInv, NEW r \in Requests, StepOf(r)
    PROVE  VersionedIsRead'
<1> SUFFICES ASSUME SoundMix',
                    NEW q \in Requests, pc'[q] = "read", readVersion'[q] = version'
             PROVE  readQty'[q] = remaining'
  BY DEF VersionedIsRead
<1>1. SoundMix
  BY SoundBefore DEF StockInv
<1> USE <1>1, SeatsAreNat
    DEF StockInv, CallInv, TypeOK, VersionedIsRead, ReadBefore, Goto, Uses
<1>2. CASE Call(r)
  BY <1>2 DEF Call
<1>3. CASE Read(r)
  BY <1>3 DEF Read
<1>4. CASE NaiveWrite(r)
  BY <1>4 DEF NaiveWrite, SoundMix
<1>5. CASE OptimisticWrite(r)
  BY <1>5 DEF OptimisticWrite, NextVersion
<1>6. CASE OptimisticRetry(r)
  BY <1>6 DEF OptimisticRetry
<1>7. CASE PessimisticLock(r)
  BY <1>7 DEF PessimisticLock
<1>8. CASE PessimisticCommit(r)
  <2>1. pc[q] = "read" /\ strategy[q] = "optimistic"
    BY <1>8 DEF PessimisticCommit, SoundMix
  <2> QED
    BY <1>8, <2>1 DEF PessimisticCommit, SoundMix, LockedIsRead
<1>9. CASE AtomicWrite(r)
  <2>1. pc[q] = "read" /\ strategy[q] = "optimistic"
    BY <1>9 DEF AtomicWrite, SoundMix
  <2> QED
    BY <1>9, <2>1 DEF AtomicWrite, SoundMix
<1>10. CASE RedisTake(r)
  BY <1>10 DEF RedisTake
<1>11. CASE RedisGiveBack(r)
  BY <1>11 DEF RedisGiveBack
<1>12. CASE Record(r)
  BY <1>12 DEF Record
<1>13. CASE PessimisticRollback(r)
  BY <1>13 DEF PessimisticRollback
<1>14. CASE Dies(r)
  BY <1>14 DEF Dies
<1> QED
  BY <1>2, <1>3, <1>4, <1>5, <1>6, <1>7, <1>8, <1>9, <1>10, <1>11, <1>12, <1>13, <1>14
     DEF StepOf, Step

(* The row's side of the books after a step that leaves it alone, or that  *)
(* takes the seats of r from it.                                           *)
LEMMA RowSame ==
    ASSUME StockInv, NEW r \in Requests, StepOf(r),
           remaining' = remaining, FromRow' = FromRow
    PROVE  SoundMix' => remaining' + SeatCount(FromRow') = TotalQty
BY SoundBefore DEF StockInv, Accounted

LEMMA RowTaken ==
    ASSUME StockInv, NEW r \in Requests, StepOf(r),
           SoundMix => remaining' = remaining - Qty[r],
           r \notin FromRow, FromRow' = FromRow \cup {r}
    PROVE  SoundMix' => remaining' + SeatCount(FromRow') = TotalQty
<1>1. SeatCount(FromRow') = SeatCount(FromRow) + Qty[r]
  BY CountTypes, SeatCountAdd DEF StockInv, CallInv
<1>2. remaining \in Int /\ SeatCount(FromRow) \in Nat /\ TotalQty \in Nat /\ Qty[r] \in Nat
  BY CountTypes, SeatsAreNat DEF StockInv, CallInv
<1> QED
  BY <1>1, <1>2, SoundBefore DEF StockInv, Accounted

(* The key's side after a step that leaves it alone. *)
LEMMA KeySame ==
    ASSUME StockInv, stock' = stock, FromKey' = FromKey, OnKey' \in SUBSET OnKey
    PROVE  stock' + SeatCount(FromKey') = TotalQty /\ KeySuffices'
<1>1. SeatCount(OnKey') <= SeatCount(OnKey) /\ SeatCount(OnKey') \in Nat
  BY CountTypes, SeatCountMonotone, SeatsFinite DEF StockInv, CallInv
<1> QED
  BY <1>1, CountTypes DEF StockInv, CallInv, Accounted, KeySuffices

(* One step keeps the books: each counter moves with what is taken from it. *)
LEMMA BooksStep ==
    ASSUME StockInv, NEW r \in Requests, StepOf(r)
    PROVE  Accounted' /\ KeySuffices'
<1> DEFINE Same == FromRow' = FromRow /\ FromKey' = FromKey /\ OnKey' \in SUBSET OnKey
           Sold == /\ r \notin FromRow /\ FromRow' = FromRow \cup {r}
                   /\ FromKey' = FromKey /\ OnKey' \in SUBSET OnKey
<1> USE DEF Goto
<1>0. /\ pc = [q \in Requests |-> pc[q]] /\ strategy = [q \in Requests |-> strategy[q]]
      /\ Qty[r] \in Nat
  BY SeatsAreNat DEF StockInv, CallInv, TypeOK
<1>s. ASSUME Same, remaining' = remaining, stock' = stock
      PROVE  Accounted' /\ KeySuffices'
  BY <1>s, RowSame, KeySame DEF Accounted
<1>t. ASSUME Sold, SoundMix => remaining' = remaining - Qty[r], stock' = stock
      PROVE  Accounted' /\ KeySuffices'
  BY <1>t, RowTaken, KeySame DEF Accounted
<1>1. CASE Call(r)
  <2>1. Same
    BY <1>0, <1>1 DEF Call, FromRow, FromKey, OnKey, Uses
  <2> QED
    BY <1>1, <1>s, <2>1 DEF Call
<1>2. CASE Read(r)
  <2>1. Same
    BY <1>0, <1>2 DEF Read, FromRow, FromKey, OnKey, Uses
  <2> QED
    BY <1>2, <1>s, <2>1 DEF Read
<1>3. CASE NaiveWrite(r)
  <2>1. Sold
    BY <1>0, <1>3 DEF NaiveWrite, FromRow, FromKey, OnKey, Uses
  <2>2. ~SoundMix
    BY <1>3 DEF NaiveWrite, SoundMix
  <2> QED
    BY <1>3, <1>t, <2>1, <2>2 DEF NaiveWrite
<1>4. CASE OptimisticWrite(r)
  <2>1. Sold
    BY <1>0, <1>4 DEF OptimisticWrite, FromRow, FromKey, OnKey, Uses
  <2>2. SoundMix => remaining' = remaining - Qty[r]
    BY <1>4 DEF OptimisticWrite, Swaps, StockInv, VersionedIsRead
  <2> QED
    BY <1>4, <1>t, <2>1, <2>2 DEF OptimisticWrite
<1>5. CASE OptimisticRetry(r)
  <2>1. Same
    BY <1>0, <1>5 DEF OptimisticRetry, FromRow, FromKey, OnKey, Uses
  <2> QED
    BY <1>5, <1>s, <2>1 DEF OptimisticRetry
<1>6. CASE PessimisticLock(r)
  <2>1. Same
    BY <1>0, <1>6 DEF PessimisticLock, FromRow, FromKey, OnKey, Uses
  <2> QED
    BY <1>6, <1>s, <2>1 DEF PessimisticLock
<1>7. CASE PessimisticCommit(r)
  <2>1. readQty[r] = remaining /\ Uses(r, "pessimistic")
    BY <1>7 DEF PessimisticCommit, StockInv, CallInv, LockedIsRead
  <2>2. Sold
    BY <1>0, <1>7, <2>1 DEF PessimisticCommit, FromRow, FromKey, OnKey, Uses
  <2> QED
    BY <1>7, <1>t, <2>1, <2>2 DEF PessimisticCommit
<1>8. CASE AtomicWrite(r)
  <2>1. CASE Enough(r)
    <3>1. Sold
      BY <1>0, <1>8, <2>1 DEF AtomicWrite, FromRow, FromKey, OnKey, Uses
    <3> QED
      BY <1>8, <1>t, <2>1, <3>1 DEF AtomicWrite
  <2>2. CASE ~Enough(r)
    <3>1. Same
      BY <1>0, <1>8, <2>2 DEF AtomicWrite, FromRow, FromKey, OnKey, Uses
    <3> QED
      BY <1>8, <1>s, <2>2, <3>1 DEF AtomicWrite
  <2> QED
    BY <2>1, <2>2
<1>9. CASE RedisTake(r)
  <2>1. r \notin FromKey /\ FromKey' = FromKey \cup {r} /\ FromRow' = FromRow
    BY <1>0, <1>9 DEF RedisTake, FromRow, FromKey, Uses
  <2>2. SeatCount(FromKey') = SeatCount(FromKey) + Qty[r]
    BY <2>1, CountTypes, SeatCountAdd DEF StockInv, CallInv
  <2>3. stock' + SeatCount(FromKey') = TotalQty
    BY <1>0, <1>9, <2>2, CountTypes DEF RedisTake, StockInv, CallInv, Accounted
  <2>4. Accounted'
    BY <1>9, <2>1, <2>3, RowSame DEF RedisTake, Accounted
  <2>5. CASE stock - Qty[r] < 0
    <3>1. OnKey' = OnKey
      BY <1>0, <1>9, <2>5 DEF RedisTake, OnKey, Uses
    <3> QED
      BY <2>4, <3>1 DEF StockInv, KeySuffices
  <2>6. CASE ~(stock - Qty[r] < 0)
    <3>1. OnKey' \in SUBSET FromKey' /\ FromKey' \in SUBSET Requests
      BY DEF OnKey, FromKey
    <3>2. SeatCount(OnKey') <= SeatCount(FromKey') /\ SeatCount(OnKey') \in Nat
      BY <3>1, SeatCountMonotone, SeatsFinite
    <3>3. SeatCount(FromKey') <= TotalQty
      BY <1>0, <2>2, <2>6, CountTypes DEF StockInv, CallInv, Accounted
    <3> QED
      BY <2>2, <2>4, <3>2, <3>3, <1>0, CountTypes DEF StockInv, CallInv, KeySuffices
  <2> QED
    BY <2>5, <2>6
<1>10. CASE RedisGiveBack(r)
  <2>1. Uses(r, "redis")
    BY <1>10 DEF RedisGiveBack, StockInv, CallInv, OverdrawnOnKey
  <2>2. /\ r \in FromKey /\ FromKey' = FromKey \ {r}
        /\ FromRow' = FromRow /\ OnKey' = OnKey
    BY <1>0, <1>10, <2>1 DEF RedisGiveBack, FromRow, FromKey, OnKey, Uses
  <2>3. SeatCount(FromKey') = SeatCount(FromKey) - Qty[r]
    BY <2>2, CountTypes, SeatCountRemove DEF StockInv, CallInv
  <2>4. stock' + SeatCount(FromKey') = TotalQty
    BY <1>0, <1>10, <2>3, CountTypes DEF RedisGiveBack, StockInv, CallInv, Accounted
  <2> QED
    BY <1>10, <2>2, <2>4, RowSame DEF RedisGiveBack, StockInv, Accounted, KeySuffices
<1>11. CASE Record(r)
  <2>1. Same
    BY <1>0, <1>11 DEF Record, FromRow, FromKey, OnKey, Uses
  <2> QED
    BY <1>11, <1>s, <2>1 DEF Record
<1>12. CASE PessimisticRollback(r)
  <2>1. Same
    BY <1>0, <1>12 DEF PessimisticRollback, FromRow, FromKey, OnKey, Uses
  <2> QED
    BY <1>12, <1>s, <2>1 DEF PessimisticRollback
<1>13. CASE Dies(r)
  <2>1. Same
    BY <1>0, <1>13 DEF Dies, FromRow, FromKey, OnKey, Uses, StockInv, CallInv, OverdrawnOnKey
  <2> QED
    BY <1>13, <1>s, <2>1 DEF Dies
<1> QED
  BY <1>1, <1>2, <1>3, <1>4, <1>5, <1>6, <1>7, <1>8, <1>9, <1>10, <1>11, <1>12, <1>13
     DEF StepOf, Step

(* The whole invariant is inductive. *)
LEMMA StockNext == ASSUME StockInv, [Next]_vars PROVE StockInv'
<1>1. CallInv'
  BY CallNext DEF StockInv
<1>2. CASE Next
  <2>1. PICK r \in Requests : StepOf(r)
    BY <1>2 DEF Next, StepOf
  <2> QED
    BY <1>1, <2>1, VersionStep, BooksStep DEF StockInv
<1>3. CASE UNCHANGED vars
  BY <1>1, <1>3 DEF vars, StockInv, VersionedIsRead, Accounted, KeySuffices, SoundMix, Uses,
                    FromRow, FromKey, OnKey
<1> QED
  BY <1>2, <1>3

(* The books imply the limit: what is booked was taken, and no more was    *)
(* taken than there was.                                                   *)
LEMMA BooksLimit == ASSUME StockInv PROVE NoOversell
<1> DEFINE Row == {r \in Requests : ~Uses(r, "redis") /\ pc[r] = "booked"}
           Key == {r \in Requests : Uses(r, "redis") /\ pc[r] = "booked"}
<1>1. Row \in SUBSET FromRow /\ Key \in SUBSET OnKey
  BY DEF FromRow, OnKey
<1>2. SeatCount(Row) <= SeatCount(FromRow) /\ SeatCount(Key) <= SeatCount(OnKey)
  BY <1>1, CountTypes, SeatCountMonotone DEF StockInv, CallInv
<1>3. SeatCount(Row) \in Nat /\ SeatCount(Key) \in Nat
  BY SeatsFinite
<1>4. SoundMix => SeatCount(FromRow) <= TotalQty
  BY CountTypes DEF StockInv, CallInv, Accounted, NeverNegative
<1>5. SeatCount(OnKey) <= TotalQty
  BY DEF StockInv, KeySuffices
<1>6. (SoundMix => SeatCount(Row) <= TotalQty) /\ SeatCount(Key) <= TotalQty
  <2> HIDE DEF Row, Key
  <2> QED
    BY <1>2, <1>3, <1>4, <1>5, CountTypes DEF StockInv, CallInv
<1> QED
  BY <1>6 DEF NoOversell

-----------------------------------------------------------------------------
LEMMA StockAlways == Spec => []StockInv
<1>1. Init => StockInv
  BY StockInit
<1>2. StockInv /\ [Next]_vars => StockInv'
  BY StockNext
<1> QED
  BY <1>1, <1>2, PTL DEF Spec

(* Variables keep their types, whatever is mixed, and no optimistic call   *)
(* makes more than its attempts.                                           *)
THEOREM StrategiesTypeCorrect == Spec => []TypeOK
<1>1. StockInv => TypeOK
  BY DEF StockInv, CallInv
<1> QED
  BY <1>1, StockAlways, PTL

(* The key loses no update of createRedis in any mix, the row none of      *)
(* createPessimistic, createOptimistic and createAtomic in a sound one.    *)
THEOREM NoUpdateLost == Spec => []Accounted
<1>1. StockInv => Accounted
  BY DEF StockInv
<1> QED
  BY <1>1, StockAlways, PTL

(* No more seats are booked through the key, or in a sound mix through the *)
(* row, than the event has.                                                *)
THEOREM StrategiesNeverOversell == Spec => []NoOversell
<1>1. StockInv => NoOversell
  BY BooksLimit
<1> QED
  BY <1>1, StockAlways, PTL

(* remainingQty is never negative, even where naive calls oversell.        *)
THEOREM RowNeverNegative == Spec => []NeverNegative
<1>1. StockInv => NeverNegative
  BY DEF StockInv, CallInv
<1> QED
  BY <1>1, StockAlways, PTL

(* An attempt of createOptimistic fails only for a success of another.     *)
THEOREM RetriesArePaidFor == Spec => []RetriesPaidFor
<1>1. StockInv => RetriesPaidFor
  BY DEF StockInv, CallInv
<1> QED
  BY <1>1, StockAlways, PTL

(* createPessimistic never leaves the row locked behind it.                *)
THEOREM LockAlwaysHeld == Spec => []LockIsHeld
<1>1. StockInv => LockIsHeld
  BY DEF StockInv, CallInv
<1> QED
  BY <1>1, StockAlways, PTL
=============================================================================
