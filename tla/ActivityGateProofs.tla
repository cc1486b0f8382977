-------------------------- MODULE ActivityGateProofs --------------------------
(***************************************************************************)
(* Proofs about ActivityGate, for any number of rows and all durations     *)
(* that keep GateAssumption: no tick that is needed finds the gate shut,   *)
(* and the daily check bounds what the gate does miss.                     *)
(***************************************************************************)
EXTENDS ActivityGate, TLAPS

-----------------------------------------------------------------------------
(* The inductive invariant *)

(* What is left of the flag, by what set it; and what a tick has left. *)
FlagOutlives ==
    \A r \in marked :
        row[r] = "held" => /\ flag >= FlagTtl - age[r]
                           /\ age[r] <= HoldTtl + since["sweep"]

FlagAwaits ==
    met => /\ flag >= FlagTtl - metFor
           /\ metFor <= since["reconcile"]

(* How long nobody may have looked: as long as the daily key has lived, or *)
(* its whole life and the time without a tick.                             *)
Unseen(w) ==
    grace[w] + IF daily[w] > 0 THEN Daily - daily[w] ELSE Daily + since[w]

RowsSeen ==
    \A r \in Rows :
        /\ row[r] = "held" => age[r] <= HoldTtl + Unseen("sweep")
        /\ Open(r) => age[r] <= PaymentFallback + Unseen("sweep")

DriftSeen ==
    /\ drift => adrift <= Unseen("reconcile")
    /\ ~drift => adrift = 0

(* A row begins with its INSERT. *)
AgeStarts == \A r \in Rows : row[r] = "none" => age[r] = 0 /\ r \notin marked

GateInv == TypeOK /\ FlagOutlives /\ FlagAwaits /\ RowsSeen /\ DriftSeen /\ AgeStarts

-----------------------------------------------------------------------------
LEMMA GateConstants ==
    /\ HoldTtl \in Nat /\ PaymentFallback \in Nat /\ FlagTtl \in Nat /\ Daily \in Nat
    /\ HoldTtl > 0 /\ PaymentFallback > 0 /\ FlagTtl > 0 /\ Daily > 0
    /\ Gap["sweep"] \in Nat /\ Gap["reconcile"] \in Nat
    /\ MaxFails \in Nat
    /\ HoldTtl + Gap["sweep"] < FlagTtl
    /\ Gap["reconcile"] < FlagTtl
<1>1. {HoldTtl, PaymentFallback, FlagTtl, Daily} \subseteq Nat \ {0}
  BY GateAssumption
<1>2. HoldTtl \in Nat \ {0} /\ PaymentFallback \in Nat \ {0} /\ FlagTtl \in Nat \ {0} /\ Daily \in Nat \ {0}
  BY <1>1
<1>3. Gap \in [Workers -> Nat \ {0}] /\ "sweep" \in Workers /\ "reconcile" \in Workers
  BY GateAssumption DEF Workers
<1>4. Gap["sweep"] \in Nat /\ Gap["reconcile"] \in Nat
  BY <1>3
<1> QED
  BY <1>2, <1>4, GateAssumption

(* Init establishes it. *)
LEMMA GateInit == Init => GateInv
<1> SUFFICES ASSUME Init PROVE GateInv
  OBVIOUS
<1> USE GateConstants DEF Init, Workers
<1>1. TypeOK
  <2>1. \A w \in Workers : since[w] <= Gap[w]
    OBVIOUS
  <2>2. flag \in 0..FlagTtl /\ fails \in 0..MaxFails
    OBVIOUS
  <2>3. daily \in [Workers -> 0..Daily]
    OBVIOUS
  <2> QED
    BY <2>1, <2>2, <2>3 DEF TypeOK
<1>2. FlagOutlives /\ FlagAwaits /\ DriftSeen /\ AgeStarts
  BY DEF FlagOutlives, FlagAwaits, DriftSeen, AgeStarts
<1>3. RowsSeen
  BY DEF RowsSeen, Open
<1> QED
  BY <1>1, <1>2, <1>3 DEF GateInv

(* A new flag outlives whatever is open, and meets whatever is wrong. *)
LEMMA MarkKeeps ==
    ASSUME GateInv, MarkActivity, UNCHANGED <<daily, since, age, failVars>>,
           row' \in [Rows -> {"none", "held", "paying", "done"}],
           marked' \in SUBSET Rows,
           \A r \in Rows : \/ row'[r] = row[r] /\ (r \in marked' => r \in marked)
                           \/ row[r] = "none" /\ row'[r] = "held"
    PROVE  GateInv'
<1> USE GateConstants DEF GateInv, TypeOK, MarkActivity, Renewed, failVars
<1>1. TypeOK'
  OBVIOUS
<1>2. FlagOutlives'
  BY DEF FlagOutlives, AgeStarts, Workers
<1>3. FlagAwaits'
  BY DEF FlagAwaits, Workers
<1>4. RowsSeen'
  BY DEF RowsSeen, Unseen, AgeStarts, Open, Workers
<1>5. DriftSeen' /\ AgeStarts'
  BY DEF DriftSeen, AgeStarts, Unseen, Workers
<1> QED
  BY <1>1, <1>2, <1>3, <1>4, <1>5

(* Bookings and payments. *)
LEMMA HandlersKeep ==
    ASSUME GateInv,
           NEW r \in Rows,
           Book(r) \/ BookUnmarked(r) \/ PayFor(r) \/ Settle(r)
    PROVE  GateInv'
<1> USE GateConstants
<1>1. CASE Book(r)
  BY <1>1, MarkKeeps DEF Book, GateInv, TypeOK
<1>2. CASE BookUnmarked(r) \/ PayFor(r) \/ Settle(r)
  <2> USE <1>2 DEF BookUnmarked, PayFor, Settle, GateInv, TypeOK, driftVars, failVars
  <2>1. TypeOK'
    OBVIOUS
  <2>2. FlagOutlives'
    <3> SUFFICES ASSUME NEW q \in marked', row'[q] = "held"
                 PROVE  flag' >= FlagTtl - age'[q] /\ age'[q] <= HoldTtl + since'["sweep"]
      BY DEF FlagOutlives
    <3>1. q \in marked /\ q \in Rows /\ row[q] # "none"
      BY DEF AgeStarts
    <3>2. row[q] = "held" /\ age'[q] = age[q]
      BY <3>1
    <3> QED
      BY <3>1, <3>2 DEF FlagOutlives
  <2>3. FlagAwaits' /\ DriftSeen' /\ AgeStarts'
    BY DEF FlagAwaits, DriftSeen, AgeStarts, Unseen
  <2>4. RowsSeen'
    BY DEF RowsSeen, AgeStarts, Unseen, Open, Workers
  <2> QED
    BY <2>1, <2>2, <2>3, <2>4
<1> QED
  BY <1>1, <1>2

LEMMA WatchKeeps ==
    ASSUME GateInv, Watch
    PROVE  GateInv'
BY MarkKeeps DEF Watch, rowVars, GateInv, TypeOK

LEMMA DivergeKeeps ==
    ASSUME GateInv, Diverge
    PROVE  GateInv'
BY GateConstants
   DEF Diverge, GateInv, TypeOK, FlagOutlives, FlagAwaits, RowsSeen, DriftSeen, AgeStarts,
       Unseen, Open, Workers, rowVars, failVars

(* The types of what every working tick changes. *)
LEMMA TickTypes ==
    ASSUME TypeOK, NEW w \in Workers, Ticks(w), Passes(w)
    PROVE  /\ flag' \in 0..FlagTtl
           /\ daily' \in [Workers -> 0..Daily]
           /\ since' \in [Workers -> Nat]
           /\ \A v \in Workers : since'[v] <= Gap[v]
<1> USE GateConstants DEF TypeOK, Ticks, Passes
<1>1. daily' \in [Workers -> 0..Daily]
  <2>1. CASE flag > 0
    BY <2>1
  <2>2. CASE ~(flag > 0)
    <3>1. \A v \in Workers : (IF v \in KeyOf(w) THEN Daily ELSE daily[v]) \in 0..Daily
      OBVIOUS
    <3> QED
      BY <2>2, <3>1
  <2> QED
    BY <2>1, <2>2
<1>2. since' \in [Workers -> Nat] /\ \A v \in Workers : since'[v] \in {0, since[v]}
  OBVIOUS
<1>3. \A v \in Workers : since'[v] <= Gap[v]
  BY <1>2 DEF Workers
<1> QED
  BY <1>1, <1>2, <1>3

(* A tick that works has seen what was overdue. *)
LEMMA SweepKeeps ==
    ASSUME GateInv, Sweep
    PROVE  GateInv'
<1> USE GateConstants
        DEF GateInv, TypeOK, Sweep, Ticks, Passes, Works, KeyOf, Workers, failVars
<1>1. TypeOK'
  <2>1. /\ flag' \in 0..FlagTtl
        /\ daily' \in [Workers -> 0..Daily]
        /\ since' \in [Workers -> Nat]
        /\ \A v \in Workers : since'[v] <= Gap[v]
    BY TickTypes
  <2> QED
    BY <2>1
<1>2. \A r \in Rows : row'[r] = "held" => row[r] = "held" /\ age'[r] = age[r] /\ age[r] <= HoldTtl
  BY DEF Lapsed, Open
<1>3. \A r \in Rows : row'[r] = "paying" => row[r] = "paying" /\ age'[r] = age[r] /\ age[r] <= PaymentFallback
  BY DEF Lapsed, Open
<1>4. FlagOutlives'
  BY <1>2 DEF FlagOutlives
<1>5. FlagAwaits' /\ DriftSeen' /\ AgeStarts'
  BY DEF FlagAwaits, DriftSeen, AgeStarts, Unseen, Lapsed, Open
<1>6. Unseen("sweep")' >= 0
  BY DEF Unseen
<1>7. Unseen("sweep")' \in Int
  BY DEF Unseen
<1>8. \A r \in Rows : row'[r] = "held" => age[r] <= PaymentFallback
  BY DEF Lapsed, Open
<1>9. RowsSeen'
  BY <1>2, <1>3, <1>6, <1>7, <1>8 DEF RowsSeen, Open
<1> QED
  BY <1>1, <1>4, <1>5, <1>9

LEMMA ReconcileKeeps ==
    ASSUME GateInv, Reconcile
    PROVE  GateInv'
<1> USE GateConstants
        DEF GateInv, TypeOK, Reconcile, Ticks, Passes, Works, KeyOf, Workers, rowVars, failVars
<1>1. TypeOK'
  <2>1. /\ flag' \in 0..FlagTtl
        /\ daily' \in [Workers -> 0..Daily]
        /\ since' \in [Workers -> Nat]
        /\ \A v \in Workers : since'[v] <= Gap[v]
    BY TickTypes
  <2> QED
    BY <2>1
<1>2. FlagOutlives' /\ FlagAwaits' /\ DriftSeen' /\ AgeStarts'
  BY DEF FlagOutlives, FlagAwaits, DriftSeen, AgeStarts
<1>3. RowsSeen'
  BY DEF RowsSeen, Unseen, Open
<1> QED
  BY <1>1, <1>2, <1>3

(* A tick that is skipped had nothing to see: whatever the flag vouches    *)
(* for has been seen before the flag was gone.                             *)
LEMMA SkipKeeps ==
    ASSUME GateInv, NEW w \in Workers, Skip(w) \/ FailCheck(w)
    PROVE  GateInv'
<1> USE GateConstants DEF GateInv, TypeOK, Workers
<1>1. flag = 0
  BY DEF Skip, Works, FailCheck
<1>2. \A r \in marked : row[r] # "held"
  BY <1>1 DEF FlagOutlives
<1>3. ~met
  BY <1>1 DEF FlagAwaits
<1>4. CASE Skip(w)
  <2> USE <1>4 DEF Skip, Ticks, Works, rowVars, driftVars, failVars
  <2>1. TypeOK'
    OBVIOUS
  <2>2. FlagOutlives' /\ FlagAwaits' /\ AgeStarts'
    BY <1>2, <1>3 DEF FlagOutlives, FlagAwaits, AgeStarts
  <2>3. RowsSeen' /\ DriftSeen'
    BY DEF RowsSeen, DriftSeen, Unseen, Open
  <2> QED
    BY <2>1, <2>2, <2>3
<1>5. CASE FailCheck(w)
  <2> USE <1>5 DEF FailCheck, Passes, Works, KeyOf, rowVars, driftVars
  <2>1. TypeOK'
    OBVIOUS
  <2>2. FlagOutlives' /\ FlagAwaits' /\ AgeStarts'
    BY <1>2, <1>3 DEF FlagOutlives, FlagAwaits, AgeStarts
  <2>3. RowsSeen' /\ DriftSeen'
    BY DEF RowsSeen, DriftSeen, Unseen, Open
  <2> QED
    BY <2>1, <2>2, <2>3
<1> QED
  BY <1>4, <1>5

LEMMA TimeKeeps ==
    ASSUME GateInv, Time
    PROVE  GateInv'
<1> USE GateConstants DEF GateInv, TypeOK, Time, Less, Workers, failVars
<1>1. TypeOK'
  OBVIOUS
<1>2. FlagOutlives' /\ FlagAwaits' /\ AgeStarts'
  BY DEF FlagOutlives, FlagAwaits, AgeStarts, Open
<1>3. \A w \in Workers : Unseen(w)' >= Unseen(w) + 1 /\ Unseen(w) \in Int /\ Unseen(w)' \in Int
  BY DEF Unseen
<1>4. RowsSeen'
  BY <1>3 DEF RowsSeen, Open
<1>5. DriftSeen'
  BY <1>3 DEF DriftSeen
<1> QED
  BY <1>1, <1>2, <1>4, <1>5

LEMMA GateStep == GateInv /\ [Next]_vars => GateInv'
<1> SUFFICES ASSUME GateInv, [Next]_vars PROVE GateInv'
  OBVIOUS
<1>1. CASE Sweep
  BY <1>1, SweepKeeps
<1>2. CASE Reconcile
  BY <1>2, ReconcileKeeps
<1>3. CASE \E w \in Workers : Skip(w) \/ FailCheck(w)
  BY <1>3, SkipKeeps
<1>4. CASE Time
  BY <1>4, TimeKeeps
<1>5. CASE \E r \in Rows : Book(r) \/ BookUnmarked(r) \/ PayFor(r) \/ Settle(r)
  BY <1>5, HandlersKeep
<1>6. CASE Watch
  BY <1>6, WatchKeeps
<1>7. CASE Diverge
  BY <1>7, DivergeKeeps
<1>8. CASE UNCHANGED vars
  BY <1>8 DEF vars, rowVars, driftVars, failVars, GateInv, TypeOK, FlagOutlives, FlagAwaits,
              RowsSeen, DriftSeen, AgeStarts, Unseen, Open
<1> QED
  BY <1>1, <1>2, <1>3, <1>4, <1>5, <1>6, <1>7, <1>8 DEF Next

LEMMA GateAlways == Spec => []GateInv
BY GateInit, GateStep, PTL DEF Spec

-----------------------------------------------------------------------------
(* The theorems *)

(* Every variable has its type, for all durations and any number of rows.  *)
THEOREM GateTypeCorrect == Spec => []TypeOK
<1>1. GateInv => TypeOK
  BY DEF GateInv
<1> QED
  BY <1>1, GateAlways, PTL

(* The flag of a booking outlives its hold: whoever does not pay is swept  *)
(* on time, whenever HELD_TTL_MS and the longest gap between two sweeps    *)
(* together are below HELD_ACTIVITY_TTL_MS.                                *)
THEOREM HoldsSweptInTime == Spec => []SweptInTime
<1>1. GateInv => SweptInTime
  <2> SUFFICES ASSUME GateInv, NEW r \in marked, row[r] = "held"
               PROVE  age[r] <= HoldTtl + Gap["sweep"]
    BY DEF SweptInTime
  <2>1. since["sweep"] <= Gap["sweep"] /\ since["sweep"] \in Nat
    BY DEF GateInv, TypeOK, Workers
  <2>2. age[r] \in Nat /\ age[r] <= HoldTtl + since["sweep"]
    BY DEF GateInv, TypeOK, FlagOutlives
  <2> QED
    BY <2>1, <2>2, GateConstants
<1> QED
  BY <1>1, GateAlways, PTL

(* The next reconcile after an activity finds the flag set, whenever the   *)
(* longest gap between two of them is below HELD_ACTIVITY_TTL_MS.          *)
THEOREM DriftMetByNextReconcile == Spec => []DriftMet
<1>1. GateInv => DriftMet
  BY GateConstants DEF GateInv, TypeOK, FlagAwaits, DriftMet, Workers
<1> QED
  BY <1>1, GateAlways, PTL

(* Whatever the flag misses, the daily check sees, however often it fails. *)
THEOREM NobodyForgotten == Spec => []CheckedDaily
<1>1. GateInv => CheckedDaily
  <2> SUFFICES ASSUME GateInv PROVE CheckedDaily
    OBVIOUS
  <2> USE GateConstants DEF GateInv, TypeOK, Workers
  <2>1. \A w \in Workers : Unseen(w) \in Int /\ Late(w) \in Int /\ Unseen(w) <= Late(w)
    BY DEF Unseen, Late
  <2> QED
    BY <2>1 DEF CheckedDaily, RowsSeen, DriftSeen, Open
<1> QED
  BY <1>1, GateAlways, PTL
=============================================================================
