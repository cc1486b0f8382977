----------------------------- MODULE ActivityGate -----------------------------
(***************************************************************************)
(* When the two repeating workers look at Postgres at all: a flag in Redis *)
(* says that somebody has booked or watched of late, and without it a tick *)
(* does nothing, except once a day. The flag, the holds, the fallback of a *)
(* payment and the daily keys each have a life of their own; what matters  *)
(* is which of them ends first.                                            *)
(*                                                                         *)
(* Time is discrete, in units the constants share. A tick comes at most    *)
(* Gap after the last one: the interval, and how late the worker may be,   *)
(* be it busy, failing or down.                                            *)
(* What is done to the rows and the stock is HeldPipeline's.               *)
(***************************************************************************)
EXTENDS Integers, FiniteSets

CONSTANTS
    Rows,             \* reservations
    HoldTtl,          \* HELD_TTL_MS
    PaymentFallback,  \* PAYMENT_ATTEMPT_FALLBACK_MS
    FlagTtl,          \* HELD_ACTIVITY_TTL_MS
    Daily,            \* SWEEP_FALLBACK_INTERVAL_MS, RECONCILE_FALLBACK_INTERVAL_MS
    Gap,              \* longest time between two ticks of each worker
    MaxFails          \* bound on the checks that fail

Workers == {"sweep", "reconcile"}

ASSUME GateAssumption ==
    /\ {HoldTtl, PaymentFallback, FlagTtl, Daily} \subseteq Nat \ {0}
    /\ Gap \in [Workers -> Nat \ {0}]
    /\ MaxFails \in Nat
    /\ HoldTtl + Gap["sweep"] < FlagTtl   \* 30 s, 5 s and 90 s
    /\ Gap["reconcile"] < FlagTtl         \* 60 s and 90 s

VARIABLES
    flag,    \* what is left of the life of reservations:held-activity
    daily,   \* and of the two fallback-cooldown keys
    since,   \* time since the last tick of each worker
    row,     \* "none", "held", "paying" (it has a payment), or "done"
    age,     \* time since the INSERT of a row that is not done
    marked,  \* rows whose createHeld came as far as the flag
    drift,   \* the stock of Redis is not that of Postgres
    adrift,  \* for how long
    met,     \* the flag has been set since
    metFor,  \* for how long
    fails,   \* history: daily checks that failed
    grace    \* history: what they have cost each worker

rowVars   == <<row, age, marked>>
driftVars == <<drift, adrift, met, metFor>>
failVars  == <<fails, grace>>
vars == <<flag, daily, since, rowVars, driftVars, failVars>>

Open(r) == row[r] \in {"held", "paying"}

Init ==
    /\ flag = 0
    /\ daily = [w \in Workers |-> 0]
    /\ since = [w \in Workers |-> 0]
    /\ row = [r \in Rows |-> "none"]
    /\ age = [r \in Rows |-> 0]
    /\ marked = {}
    /\ drift = FALSE /\ adrift = 0
    /\ met = FALSE /\ metFor = 0
    /\ fails = 0
    /\ grace = [w \in Workers |-> 0]

-----------------------------------------------------------------------------
(* Activity *)

(* SET ... PX. (Mistake: NX, which leaves an older flag as it is.) *)
FirstOnly(left) == IF left = 0 THEN FlagTtl ELSE left
Renewed(left) == FlagTtl

MarkActivity ==
    /\ flag' = Renewed(flag)
    /\ met' = drift
    /\ metFor' = IF met THEN metFor ELSE 0
    /\ UNCHANGED <<drift, adrift>>

(* createHeld, from its INSERT to the flag. *)
Book(r) ==
    /\ row[r] = "none"
    /\ row' = [row EXCEPT ![r] = "held"]
    /\ marked' = marked \cup {r}
    /\ MarkActivity
    /\ UNCHANGED <<daily, since, age, failVars>>

(* It dies in between. *)
BookUnmarked(r) ==
    /\ row[r] = "none"
    /\ row' = [row EXCEPT ![r] = "held"]
    /\ UNCHANGED <<flag, daily, since, age, marked, driftVars, failVars>>

(* getStats of an open dashboard. *)
Watch ==
    /\ MarkActivity
    /\ UNCHANGED <<daily, since, rowVars, failVars>>

PayFor(r) ==
    /\ row[r] = "held"
    /\ row' = [row EXCEPT ![r] = "paying"]
    /\ UNCHANGED <<flag, daily, since, age, marked, driftVars, failVars>>

Settle(r) ==
    /\ row[r] = "paying"
    /\ row' = [row EXCEPT ![r] = "done"]
    /\ age' = [age EXCEPT ![r] = 0]
    /\ UNCHANGED <<flag, daily, since, marked, driftVars, failVars>>

(* A handler dies between its two stores. *)
Diverge ==
    /\ ~drift
    /\ drift' = TRUE
    /\ UNCHANGED <<flag, daily, since, rowVars, adrift, met, metFor, failVars>>

-----------------------------------------------------------------------------
(* The gate *)

(* Each worker has its own daily key. (Mistake: one for both.) *)
OneKey(w) == Workers
KeyOf(w) == {w}

Works(w) == flag > 0 \/ daily[w] = 0

Passes(w) ==
    /\ Works(w)
    /\ daily' = IF flag > 0 THEN daily
                ELSE [v \in Workers |-> IF v \in KeyOf(w) THEN Daily ELSE daily[v]]

Ticks(w) ==
    /\ since[w] > 0
    /\ since' = [since EXCEPT ![w] = 0]
    /\ UNCHANGED flag

Lapsed(r) ==
    \/ row[r] = "held" /\ age[r] > HoldTtl
    \/ Open(r) /\ age[r] > PaymentFallback

(* The UPDATE; its INCRBYs may not come. *)
Sweep ==
    /\ Ticks("sweep")
    /\ Passes("sweep")
    /\ row' = [r \in Rows |-> IF Lapsed(r) THEN "done" ELSE row[r]]
    /\ age' = [r \in Rows |-> IF Lapsed(r) THEN 0 ELSE age[r]]
    /\ \/ UNCHANGED drift
       \/ (\E r \in Rows : Lapsed(r)) /\ drift' = TRUE
    /\ UNCHANGED <<marked, adrift, met, metFor, failVars>>

Reconcile ==
    /\ Ticks("reconcile")
    /\ Passes("reconcile")
    /\ drift' = FALSE /\ adrift' = 0
    /\ met' = FALSE /\ metFor' = 0
    /\ UNCHANGED <<rowVars, failVars>>

Skip(w) ==
    /\ Ticks(w)
    /\ ~Works(w)
    /\ UNCHANGED <<daily, rowVars, driftVars, failVars>>

(* A tick fails after it has taken the daily key: the next one does not    *)
(* try again. (With the flag it does, and a failure is part of Gap.)       *)
FailCheck(w) ==
    /\ since[w] > 0
    /\ flag = 0
    /\ Passes(w)
    /\ fails < MaxFails
    /\ fails' = fails + 1
    /\ grace' = [grace EXCEPT ![w] = @ + Daily + since[w]]
    /\ UNCHANGED <<flag, since, rowVars, driftVars>>

-----------------------------------------------------------------------------
(* A unit of time passes, unless a tick is due. *)

Less(left) == IF left = 0 THEN 0 ELSE left - 1

Time ==
    /\ \A w \in Workers : since[w] < Gap[w]
    /\ flag' = Less(flag)
    /\ daily' = [w \in Workers |-> Less(daily[w])]
    /\ since' = [w \in Workers |-> since[w] + 1]
    /\ age' = [r \in Rows |-> IF Open(r) THEN age[r] + 1 ELSE age[r]]
    /\ adrift' = IF drift THEN adrift + 1 ELSE adrift
    /\ metFor' = IF met THEN metFor + 1 ELSE metFor
    /\ UNCHANGED <<row, marked, drift, met, failVars>>

Next ==
    \/ \E r \in Rows : Book(r) \/ BookUnmarked(r) \/ PayFor(r) \/ Settle(r)
    \/ Watch \/ Diverge
    \/ Sweep \/ Reconcile
    \/ \E w \in Workers : Skip(w) \/ FailCheck(w)
    \/ Time

Spec == Init /\ [][Next]_vars

-----------------------------------------------------------------------------
(* What must hold *)

(* The worst a check can be late by. *)
Late(w) == Daily + Gap[w] + grace[w]

(* Types; the flag never lives longer than one activity gives it. *)
TypeOK ==
    /\ flag \in 0..FlagTtl
    /\ daily \in [Workers -> 0..Daily]
    /\ since \in [Workers -> Nat]
    /\ \A w \in Workers : since[w] <= Gap[w]
    /\ row \in [Rows -> {"none", "held", "paying", "done"}]
    /\ age \in [Rows -> Nat]
    /\ marked \subseteq Rows
    /\ drift \in BOOLEAN /\ met \in BOOLEAN
    /\ adrift \in Nat /\ metFor \in Nat
    /\ fails \in 0..MaxFails
    /\ grace \in [Workers -> Nat]

(* Nobody is forgotten, whatever fails and however idle the system is:     *)
(* every row is swept and every drift put right within a day of its time,  *)
(* and another one for each daily check that failed.                       *)
CheckedDaily ==
    /\ \A r \in Rows :
          /\ row[r] = "held" => age[r] <= HoldTtl + Late("sweep")
          /\ Open(r) => age[r] <= PaymentFallback + Late("sweep")
    /\ drift => adrift <= Late("reconcile")

(* A hold that nobody pays for is swept on time: the flag its booking has  *)
(* set outlives it, though nobody else comes. Only a call that died before *)
(* the flag leaves its hold to the daily check.                            *)
SweptInTime ==
    \A r \in marked : row[r] = "held" => age[r] <= HoldTtl + Gap["sweep"]

(* The very next reconcile after a booking, or after a look at the         *)
(* dashboard, finds the flag set, and puts right whatever was wrong then.  *)
DriftMet == met => metFor <= Gap["reconcile"]
=============================================================================
