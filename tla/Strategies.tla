----------------------------- MODULE Strategies -----------------------------
(***************************************************************************)
(* The five W2 booking strategies on the inventory of one event, each call *)
(* with its own: naive, pessimistic, optimistic and atomic change the      *)
(* inventory row in Postgres, redis changes the stock key. A step is one   *)
(* statement. Postgres runs READ COMMITTED: a plain read sees the last     *)
(* commit and never waits, a write waits for the lock of the row.          *)
(***************************************************************************)
EXTENDS SeatCounting

CONSTANTS
    TotalQty,    \* Inventory.totalQty
    MaxRetries,  \* attempts of the optimistic strategy
    NoRequest    \* not a request

StrategyNames == {"naive", "pessimistic", "optimistic", "atomic", "redis"}

ASSUME StrategyAssumption ==
    /\ TotalQty \in Nat
    /\ MaxRetries \in Nat \ {0}
    /\ NoRequest \notin Requests

VARIABLES
    remaining,    \* inventories."remainingQty"
    version,      \* inventories.version
    stock,        \* Redis stock:event:<id>
    lock,         \* the transaction that holds the inventory row
    strategy,     \* the strategy each call names, "none" before it is made
    pc,           \* where each call is
    readQty,      \* the remainingQty it has read
    readVersion,  \* the version it has read
    tries         \* failed attempts of an optimistic call

vars == <<remaining, version, stock, lock, strategy, pc, readQty, readVersion, tries>>

Uses(r, name) == strategy[r] = name

(* A write of the row need not wait. *)
Unlocked == lock = NoRequest

Init ==
    /\ remaining = TotalQty
    /\ version = 0
    /\ stock = TotalQty
    /\ lock = NoRequest
    /\ strategy = [r \in Requests |-> "none"]
    /\ pc = [r \in Requests |-> "idle"]
    /\ readQty = [r \in Requests |-> 0]
    /\ readVersion = [r \in Requests |-> 0]
    /\ tries = [r \in Requests |-> 0]

Goto(r, here, there) == pc[r] = here /\ pc' = [pc EXCEPT ![r] = there]

(* ReservationsService.create *)
Call(r) ==
    /\ Goto(r, "idle", "called")
    /\ \E name \in StrategyNames : strategy' = [strategy EXCEPT ![r] = name]
    /\ UNCHANGED <<remaining, version, stock, lock, readQty, readVersion, tries>>

(* naive and optimistic: findUnique and the check of what it returned. *)
Read(r) ==
    /\ Uses(r, "naive") \/ Uses(r, "optimistic")
    /\ Goto(r, "called", IF remaining < Qty[r] THEN "refused" ELSE "read")
    /\ readQty' = [readQty EXCEPT ![r] = remaining]
    /\ readVersion' = [readVersion EXCEPT ![r] = version]
    /\ UNCHANGED <<strategy, remaining, version, stock, lock, tries>>

NaiveWrite(r) ==
    /\ Uses(r, "naive")
    /\ Unlocked
    /\ Goto(r, "read", "charged")
    /\ remaining' = readQty[r] - Qty[r]
    /\ UNCHANGED <<strategy, version, stock, lock, readQty, readVersion, tries>>

(* The compare-and-swap. (Mistakes: with the next version; without         *)
(* counting it up.)                                                        *)
SwapsNext(r) == readVersion[r] + 1 = version
Swaps(r) == readVersion[r] = version
SameVersion == version
NextVersion == version + 1

OptimisticWrite(r) ==
    /\ Uses(r, "optimistic")
    /\ Unlocked
    /\ Swaps(r)
    /\ Goto(r, "read", "charged")
    /\ remaining' = readQty[r] - Qty[r]
    /\ version' = NextVersion
    /\ UNCHANGED <<strategy, stock, lock, readQty, readVersion, tries>>

(* It changed no row: the next attempt, or 409 after the last. (Mistake:   *)
(* one attempt more.)                                                      *)
OneAttemptMore(r) == tries[r] < MaxRetries
AttemptLeft(r) == tries[r] + 1 < MaxRetries
OptimisticRetry(r) ==
    /\ Uses(r, "optimistic")
    /\ Unlocked
    /\ ~Swaps(r)
    /\ tries' = [tries EXCEPT ![r] = @ + 1]
    /\ Goto(r, "read", IF AttemptLeft(r) THEN "called" ELSE "exhausted")
    /\ UNCHANGED <<strategy, remaining, version, stock, lock, readQty, readVersion>>

(* SELECT ... FOR UPDATE; a shortage throws and rolls back. (Mistakes: the *)
(* read does not lock; the shortage leaves the transaction open.)          *)
ReadOnly(r) == NoRequest
HeldOpen(r) == r
Holder(r) == IF remaining < Qty[r] THEN NoRequest ELSE r

PessimisticLock(r) ==
    /\ Uses(r, "pessimistic")
    /\ Unlocked
    /\ Goto(r, "called", IF remaining < Qty[r] THEN "refused" ELSE "locked")
    /\ lock' = Holder(r)
    /\ readQty' = [readQty EXCEPT ![r] = remaining]
    /\ UNCHANGED <<strategy, remaining, version, stock, readVersion, tries>>

(* Update and create become visible together when the transaction commits. *)
PessimisticCommit(r) ==
    /\ Goto(r, "locked", "booked")
    /\ remaining' = readQty[r] - Qty[r]
    /\ lock' = NoRequest
    /\ UNCHANGED <<strategy, version, stock, readQty, readVersion, tries>>

(* The transaction's timeout of 20 s, or its connection is lost. *)
PessimisticRollback(r) ==
    /\ Goto(r, "locked", "failed")
    /\ lock' = NoRequest
    /\ UNCHANGED <<strategy, remaining, version, stock, readQty, readVersion, tries>>

(* The condition of the single UPDATE. (Mistake: without it.) *)
EnoughOrNot(r) == TRUE
Enough(r) == remaining >= Qty[r]

AtomicWrite(r) ==
    /\ Uses(r, "atomic")
    /\ Unlocked
    /\ Goto(r, "called", IF Enough(r) THEN "charged" ELSE "refused")
    /\ remaining' = IF Enough(r) THEN remaining - Qty[r] ELSE remaining
    /\ UNCHANGED <<strategy, version, stock, lock, readQty, readVersion, tries>>

RedisTake(r) ==
    /\ Uses(r, "redis")
    /\ Goto(r, "called", IF stock - Qty[r] < 0 THEN "overdrawn" ELSE "charged")
    /\ stock' = stock - Qty[r]
    /\ UNCHANGED <<strategy, remaining, version, lock, readQty, readVersion, tries>>

RedisGiveBack(r) ==
    /\ Goto(r, "overdrawn", "refused")
    /\ stock' = stock + Qty[r]
    /\ UNCHANGED <<strategy, remaining, version, lock, readQty, readVersion, tries>>

(* reservation.create *)
Record(r) ==
    /\ Goto(r, "charged", "booked")
    /\ UNCHANGED <<strategy, remaining, version, stock, lock, readQty, readVersion, tries>>

(* A call ends between two statements, and what it took stays taken. *)
Dies(r) ==
    /\ \/ Goto(r, "called", "failed") \/ Goto(r, "read", "failed")
       \/ Goto(r, "charged", "lost") \/ Goto(r, "overdrawn", "lost")
    /\ UNCHANGED <<strategy, remaining, version, stock, lock, readQty, readVersion, tries>>

Step(r) ==
    \/ Read(r) \/ NaiveWrite(r)
    \/ OptimisticWrite(r) \/ OptimisticRetry(r)
    \/ PessimisticLock(r) \/ PessimisticCommit(r)
    \/ AtomicWrite(r)
    \/ RedisTake(r) \/ RedisGiveBack(r)
    \/ Record(r)

Next == \E r \in Requests : Call(r) \/ Step(r) \/ PessimisticRollback(r) \/ Dies(r)

Spec == Init /\ [][Next]_vars

-----------------------------------------------------------------------------
(* The mixes that lose no update: nobody is naive, and whoever compares    *)
(* versions shares the row only with others that count them up.            *)
SoundMix ==
    \A r, q \in Requests :
      /\ ~Uses(r, "naive")
      /\ Uses(r, "optimistic") => strategy[q] \in {"none", "optimistic", "redis"}

(* Type invariant. *)
TypeOK ==
    /\ remaining \in Int
    /\ version \in Nat
    /\ stock \in Int
    /\ lock \in Requests \cup {NoRequest}
    /\ strategy \in [Requests -> StrategyNames \cup {"none"}]
    /\ pc \in [Requests -> {"idle", "called", "read", "locked", "charged", "overdrawn", "booked",
                            "refused", "exhausted", "failed", "lost"}]
    /\ readQty \in [Requests -> Int]
    /\ readVersion \in [Requests -> Nat]
    /\ tries \in [Requests -> 0..MaxRetries]

(* What the calls have taken from the row and from the key. *)
FromRow == {r \in Requests : ~Uses(r, "redis") /\ pc[r] \in {"charged", "booked", "lost"}}
FromKey == {r \in Requests : Uses(r, "redis") /\ pc[r] \in {"charged", "overdrawn", "booked", "lost"}}

(* No update is lost, on the key in any mix and on the row in a sound one: *)
(* both have dropped by exactly what the calls took, however they          *)
(* interleave and wherever they die.                                       *)
Accounted ==
    /\ SoundMix => remaining + SeatCount(FromRow) = TotalQty
    /\ stock + SeatCount(FromKey) = TotalQty

(* Neither counter sells more seats than the event has: the key in any     *)
(* mix, the row in a sound one.                                            *)
NoOversell ==
    /\ SoundMix => SeatCount({r \in Requests : ~Uses(r, "redis") /\ pc[r] = "booked"}) <= TotalQty
    /\ SeatCount({r \in Requests : Uses(r, "redis") /\ pc[r] = "booked"}) <= TotalQty

(* The row never goes below zero, whatever strategies are mixed on it.     *)
NeverNegative == remaining >= 0

(* An optimistic attempt fails only because another one succeeded since it *)
(* read: a call that gives up has met as many successes as it had tries.   *)
RetriesPaidFor == \A r \in Requests : tries[r] <= version

(* The row lock belongs to a transaction that is still open: refused,      *)
(* failed or timed out, a call lets go, and nobody waits for ever.         *)
LockIsHeld == lock # NoRequest => pc[lock] = "locked"

-----------------------------------------------------------------------------
(* The inductive invariant of the proofs, in any mix unless it says so. *)

IdleUncalled == \A r \in Requests : pc[r] = "idle" <=> strategy[r] = "none"

(* A call that may try again has not used up its attempts. *)
TriesLeft == \A r \in Requests : pc[r] \in {"idle", "called", "read"} => tries[r] < MaxRetries

(* Whoever is about to write read enough. *)
ReadSuffices == \A r \in Requests : pc[r] \in {"read", "locked"} => readQty[r] >= Qty[r]

(* A locked row is as its holder read it. *)
LockedIsRead ==
    \A r \in Requests :
      pc[r] = "locked" => lock = r /\ Uses(r, "pessimistic") /\ readQty[r] = remaining

(* A version that was read is not of the future, and enough of them had    *)
(* passed for the attempts made so far.                                    *)
ReadBefore ==
    \A r \in Requests :
      pc[r] = "read" => /\ Uses(r, "naive") \/ Uses(r, "optimistic")
                        /\ tries[r] <= readVersion[r] /\ readVersion[r] <= version

(* In a sound mix the row is as it was read while its version is. *)
VersionedIsRead ==
    SoundMix => \A r \in Requests :
                  pc[r] = "read" /\ readVersion[r] = version => readQty[r] = remaining

OverdrawnOnKey == \A r \in Requests : pc[r] = "overdrawn" => Uses(r, "redis")

CallInv ==
    /\ TypeOK /\ IdleUncalled /\ TriesLeft /\ ReadSuffices /\ LockedIsRead /\ ReadBefore
    /\ NeverNegative /\ RetriesPaidFor /\ LockIsHeld /\ OverdrawnOnKey

OnKey == {r \in Requests : Uses(r, "redis") /\ pc[r] \in {"charged", "booked"}}

(* What a call went through to was never more than the key had; the key    *)
(* itself may be below zero, for calls that died before their give-back.   *)
KeySuffices == SeatCount(OnKey) <= TotalQty

StockInv == CallInv /\ VersionedIsRead /\ Accounted /\ KeySuffices
=============================================================================
