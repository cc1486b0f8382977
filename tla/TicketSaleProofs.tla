--------------------------- MODULE TicketSaleProofs ---------------------------
(***************************************************************************)
(* HeldPipeline implements TicketSale, for every set of requests and keys, *)
(* every quantity and every total: each step of the pipeline is a grant, a *)
(* settlement, an expiry or nothing at all in the sale of tickets.         *)
(***************************************************************************)
EXTENDS HeldPipelineProofs

-----------------------------------------------------------------------------
(* One row per key *)

(* The unique index on (userId, idempotencyKey). *)
OneRowPerKey ==
    \A q, r \in Requests :
        KeyOf[q] = KeyOf[r] /\ resv[q] # "none" /\ resv[r] # "none" => q = r

(* Whatever a step does to the rows. *)
Inserts(r) ==
    /\ pc[r] = "taken" /\ ~HasRow(r)
    /\ resv' = [resv EXCEPT ![r] = "HELD"]
Settles(r) ==
    /\ resv[r] = "HELD"
    /\ \E verdict \in {"CONFIRMED", "CANCELLED"} : resv' = [resv EXCEPT ![r] = verdict]
Expires(B) ==
    /\ B # {}
    /\ \A r \in B : resv[r] = "HELD"
    /\ resv' = [r \in Requests |-> IF r \in B THEN "EXPIRED" ELSE resv[r]]

(* Every step inserts one row, settles one, expires some, or leaves all    *)
(* rows as they are.                                                       *)
LEMMA RowSteps ==
    ASSUME TypeInv, [Next]_vars \/ QuietReconcile
    PROVE  \/ resv' = resv
           \/ \E r \in Requests : Inserts(r) \/ Settles(r)
           \/ \E B \in SUBSET Requests : Expires(B)
<1> USE DEF TypeInv, TypeOK
<1>1. CASE UNCHANGED vars \/ QuietReconcile \/ ReconcileStep 
           \/ SweepSnapshot \/ SweepReturn \/ SweepDies
  BY <1>1 DEF vars, holdVars, QuietReconcile, ReconcileStep, ReconcileRead, ReconcileSet,
              ReconcileDies, SweepSnapshot, SweepReturn, SweepDies
<1>2. CASE SweepExpire
  <2> DEFINE B == {r \in Requests : StillExpirable(r)}
  <2>1. CASE B = {}
    <3>1. resv' = [r \in Requests |-> resv[r]]
      BY <1>2, <2>1 DEF SweepExpire
    <3> QED
      BY <3>1
  <2>2. CASE B # {}
    <3>1. Expires(B)
      BY <1>2, <2>2 DEF SweepExpire, Expires, StillExpirable
    <3> QED
      BY <3>1
  <2> QED
    BY <2>1, <2>2
<1>3. ASSUME NEW r \in Requests, RequestStep(r)
      PROVE  resv' = resv \/ Inserts(r) \/ Settles(r)
  <2>1. CASE InsertHeld(r) \/ InsertAmbiguous(r)
    BY <2>1 DEF InsertHeld, InsertAmbiguous, Inserts
  <2>2. CASE ChargeFails(r)
    BY <2>2 DEF ChargeFails, Cancels, Settles
  <2>3. CASE Confirm(r)
    BY <2>3 DEF Confirm, Confirmed, Settles
  <2>4. \/ InsertHeld(r) \/ InsertAmbiguous(r) \/ ChargeFails(r) \/ Confirm(r)
        \/ resv' = resv
    BY <1>3 DEF RequestStep, CreateHeldStep, FaultStep, PayStep, PaymentStep, holdVars,
       Decrement, GiveBackOverdrawn, GiveBackDuplicate, GiveBackFailed, GiveBack,
       InsertDuplicate, MarkActivity, Move, InsertFails, FlagFails, RequestDies,
       HoldLapses, PaymentFallbackLapses, PayRead, PayInsert, PayEnqueue, PayDies,
       ChargeSucceeds, EnqueueConfirm, ReturnCancelled, PaymentJobCompletes, PaymentJobFails,
       ConfirmJobFails
  <2> QED
    BY <2>1, <2>2, <2>3, <2>4
<1> QED
  BY <1>1, <1>2, <1>3 DEF Next, SweepStep

(* No key ever gets a second row. *)
LEMMA OneRowNext ==
    ASSUME TypeInv, OneRowPerKey, [QuietNext]_vars
    PROVE  OneRowPerKey'
<1> USE DEF OneRowPerKey, TypeInv, TypeOK
<1>1. ASSUME NEW r \in Requests, Inserts(r) PROVE OneRowPerKey'
  BY <1>1 DEF Inserts, HasRow
<1>2. ASSUME NEW r \in Requests, Settles(r) PROVE OneRowPerKey'
  BY <1>2 DEF Settles
<1>3. ASSUME NEW B \in SUBSET Requests, Expires(B) PROVE OneRowPerKey'
  BY <1>3 DEF Expires
<1>4. [Next]_vars \/ QuietReconcile
  BY DEF QuietNext, Next
<1> QED
  BY <1>1, <1>2, <1>3, <1>4, RowSteps

-----------------------------------------------------------------------------
(* The refinement mapping, for any statuses s of the rows *)

RowsIn(s, k) == {r \in Requests : KeyOf[r] = k /\ s[r] # "none"}
TicketIn(s) ==
    [k \in Keys |-> IF RowsIn(s, k) = {} THEN "none" ELSE s[CHOOSE r \in RowsIn(s, k) : TRUE]]
SeatsIn(s) ==
    [k \in Keys |-> IF RowsIn(s, k) = {} THEN 0 ELSE Qty[CHOOSE r \in RowsIn(s, k) : TRUE]]

LEMMA Mapping ==
    /\ ticketOfKey = TicketIn(resv) /\ ticketOfKey' = TicketIn(resv')
    /\ seatsOfKey = SeatsIn(resv) /\ seatsOfKey' = SeatsIn(resv')
BY DEF ticketOfKey, seatsOfKey, RowsOf, TicketIn, SeatsIn, RowsIn

LEMMA PerKey ==
    /\ ticketOfKey = [k \in Keys |-> ticketOfKey[k]]
    /\ ticketOfKey' = [k \in Keys |-> ticketOfKey'[k]]
    /\ seatsOfKey = [k \in Keys |-> seatsOfKey[k]]
    /\ seatsOfKey' = [k \in Keys |-> seatsOfKey'[k]]
<1>1. \A s : /\ TicketIn(s) = [k \in Keys |-> TicketIn(s)[k]]
             /\ SeatsIn(s) = [k \in Keys |-> SeatsIn(s)[k]]
  BY DEF TicketIn, SeatsIn
<1> QED
  BY <1>1, Mapping

(* The ticket of a key is its row, if it has one. *)
LEMMA TicketOfRow ==
    ASSUME NEW s, NEW r \in Requests, s[r] # "none",
           \A q \in Requests : KeyOf[q] = KeyOf[r] /\ s[q] # "none" => q = r
    PROVE  KeyOf[r] \in Keys /\ TicketIn(s)[KeyOf[r]] = s[r] /\ SeatsIn(s)[KeyOf[r]] = Qty[r]
<1>1. RowsIn(s, KeyOf[r]) = {r}
  BY DEF RowsIn
<1>2. (CHOOSE q \in RowsIn(s, KeyOf[r]) : TRUE) = r
  BY <1>1
<1>3. KeyOf[r] \in Keys
  BY PipelineAssumption
<1> QED
  BY <1>1, <1>2, <1>3 DEF TicketIn, SeatsIn

LEMMA NoTicketOfKey ==
    ASSUME NEW s, NEW k \in Keys, \A q \in Requests : KeyOf[q] = k => s[q] = "none"
    PROVE  TicketIn(s)[k] = "none" /\ SeatsIn(s)[k] = 0
<1>1. RowsIn(s, k) = {}
  BY DEF RowsIn
<1> QED
  BY <1>1 DEF TicketIn, SeatsIn

(* A key sees no change of another key's row. *)
LEMMA SameRowsSameTicket ==
    ASSUME NEW s, NEW t, NEW k \in Keys, \A q \in Requests : KeyOf[q] = k => s[q] = t[q]
    PROVE  TicketIn(s)[k] = TicketIn(t)[k] /\ SeatsIn(s)[k] = SeatsIn(t)[k]
<1>1. RowsIn(s, k) = RowsIn(t, k)
  BY DEF RowsIn
<1>2. CASE RowsIn(s, k) = {}
  BY <1>1, <1>2 DEF TicketIn, SeatsIn
<1>3. CASE RowsIn(s, k) # {}
  <2>1. (CHOOSE q \in RowsIn(s, k) : TRUE) \in RowsIn(s, k)
    BY <1>3
  <2>2. s[CHOOSE q \in RowsIn(s, k) : TRUE] = t[CHOOSE q \in RowsIn(s, k) : TRUE]
    BY <2>1 DEF RowsIn
  <2> QED
    BY <1>1, <1>3, <2>2 DEF TicketIn, SeatsIn
<1> QED
  BY <1>2, <1>3

(* The sale counts as the pipeline does. *)
LEMMA SaleCounts == \A S : Sale!Cardinality(S) = Cardinality(S)
BY DEF Sale!Cardinality, Cardinality

(* Both sales count the same seats. *)
LEMMA SameSeats ==
    ASSUME TypeOK, OneRowPerKey
    PROVE  Cardinality(Sale!Occupied) = SeatCount(Live)
<1> DEFINE f == [s \in Seats(Live) |-> <<KeyOf[s[1]], s[2]>>]
<1>1. \A r \in Live : /\ r \in Requests /\ KeyOf[r] \in Keys
                      /\ ticketOfKey[KeyOf[r]] = resv[r] /\ seatsOfKey[KeyOf[r]] = Qty[r]
  BY Mapping, TicketOfRow DEF Live, OneRowPerKey
<1>2. \A k \in Keys : ticketOfKey[k] \in {"HELD", "CONFIRMED"} =>
                        \E r \in Live : KeyOf[r] = k
  <2> SUFFICES ASSUME NEW k \in Keys, ticketOfKey[k] \in {"HELD", "CONFIRMED"}
               PROVE  \E r \in Live : KeyOf[r] = k
    OBVIOUS
  <2>1. PICK r \in Requests : KeyOf[r] = k /\ resv[r] # "none"
    BY Mapping, NoTicketOfKey
  <2>2. ticketOfKey[k] = resv[r]
    BY <2>1, Mapping, TicketOfRow DEF OneRowPerKey
  <2> QED
    BY <2>1, <2>2 DEF Live
<1>3. f \in [Seats(Live) -> Sale!Occupied]
  <2>1. ASSUME NEW s \in Seats(Live) PROVE f[s] \in Sale!Occupied
    BY <1>1, <2>1 DEF Seats, Sale!Occupied, Live
  <2> QED
    BY <2>1
<1>4. ASSUME NEW s \in Seats(Live), NEW t \in Seats(Live), f[s] = f[t] PROVE s = t
  <2>1. KeyOf[s[1]] = KeyOf[t[1]] /\ s[2] = t[2] /\ s[1] \in Live /\ t[1] \in Live
    BY <1>4 DEF Seats
  <2>2. s[1] = t[1]
    BY <2>1 DEF OneRowPerKey, Live
  <2> QED
    BY <2>1, <2>2 DEF Seats
<1>5. ASSUME NEW t \in Sale!Occupied PROVE \E s \in Seats(Live) : f[s] = t
  <2>1. PICK r \in Live : KeyOf[r] = t[1]
    BY <1>2 DEF Sale!Occupied
  <2>2. <<r, t[2]>> \in Seats(Live)
    BY <1>1, <2>1 DEF Seats, Sale!Occupied
  <2>3. f[<<r, t[2]>>] = t
    BY <2>1, <2>2 DEF Sale!Occupied
  <2> QED
    BY <2>2, <2>3
<1>6. f \in Bijection(Seats(Live), Sale!Occupied)
  BY <1>3, <1>4, <1>5 DEF Bijection, Injection, Surjection, IsInjective
<1>7. ExistsBijection(Seats(Live), Sale!Occupied)
  BY <1>6 DEF ExistsBijection
<1>8. IsFiniteSet(Seats(Live))
  BY SeatsFinite DEF Live
<1> QED
  BY <1>7, <1>8, FS_Bijection DEF SeatCount

-----------------------------------------------------------------------------
(* Step by step *)

(* Nobody has a ticket before the first request. *)
LEMMA SaleInit == Init => Sale!Init
<1> SUFFICES ASSUME Init PROVE Sale!Init
  OBVIOUS
<1>1. \A k \in Keys : TicketIn(resv)[k] = "none" /\ SeatsIn(resv)[k] = 0
  BY NoTicketOfKey DEF Init
<1> QED
  BY <1>1, Mapping DEF Sale!Init, TicketIn, SeatsIn

(* An INSERT that the gate has let pass is a grant. *)
LEMMA InsertGrants ==
    ASSUME TypeInv, SeatInv, OneRowPerKey, NEW r \in Requests, Inserts(r)
    PROVE  Sale!Grant(KeyOf[r], Qty[r]) /\ KeyOf[r] \in Keys /\ Qty[r] \in 1..MaxQty
<1> DEFINE k == KeyOf[r]
<1>1. k \in Keys /\ Qty[r] \in 1..MaxQty
  BY PipelineAssumption, SeatAssumption
<1>2. \A q \in Requests : KeyOf[q] = k => resv[q] = "none"
  BY DEF Inserts, HasRow
<1>3. ticketOfKey[k] = "none"
  BY <1>1, <1>2, Mapping, NoTicketOfKey
<1>4. Cardinality(Sale!Occupied) + Qty[r] <= TotalQty
  <2>1. r \in Passed
    BY DEF Inserts, Passed, TypeInv, TypeOK
  <2>2. SeatCount(Passed \ {r}) = SeatCount(Passed) - Qty[r] /\ SeatCount(Passed \ {r}) \in Nat
    BY <2>1, GroupTypes, SeatCountRemove, SeatsFinite DEF TypeInv
  <2> QED
    BY <1>1, <2>2, GroupTypes, SameSeats DEF SeatInv, PassedFit, TypeInv, TypeOK
<1>5. resv' = [resv EXCEPT ![r] = "HELD"] /\ \A q \in Requests \ {r} : resv'[q] = resv[q]
  BY DEF Inserts, TypeInv, TypeOK
<1>6. ticketOfKey'[k] = "HELD" /\ seatsOfKey'[k] = Qty[r]
  <2>1. resv'[r] = "HELD" /\ \A q \in Requests : KeyOf[q] = k /\ resv'[q] # "none" => q = r
    BY <1>2, <1>5 DEF TypeInv, TypeOK
  <2> QED
    BY <2>1, Mapping, TicketOfRow
<1>7. \A j \in Keys \ {k} : ticketOfKey'[j] = ticketOfKey[j] /\ seatsOfKey'[j] = seatsOfKey[j]
  <2> SUFFICES ASSUME NEW j \in Keys \ {k}
               PROVE  ticketOfKey'[j] = ticketOfKey[j] /\ seatsOfKey'[j] = seatsOfKey[j]
    OBVIOUS
  <2>1. \A q \in Requests : KeyOf[q] = j => resv'[q] = resv[q]
    BY <1>5
  <2>2. TicketIn(resv')[j] = TicketIn(resv)[j] /\ SeatsIn(resv')[j] = SeatsIn(resv)[j]
    BY <2>1, SameRowsSameTicket
  <2> QED
    BY <2>2, Mapping
<1>8. ticketOfKey' = [ticketOfKey EXCEPT ![k] = "HELD"] /\ seatsOfKey' = [seatsOfKey EXCEPT ![k] = Qty[r]]
  BY <1>1, <1>6, <1>7, PerKey
<1> QED
  BY <1>1, <1>3, <1>4, <1>8, SaleCounts DEF Sale!Grant

(* A confirmation or a cancellation settles one ticket. *)
LEMMA SettleSettles ==
    ASSUME TypeInv, OneRowPerKey, NEW r \in Requests, Settles(r)
    PROVE  /\ KeyOf[r] \in Keys
           /\ Sale!Settle(KeyOf[r], "CONFIRMED") \/ Sale!Settle(KeyOf[r], "CANCELLED")
<1> DEFINE k == KeyOf[r]
<1>1. PICK verdict \in {"CONFIRMED", "CANCELLED"} : resv' = [resv EXCEPT ![r] = verdict]
  BY DEF Settles
<1>2. k \in Keys /\ ticketOfKey[k] = "HELD" /\ seatsOfKey[k] = Qty[r]
  BY Mapping, TicketOfRow DEF Settles, OneRowPerKey
<1>3. ticketOfKey'[k] = verdict /\ seatsOfKey'[k] = Qty[r]
  <2>1. resv'[r] = verdict /\ \A q \in Requests : KeyOf[q] = k /\ resv'[q] # "none" => q = r
    BY <1>1 DEF Settles, OneRowPerKey, TypeInv, TypeOK
  <2> QED
    BY <2>1, Mapping, TicketOfRow
<1>4. \A j \in Keys \ {k} : ticketOfKey'[j] = ticketOfKey[j] /\ seatsOfKey'[j] = seatsOfKey[j]
  <2> SUFFICES ASSUME NEW j \in Keys \ {k}
               PROVE  ticketOfKey'[j] = ticketOfKey[j] /\ seatsOfKey'[j] = seatsOfKey[j]
    OBVIOUS
  <2>1. \A q \in Requests : KeyOf[q] = j => resv'[q] = resv[q]
    BY <1>1 DEF TypeInv, TypeOK
  <2>2. TicketIn(resv')[j] = TicketIn(resv)[j] /\ SeatsIn(resv')[j] = SeatsIn(resv)[j]
    BY <2>1, SameRowsSameTicket
  <2> QED
    BY <2>2, Mapping
<1>5. ticketOfKey' = [ticketOfKey EXCEPT ![k] = verdict] /\ seatsOfKey' = seatsOfKey
  BY <1>2, <1>3, <1>4, PerKey
<1> QED
  BY <1>2, <1>5 DEF Sale!Settle

(* A sweep expires the tickets of its rows. *)
LEMMA SweepExpires ==
    ASSUME TypeInv, OneRowPerKey, NEW B \in SUBSET Requests, Expires(B)
    PROVE  \E K \in SUBSET Keys : Sale!Expire(K)
<1> DEFINE K == {KeyOf[r] : r \in B}
<1>1. K \in SUBSET Keys /\ K # {}
  BY PipelineAssumption DEF Expires
<1>2. \A r \in B : resv[r] = "HELD" /\ resv'[r] = "EXPIRED"
  BY DEF Expires
<1>3. \A r \in Requests \ B : resv'[r] = resv[r]
  BY DEF Expires
<1>4. \A r \in B : /\ ticketOfKey[KeyOf[r]] = "HELD" /\ ticketOfKey'[KeyOf[r]] = "EXPIRED"
                   /\ seatsOfKey[KeyOf[r]] = Qty[r] /\ seatsOfKey'[KeyOf[r]] = Qty[r]
  <2> SUFFICES ASSUME NEW r \in B
               PROVE  /\ ticketOfKey[KeyOf[r]] = "HELD" /\ ticketOfKey'[KeyOf[r]] = "EXPIRED"
                      /\ seatsOfKey[KeyOf[r]] = Qty[r] /\ seatsOfKey'[KeyOf[r]] = Qty[r]
    OBVIOUS
  <2>1. \A q \in Requests : KeyOf[q] = KeyOf[r] /\ resv[q] # "none" => q = r
    BY <1>2 DEF OneRowPerKey
  <2>2. \A q \in Requests : KeyOf[q] = KeyOf[r] /\ resv'[q] # "none" => q = r
    BY <1>2, <1>3, <2>1
  <2> QED
    BY <1>2, <2>1, <2>2, Mapping, TicketOfRow
<1>5. \A j \in Keys \ K : ticketOfKey'[j] = ticketOfKey[j] /\ seatsOfKey'[j] = seatsOfKey[j]
  <2> SUFFICES ASSUME NEW j \in Keys \ K
               PROVE  ticketOfKey'[j] = ticketOfKey[j] /\ seatsOfKey'[j] = seatsOfKey[j]
    OBVIOUS
  <2>1. \A q \in Requests : KeyOf[q] = j => resv'[q] = resv[q]
    BY <1>3
  <2>2. TicketIn(resv')[j] = TicketIn(resv)[j] /\ SeatsIn(resv')[j] = SeatsIn(resv)[j]
    BY <2>1, SameRowsSameTicket
  <2> QED
    BY <2>2, Mapping
<1>6. /\ ticketOfKey' = [k \in Keys |-> IF k \in K THEN "EXPIRED" ELSE ticketOfKey[k]]
      /\ seatsOfKey' = seatsOfKey
  <2>1. \A k \in K : ticketOfKey'[k] = "EXPIRED" /\ seatsOfKey'[k] = seatsOfKey[k]
    BY <1>4
  <2> HIDE DEF K
  <2>2. \A k \in Keys : /\ ticketOfKey'[k] = IF k \in K THEN "EXPIRED" ELSE ticketOfKey[k]
                        /\ seatsOfKey'[k] = seatsOfKey[k]
    BY <1>5, <2>1
  <2> QED
    BY <2>2, PerKey
<1>7. \A k \in K : ticketOfKey[k] = "HELD"
  BY <1>4
<1> HIDE DEF K
<1>8. Sale!Expire(K)
  BY <1>1, <1>6, <1>7 DEF Sale!Expire
<1> QED
  BY <1>1, <1>8

(* A quiet step of the pipeline is a step of the sale, or none. *)
LEMMA SaleNext ==
    ASSUME TypeInv, SeatInv, OneRowPerKey, [QuietNext]_vars
    PROVE  [Sale!Next]_(Sale!saleVars)
<1>1. [Next]_vars \/ QuietReconcile
  BY DEF QuietNext, Next
<1>2. CASE resv' = resv
  <2>1. ticketOfKey' = ticketOfKey /\ seatsOfKey' = seatsOfKey
    BY <1>2, Mapping
  <2> QED
    BY <2>1 DEF Sale!saleVars
<1>3. ASSUME NEW r \in Requests, Inserts(r) PROVE Sale!Next
  BY <1>3, InsertGrants DEF Sale!Next
<1>4. ASSUME NEW r \in Requests, Settles(r) PROVE Sale!Next
  BY <1>4, SettleSettles DEF Sale!Next
<1>5. ASSUME NEW B \in SUBSET Requests, Expires(B) PROVE Sale!Next
  BY <1>5, SweepExpires DEF Sale!Next
<1> QED
  BY <1>1, <1>2, <1>3, <1>4, <1>5, RowSteps

(* The pipeline sells tickets and nothing else happens to them: one ticket *)
(* per key, granted only while its seats fit into the total, settled once. *)
(* Crashes, failed INSERTs, redeliveries, retransmissions and sweeps are   *)
(* allowed; as for NeverOversold, the reconcile meets quiet moments and no *)
(* error after a committed INSERT sends createHeld into its compensation.  *)
THEOREM PipelineSellsTickets ==
    ASSUME "insertAmbiguous" \notin Faults, "flagFails" \notin Faults
    PROVE  QuietSpec => SaleSpec
<1>1. Init => OneRowPerKey
  BY DEF Init, OneRowPerKey
<1>2. TypeInv /\ OneRowPerKey /\ [QuietNext]_vars => OneRowPerKey'
  BY OneRowNext
<1>3. TypeInv /\ SeatInv /\ OneRowPerKey /\ [QuietNext]_vars => [Sale!Next]_(Sale!saleVars)
  BY SaleNext
<1> QED
  BY <1>1, <1>2, <1>3, SaleInit, TypeInit, TypeQuiet, SeatInit, SeatNext, PTL
  DEF QuietSpec, SaleSpec, Sale!Spec
=============================================================================
