------------------------- MODULE HeldPipelineProofs -------------------------
(***************************************************************************)
(* Proofs about HeldPipeline for every set of requests, every quantity and *)
(* every total.                                                            *)
(***************************************************************************)
EXTENDS HeldPipeline, SeatCountingProofs

-----------------------------------------------------------------------------
(* Types and phases *)

(* The pipeline starts in the invariant. *)
LEMMA TypeInit == Init => TypeInv
BY PipelineAssumption, SeatAssumption DEF Init, TypeInv, TypeOK, JobPhases, OneSweep, Status

(* A step of createHeld, of the clock or of pay keeps types and phases. *)
LEMMA TypeRequest ==
    ASSUME TypeInv, NEW r \in Requests,
           \/ CreateHeldStep(r) \/ InsertAmbiguous(r) \/ InsertFails(r) \/ FlagFails(r)
           \/ RequestDies(r) \/ HoldLapses(r) \/ PaymentFallbackLapses(r)
           \/ PayRead(r) \/ PayStep(r) \/ PayDies(r)
    PROVE  TypeInv'
<1> USE PipelineAssumption, SeatAssumption DEF TypeInv, TypeOK, JobPhases, OneSweep, Status,
        requestVars, holdVars, payVars, jobVars, sweepVars, reconVars
<1>1. CASE Decrement(r)
  BY <1>1 DEF Decrement
<1>2. CASE GiveBackOverdrawn(r)
  BY <1>2 DEF GiveBackOverdrawn, GiveBack
<1>3. CASE InsertHeld(r)
  BY <1>3 DEF InsertHeld
<1>4. CASE InsertDuplicate(r)
  BY <1>4 DEF InsertDuplicate, Move
<1>5. CASE GiveBackDuplicate(r)
  BY <1>5 DEF GiveBackDuplicate, GiveBack
<1>6. CASE GiveBackFailed(r)
  BY <1>6 DEF GiveBackFailed, GiveBack
<1>7. CASE MarkActivity(r)
  BY <1>7 DEF MarkActivity, Move
<1>8. CASE InsertAmbiguous(r)
  BY <1>8 DEF InsertAmbiguous
<1>9. CASE InsertFails(r)
  BY <1>9 DEF InsertFails, Move
<1>10. CASE FlagFails(r)
  BY <1>10 DEF FlagFails, Move
<1>11. CASE RequestDies(r)
  BY <1>11 DEF RequestDies
<1>12. CASE HoldLapses(r)
  BY <1>12 DEF HoldLapses
<1>13. CASE PaymentFallbackLapses(r)
  BY <1>13 DEF PaymentFallbackLapses
<1>14. CASE PayRead(r)
  BY <1>14 DEF PayRead
<1>15. CASE PayInsert(r)
  BY <1>15 DEF PayInsert
<1>16. CASE PayEnqueue(r)
  BY <1>16 DEF PayEnqueue
<1>17. CASE PayDies(r)
  BY <1>17 DEF PayDies
<1> QED
  BY <1>1, <1>2, <1>3, <1>4, <1>5, <1>6, <1>7, <1>8, <1>9, <1>10, <1>11, <1>12, <1>13,
     <1>14, <1>15, <1>16, <1>17 DEF CreateHeldStep, PayStep

(* A step of the payment worker or the confirm worker keeps them. *)
LEMMA TypeJob ==
    ASSUME TypeInv, NEW r \in Requests,
           PaymentStep(r) \/ Confirm(r) \/ PaymentJobFails(r) \/ ConfirmJobFails(r)
    PROVE  TypeInv'
<1> USE PipelineAssumption, SeatAssumption DEF TypeInv, TypeOK, JobPhases, OneSweep, Status,
        requestVars, holdVars, payVars, jobVars, sweepVars, reconVars
<1>1. CASE ChargeSucceeds(r)
  BY <1>1 DEF ChargeSucceeds, Verdict
<1>2. CASE ChargeFails(r)
  BY <1>2 DEF ChargeFails, Cancels
<1>3. CASE EnqueueConfirm(r)
  BY <1>3 DEF EnqueueConfirm
<1>4. CASE ReturnCancelled(r)
  BY <1>4 DEF ReturnCancelled
<1>5. CASE PaymentJobCompletes(r)
  BY <1>5 DEF PaymentJobCompletes
<1>6. CASE Confirm(r)
  BY <1>6 DEF Confirm, Confirmed
<1>7. CASE PaymentJobFails(r)
  BY <1>7 DEF PaymentJobFails, Redelivery
<1>8. CASE ConfirmJobFails(r)
  BY <1>8 DEF ConfirmJobFails, Redelivery
<1> QED
  BY <1>1, <1>2, <1>3, <1>4, <1>5, <1>6, <1>7, <1>8 DEF PaymentStep

(* A step of the sweep or the reconcile keeps them. *)
LEMMA TypeRepeating ==
    ASSUME TypeInv, SweepStep \/ ReconcileStep
    PROVE  TypeInv'
<1> USE PipelineAssumption, SeatAssumption DEF TypeInv, TypeOK, JobPhases, OneSweep, Status,
        requestVars, holdVars, payVars, jobVars, sweepVars, reconVars
<1>0. CASE SweepSnapshot
  BY <1>0 DEF SweepSnapshot
<1>1. CASE SweepExpire
  BY <1>1 DEF SweepExpire
<1>2. CASE SweepReturn
  BY <1>2, SeatsFinite DEF SweepReturn
<1>3. CASE SweepDies
  BY <1>3 DEF SweepDies
<1>4. CASE ReconcileRead
  <2>1. Counted \in SUBSET Requests
    BY DEF Counted, Live
  <2>2. reconValue' \in Int
    BY <1>4, <2>1, SeatsFinite DEF ReconcileRead
  <2> QED
    BY <1>4, <2>2 DEF ReconcileRead
<1>5. CASE ReconcileSet
  BY <1>5 DEF ReconcileSet
<1>6. CASE ReconcileDies
  BY <1>6 DEF ReconcileDies
<1> QED
  BY <1>0, <1>1, <1>2, <1>3, <1>4, <1>5, <1>6 DEF SweepStep, ReconcileStep

(* Every step keeps them. *)
LEMMA TypeNext == TypeInv /\ [Next]_vars => TypeInv'
<1> SUFFICES ASSUME TypeInv, [Next]_vars PROVE TypeInv'
  OBVIOUS
<1>1. CASE UNCHANGED vars
  BY <1>1 DEF vars, TypeInv, TypeOK, JobPhases, OneSweep
<1>2. ASSUME NEW r \in Requests, RequestStep(r) PROVE TypeInv'
  BY <1>2, TypeRequest, TypeJob DEF RequestStep, FaultStep
<1>3. CASE SweepStep \/ ReconcileStep
  BY <1>3, TypeRepeating
<1> QED
  BY <1>1, <1>2, <1>3 DEF Next

(* Type correctness of the pipeline, with every fault allowed. *)
THEOREM TypeCorrect == Spec => []TypeOK
<1>1. TypeInv => TypeOK
  BY DEF TypeInv
<1> QED
  BY <1>1, TypeInit, TypeNext, PTL DEF Spec

-----------------------------------------------------------------------------
(* Seats *)

(* The four groups of requests whose seats are counted. *)
LEMMA GroupTypes ==
    ASSUME TypeOK
    PROVE  /\ Live \in SUBSET Requests /\ SeatCount(Live) \in Nat
           /\ InFlight \in SUBSET Requests /\ SeatCount(InFlight) \in Nat
           /\ Owed \in SUBSET Requests /\ SeatCount(Owed) \in Nat
           /\ Passed \in SUBSET Requests /\ SeatCount(Passed) \in Nat
           /\ stock \in Int /\ TotalQty \in Nat
           /\ \A r \in Requests : Qty[r] \in Nat
<1>1. Live \in SUBSET Requests /\ InFlight \in SUBSET Requests /\ Passed \in SUBSET Requests
  BY DEF Live, InFlight, Passed
<1>2. Owed \in SUBSET Requests
  BY DEF TypeOK, Owed
<1> QED
  BY <1>1, <1>2, SeatsFinite, PipelineAssumption, SeatAssumption DEF TypeOK

(* The pipeline starts with the whole total in Redis. *)
LEMMA SeatInit == Init => SeatInv /\ Exact
<1> SUFFICES ASSUME Init PROVE SeatInv /\ Exact
  OBVIOUS
<1>1. Live = {} /\ InFlight = {} /\ Owed = {} /\ Passed = {}
  BY DEF Init, Live, InFlight, Owed, Passed
<1> QED
  BY <1>1, SeatCountEmpty, PipelineAssumption, SeatAssumption
  DEF Init, SeatInv, SweptExpired, ReturningCancelled, PassedFit, Backed, Exact

(* A step that moves no request from group to group. *)
LEMMA SeatSame ==
    ASSUME SeatInv, SweptExpired', ReturningCancelled', stock' = stock,
           Live' = Live, InFlight' = InFlight, Owed' = Owed, Passed' = Passed
    PROVE  SeatInv' /\ (Exact => Exact')
BY DEF SeatInv, PassedFit, Backed, Exact

(* The steps of createHeld keep the seats backed. *)
LEMMA SeatCreateHeld ==
    ASSUME TypeInv, TypeInv', SeatInv, NEW r \in Requests,
           CreateHeldStep(r) \/ InsertFails(r) \/ RequestDies(r)
    PROVE  SeatInv' /\ (RequestDies(r) \/ (Exact => Exact'))
<1> USE DEF TypeInv
<1>0. /\ UNCHANGED <<payVars, jobVars, sweepBatch>>
      /\ resv' = resv \/ InsertHeld(r)
  BY DEF CreateHeldStep, InsertFails, RequestDies, Decrement, GiveBackOverdrawn, GiveBack,
         InsertHeld, InsertDuplicate, Move, GiveBackDuplicate, GiveBackFailed, MarkActivity,
         holdVars, sweepVars
<1>1. Owed' = Owed
  BY <1>0 DEF Owed, jobVars
<1>2. resv[r] = "none" \/ ~InsertHeld(r)
  BY DEF InsertHeld, HasRow
<1>3. SweptExpired' /\ ReturningCancelled'
  BY <1>0, <1>1, <1>2 DEF SeatInv, SweptExpired, ReturningCancelled, jobVars,
     InsertHeld, TypeOK
<1>4. CASE Decrement(r)
  <2>1. Live' = Live /\ r \notin InFlight /\ r \notin Passed
    BY <1>4 DEF Decrement, Live, InFlight, Passed, holdVars
  <2>2. InFlight' = InFlight \cup {r}
    BY <1>4 DEF Decrement, InFlight, TypeOK
  <2>3. SeatCount(InFlight') = SeatCount(InFlight) + Qty[r]
    BY <2>1, <2>2, GroupTypes, SeatCountAdd
  <2>4. stock' = stock - Qty[r]
    BY <1>4 DEF Decrement
  <2>5. Backed' /\ (Exact => Exact')
    BY <1>1, <2>1, <2>3, <2>4, GroupTypes DEF SeatInv, Backed, Exact
  <2>6. CASE stock - Qty[r] < 0
    <3>1. Passed' = Passed
      BY <1>4, <2>6 DEF Decrement, Refused, Passed, TypeOK
    <3> QED
      BY <1>3, <2>1, <2>5, <3>1 DEF SeatInv, PassedFit
  <2>7. CASE ~(stock - Qty[r] < 0)
    <3>1. Passed' \in SUBSET InFlight' /\ InFlight' \in SUBSET Requests
      BY DEF Passed, InFlight
    <3>2. SeatCount(Passed') <= SeatCount(InFlight')
      BY <3>1, SeatCountMonotone
    <3>3. SeatCount(Owed') \in Nat /\ SeatCount(Passed') \in Nat
      BY <1>1, <3>1, GroupTypes, SeatsFinite DEF InFlight
    <3>4. PassedFit'
      BY <1>1, <2>1, <2>3, <2>4, <2>5, <2>7, <3>2, <3>3, GroupTypes DEF PassedFit, Backed
    <3> QED
      BY <1>3, <2>5, <3>4 DEF SeatInv
  <2> QED
    BY <2>6, <2>7
<1>5. CASE GiveBackOverdrawn(r) \/ GiveBackDuplicate(r) \/ GiveBackFailed(r)
  <2>1. Live' = Live /\ Passed' = Passed /\ r \in InFlight /\ InFlight' = InFlight \ {r}
    BY <1>5 DEF GiveBackOverdrawn, GiveBackDuplicate, GiveBackFailed, GiveBack, Live, Passed,
       InFlight, holdVars, TypeOK
  <2>2. SeatCount(InFlight') = SeatCount(InFlight) - Qty[r]
    BY <2>1, GroupTypes, SeatCountRemove
  <2>3. stock' = stock + Qty[r]
    BY <1>5 DEF GiveBackOverdrawn, GiveBackDuplicate, GiveBackFailed, GiveBack
  <2> QED
    BY <1>1, <1>3, <2>1, <2>2, <2>3, GroupTypes DEF SeatInv, Backed, PassedFit, Exact
<1>6. CASE InsertHeld(r)
  <2>1. /\ r \notin Live /\ Live' = Live \cup {r}
        /\ r \in InFlight /\ InFlight' = InFlight \ {r}
        /\ r \in Passed /\ Passed' = Passed \ {r}
        /\ stock' = stock
    BY <1>2, <1>6 DEF InsertHeld, Live, InFlight, Passed, TypeOK
  <2>2. SeatCount(Live') = SeatCount(Live) + Qty[r]
    BY <2>1, GroupTypes, SeatCountAdd
  <2>3. /\ SeatCount(InFlight') = SeatCount(InFlight) - Qty[r]
        /\ SeatCount(Passed') = SeatCount(Passed) - Qty[r]
    BY <2>1, GroupTypes, SeatCountRemove
  <2> QED
    BY <1>1, <1>3, <2>1, <2>2, <2>3, GroupTypes DEF SeatInv, Backed, PassedFit, Exact
<1>7. CASE InsertDuplicate(r) \/ InsertFails(r) \/ RequestDies(r) \/ MarkActivity(r)
  <2>1. /\ Live' = Live /\ stock' = stock
        /\ InFlight' \in SUBSET InFlight /\ Passed' \in SUBSET Passed
    BY <1>7 DEF InsertDuplicate, InsertFails, RequestDies, MarkActivity, Move, Live, InFlight,
       Passed, holdVars, TypeOK
  <2>4. RequestDies(r) \/ InFlight' = InFlight
    BY <1>7 DEF InsertDuplicate, InsertFails, MarkActivity, Move, InFlight, TypeOK
  <2>2. SeatCount(InFlight') <= SeatCount(InFlight) /\ SeatCount(Passed') <= SeatCount(Passed)
    BY <2>1, GroupTypes, SeatCountMonotone
  <2>3. SeatCount(InFlight') \in Nat /\ SeatCount(Passed') \in Nat
    BY <2>1, GroupTypes, SeatsFinite
  <2> QED
    BY <1>1, <1>3, <2>1, <2>2, <2>3, <2>4, GroupTypes DEF SeatInv, Backed, PassedFit, Exact
<1> QED
  BY <1>4, <1>5, <1>6, <1>7 DEF CreateHeldStep

(* The clock, pay and the two workers keep the seats backed: a row leaves  *)
(* the live set only for the owed set, and leaves that only with an INCRBY *)
(* or a loss.                                                              *)
LEMMA SeatSettle ==
    ASSUME TypeInv, TypeInv', SeatInv, NEW r \in Requests,
           \/ HoldLapses(r) \/ PaymentFallbackLapses(r)
           \/ PayRead(r) \/ PayStep(r) \/ PayDies(r)
           \/ PaymentStep(r) \/ PaymentJobFails(r)
           \/ Confirm(r) \/ ConfirmJobFails(r)
    PROVE  SeatInv' /\ (PaymentJobFails(r) \/ (Exact => Exact'))
<1> USE DEF TypeInv
<1>0. /\ UNCHANGED <<pc, sweepBatch>>
      /\ InFlight' = InFlight /\ Passed' = Passed
      /\ stock' = stock \/ ReturnCancelled(r)
  BY DEF HoldLapses, PaymentFallbackLapses, PayRead, PayStep, PayInsert, PayEnqueue, PayDies,
         PaymentStep, ChargeSucceeds, ChargeFails, EnqueueConfirm, ReturnCancelled,
         PaymentJobCompletes, PaymentJobFails, Confirm, ConfirmJobFails,
         requestVars, holdVars, payVars, jobVars, sweepVars, reconVars, InFlight, Passed
<1>1. SweptExpired /\ ReturningCancelled /\ PassedFit /\ Backed
  BY DEF SeatInv
<1>2. CASE HoldLapses(r) \/ PaymentFallbackLapses(r) \/ PayRead(r) \/ PayInsert(r) \/ PayDies(r)
           \/ ConfirmJobFails(r)
  <2>1. UNCHANGED <<stock, resv, payJob>>
    BY <1>2 DEF HoldLapses, PaymentFallbackLapses, PayRead, PayInsert, PayDies, ConfirmJobFails,
                requestVars, holdVars, payVars, jobVars
  <2>2. Live' = Live /\ Owed' = Owed /\ SweptExpired' /\ ReturningCancelled'
    BY <1>0, <1>1, <2>1 DEF Live, Owed, SweptExpired, ReturningCancelled
  <2> QED
    BY <1>0, <2>1, <2>2, SeatSame
<1>3. CASE PayEnqueue(r) \/ ChargeSucceeds(r) \/ EnqueueConfirm(r) \/ PaymentJobCompletes(r)
  <2>1. /\ UNCHANGED <<stock, resv>>
        /\ payJob[r] # "cancelled" /\ payJob'[r] # "cancelled"
        /\ \A q \in Requests \ {r} : payJob'[q] = payJob[q]
    BY <1>3 DEF PayEnqueue, ChargeSucceeds, EnqueueConfirm, PaymentJobCompletes, TypeOK, JobPhases,
                requestVars, holdVars
  <2>2. Live' = Live /\ Owed' = Owed /\ SweptExpired' /\ ReturningCancelled'
    BY <1>0, <1>1, <2>1 DEF Live, Owed, SweptExpired, ReturningCancelled
  <2> QED
    BY <1>0, <2>1, <2>2, SeatSame
<1>4. CASE Confirm(r)
  <2>1. UNCHANGED <<stock, payJob>>
    BY <1>4 DEF Confirm, requestVars, jobVars
  <2>2. \A q \in Requests : /\ resv'[q] \in {"HELD", "CONFIRMED"} <=> resv[q] \in {"HELD", "CONFIRMED"}
                            /\ resv[q] \notin {"HELD", "CONFIRMED"} => resv'[q] = resv[q]
    BY <1>4 DEF Confirm, Confirmed, TypeOK
  <2>3. sweepBatch \in SUBSET Requests
    BY DEF TypeOK
  <2>4. Live' = Live /\ Owed' = Owed
    BY <1>0, <2>1, <2>2 DEF Live, Owed
  <2>5. SweptExpired' /\ ReturningCancelled'
    BY <1>0, <1>1, <2>1, <2>2, <2>3 DEF SweptExpired, ReturningCancelled
  <2> QED
    BY <1>0, <2>1, <2>4, <2>5, SeatSame
<1>5. CASE ChargeFails(r) /\ resv[r] = "HELD"
  <2>1. /\ stock' = stock
        /\ r \in Live /\ Live' = Live \ {r}
        /\ r \notin Owed /\ Owed' = Owed \cup {r}
    BY <1>0, <1>1, <1>5 DEF ChargeFails, Cancels, Live, Owed, SweptExpired, TypeOK, requestVars
  <2>2. SeatCount(Live') = SeatCount(Live) - Qty[r] /\ SeatCount(Owed') = SeatCount(Owed) + Qty[r]
    BY <2>1, GroupTypes, SeatCountRemove, SeatCountAdd
  <2>3. r \notin sweepBatch
    BY <1>1, <1>5 DEF SweptExpired
  <2>4. SweptExpired' /\ ReturningCancelled'
    BY <1>0, <1>1, <1>5, <2>3 DEF ChargeFails, Cancels, SweptExpired, ReturningCancelled, TypeOK
  <2> QED
    BY <1>0, <1>1, <2>1, <2>2, <2>4, GroupTypes DEF SeatInv, Backed, PassedFit, Exact
<1>6. CASE ChargeFails(r) /\ resv[r] # "HELD"
  <2>1. /\ UNCHANGED <<stock, resv>>
        /\ payJob[r] # "cancelled" /\ payJob'[r] # "cancelled"
        /\ \A q \in Requests \ {r} : payJob'[q] = payJob[q]
    BY <1>6 DEF ChargeFails, Cancels, TypeOK, requestVars
  <2>2. Live' = Live /\ Owed' = Owed /\ SweptExpired' /\ ReturningCancelled'
    BY <1>0, <1>1, <2>1 DEF Live, Owed, SweptExpired, ReturningCancelled
  <2> QED
    BY <1>0, <2>1, <2>2, SeatSame
<1>7. CASE ReturnCancelled(r)
  <2>1. resv' = resv /\ stock' = stock + Qty[r] /\ Live' = Live
    BY <1>7 DEF ReturnCancelled, holdVars, Live
  <2>2. r \notin sweepBatch
    BY <1>1, <1>7 DEF ReturnCancelled, SweptExpired, ReturningCancelled
  <2>3. r \in Owed /\ Owed' = Owed \ {r}
    BY <1>0, <1>7, <2>2 DEF ReturnCancelled, Owed, TypeOK
  <2>4. SeatCount(Owed') = SeatCount(Owed) - Qty[r]
    BY <2>3, GroupTypes, SeatCountRemove
  <2>5. SweptExpired' /\ ReturningCancelled'
    BY <1>0, <1>1, <1>7, <2>1 DEF ReturnCancelled, SweptExpired, ReturningCancelled, TypeOK
  <2> QED
    BY <1>0, <1>1, <2>1, <2>4, <2>5, GroupTypes DEF SeatInv, Backed, PassedFit, Exact
<1>8. CASE PaymentJobFails(r)
  <2>1. UNCHANGED <<stock, resv>> /\ payJob'[r] # "cancelled"
        /\ \A q \in Requests \ {r} : payJob'[q] = payJob[q]
    BY <1>8 DEF PaymentJobFails, Redelivery, TypeOK, requestVars, holdVars
  <2>2. Live' = Live /\ Owed' \in SUBSET Owed /\ SweptExpired' /\ ReturningCancelled'
    BY <1>0, <1>1, <2>1 DEF Live, Owed, SweptExpired, ReturningCancelled
  <2>3. SeatCount(Owed') <= SeatCount(Owed) /\ SeatCount(Owed') \in Nat
    BY <2>2, GroupTypes, SeatCountMonotone, SeatsFinite
  <2> QED
    BY <1>0, <1>1, <1>8, <2>1, <2>2, <2>3, GroupTypes DEF SeatInv, Backed, PassedFit, Exact
<1> QED
  BY <1>2, <1>3, <1>4, <1>5, <1>6, <1>7, <1>8 DEF PayStep, PaymentStep

(* The sweep keeps the seats backed. *)
LEMMA SeatSweep ==
    ASSUME TypeInv, TypeInv', SeatInv, SweepStep
    PROVE  SeatInv' /\ (SweepDies \/ (Exact => Exact'))
<1> USE DEF TypeInv
<1> DEFINE Cancelled == {r \in Requests : payJob[r] = "cancelled"}
<1>0. /\ UNCHANGED <<pc, payJob>>
      /\ InFlight' = InFlight /\ Passed' = Passed
      /\ SweptExpired /\ ReturningCancelled /\ PassedFit /\ Backed
  BY DEF SweepStep, SweepSnapshot, SweepExpire, SweepReturn, SweepDies, requestVars, jobVars,
         InFlight, Passed, SeatInv
<1>1. CASE SweepSnapshot
  <2>1. UNCHANGED <<stock, resv, sweepBatch>>
    BY <1>1 DEF SweepSnapshot, requestVars, holdVars
  <2>2. Live' = Live /\ Owed' = Owed /\ SweptExpired' /\ ReturningCancelled'
    BY <1>0, <2>1 DEF Live, Owed, SweptExpired, ReturningCancelled
  <2> QED
    BY <1>0, <2>1, <2>2, SeatSame
<1>2. CASE SweepExpire
  <2> DEFINE B == {r \in Requests : StillExpirable(r)}
  <2>1. /\ stock' = stock /\ sweepBatch = {} /\ sweepBatch' = B
        /\ resv' = [r \in Requests |-> IF r \in B THEN "EXPIRED" ELSE resv[r]]
    BY <1>2 DEF SweepExpire, OneSweep, requestVars
  <2>2. \A r \in B : resv[r] = "HELD"
    BY DEF StillExpirable
  <2>3. B \in SUBSET Requests
    OBVIOUS
  <2> HIDE DEF B
  <2>4. Live = Live' \cup B /\ Live' \cap B = {}
    BY <2>1, <2>2, <2>3 DEF Live
  <2>5. Owed' = Owed \cup B /\ Owed \cap B = {}
    BY <1>0, <2>1, <2>2, <2>3 DEF Owed, ReturningCancelled
  <2>6. Live' \in SUBSET Requests
    BY DEF Live
  <2>7. SeatCount(Live) = SeatCount(Live') + SeatCount(B)
    BY <2>3, <2>4, <2>6, SeatCountUnion
  <2>8. SeatCount(Owed') = SeatCount(Owed) + SeatCount(B)
    BY <2>3, <2>5, GroupTypes, SeatCountUnion
  <2>9. SeatCount(Live') \in Nat /\ SeatCount(B) \in Nat
    BY <2>3, <2>6, SeatsFinite
  <2>10. SweptExpired' /\ ReturningCancelled'
    BY <1>0, <2>1, <2>2, <2>3 DEF SweptExpired, ReturningCancelled
  <2> QED
    BY <1>0, <2>1, <2>7, <2>8, <2>9, <2>10, GroupTypes DEF SeatInv, Backed, PassedFit, Exact
<1>3. CASE SweepReturn \/ SweepDies
  <2>1. resv' = resv /\ sweepBatch' = {} /\ Live' = Live
    BY <1>3 DEF SweepReturn, SweepDies, holdVars, Live
  <2>2. /\ Owed = Cancelled \cup sweepBatch /\ Owed' = Cancelled
        /\ Cancelled \cap sweepBatch = {}
    BY <1>0, <2>1 DEF Owed, SweptExpired, ReturningCancelled
  <2>3. sweepBatch \in SUBSET Requests /\ Cancelled \in SUBSET Requests
    BY DEF TypeOK
  <2> HIDE DEF Cancelled
  <2>4. SeatCount(Owed) = SeatCount(Owed') + SeatCount(sweepBatch)
    BY <2>2, <2>3, SeatCountUnion
  <2>5. SeatCount(Owed') \in Nat /\ SeatCount(sweepBatch) \in Nat
    BY <2>2, <2>3, SeatsFinite
  <2>6. stock' = stock + SeatCount(sweepBatch) \/ (SweepDies /\ stock' = stock)
    BY <1>3 DEF SweepReturn, SweepDies, requestVars
  <2>7. SweptExpired' /\ ReturningCancelled'
    BY <1>0, <2>1 DEF SweptExpired, ReturningCancelled
  <2> QED
    BY <1>0, <2>1, <2>4, <2>5, <2>6, <2>7, GroupTypes DEF SeatInv, Backed, PassedFit, Exact
<1> QED
  BY <1>1, <1>2, <1>3 DEF SweepStep

(* A reconcile in a quiet moment writes the truth. *)
LEMMA SeatReconcile ==
    ASSUME TypeInv, SeatInv, QuietReconcile
    PROVE  SeatInv' /\ Exact'
<1> USE DEF TypeInv
<1>1. UNCHANGED <<pc, resv, payJob, sweepBatch>>
  BY DEF QuietReconcile, holdVars, jobVars, sweepVars
<1>2. /\ Live' = Live /\ InFlight' = InFlight /\ Owed' = Owed /\ Passed' = Passed
      /\ SweptExpired' /\ ReturningCancelled'
  BY <1>1 DEF Live, InFlight, Owed, Passed, SeatInv, SweptExpired, ReturningCancelled
<1>3. InFlight = {} /\ Owed = {} /\ stock' = TotalQty - SeatCount(Live)
  BY DEF QuietReconcile, Quiescent, Counted
<1>4. Backed' /\ Exact'
  BY <1>2, <1>3, SeatCountEmpty, GroupTypes DEF Backed, Exact
<1> QED
  BY <1>2, <1>4 DEF SeatInv, PassedFit

(* A quiet step keeps types and phases. *)
LEMMA TypeQuiet == TypeInv /\ [QuietNext]_vars => TypeInv'
<1> SUFFICES ASSUME TypeInv, [QuietNext]_vars PROVE TypeInv'
  OBVIOUS
<1>1. CASE QuietReconcile
  <2>1. stock' \in Int
    BY <1>1, GroupTypes DEF QuietReconcile, Counted, TypeInv
  <2> QED
    BY <1>1, <2>1 DEF QuietReconcile, holdVars, payVars, jobVars, sweepVars, reconVars, TypeInv, TypeOK,
                      JobPhases, OneSweep
<1>2. CASE [Next]_vars
  BY <1>2, TypeNext
<1> QED
  BY <1>1, <1>2 DEF QuietNext, Next

(* Without the two faults that createHeld mistakes for a failed INSERT,    *)
(* every quiet step keeps the seats backed; without the three that lose a  *)
(* compensation or a return, it keeps them exact.                          *)
Lossless == {"requestDies", "jobFails", "sweepDies"} \cap Faults = {}

LEMMA SeatNext ==
    ASSUME "insertAmbiguous" \notin Faults, "flagFails" \notin Faults
    PROVE  TypeInv /\ TypeInv' /\ SeatInv /\ [QuietNext]_vars
               => SeatInv' /\ (Lossless /\ Exact => Exact')
<1> DEFINE Goal == SeatInv' /\ (Lossless /\ Exact => Exact')
<1> SUFFICES ASSUME TypeInv, TypeInv', SeatInv, [QuietNext]_vars PROVE Goal
  OBVIOUS
<1>1. CASE UNCHANGED vars
  <2>1. /\ UNCHANGED <<stock, pc, resv, payJob, sweepBatch>>
    BY <1>1 DEF vars
  <2>2. /\ Live' = Live /\ InFlight' = InFlight /\ Owed' = Owed /\ Passed' = Passed
        /\ SweptExpired' /\ ReturningCancelled'
    BY <2>1 DEF Live, InFlight, Owed, Passed, SeatInv, SweptExpired, ReturningCancelled
  <2> QED
    BY <2>1, <2>2, SeatSame
<1>2. ASSUME NEW r \in Requests, RequestStep(r) PROVE Goal
  <2>1. ~InsertAmbiguous(r) /\ ~FlagFails(r)
    BY DEF InsertAmbiguous, FlagFails
  <2>2. CASE CreateHeldStep(r) \/ InsertFails(r) \/ RequestDies(r)
    BY <1>2, <2>2, SeatCreateHeld DEF RequestDies, Lossless
  <2>3. CASE \/ HoldLapses(r) \/ PaymentFallbackLapses(r)
             \/ PayRead(r) \/ PayStep(r) \/ PayDies(r)
             \/ PaymentStep(r) \/ PaymentJobFails(r)
             \/ Confirm(r) \/ ConfirmJobFails(r)
    BY <1>2, <2>3, SeatSettle DEF PaymentJobFails, Lossless
  <2> QED
    BY <1>2, <2>1, <2>2, <2>3 DEF RequestStep, FaultStep
<1>3. CASE SweepStep
  BY <1>3, SeatSweep DEF SweepDies, Lossless
<1>4. CASE QuietReconcile
  BY <1>4, SeatReconcile
<1> QED
  BY <1>1, <1>2, <1>3, <1>4 DEF QuietNext

(* No oversell. Whatever else crashes, stalls or is retried, the event     *)
(* never has more HELD and CONFIRMED seats than its total, as long as a    *)
(* reconcile meets a quiet moment and no error after a committed INSERT    *)
(* sends createHeld into its compensation.                                 *)
THEOREM NeverOversold ==
    ASSUME "insertAmbiguous" \notin Faults, "flagFails" \notin Faults
    PROVE  QuietSpec => []NoOversell
<1>1. TypeInv /\ SeatInv => NoOversell
  BY GroupTypes DEF TypeInv, SeatInv, PassedFit, NoOversell
<1> QED
  BY <1>1, TypeInit, TypeQuiet, SeatInit, SeatNext, PTL DEF QuietSpec

(* Under the same assumptions no seat is ever offered twice by Redis.      *)
THEOREM StockBacked ==
    ASSUME "insertAmbiguous" \notin Faults, "flagFails" \notin Faults
    PROVE  QuietSpec => []Backed
<1>1. SeatInv => Backed
  BY DEF SeatInv
<1> QED
  BY <1>1, TypeInit, TypeQuiet, SeatInit, SeatNext, PTL DEF QuietSpec

(* Whenever nothing is half done, Redis equals total minus (HELD +         *)
(* CONFIRMED) to the seat, before any reconcile: every path of createHeld, *)
(* of the payment worker and of the sweep gives back exactly what it took, *)
(* failed INSERTs, retransmissions, dead pay calls and holds older than    *)
(* the fallback included. Only a fault between a change of the database    *)
(* and the matching change of Redis can make a difference.                 *)
THEOREM ExactWhenQuiescent ==
    ASSUME "insertAmbiguous" \notin Faults, "flagFails" \notin Faults, Lossless
    PROVE  QuietSpec => []QuiescentExact
<1>1. ASSUME TypeInv, Exact PROVE QuiescentExact
  <2> SUFFICES ASSUME Quiescent PROVE stock = TotalQty - SeatCount(Live)
    BY DEF QuiescentExact
  <2>1. SeatCount(InFlight) = 0 /\ SeatCount(Owed) = 0
    BY SeatCountEmpty DEF Quiescent
  <2> QED
    BY <1>1, <2>1, GroupTypes DEF TypeInv, Exact
<1> QED
  BY <1>1, TypeInit, TypeQuiet, SeatInit, SeatNext, PTL DEF QuietSpec

-----------------------------------------------------------------------------
(* Payments *)

(* The three statements that write a payment. *)
Charging(r) == PayInsert(r) \/ ChargeSucceeds(r) \/ ChargeFails(r)

(* Any other step leaves the payments alone, cancels nothing, confirms     *)
(* only through a confirm job and expires only what the sweep has seen.    *)
LEMMA PaymentFrame ==
    ASSUME TypeInv, [Next]_vars, \A r \in Requests : ~Charging(r)
    PROVE  /\ payment' = payment
           /\ \A r \in Requests :
                /\ resv'[r] = "CANCELLED" => resv[r] = "CANCELLED"
                /\ resv'[r] = "CONFIRMED" => resv[r] = "CONFIRMED" \/ confirmJob[r] = "waiting"
                /\ resv[r] \in {"HELD", "CONFIRMED"} =>
                     \/ resv'[r] \in {"HELD", "CONFIRMED"}
                     \/ resv[r] = "HELD" /\ r \in sweepSeen
<1> USE DEF TypeInv, TypeOK, requestVars, holdVars, payVars, jobVars, sweepVars, reconVars
<1>1. CASE UNCHANGED vars
  BY <1>1 DEF vars
<1>2. CASE SweepExpire
  BY <1>2 DEF SweepExpire, StillExpirable
<1>3. CASE SweepSnapshot \/ SweepReturn \/ SweepDies \/ ReconcileStep
  BY <1>3 DEF SweepSnapshot, SweepReturn, SweepDies, ReconcileStep, ReconcileRead, ReconcileSet, ReconcileDies
<1>4. ASSUME NEW r \in Requests, RequestStep(r), resv' # resv, ~Charging(r)
      PROVE  \/ /\ resv[r] = "none" /\ resv' = [resv EXCEPT ![r] = "HELD"]
                /\ payment' = payment
             \/ Confirm(r)
  BY <1>4 DEF RequestStep, CreateHeldStep, FaultStep, PayStep, PaymentStep, Charging,
     Decrement, GiveBackOverdrawn, GiveBackDuplicate, GiveBackFailed, GiveBack, InsertHeld,
     InsertDuplicate, MarkActivity, Move, InsertAmbiguous, InsertFails, FlagFails, RequestDies,
     HoldLapses, PaymentFallbackLapses, PayRead, PayEnqueue, PayDies, EnqueueConfirm,
     ReturnCancelled, PaymentJobCompletes, PaymentJobFails, ConfirmJobFails, HasRow
<1>5. ASSUME NEW r \in Requests, RequestStep(r), resv' = resv, ~Charging(r)
      PROVE  payment' = payment
  BY <1>5 DEF RequestStep, CreateHeldStep, FaultStep, PayStep, PaymentStep, Charging,
     Decrement, GiveBackOverdrawn, GiveBackDuplicate, GiveBackFailed, GiveBack, InsertHeld,
     InsertDuplicate, MarkActivity, Move, InsertAmbiguous, InsertFails, FlagFails, RequestDies,
     HoldLapses, PaymentFallbackLapses, PayRead, PayEnqueue, PayDies, EnqueueConfirm,
     ReturnCancelled, PaymentJobCompletes, PaymentJobFails, Confirm, ConfirmJobFails
<1>6. ASSUME NEW r \in Requests, RequestStep(r), resv' = resv
      PROVE  payment' = payment
  BY <1>5, <1>6
<1>7. ASSUME NEW r \in Requests, RequestStep(r), resv' # resv
      PROVE  /\ payment' = payment
             /\ \A q \in Requests :
                  \/ resv'[q] = resv[q]
                  \/ resv[q] = "none" /\ resv'[q] = "HELD"
                  \/ resv[q] = "HELD" /\ resv'[q] = "CONFIRMED" /\ confirmJob[q] = "waiting"
  <2>1. CASE Confirm(r)
    BY <2>1 DEF Confirm, Confirmed
  <2> QED
    BY <1>4, <1>7, <2>1
<1>8. CASE \E r \in Requests : RequestStep(r)
  <2>1. PICK r \in Requests : RequestStep(r)
    BY <1>8
  <2>2. CASE resv' = resv
    BY <1>6, <2>1, <2>2
  <2>3. CASE resv' # resv
    BY <1>7, <2>1, <2>3
  <2> QED
    BY <2>2, <2>3
<1> QED
  BY <1>1, <1>2, <1>3, <1>8 DEF Next, SweepStep

(* A charge or a cancellation keeps a cancelled row's payment FAILED.      *)
LEMMA CancelledNext == TypeInv /\ CancelledIsFailed /\ [Next]_vars => CancelledIsFailed'
<1> SUFFICES ASSUME TypeInv, CancelledIsFailed, [Next]_vars PROVE CancelledIsFailed'
  OBVIOUS
<1> USE DEF TypeInv, TypeOK, JobPhases, CancelledIsFailed
<1>1. CASE \A r \in Requests : ~Charging(r)
  BY <1>1, PaymentFrame
<1>2. ASSUME NEW r \in Requests, PayInsert(r) PROVE CancelledIsFailed'
  BY <1>2 DEF PayInsert, holdVars
<1>3. ASSUME NEW r \in Requests, ChargeSucceeds(r) PROVE CancelledIsFailed'
  BY <1>3 DEF ChargeSucceeds, Verdict, holdVars
<1>4. ASSUME NEW r \in Requests, ChargeFails(r) PROVE CancelledIsFailed'
  BY <1>4 DEF ChargeFails, Cancels
<1> QED
  BY <1>1, <1>2, <1>3, <1>4 DEF Charging

(* A cancelled reservation's payment stays FAILED, under every fault: a    *)
(* redelivered payment job that rolls success cannot make it PAID.         *)
THEOREM CancelledStaysFailed == Spec => []CancelledIsFailed
<1>1. Init => CancelledIsFailed
  BY DEF Init, CancelledIsFailed
<1> QED
  BY <1>1, TypeInit, TypeNext, CancelledNext, PTL DEF Spec

(* Without a backlog no hold with a payment grows stale. *)
LEMMA NoneStaleNext ==
    ASSUME "backlog" \notin Faults
    PROVE  TypeInv /\ NoneStale /\ [Next]_vars => NoneStale'
<1> SUFFICES ASSUME TypeInv, NoneStale, [Next]_vars PROVE NoneStale'
  OBVIOUS
<1> USE DEF TypeInv, TypeOK, NoneStale, requestVars, holdVars, payVars, jobVars, sweepVars, reconVars
<1>1. CASE UNCHANGED vars
  BY <1>1 DEF vars
<1>2. CASE SweepStep \/ ReconcileStep
  BY <1>2 DEF SweepStep, SweepSnapshot, SweepExpire, SweepReturn, SweepDies, ReconcileStep, ReconcileRead,
              ReconcileSet, ReconcileDies
<1>3. ASSUME NEW r \in Requests, RequestStep(r), ~HoldLapses(r) PROVE age' = age
  BY <1>3 DEF RequestStep, CreateHeldStep, FaultStep, PayStep, PaymentStep,
     Decrement, GiveBackOverdrawn, GiveBackDuplicate, GiveBackFailed, GiveBack, InsertHeld,
     InsertDuplicate, MarkActivity, Move, InsertAmbiguous, InsertFails, FlagFails, RequestDies,
     PaymentFallbackLapses, PayRead, PayInsert, PayEnqueue, PayDies, ChargeSucceeds,
     ChargeFails, EnqueueConfirm, ReturnCancelled, PaymentJobCompletes, PaymentJobFails,
     Confirm, ConfirmJobFails
<1>4. ASSUME NEW r \in Requests, HoldLapses(r) PROVE NoneStale'
  BY <1>4 DEF HoldLapses
<1> QED
  BY <1>1, <1>2, <1>3, <1>4 DEF Next

(* What a step may do to the rows a running sweep has in view. *)
LEMMA SweepFrame ==
    ASSUME TypeInv, [Next]_vars, ~SweepSnapshot
    PROVE  /\ sweepSeen' \in SUBSET sweepSeen
           /\ overlooked \in SUBSET overlooked'
           /\ \A r \in sweepSeen : payment[r] = "none" =>
                payment'[r] = "none" \/ r \in overlooked'
           /\ \A r \in Requests : resv[r] # "none" =>
                resv'[r] # "none" /\ (resv'[r] = "HELD" => resv[r] = "HELD")
<1> USE DEF TypeInv, TypeOK, requestVars, holdVars, payVars, jobVars, sweepVars, reconVars
<1>1. CASE UNCHANGED vars
  BY <1>1 DEF vars
<1>2. CASE SweepExpire \/ SweepReturn \/ SweepDies \/ ReconcileStep
  BY <1>2 DEF SweepExpire, SweepReturn, SweepDies, ReconcileStep, ReconcileRead, ReconcileSet,
              ReconcileDies
<1>3. ASSUME NEW r \in Requests, RequestStep(r)
      PROVE  /\ UNCHANGED sweepSeen
             /\ UNCHANGED overlooked \/ PayInsert(r)
             /\ UNCHANGED payment \/ Charging(r)
             /\ UNCHANGED resv \/ InsertHeld(r) \/ InsertAmbiguous(r) \/ ChargeFails(r) \/ Confirm(r)
  BY <1>3 DEF RequestStep, CreateHeldStep, FaultStep, PayStep, PaymentStep, Charging,
     Decrement, GiveBackOverdrawn, GiveBackDuplicate, GiveBackFailed, GiveBack, InsertHeld,
     InsertDuplicate, MarkActivity, Move, InsertAmbiguous, InsertFails, FlagFails, RequestDies,
     HoldLapses, PaymentFallbackLapses, PayRead, PayInsert, PayEnqueue, PayDies, ChargeSucceeds,
     ChargeFails, EnqueueConfirm, ReturnCancelled, PaymentJobCompletes, PaymentJobFails,
     Confirm, ConfirmJobFails
<1>4. ASSUME NEW r \in Requests, RequestStep(r)
      PROVE  /\ overlooked \in SUBSET overlooked'
             /\ \A q \in sweepSeen : payment[q] = "none" =>
                  payment'[q] = "none" \/ q \in overlooked'
  <2>1. CASE PayInsert(r)
    BY <2>1 DEF PayInsert
  <2>2. CASE ChargeSucceeds(r) \/ ChargeFails(r)
    <3>1. payJob[r] = "waiting" /\ \A q \in Requests \ {r} : payment'[q] = payment[q]
      BY <2>2 DEF ChargeSucceeds, ChargeFails
    <3>2. payment[r] # "none"
      BY <3>1 DEF JobPhases
    <3> QED
      BY <1>3, <1>4, <2>2, <3>1, <3>2 DEF ChargeSucceeds, ChargeFails
  <2>3. CASE ~Charging(r)
    BY <1>3, <1>4, <2>3 DEF Charging
  <2> QED
    BY <2>1, <2>2, <2>3 DEF Charging
<1>5. ASSUME NEW r \in Requests, RequestStep(r)
      PROVE  \A q \in Requests : resv[q] # "none" =>
                resv'[q] # "none" /\ (resv'[q] = "HELD" => resv[q] = "HELD")
  <2>1. CASE InsertHeld(r) \/ InsertAmbiguous(r)
    BY <2>1 DEF InsertHeld, InsertAmbiguous, HasRow
  <2>2. CASE ChargeFails(r)
    BY <2>2 DEF ChargeFails
  <2>3. CASE Confirm(r)
    BY <2>3 DEF Confirm, Confirmed
  <2> QED
    BY <1>3, <1>5, <2>1, <2>2, <2>3
<1> QED
  BY <1>1, <1>2, <1>3, <1>4, <1>5 DEF Next, SweepStep

(* A running sweep has in view no paid row but those it overlooks.         *)
LEMMA SweepSeesNext == TypeInv /\ NoneStale /\ SweepSees /\ [Next]_vars => SweepSees'
<1> SUFFICES ASSUME TypeInv, NoneStale, SweepSees, [Next]_vars PROVE SweepSees'
  OBVIOUS
<1> USE DEF TypeInv, TypeOK, SweepSees
<1>1. CASE SweepSnapshot
  BY <1>1 DEF SweepSnapshot, Expirable, NoneStale, holdVars, payVars
<1>2. CASE ~SweepSnapshot
  BY <1>2, SweepFrame
<1> QED
  BY <1>1, <1>2

(* Every step keeps a paid row's ticket while no hold is stale.            *)
LEMMA PaidNext == TypeInv /\ SweepSees /\ PaidKept /\ [Next]_vars => PaidKept'
<1> SUFFICES ASSUME TypeInv, SweepSees, PaidKept, [Next]_vars PROVE PaidKept'
  OBVIOUS
<1> USE DEF TypeInv, TypeOK, PaidKept
<1>1. CASE \A r \in Requests : ~Charging(r)
  <2>1. overlooked \in SUBSET overlooked'
    BY SweepFrame DEF SweepSnapshot
  <2> QED
    BY <1>1, <2>1, PaymentFrame DEF SweepSees
<1>2. ASSUME NEW r \in Requests, PayInsert(r) PROVE PaidKept'
  BY <1>2 DEF PayInsert, holdVars
<1>3. ASSUME NEW r \in Requests, ChargeSucceeds(r) PROVE PaidKept'
  BY <1>3 DEF ChargeSucceeds, Verdict, holdVars, sweepVars
<1>4. ASSUME NEW r \in Requests, ChargeFails(r) PROVE PaidKept'
  BY <1>4 DEF ChargeFails, Cancels, sweepVars
<1> QED
  BY <1>1, <1>2, <1>3, <1>4 DEF Charging

(* As long as the payment worker keeps up with the 5 min fallback, the     *)
(* sweep takes a paid ticket only from somebody whose payment was inserted *)
(* while its UPDATE was running, having seen the row without one; nothing  *)
(* else ever takes it, neither a later sweep nor a redelivered job.        *)
THEOREM PaidKeepsTicket ==
    ASSUME "backlog" \notin Faults
    PROVE  Spec => []PaidKept
<1>1. Init => NoneStale /\ SweepSees /\ PaidKept
  BY DEF Init, NoneStale, SweepSees, PaidKept
<1> QED
  BY <1>1, TypeInit, TypeNext, NoneStaleNext, SweepSeesNext, PaidNext, PTL DEF Spec

(* Without redelivery, charges and confirmations keep their order.         *)
LEMMA ChargedNext ==
    ASSUME "jobFails" \notin Faults
    PROVE  TypeInv /\ ChargedOnce /\ [Next]_vars => ChargedOnce'
<1> SUFFICES ASSUME TypeInv, ChargedOnce, [Next]_vars PROVE ChargedOnce'
  OBVIOUS
<1> USE DEF TypeInv, TypeOK, JobPhases, ChargedOnce, requestVars, holdVars, payVars, jobVars,
            reconVars
<1>1. CASE UNCHANGED vars
  BY <1>1 DEF vars
<1>2. CASE SweepStep \/ ReconcileStep
  BY <1>2 DEF SweepStep, SweepSnapshot, SweepExpire, SweepReturn, SweepDies, ReconcileStep, ReconcileRead,
              ReconcileSet, ReconcileDies
<1>3. ASSUME NEW r \in Requests, RequestStep(r) PROVE ChargedOnce'
  <2>1. CASE UNCHANGED <<payVars, payJob, confirmJob>>
    BY <2>1
  <2>2. CASE PayRead(r) \/ PayInsert(r) \/ PayEnqueue(r) \/ PayDies(r)
    BY <2>2 DEF PayRead, PayInsert, PayEnqueue, PayDies
  <2>3. CASE ChargeSucceeds(r) \/ ChargeFails(r)
    BY <2>3 DEF ChargeSucceeds, Verdict, ChargeFails, Cancels
  <2>4. CASE EnqueueConfirm(r) \/ ReturnCancelled(r) \/ PaymentJobCompletes(r) \/ Confirm(r)
    BY <2>4 DEF EnqueueConfirm, ReturnCancelled, PaymentJobCompletes, Confirm
  <2>5. ~PaymentJobFails(r) /\ ~ConfirmJobFails(r)
    BY DEF PaymentJobFails, ConfirmJobFails
  <2>6. \/ UNCHANGED <<payVars, payJob, confirmJob>>
        \/ PayRead(r) \/ PayInsert(r) \/ PayEnqueue(r) \/ PayDies(r)
        \/ ChargeSucceeds(r) \/ ChargeFails(r)
        \/ EnqueueConfirm(r) \/ ReturnCancelled(r) \/ PaymentJobCompletes(r) \/ Confirm(r)
    BY <1>3, <2>5 DEF RequestStep, CreateHeldStep, FaultStep, PayStep, PaymentStep,
       Decrement, GiveBackOverdrawn, GiveBackDuplicate, GiveBackFailed, GiveBack, InsertHeld,
       InsertDuplicate, MarkActivity, Move, InsertAmbiguous, InsertFails, FlagFails, RequestDies,
       HoldLapses, PaymentFallbackLapses
  <2> QED
    BY <2>1, <2>2, <2>3, <2>4, <2>6
<1> QED
  BY <1>1, <1>2, <1>3 DEF Next

(* No step then confirms an unpaid row or unpays a confirmed one.          *)
LEMMA ConfirmedNext ==
    TypeInv /\ ChargedOnce /\ ConfirmedIsPaid /\ [Next]_vars => ConfirmedIsPaid'
<1> SUFFICES ASSUME TypeInv, ChargedOnce, ConfirmedIsPaid, [Next]_vars PROVE ConfirmedIsPaid'
  OBVIOUS
<1> USE DEF TypeInv, TypeOK, JobPhases, ChargedOnce, ConfirmedIsPaid
<1>1. CASE \A r \in Requests : ~Charging(r)
  BY <1>1, PaymentFrame
<1>2. ASSUME NEW r \in Requests, PayInsert(r) PROVE ConfirmedIsPaid'
  BY <1>2 DEF PayInsert, holdVars
<1>3. ASSUME NEW r \in Requests, ChargeSucceeds(r) PROVE ConfirmedIsPaid'
  BY <1>3 DEF ChargeSucceeds, Verdict, holdVars
<1>4. ASSUME NEW r \in Requests, ChargeFails(r) PROVE ConfirmedIsPaid'
  BY <1>4 DEF ChargeFails, Cancels
<1> QED
  BY <1>1, <1>2, <1>3, <1>4 DEF Charging

(* When every job is delivered once, a CONFIRMED reservation has been      *)
(* paid for. With a redelivery it need not: the second roll may fail.      *)
THEOREM ConfirmedWasPaid ==
    ASSUME "jobFails" \notin Faults
    PROVE  Spec => []ConfirmedIsPaid
<1>1. Init => ChargedOnce /\ ConfirmedIsPaid
  BY DEF Init, ChargedOnce, ConfirmedIsPaid
<1> QED
  BY <1>1, TypeInit, TypeNext, ChargedNext, ConfirmedNext, PTL DEF Spec
=============================================================================
