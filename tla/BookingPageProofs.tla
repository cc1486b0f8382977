--------------------------- MODULE BookingPageProofs ---------------------------
(***************************************************************************)
(* Proofs about BookingPage, for any number of reservations, requests,     *)
(* visits and faults: no outcome is missed by a stream that listens, a     *)
(* page shows only the outcome of its own reservation, its crowd and its   *)
(* reset come before its visitor, and it has one booking under way.        *)
(***************************************************************************)
EXTENDS BookingPage, FiniteSetTheorems, TLAPS

-----------------------------------------------------------------------------
(* The inductive invariant of what is told about a reservation. *)

RowTypes ==
    /\ status \in [Reservations -> Statuses \cup {"free", "gone"}]
    /\ due \in [Reservations -> {"none", "CONFIRMED", "CANCELLED"}]
    /\ unpublished \in [Reservations -> BOOLEAN]
    /\ conn \in [Reservations -> Hears \cup {"closed", "connecting", "delivering", "refused"}]
    /\ wire \in [Reservations -> Final \cup {"none"}]

(* A worker publishes what it has written; only a reset can be in between. *)
DueIsWritten ==
    \A r \in Reservations : due[r] # "none" => status[r] \in {due[r], "gone"}

(* So does a connection carry it. *)
WireIsWritten ==
    \A r \in Reservations :
        conn[r] = "delivering" => wire[r] \in Final /\ status[r] \in {wire[r], "gone"}

(* A page listens to its own reservation only. *)
StreamIsOwn ==
    \A r \in Reservations : conn[r] # "closed" => phase \in WithStatus /\ ticket = r

(* The reservations the page knows have been made. *)
Made(r) == r \in Reservations /\ status[r] # "free"
TicketMade == phase \in WithStatus => Made(ticket)

(* A request is a record, and knows of no other ones either. *)
Knows(c) ==
    /\ c = [tap |-> c.tap, op |-> c.op, r |-> c.r, mine |-> c.mine, at |-> c.at]
    /\ c.op = "pay" \/ (c.op = "submit" /\ c.at = "ok") => Made(c.r)
CallsMade == \A c \in calls : Knows(c)

StreamInv ==
    RowTypes /\ DueIsWritten /\ WireIsWritten /\ StreamIsOwn /\ NothingMissed

ToldInv == StreamInv /\ TicketMade /\ CallsMade

-----------------------------------------------------------------------------
(* Lemmas about the operators of the page *)

(* What has been made stays made. *)
MadeStays == \A r \in Reservations : status[r] # "free" => status'[r] # "free"

LEMMA KnowsStays ==
    ASSUME MadeStays, NEW c, Knows(c)
    PROVE  Knows(c)'
BY DEF MadeStays, Knows, Made

(* A new request knows what its sender knows. *)
LEMMA SendingKnows ==
    ASSUME NEW S, \A c \in S : Knows(c),
           NEW op, NEW q, op = "pay" => Made(q)
    PROVE  \A c \in Sending(op, q, S) : Knows(c)
BY DEF Sending, Knows

(* A request on its way through its handler still knows what it knew. *)
LEMMA StageKnows ==
    ASSUME NEW c, Knows(c), NEW at, at # "ok" \/ c.op # "submit"
    PROVE  Knows([c EXCEPT !.at = at])
BY DEF Knows

(* What the answer to a booking knows. *)
LEMMA Booked ==
    ASSUME NEW c, Knows(c), NEW x, NEW q
    PROVE  [c EXCEPT !.at = x, !.r = q]
               = [tap |-> c.tap, op |-> c.op, r |-> q, mine |-> c.mine, at |-> x]
<1> DEFINE d == [tap |-> c.tap, op |-> c.op, r |-> c.r, mine |-> c.mine, at |-> x]
<1>1. [c EXCEPT !.at = x] = d
  BY DEF Knows
<1>2. [d EXCEPT !.r = q] = [tap |-> c.tap, op |-> c.op, r |-> q, mine |-> c.mine, at |-> x]
  OBVIOUS
<1>3. [c EXCEPT !.at = x, !.r = q] = [[c EXCEPT !.at = x] EXCEPT !.r = q]
  OBVIOUS
<1> QED
  BY <1>1, <1>2, <1>3

LEMMA UnheardKnows ==
    ASSUME NEW S, \A c \in S : Knows(c)
    PROVE  \A c \in Unheard(S) : Knows(c)
BY DEF Unheard, Knows, Answers

(* Whatever the page shows next, its streams are those of its ticket. *)
LEMMA ShowKeeps ==
    ASSUME StreamInv, TicketMade, NEW p, NEW q, NEW e, Show(p, q, e),
           UNCHANGED rowVars, p \in WithStatus => Made(q)
    PROVE  StreamInv' /\ TicketMade'
<1> USE DEF StreamInv, RowTypes
<1>1. \A r \in Reservations :
         /\ conn'[r] = conn[r] \/ conn'[r] \in {"connecting", "closed"}
         /\ wire'[r] = IF conn'[r] = "delivering" THEN wire[r] ELSE "none"
         /\ conn'[r] # "closed" => p \in WithStatus /\ q = r
  BY DEF Show, Closed
<1>2. RowTypes'
  <2>1. conn' \in [Reservations -> Hears \cup {"closed", "connecting", "delivering", "refused"}]
    BY <1>1 DEF Show
  <2>2. wire' \in [Reservations -> Final \cup {"none"}]
    BY <1>1 DEF Show
  <2> QED
    BY <2>1, <2>2 DEF rowVars
<1>3. DueIsWritten' /\ WireIsWritten' /\ NothingMissed'
  BY <1>1 DEF rowVars, DueIsWritten, WireIsWritten, NothingMissed
<1>4. StreamIsOwn' /\ TicketMade'
  BY <1>1 DEF Show, StreamIsOwn, TicketMade, Made, rowVars
<1> QED
  BY <1>2, <1>3, <1>4

(* A step that leaves the page and the rows alone leaves this alone. *)
LEMMA KeepKeeps ==
    ASSUME StreamInv, TicketMade, UNCHANGED <<rowVars, phase, ticket, conn, wire>>
    PROVE  StreamInv' /\ TicketMade'
BY DEF StreamInv, RowTypes, DueIsWritten, WireIsWritten, StreamIsOwn, NothingMissed,
       TicketMade, Made, rowVars

(* It is enough to look at the requests before the rows change. *)
LEMMA CallsKnow ==
    ASSUME MadeStays, \A c \in calls' : Knows(c)
    PROVE  CallsMade'
BY KnowsStays DEF CallsMade

LEMMA RowsStay == ASSUME UNCHANGED rowVars PROVE MadeStays
BY DEF rowVars, MadeStays

-----------------------------------------------------------------------------
(* Every step keeps the invariant *)

LEMMA ToldInit == Init => ToldInv
BY DEF Init, StreamInit, ToldInv, StreamInv, RowTypes, DueIsWritten, WireIsWritten, StreamIsOwn,
       NothingMissed, TicketMade, CallsMade, WithStatus, Statuses, Hears

(* Leaving drops its state, its streams and the answers to it. *)
LEMMA LeavesTold ==
    ASSUME ToldInv, NEW to, Leaves(to)
    PROVE  ToldInv'
<1>1. StreamInv' /\ TicketMade'
  BY ShowKeeps DEF Leaves, ToldInv, WithStatus
<1>2. \A c \in Unheard(calls) : Knows(c)
  BY UnheardKnows DEF ToldInv, CallsMade
<1>3. CallsMade'
  BY <1>2, CallsKnow, RowsStay DEF Leaves
<1> QED
  BY <1>1, <1>3 DEF ToldInv

(* Opening the page, leaving it, and what its mount does. *)
LEMMA PageTold ==
    ASSUME ToldInv, PageStep
    PROVE  ToldInv'
<1>1. ASSUME UNCHANGED <<rowVars, phase, ticket, conn, wire>>, \A c \in calls' : Knows(c)
      PROVE  ToldInv'
  BY <1>1, KeepKeeps, CallsKnow, RowsStay DEF ToldInv
<1>2. CASE Walk \/ (\E k \in {"casual", "loadTest"} : Open(k)) \/ GetReady
  BY <1>1, <1>2 DEF Walk, Open, GetReady, formVars, streamVars, ToldInv, CallsMade
<1>3. CASE Leave \/ LogOutOfPage
  BY <1>3, LeavesTold DEF Leave, LogOutOfPage
<1>4. ASSUME NEW effect, NEW op, op # "pay", op # "submit", RunEffect(effect, op)
      PROVE  ToldInv'
  <2>1. \A c \in Sending(op, NoTicket, calls) : Knows(c)
    BY <1>4, SendingKnows DEF ToldInv, CallsMade
  <2> QED
    BY <1>1, <1>4, <2>1 DEF RunEffect, SentOnce, formVars, streamVars
<1>5. CASE PageEffect \/ FormEffect
  <2>1. PageEffect => RunEffect("page", "setup")
    BY DEF PageEffect
  <2>2. FormEffect => RunEffect("form", "crowd") \/ RunEffect("form", "join")
    BY DEF FormEffect
  <2> QED
    BY <1>4, <1>5, <2>1, <2>2
<1> QED
  BY <1>2, <1>3, <1>5 DEF PageStep

(* A button sends a request, or starts over. *)
LEMMA ButtonTold ==
    ASSUME ToldInv, ButtonStep
    PROVE  ToldInv'
<1>1. ASSUME NEW op, NEW q, op = "pay" => Made(q), Press(op, q)
      PROVE  ToldInv'
  <2>1. \A c \in Sending(op, q, calls) : Knows(c)
    BY <1>1, SendingKnows DEF ToldInv, CallsMade
  <2>2. UNCHANGED <<rowVars, phase, ticket, conn, wire>> /\ \A c \in calls' : Knows(c)
    BY <1>1, <2>1 DEF Press, streamVars
  <2> QED
    BY <2>2, KeepKeeps, CallsKnow, RowsStay DEF ToldInv
<1>2. CASE JoinAgain \/ Submit \/ PressReset
  <2>1. Press("join", NoTicket) \/ Press("submit", NoTicket) \/ Press("reset", NoTicket)
    BY <1>2 DEF JoinAgain, Submit, PressReset
  <2> QED
    BY <1>1, <2>1
<1>3. CASE PressPay
  <2>1. Made(ticket) /\ Press("pay", ticket)
    BY <1>3 DEF PressPay, ToldInv, TicketMade, WithStatus
  <2> QED
    BY <1>1, <2>1
<1>4. CASE StartOver
  BY <1>4, LeavesTold DEF StartOver
<1> QED
  BY <1>2, <1>3, <1>4 DEF ButtonStep

(* Handlers: a booking and a reset write rows. *)
LEMMA ServeTold ==
    ASSUME ToldInv, NEW c \in calls, Serve(c)
    PROVE  ToldInv'
<1> USE DEF ToldInv
<1>1. Knows(c) /\ \A d \in calls : Knows(d)
  BY DEF CallsMade
<1>2. UNCHANGED <<phase, ticket, conn, wire>>
  BY DEF Serve, formVars, streamVars
<1>3. ASSUME NEW at, at # "ok" \/ c.op # "submit", Stage(c, at), MadeStays
      PROVE  CallsMade'
  <2>1. Knows([c EXCEPT !.at = at])
    BY <1>1, <1>3, StageKnows
  <2> QED
    BY <1>1, <1>3, <2>1, CallsKnow DEF Stage
<1>4. ASSUME UNCHANGED rowVars, NEW at, at # "ok" \/ c.op # "submit", Stage(c, at)
      PROVE  ToldInv'
  BY <1>2, <1>3, <1>4, KeepKeeps, RowsStay
<1>5. CASE RefuseCall(c)
  BY <1>4, <1>5 DEF RefuseCall, Refusal
<1>6. CASE Crowd(c)
  <2>1. UNCHANGED rowVars /\ c.op # "submit" /\ \E at : Stage(c, at)
    BY <1>6 DEF Crowd
  <2> QED
    BY <1>4, <2>1
<1>7. CASE Join(c)
  <2>1. UNCHANGED rowVars /\ c.op # "submit" /\ Stage(c, "ok")
    BY <1>7 DEF Join
  <2> QED
    BY <1>4, <2>1
<1>8. CASE Reset(c)
  <2>1. MadeStays /\ c.op # "submit" /\ \E at : Stage(c, at)
    BY <1>8 DEF Reset, MadeStays, StreamInv, RowTypes
  <2>2. UNCHANGED <<due, unpublished>> /\
        (status' = status \/
           status' = [r \in Reservations |-> IF status[r] = "free" THEN "free" ELSE "gone"])
    BY <1>8 DEF Reset
  <2>3. StreamInv' /\ TicketMade'
    BY <1>2, <2>2 DEF StreamInv, RowTypes, DueIsWritten, WireIsWritten, StreamIsOwn,
                      NothingMissed, TicketMade, Made
  <2> QED
    BY <1>3, <2>1, <2>3
<1>9. CASE Book(c)
  <2>1. CASE UNCHANGED status /\ (Stage(c, "forbidden") \/ Stage(c, "conflict"))
    BY <1>4, <1>9, <2>1 DEF Book, rowVars
  <2>2. CASE /\ \E r \in Reservations : status[r] = "free"
             /\ LET r == CHOOSE x \in Reservations : status[x] = "free" IN
                /\ status' = [status EXCEPT ![r] = "HELD"]
                /\ calls' = (calls \ {c}) \cup
                            (IF c.mine THEN {[c EXCEPT !.at = "ok", !.r = r]} ELSE {})
    <3>1. PICK r \in Reservations :
             status[r] = "free" /\ r = (CHOOSE x \in Reservations : status[x] = "free")
      BY <2>2
    <3> DEFINE e == [tap |-> c.tap, op |-> c.op, r |-> r, mine |-> c.mine, at |-> "ok"]
    <3>2. [c EXCEPT !.at = "ok", !.r = r] = e
      BY <1>1, Booked
    <3>3. calls' \subseteq calls \cup {e}
      BY <2>2, <3>1, <3>2
    <3>4. status' = [status EXCEPT ![r] = "HELD"] /\ UNCHANGED <<due, unpublished>>
      BY <1>9, <2>2, <3>1 DEF Book
    <3>5. MadeStays
      BY <3>4 DEF MadeStays, StreamInv, RowTypes
    <3>6. status'[r] = "HELD"
      BY <3>1, <3>4 DEF StreamInv, RowTypes
    <3>7. Knows(e)'
      BY <3>1, <3>6 DEF Knows, Made
    <3>8. CallsMade'
      BY <1>1, <3>3, <3>5, <3>7, KnowsStays DEF CallsMade
    <3>9. \A x \in Reservations : status'[x] = status[x] \/ (x = r /\ status'[x] = "HELD")
      BY <3>4 DEF StreamInv, RowTypes
    <3>10. conn[r] # "delivering"
      BY <3>1 DEF StreamInv, WireIsWritten, RowTypes, Final
    <3>11. due[r] = "none"
      BY <3>1 DEF StreamInv, DueIsWritten, RowTypes
    <3>12. RowTypes'
      BY <1>2, <3>4 DEF StreamInv, RowTypes, Statuses
    <3>13. DueIsWritten' /\ WireIsWritten' /\ StreamIsOwn' /\ NothingMissed'
      BY <1>2, <3>4, <3>9, <3>10, <3>11
         DEF StreamInv, DueIsWritten, WireIsWritten, StreamIsOwn, NothingMissed
    <3>14. TicketMade'
      BY <1>2, <3>9 DEF TicketMade, Made
    <3> QED
      BY <3>8, <3>12, <3>13, <3>14 DEF StreamInv
  <2> QED
    BY <1>9, <2>1, <2>2 DEF Book
<1>10. CASE Pay(c)
  <2>1. c.op # "submit" /\ \E at : Stage(c, at)
    BY <1>10 DEF Pay
  <2>2. UNCHANGED <<status, due, unpublished>>
    BY <1>10 DEF Pay
  <2>3. MadeStays
    BY <2>2 DEF MadeStays
  <2>4. StreamInv' /\ TicketMade'
    BY <1>2, <2>2 DEF StreamInv, RowTypes, DueIsWritten, WireIsWritten, StreamIsOwn,
                      NothingMissed, TicketMade, Made
  <2> QED
    BY <1>3, <2>1, <2>3, <2>4
<1> QED
  BY <1>5, <1>6, <1>7, <1>8, <1>9, <1>10 DEF Serve

(* An answer changes the page, and may send the next request. *)
LEMMA ReceiveTold ==
    ASSUME ToldInv, NEW c \in calls, Receive(c)
    PROVE  ToldInv'
<1> USE DEF ToldInv
<1>1. Knows(c) /\ (\A d \in calls \ {c} : Knows(d)) /\ UNCHANGED rowVars
  BY DEF CallsMade, Receive
<1>2. \A d \in Sending("join", NoTicket, calls \ {c}) : Knows(d)
  BY <1>1, SendingKnows
<1>3. CallsMade'
  <2>1. calls' = calls \ {c} \/ calls' = Sending("join", NoTicket, calls \ {c})
    BY DEF Receive
  <2> QED
    BY <1>1, <1>2, <2>1, CallsKnow, RowsStay
<1>4. ASSUME NEW p, NEW q, Answer(c, p, q), c.at = "ok" /\ p \in WithStatus => Made(q)
      PROVE  StreamInv' /\ TicketMade'
  BY <1>1, <1>4, ShowKeeps DEF Answer, WithStatus
<1>5. CASE Keep
  BY <1>1, <1>3, <1>5, KeepKeeps DEF Keep, streamVars
<1>6. CASE c.op = "join" /\ Answer(c, "queued", NoTicket)
  BY <1>3, <1>4, <1>6 DEF WithStatus
<1>7. CASE c.op = "submit" /\ Answer(c, "held", c.r)
  BY <1>1, <1>3, <1>4, <1>7 DEF Knows
<1>8. CASE c.op = "pay" /\ Answer(c, "paying", c.r)
  BY <1>1, <1>3, <1>4, <1>8 DEF Knows
<1> QED
  BY <1>5, <1>6, <1>7, <1>8 DEF Receive

(* The line and its stream. *)
LEMMA LineTold ==
    ASSUME ToldInv, LineStep
    PROVE  ToldInv'
<1> USE DEF ToldInv
<1>1. UNCHANGED rowVars /\ UNCHANGED calls
  BY DEF LineStep, Admit, WindowEnds, ConnectLine, Snapshot
<1>2. CallsMade'
  BY <1>1, CallsKnow, RowsStay DEF CallsMade
<1>3. CASE Admit \/ WindowEnds \/ ConnectLine
  BY <1>1, <1>2, <1>3, KeepKeeps DEF Admit, WindowEnds, ConnectLine, formVars, streamVars
<1>4. CASE Snapshot
  <2>1. \E p \in {"admitted", "queued", "expired"} : Show(p, NoTicket, "none")
    BY <1>4 DEF Snapshot
  <2> QED
    BY <1>1, <1>2, <2>1, ShowKeeps DEF WithStatus
<1> QED
  BY <1>3, <1>4 DEF LineStep

(* The workers write and publish, and the connection carries. *)
LEMMA RowTold ==
    ASSUME ToldInv, NEW r \in Reservations, Worker(r) \/ Connection(r) \/ Deliver(r)
    PROVE  ToldInv'
<1> USE DEF ToldInv
<1>1. MadeStays /\ UNCHANGED calls
  BY DEF Worker, Connection, Deliver, MadeStays, Publish, Charge, Expire, Subscribe, Refuse,
         ReadRow, ReadAnswered, rowVars, StreamInv, RowTypes
<1>2. CallsMade'
  BY <1>1, CallsKnow DEF CallsMade
<1>3. ASSUME UNCHANGED <<phase, ticket>>, MadeStays
      PROVE  TicketMade'
  BY <1>3 DEF TicketMade, Made, MadeStays
<1>4. ASSUME Worker(r) \/ Connection(r)
      PROVE  TicketMade' /\ UNCHANGED <<phase, ticket>>
  BY <1>1, <1>3, <1>4 DEF Worker, Connection
<1> USE DEF StreamInv, RowTypes, DueIsWritten, WireIsWritten, StreamIsOwn, NothingMissed
<1>5. CASE Worker(r) /\ Publish(r)
  <2>1. RowTypes'
    BY <1>5 DEF Publish, Carry, streamVars, Final
  <2>2. UNCHANGED <<status, unpublished>> /\ due' = [due EXCEPT ![r] = "none"]
    BY <1>5 DEF Publish
  <2>3. CASE conn[r] \in Hears
    <3>1. conn' = [conn EXCEPT ![r] = "delivering"] /\ wire' = [wire EXCEPT ![r] = due[r]]
      BY <1>5, <2>3 DEF Publish, Carry
    <3>2. due[r] \in Final /\ conn[r] # "closed"
      BY <1>5, <2>3 DEF Publish, Final, Hears
    <3>3. \A x \in Reservations :
             /\ due'[x] # "none" => due'[x] = due[x]
             /\ x # r => conn'[x] = conn[x] /\ wire'[x] = wire[x] /\ due'[x] = due[x]
             /\ x = r => conn'[x] = "delivering" /\ wire'[x] = due[x] /\ due[x] # "none"
      BY <1>5, <2>2, <3>1 DEF Publish
    <3>4. DueIsWritten' /\ WireIsWritten' /\ NothingMissed'
      BY <2>2, <3>2, <3>3
    <3>5. StreamIsOwn'
      BY <1>4, <1>5, <3>2, <3>3
    <3> QED
      BY <1>2, <1>4, <1>5, <2>1, <3>4, <3>5
  <2>4. CASE conn[r] \notin Hears
    <3>1. UNCHANGED <<conn, wire>>
      BY <1>5, <2>4 DEF Publish, streamVars
    <3>2. StreamInv'
      BY <1>4, <1>5, <2>1, <2>2, <2>4, <3>1 DEF Hears
    <3> QED
      BY <1>2, <1>4, <1>5, <3>2
  <2> QED
    BY <2>3, <2>4
<1>6. CASE Worker(r) /\ \E accepted \in BOOLEAN : Charge(r, accepted)
  <2>1. UNCHANGED <<unpublished, conn, wire>>
    BY <1>6 DEF Charge, streamVars
  <2>2. \/ UNCHANGED <<status, due>>
        \/ /\ status[r] = "HELD"
           /\ \E verdict \in {"CONFIRMED", "CANCELLED"} :
                 /\ status' = [status EXCEPT ![r] = verdict]
                 /\ due' = [due EXCEPT ![r] = verdict]
    BY <1>6 DEF Charge
  <2>3. RowTypes'
    BY <2>1, <2>2 DEF Statuses, Final
  <2>4. StreamInv'
    BY <1>4, <1>6, <2>1, <2>2, <2>3 DEF Final
  <2> QED
    BY <1>2, <1>4, <1>6, <2>4
<1>7. CASE Worker(r) /\ Expire(r)
  <2>1. /\ UNCHANGED <<due, unpublished, conn, wire>>
        /\ status[r] = "HELD" /\ status' = [status EXCEPT ![r] = "EXPIRED"]
    BY <1>7 DEF Expire, streamVars
  <2>2. RowTypes'
    BY <2>1 DEF Statuses, Final
  <2>3. StreamInv'
    BY <1>4, <1>7, <2>1, <2>2 DEF Final
  <2> QED
    BY <1>2, <1>4, <1>7, <2>3
<1>8. CASE Connection(r) /\ (Subscribe(r) \/ Refuse(r) \/ ReadAnswered(r))
  <2>1. /\ UNCHANGED <<status, due, unpublished, wire>>
        /\ \/ conn[r] = "connecting" /\ conn' = [conn EXCEPT ![r] = "reading"]
           \/ conn[r] = "connecting" /\ conn' = [conn EXCEPT ![r] = "refused"]
           \/ conn[r] = "read" /\ conn' = [conn EXCEPT ![r] = "listening"]
    BY <1>8 DEF Subscribe, Refuse, ReadAnswered, rowVars
  <2>2. RowTypes'
    BY <2>1 DEF Hears
  <2>3. StreamInv'
    BY <1>4, <1>8, <2>1, <2>2
  <2> QED
    BY <1>2, <1>4, <1>8, <2>3
<1>9. CASE Connection(r) /\ ReadRow(r)
  <2>1. status[r] # "free"
    BY <1>9 DEF ReadRow, TicketMade, Made
  <2> QED
    BY <1>2, <1>4, <1>9, <2>1 DEF ReadRow, ToldAtOnce, Carry, rowVars, Hears, Statuses
<1>10. CASE Deliver(r)
  <2>1. CASE Show("confirmed", r, "none") \/ Show("cancelled", r, "none")
    BY <1>2, <1>10, <2>1, ShowKeeps DEF Deliver, WithStatus
  <2>2. CASE /\ conn' = [conn EXCEPT ![r] = "closed"]
             /\ wire' = [wire EXCEPT ![r] = "none"]
             /\ UNCHANGED <<phase, ticket, error, lineStream>>
    BY <1>1, <1>2, <1>3, <1>10, <2>2 DEF Deliver, rowVars
  <2> QED
    BY <1>10, <2>1, <2>2 DEF Deliver
<1> QED
  BY <1>5, <1>6, <1>7, <1>8, <1>9, <1>10 DEF Worker, Connection

(* Whatever goes wrong. *)
LEMMA FaultTold ==
    ASSUME ToldInv, FaultStep
    PROVE  ToldInv'
<1> USE DEF ToldInv
<1>1. \A d \in calls : Knows(d)
  BY DEF CallsMade
<1>2. CASE SessionLapses
  BY <1>1, <1>2, KeepKeeps, CallsKnow, RowsStay DEF SessionLapses, formVars, streamVars
<1>3. ASSUME NEW c \in calls, LoseAnswer(c)
      PROVE  ToldInv'
  <2> DEFINE S == (calls \ {c}) \cup Unheard({c})
  <2>1. \A d \in S : Knows(d)
    BY <1>1, UnheardKnows
  <2>2. \A d \in Sending("join", NoTicket, S) : Knows(d)
    BY <2>1, SendingKnows
  <2>3. \A d \in calls' : Knows(d)
    BY <1>3, <2>1, <2>2 DEF LoseAnswer, Rejected
  <2> QED
    BY <1>3, <2>3, KeepKeeps, CallsKnow, RowsStay DEF LoseAnswer, formVars, streamVars
<1>4. ASSUME NEW r \in Reservations, LoseConnection(r)
      PROVE  ToldInv'
  <2>1. UNCHANGED <<rowVars, phase, ticket, calls>>
    BY <1>4 DEF LoseConnection, Disconnect
  <2>2. CallsMade' /\ TicketMade'
    BY <1>1, <2>1, CallsKnow, RowsStay DEF TicketMade, Made, rowVars
  <2>3. StreamInv'
    BY <1>4, <2>1 DEF LoseConnection, Disconnect, StreamInv, RowTypes, DueIsWritten, WireIsWritten,
                      StreamIsOwn, NothingMissed, rowVars, Hears
  <2> QED
    BY <2>2, <2>3
<1>5. ASSUME NEW r \in Reservations, WorkerFails(r)
      PROVE  ToldInv'
  <2>1. UNCHANGED <<status, conn, wire, phase, ticket, calls>>
    BY <1>5 DEF WorkerFails, PublishFails, streamVars
  <2>2. CallsMade' /\ TicketMade'
    BY <1>1, <2>1, CallsKnow DEF TicketMade, Made, MadeStays
  <2>3. StreamInv'
    BY <1>5, <2>1 DEF WorkerFails, PublishFails, StreamInv, RowTypes, DueIsWritten, WireIsWritten,
                      StreamIsOwn, NothingMissed
  <2> QED
    BY <2>2, <2>3
<1>6. CASE Restart
  <2>1. UNCHANGED <<status, unpublished, phase, ticket>>
    BY <1>6 DEF Restart
  <2>2. \A d \in Sending("join", NoTicket, {}) : Knows(d)
    BY SendingKnows
  <2>3. CallsMade'
    BY <1>6, <2>1, <2>2, CallsKnow DEF Restart, MadeStays
  <2>4. due' = [r \in Reservations |-> "none"] /\ wire' = [r \in Reservations |-> "none"]
    BY <1>6 DEF Restart
  <2>5. PICK after \in {"connecting", "refused"} :
           conn' = [r \in Reservations |->
                       IF conn[r] \in {"closed", "refused"} THEN conn[r] ELSE after]
    BY <1>6 DEF Restart
  <2>6. \A r \in Reservations :
           /\ conn'[r] \in {"closed", "connecting", "refused"}
           /\ conn'[r] = "closed" <=> conn[r] = "closed"
    BY <2>5
  <2>7. conn' \in [Reservations -> Hears \cup {"closed", "connecting", "delivering", "refused"}]
    BY <2>5
  <2>8. StreamInv' /\ TicketMade'
    BY <2>1, <2>4, <2>6, <2>7
       DEF StreamInv, RowTypes, DueIsWritten, WireIsWritten, StreamIsOwn, NothingMissed,
           TicketMade, Made
  <2> QED
    BY <2>3, <2>8
<1> QED
  BY <1>2, <1>3, <1>4, <1>5, <1>6 DEF FaultStep

LEMMA ToldStep == ToldInv /\ [Next]_vars => ToldInv'
<1> SUFFICES ASSUME ToldInv, [Next]_vars PROVE ToldInv'
  OBVIOUS
<1>1. CASE UNCHANGED vars
  <2>1. UNCHANGED <<rowVars, phase, ticket, conn, wire, calls>>
    BY <1>1 DEF vars, formVars, streamVars
  <2> QED
    BY <2>1, KeepKeeps, CallsKnow, RowsStay DEF ToldInv, CallsMade
<1>2. CASE Next
  BY <1>2, PageTold, ButtonTold, ServeTold, ReceiveTold, LineTold, RowTold, FaultTold DEF Next
<1> QED
  BY <1>1, <1>2

LEMMA ToldAlways == Spec => []ToldInv
BY ToldInit, ToldStep, PTL DEF Spec

(* The stream of a page that has read its row as HELD hears how the row is *)
(* settled, whatever the order of the read, the subscription, the workers' *)
(* writes and their publications, unless a worker or a restart loses it    *)
(* (streamStatus, ReservationEventsService).                               *)
THEOREM NoOutcomeMissed == Spec => []NothingMissed
<1>1. ToldInv => NothingMissed
  BY DEF ToldInv, StreamInv
<1> QED
  BY <1>1, ToldAlways, PTL

-----------------------------------------------------------------------------
(* What a step may show *)

Shown ==
    phase' \in {"confirmed", "cancelled"} /\ phase' # phase
    => /\ phase \in WithStatus
       /\ ticket' = ticket
       /\ status[ticket] \in {IF phase' = "confirmed" THEN "CONFIRMED" ELSE "CANCELLED", "gone"}

(* Only a delivery shows an outcome. *)
LEMMA OthersShowNone ==
    ASSUME Next, ~(\E r \in Reservations : Deliver(r)), phase' # phase
    PROVE  phase' \notin {"confirmed", "cancelled"}
<1>1. CASE PageStep
  BY <1>1 DEF PageStep, Walk, Open, Leave, LogOutOfPage, Leaves, Show, PageEffect, GetReady,
              FormEffect, RunEffect, formVars
<1>2. CASE ButtonStep
  BY <1>2 DEF ButtonStep, JoinAgain, StartOver, Submit, PressPay, PressReset, Press, Leaves, Show
<1>3. CASE LineStep
  BY <1>3 DEF LineStep, Admit, WindowEnds, ConnectLine, Snapshot, Show, formVars
<1>4. CASE FaultStep
  BY <1>4 DEF FaultStep, SessionLapses, LoseAnswer, LoseConnection, WorkerFails, Restart, formVars
<1>5. ASSUME NEW c \in calls, Serve(c) \/ Receive(c)
      PROVE  phase' \notin {"confirmed", "cancelled"}
  BY <1>5 DEF Serve, Receive, Answer, Show, Keep, formVars
<1>6. ASSUME NEW r \in Reservations, Worker(r) \/ Connection(r)
      PROVE  phase' \notin {"confirmed", "cancelled"}
  BY <1>6 DEF Worker, Connection
<1> QED
  BY <1>1, <1>2, <1>3, <1>4, <1>5, <1>6 DEF Next

(* A delivery has a written outcome of the page's own reservation. *)
LEMMA DeliveryShowsOwn ==
    ASSUME ToldInv, NEW r \in Reservations, Deliver(r)
    PROVE  Shown
<1>1. wire[r] \in Final /\ status[r] \in {wire[r], "gone"} /\ phase \in WithStatus /\ ticket = r
  BY DEF Deliver, ToldInv, StreamInv, WireIsWritten, StreamIsOwn
<1>2. CASE wire[r] = "CONFIRMED"
  BY <1>1, <1>2 DEF Deliver, Show, Shown
<1>3. CASE wire[r] = "CANCELLED"
  BY <1>1, <1>3 DEF Deliver, Show, Shown
<1>4. CASE wire[r] = "EXPIRED"
  BY <1>1, <1>4 DEF Deliver, Shown
<1> QED
  BY <1>1, <1>2, <1>3, <1>4 DEF Final

(* A page shows the outcome of the reservation it holds, and the one its   *)
(* row has: no late message of an earlier connection or reservation gets   *)
(* through (the clean-up of the form's stream effect).                     *)
THEOREM OutcomesAreOwn == Spec => OutcomeIsOwn
<1>1. ToldInv /\ [Next]_vars => [Shown]_vars
  <2> SUFFICES ASSUME ToldInv, Next, phase' # phase PROVE Shown
    BY DEF Shown, vars, formVars
  <2> QED
    BY OthersShowNone, DeliveryShowsOwn DEF Shown
<1>2. [][Shown]_vars => OutcomeIsOwn
  BY PTL DEF OutcomeIsOwn, Shown
<1> QED
  BY <1>1, <1>2, ToldAlways, PTL DEF Spec

-----------------------------------------------------------------------------
(* What comes first on a page: its reset, its crowd, its visitor *)

Only(ops) == \A c \in calls : c.mine => c.op \in ops
AtRest == phase = "idle" /\ lineStream = "closed"

(* Off the page nothing of it is left. *)
Away == screen # "page" => started = {} /\ Only({}) /\ AtRest

(* Before the effect of the form has run there is no visitor. *)
Unformed == "form" \notin started => Only({"setup", "reset"}) /\ AtRest

(* The set-up ends before the form is shown. *)
SetupBefore ==
    /\ ready => resetDone
    /\ "page" \notin started => Mine("setup") = {} /\ ~resetDone
    /\ kind = "loadTest" /\ "form" \in started => ready
    /\ Mine("setup") # {} => kind = "loadTest" /\ ~resetDone /\ "form" \notin started

(* The crowd has been answered before the visitor joins. *)
CrowdBefore == Mine("crowd") # {} => Only({"crowd", "reset"}) /\ AtRest

(* Both are sent once a visit. *)
SentOncePerVisit ==
    \A op \in {"crowd", "setup"} : \A c, d \in Mine(op) : c = d

FirstInv == Away /\ Unformed /\ SetupBefore /\ CrowdBefore /\ SentOncePerVisit

(* A new request is the page's own. *)
LEMMA SendingAdds ==
    ASSUME NEW S, NEW op, NEW q
    PROVE  \E n : Sending(op, q, S) = S \cup {n} /\ n.op = op /\ n.mine
<1> DEFINE taken == {c.tap : c \in {d \in S : d.op = op /\ d.mine}}
           n == [tap |-> Min((1..(Cardinality(taken) + 1)) \ taken),
                 op |-> op, r |-> q, mine |-> TRUE, at |-> "sent"]
<1>1. Sending(op, q, S) = S \cup {n}
  BY DEF Sending
<1>2. n.op = op /\ n.mine
  OBVIOUS
<1> QED
  BY <1>1, <1>2

(* A stage of its handler changes neither what it is nor whose. *)
LEMMA StageSame ==
    ASSUME NEW c, Knows(c), NEW at
    PROVE  [c EXCEPT !.at = at].op = c.op /\ [c EXCEPT !.at = at].mine = c.mine
BY DEF Knows

LEMMA UnheardIsNotMine ==
    ASSUME NEW S, \A c \in S : Knows(c)
    PROVE  \A c \in Unheard(S) : ~c.mine
BY DEF Unheard, Knows

(* Without a new request, and on the same page, nothing comes sooner. *)
LEMMA FirstKept ==
    ASSUME FirstInv, UNCHANGED <<screen, kind, started, resetDone, ready, phase, lineStream, calls>>
    PROVE  FirstInv'
BY DEF FirstInv, Away, Unformed, SetupBefore, CrowdBefore, SentOncePerVisit, Mine, Only, AtRest

LEMMA FirstInit == Init => FirstInv
BY DEF Init, SessionInit, FirstInv, Away, Unformed, SetupBefore, CrowdBefore, SentOncePerVisit,
       Mine, Only, AtRest

LEMMA LeavesFirst ==
    ASSUME ToldInv, FirstInv, NEW to, Leaves(to), to # "page"
    PROVE  FirstInv'
<1>1. \A c \in calls' : ~c.mine
  BY UnheardIsNotMine DEF Leaves, ToldInv, CallsMade
<1>2. AtRest' /\ started' = {} /\ ~ready' /\ ~resetDone' /\ screen' # "page"
  BY DEF Leaves, Show, AtRest, WithLine
<1> QED
  BY <1>1, <1>2 DEF FirstInv, Away, Unformed, SetupBefore, CrowdBefore, SentOncePerVisit, Mine, Only

LEMMA PageFirst ==
    ASSUME ToldInv, FirstInv, PageStep
    PROVE  FirstInv'
<1> USE DEF FirstInv, Away, Unformed, SetupBefore, CrowdBefore, SentOncePerVisit, Mine, Only, AtRest
<1>1. CASE Walk
  <2>1. screen # "page" /\ screen' # "page"
    BY <1>1 DEF Walk, SessionStep, CheckStatus, CheckFails, Refresh, EnterGate, LogIn, LogOut,
                LoadList, LogInAgain
  <2> QED
    BY <1>1, <2>1 DEF Walk, mountVars, formVars
<1>2. ASSUME NEW k, Open(k) PROVE FirstInv'
  BY <1>2 DEF Open, formVars
<1>3. CASE Leave \/ LogOutOfPage
  BY <1>3, LeavesFirst DEF Leave, LogOutOfPage
<1>4. CASE GetReady
  BY <1>4 DEF GetReady, sessionVars, formVars
<1>5. CASE PageEffect
  <2>1. PICK n : calls' = calls \cup {n} /\ n.op = "setup" /\ n.mine
    BY <1>5, SendingAdds DEF PageEffect, RunEffect, SentOnce
  <2> QED
    BY <1>5, <2>1 DEF PageEffect, RunEffect, sessionVars, formVars
<1>6. CASE FormEffect
  <2>1. PICK n : /\ calls' = calls \cup {n} /\ n.mine
                 /\ n.op = IF kind = "casual" THEN "crowd" ELSE "join"
    BY <1>6, SendingAdds DEF FormEffect, RunEffect, SentOnce
  <2>2. "form" \notin started /\ started' = started \cup {"form"}
        /\ UNCHANGED <<screen, kind, resetDone, ready, phase, lineStream>>
    BY <1>6 DEF FormEffect, RunEffect, sessionVars, formVars
  <2>3. Mine("setup") = {} /\ screen = "page" /\ (kind = "loadTest" => ready)
    BY <1>6 DEF FormEffect, FormMounted
  <2> QED
    BY <2>1, <2>2, <2>3
<1> QED
  BY <1>1, <1>2, <1>3, <1>4, <1>5, <1>6 DEF PageStep

LEMMA ButtonFirst ==
    ASSUME ToldInv, FirstInv, ButtonStep
    PROVE  FirstInv'
<1> USE DEF FirstInv, Away, Unformed, SetupBefore, CrowdBefore, SentOncePerVisit, Mine, Only, AtRest
<1>1. CASE StartOver
  BY <1>1, LeavesFirst DEF StartOver
<1>2. ASSUME NEW op, NEW q, Press(op, q), op \notin {"crowd", "setup"}, phase # "idle"
      PROVE  FirstInv'
  <2>1. PICK n : calls' = calls \cup {n} /\ n.op = op /\ n.mine
    BY <1>2, SendingAdds DEF Press
  <2> QED
    BY <1>2, <2>1 DEF Press, sessionVars, mountVars
<1>3. CASE JoinAgain \/ Submit \/ PressPay
  BY <1>2, <1>3 DEF JoinAgain, Submit, PressPay
<1>4. CASE PressReset
  <2>1. PICK n : calls' = calls \cup {n} /\ n.op = "reset" /\ n.mine
    BY <1>4, SendingAdds DEF PressReset, Press
  <2> QED
    BY <1>4, <2>1 DEF PressReset, Press, sessionVars, mountVars
<1> QED
  BY <1>1, <1>3, <1>4 DEF ButtonStep

LEMMA ServeFirst ==
    ASSUME ToldInv, FirstInv, NEW c \in calls, Serve(c)
    PROVE  FirstInv'
<1>1. Knows(c)
  BY DEF ToldInv, CallsMade
<1>2. PICK n : /\ calls' \subseteq (calls \ {c}) \cup {n}
               /\ n.op = c.op /\ n.mine = c.mine
  <2>1. ASSUME NEW at, Stage(c, at)
        PROVE  \E n : calls' \subseteq (calls \ {c}) \cup {n} /\ n.op = c.op /\ n.mine = c.mine
    BY <1>1, <2>1, StageSame DEF Stage
  <2>2. CASE RefuseCall(c) \/ Crowd(c) \/ Reset(c) \/ Join(c) \/ Pay(c)
    BY <2>1, <2>2 DEF RefuseCall, Crowd, Reset, Join, Pay
  <2>3. CASE Book(c)
    <3>1. \A r : LET n == [c EXCEPT !.at = "ok", !.r = r] IN n.op = c.op /\ n.mine = c.mine
      BY <1>1, Booked
    <3> QED
      BY ZenonT(40), <2>1, <2>3, <3>1 DEF Book
  <2> QED
    BY <2>2, <2>3 DEF Serve
<1>3. UNCHANGED <<screen, kind, started, resetDone, ready, phase, lineStream>>
  BY DEF Serve, sessionVars, mountVars, formVars
<1> QED
  BY <1>2, <1>3 DEF FirstInv, Away, Unformed, SetupBefore, CrowdBefore, SentOncePerVisit, Mine,
                    Only, AtRest

LEMMA ReceiveFirst ==
    ASSUME ToldInv, FirstInv, NEW c \in calls, Receive(c)
    PROVE  FirstInv'
<1> USE DEF FirstInv, Away, Unformed, SetupBefore, CrowdBefore, SentOncePerVisit, Mine, Only, AtRest
<1>1. c.mine /\ screen = "page" /\ UNCHANGED <<screen, kind, started, ready>>
  BY DEF Receive, sessionVars
<1>2. CASE c.op = "crowd" /\ calls' = Sending("join", NoTicket, calls \ {c})
  <2>1. PICK n : calls' = (calls \ {c}) \cup {n} /\ n.op = "join" /\ n.mine
    BY <1>2, SendingAdds
  <2>2. UNCHANGED <<phase, lineStream, resetDone>>
    BY <1>2 DEF Receive, Keep
  <2>3. "form" \in started /\ \A d \in calls \ {c} : d.mine => d.op = "reset"
    BY <1>1, <1>2
  <2> QED
    BY <1>1, <2>1, <2>2, <2>3
<1>3. CASE c.op \in {"setup", "reset"} /\ calls' = calls \ {c}
  <2>1. UNCHANGED <<phase, lineStream>> /\ resetDone' = (resetDone \/ c.op = "setup")
    BY <1>3 DEF Receive, Keep
  <2>2. CASE c.op = "setup"
    <3>1. "page" \in started /\ \A d \in calls' : d.mine => d.op # "setup"
      BY <1>1, <1>3, <2>2
    <3> QED
      BY <1>1, <1>3, <2>1, <2>2, <3>1
  <2>3. CASE c.op = "reset"
    BY ZenonT(40), <1>1, <1>3, <2>1, <2>3
  <2> QED
    BY <1>3, <2>2, <2>3
<1>4. CASE c.op \in {"join", "submit", "pay"} /\ calls' = calls \ {c} /\ UNCHANGED resetDone
  BY <1>1, <1>4
<1> QED
  BY <1>2, <1>3, <1>4 DEF Receive

(* Whoever is on the way has no stream that could move the page. *)
LEMMA StreamFirst ==
    ASSUME ToldInv, FirstInv,
           LineStep \/ \E r \in Reservations : Worker(r) \/ Connection(r) \/ Deliver(r)
    PROVE  FirstInv'
<1>1. UNCHANGED <<screen, kind, started, resetDone, ready, calls>>
  BY DEF LineStep, Admit, WindowEnds, ConnectLine, Snapshot, Worker, Connection, Deliver,
         sessionVars, mountVars
<1>2. ASSUME phase = "idle", lineStream = "closed"
      PROVE  UNCHANGED <<phase, lineStream>>
  <2>1. CASE LineStep
    BY <1>2, <2>1 DEF LineStep, Admit, WindowEnds, ConnectLine, Snapshot, formVars
  <2>2. ASSUME NEW r \in Reservations, Worker(r) \/ Connection(r)
        PROVE  UNCHANGED <<phase, lineStream>>
    BY <2>2 DEF Worker, Connection
  <2>3. ASSUME NEW r \in Reservations, Deliver(r)
        PROVE  FALSE
    BY <1>2, <2>3 DEF Deliver, ToldInv, StreamInv, StreamIsOwn, WithStatus
  <2> QED
    BY <2>1, <2>2, <2>3
<1> QED
  BY <1>1, <1>2 DEF FirstInv, Away, Unformed, SetupBefore, CrowdBefore, SentOncePerVisit, Mine,
                    Only, AtRest

LEMMA FaultFirst ==
    ASSUME ToldInv, FirstInv, FaultStep
    PROVE  FirstInv'
<1> USE DEF FirstInv, Away, Unformed, SetupBefore, CrowdBefore, SentOncePerVisit, Mine, Only, AtRest
<1>1. CASE SessionLapses
  BY <1>1, FirstKept DEF SessionLapses, Lapse, mountVars, formVars
<1>2. CASE \E r \in Reservations : LoseConnection(r) \/ WorkerFails(r)
  BY <1>2, FirstKept DEF LoseConnection, WorkerFails, sessionVars, mountVars
<1>3. ASSUME NEW c \in calls, LoseAnswer(c)
      PROVE  FirstInv'
  <2> DEFINE S == (calls \ {c}) \cup Unheard({c})
  <2>1. \A d \in Unheard({c}) : ~d.mine
    BY UnheardIsNotMine DEF ToldInv, CallsMade
  <2>2. /\ c.mine /\ UNCHANGED <<screen, kind, started, ready, phase, lineStream>>
        /\ resetDone' = (resetDone \/ c.op = "setup")
    BY <1>3 DEF LoseAnswer, Rejected, sessionVars, formVars
  <2>3. CASE c.op = "crowd"
    <3>1. calls' = Sending("join", NoTicket, S)
      BY <1>3, <2>3 DEF LoseAnswer, Rejected
    <3> HIDE DEF S
    <3>2. PICK n : Sending("join", NoTicket, S) = S \cup {n} /\ n.op = "join" /\ n.mine
      BY SendingAdds
    <3>3. "form" \in started /\ \A d \in S : d.mine => d.op = "reset"
      BY <2>1, <2>2, <2>3 DEF S
    <3> QED
      BY <2>2, <2>3, <3>1, <3>2, <3>3
  <2>4. CASE c.op # "crowd"
    <3>1. calls' = S
      BY <1>3, <2>4 DEF LoseAnswer, Rejected
    <3>2. \A d \in S : d.mine => d \in calls /\ d # c
      BY <2>1
    <3>3. c.op = "setup" => "page" \in started /\ \A d \in S : d.mine => d.op # "setup"
      BY <2>2, <3>2
    <3> QED
      BY ZenonT(40), <2>2, <3>1, <3>2, <3>3
  <2> QED
    BY <2>3, <2>4
<1>4. CASE Restart
  <2>1. /\ UNCHANGED <<screen, kind, started, ready, phase>>
        /\ resetDone' = (resetDone \/ Mine("setup") # {})
        /\ lineStream = "closed" => lineStream' = "closed"
    BY <1>4 DEF Restart, sessionVars
  <2>2. CASE Mine("crowd") # {}
    <3>1. calls' = Sending("join", NoTicket, {})
      BY <1>4, <2>2 DEF Restart
    <3>2. PICK n : calls' = {} \cup {n} /\ n.op = "join" /\ n.mine
      BY <3>1, SendingAdds
    <3>3. "form" \in started /\ screen = "page"
      BY <2>2
    <3> QED
      BY <2>1, <3>2, <3>3
  <2>3. CASE Mine("crowd") = {}
    <3>1. calls' = {}
      BY <1>4, <2>3 DEF Restart
    <3> QED
      BY <2>1, <3>1
  <2> QED
    BY <2>2, <2>3
<1> QED
  BY <1>1, <1>2, <1>3, <1>4 DEF FaultStep

LEMMA FirstStep == ToldInv /\ FirstInv /\ [Next]_vars => FirstInv'
<1> SUFFICES ASSUME ToldInv, FirstInv, [Next]_vars PROVE FirstInv'
  OBVIOUS
<1>1. CASE UNCHANGED vars
  BY <1>1, FirstKept DEF vars, sessionVars, mountVars, formVars
<1>2. CASE Next
  BY <1>2, PageFirst, ButtonFirst, ServeFirst, ReceiveFirst, StreamFirst, FaultFirst DEF Next
<1> QED
  BY <1>1, <1>2

LEMMA FirstAlways == Spec => []FirstInv
BY FirstInit, FirstStep, ToldAlways, PTL DEF Spec

(* A page whose crowd is on its way into the line has not sent its visitor *)
(* there (the effect of the form that joins only after the simulation has  *)
(* answered, once, StrictMode or not).                                     *)
THEOREM CrowdComesFirst == Spec => []CrowdFirst
<1>1. FirstInv => CrowdFirst
  BY DEF FirstInv, CrowdBefore, CrowdFirst, Mine, Only, AtRest
<1> QED
  BY <1>1, FirstAlways, PTL

(* While the reset of a load-test page is on its way the page has sent no  *)
(* visitor for its purge to meet (ready, resetDone in LoadTestPage).       *)
THEOREM ResetComesFirst == Spec => []ResetFirst
<1>1. FirstInv => ResetFirst
  BY DEF FirstInv, SetupBefore, Unformed, ResetFirst, Mine, Only, AtRest
<1> QED
  BY <1>1, FirstAlways, PTL

-----------------------------------------------------------------------------
(* Types, and one booking under way *)

Phases == {"idle", "queued", "admitted", "held", "paying", "confirmed", "cancelled",
           "expired", "error"}
Tickets == Reservations \cup {NoTicket}
LineStreams == {"closed", "connecting", "open", "refused"}
Stages == {"sent", "injecting", "deleting"} \cup Answers

SessionTypes ==
    /\ screen \in {"checking", "gate", "login", "unreachable", "list", "listed",
                   "listError", "page"}
    /\ gate \in BOOLEAN
    /\ login \in {"none", "valid", "gone"}

MountTypes ==
    /\ kind \in {"casual", "loadTest"}
    /\ started \subseteq {"page", "form"}
    /\ resetDone \in BOOLEAN
    /\ ready \in BOOLEAN

FormTypes ==
    /\ phase \in Phases
    /\ ticket \in Tickets
    /\ error \in Answers \cup {"none"}
    /\ pending \in BOOLEAN
    /\ lineStream \in LineStreams

ServerTypes ==
    /\ payment \in [Reservations -> {"none", "PENDING", "PAID", "FAILED"}]
    /\ line \in {"out", "waiting", "admitted"}
    /\ faults \in 0..MaxFaults

(* A press finds a tap that is free, as its requests are finite. *)
CallTypes == calls \subseteq Calls /\ IsFiniteSet(calls)

(* pending is up as long as a booking of the page is under way. *)
OneBooking ==
    /\ \A c, d \in Mine("submit") : c = d
    /\ pending = FALSE => Mine("submit") = {}

PageInv == SessionTypes /\ MountTypes /\ FormTypes /\ ServerTypes /\ CallTypes /\ OneBooking

(* The requests in S of one operation that the page waits for. *)
Waiting(op, S) == {d \in S : d.op = op /\ d.mine}

(* Every set of numbers has a least one. *)
LEMMA LeastExists ==
    ASSUME NEW S, S \subseteq Nat, S # {}
    PROVE  \E m \in S : \A x \in S : m <= x
<1> DEFINE R == {ss \in Nat \X Nat : ss[1] < ss[2]}
<1>1. IsWellFoundedOn(R, Nat)
  BY NatLessThanWellFounded DEF OpToRel
<1> HIDE DEF R
<1>2. PICK m \in S : \A x \in S : <<x, m>> \notin R
  BY <1>1, WFMin
<1>3. ASSUME NEW x \in S PROVE m <= x
  <2>1. m \in Nat /\ x \in Nat
    OBVIOUS
  <2>2. x < m => <<x, m>> \in R
    BY <2>1 DEF R
  <2> QED
    BY <1>2, <2>1, <2>2
<1> QED
  BY <1>3

(* Fewer taken taps than taps leave one free, and the least one is taken. *)
LEMMA TapFree ==
    ASSUME NEW S, S \subseteq Calls, IsFiniteSet(S), NEW op,
           Cardinality(Waiting(op, S)) < Taps
    PROVE  LET taken == {c.tap : c \in Waiting(op, S)} IN
           Min((1..(Cardinality(taken) + 1)) \ taken) \in 1..Taps
<1> DEFINE W == Waiting(op, S)
           taken == {c.tap : c \in W}
           k == Cardinality(taken)
           free == (1..(k + 1)) \ taken
           f == [c \in W |-> c.tap]
<1>1. Taps \in Nat
  BY PageAssumption
<1>2. W \in SUBSET S
  BY DEF Waiting
<1>3. IsFiniteSet(W) /\ Cardinality(W) \in Nat
  BY <1>2, FS_Subset, FS_CardinalityType
<1>4. f \in Surjection(W, taken)
  BY DEF Surjection
<1>5. IsFiniteSet(taken) /\ k <= Cardinality(W)
  <2> HIDE DEF W, taken, f
  <2> QED
    BY <1>3, <1>4, FS_Surjection DEF k
<1>6. k \in Nat /\ k + 1 <= Taps
  BY <1>1, <1>3, <1>5, FS_CardinalityType
<1>7. \E x \in 1..(k + 1) : x \in free
  <2> HIDE DEF taken, W
  <2>1. SUFFICES ASSUME 1..(k + 1) \subseteq taken PROVE FALSE
    OBVIOUS
  <2>2. Cardinality(1..(k + 1)) <= k
    BY <1>5, <2>1, FS_Subset DEF k
  <2>3. Cardinality(1..(k + 1)) = k + 1
    BY <1>6, FS_Interval
  <2> QED
    BY <1>6, <2>2, <2>3
<1> HIDE DEF k, taken
<1>8. free \subseteq 1..(k + 1) /\ free # {} /\ free \subseteq Nat
  <2>1. free # {}
    BY <1>7
  <2>2. \A x \in 1..(k + 1) : x \in Nat
    BY <1>6
  <2> QED
    BY <2>1, <2>2
<1> HIDE DEF free
<1>9. Min(free) \in free
  BY <1>8, LeastExists DEF Min
<1>10. Min(free) \in 1..Taps
  <2> DEFINE m == Min(free)
  <2>1. m \in 1..(k + 1)
    BY <1>8, <1>9
  <2> HIDE DEF m
  <2>2. m \in 1..Taps
    BY <1>1, <1>6, <2>1
  <2> QED
    BY <2>2 DEF m
<1> QED
  BY <1>10 DEF free, k, taken

LEMMA SendingTyped ==
    ASSUME NEW S, S \subseteq Calls, IsFiniteSet(S), NEW op \in Operations, NEW q \in Tickets,
           Cardinality(Waiting(op, S)) < Taps
    PROVE  Sending(op, q, S) \subseteq Calls /\ IsFiniteSet(Sending(op, q, S))
<1> DEFINE taken == {c.tap : c \in Waiting(op, S)}
           t == Min((1..(Cardinality(taken) + 1)) \ taken)
           n == [tap |-> t, op |-> op, r |-> q, mine |-> TRUE, at |-> "sent"]
<1>1. Sending(op, q, S) = S \cup {n}
  BY DEF Sending, Waiting
<1>2. t \in 1..Taps
  BY TapFree
<1>3. n \in Calls
  <2> HIDE DEF t
  <2> QED
    BY <1>2 DEF Calls, Tickets
<1> HIDE DEF n
<1>4. IsFiniteSet(S \cup {n})
  BY FS_AddElement
<1> QED
  BY <1>1, <1>3, <1>4

(* A request at another stage, and one nobody waits for, are requests still. *)
LEMMA StageTyped ==
    ASSUME CallTypes, NEW c \in calls, NEW at \in Stages, Stage(c, at)
    PROVE  CallTypes'
<1>1. c \in Calls /\ [c EXCEPT !.at = at] \in Calls
  BY DEF CallTypes, Calls, Stages
<1>2. PICK T : calls' = (calls \ {c}) \cup T /\ (T = {} \/ T = {[c EXCEPT !.at = at]})
  BY DEF Stage
<1>3. T \subseteq Calls
  BY <1>1, <1>2
<1>4. IsFiniteSet(T)
  BY <1>2, FS_EmptySet, FS_Singleton
<1>5. IsFiniteSet(calls \ {c})
  BY FS_RemoveElement DEF CallTypes
<1>6. IsFiniteSet((calls \ {c}) \cup T)
  BY <1>4, <1>5, FS_Union
<1> QED
  BY <1>2, <1>3, <1>6 DEF CallTypes

LEMMA UnheardTyped ==
    ASSUME NEW S, S \subseteq Calls, IsFiniteSet(S)
    PROVE  Unheard(S) \subseteq Calls /\ IsFiniteSet(Unheard(S))
<1> DEFINE D == {d \in S : d.at \notin Answers}
           f == [c \in D |-> [c EXCEPT !.mine = FALSE]]
<1>1. Unheard(S) = {[c EXCEPT !.mine = FALSE] : c \in D}
  BY DEF Unheard
<1>2. \A c \in D : [c EXCEPT !.mine = FALSE] \in Calls
  BY DEF Calls
<1>3. IsFiniteSet(D)
  BY FS_Subset
<1>4. f \in Surjection(D, Unheard(S))
  BY <1>1 DEF Surjection
<1>5. IsFiniteSet(Unheard(S))
  <2> HIDE DEF D, f
  <2> QED
    BY <1>3, <1>4, FS_Surjection
<1> QED
  BY <1>1, <1>2, <1>5

LEMMA ShowTyped ==
    ASSUME FormTypes, NEW p \in Phases, NEW q \in Tickets, NEW e \in Answers \cup {"none"},
           Show(p, q, e), pending' \in BOOLEAN
    PROVE  FormTypes'
BY DEF FormTypes, Show, LineStreams

(* What a press of op leaves when the page waits for few of its answers. *)
LEMMA PressTyped ==
    ASSUME CallTypes, NEW op \in Operations, NEW q \in Tickets,
           Cardinality(Mine(op)) < Taps, calls' = Sending(op, q, calls)
    PROVE  CallTypes'
<1>1. Mine(op) = Waiting(op, calls)
  BY DEF Mine, Waiting
<1> QED
  BY <1>1, SendingTyped DEF CallTypes

LEMMA NoneIsFew == Cardinality({}) < Taps
BY FS_EmptySet, PageAssumption

(* A request of another operation is no booking. *)
LEMMA BookingStays ==
    ASSUME OneBooking, UNCHANGED pending, \A c \in Mine("submit")' : c \in Mine("submit")
    PROVE  OneBooking'
BY DEF OneBooking

LEMMA PageInit == Init => PageInv
<1> SUFFICES ASSUME Init PROVE PageInv
  OBVIOUS
<1>1. SessionTypes /\ MountTypes
  BY DEF Init, SessionInit, SessionTypes, MountTypes
<1>2. FormTypes
  BY DEF Init, FormTypes, Phases, Tickets, LineStreams
<1>3. ServerTypes
  BY PageAssumption DEF Init, StreamInit, ServerTypes
<1>4. CallTypes /\ OneBooking
  BY FS_EmptySet DEF Init, CallTypes, OneBooking, Mine
<1> QED
  BY <1>1, <1>2, <1>3, <1>4 DEF PageInv

LEMMA LeavesTyped ==
    ASSUME ToldInv, PageInv, NEW to, Leaves(to),
           SessionTypes'
    PROVE  PageInv'
<1>1. FormTypes'
  BY ShowTyped DEF Leaves, PageInv, Phases, Tickets
<1>2. CallTypes'
  BY UnheardTyped DEF Leaves, PageInv, CallTypes
<1>3. \A c \in calls' : ~c.mine
  BY UnheardIsNotMine DEF Leaves, ToldInv, CallsMade
<1>4. OneBooking'
  BY <1>3 DEF OneBooking, Mine
<1>5. MountTypes' /\ ServerTypes'
  BY DEF Leaves, PageInv, MountTypes, ServerTypes, rowVars
<1> QED
  BY <1>1, <1>2, <1>4, <1>5 DEF PageInv

LEMMA PageTyped ==
    ASSUME ToldInv, FirstInv, PageInv, PageStep
    PROVE  PageInv'
<1> USE DEF PageInv
<1>1. CASE Walk
  <2>1. SessionTypes'
    BY <1>1 DEF Walk, SessionStep, SessionTypes, CheckStatus, CheckFails, Refresh, EnterGate,
                LogIn, LogOut, LoadList, LogInAgain, ClearCookie
  <2> QED
    BY <1>1, <2>1 DEF Walk, rowVars, mountVars, formVars, MountTypes, FormTypes, ServerTypes,
                      CallTypes, OneBooking, Mine
<1>2. ASSUME NEW k \in {"casual", "loadTest"}, Open(k) PROVE PageInv'
  BY <1>2 DEF Open, SessionTypes, rowVars, formVars, MountTypes, FormTypes, ServerTypes,
              CallTypes, OneBooking, Mine
<1>3. CASE Leave \/ LogOutOfPage
  <2>1. \E to : Leaves(to)
    BY <1>3 DEF Leave, LogOutOfPage
  <2>2. SessionTypes'
    BY <1>3 DEF Leave, LogOutOfPage, Leaves, ClearCookie, SessionTypes
  <2> QED
    BY <2>1, <2>2, LeavesTyped
<1>4. CASE GetReady
  BY <1>4 DEF GetReady, SessionTypes, sessionVars, rowVars, formVars, MountTypes, FormTypes,
              ServerTypes, CallTypes, OneBooking, Mine
<1>5. ASSUME NEW effect \in {"page", "form"}, NEW op \in {"setup", "crowd", "join"},
             RunEffect(effect, op), Mine(op) = {}
      PROVE  PageInv'
  <2>1. calls' = Sending(op, NoTicket, calls)
    BY <1>5 DEF RunEffect, SentOnce
  <2>2. CallTypes'
    BY <1>5, <2>1, NoneIsFew, PressTyped DEF Operations, Tickets
  <2>3. PICK n : calls' = calls \cup {n} /\ n.op = op /\ n.mine
    BY <2>1, SendingAdds
  <2>4. OneBooking'
    BY <1>5, <2>3, BookingStays DEF Mine, RunEffect, formVars
  <2> QED
    BY <1>5, <2>2, <2>4 DEF RunEffect, SessionTypes, sessionVars, rowVars, formVars, MountTypes,
                            FormTypes, ServerTypes
<1>6. CASE PageEffect
  <2>1. RunEffect("page", "setup") /\ Mine("setup") = {}
    BY <1>6 DEF PageEffect, RunEffect, FirstInv, SetupBefore
  <2> QED
    BY <1>5, <2>1
<1>7. CASE FormEffect
  <2>1. Mine("crowd") = {} /\ Mine("join") = {}
    BY <1>7 DEF FormEffect, RunEffect, FirstInv, Unformed, Only, Mine
  <2>2. RunEffect("form", "crowd") \/ RunEffect("form", "join")
    BY <1>7 DEF FormEffect
  <2> QED
    BY <1>5, <2>1, <2>2
<1> QED
  BY <1>1, <1>2, <1>3, <1>4, <1>6, <1>7 DEF PageStep

LEMMA ButtonTyped ==
    ASSUME ToldInv, FirstInv, PageInv, ButtonStep
    PROVE  PageInv'
<1> USE DEF PageInv
<1>1. CASE StartOver
  <2>1. SessionTypes'
    BY <1>1 DEF StartOver, Leaves, SessionTypes
  <2> QED
    BY <1>1, <2>1, LeavesTyped DEF StartOver
<1>2. ASSUME NEW op \in Operations, NEW q \in Tickets, Press(op, q), Cardinality(Mine(op)) < Taps
      PROVE  /\ CallTypes'
             /\ SessionTypes' /\ MountTypes' /\ ServerTypes'
             /\ pending' \in BOOLEAN => FormTypes'
  <2>1. CallTypes'
    BY <1>2, PressTyped DEF Press
  <2> QED
    BY <1>2, <2>1 DEF Press, SessionTypes, sessionVars, rowVars, mountVars, MountTypes,
                      FormTypes, ServerTypes
<1>3. ASSUME NEW op \in {"join", "pay", "reset"}, NEW q \in Tickets, Press(op, q),
             Cardinality(Mine(op)) < Taps, UNCHANGED pending
      PROVE  PageInv'
  <2>1. PICK n : calls' = calls \cup {n} /\ n.op = op /\ n.mine
    BY <1>3, SendingAdds DEF Press
  <2>2. OneBooking'
    BY <1>3, <2>1, BookingStays DEF Mine
  <2>3. pending' \in BOOLEAN
    BY <1>3 DEF FormTypes
  <2> QED
    BY <1>2, <1>3, <2>2, <2>3 DEF Operations
<1>4. CASE JoinAgain
  BY <1>3, <1>4 DEF JoinAgain, Tickets
<1>5. CASE PressPay
  BY <1>3, <1>5 DEF PressPay, FormTypes
<1>6. CASE PressReset
  BY <1>3, <1>6, NoneIsFew DEF PressReset, Tickets
<1>7. CASE Submit
  <2>1. Mine("submit") = {} /\ Press("submit", NoTicket) /\ pending' = TRUE
    BY <1>7 DEF Submit, NotPending, OneBooking, FormTypes
  <2>2. PICK n : calls' = calls \cup {n} /\ n.op = "submit" /\ n.mine
    BY <2>1, SendingAdds DEF Press
  <2>3. OneBooking'
    BY <2>1, <2>2 DEF OneBooking, Mine
  <2> QED
    BY <1>2, <2>1, <2>3, NoneIsFew DEF Operations, Tickets
<1> QED
  BY <1>1, <1>4, <1>5, <1>6, <1>7 DEF ButtonStep

LEMMA ServeTyped ==
    ASSUME ToldInv, PageInv, NEW c \in calls, Serve(c)
    PROVE  PageInv'
<1> USE DEF PageInv
<1>1. Knows(c) /\ c \in Calls
  BY DEF ToldInv, CallsMade, CallTypes
<1>2. UNCHANGED <<sessionVars, mountVars, formVars, faults>>
  BY DEF Serve
<1>3. CallTypes' /\ \E n : /\ calls' \subseteq (calls \ {c}) \cup {n}
                           /\ n.op = c.op /\ n.mine = c.mine
  <2>1. ASSUME NEW at \in Stages, Stage(c, at)
        PROVE  CallTypes' /\ \E n : /\ calls' \subseteq (calls \ {c}) \cup {n}
                                    /\ n.op = c.op /\ n.mine = c.mine
    BY <1>1, <2>1, StageTyped, StageSame DEF Stage
  <2>2. CASE RefuseCall(c) \/ Crowd(c) \/ Reset(c) \/ Join(c) \/ Pay(c)
    BY <2>1, <2>2 DEF RefuseCall, Crowd, Reset, Join, Pay, Refusal, Stages, Answers, Doors
  <2>3. CASE Book(c)
    <3>1. CASE Stage(c, "forbidden") \/ Stage(c, "conflict")
      BY <2>1, <3>1 DEF Stages, Answers
    <3>2. ASSUME NEW r \in Reservations,
                 calls' = (calls \ {c}) \cup
                             (IF c.mine THEN {[c EXCEPT !.at = "ok", !.r = r]} ELSE {})
          PROVE  CallTypes' /\ \E n : /\ calls' \subseteq (calls \ {c}) \cup {n}
                                      /\ n.op = c.op /\ n.mine = c.mine
      <4> DEFINE n == [c EXCEPT !.at = "ok", !.r = r]
      <4>1. n = [tap |-> c.tap, op |-> c.op, r |-> r, mine |-> c.mine, at |-> "ok"]
        BY <1>1, Booked
      <4>2. n \in Calls /\ n.op = c.op /\ n.mine = c.mine
        BY <1>1, <4>1 DEF Calls, Answers
      <4> HIDE DEF n
      <4>3. PICK T : calls' = (calls \ {c}) \cup T /\ (T = {} \/ T = {n})
        BY <3>2 DEF n
      <4>4. IsFiniteSet(T)
        BY <4>3, FS_EmptySet, FS_Singleton
      <4>5. IsFiniteSet(calls \ {c})
        BY FS_RemoveElement DEF CallTypes
      <4>6. IsFiniteSet((calls \ {c}) \cup T)
        BY <4>4, <4>5, FS_Union
      <4> QED
        BY <4>2, <4>3, <4>6 DEF CallTypes
    <3> QED
      BY <2>3, <3>1, <3>2 DEF Book
  <2> QED
    BY <2>2, <2>3 DEF Serve
<1>4. OneBooking'
  BY <1>2, <1>3 DEF OneBooking, Mine, formVars
<1>5. ServerTypes'
  <2>1. line' \in {"out", "waiting", "admitted"}
    BY DEF Serve, RefuseCall, Crowd, Reset, Join, Book, Pay, ServerTypes
  <2>2. payment' \in [Reservations -> {"none", "PENDING", "PAID", "FAILED"}]
    <3>1. CASE Pay(c)
      <4>1. c.r \in Reservations
        BY <1>1, <3>1 DEF Pay, Knows, Made
      <4> QED
        BY <3>1, <4>1 DEF Pay, ServerTypes
    <3>2. CASE RefuseCall(c) \/ Crowd(c) \/ Reset(c) \/ Join(c) \/ Book(c)
      BY <3>2 DEF RefuseCall, Crowd, Reset, Join, Book, ServerTypes, rowVars
    <3> QED
      BY <3>1, <3>2 DEF Serve
  <2> QED
    BY <1>2, <2>1, <2>2 DEF ServerTypes
<1> QED
  BY <1>2, <1>3, <1>4, <1>5 DEF sessionVars, mountVars, formVars, SessionTypes, MountTypes, FormTypes

LEMMA ReceiveTyped ==
    ASSUME ToldInv, FirstInv, PageInv, NEW c \in calls, Receive(c)
    PROVE  PageInv'
<1> USE DEF PageInv
<1> DEFINE rest == calls \ {c}
<1>1. c \in Calls /\ c.mine /\ c.at \in Answers
  BY DEF Receive, CallTypes
<1>2. rest \subseteq Calls /\ IsFiniteSet(rest)
  BY FS_RemoveElement DEF CallTypes
<1>3. SessionTypes' /\ ServerTypes'
  BY DEF Receive, SessionTypes, ServerTypes, sessionVars, rowVars
<1>4. MountTypes'
  BY DEF Receive, MountTypes
<1>5. ASSUME NEW p \in Phases, NEW q \in Tickets, Answer(c, p, q), pending' \in BOOLEAN
      PROVE  FormTypes'
  BY <1>1, <1>5, ShowTyped DEF Answer, Phases, Tickets
<1>6. FormTypes'
  <2>1. pending \in BOOLEAN /\ c.r \in Tickets
    BY <1>1 DEF FormTypes, Calls, Tickets
  <2>2. CASE Keep /\ UNCHANGED pending
    BY <2>2 DEF Keep, FormTypes
  <2>3. CASE Answer(c, "queued", NoTicket) /\ UNCHANGED pending
    BY <1>5, <2>1, <2>3 DEF Phases, Tickets
  <2>4. CASE Answer(c, "held", c.r) /\ pending' = FALSE
    BY <1>5, <2>1, <2>4 DEF Phases
  <2>5. CASE Answer(c, "paying", c.r) /\ UNCHANGED pending
    BY <1>5, <2>1, <2>5 DEF Phases
  <2> QED
    BY <2>2, <2>3, <2>4, <2>5 DEF Receive
<1>7. CASE c.op = "crowd" /\ calls' = Sending("join", NoTicket, rest) /\ UNCHANGED pending
  <2>1. Waiting("join", rest) = {}
    BY <1>1, <1>7 DEF Waiting, FirstInv, CrowdBefore, Mine, Only
  <2>2. CallTypes'
    <3> HIDE DEF rest
    <3> QED
      BY <1>2, <1>7, <2>1, NoneIsFew, SendingTyped DEF CallTypes, Operations, Tickets
  <2>3. PICK n : calls' = rest \cup {n} /\ n.op = "join" /\ n.mine
    BY <1>7, SendingAdds
  <2>4. OneBooking'
    BY <1>7, <2>3, BookingStays DEF Mine
  <2> QED
    BY <1>3, <1>4, <1>6, <2>2, <2>4
<1>8. CASE c.op \in {"setup", "reset", "join", "pay"} /\ calls' = rest /\ UNCHANGED pending
  <2>1. OneBooking'
    BY <1>8, BookingStays DEF Mine
  <2> QED
    BY <1>2, <1>3, <1>4, <1>6, <1>8, <2>1 DEF CallTypes
<1>9. CASE c.op = "submit" /\ calls' = rest
  <2>1. Mine("submit")' = {}
    BY <1>1, <1>9 DEF OneBooking, Mine
  <2>2. OneBooking'
    BY <2>1 DEF OneBooking
  <2> QED
    BY <1>2, <1>3, <1>4, <1>6, <1>9, <2>2 DEF CallTypes
<1> QED
  BY <1>7, <1>8, <1>9 DEF Receive

(* The line, the workers and the streams send no request. *)
LEMMA StreamTyped ==
    ASSUME ToldInv, PageInv,
           LineStep \/ \E r \in Reservations : Worker(r) \/ Connection(r) \/ Deliver(r)
    PROVE  PageInv'
<1> USE DEF PageInv
<1>1. UNCHANGED <<sessionVars, mountVars, pending, calls, faults>>
  BY DEF LineStep, Admit, WindowEnds, ConnectLine, Snapshot, Worker, Connection, Deliver, formVars
<1>2. SessionTypes' /\ MountTypes' /\ CallTypes' /\ OneBooking'
  BY <1>1 DEF SessionTypes, MountTypes, CallTypes, OneBooking, Mine, sessionVars, mountVars
<1>3. pending' \in BOOLEAN /\ faults' = faults
  BY <1>1 DEF FormTypes
<1>4. CASE LineStep
  <2>1. ServerTypes'
    BY <1>3, <1>4 DEF LineStep, Admit, WindowEnds, ConnectLine, Snapshot, ServerTypes, rowVars
  <2>2. CASE Admit \/ WindowEnds \/ ConnectLine
    <3>1. /\ UNCHANGED <<phase, ticket, error, pending>>
          /\ lineStream' = lineStream \/ lineStream' \in {"open", "refused"}
      BY <2>2 DEF Admit, WindowEnds, ConnectLine, formVars
    <3>2. FormTypes'
      BY <3>1 DEF FormTypes, LineStreams
    <3> QED
      BY <1>2, <2>1, <3>2
  <2>3. CASE Snapshot
    <3>1. \E p \in Phases : Show(p, NoTicket, "none")
      BY <2>3 DEF Snapshot, Phases
    <3> QED
      BY <1>2, <1>3, <2>1, <3>1, ShowTyped DEF Tickets
  <2> QED
    BY <1>4, <2>2, <2>3 DEF LineStep
<1>5. ASSUME NEW r \in Reservations, Worker(r) \/ Connection(r)
      PROVE  PageInv'
  <2>1. FormTypes'
    BY <1>3, <1>5 DEF Worker, Connection, FormTypes
  <2>2. ServerTypes'
    <3>1. line' = line
      BY <1>5 DEF Worker, Connection
    <3>2. payment' \in [Reservations -> {"none", "PENDING", "PAID", "FAILED"}]
      BY <1>5 DEF Worker, Connection, Publish, Charge, Expire, Subscribe, Refuse, ReadRow,
                  ReadAnswered, rowVars, ServerTypes
    <3> QED
      BY <1>3, <3>1, <3>2 DEF ServerTypes
  <2> QED
    BY <1>2, <2>1, <2>2
<1>6. ASSUME NEW r \in Reservations, Deliver(r)
      PROVE  PageInv'
  <2>1. ServerTypes'
    BY <1>3, <1>6 DEF Deliver, rowVars, ServerTypes
  <2>2. (\E p \in Phases : Show(p, r, "none")) \/ UNCHANGED <<phase, ticket, error, lineStream>>
    BY <1>6 DEF Deliver, Phases
  <2>3. FormTypes'
    BY <1>3, <2>2, ShowTyped DEF FormTypes, Tickets
  <2> QED
    BY <1>2, <2>1, <2>3
<1> QED
  BY <1>4, <1>5, <1>6

LEMMA FaultTyped ==
    ASSUME ToldInv, FirstInv, PageInv, FaultStep
    PROVE  PageInv'
<1> USE DEF PageInv
<1>1. faults' \in 0..MaxFaults
  <2>1. \E f : Fault(f)
    BY DEF FaultStep, SessionLapses, LoseAnswer, LoseConnection, WorkerFails, Restart
  <2>2. faults \in 0..MaxFaults /\ faults < MaxFaults /\ faults' = faults + 1
    BY <2>1 DEF Fault, ServerTypes
  <2>3. MaxFaults \in Nat
    BY PageAssumption
  <2> QED
    BY <2>2, <2>3
<1>2. CASE SessionLapses
  <2>1. SessionTypes'
    BY <1>2 DEF SessionLapses, Lapse, SessionTypes
  <2>2. UNCHANGED <<payment, mountVars, phase, ticket, error, pending, lineStream, line, calls>>
    BY <1>2 DEF SessionLapses, rowVars, formVars
  <2> QED
    BY <1>1, <2>1, <2>2 DEF mountVars, MountTypes, FormTypes, ServerTypes, CallTypes, OneBooking,
                            Mine
<1>3. CASE \E r \in Reservations : LoseConnection(r) \/ WorkerFails(r)
  <2>1. UNCHANGED <<sessionVars, mountVars, phase, ticket, error, pending, lineStream, payment,
                    line, calls>>
    BY <1>3 DEF LoseConnection, WorkerFails, Disconnect, PublishFails, rowVars
  <2> QED
    BY <1>1, <2>1 DEF SessionTypes, sessionVars, mountVars, MountTypes, FormTypes, ServerTypes,
                      CallTypes, OneBooking, Mine
<1>4. ASSUME NEW c \in calls, LoseAnswer(c)
      PROVE  PageInv'
  <2> DEFINE S == (calls \ {c}) \cup Unheard({c})
  <2>1. SessionTypes' /\ MountTypes' /\ FormTypes' /\ ServerTypes'
    BY <1>1, <1>4 DEF LoseAnswer, Rejected, SessionTypes, sessionVars, rowVars, formVars,
                      MountTypes, FormTypes, ServerTypes
  <2>2. \A d \in Unheard({c}) : ~d.mine
    BY UnheardIsNotMine DEF ToldInv, CallsMade
  <2>3. Unheard({c}) \subseteq Calls /\ IsFiniteSet(Unheard({c}))
    BY FS_Singleton, UnheardTyped DEF CallTypes
  <2>4. S \subseteq Calls /\ IsFiniteSet(S)
    BY <2>3, FS_RemoveElement, FS_Union DEF CallTypes
  <2>5. CASE c.op = "crowd"
    <3>1. calls' = Sending("join", NoTicket, S)
      BY <1>4, <2>5 DEF LoseAnswer, Rejected
    <3>2. Waiting("join", S) = {}
      BY <1>4, <2>2, <2>5 DEF Waiting, LoseAnswer, FirstInv, CrowdBefore, Mine, Only
    <3> HIDE DEF S
    <3>3. CallTypes'
      BY <2>4, <3>1, <3>2, NoneIsFew, SendingTyped DEF CallTypes, Operations, Tickets
    <3>4. PICK n : calls' = S \cup {n} /\ n.op = "join" /\ n.mine
      BY <3>1, SendingAdds
    <3>5. OneBooking'
      BY <1>4, <2>2, <3>4, BookingStays DEF Mine, S, LoseAnswer, formVars
    <3> QED
      BY <2>1, <3>3, <3>5
  <2>6. CASE c.op # "crowd"
    <3>1. calls' = S
      BY <1>4, <2>6 DEF LoseAnswer, Rejected
    <3>2. OneBooking'
      BY <1>4, <2>2, <3>1, BookingStays DEF Mine, LoseAnswer, formVars
    <3> QED
      BY <2>1, <2>4, <3>1, <3>2 DEF CallTypes
  <2> QED
    BY <2>5, <2>6
<1>5. CASE Restart
  <2>1. SessionTypes' /\ ServerTypes'
    BY <1>1, <1>5 DEF Restart, SessionTypes, sessionVars, ServerTypes
  <2>2. MountTypes'
    BY <1>5 DEF Restart, MountTypes
  <2>3. FormTypes'
    BY <1>5 DEF Restart, FormTypes, LineStreams
  <2>4. CallTypes' /\ OneBooking'
    <3>1. CASE calls' = {}
      BY <3>1, FS_EmptySet DEF CallTypes, OneBooking, Mine
    <3>2. CASE calls' = Sending("join", NoTicket, {})
      <4>1. Waiting("join", {}) = {}
        BY DEF Waiting
      <4>2. CallTypes'
        BY <3>2, <4>1, NoneIsFew, FS_EmptySet, SendingTyped DEF CallTypes, Operations, Tickets
      <4>3. PICK n : calls' = {} \cup {n} /\ n.op = "join" /\ n.mine
        BY <3>2, SendingAdds
      <4>4. Mine("submit")' = {}
        BY <4>3 DEF Mine
      <4> QED
        BY <4>2, <4>4 DEF OneBooking
    <3> QED
      BY <1>5, <3>1, <3>2 DEF Restart
  <2> QED
    BY <2>1, <2>2, <2>3, <2>4
<1> QED
  BY <1>2, <1>3, <1>4, <1>5 DEF FaultStep

LEMMA PageNext == ToldInv /\ FirstInv /\ PageInv /\ [Next]_vars => PageInv'
<1> SUFFICES ASSUME ToldInv, FirstInv, PageInv, [Next]_vars PROVE PageInv'
  OBVIOUS
<1>1. CASE UNCHANGED vars
  BY <1>1 DEF PageInv, vars, sessionVars, rowVars, mountVars, formVars, SessionTypes, MountTypes,
              FormTypes, ServerTypes, CallTypes, OneBooking, Mine
<1>2. CASE Next
  BY <1>2, PageTyped, ButtonTyped, ServeTyped, ReceiveTyped, StreamTyped, FaultTyped DEF Next
<1> QED
  BY <1>1, <1>2

(* Every variable of the page keeps its type, and it never has two         *)
(* bookings under way, however often the button is pressed and whatever    *)
(* answers are lost (pending, up from the click to the answer).            *)
THEOREM PageTypes == Spec => []TypeOK
<1>1. ASSUME ToldInv, PageInv PROVE TypeOK
  <2>1. Cardinality(Mine("submit")) <= 1
    <3>1. CASE Mine("submit") = {}
      BY <3>1, FS_EmptySet
    <3>2. ASSUME NEW c \in Mine("submit") PROVE Cardinality(Mine("submit")) <= 1
      <4>1. Mine("submit") = {c}
        BY <1>1, <3>2 DEF PageInv, OneBooking
      <4>2. Cardinality({c}) = 1
        BY FS_Singleton
      <4> QED
        BY <4>1, <4>2
    <3> QED
      BY <3>1, <3>2
  <2>2. {resetDone, ready, pending} \subseteq BOOLEAN
    BY <1>1 DEF PageInv, MountTypes, FormTypes
  <2> QED
    BY <1>1, <2>1, <2>2 DEF PageInv, ToldInv, StreamInv, RowTypes, SessionTypes, MountTypes,
                            FormTypes, ServerTypes, CallTypes, Phases, Tickets, LineStreams, TypeOK
<1> QED
  BY <1>1, PageInit, PageNext, ToldAlways, FirstAlways, PTL DEF Spec
=============================================================================
