------------------------------ MODULE BookingPage ------------------------------
(***************************************************************************)
(* One visitor's booking page: BookingForm on the page of a casual event   *)
(* or on the load-test page. Its requests are answered in any order, some  *)
(* of them after the page has gone on or is left; two streams, of the line *)
(* and of a reservation, are opened and closed as its phase changes; every *)
(* request passes the doors of Session.                                    *)
(*                                                                         *)
(* The server's side is as coarse as the page can tell: a handler is one   *)
(* step, except the long ones (the crowd, the reset) that others overtake. *)
(* The line is AdmissionQueue's, the crowd and the reset are Simulation's. *)
(***************************************************************************)
EXTENDS Session, StatusStream, FiniteSets, FiniteSetsExt

CONSTANTS
    NoTicket,   \* no reservation
    MaxCalls,   \* bound on the requests under way
    MaxVisits,  \* bound on the openings of the page
    Taps,       \* how often a button is pressed before its answer comes
    MaxFaults,  \* bound on the faults of a run
    Faults      \* what may go wrong

FaultKinds == {"lapse", "lost", "disconnect", "restart", "publishFails"}

ASSUME PageAssumption ==
    /\ {MaxCalls, MaxVisits, Taps} \subseteq Nat \ {0}
    /\ MaxFaults \in Nat
    /\ NoTicket \notin Reservations
    /\ Faults \subseteq FaultKinds

VARIABLES
    visits,     \* history: openings of the page
    kind,       \* "casual" or "loadTest": which page holds the form
    started,    \* which effects of the mount have run
    resetDone,  \* the load-test page: its own reset has been answered
    ready,      \* the load-test page: the form is shown
    phase,      \* FlowState.phase
    ticket,     \* the reservation its card is about
    error,      \* which message an error shows
    pending,    \* a booking has been sent
    lineStream, \* the connection of the visitor's queue stream
    line,       \* the visitor in the line: "out", "waiting" or "admitted"
    calls,      \* requests under way
    faults      \* history: faults so far

formVars  == <<phase, ticket, error, pending, lineStream, streamVars>>
mountVars == <<visits, kind, started, resetDone, ready>>
vars == <<sessionVars, rowVars, mountVars, formVars, line, calls, faults>>

(* A request: mine as long as the page that sent it is there, at is "sent", *)
(* a stage of its handler, or the answer.                                   *)
Operations == {"crowd", "setup", "join", "submit", "pay", "reset"}
Doors == {"gate", "login", "account"}
Answers == Doors \cup {"ok", "cooling", "forbidden", "conflict", "notFound"}
Calls == [tap : 1..Taps, op : Operations, r : Reservations \cup {NoTicket},
          mine : BOOLEAN, at : {"sent", "injecting", "deleting"} \cup Answers]

Mine(op) == {c \in calls : c.mine /\ c.op = op}

(* The requests in S, and a new one. *)
Sending(op, r, S) ==
    LET taken == {c.tap : c \in {d \in S : d.op = op /\ d.mine}} IN
    S \cup {[tap |-> Min((1..(Cardinality(taken) + 1)) \ taken),
             op |-> op, r |-> r, mine |-> TRUE, at |-> "sent"]}
Room(S) == Cardinality(S) < MaxCalls

Init ==
    /\ SessionInit
    /\ StreamInit
    /\ visits = 0
    /\ kind = "casual"
    /\ started = {}
    /\ resetDone = FALSE /\ ready = FALSE
    /\ phase = "idle" /\ ticket = NoTicket /\ error = "none" /\ pending = FALSE
    /\ lineStream = "closed"
    /\ line = "out"
    /\ calls = {}
    /\ faults = 0

-----------------------------------------------------------------------------
(* setState, and what the effects make of it: the queue stream is open     *)
(* while the visitor waits or is admitted, the status stream while his     *)
(* reservation is held or being paid; a change of either closes the old.   *)

WithLine == {"queued", "admitted"}
WithStatus == {"held", "paying"}

(* Mistake: the effect returns no clean-up. *)
LeftOpen(r) == conn[r]
Closed(r) == "closed"

Show(p, r, e) ==
    /\ phase' = p
    /\ ticket' = r
    /\ error' = e
    /\ lineStream' = IF p \notin WithLine THEN "closed"
                     ELSE IF phase \in WithLine THEN lineStream ELSE "connecting"
    /\ LET same == phase \in WithStatus /\ ticket = r IN
       conn' = [x \in Reservations |->
                   IF p \in WithStatus /\ x = r
                   THEN IF same THEN conn[x] ELSE "connecting"
                   ELSE Closed(x)]
    /\ wire' = [x \in Reservations |-> IF conn'[x] = "delivering" THEN wire[x] ELSE "none"]

-----------------------------------------------------------------------------
(* The page is opened and left *)

(* A listed event is selected, or the link to the load test. *)
Open(k) ==
    /\ screen = "listed"
    /\ visits < MaxVisits
    /\ visits' = visits + 1
    /\ screen' = "page"
    /\ kind' = k
    /\ UNCHANGED <<gate, login, rowVars, started, resetDone, ready, formVars, line,
                   calls, faults>>

Unheard(S) == {[c EXCEPT !.mine = FALSE] : c \in {d \in S : d.at \notin Answers}}

(* Its state and its streams are gone, answers to it are dropped. *)
Leaves(to) ==
    /\ screen = "page"
    /\ screen' = to
    /\ Show("idle", NoTicket, "none")
    /\ calls' = Unheard(calls)
    /\ started' = {}
    /\ resetDone' = FALSE /\ ready' = FALSE /\ pending' = FALSE
    /\ UNCHANGED <<gate, rowVars, visits, kind, line, faults>>

Leave == Leaves("list") /\ UNCHANGED login
LogOutOfPage == Leaves("checking") /\ ClearCookie

FormMounted == screen = "page" /\ (kind = "casual" \/ ready)

(* StrictMode runs an effect twice, the ref lets it send once. (Mistake:   *)
(* there is no ref.)                                                       *)
SentTwice(op) == Sending(op, NoTicket, Sending(op, NoTicket, calls))
SentOnce(op) == Sending(op, NoTicket, calls)

RunEffect(effect, op) ==
    /\ effect \notin started
    /\ started' = started \cup {effect}
    /\ Room(calls)
    /\ calls' = SentOnce(op)
    /\ UNCHANGED <<sessionVars, rowVars, visits, kind, resetDone, ready, formVars, line,
                   faults>>

(* The load-test page first resets its event. *)
PageEffect ==
    /\ screen = "page" /\ kind = "loadTest"
    /\ RunEffect("page", "setup")

(* Mistake: whoever has waited long enough may go, the reset answered or not. *)
GetReadyAnyway ==
    /\ screen = "page" /\ kind = "loadTest"
    /\ ~ready
    /\ ready' = TRUE
    /\ UNCHANGED <<sessionVars, rowVars, visits, kind, started, resetDone, formVars, line, calls, faults>>

(* The threshold of the statistics, which may be those of before the       *)
(* reset, or the time-out.                                                 *)
GetReady ==
    /\ screen = "page" /\ kind = "loadTest"
    /\ resetDone
    /\ ~ready
    /\ ready' = TRUE
    /\ UNCHANGED <<sessionVars, rowVars, visits, kind, started, resetDone, formVars, line, calls, faults>>

(* The crowd first, then the visitor; the load test has its own crowd. *)
FormEffect ==
    /\ FormMounted
    /\ RunEffect("form", IF kind = "casual" THEN "crowd" ELSE "join")

-----------------------------------------------------------------------------
(* Buttons *)

Press(op, r) ==
    /\ Room(calls)
    /\ calls' = Sending(op, r, calls)
    /\ UNCHANGED <<sessionVars, rowVars, mountVars, phase, ticket, error, lineStream,
                   streamVars, line, faults>>

(* The messages of the gate and of a deleted user are known to call for a  *)
(* new start.                                                              *)
NeedsReauth(e) == e \in {"gate", "account"}

JoinAgain ==
    /\ phase \in {"confirmed", "cancelled", "expired"} \/ (phase = "error" /\ ~NeedsReauth(error))
    /\ Cardinality(Mine("join")) < Taps
    /\ Press("join", NoTicket)
    /\ UNCHANGED pending

StartOver ==
    /\ phase = "error"
    /\ NeedsReauth(error)
    /\ Leaves("checking")
    /\ UNCHANGED login

(* Mistake: the button stays enabled. *)
Enabled == TRUE
NotPending == ~pending

Submit ==
    /\ phase = "admitted"
    /\ NotPending
    /\ Press("submit", NoTicket)
    /\ pending' = TRUE

PressPay ==
    /\ phase = "held"
    /\ Cardinality(Mine("pay")) < Taps
    /\ Press("pay", ticket)
    /\ UNCHANGED pending

PressReset ==
    /\ screen = "page"
    /\ Mine("reset") = {}
    /\ Press("reset", NoTicket)
    /\ UNCHANGED pending

-----------------------------------------------------------------------------
(* The server serves a request *)

(* An answer nobody waits for is dropped. *)
Stage(c, at) ==
    calls' = (calls \ {c}) \cup
             (IF at \in Answers /\ ~c.mine THEN {} ELSE {[c EXCEPT !.at = at]})

RefuseCall(c) ==
    /\ c.at = "sent"
    /\ Refusal # "none"
    /\ Stage(c, Refusal)
    /\ UNCHANGED <<rowVars, line>>

(* An automatic simulation: within the cooldown of another one, which may  *)
(* be of another tab, it is refused; otherwise it is answered when its     *)
(* crowd is in the line.                                                   *)
Crowd(c) ==
    /\ c.op = "crowd"
    /\ \/ c.at = "sent" /\ Refusal = "none" /\ Stage(c, "cooling")
       \/ c.at = "sent" /\ Refusal = "none" /\ Stage(c, "injecting")
       \/ c.at = "injecting" /\ Stage(c, "ok")
    /\ UNCHANGED <<rowVars, line>>

(* A reset deletes the rows of the event, and at its end purges the line. *)
Reset(c) ==
    /\ c.op \in {"setup", "reset"}
    /\ \/ /\ c.at = "sent" /\ Refusal = "none"
          /\ status' = [r \in Reservations |-> IF status[r] = "free" THEN "free" ELSE "gone"]
          /\ payment' = [r \in Reservations |-> "none"]
          /\ Stage(c, "deleting")
          /\ UNCHANGED line
       \/ /\ c.at = "deleting"
          /\ line' = IF line = "waiting" THEN "out" ELSE line
          /\ Stage(c, "ok")
          /\ UNCHANGED <<status, payment>>
    /\ UNCHANGED <<due, unpublished>>

(* A permission from before is dropped. *)
Join(c) ==
    /\ c.op = "join" /\ c.at = "sent" /\ Refusal = "none"
    /\ line' = "waiting"
    /\ Stage(c, "ok")
    /\ UNCHANGED <<rowVars>>

(* assertAdmitted, then createHeld: sold out, or the next id. *)
Book(c) ==
    /\ c.op = "submit" /\ c.at = "sent" /\ Refusal = "none"
    /\ \/ /\ line # "admitted" /\ Stage(c, "forbidden") /\ UNCHANGED status
       \/ /\ line = "admitted" /\ Stage(c, "conflict") /\ UNCHANGED status
       \/ /\ line = "admitted"
          /\ \E r \in Reservations : status[r] = "free"
          /\ LET r == CHOOSE x \in Reservations : status[x] = "free" IN
             /\ status' = [status EXCEPT ![r] = "HELD"]
             /\ calls' = (calls \ {c}) \cup
                         (IF c.mine THEN {[c EXCEPT !.at = "ok", !.r = r]} ELSE {})
    /\ UNCHANGED <<payment, due, unpublished, line>>

(* A payment of a HELD row is recorded once, and found when it is asked    *)
(* for again; without a HELD row there is nothing to pay.                  *)
Pay(c) ==
    /\ c.op = "pay" /\ c.at = "sent" /\ Refusal = "none"
    /\ IF status[c.r] = "HELD"
       THEN /\ payment' = [payment EXCEPT ![c.r] = IF @ = "none" THEN "PENDING" ELSE @]
            /\ Stage(c, "ok")
       ELSE /\ Stage(c, IF status[c.r] = "gone" THEN "notFound" ELSE "conflict")
            /\ UNCHANGED payment
    /\ UNCHANGED <<status, due, unpublished, line>>

Serve(c) ==
    /\ RefuseCall(c) \/ Crowd(c) \/ Reset(c) \/ Join(c) \/ Book(c) \/ Pay(c)
    /\ UNCHANGED <<sessionVars, mountVars, formVars, faults>>

-----------------------------------------------------------------------------
(* The page gets an answer *)

Keep == UNCHANGED <<phase, ticket, error, lineStream, streamVars>>

(* Join, submit and pay take ok as their next phase, and anything     *)
(* else as an error.                                                       *)
Answer(c, p, r) == IF c.at = "ok" THEN Show(p, r, "none") ELSE Show("error", NoTicket, c.at)

Receive(c) ==
    /\ c.mine /\ c.at \in Answers
    /\ LET rest == calls \ {c} IN
       \/ /\ c.op = "crowd"
          /\ calls' = Sending("join", NoTicket, rest)
          /\ Keep /\ UNCHANGED <<resetDone, pending>>
       \/ /\ c.op \in {"setup", "reset"}
          /\ calls' = rest
          /\ resetDone' = (resetDone \/ c.op = "setup")
          /\ Keep /\ UNCHANGED pending
       \/ /\ c.op = "join"
          /\ calls' = rest
          /\ Answer(c, "queued", NoTicket)
          /\ UNCHANGED <<resetDone, pending>>
       \/ /\ c.op = "submit"
          /\ calls' = rest
          /\ Answer(c, "held", c.r)
          /\ pending' = FALSE
          /\ UNCHANGED resetDone
       \/ /\ c.op = "pay"
          /\ calls' = rest
          /\ Answer(c, "paying", c.r)
          /\ UNCHANGED <<resetDone, pending>>
    /\ UNCHANGED <<sessionVars, rowVars, visits, kind, started, ready, line, faults>>

-----------------------------------------------------------------------------
(* The line, and what its stream tells *)

Admit ==
    /\ line = "waiting"
    /\ line' = "admitted"
    /\ UNCHANGED <<sessionVars, rowVars, mountVars, formVars, calls, faults>>

WindowEnds ==
    /\ line = "admitted"
    /\ line' = "out"
    /\ UNCHANGED <<sessionVars, rowVars, mountVars, formVars, calls, faults>>

ConnectLine ==
    /\ lineStream = "connecting"
    /\ lineStream' = IF Refusal = "none" THEN "open" ELSE "refused"
    /\ UNCHANGED <<sessionVars, rowVars, mountVars, phase, ticket, error, pending,
                   streamVars, line, calls, faults>>

(* Admitted, a rank, or neither: the visitor's time is over. *)
Snapshot ==
    /\ lineStream = "open"
    /\ \/ line = "admitted" /\ phase = "queued" /\ Show("admitted", NoTicket, "none")
       \/ line = "waiting" /\ phase = "admitted" /\ Show("queued", NoTicket, "none")
       \/ line = "out" /\ Show("expired", NoTicket, "none")
    /\ UNCHANGED <<sessionVars, rowVars, mountVars, pending, line, calls, faults>>

-----------------------------------------------------------------------------
(* The reservation, and what its stream tells *)

Worker(r) ==
    /\ Publish(r) \/ (\E accepted \in BOOLEAN : Charge(r, accepted)) \/ Expire(r)
    /\ UNCHANGED <<sessionVars, mountVars, phase, ticket, error, pending, lineStream,
                   line, calls, faults>>

Connection(r) ==
    /\ \/ Refusal = "none" /\ Subscribe(r)
       \/ (Refusal # "none" \/ status[r] = "gone") /\ Refuse(r)
       \/ ReadRow(r) \/ ReadAnswered(r)
    /\ UNCHANGED <<sessionVars, mountVars, phase, ticket, error, pending, lineStream,
                   line, calls, faults>>

(* onmessage: the closure's card with its outcome; EXPIRED only closes.    *)
Deliver(r) ==
    /\ conn[r] = "delivering"
    /\ CASE wire[r] = "CONFIRMED" -> Show("confirmed", r, "none")
         [] wire[r] = "CANCELLED" -> Show("cancelled", r, "none")
         [] OTHER -> /\ conn' = [conn EXCEPT ![r] = "closed"]
                     /\ wire' = [wire EXCEPT ![r] = "none"]
                     /\ UNCHANGED <<phase, ticket, error, lineStream>>
    /\ UNCHANGED <<sessionVars, rowVars, mountVars, pending, line, calls, faults>>

-----------------------------------------------------------------------------
(* Faults *)

Fault(f) == f \in Faults /\ faults < MaxFaults /\ faults' = faults + 1

SessionLapses ==
    /\ Fault("lapse")
    /\ Lapse
    /\ UNCHANGED <<rowVars, mountVars, formVars, line, calls>>

(* fetch rejects, though the server goes on: only the crowd and the set-up *)
(* are caught, and a booking stays pending.                                *)
Rejected(c, S) ==
    /\ calls' = IF c.op = "crowd" THEN Sending("join", NoTicket, S) ELSE S
    /\ resetDone' = (resetDone \/ c.op = "setup")

LoseAnswer(c) ==
    /\ Fault("lost")
    /\ c.mine
    /\ Room(calls)
    /\ Rejected(c, (calls \ {c}) \cup Unheard({c}))
    /\ UNCHANGED <<sessionVars, rowVars, visits, kind, started, ready, formVars, line>>

LoseConnection(r) ==
    /\ Fault("disconnect")
    /\ Disconnect(r)
    /\ UNCHANGED <<sessionVars, mountVars, phase, ticket, error, pending, lineStream,
                   line, calls>>

WorkerFails(r) ==
    /\ Fault("publishFails")
    /\ PublishFails(r)
    /\ UNCHANGED <<sessionVars, mountVars, phase, ticket, error, pending, lineStream,
                   line, calls>>

(* The API restarts: what it was about to publish and the handlers it was  *)
(* in are lost; the page's requests reject. A stream connects again,       *)
(* unless the proxy answers before the API is back.                        *)
Restart ==
    /\ Fault("restart")
    /\ calls' = IF Mine("crowd") # {} THEN Sending("join", NoTicket, {}) ELSE {}
    /\ resetDone' = (resetDone \/ Mine("setup") # {})
    /\ due' = [r \in Reservations |-> "none"]
    /\ \E after \in {"connecting", "refused"} :
          LET Again(stage) == IF stage \in {"closed", "refused"} THEN stage ELSE after IN
          /\ conn' = [r \in Reservations |-> Again(conn[r])]
          /\ lineStream' = Again(lineStream)
    /\ wire' = [r \in Reservations |-> "none"]
    /\ UNCHANGED <<sessionVars, visits, kind, started, ready, phase, ticket, error, pending, status,
                   payment, unpublished, line>>

-----------------------------------------------------------------------------

Walk ==
    /\ SessionStep
    /\ UNCHANGED <<rowVars, mountVars, formVars, line, calls, faults>>

PageStep ==
    \/ Walk \/ (\E k \in {"casual", "loadTest"} : Open(k)) \/ Leave \/ LogOutOfPage
    \/ PageEffect \/ GetReady \/ FormEffect

ButtonStep == JoinAgain \/ StartOver \/ Submit \/ PressPay \/ PressReset

LineStep == Admit \/ WindowEnds \/ ConnectLine \/ Snapshot

FaultStep ==
    \/ SessionLapses
    \/ \E c \in calls : LoseAnswer(c)
    \/ \E r \in Reservations : LoseConnection(r) \/ WorkerFails(r)
    \/ Restart

Next ==
    \/ PageStep \/ ButtonStep \/ LineStep \/ FaultStep
    \/ \E c \in calls : Serve(c) \/ Receive(c)
    \/ \E r \in Reservations : Worker(r) \/ Connection(r) \/ Deliver(r)

Spec == Init /\ [][Next]_vars

(* The workers tick on, and neither the server nor the browser forgets an  *)
(* open connection. Nothing is assumed of the visitor.                     *)
FairSpec ==
    /\ Spec
    /\ \A r \in Reservations :
          /\ WF_vars(\E accepted \in BOOLEAN : Charge(r, accepted) /\ Worker(r))
          /\ WF_vars(Publish(r) /\ Worker(r))
          /\ WF_vars(Connection(r))
          /\ WF_vars(Deliver(r))

-----------------------------------------------------------------------------
(* What must hold *)

Statuses == Final \cup {"HELD"}

(* Types; and no page ever has two bookings under way. *)
TypeOK ==
    /\ screen \in {"checking", "gate", "login", "unreachable", "list", "listed",
                   "listError", "page"}
    /\ gate \in BOOLEAN
    /\ login \in {"none", "valid", "gone"}
    /\ kind \in {"casual", "loadTest"}
    /\ started \subseteq {"page", "form"}
    /\ {resetDone, ready, pending} \subseteq BOOLEAN
    /\ status \in [Reservations -> Statuses \cup {"free", "gone"}]
    /\ payment \in [Reservations -> {"none", "PENDING", "PAID", "FAILED"}]
    /\ due \in [Reservations -> {"none", "CONFIRMED", "CANCELLED"}]
    /\ unpublished \in [Reservations -> BOOLEAN]
    /\ conn \in [Reservations -> Hears \cup {"closed", "connecting", "delivering", "refused"}]
    /\ wire \in [Reservations -> Final \cup {"none"}]
    /\ phase \in {"idle", "queued", "admitted", "held", "paying", "confirmed", "cancelled",
                  "expired", "error"}
    /\ ticket \in Reservations \cup {NoTicket}
    /\ error \in Answers \cup {"none"}
    /\ lineStream \in {"closed", "connecting", "open", "refused"}
    /\ line \in {"out", "waiting", "admitted"}
    /\ calls \subseteq Calls
    /\ faults \in 0..MaxFaults
    /\ Cardinality(Mine("submit")) <= 1

(* A stream whose read found the row still HELD is told the outcome:       *)
(* whatever settles the row later publishes, and the stream hears it. Only *)
(* a sweep, a reset and a failing worker say nothing.                      *)
NothingMissed ==
    \A r \in Reservations :
        conn[r] \in {"read", "listening"} =>
            \/ status[r] \in {"HELD", "EXPIRED", "gone"}
            \/ due[r] = status[r]
            \/ unpublished[r]

(* An outcome is shown of the very reservation the page holds, and it is   *)
(* the outcome the row has (or had, before a reset deleted it).            *)
OutcomeIsOwn ==
    [][/\ phase' \in {"confirmed", "cancelled"}
       /\ phase' # phase
       => /\ phase \in WithStatus
          /\ ticket' = ticket
          /\ status[ticket] \in {IF phase' = "confirmed" THEN "CONFIRMED" ELSE "CANCELLED",
                                 "gone"}]_vars

(* The visitor is not sent into the line by a page whose crowd is still on *)
(* its way into it.                                                        *)
CrowdFirst ==
    (\E c \in Mine("crowd") : c.at \in {"sent", "injecting"}) =>
        phase = "idle" /\ Mine("join") = {}

(* The reset that opens the load-test page never meets the visitor the     *)
(* page itself has sent into the line, and so cannot purge him.            *)
ResetFirst == Mine("setup") # {} => phase = "idle" /\ Mine("join") = {}

(* Whoever has paid sees how it ended, unless nobody is there to tell him. *)
Untold(r) ==
    \/ status[r] \in {"EXPIRED", "gone"}
    \/ unpublished[r]
    \/ conn[r] = "refused"

PayingSettles ==
    \A r \in Reservations :
        phase = "paying" /\ ticket = r ~> phase # "paying" \/ ticket # r \/ Untold(r)

(* As the comments of the form have it: an error that no repetition can    *)
(* cure, an expired gate or login, offers the way home.                    *)
ReauthOffered == phase = "error" /\ error \in Doors => NeedsReauth(error)
=============================================================================
