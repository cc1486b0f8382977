---------------------------- MODULE AdmissionQueue ----------------------------
(***************************************************************************)
(* The waiting line of one event in Redis: visitors and virtual users join *)
(* it, a repeating worker pops a batch from its front and admits it, and a *)
(* reset purges it.                                                        *)
(*                                                                         *)
(* All of the API sends its commands through one ioredis connection        *)
(* (RedisService). Redis executes them in the order they were sent, and    *)
(* their replies resume the waiting handlers in the same order, so a       *)
(* handler's next command is sent before that of any handler whose reply   *)
(* comes later. The wire holds the commands sent and not yet executed; a   *)
(* step executes its head, and what the handler then does up to its next   *)
(* await is part of that step.                                             *)
(***************************************************************************)
EXTENDS Integers, FiniteSets, Sequences, SequencesExt

CONSTANTS
    Users,        \* whoever can join the line of this event
    NoUser,       \* none of them
    Virtual,      \* those of them the server simulates
    MaxCalls,     \* how often a visitor joins; a virtual user joins once
    MaxResets,    \* how often the owner resets the event
    MaxCrashes,   \* how often the API process restarts
    LoadTest,     \* TRUE: a load-test event (joinLoadTest and its worker)
    MinBatch,     \* LOAD_TEST_ADMISSION_MIN_BATCH
    MaxBatch,     \* ADMISSION_BATCH_SIZE, or LOAD_TEST_ADMISSION_MAX_BATCH
    MaxInFlight,  \* payment throughput times burst window
    Bookers       \* the users who book once they are admitted

ASSUME AdmissionAssumption ==
    /\ IsFiniteSet(Users)
    /\ NoUser \notin Users
    /\ Virtual \subseteq Users
    /\ Bookers \subseteq Users
    /\ LoadTest \in BOOLEAN
    /\ MaxCalls \in Nat \ {0} /\ {MaxResets, MaxCrashes} \subseteq Nat
    /\ MinBatch \in Nat \ {0} /\ MaxBatch \in Nat /\ MinBatch <= MaxBatch
    /\ MaxInFlight \in Nat \ {0}

VARIABLES
    wire,       \* commands sent to Redis and not yet executed
    score,      \* queue:event:<id>: a member's score, 0 for everybody else
    seq,        \* queue:seq:event:<id>
    admitted,   \* who has the key admitted:event:<id>:<user>
    active,     \* is the event in the set of active queues its worker reads
    tick,       \* where the worker is
    desired,    \* the batch it has drawn
    calls,      \* joins of each user so far
    resets,     \* resets so far
    crashes,    \* restarts so far
    view,       \* what a visitor's page shows
    rankSeen,   \* his last ZRANK found him
    listening,  \* virtual users that wait on the bus
    hold        \* the HELD row of each user

redisVars  == <<score, seq, admitted, active>>
workerVars == <<tick, desired>>
boundVars  == <<calls, resets, crashes>>
pageVars   == <<view, rankSeen>>
vars == <<wire, score, seq, admitted, active, tick, desired, calls, resets, crashes,
          view, rankSeen, listening, hold>>

(* Commands of join, of the worker, of purge and of a status query. *)
Ops == {"del", "incr", "zadd", "sadd",
        "smembers", "size", "zpopmin", "set", "zcard", "srem",
        "purgeLine", "purgeCasual", "purgeLoadTest",
        "zrank", "exists"}

Cmd(op, u, n) == [op |-> op, user |-> u, arg |-> n]

Waiting == {u \in Users : score[u] # 0}

(* Who of S comes before u in the line, and whom ZPOPMIN n returns. *)
Ahead(S, u) == {w \in S : score[w] < score[u]}
FirstOf(n) == {u \in Waiting : Cardinality(Ahead(Waiting, u)) < n}

Init ==
    /\ wire = <<>>
    /\ score = [u \in Users |-> 0]
    /\ seq = 0
    /\ admitted = [u \in Users |-> FALSE]
    /\ active = FALSE
    /\ tick = "idle"
    /\ desired = 0
    /\ calls = [u \in Users |-> 0]
    /\ resets = 0
    /\ crashes = 0
    /\ view = [u \in Users |-> "none"]
    /\ rankSeen = [u \in Users |-> FALSE]
    /\ listening = {}
    /\ hold = [u \in Users |-> "none"]

(* The command that is executed next. (Mistake: a connection per handler.) *)
AnyConnection == DOMAIN wire
Executed == IF wire = <<>> THEN {} ELSE {1}
At(op) == {i \in Executed : wire[i].op = op}

Send(cmds) == wire' = wire \o cmds
Reply(i, cmds) == wire' = RemoveAt(wire, i) \o cmds

-----------------------------------------------------------------------------
(* QueueService.join and joinLoadTest: DEL, INCR, ZADD NX, SADD. *)

Join(u) ==
    /\ calls[u] < IF u \in Virtual THEN 1 ELSE MaxCalls
    /\ view[u] # "joining"
    /\ calls' = [calls EXCEPT ![u] = @ + 1]
    /\ view' = [view EXCEPT ![u] = "joining"]
    /\ Send(<<Cmd("del", u, 0)>>)
    /\ UNCHANGED <<redisVars, workerVars, resets, crashes, rankSeen, listening, hold>>

DropPermission ==
    \E i \in At("del") :
      /\ admitted' = [admitted EXCEPT ![wire[i].user] = FALSE]
      /\ Reply(i, <<Cmd("incr", wire[i].user, 0)>>)
      /\ UNCHANGED <<score, seq, active, workerVars, boundVars, pageVars, listening, hold>>

DrawNumber ==
    \E i \in At("incr") :
      /\ seq' = seq + 1
      /\ Reply(i, <<Cmd("zadd", wire[i].user, seq + 1)>>)
      /\ UNCHANGED <<score, admitted, active, workerVars, boundVars, pageVars, listening, hold>>

Enqueue ==
    \E i \in At("zadd") :
      /\ score' = [score EXCEPT ![wire[i].user] = IF @ = 0 THEN wire[i].arg ELSE @]
      /\ Reply(i, <<Cmd("sadd", wire[i].user, 0)>>)
      /\ UNCHANGED <<seq, admitted, active, workerVars, boundVars, pageVars, listening, hold>>

(* The call returns: a visitor opens his stream, a virtual user listens.   *)
Activate ==
    \E i \in At("sadd") : LET u == wire[i].user IN
      /\ active' = TRUE
      /\ view' = [view EXCEPT ![u] = "queued"]
      /\ listening' = listening \cup ({u} \cap Virtual)
      /\ Reply(i, <<>>)
      /\ UNCHANGED <<score, seq, admitted, workerVars, boundVars, rankSeen, hold>>

JoinStep == DropPermission \/ DrawNumber \/ Enqueue \/ Activate

-----------------------------------------------------------------------------
(* AdmissionProcessor.process and LoadTestAdmissionProcessor.process *)

TickStarts ==
    /\ tick = "idle"
    /\ tick' = "busy"
    /\ Send(<<Cmd("smembers", NoUser, 0)>>)
    /\ UNCHANGED <<redisVars, desired, boundVars, pageVars, listening, hold>>

ListActive ==
    \E i \in At("smembers") :
      /\ tick' = IF active THEN "listed" ELSE "idle"
      /\ Reply(i, <<>>)
      /\ UNCHANGED <<redisVars, desired, boundVars, pageVars, listening, hold>>

(* The loop over the events comes to this one. *)
TickReachesEvent ==
    /\ tick = "listed"
    /\ tick' = "busy"
    /\ Send(<<IF LoadTest THEN Cmd("size", NoUser, 0) ELSE Cmd("zpopmin", NoUser, MaxBatch)>>)
    /\ UNCHANGED <<redisVars, desired, boundVars, pageVars, listening, hold>>

(* poissonLikeBatchSize: clamped to the limits, then to those remaining.   *)
(* (Mistake: no upper limit.)                                              *)
Unlimited(remaining) ==
    {IF b < remaining THEN b ELSE remaining : b \in MinBatch..Cardinality(Users)}
BatchSizes(remaining) ==
    {IF b < remaining THEN b ELSE remaining : b \in MinBatch..MaxBatch}

MeasureLine ==
    \E i \in At("size") :
      /\ tick' = "counting"
      /\ desired' \in BatchSizes(Cardinality(Waiting))
      /\ Reply(i, <<>>)
      /\ UNCHANGED <<redisVars, boundVars, pageVars, listening, hold>>

(* The HELD rows of the event. (Mistake: rows of every status.) *)
AnyRow == {u \in Users : hold[u] # "none"}
InPayment == {u \in Users : hold[u] = "held"}

Slots ==
    LET free == MaxInFlight - Cardinality(InPayment)
    IN  IF free < 0 THEN 0 ELSE free

CountHeld ==
    /\ tick = "counting"
    /\ tick' = "busy"
    /\ LET batch == IF desired < Slots THEN desired ELSE Slots
       IN  Send(<<IF batch > 0 THEN Cmd("zpopmin", NoUser, batch) ELSE Cmd("zcard", NoUser, 0)>>)
    /\ desired' = 0
    /\ UNCHANGED <<redisVars, boundVars, pageVars, listening, hold>>

(* One SET per popped user, in their order and all sent at once, or none. *)
Nth(S, k) == CHOOSE u \in S : Cardinality(Ahead(S, u)) = k - 1
Admissions(S) ==
    IF S = {} THEN <<Cmd("zcard", NoUser, 0)>>
    ELSE [k \in 1..Cardinality(S) |-> Cmd("set", Nth(S, k), 0)]

PopBatch ==
    \E i \in At("zpopmin") : LET batch == FirstOf(wire[i].arg) IN
      /\ score' = [u \in Users |-> IF u \in batch THEN 0 ELSE score[u]]
      /\ Reply(i, Admissions(batch))
      /\ UNCHANGED <<seq, admitted, active, workerVars, boundVars, pageVars, listening, hold>>

(* The last reply of the Promise.all lets the worker go on. *)
Admit ==
    \E i \in At("set") : LET u == wire[i].user IN
      /\ admitted' = [admitted EXCEPT ![u] = TRUE]
      /\ listening' = listening \ {u}
      /\ Reply(i, IF \E j \in DOMAIN wire \ {i} : wire[j].op = "set"
                  THEN <<>> ELSE <<Cmd("zcard", NoUser, 0)>>)
      /\ UNCHANGED <<score, seq, active, workerVars, boundVars, pageVars, hold>>

(* deactivateIfEmpty. (Mistake: without the test.) *)
EmptyOrNot == TRUE
Empty == Waiting = {}

TestEmpty ==
    \E i \in At("zcard") :
      /\ tick' = IF Empty THEN "busy" ELSE "idle"
      /\ Reply(i, IF Empty THEN <<Cmd("srem", NoUser, 0)>> ELSE <<>>)
      /\ UNCHANGED <<redisVars, desired, boundVars, pageVars, listening, hold>>

Deactivate ==
    \E i \in At("srem") :
      /\ active' = FALSE
      /\ tick' = "idle"
      /\ Reply(i, <<>>)
      /\ UNCHANGED <<score, seq, admitted, desired, boundVars, pageVars, listening, hold>>

WorkerReply == ListActive \/ MeasureLine \/ PopBatch \/ Admit \/ TestEmpty \/ Deactivate
WorkerStep == TickStarts \/ TickReachesEvent \/ CountHeld

-----------------------------------------------------------------------------
(* QueueService.purge, the last part of a reset. *)

Reset ==
    /\ resets < MaxResets
    /\ resets' = resets + 1
    /\ Send(<<Cmd("purgeLine", NoUser, 0)>>)
    /\ UNCHANGED <<redisVars, workerVars, calls, crashes, pageVars, listening, hold>>

PurgeLine ==
    \E i \in At("purgeLine") :
      /\ score' = [u \in Users |-> 0]
      /\ Reply(i, <<Cmd("purgeCasual", NoUser, 0)>>)
      /\ UNCHANGED <<seq, admitted, active, workerVars, boundVars, pageVars, listening, hold>>

PurgeCasual ==
    \E i \in At("purgeCasual") :
      /\ active' = (active /\ LoadTest)
      /\ Reply(i, <<Cmd("purgeLoadTest", NoUser, 0)>>)
      /\ UNCHANGED <<score, seq, admitted, workerVars, boundVars, pageVars, listening, hold>>

PurgeLoadTest ==
    \E i \in At("purgeLoadTest") :
      /\ active' = (active /\ ~LoadTest)
      /\ Reply(i, <<>>)
      /\ UNCHANGED <<score, seq, admitted, workerVars, boundVars, pageVars, listening, hold>>

PurgeStep == PurgeLine \/ PurgeCasual \/ PurgeLoadTest

-----------------------------------------------------------------------------
(* QueueService.status, as streamStatus asks it for an open page *)

Poll(u) ==
    /\ u \notin Virtual
    /\ view[u] \in {"queued", "admitted"}
    /\ \A i \in DOMAIN wire : wire[i].op \in {"zrank", "exists"} => wire[i].user # u
    /\ Send(<<Cmd("zrank", u, 0), Cmd("exists", u, 0)>>)
    /\ UNCHANGED <<redisVars, workerVars, boundVars, pageVars, listening, hold>>

ReadRank ==
    \E i \in At("zrank") :
      /\ rankSeen' = [rankSeen EXCEPT ![wire[i].user] = wire[i].user \in Waiting]
      /\ Reply(i, <<>>)
      /\ UNCHANGED <<redisVars, workerVars, boundVars, view, listening, hold>>

(* What the page makes of a snapshot. *)
Shown(u) ==
    IF admitted[u] THEN "admitted" ELSE IF rankSeen[u] THEN "queued" ELSE "expired"

(* The snapshot reaches the page, if its stream is still open. *)
ReadPermission ==
    \E i \in At("exists") : LET u == wire[i].user IN
      /\ view' = [view EXCEPT ![u] = IF @ = "joining" THEN @ ELSE Shown(u)]
      /\ rankSeen' = [rankSeen EXCEPT ![u] = FALSE]
      /\ Reply(i, <<>>)
      /\ UNCHANGED <<redisVars, workerVars, boundVars, listening, hold>>

StatusStep == ReadRank \/ ReadPermission

-----------------------------------------------------------------------------
(* The rest of the system, as far as the line depends on it *)

(* The time to live of the permission ends. *)
Lapse(u) ==
    /\ admitted[u]
    /\ admitted' = [admitted EXCEPT ![u] = FALSE]
    /\ UNCHANGED <<wire, score, seq, active, workerVars, boundVars, pageVars, listening, hold>>

(* assertAdmitted lets a booking pass. *)
Book(u) ==
    /\ u \in Bookers
    /\ admitted[u]
    /\ hold[u] = "none"
    /\ hold' = [hold EXCEPT ![u] = "held"]
    /\ UNCHANGED <<wire, redisVars, workerVars, boundVars, pageVars, listening>>

(* The hold is confirmed, cancelled or expired. *)
Settle(u) ==
    /\ hold[u] = "held"
    /\ hold' = [hold EXCEPT ![u] = "settled"]
    /\ UNCHANGED <<wire, redisVars, workerVars, boundVars, pageVars, listening>>

(* The API process restarts: no handler goes on, what Redis holds stays.   *)
(* Pages reconnect their streams; a call of join ends in an error.         *)
Crash ==
    /\ crashes < MaxCrashes
    /\ crashes' = crashes + 1
    /\ wire' = <<>>
    /\ tick' = "idle"
    /\ desired' = 0
    /\ listening' = {}
    /\ view' = [u \in Users |-> IF view[u] = "joining" THEN "none" ELSE view[u]]
    /\ rankSeen' = [u \in Users |-> FALSE]
    /\ UNCHANGED <<redisVars, calls, resets, hold>>

Next ==
    \/ \E u \in Users : Join(u) \/ Poll(u) \/ Lapse(u) \/ Book(u) \/ Settle(u)
    \/ JoinStep
    \/ WorkerStep
    \/ WorkerReply
    \/ Reset
    \/ PurgeStep
    \/ StatusStep
    \/ Crash

Spec == Init /\ [][Next]_vars

(* Redis answers, the worker ticks for ever, and holds settle (which the   *)
(* run liveness of HeldPipeline shows). Nobody has to join or to book.     *)
Fairness ==
    /\ WF_vars(JoinStep \/ WorkerReply \/ PurgeStep \/ StatusStep)
    /\ WF_vars(WorkerStep)
    /\ \A u \in Users : WF_vars(Settle(u))

FairSpec == Spec /\ Fairness

-----------------------------------------------------------------------------
(* Type invariant. *)
TypeOK ==
    /\ wire \in Seq([op : Ops, user : Users \cup {NoUser}, arg : Nat])
    /\ score \in [Users -> Nat]
    /\ seq \in Nat
    /\ admitted \in [Users -> BOOLEAN]
    /\ active \in BOOLEAN
    /\ tick \in {"idle", "busy", "listed", "counting"}
    /\ desired \in 0..MaxBatch
    /\ calls \in [Users -> 0..MaxCalls]
    /\ resets \in 0..MaxResets
    /\ crashes \in 0..MaxCrashes
    /\ view \in [Users -> {"none", "joining", "queued", "admitted", "expired"}]
    /\ rankSeen \in [Users -> BOOLEAN]
    /\ listening \in SUBSET Virtual
    /\ hold \in [Users -> {"none", "held", "settled"}]

(* The set of active queues holds every event whose line is not empty, or  *)
(* a join is about to put it there: the worker, which reads only that set, *)
(* forgets nobody, although join and deactivateIfEmpty change line and set *)
(* in separate commands. (A restart between ZADD and SADD of a join is the *)
(* exception: the event is then out of the set until the next join.)       *)
ActiveIfWaiting ==
    Waiting # {} /\ crashes = 0 => active \/ \E i \in DOMAIN wire : wire[i].op = "sadd"

(* Nobody is popped while somebody with a smaller number is still on his   *)
(* way into the line: a number drawn earlier is admitted earlier, although *)
(* INCR and ZADD are two commands, and whenever the process restarts.      *)
NoOvertaking ==
    [][\A u \in Users :
         score[u] # 0 /\ score'[u] = 0 /\ (\E i \in DOMAIN wire' : wire'[i] = Cmd("set", u, 0)) =>
           \A i \in DOMAIN wire : wire[i].op = "zadd" =>
             wire[i].arg > score[u] \/ wire[i].user \in Waiting]_vars

(* A virtual user already listens when his admission is published: he      *)
(* subscribes only after join returns, and the bus keeps nothing. (Those   *)
(* whose process has restarted are in the line and no longer listen.)      *)
VirtualHearsAdmission ==
    [][\A u \in Virtual :
         admitted'[u] /\ ~admitted[u] /\ crashes = 0 => u \in listening]_vars

(* Whoever waits is popped, under the backpressure of the load test too.   *)
WaiterLeavesLine == \A u \in Users : score[u] # 0 ~> score[u] = 0

(* join voids an earlier admission: the page of a visitor who has joined   *)
(* again does not jump to the booking while he waits.                      *)
NoJumpToAdmitted == \A u \in Users : view[u] = "admitted" => score[u] = 0

-----------------------------------------------------------------------------
(* The inductive invariants of the proofs. *)

(* A number still on its way into the line is larger than every one in it, *)
(* numbers arrive in the order they were drawn, and no two are the same.   *)
Numbered ==
    /\ \A u \in Users : score[u] <= seq
    /\ \A u, w \in Users : score[u] = score[w] /\ score[u] # 0 => u = w
    /\ \A i \in DOMAIN wire : wire[i].op = "zadd" =>
          /\ wire[i].arg <= seq
          /\ \A u \in Users : score[u] < wire[i].arg
          /\ \A j \in DOMAIN wire : wire[j].op = "zadd" /\ i < j => wire[i].arg < wire[j].arg

(* The commands that take the event out of the set of active queues. *)
Removing == {"srem", IF LoadTest THEN "purgeLoadTest" ELSE "purgeCasual"}
Purging == {"purgeLine", "purgeCasual", "purgeLoadTest"}

(* Whoever waits came after the removals under way were decided: behind    *)
(* them all there is a join that puts the event back.                      *)
Reactivated ==
    Waiting # {} /\ crashes = 0 =>
        \/ active /\ \A i \in DOMAIN wire : wire[i].op \notin Removing
        \/ \E j \in DOMAIN wire :
              wire[j].op = "sadd" /\ \A i \in DOMAIN wire : i > j => wire[i].op \notin Removing

PurgedByReset ==
    resets = 0 => \A i \in DOMAIN wire : wire[i].op \notin Purging

(* A virtual user joins once. Until the process restarts, he is at most    *)
(* one of these: on his way into the line, in it, or being admitted.       *)
Moving(i, u) == wire[i].user = u /\ wire[i].op \in {"del", "incr", "zadd", "set"}
JoinsOnce ==
    crashes = 0 => \A u \in Virtual :
        /\ \A i \in DOMAIN wire : Moving(i, u) =>
              /\ calls[u] = 1 /\ score[u] = 0
              /\ \A j \in DOMAIN wire : Moving(j, u) => i = j
        /\ score[u] # 0 => calls[u] = 1

(* He listens before he is admitted, or his join returns before that. *)
Returns(i, u) == wire[i].op = "sadd" /\ wire[i].user = u
HearsInTime ==
    crashes = 0 => \A u \in Virtual : u \notin listening =>
        /\ score[u] # 0 => \E j \in DOMAIN wire : Returns(j, u)
        /\ \A i \in DOMAIN wire : wire[i].op = "set" /\ wire[i].user = u =>
              \E j \in DOMAIN wire : j < i /\ Returns(j, u)
=============================================================================
