------------------------- MODULE AdmissionQueueProofs -------------------------
(***************************************************************************)
(* Proofs about AdmissionQueue, for any number of visitors, virtual users, *)
(* joins, resets and restarts, and for any sizes of the batches.           *)
(***************************************************************************)
EXTENDS AdmissionQueue, FiniteSetTheorems, SequenceTheorems, TLAPS

-----------------------------------------------------------------------------
(* The wire *)

Commands == [op : Ops, user : Users \cup {NoUser}, arg : Nat]

(* The first d commands leave the wire, and cmds are appended to it. *)
Grows(d, cmds) ==
    /\ d \in {0, 1} /\ d <= Len(wire)
    /\ wire' \in Seq(Commands)
    /\ Len(wire') = Len(wire) - d + Len(cmds)
    /\ \A j \in 1..(Len(wire) - d) : wire'[j] = wire[j + d]
    /\ \A j \in 1..Len(cmds) : wire'[Len(wire) - d + j] = cmds[j]

LEMMA SendGrows ==
    ASSUME TypeOK, NEW cmds \in Seq(Commands), Send(cmds)
    PROVE  Grows(0, cmds)
BY DEF TypeOK, Commands, Send, Grows

(* A sequence without its first element, and a second one behind it. *)
LEMMA Shifted ==
    ASSUME NEW S, NEW s \in Seq(S), NEW t \in Seq(S), s # <<>>
    PROVE  LET r == RemoveAt(s, 1) \o t
           IN  /\ Len(s) \in Nat \ {0}
               /\ r \in Seq(S) /\ Len(r) = Len(s) - 1 + Len(t)
               /\ \A j \in 1..(Len(s) - 1) : r[j] = s[j + 1]
               /\ \A j \in 1..Len(t) : r[Len(s) - 1 + j] = t[j]
<1> DEFINE m == Len(s)
           rest == SubSeq(s, 2, m)
<1>1. m \in Nat \ {0} /\ \A j \in 2..m : s[j] \in S
  BY DEF m
<1>2. 2 \in Int /\ m \in Int
  BY <1>1
<1> HIDE DEF m
<1>3. /\ rest \in Seq(S)
      /\ Len(rest) = IF 2 <= m THEN m - 2 + 1 ELSE 0
      /\ \A j \in 1..(m - 2 + 1) : rest[j] = s[2 + j - 1]
  BY <1>1, <1>2, SubSeqProperties
<1>4. SubSeq(s, 1, 0) = <<>>
  BY SubSeqEmpty
<1>5. RemoveAt(s, 1) = rest
  <2>1. RemoveAt(s, 1) = <<>> \o rest
    BY <1>4 DEF RemoveAt, m
  <2> HIDE DEF rest
  <2> QED
    BY <1>3, <2>1
<1>6. /\ rest \in Seq(S) /\ Len(rest) = m - 1
      /\ \A j \in 1..(m - 1) : rest[j] = s[j + 1]
  BY <1>1, <1>3
<1> HIDE DEF rest
<1>7. /\ rest \o t \in Seq(S) /\ Len(rest \o t) = m - 1 + Len(t)
      /\ \A j \in 1..(m - 1) : (rest \o t)[j] = rest[j]
      /\ \A j \in 1..Len(t) : (rest \o t)[m - 1 + j] = t[j]
  <2> DEFINE whole == rest \o t
  <2>1. /\ whole \in Seq(S) /\ Len(whole) = Len(rest) + Len(t)
        /\ \A j \in 1..(Len(rest) + Len(t)) :
              whole[j] = IF j <= Len(rest) THEN rest[j] ELSE t[j - Len(rest)]
    BY <1>6, ConcatProperties
  <2>2. Len(t) \in Nat
    OBVIOUS
  <2> HIDE DEF whole
  <2>3. \A j \in 1..(m - 1) : whole[j] = rest[j]
    BY SMTT(40), <1>1, <1>6, <2>1, <2>2
  <2>4. ASSUME NEW j \in 1..Len(t) PROVE whole[m - 1 + j] = t[j]
    <3>1. m - 1 + j \in 1..(m - 1 + Len(t)) /\ ~(m - 1 + j <= m - 1) /\ (m - 1 + j) - (m - 1) = j
      BY <1>1, <2>2
    <3> QED
      BY <1>6, <2>1, <3>1
  <2> QED
    BY <1>6, <2>1, <2>3, <2>4 DEF whole
<1> QED
  BY <1>1, <1>5, <1>6, <1>7 DEF m

LEMMA ReplyGrows ==
    ASSUME TypeOK, NEW i \in Executed, NEW cmds \in Seq(Commands), Reply(i, cmds)
    PROVE  i = 1 /\ i \in DOMAIN wire /\ Grows(1, cmds)
<1>1. wire \in Seq(Commands) /\ DOMAIN wire = 1..Len(wire)
  BY DEF TypeOK, Commands
<1>2. wire # <<>> /\ i = 1
  BY DEF Executed
<1>3. wire' = RemoveAt(wire, 1) \o cmds
  BY <1>2 DEF Reply
<1> HIDE DEF Commands
<1>4. /\ Len(wire) \in Nat \ {0}
      /\ wire' \in Seq(Commands) /\ Len(wire') = Len(wire) - 1 + Len(cmds)
      /\ \A j \in 1..(Len(wire) - 1) : wire'[j] = wire[j + 1]
      /\ \A j \in 1..Len(cmds) : wire'[Len(wire) - 1 + j] = cmds[j]
  BY SMTT(40), <1>1, <1>2, <1>3, Shifted
<1> QED
  BY <1>1, <1>2, <1>4 DEF Grows

(* Every command on the wire after a step was there before, or is new. *)
LEMMA Origin ==
    ASSUME TypeOK, NEW d, NEW cmds \in Seq(Commands), Grows(d, cmds), NEW i \in DOMAIN wire'
    PROVE  \/ /\ i + d \in DOMAIN wire /\ i + d > d /\ wire'[i] = wire[i + d]
           \/ \E j \in DOMAIN cmds : i = Len(wire) - d + j /\ wire'[i] = cmds[j]
<1>1. DOMAIN wire' = 1..(Len(wire) - d + Len(cmds)) /\ DOMAIN wire = 1..Len(wire)
  BY DEF Grows, TypeOK
<1>2. Len(wire) \in Nat /\ Len(cmds) \in Nat /\ DOMAIN cmds = 1..Len(cmds)
  BY DEF TypeOK
<1>3. CASE i <= Len(wire) - d
  <2>1. i \in 1..(Len(wire) - d) /\ i + d \in 1..Len(wire) /\ i + d > d
    BY <1>1, <1>2, <1>3 DEF Grows
  <2> QED
    BY <1>1, <2>1 DEF Grows
<1>4. CASE ~(i <= Len(wire) - d)
  <2>1. i - (Len(wire) - d) \in 1..Len(cmds)
    BY <1>1, <1>2, <1>4 DEF Grows
  <2>2. i = Len(wire) - d + (i - (Len(wire) - d))
    BY <1>1, <1>2 DEF Grows
  <2> QED
    BY <1>2, <2>1, <2>2 DEF Grows
<1> QED
  BY <1>3, <1>4

(* Whatever is not executed stays, one place further on. *)
LEMMA Stays ==
    ASSUME TypeOK, NEW d, NEW cmds \in Seq(Commands), Grows(d, cmds), NEW i \in DOMAIN wire, i > d
    PROVE  i - d \in DOMAIN wire' /\ wire'[i - d] = wire[i]
<1>1. DOMAIN wire' = 1..(Len(wire) - d + Len(cmds)) /\ DOMAIN wire = 1..Len(wire)
  BY DEF Grows, TypeOK
<1>2. Len(wire) \in Nat /\ Len(cmds) \in Nat
  BY DEF TypeOK
<1>3. i - d \in 1..(Len(wire) - d) /\ (i - d) + d = i
  BY <1>1, <1>2 DEF Grows
<1> QED
  BY <1>1, <1>2, <1>3 DEF Grows

(* What is new is behind all of it. *)
LEMMA Appended ==
    ASSUME TypeOK, NEW d, NEW cmds \in Seq(Commands), Grows(d, cmds), NEW j \in DOMAIN cmds
    PROVE  Len(wire) - d + j \in DOMAIN wire' /\ wire'[Len(wire) - d + j] = cmds[j]
<1>1. DOMAIN wire' = 1..(Len(wire) - d + Len(cmds)) /\ DOMAIN cmds = 1..Len(cmds)
  BY DEF Grows
<1>2. Len(wire) \in Nat /\ Len(cmds) \in Nat
  BY DEF TypeOK
<1> QED
  BY <1>1, <1>2 DEF Grows

(* A step that leaves the wire alone. *)
LEMMA WireSame ==
    ASSUME TypeOK, wire' = wire
    PROVE  Grows(0, <<>>)
BY DEF TypeOK, Grows, Commands

(* A command is a record. *)
LEMMA CmdType ==
    ASSUME NEW op \in Ops, NEW u \in Users \cup {NoUser}, NEW n \in Nat
    PROVE  /\ <<Cmd(op, u, n)>> \in Seq(Commands)
           /\ Len(<<Cmd(op, u, n)>>) = 1 /\ <<Cmd(op, u, n)>>[1] = Cmd(op, u, n)
BY DEF Cmd, Commands

-----------------------------------------------------------------------------
(* The order of the line *)

LEMMA WaitingFinite ==
    /\ IsFiniteSet(Waiting) /\ Cardinality(Waiting) \in Nat
    /\ \A S \in SUBSET Waiting : IsFiniteSet(S) /\ Cardinality(S) \in Nat
<1>1. Waiting \in SUBSET Users
  BY DEF Waiting
<1>2. IsFiniteSet(Waiting)
  BY <1>1, AdmissionAssumption, FS_Subset
<1> QED
  BY <1>2, FS_Subset, FS_CardinalityType

(* Of waiting users the k-th exists: as many are ahead of him as there     *)
(* are smaller numbers.                                                    *)
LEMMA NthExists ==
    ASSUME TypeOK, Numbered, NEW S \in SUBSET Waiting, NEW k \in 1..Cardinality(S)
    PROVE  Nth(S, k) \in S /\ Cardinality(Ahead(S, Nth(S, k))) = k - 1
<1> DEFINE n == Cardinality(S)
           f == [u \in S |-> Cardinality(Ahead(S, u))]
<1>1. IsFiniteSet(S) /\ n \in Nat
  BY WaitingFinite
<1>2. \A u \in S : u \in Users /\ score[u] \in Nat /\ score[u] # 0
  BY DEF Waiting, TypeOK
<1>3. ASSUME NEW u \in S
      PROVE  /\ IsFiniteSet(Ahead(S, u)) /\ Cardinality(Ahead(S, u)) \in 0..(n - 1)
  <2>1. Ahead(S, u) \in SUBSET (S \ {u})
    BY <1>2 DEF Ahead
  <2>2. IsFiniteSet(S \ {u}) /\ Cardinality(S \ {u}) = n - 1
    BY <1>1, FS_RemoveElement
  <2>3. IsFiniteSet(Ahead(S, u)) /\ Cardinality(Ahead(S, u)) <= n - 1
    BY <2>1, <2>2, FS_Subset
  <2> QED
    BY <1>1, <2>3, FS_CardinalityType
<1>4. ASSUME NEW u \in S, NEW w \in S, score[u] < score[w]
      PROVE  Cardinality(Ahead(S, u)) # Cardinality(Ahead(S, w))
  <2>1. Ahead(S, u) \in SUBSET Ahead(S, w) /\ u \in Ahead(S, w) /\ u \notin Ahead(S, u)
    BY <1>2, <1>4 DEF Ahead
  <2> QED
    BY <1>3, <2>1, FS_Subset
<1>5. f \in Injection(S, 0..(n - 1))
  <2>1. f \in [S -> 0..(n - 1)]
    BY <1>3
  <2>2. ASSUME NEW u \in S, NEW w \in S, f[u] = f[w] PROVE u = w
    BY <1>2, <1>4, <2>2 DEF Numbered
  <2> QED
    BY <2>1, <2>2 DEF Injection, IsInjective
<1>6. IsFiniteSet(0..(n - 1)) /\ Cardinality(0..(n - 1)) = n
  <2>1. n >= 1 /\ n - 1 \in Int /\ 0 \in Int /\ (n - 1) - 0 + 1 = n /\ 0 <= n - 1
    BY <1>1
  <2> HIDE DEF n
  <2> QED
    BY <2>1, FS_Interval
<1>7. f \in Surjection(S, 0..(n - 1))
  BY <1>5, <1>6, FS_Injection
<1>8. \E u \in S : Cardinality(Ahead(S, u)) = k - 1
  <2>1. k - 1 \in 0..(n - 1)
    BY <1>1
  <2>2. \E u \in S : f[u] = k - 1
    BY <1>7, <2>1 DEF Surjection
  <2> QED
    BY <2>2
<1> QED
  BY <1>8 DEF Nth

(* Popped users get one SET each, and nothing else is sent. *)
LEMMA AdmissionsAre ==
    ASSUME TypeOK, Numbered, NEW S \in SUBSET Waiting
    PROVE  /\ Admissions(S) \in Seq(Commands)
           /\ \A k \in DOMAIN Admissions(S) :
                \/ Admissions(S)[k] = Cmd("zcard", NoUser, 0)
                \/ \E u \in S : Admissions(S)[k] = Cmd("set", u, 0)
           /\ \A j, k \in DOMAIN Admissions(S) : \A u \in Users :
                Admissions(S)[j] = Cmd("set", u, 0) /\ Admissions(S)[k] = Cmd("set", u, 0) => j = k
<1>1. CASE S = {}
  <2>1. Admissions(S) = <<Cmd("zcard", NoUser, 0)>>
    BY <1>1 DEF Admissions
  <2>2. "zcard" \in Ops
    BY DEF Ops
  <2>3. <<Cmd("zcard", NoUser, 0)>> \in Seq(Commands)
    BY <2>2, CmdType
  <2> QED
    BY <2>1, <2>3
<1>2. CASE S # {}
  <2>1. Admissions(S) = [k \in 1..Cardinality(S) |-> Cmd("set", Nth(S, k), 0)]
    BY <1>2 DEF Admissions
  <2>2. Cardinality(S) \in Nat
    BY WaitingFinite
  <2>3. \A k \in 1..Cardinality(S) : Cmd("set", Nth(S, k), 0) \in Commands
    BY NthExists DEF Cmd, Commands, Ops, Waiting
  <2>4. Admissions(S) \in Seq(Commands) /\ DOMAIN Admissions(S) = 1..Cardinality(S)
    BY <2>1, <2>2, <2>3
  <2>5. ASSUME NEW j \in 1..Cardinality(S), NEW k \in 1..Cardinality(S), NEW u \in Users,
               Admissions(S)[j] = Cmd("set", u, 0), Admissions(S)[k] = Cmd("set", u, 0)
        PROVE  j = k
    <3>1. Nth(S, j) = u /\ Nth(S, k) = u
      BY <2>1, <2>5 DEF Cmd
    <3>2. Cardinality(Ahead(S, u)) = j - 1 /\ Cardinality(Ahead(S, u)) = k - 1
      BY <3>1, NthExists
    <3> QED
      BY <2>2, <3>2
  <2> QED
    BY <2>1, <2>4, <2>5, NthExists
<1> QED
  BY <1>1, <1>2

LEMMA CommandType ==
    ASSUME NEW s \in Seq(Commands), NEW i \in DOMAIN s
    PROVE  /\ i \in Nat /\ s[i] \in Commands /\ s[i].op \in Ops
           /\ s[i].user \in Users \cup {NoUser} /\ s[i].arg \in Nat
<1>1. i \in Nat /\ s[i] \in Commands
  <2> HIDE DEF Commands
  <2> QED
    OBVIOUS
<1> QED
  BY <1>1 DEF Commands

LEMMA WireTyped == TypeOK => wire \in Seq(Commands)
BY DEF TypeOK, Commands

(* The command that is executed is the head of the wire. *)
LEMMA AtHead ==
    ASSUME TypeOK, NEW op, NEW i \in At(op)
    PROVE  /\ i = 1 /\ i \in Executed /\ 1 \in DOMAIN wire
           /\ wire[1] \in Commands /\ wire[1].op = op
           /\ wire[1].user \in Users \cup {NoUser} /\ wire[1].arg \in Nat
<1>1. i = 1 /\ i \in Executed /\ wire # <<>> /\ wire[1].op = op
  BY DEF At, Executed
<1>2. wire \in Seq(Commands)
  BY DEF TypeOK, Commands
<1> HIDE DEF Commands
<1>3. DOMAIN wire = 1..Len(wire) /\ Len(wire) \in Nat \ {0}
  BY <1>1, <1>2
<1>4. 1 \in DOMAIN wire /\ wire[1] \in Commands
  BY <1>2, <1>3
<1> QED
  BY <1>1, <1>4 DEF Commands

(* A handler goes on with one more command, or with none. *)
LEMMA OneMore ==
    ASSUME TypeOK, NEW op, NEW i \in At(op),
           NEW next \in Ops, NEW u \in Users \cup {NoUser}, NEW n \in Nat,
           Reply(i, <<Cmd(next, u, n)>>)
    PROVE  Grows(1, <<Cmd(next, u, n)>>) /\ <<Cmd(next, u, n)>> \in Seq(Commands)
BY AtHead, CmdType, ReplyGrows

LEMMA NoneMore ==
    ASSUME TypeOK, NEW op, NEW i \in At(op), Reply(i, <<>>)
    PROVE  Grows(1, <<>>) /\ <<>> \in Seq(Commands)
<1>1. <<>> \in Seq(Commands)
  OBVIOUS
<1> HIDE DEF Commands
<1> QED
  BY <1>1, AtHead, ReplyGrows

LEMMA OneSent ==
    ASSUME TypeOK, NEW op \in Ops, NEW u \in Users \cup {NoUser}, NEW n \in Nat,
           Send(<<Cmd(op, u, n)>>)
    PROVE  Grows(0, <<Cmd(op, u, n)>>) /\ <<Cmd(op, u, n)>> \in Seq(Commands)
BY CmdType, SendGrows

LEMMA PollSends ==
    ASSUME TypeOK, NEW u \in Users, Poll(u)
    PROVE  LET cmds == <<Cmd("zrank", u, 0), Cmd("exists", u, 0)>>
           IN  Grows(0, cmds) /\ cmds \in Seq(Commands)
<1> DEFINE cmds == <<Cmd("zrank", u, 0), Cmd("exists", u, 0)>>
<1>1. cmds \in Seq(Commands)
  BY DEF Cmd, Commands, Ops
<1>2. Send(cmds)
  BY DEF Poll
<1> HIDE DEF cmds
<1>3. Grows(0, cmds) /\ cmds \in Seq(Commands)
  BY <1>1, <1>2, SendGrows
<1> QED
  BY <1>3 DEF cmds

-----------------------------------------------------------------------------
(* The steps, as the invariants see them *)

Tracked == {"del", "incr", "zadd", "sadd", "set"}

(* A step of the worker, of a purge, of a status query or of a booking     *)
(* that has no part in the way of a user into the line and out of it.      *)
Bystander(d, cmds) ==
    /\ cmds \in Seq(Commands) /\ Grows(d, cmds)
    /\ d = 1 => 1 \in DOMAIN wire /\ wire[1].op \notin Tracked
    /\ \A j \in DOMAIN cmds : cmds[j].op \notin Tracked
    /\ \A u \in Users : score'[u] \in {score[u], 0}
    /\ UNCHANGED <<seq, calls, crashes, listening>>

(* What it does to the set of active queues. *)
Executes(d, ops) == d = 1 /\ 1 \in DOMAIN wire /\ wire[1].op \in ops
Spares(d, cmds) ==
    /\ \A j \in DOMAIN cmds :
         /\ cmds[j].op \in Purging => resets' # 0 \/ Executes(d, Purging)
         /\ cmds[j].op \in Removing => Waiting' = {} \/ (LoadTest /\ Executes(d, Purging))
    /\ active' = active \/ Executes(d, Removing)
    /\ resets' = 0 => resets = 0

LEMMA SparesNone ==
    ASSUME NEW d, active' = active \/ Executes(d, Removing),
           (resets' = 0 => resets = 0)
    PROVE  Spares(d, <<>>)
BY DEF Spares

LEMMA SparesOne ==
    ASSUME NEW d, NEW op, NEW u, NEW n,
           op \in Purging => resets' # 0 \/ Executes(d, Purging),
           op \in Removing => Waiting' = {} \/ (LoadTest /\ Executes(d, Purging)),
           active' = active \/ Executes(d, Removing),
           (resets' = 0 => resets = 0)
    PROVE  Spares(d, <<Cmd(op, u, n)>>)
<1>1. \A j \in DOMAIN <<Cmd(op, u, n)>> : <<Cmd(op, u, n)>>[j].op = op
  BY DEF Cmd
<1> QED
  BY <1>1 DEF Spares

LEMMA SendsUntracked ==
    ASSUME TypeOK, NEW op \in Ops \ Tracked, NEW n \in Nat, Send(<<Cmd(op, NoUser, n)>>),
           UNCHANGED <<score, seq, calls, crashes, listening>>
    PROVE  Bystander(0, <<Cmd(op, NoUser, n)>>)
<1>1. Grows(0, <<Cmd(op, NoUser, n)>>) /\ <<Cmd(op, NoUser, n)>> \in Seq(Commands)
  BY OneSent
<1>2. \A j \in DOMAIN <<Cmd(op, NoUser, n)>> : <<Cmd(op, NoUser, n)>>[j].op \notin Tracked
  BY DEF Cmd
<1> QED
  BY <1>1, <1>2 DEF Bystander

LEMMA RepliesUntracked ==
    ASSUME TypeOK, NEW head \in Ops \ Tracked, NEW i \in At(head), Reply(i, <<>>),
           \A u \in Users : score'[u] \in {score[u], 0},
           UNCHANGED <<seq, calls, crashes, listening>>
    PROVE  Bystander(1, <<>>)
<1>1. Grows(1, <<>>) /\ <<>> \in Seq(Commands)
  BY NoneMore
<1>2. 1 \in DOMAIN wire /\ wire[1].op \notin Tracked
  BY AtHead
<1> QED
  BY <1>1, <1>2 DEF Bystander

LEMMA GoesOnUntracked ==
    ASSUME TypeOK, NEW head \in Ops \ Tracked, NEW i \in At(head),
           NEW op \in Ops \ Tracked, NEW n \in Nat, Reply(i, <<Cmd(op, NoUser, n)>>),
           \A u \in Users : score'[u] \in {score[u], 0},
           UNCHANGED <<seq, calls, crashes, listening>>
    PROVE  Bystander(1, <<Cmd(op, NoUser, n)>>)
<1>1. Grows(1, <<Cmd(op, NoUser, n)>>) /\ <<Cmd(op, NoUser, n)>> \in Seq(Commands)
  BY OneMore
<1>2. 1 \in DOMAIN wire /\ wire[1].op \notin Tracked
  BY AtHead
<1>3. \A j \in DOMAIN <<Cmd(op, NoUser, n)>> : <<Cmd(op, NoUser, n)>>[j].op \notin Tracked
  BY DEF Cmd
<1> QED
  BY <1>1, <1>2, <1>3 DEF Bystander

LEMMA SlotsType == Slots \in Nat
<1>1. InPayment \in SUBSET Users
  BY DEF InPayment
<1>2. Cardinality(InPayment) \in Nat
  BY <1>1, AdmissionAssumption, FS_Subset, FS_CardinalityType
<1> QED
  BY <1>2, AdmissionAssumption DEF Slots

(* Everything but the way of a user through the line. *)
Aside ==
    \/ TickStarts \/ TickReachesEvent \/ CountHeld
    \/ ListActive \/ MeasureLine \/ TestEmpty \/ Deactivate
    \/ Reset \/ PurgeStep \/ StatusStep
    \/ \E u \in Users : Poll(u) \/ Lapse(u) \/ Book(u) \/ Settle(u)
    \/ UNCHANGED vars

LEMMA Steps ==
    ASSUME [Next]_vars
    PROVE  \/ \E u \in Users : Join(u)
           \/ DropPermission \/ DrawNumber \/ Enqueue \/ Activate \/ PopBatch \/ Admit
           \/ Crash
           \/ Aside
BY DEF Next, JoinStep, WorkerStep, WorkerReply, Aside

LEMMA Bystanders ==
    ASSUME TypeOK, Aside
    PROVE  \E d \in {0, 1} : \E cmds : Bystander(d, cmds) /\ Spares(d, cmds)
<1> USE DEF redisVars, workerVars, boundVars, pageVars
<1>0. {"smembers", "size", "zpopmin", "zcard", "srem", "purgeLine", "purgeCasual",
       "purgeLoadTest", "zrank", "exists"} \subseteq Ops \ Tracked
  BY DEF Ops, Tracked
<1>1. CASE TickStarts
  <2>1. Bystander(0, <<Cmd("smembers", NoUser, 0)>>)
    BY <1>0, <1>1, SendsUntracked DEF TickStarts
  <2>2. Spares(0, <<Cmd("smembers", NoUser, 0)>>)
    BY <1>1, SparesOne DEF TickStarts, Removing, Purging
  <2> QED
    BY <2>1, <2>2
<1>2. CASE TickReachesEvent
  <2>1. CASE LoadTest
    <3>1. Send(<<Cmd("size", NoUser, 0)>>)
      BY <1>2, <2>1 DEF TickReachesEvent
    <3>2. Bystander(0, <<Cmd("size", NoUser, 0)>>)
      BY <1>0, <1>2, <3>1, SendsUntracked DEF TickReachesEvent
    <3>3. Spares(0, <<Cmd("size", NoUser, 0)>>)
      BY <1>2, <3>1, SparesOne DEF TickReachesEvent, Removing, Purging
    <3> QED
      BY <3>2, <3>3
  <2>2. CASE ~LoadTest
    <3>1. Send(<<Cmd("zpopmin", NoUser, MaxBatch)>>) /\ MaxBatch \in Nat
      BY <1>2, <2>2, AdmissionAssumption DEF TickReachesEvent
    <3>2. Bystander(0, <<Cmd("zpopmin", NoUser, MaxBatch)>>)
      BY <1>0, <1>2, <3>1, SendsUntracked DEF TickReachesEvent
    <3>3. Spares(0, <<Cmd("zpopmin", NoUser, MaxBatch)>>)
      BY <1>2, <3>1, SparesOne DEF TickReachesEvent, Removing, Purging
    <3> QED
      BY <3>2, <3>3
  <2> QED
    BY <2>1, <2>2
<1>3. CASE CountHeld
  <2> DEFINE batch == IF desired < Slots THEN desired ELSE Slots
  <2>1. batch \in Nat
    BY SlotsType, AdmissionAssumption DEF TypeOK
  <2>2. Send(<<IF batch > 0 THEN Cmd("zpopmin", NoUser, batch) ELSE Cmd("zcard", NoUser, 0)>>)
    BY <1>3 DEF CountHeld
  <2> HIDE DEF batch
  <2>3. CASE batch > 0
    <3>1. Send(<<Cmd("zpopmin", NoUser, batch)>>)
      BY <2>2, <2>3
    <3>2. Bystander(0, <<Cmd("zpopmin", NoUser, batch)>>)
      BY <1>0, <1>3, <2>1, <3>1, SendsUntracked DEF CountHeld
    <3>3. Spares(0, <<Cmd("zpopmin", NoUser, batch)>>)
      BY <1>3, <2>1, <3>1, SparesOne DEF CountHeld, Removing, Purging
    <3> QED
      BY <3>2, <3>3
  <2>4. CASE ~(batch > 0)
    <3>1. Send(<<Cmd("zcard", NoUser, 0)>>)
      BY <2>2, <2>4
    <3>2. Bystander(0, <<Cmd("zcard", NoUser, 0)>>)
      BY <1>0, <1>3, <3>1, SendsUntracked DEF CountHeld
    <3>3. Spares(0, <<Cmd("zcard", NoUser, 0)>>)
      BY <1>3, <3>1, SparesOne DEF CountHeld, Removing, Purging
    <3> QED
      BY <3>2, <3>3
  <2> QED
    BY <2>3, <2>4
<1>4. CASE ListActive
  <2>1. Bystander(1, <<>>)
    BY <1>0, <1>4, RepliesUntracked DEF ListActive
  <2>2. Spares(1, <<>>)
    BY <1>4, SparesNone DEF ListActive
  <2> QED
    BY <2>1, <2>2
<1>5. CASE MeasureLine
  <2>1. Bystander(1, <<>>)
    BY <1>0, <1>5, RepliesUntracked DEF MeasureLine
  <2>2. Spares(1, <<>>)
    BY <1>5, SparesNone DEF MeasureLine
  <2> QED
    BY <2>1, <2>2
<1>6. CASE TestEmpty
  <2>1. PICK i \in At("zcard") : Reply(i, IF Empty THEN <<Cmd("srem", NoUser, 0)>> ELSE <<>>)
    BY <1>6 DEF TestEmpty
  <2>2. CASE Empty
    <3>1. Reply(i, <<Cmd("srem", NoUser, 0)>>)
      BY <2>1, <2>2
    <3>2. Bystander(1, <<Cmd("srem", NoUser, 0)>>)
      BY <1>0, <1>6, <3>1, GoesOnUntracked DEF TestEmpty
    <3>3. Spares(1, <<Cmd("srem", NoUser, 0)>>)
      <4>1. Waiting' = {}
        BY <1>6, <2>2 DEF TestEmpty, Empty, Waiting
      <4>2. "srem" \in Purging => resets' # 0 \/ Executes(1, Purging)
        BY DEF Purging
      <4>3. active' = active /\ resets' = resets
        BY <1>6 DEF TestEmpty
      <4>4. "srem" \in Removing => Waiting' = {} \/ (LoadTest /\ Executes(1, Purging))
        BY <4>1
      <4>5. active' = active \/ Executes(1, Removing)
        BY <4>3
      <4>6. resets' = 0 => resets = 0
        BY <4>3
      <4> QED
        BY <4>2, <4>4, <4>5, <4>6, SparesOne, Zenon
    <3> QED
      BY <3>2, <3>3
  <2>3. CASE ~Empty
    <3>1. Reply(i, <<>>)
      BY <2>1, <2>3
    <3>2. Bystander(1, <<>>)
      BY <1>0, <1>6, <3>1, RepliesUntracked DEF TestEmpty
    <3>3. Spares(1, <<>>)
      BY <1>6, <3>1, SparesNone DEF TestEmpty
    <3> QED
      BY <3>2, <3>3
  <2> QED
    BY <2>2, <2>3
<1>7. CASE Deactivate
  <2>1. Bystander(1, <<>>)
    BY <1>0, <1>7, RepliesUntracked DEF Deactivate
  <2>2. Spares(1, <<>>)
    <3>1. Executes(1, Removing)
      BY <1>7, AtHead DEF Deactivate, Executes, Removing
    <3> QED
      BY <1>7, <3>1, SparesNone DEF Deactivate
  <2> QED
    BY <2>1, <2>2
<1>8. CASE Reset
  <2>1. Bystander(0, <<Cmd("purgeLine", NoUser, 0)>>)
    BY <1>0, <1>8, SendsUntracked DEF Reset
  <2>2. Spares(0, <<Cmd("purgeLine", NoUser, 0)>>)
    <3>1. resets' # 0 /\ active' = active
      BY <1>8 DEF Reset, TypeOK
    <3>2. "purgeLine" \notin Removing
      BY DEF Removing
    <3> QED
      BY <3>1, <3>2, SparesOne
  <2> QED
    BY <2>1, <2>2
<1>9. CASE PurgeStep
  <2>1. CASE PurgeLine
    <3>1. Bystander(1, <<Cmd("purgeCasual", NoUser, 0)>>)
      BY <1>0, <2>1, GoesOnUntracked DEF PurgeLine
    <3>2. Spares(1, <<Cmd("purgeCasual", NoUser, 0)>>)
      <4>1. 1 \in DOMAIN wire /\ wire[1].op = "purgeLine"
        BY <2>1, AtHead DEF PurgeLine
      <4>2. Executes(1, Purging)
        BY <4>1 DEF Executes, Purging
      <4>3. Waiting' = {}
        BY <2>1 DEF PurgeLine, Waiting
      <4>4. active' = active /\ resets' = resets
        BY <2>1 DEF PurgeLine
      <4> QED
        BY <4>2, <4>3, <4>4, SparesOne
    <3> QED
      BY <3>1, <3>2
  <2>2. CASE PurgeCasual
    <3>1. Bystander(1, <<Cmd("purgeLoadTest", NoUser, 0)>>)
      BY <1>0, <2>2, GoesOnUntracked DEF PurgeCasual
    <3>2. Spares(1, <<Cmd("purgeLoadTest", NoUser, 0)>>)
      <4>1. 1 \in DOMAIN wire /\ wire[1].op = "purgeCasual"
        BY <2>2, AtHead DEF PurgeCasual
      <4>2. Executes(1, Purging)
        BY <4>1 DEF Executes, Purging
      <4>3. active' = active \/ Executes(1, Removing)
        <5>1. CASE LoadTest
          BY <2>2, <5>1 DEF PurgeCasual, TypeOK
        <5>2. CASE ~LoadTest
          BY <4>1, <5>2 DEF Executes, Removing
        <5> QED
          BY <5>1, <5>2
      <4>4. "purgeLoadTest" \in Removing => LoadTest
        BY DEF Removing
      <4>5. resets' = resets
        BY <2>2 DEF PurgeCasual
      <4> QED
        BY <4>2, <4>3, <4>4, <4>5, SparesOne
    <3> QED
      BY <3>1, <3>2
  <2>3. CASE PurgeLoadTest
    <3>1. Bystander(1, <<>>)
      BY <1>0, <2>3, RepliesUntracked DEF PurgeLoadTest
    <3>2. Spares(1, <<>>)
      <4>1. 1 \in DOMAIN wire /\ wire[1].op = "purgeLoadTest"
        BY <2>3, AtHead DEF PurgeLoadTest
      <4>2. CASE LoadTest
        <5>1. Executes(1, Removing)
          BY <4>1, <4>2 DEF Executes, Removing
        <5> QED
          BY <2>3, <5>1, SparesNone DEF PurgeLoadTest
      <4>3. CASE ~LoadTest
        <5>1. active' = active
          BY <2>3, <4>3 DEF PurgeLoadTest, TypeOK
        <5> QED
          BY <2>3, <5>1, SparesNone DEF PurgeLoadTest
      <4> QED
        BY <4>2, <4>3
    <3> QED
      BY <3>1, <3>2
  <2> QED
    BY <1>9, <2>1, <2>2, <2>3 DEF PurgeStep
<1>10. CASE StatusStep
  <2>1. CASE ReadRank
    <3>1. Bystander(1, <<>>)
      BY <1>0, <2>1, RepliesUntracked DEF ReadRank
    <3>2. Spares(1, <<>>)
      BY <2>1, SparesNone DEF ReadRank
    <3> QED
      BY <3>1, <3>2
  <2>2. CASE ReadPermission
    <3>1. Bystander(1, <<>>)
      BY <1>0, <2>2, RepliesUntracked DEF ReadPermission
    <3>2. Spares(1, <<>>)
      BY <2>2, SparesNone DEF ReadPermission
    <3> QED
      BY <3>1, <3>2
  <2> QED
    BY <1>10, <2>1, <2>2 DEF StatusStep
<1>11. ASSUME NEW u \in Users, Poll(u)
       PROVE  \E d \in {0, 1} : \E cmds : Bystander(d, cmds) /\ Spares(d, cmds)
  <2> DEFINE cmds == <<Cmd("zrank", u, 0), Cmd("exists", u, 0)>>
  <2>1. Grows(0, cmds) /\ cmds \in Seq(Commands)
    BY <1>11, PollSends
  <2>2. \A j \in DOMAIN cmds : cmds[j].op \notin Tracked
    BY DEF Cmd, Tracked
  <2>3. Bystander(0, cmds)
    BY <1>11, <2>1, <2>2 DEF Bystander, Poll
  <2>4. \A j \in DOMAIN cmds : cmds[j].op \notin Purging /\ cmds[j].op \notin Removing
    BY DEF Cmd, Purging, Removing
  <2>5. Spares(0, cmds)
    BY <1>11, <2>4 DEF Spares, Poll
  <2> QED
    BY <2>3, <2>5
<1>12. ASSUME wire' = wire, UNCHANGED <<score, seq, calls, crashes, listening, active, resets>>
       PROVE  \E d \in {0, 1} : \E cmds : Bystander(d, cmds) /\ Spares(d, cmds)
  <2>1. Grows(0, <<>>)
    BY <1>12, WireSame
  <2>2. Bystander(0, <<>>)
    BY <1>12, <2>1 DEF Bystander
  <2>5. active' = active /\ resets' = resets
    BY <1>12
  <2>3. Spares(0, <<>>)
    BY <2>5, SparesNone
  <2> QED
    BY <2>2, <2>3
<1>13. ASSUME NEW u \in Users, Lapse(u) \/ Book(u) \/ Settle(u)
       PROVE  \E d \in {0, 1} : \E cmds : Bystander(d, cmds) /\ Spares(d, cmds)
  BY <1>12, <1>13 DEF Lapse, Book, Settle
<1>14. CASE UNCHANGED vars
  BY <1>12, <1>14 DEF vars
<1> QED
  BY <1>1, <1>2, <1>3, <1>4, <1>5, <1>6, <1>7, <1>8, <1>9, <1>10, <1>11, <1>13, <1>14 DEF Aside

-----------------------------------------------------------------------------
(* The way of a user through the line *)

LEMMA JoinSends ==
    ASSUME TypeOK, NEW u \in Users, Join(u)
    PROVE  Grows(0, <<Cmd("del", u, 0)>>) /\ <<Cmd("del", u, 0)>> \in Seq(Commands)
<1>1. "del" \in Ops
  BY DEF Ops
<1> QED
  BY <1>1, OneSent DEF Join

LEMMA DropPermissionSends ==
    ASSUME TypeOK, DropPermission
    PROVE  LET cmds == <<Cmd("incr", wire[1].user, 0)>>
           IN  /\ 1 \in DOMAIN wire /\ wire[1].op = "del" /\ wire[1].user \in Users \cup {NoUser}
               /\ Grows(1, cmds) /\ cmds \in Seq(Commands)
<1>1. PICK i \in At("del") : Reply(i, <<Cmd("incr", wire[i].user, 0)>>)
  BY DEF DropPermission
<1>2. "incr" \in Ops
  BY DEF Ops
<1> QED
  BY <1>1, <1>2, AtHead, OneMore

LEMMA DrawNumberSends ==
    ASSUME TypeOK, DrawNumber
    PROVE  LET cmds == <<Cmd("zadd", wire[1].user, seq + 1)>>
           IN  /\ 1 \in DOMAIN wire /\ wire[1].op = "incr" /\ wire[1].user \in Users \cup {NoUser}
               /\ Grows(1, cmds) /\ cmds \in Seq(Commands)
<1>1. PICK i \in At("incr") : Reply(i, <<Cmd("zadd", wire[i].user, seq + 1)>>)
  BY DEF DrawNumber
<1>2. "zadd" \in Ops /\ seq + 1 \in Nat
  BY DEF Ops, TypeOK
<1> QED
  BY <1>1, <1>2, AtHead, OneMore

LEMMA EnqueueSends ==
    ASSUME TypeOK, Enqueue
    PROVE  LET u == wire[1].user
               cmds == <<Cmd("sadd", u, 0)>>
           IN  /\ 1 \in DOMAIN wire /\ wire[1].op = "zadd"
               /\ u \in Users \cup {NoUser} /\ wire[1].arg \in Nat
               /\ score' = [score EXCEPT ![u] = IF @ = 0 THEN wire[1].arg ELSE @]
               /\ Grows(1, cmds) /\ cmds \in Seq(Commands)
<1>1. PICK i \in At("zadd") :
        /\ Reply(i, <<Cmd("sadd", wire[i].user, 0)>>)
        /\ score' = [score EXCEPT ![wire[i].user] = IF @ = 0 THEN wire[i].arg ELSE @]
  BY DEF Enqueue
<1>2. "sadd" \in Ops
  BY DEF Ops
<1> QED
  BY <1>1, <1>2, AtHead, OneMore

LEMMA ActivateSends ==
    ASSUME TypeOK, Activate
    PROVE  /\ 1 \in DOMAIN wire /\ wire[1].op = "sadd"
           /\ view' = [view EXCEPT ![wire[1].user] = "queued"]
           /\ listening' = listening \cup ({wire[1].user} \cap Virtual)
           /\ Grows(1, <<>>) /\ <<>> \in Seq(Commands)
<1>1. PICK i \in At("sadd") :
        /\ Reply(i, <<>>)
        /\ view' = [view EXCEPT ![wire[i].user] = "queued"]
        /\ listening' = listening \cup ({wire[i].user} \cap Virtual)
  BY DEF Activate
<1> QED
  BY <1>1, AtHead, NoneMore

(* Whom ZPOPMIN returns is out of the line, and gets one SET. *)
LEMMA PopBatchSends ==
    ASSUME TypeOK, Numbered, PopBatch
    PROVE  LET batch == FirstOf(wire[1].arg)
               cmds == Admissions(batch)
           IN  /\ 1 \in DOMAIN wire /\ wire[1].op = "zpopmin"
               /\ batch \in SUBSET Waiting
               /\ score' = [u \in Users |-> IF u \in batch THEN 0 ELSE score[u]]
               /\ Grows(1, cmds) /\ cmds \in Seq(Commands)
<1> DEFINE batch(i) == FirstOf(wire[i].arg)
<1>1. PICK i \in At("zpopmin") :
        /\ score' = [u \in Users |-> IF u \in batch(i) THEN 0 ELSE score[u]]
        /\ Reply(i, Admissions(batch(i)))
  BY DEF PopBatch
<1>2. i = 1 /\ i \in Executed /\ 1 \in DOMAIN wire /\ wire[1].op = "zpopmin"
  BY AtHead
<1>3. batch(1) \in SUBSET Waiting
  BY DEF FirstOf
<1>4. Admissions(batch(1)) \in Seq(Commands)
  BY <1>3, AdmissionsAre
<1>5. Grows(1, Admissions(batch(1)))
  BY <1>1, <1>2, <1>4, ReplyGrows
<1> QED
  BY <1>1, <1>2, <1>3, <1>4, <1>5

(* The last SET is followed by ZCARD, the others by nothing. *)
LEMMA AdmitSends ==
    ASSUME TypeOK, Admit
    PROVE  /\ 1 \in DOMAIN wire /\ wire[1].op = "set"
           /\ admitted' = [admitted EXCEPT ![wire[1].user] = TRUE]
           /\ listening' = listening \ {wire[1].user}
           /\ \E cmds \in {<<>>, <<Cmd("zcard", NoUser, 0)>>} :
                 Grows(1, cmds) /\ cmds \in Seq(Commands)
<1> DEFINE more(i) == \E j \in DOMAIN wire \ {i} : wire[j].op = "set"
<1>1. PICK i \in At("set") :
        /\ admitted' = [admitted EXCEPT ![wire[i].user] = TRUE]
        /\ listening' = listening \ {wire[i].user}
        /\ Reply(i, IF more(i) THEN <<>> ELSE <<Cmd("zcard", NoUser, 0)>>)
  BY DEF Admit
<1> HIDE DEF more
<1>2. "zcard" \in Ops
  BY DEF Ops
<1>3. CASE more(i)
  BY <1>1, <1>3, AtHead, NoneMore
<1>4. CASE ~more(i)
  BY <1>1, <1>2, <1>4, AtHead, OneMore
<1> QED
  BY <1>3, <1>4

-----------------------------------------------------------------------------
(* Types *)

LEMMA WireType ==
    ASSUME TypeOK, Numbered, [Next]_vars
    PROVE  wire' \in Seq(Commands)
<1>1. ASSUME NEW u \in Users, Join(u) PROVE wire' \in Seq(Commands)
  BY <1>1, JoinSends DEF Grows
<1>2. CASE DropPermission
  BY <1>2, DropPermissionSends DEF Grows
<1>3. CASE DrawNumber
  BY <1>3, DrawNumberSends DEF Grows
<1>4. CASE Enqueue
  BY <1>4, EnqueueSends DEF Grows
<1>5. CASE Activate
  BY <1>5, ActivateSends DEF Grows
<1>6. CASE PopBatch
  BY <1>6, PopBatchSends DEF Grows
<1>7. CASE Admit
  BY <1>7, AdmitSends DEF Grows
<1>8. CASE Crash
  BY <1>8 DEF Crash
<1>9. CASE Aside
  BY <1>9, Bystanders DEF Bystander, Grows
<1> QED
  BY <1>1, <1>2, <1>3, <1>4, <1>5, <1>6, <1>7, <1>8, <1>9, Steps

(* The type of everything but the wire. *)
Rest ==
    /\ score \in [Users -> Nat]
    /\ seq \in Nat
    /\ admitted \in [Users -> BOOLEAN]
    /\ active \in BOOLEAN
    /\ tick \in {"idle", "busy", "listed", "counting"}
    /\ desired \in 0..MaxBatch
    /\ calls \in [Users -> 0..MaxCalls]
    /\ resets \in 0..MaxResets
    /\ crashes \in 0..MaxCrashes
    /\ view \in [Users -> {"none", "joining", "queued", "admitted", "expired"}]
    /\ rankSeen \in [Users -> BOOLEAN]
    /\ listening \in SUBSET Virtual
    /\ hold \in [Users -> {"none", "held", "settled"}]

LEMMA TypePreserved ==
    ASSUME TypeOK, Numbered, [Next]_vars
    PROVE  TypeOK'
<1>0. Rest
  BY DEF TypeOK, Rest
<1> SUFFICES Rest'
  <2>1. wire' \in Seq([op : Ops, user : Users \cup {NoUser}, arg : Nat])
    BY WireType DEF Commands
  <2> QED
    BY <2>1 DEF TypeOK, Rest
<1> USE AdmissionAssumption DEF Rest, redisVars, workerVars, boundVars, pageVars
<1>1. ASSUME NEW u \in Users, Join(u) PROVE Rest'
  BY <1>0, <1>1 DEF Join
<1>2. CASE DropPermission
  BY <1>0, <1>2 DEF DropPermission
<1>3. CASE DrawNumber
  BY <1>0, <1>3 DEF DrawNumber
<1>4. CASE Enqueue
  <2>1. score' \in [Users -> Nat]
    BY <1>0, <1>4, EnqueueSends
  <2> QED
    BY <1>0, <1>4, <2>1 DEF Enqueue
<1>5. CASE Activate
  <2>1. view' = [view EXCEPT ![wire[1].user] = "queued"] /\ listening' \in SUBSET Virtual
    BY <1>0, <1>5, ActivateSends
  <2>2. view' \in [Users -> {"none", "joining", "queued", "admitted", "expired"}]
    BY <1>0, <2>1
  <2> QED
    BY <1>0, <1>5, <2>1, <2>2 DEF Activate
<1>6. CASE PopBatch
  <2>0. \E B \in SUBSET Waiting :
           score' = [u \in Users |-> IF u \in B THEN 0 ELSE score[u]]
    BY <1>6, PopBatchSends
  <2>1. score' \in [Users -> Nat]
    <3>1. score \in [Users -> Nat]
      BY <1>0
    <3> HIDE DEF Rest
    <3> QED
      BY ONLY <2>0, <3>1
  <2> QED
    BY <1>0, <1>6, <2>1 DEF PopBatch
<1>7. CASE Admit
  BY <1>0, <1>7 DEF Admit
<1>8. CASE Crash
  BY <1>0, <1>8 DEF Crash
<1>9. CASE Aside
  <2>1. CASE TickStarts
    BY <1>0, <2>1 DEF TickStarts
  <2>2. CASE TickReachesEvent
    BY <1>0, <2>2 DEF TickReachesEvent
  <2>3. CASE CountHeld
    BY <1>0, <2>3 DEF CountHeld
  <2>4. CASE ListActive
    BY <1>0, <2>4 DEF ListActive
  <2>5. CASE MeasureLine
    <3>1. Cardinality(Waiting) \in Nat
      BY WaitingFinite
    <3>2. \A n \in Nat : BatchSizes(n) \subseteq 0..MaxBatch
      BY DEF BatchSizes
    <3>3. desired' \in 0..MaxBatch
      BY <2>5, <3>1, <3>2 DEF MeasureLine
    <3> QED
      BY <1>0, <2>5, <3>3 DEF MeasureLine
  <2>6. CASE TestEmpty
    BY <1>0, <2>6 DEF TestEmpty
  <2>7. CASE Deactivate
    BY <1>0, <2>7 DEF Deactivate
  <2>8. CASE Reset
    BY <1>0, <2>8 DEF Reset
  <2>9. CASE PurgeLine
    BY <1>0, <2>9 DEF PurgeLine
  <2>10. CASE PurgeCasual
    BY <1>0, <2>10 DEF PurgeCasual
  <2>11. CASE PurgeLoadTest
    BY <1>0, <2>11 DEF PurgeLoadTest
  <2>12. CASE ReadRank
    <3>1. PICK i \in At("zrank") :
            rankSeen' = [rankSeen EXCEPT ![wire[i].user] = wire[i].user \in Waiting]
      BY <2>12 DEF ReadRank
    <3> DEFINE found == wire[i].user \in Waiting
    <3>2. found \in BOOLEAN /\ rankSeen' = [rankSeen EXCEPT ![wire[i].user] = found]
      BY <3>1
    <3> HIDE DEF found
    <3>3. rankSeen' \in [Users -> BOOLEAN]
      BY <1>0, <3>2
    <3> QED
      BY <1>0, <2>12, <3>3 DEF ReadRank
  <2>13. CASE ReadPermission
    <3>1. PICK u \in Users \cup {NoUser} :
            /\ view' = [view EXCEPT ![u] = IF @ = "joining" THEN @ ELSE Shown(u)]
            /\ rankSeen' = [rankSeen EXCEPT ![u] = FALSE]
      BY <2>13, AtHead DEF ReadPermission
    <3>2. Shown(u) \in {"admitted", "queued", "expired"}
      BY DEF Shown
    <3>3. view' \in [Users -> {"none", "joining", "queued", "admitted", "expired"}]
      BY <1>0, <3>1, <3>2
    <3>4. rankSeen' \in [Users -> BOOLEAN]
      BY <1>0, <3>1
    <3> QED
      BY <1>0, <2>13, <3>3, <3>4 DEF ReadPermission
  <2>14. ASSUME NEW u \in Users, Poll(u) \/ Lapse(u) \/ Book(u) \/ Settle(u) PROVE Rest'
    BY <1>0, <2>14 DEF Poll, Lapse, Book, Settle
  <2>15. CASE UNCHANGED vars
    BY <1>0, <2>15 DEF vars
  <2> QED
    BY <1>9, <2>1, <2>2, <2>3, <2>4, <2>5, <2>6, <2>7, <2>8, <2>9, <2>10, <2>11, <2>12, <2>13,
       <2>14, <2>15 DEF Aside, PurgeStep, StatusStep
<1> HIDE DEF Rest
<1> QED
  BY <1>1, <1>2, <1>3, <1>4, <1>5, <1>6, <1>7, <1>8, <1>9, Steps

-----------------------------------------------------------------------------
(* Numbers *)

(* Steps that draw no number and let nobody into the line keep their order. *)
LEMMA NumberedKept ==
    ASSUME TypeOK, TypeOK', Numbered, NEW d \in {0, 1}, NEW cmds \in Seq(Commands), Grows(d, cmds),
           \A j \in DOMAIN cmds : cmds[j].op # "zadd",
           \A u \in Users : score'[u] \in {score[u], 0}, seq' = seq
    PROVE  Numbered'
<1>0. score \in [Users -> Nat] /\ score' \in [Users -> Nat] /\ seq \in Nat
  BY DEF TypeOK
<1>1. \A u \in Users : score[u] \in Nat /\ score'[u] \in Nat /\ score'[u] <= score[u]
  BY <1>0
<1>2. \A u \in Users : score'[u] <= seq'
  BY <1>0, <1>1 DEF Numbered
<1>3. \A u, w \in Users : score'[u] = score'[w] /\ score'[u] # 0 => u = w
  BY DEF Numbered
<1>4. ASSUME NEW i \in DOMAIN wire', wire'[i].op = "zadd"
      PROVE  i + d \in DOMAIN wire /\ wire'[i] = wire[i + d]
  BY <1>4, Origin
<1>5. ASSUME NEW i \in DOMAIN wire', wire'[i].op = "zadd"
      PROVE  /\ wire'[i].arg <= seq'
             /\ \A u \in Users : score'[u] < wire'[i].arg
             /\ \A j \in DOMAIN wire' : wire'[j].op = "zadd" /\ i < j => wire'[i].arg < wire'[j].arg
  <2>1. i + d \in DOMAIN wire /\ wire'[i] = wire[i + d] /\ wire[i + d].op = "zadd"
    BY <1>4, <1>5
  <2>2. wire'[i].arg <= seq' /\ \A u \in Users : score[u] < wire'[i].arg
    BY <2>1 DEF Numbered
  <2>3. wire'[i].arg \in Nat
    BY <1>5, CommandType DEF Grows
  <2>4. \A u \in Users : score'[u] < wire'[i].arg
    BY <1>1, <2>2, <2>3
  <2>5. ASSUME NEW j \in DOMAIN wire', wire'[j].op = "zadd", i < j
        PROVE  wire'[i].arg < wire'[j].arg
    <3>1. j + d \in DOMAIN wire /\ wire'[j] = wire[j + d]
      BY <1>4, <2>5
    <3>2. i + d < j + d
      BY <2>5 DEF TypeOK
    <3> QED
      BY <2>1, <2>5, <3>1, <3>2 DEF Numbered
  <2> QED
    BY <2>2, <2>4, <2>5
<1> QED
  BY <1>2, <1>3, <1>5 DEF Numbered

LEMMA NumberedPreserved ==
    ASSUME TypeOK, TypeOK', Numbered, [Next]_vars
    PROVE  Numbered'
<1> USE DEF redisVars, workerVars, boundVars, pageVars
<1>1. ASSUME NEW u \in Users, Join(u) PROVE Numbered'
  <2>1. Grows(0, <<Cmd("del", u, 0)>>) /\ <<Cmd("del", u, 0)>> \in Seq(Commands)
    BY <1>1, JoinSends
  <2>2. \A j \in DOMAIN <<Cmd("del", u, 0)>> : <<Cmd("del", u, 0)>>[j].op # "zadd"
    BY DEF Cmd
  <2> QED
    BY <1>1, <2>1, <2>2, NumberedKept DEF Join
<1>2. CASE DropPermission
  <2> DEFINE cmds == <<Cmd("incr", wire[1].user, 0)>>
  <2>1. Grows(1, cmds) /\ cmds \in Seq(Commands)
    BY <1>2, DropPermissionSends
  <2>2. \A j \in DOMAIN cmds : cmds[j].op # "zadd"
    BY DEF Cmd
  <2> HIDE DEF cmds
  <2> QED
    BY <1>2, <2>1, <2>2, NumberedKept DEF DropPermission
<1>3. CASE DrawNumber
  <2> DEFINE new == Cmd("zadd", wire[1].user, seq + 1)
             cmds == <<new>>
  <2>1. Grows(1, cmds) /\ cmds \in Seq(Commands) /\ Len(cmds) = 1 /\ DOMAIN cmds = {1} /\ cmds[1] = new
    BY <1>3, DrawNumberSends
  <2> HIDE DEF cmds
  <2>2. score' = score /\ seq' = seq + 1 /\ seq \in Nat
    BY <1>3 DEF DrawNumber, TypeOK
  <2>3. \A u \in Users : score'[u] \in Nat /\ score'[u] <= seq
    BY <2>2 DEF Numbered, TypeOK
  <2>4. ASSUME NEW i \in DOMAIN wire', wire'[i].op = "zadd"
        PROVE  \/ i + 1 \in DOMAIN wire /\ wire'[i] = wire[i + 1]
               \/ i = Len(wire') /\ wire'[i].arg = seq + 1
    <3>1. CASE i + 1 \in DOMAIN wire /\ wire'[i] = wire[i + 1]
      BY <3>1
    <3>2. CASE \E j \in DOMAIN cmds : i = Len(wire) - 1 + j /\ wire'[i] = cmds[j]
      <4>1. i = Len(wire) - 1 + 1 /\ wire'[i] = new
        BY <2>1, <3>2
      <4>2. Len(wire') = Len(wire) - 1 + 1
        BY <2>1 DEF Grows
      <4> QED
        BY <4>1, <4>2 DEF Cmd
    <3>3. \/ i + 1 \in DOMAIN wire /\ i + 1 > 1 /\ wire'[i] = wire[i + 1]
          \/ \E j \in DOMAIN cmds : i = Len(wire) - 1 + j /\ wire'[i] = cmds[j]
      <4> HIDE DEF new
      <4> QED
        BY <2>1, Origin
    <3> QED
      BY <3>1, <3>2, <3>3
  <2>5. ASSUME NEW i \in DOMAIN wire', wire'[i].op = "zadd"
        PROVE  /\ wire'[i].arg \in Nat /\ wire'[i].arg <= seq + 1
               /\ i + 1 \in DOMAIN wire /\ wire'[i] = wire[i + 1] => wire'[i].arg <= seq
               /\ \A u \in Users : score'[u] < wire'[i].arg
    <3>1. CASE i + 1 \in DOMAIN wire /\ wire'[i] = wire[i + 1]
      <4>1. wire'[i].arg \in Nat
        BY <2>1, <2>5, CommandType DEF Grows
      <4>2. wire'[i].arg <= seq /\ \A u \in Users : score[u] < wire'[i].arg
        BY <2>5, <3>1 DEF Numbered
      <4> QED
        BY <2>2, <4>1, <4>2
    <3>2. CASE ~(i + 1 \in DOMAIN wire /\ wire'[i] = wire[i + 1])
      BY <2>2, <2>3, <2>4, <2>5, <3>2
    <3> QED
      BY <3>1, <3>2
  <2>6. ASSUME NEW i \in DOMAIN wire', wire'[i].op = "zadd",
               NEW j \in DOMAIN wire', wire'[j].op = "zadd", i < j
        PROVE  wire'[i].arg < wire'[j].arg
    <3>1. i # Len(wire') /\ i \in Int /\ j \in Int
      BY SMTT(40), <2>6 DEF TypeOK
    <3>2. i + 1 \in DOMAIN wire /\ wire'[i] = wire[i + 1]
      BY <2>4, <2>6, <3>1
    <3>3. CASE j + 1 \in DOMAIN wire /\ wire'[j] = wire[j + 1]
      <4>1. i + 1 < j + 1
        BY <2>6, <3>1
      <4> QED
        BY <2>6, <3>2, <3>3, <4>1 DEF Numbered
    <3>4. CASE wire'[j].arg = seq + 1
      BY <2>2, <2>5, <2>6, <3>2, <3>4
    <3> QED
      BY <2>4, <2>6, <3>3, <3>4
  <2>7. \A u \in Users : score'[u] <= seq'
    BY <2>2, <2>3
  <2>8. \A u, w \in Users : score'[u] = score'[w] /\ score'[u] # 0 => u = w
    BY <2>2 DEF Numbered
  <2> QED
    BY <2>2, <2>5, <2>6, <2>7, <2>8 DEF Numbered
<1>4. CASE Enqueue
  <2> DEFINE v == wire[1].user
             n == wire[1].arg
             cmds == <<Cmd("sadd", v, 0)>>
  <2>1. /\ 1 \in DOMAIN wire /\ wire[1].op = "zadd" /\ n \in Nat
        /\ score' = [score EXCEPT ![v] = IF @ = 0 THEN n ELSE @]
        /\ Grows(1, cmds) /\ cmds \in Seq(Commands)
    BY <1>4, EnqueueSends
  <2>2. seq' = seq
    BY <1>4 DEF Enqueue
  <2>3. \A j \in DOMAIN cmds : cmds[j].op # "zadd"
    BY DEF Cmd
  <2>4. n <= seq /\ \A u \in Users : score[u] < n
    BY <2>1 DEF Numbered
  <2>5. /\ \A u \in Users : u # v => score'[u] = score[u]
        /\ v \in Users => score'[v] = IF score[v] = 0 THEN n ELSE score[v]
    BY <2>1 DEF TypeOK
  <2>6. \A u \in Users : score[u] \in Nat /\ score'[u] \in Nat
    BY DEF TypeOK
  <2> HIDE DEF v, n, cmds
  <2>7. \A u \in Users : score'[u] <= seq' /\ score'[u] <= n
    BY <2>1, <2>2, <2>4, <2>5, <2>6 DEF Numbered
  <2>8. ASSUME NEW u \in Users, NEW w \in Users, score'[u] = score'[w], score'[u] # 0
        PROVE  u = w
    <3>1. \A x \in Users : score[x] # n
      BY <2>1, <2>4, <2>6
    <3>2. \A x \in Users : score'[x] = n => x = v
      BY <2>5, <3>1
    <3>3. \A x \in Users : score'[x] # n => score'[x] = score[x]
      BY <2>5
    <3> QED
      BY <2>8, <3>2, <3>3 DEF Numbered
  <2>9. ASSUME NEW i \in DOMAIN wire', wire'[i].op = "zadd"
        PROVE  i + 1 \in DOMAIN wire /\ i + 1 > 1 /\ wire'[i] = wire[i + 1]
    BY <2>1, <2>3, <2>9, Origin
  <2>10. ASSUME NEW i \in DOMAIN wire', wire'[i].op = "zadd"
         PROVE  /\ wire'[i].arg <= seq'
                /\ \A u \in Users : score'[u] < wire'[i].arg
                /\ \A j \in DOMAIN wire' : wire'[j].op = "zadd" /\ i < j => wire'[i].arg < wire'[j].arg
    <3>1. i + 1 \in DOMAIN wire /\ 1 < i + 1 /\ wire'[i] = wire[i + 1] /\ wire[i + 1].op = "zadd"
      BY <2>9, <2>10
    <3>2. wire'[i].arg <= seq' /\ n < wire'[i].arg
      BY <2>1, <2>2, <3>1 DEF Numbered, n
    <3>3. wire'[i].arg \in Nat
      BY <2>1, <2>10, CommandType DEF Grows
    <3>4. \A u \in Users : score'[u] < wire'[i].arg
      BY <2>1, <2>6, <2>7, <3>2, <3>3
    <3>5. ASSUME NEW j \in DOMAIN wire', wire'[j].op = "zadd", i < j
          PROVE  wire'[i].arg < wire'[j].arg
      <4>1. j + 1 \in DOMAIN wire /\ wire'[j] = wire[j + 1]
        BY <2>9, <3>5
      <4>2. i + 1 < j + 1
        BY <3>5 DEF TypeOK
      <4> QED
        BY <3>1, <3>5, <4>1, <4>2 DEF Numbered
    <3> QED
      BY <3>2, <3>4, <3>5
  <2> QED
    BY <2>7, <2>8, <2>10 DEF Numbered
<1>5. CASE Activate
  <2>1. Grows(1, <<>>) /\ <<>> \in Seq(Commands)
    BY <1>5, ActivateSends
  <2>2. \A j \in DOMAIN <<>> : <<>>[j].op # "zadd"
    OBVIOUS
  <2>3. score' = score /\ seq' = seq
    BY <1>5 DEF Activate
  <2> QED
    BY <2>1, <2>2, <2>3, NumberedKept
<1>6. CASE PopBatch
  <2> DEFINE batch == FirstOf(wire[1].arg)
             cmds == Admissions(batch)
  <2>1. /\ batch \in SUBSET Waiting
        /\ score' = [u \in Users |-> IF u \in batch THEN 0 ELSE score[u]]
        /\ Grows(1, cmds) /\ cmds \in Seq(Commands)
    BY <1>6, PopBatchSends
  <2>2. ASSUME NEW j \in DOMAIN cmds PROVE cmds[j].op # "zadd"
    <3>1. cmds[j] = Cmd("zcard", NoUser, 0) \/ \E u \in batch : cmds[j] = Cmd("set", u, 0)
      BY <2>1, AdmissionsAre
    <3> HIDE DEF cmds
    <3> QED
      BY <3>1 DEF Cmd
  <2>3. seq' = seq
    BY <1>6 DEF PopBatch
  <2>4. \A u \in Users : score'[u] \in {score[u], 0}
    BY <2>1
  <2> HIDE DEF cmds
  <2> QED
    BY <2>1, <2>2, <2>3, <2>4, NumberedKept
<1>7. CASE Admit
  <2>1. PICK cmds \in {<<>>, <<Cmd("zcard", NoUser, 0)>>} : Grows(1, cmds) /\ cmds \in Seq(Commands)
    BY <1>7, AdmitSends
  <2>2. \A j \in DOMAIN cmds : cmds[j].op # "zadd"
    BY DEF Cmd
  <2> QED
    BY <1>7, <2>1, <2>2, NumberedKept DEF Admit
<1>8. CASE Crash
  BY <1>8 DEF Crash, Numbered
<1>9. CASE Aside
  <2>1. PICK d \in {0, 1} : \E cmds : Bystander(d, cmds)
    BY <1>9, Bystanders
  <2>2. PICK cmds : Bystander(d, cmds)
    BY <2>1
  <2>3. cmds \in Seq(Commands) /\ Grows(d, cmds) /\ \A j \in DOMAIN cmds : cmds[j].op # "zadd"
    BY <2>2 DEF Bystander, Tracked
  <2> QED
    BY <2>2, <2>3, NumberedKept DEF Bystander
<1> QED
  BY <1>1, <1>2, <1>3, <1>4, <1>5, <1>6, <1>7, <1>8, <1>9, Steps

LEMMA InitTyped == Init => TypeOK /\ Numbered
<1> SUFFICES ASSUME Init PROVE TypeOK /\ Numbered
  OBVIOUS
<1>1. Rest
  <2>1. MaxBatch \in Nat /\ MaxCalls \in Nat /\ MaxResets \in Nat /\ MaxCrashes \in Nat
    BY AdmissionAssumption
  <2>2. 0 \in 0..MaxBatch /\ 0 \in 0..MaxCalls /\ 0 \in 0..MaxResets /\ 0 \in 0..MaxCrashes
    BY <2>1
  <2>3. score \in [Users -> Nat] /\ calls \in [Users -> 0..MaxCalls]
    BY <2>2 DEF Init
  <2>4. admitted \in [Users -> BOOLEAN] /\ rankSeen \in [Users -> BOOLEAN]
    BY DEF Init
  <2>5. /\ view \in [Users -> {"none", "joining", "queued", "admitted", "expired"}]
        /\ hold \in [Users -> {"none", "held", "settled"}]
    BY DEF Init
  <2>6. seq \in Nat /\ active \in BOOLEAN /\ listening \in SUBSET Virtual /\ tick = "idle"
    BY DEF Init
  <2>7. desired = 0 /\ resets = 0 /\ crashes = 0
    BY DEF Init
  <2> QED
    BY <2>2, <2>3, <2>4, <2>5, <2>6, <2>7 DEF Rest
<1>2. wire = <<>> /\ wire \in Seq([op : Ops, user : Users \cup {NoUser}, arg : Nat])
  BY DEF Init
<1>3. TypeOK
  BY <1>1, <1>2 DEF TypeOK, Rest
<1>4. Numbered
  BY <1>2 DEF Init, Numbered
<1> QED
  BY <1>3, <1>4

(* The variables keep their types, however many join, and what is popped   *)
(* always gets one SET per user: numbers in the line are all different, so *)
(* that the k-th of a batch exists.                                        *)
THEOREM QueueTypes == Spec => []TypeOK
<1>1. TypeOK /\ Numbered /\ [Next]_vars => TypeOK' /\ Numbered'
  BY TypePreserved, NumberedPreserved
<1> QED
  BY InitTyped, <1>1, PTL DEF Spec

(* Why nobody is overtaken: INCR and ZADD of a join are two commands, but  *)
(* a number that is still to be entered is larger than every one in the    *)
(* line, and numbers are entered in the order they were drawn.             *)
THEOREM QueueNumbered == Spec => []Numbered
<1>1. TypeOK /\ Numbered /\ [Next]_vars => TypeOK' /\ Numbered'
  BY TypePreserved, NumberedPreserved
<1> QED
  BY InitTyped, <1>1, PTL DEF Spec

(* QueueService.join draws a number with INCR and enters it with ZADD in a *)
(* second command, and still no batch that ZPOPMIN takes leaves behind a   *)
(* smaller number that is on its way: commands reach Redis in the order of *)
(* their numbers, through any restart, any reset and any interleaving.     *)
THEOREM NobodyOvertakes == Spec => NoOvertaking
<1> DEFINE Step == \A u \in Users :
         score[u] # 0 /\ score'[u] = 0 /\ (\E i \in DOMAIN wire' : wire'[i] = Cmd("set", u, 0)) =>
           \A i \in DOMAIN wire : wire[i].op = "zadd" =>
             wire[i].arg > score[u] \/ wire[i].user \in Waiting
<1>1. ASSUME TypeOK, Numbered PROVE Step
  <2> SUFFICES ASSUME NEW u \in Users, NEW i \in DOMAIN wire, wire[i].op = "zadd"
               PROVE  wire[i].arg > score[u]
    OBVIOUS
  <2>1. score[u] < wire[i].arg
    BY <1>1 DEF Numbered
  <2>2. score[u] \in Nat /\ wire[i].arg \in Nat
    BY <1>1, WireTyped, CommandType DEF TypeOK
  <2> QED
    BY <2>1, <2>2
<1>2. TypeOK /\ Numbered /\ [Next]_vars => [Step]_vars
  BY <1>1
<1> QED
  BY QueueTypes, QueueNumbered, <1>2, PTL DEF Spec, NoOvertaking

-----------------------------------------------------------------------------
(* The set of active queues *)

LEMMA PurgedKept ==
    ASSUME TypeOK, PurgedByReset, NEW d \in {0, 1}, NEW cmds \in Seq(Commands), Grows(d, cmds),
           Spares(d, cmds)
    PROVE  PurgedByReset'
<1> SUFFICES ASSUME resets' = 0, NEW i \in DOMAIN wire', wire'[i].op \in Purging
             PROVE  FALSE
  BY DEF PurgedByReset
<1>1. resets = 0
  BY DEF Spares
<1>2. \A j \in DOMAIN wire : wire[j].op \notin Purging
  BY <1>1 DEF PurgedByReset
<1>3. \A j \in DOMAIN cmds : cmds[j].op \notin Purging
  BY <1>2 DEF Spares, Executes
<1>4. \/ i + d \in DOMAIN wire /\ wire'[i] = wire[i + d]
      \/ \E j \in DOMAIN cmds : wire'[i] = cmds[j]
  BY Origin
<1> QED
  BY <1>2, <1>3, <1>4

(* Unless somebody enters the line or his join ends, a join that puts the  *)
(* event back stays behind every removal.                                  *)
LEMMA ReactivatedKept ==
    ASSUME TypeOK, PurgedByReset, Reactivated, LoadTest => resets = 0,
           NEW d \in {0, 1}, NEW cmds \in Seq(Commands), Grows(d, cmds), Spares(d, cmds),
           ~Executes(d, {"sadd"}), crashes' = crashes,
           \A u \in Users : score'[u] \in {score[u], 0}
    PROVE  Reactivated'
<1> SUFFICES ASSUME Waiting' # {}, crashes' = 0
             PROVE  \/ active' /\ \A i \in DOMAIN wire' : wire'[i].op \notin Removing
                    \/ \E j \in DOMAIN wire' :
                         wire'[j].op = "sadd" /\ \A i \in DOMAIN wire' : i > j => wire'[i].op \notin Removing
  BY DEF Reactivated, Removing
<1>1. Waiting # {} /\ crashes = 0
  BY DEF Waiting
<1>2. ~(LoadTest /\ Executes(d, Purging))
  BY DEF PurgedByReset, Executes
<1>3. \A j \in DOMAIN cmds : cmds[j].op \notin Removing
  BY <1>2 DEF Spares
<1>4. ASSUME NEW i \in DOMAIN wire', wire'[i].op \in Removing
      PROVE  i + d \in DOMAIN wire /\ wire[i + d].op \in Removing
  <2>1. \/ i + d \in DOMAIN wire /\ wire'[i] = wire[i + d]
        \/ \E j \in DOMAIN cmds : wire'[i] = cmds[j]
    BY Origin
  <2> QED
    BY <1>3, <1>4, <2>1
<1>5. CASE active /\ \A i \in DOMAIN wire : wire[i].op \notin Removing
  <2>1. active' = active
    BY <1>5 DEF Spares, Executes
  <2> QED
    BY <1>4, <1>5, <2>1
<1>6. ASSUME NEW j \in DOMAIN wire, wire[j].op = "sadd",
             \A i \in DOMAIN wire : i > j => wire[i].op \notin Removing
      PROVE  \E k \in DOMAIN wire' :
               wire'[k].op = "sadd" /\ \A i \in DOMAIN wire' : i > k => wire'[i].op \notin Removing
  <2>1. j \in Nat \ {0} /\ DOMAIN wire = 1..Len(wire)
    BY DEF TypeOK
  <2>2. j > d
    BY <1>6, <2>1 DEF Executes
  <2>3. j - d \in DOMAIN wire' /\ wire'[j - d].op = "sadd"
    BY <1>6, <2>2, Stays
  <2>4. ASSUME NEW i \in DOMAIN wire', i > j - d, wire'[i].op \in Removing PROVE FALSE
    <3>1. i + d \in DOMAIN wire /\ wire[i + d].op \in Removing
      BY <1>4, <2>4
    <3>2. i \in Nat
      BY CommandType DEF Grows
    <3>3. i + d > j
      BY <2>1, <2>4, <3>2
    <3> QED
      BY <1>6, <3>1, <3>3
  <2> QED
    BY <2>3, <2>4
<1> QED
  BY <1>1, <1>5, <1>6 DEF Reactivated

LEMMA ActivityPreserved ==
    ASSUME ~LoadTest \/ MaxResets = 0,
           TypeOK, Numbered, PurgedByReset, Reactivated, [Next]_vars
    PROVE  PurgedByReset' /\ Reactivated'
<1> USE DEF redisVars, workerVars, boundVars, pageVars
<1>0. LoadTest => resets = 0
  BY DEF TypeOK
<1>1. ASSUME NEW u \in Users, Join(u) PROVE PurgedByReset' /\ Reactivated'
  <2> DEFINE cmds == <<Cmd("del", u, 0)>>
  <2>1. Grows(0, cmds) /\ cmds \in Seq(Commands)
    BY <1>1, JoinSends
  <2>2. "del" \notin Purging /\ "del" \notin Removing
    BY DEF Purging, Removing
  <2>3. active' = active /\ resets' = resets /\ crashes' = crashes /\ score' = score
    BY <1>1 DEF Join
  <2>4. Spares(0, cmds)
    BY <2>2, <2>3, SparesOne
  <2>5. ~Executes(0, {"sadd"})
    BY DEF Executes
  <2> HIDE DEF cmds
  <2> QED
    BY <1>0, <2>1, <2>3, <2>4, <2>5, PurgedKept, ReactivatedKept
<1>2. CASE DropPermission
  <2> DEFINE cmds == <<Cmd("incr", wire[1].user, 0)>>
  <2>1. Grows(1, cmds) /\ cmds \in Seq(Commands) /\ wire[1].op = "del"
    BY <1>2, DropPermissionSends
  <2>2. "incr" \notin Purging /\ "incr" \notin Removing
    BY DEF Purging, Removing
  <2>3. active' = active /\ resets' = resets /\ crashes' = crashes /\ score' = score
    BY <1>2 DEF DropPermission
  <2>4. Spares(1, cmds)
    BY <2>2, <2>3, SparesOne
  <2>5. ~Executes(1, {"sadd"})
    BY <2>1 DEF Executes
  <2> HIDE DEF cmds
  <2> QED
    BY <1>0, <2>1, <2>3, <2>4, <2>5, PurgedKept, ReactivatedKept
<1>3. CASE DrawNumber
  <2> DEFINE cmds == <<Cmd("zadd", wire[1].user, seq + 1)>>
  <2>1. Grows(1, cmds) /\ cmds \in Seq(Commands) /\ wire[1].op = "incr"
    BY <1>3, DrawNumberSends
  <2>2. "zadd" \notin Purging /\ "zadd" \notin Removing
    BY DEF Purging, Removing
  <2>3. active' = active /\ resets' = resets /\ crashes' = crashes /\ score' = score
    BY <1>3 DEF DrawNumber
  <2>4. Spares(1, cmds)
    BY <2>2, <2>3, SparesOne
  <2>5. ~Executes(1, {"sadd"})
    BY <2>1 DEF Executes
  <2> HIDE DEF cmds
  <2> QED
    BY <1>0, <2>1, <2>3, <2>4, <2>5, PurgedKept, ReactivatedKept
<1>4. CASE Enqueue
  <2> DEFINE cmds == <<Cmd("sadd", wire[1].user, 0)>>
  <2>1. Grows(1, cmds) /\ cmds \in Seq(Commands)
    BY <1>4, EnqueueSends
  <2>2. "sadd" \notin Purging /\ "sadd" \notin Removing
    BY DEF Purging, Removing
  <2>3. active' = active /\ resets' = resets
    BY <1>4 DEF Enqueue
  <2>4. Spares(1, cmds)
    BY <2>2, <2>3, SparesOne
  <2>5. 1 \in DOMAIN cmds /\ cmds[1].op = "sadd" /\ Len(cmds) = 1
    BY DEF Cmd
  <2> HIDE DEF cmds
  <2>6. PurgedByReset'
    BY <2>1, <2>4, PurgedKept
  <2>7. Len(wire) - 1 + 1 \in DOMAIN wire' /\ wire'[Len(wire) - 1 + 1].op = "sadd"
    BY <2>1, <2>5, Appended
  <2>8. \A i \in DOMAIN wire' : ~(i > Len(wire) - 1 + 1)
    BY <2>1, <2>5 DEF Grows
  <2>9. \E j \in DOMAIN wire' :
          wire'[j].op = "sadd" /\ \A i \in DOMAIN wire' : i > j => wire'[i].op \notin Removing
    BY <2>7, <2>8
  <2> QED
    BY <2>6, <2>9 DEF Reactivated, Removing
<1>5. CASE Activate
  <2>1. Grows(1, <<>>) /\ <<>> \in Seq(Commands)
    BY <1>5, ActivateSends
  <2>2. active' = TRUE /\ resets' = resets /\ crashes' = crashes /\ score' = score
    BY <1>5 DEF Activate
  <2>3. ASSUME NEW i \in DOMAIN wire'
        PROVE  i + 1 \in DOMAIN wire /\ i + 1 > 1 /\ wire'[i] = wire[i + 1]
    <3> DEFINE cmds == <<>>
    <3>1. Grows(1, cmds) /\ cmds \in Seq(Commands) /\ DOMAIN cmds = {}
      BY <2>1
    <3> HIDE DEF cmds
    <3> QED
      BY <3>1, Origin
  <2>4. PurgedByReset'
    BY <2>2, <2>3 DEF PurgedByReset
  <2>5. ASSUME Waiting' # {}, crashes' = 0
        PROVE  \/ \A i \in DOMAIN wire' : wire'[i].op \notin Removing
               \/ \E j \in DOMAIN wire' :
                    wire'[j].op = "sadd" /\ \A i \in DOMAIN wire' : i > j => wire'[i].op \notin Removing
    <3>1. Waiting # {} /\ crashes = 0
      BY <2>2, <2>5 DEF Waiting
    <3>2. CASE \A i \in DOMAIN wire : wire[i].op \notin Removing
      BY <2>3, <3>2
    <3>3. ASSUME NEW j \in DOMAIN wire, wire[j].op = "sadd",
                 \A i \in DOMAIN wire : i > j => wire[i].op \notin Removing
          PROVE  \/ \A i \in DOMAIN wire' : wire'[i].op \notin Removing
                 \/ \E k \in DOMAIN wire' :
                      wire'[k].op = "sadd" /\ \A i \in DOMAIN wire' : i > k => wire'[i].op \notin Removing
      <4>1. j \in Nat \ {0} /\ DOMAIN wire = 1..Len(wire)
        BY DEF TypeOK
      <4>2. \A i \in DOMAIN wire' : i \in Nat
        BY <2>1, CommandType DEF Grows
      <4>3. CASE j = 1
        BY <2>3, <3>3, <4>3
      <4>4. CASE j # 1
        <5>1. j - 1 \in DOMAIN wire' /\ wire'[j - 1].op = "sadd"
          <6>1. j > 1
            BY <4>1, <4>4
          <6> QED
            BY <2>1, <3>3, <6>1, Stays
        <5>2. ASSUME NEW i \in DOMAIN wire', i > j - 1 PROVE wire'[i].op \notin Removing
          <6>1. i + 1 > j
            BY <4>1, <4>2, <5>2
          <6> QED
            BY <2>3, <3>3, <6>1
        <5> QED
          BY <5>1, <5>2
      <4> QED
        BY <4>3, <4>4
    <3> QED
      BY <3>1, <3>2, <3>3 DEF Reactivated
  <2> QED
    BY <2>2, <2>4, <2>5 DEF Reactivated, Removing
<1>6. CASE PopBatch
  <2> DEFINE batch == FirstOf(wire[1].arg)
             cmds == Admissions(batch)
  <2>1. /\ batch \in SUBSET Waiting /\ wire[1].op = "zpopmin"
        /\ score' = [u \in Users |-> IF u \in batch THEN 0 ELSE score[u]]
        /\ Grows(1, cmds) /\ cmds \in Seq(Commands)
    BY <1>6, PopBatchSends
  <2>2. ASSUME NEW j \in DOMAIN cmds PROVE cmds[j].op \notin Purging /\ cmds[j].op \notin Removing
    <3>1. cmds[j] = Cmd("zcard", NoUser, 0) \/ \E u \in batch : cmds[j] = Cmd("set", u, 0)
      BY <2>1, AdmissionsAre
    <3>2. cmds[j].op \in {"zcard", "set"}
      <4> HIDE DEF cmds
      <4> QED
        BY <3>1 DEF Cmd
    <3> QED
      BY <3>2 DEF Purging, Removing
  <2>3. active' = active /\ resets' = resets /\ crashes' = crashes
    BY <1>6 DEF PopBatch
  <2>4. \A u \in Users : score'[u] \in {score[u], 0}
    BY <2>1
  <2> HIDE DEF cmds
  <2>5. Spares(1, cmds)
    BY <2>2, <2>3 DEF Spares
  <2>6. ~Executes(1, {"sadd"})
    BY <2>1 DEF Executes
  <2> QED
    BY <1>0, <2>1, <2>3, <2>4, <2>5, <2>6, PurgedKept, ReactivatedKept
<1>7. CASE Admit
  <2>1. PICK cmds \in {<<>>, <<Cmd("zcard", NoUser, 0)>>} : Grows(1, cmds) /\ cmds \in Seq(Commands)
    BY <1>7, AdmitSends
  <2>2. active' = active /\ resets' = resets /\ crashes' = crashes /\ score' = score
    BY <1>7 DEF Admit
  <2>3. "zcard" \notin Purging /\ "zcard" \notin Removing
    BY DEF Purging, Removing
  <2>4. Spares(1, cmds)
    BY <2>2, <2>3, SparesNone, SparesOne
  <2>5. ~Executes(1, {"sadd"})
    BY <1>7, AdmitSends DEF Executes
  <2> QED
    BY <1>0, <2>1, <2>2, <2>4, <2>5, PurgedKept, ReactivatedKept
<1>8. CASE Crash
  <2>1. wire' = <<>> /\ crashes' # 0
    BY <1>8 DEF Crash, TypeOK
  <2> QED
    BY <2>1 DEF PurgedByReset, Reactivated
<1>9. CASE Aside
  <2>1. PICK d \in {0, 1} : \E cmds : Bystander(d, cmds) /\ Spares(d, cmds)
    BY <1>9, Bystanders
  <2>2. PICK cmds : Bystander(d, cmds) /\ Spares(d, cmds)
    BY <2>1
  <2>3. cmds \in Seq(Commands) /\ Grows(d, cmds) /\ ~Executes(d, {"sadd"})
    BY <2>2 DEF Bystander, Executes, Tracked
  <2>4. crashes' = crashes /\ \A u \in Users : score'[u] \in {score[u], 0}
    BY <2>2 DEF Bystander
  <2> QED
    BY <1>0, <2>2, <2>3, <2>4, PurgedKept, ReactivatedKept
<1> QED
  BY <1>1, <1>2, <1>3, <1>4, <1>5, <1>6, <1>7, <1>8, <1>9, Steps

(* join puts a user in the line with ZADD and the event in the set of      *)
(* active queues with a later SADD, deactivateIfEmpty tests the line with  *)
(* ZCARD and takes the event out with a later SREM, and purge deletes both *)
(* with separate commands: whatever of these is under way, a line with     *)
(* somebody in it is in the set or about to be put there, until the first  *)
(* restart. Of load-test events it holds until their first reset: purge    *)
(* has one more command for them, of which the README says what it costs.  *)
THEOREM QueueStaysActive ==
    ASSUME ~LoadTest \/ MaxResets = 0
    PROVE  Spec => []ActiveIfWaiting
<1>1. Init => PurgedByReset /\ Reactivated
  BY DEF Init, PurgedByReset, Reactivated, Waiting
<1>2. TypeOK /\ Numbered /\ PurgedByReset /\ Reactivated /\ [Next]_vars
        => PurgedByReset' /\ Reactivated'
  BY ActivityPreserved
<1>3. Reactivated => ActiveIfWaiting
  BY DEF Reactivated, ActiveIfWaiting
<1> QED
  BY QueueTypes, QueueNumbered, <1>1, <1>2, <1>3, PTL DEF Spec

-----------------------------------------------------------------------------
(* Virtual users *)

MovingOps == {"del", "incr", "zadd", "set"}
Moves(c, u) == c.user = u /\ c.op \in MovingOps

(* What JoinsOnce and HearsInTime say of one virtual user. *)
Once(u) ==
    /\ \A i \in DOMAIN wire : Moves(wire[i], u) =>
          /\ calls[u] = 1 /\ score[u] = 0
          /\ \A j \in DOMAIN wire : Moves(wire[j], u) => i = j
    /\ score[u] # 0 => calls[u] = 1

Hears(u) ==
    u \notin listening =>
        /\ score[u] # 0 => \E j \in DOMAIN wire : Returns(j, u)
        /\ \A i \in DOMAIN wire : wire[i].op = "set" /\ wire[i].user = u =>
              \E j \in DOMAIN wire : j < i /\ Returns(j, u)

LEMMA EachUser ==
    /\ JoinsOnce <=> (crashes = 0 => \A u \in Virtual : Once(u))
    /\ HearsInTime <=> (crashes = 0 => \A u \in Virtual : Hears(u))
BY DEF JoinsOnce, HearsInTime, Once, Hears, Moves, MovingOps, Moving

(* A step that does not move him. *)
LEMMA OnceKept ==
    ASSUME TypeOK, NEW u \in Users, Once(u), NEW d \in {0, 1}, NEW cmds \in Seq(Commands),
           Grows(d, cmds), \A k \in DOMAIN cmds : ~Moves(cmds[k], u),
           score'[u] \in {score[u], 0}, calls'[u] = calls[u]
    PROVE  Once(u)'
<1>1. ASSUME NEW i \in DOMAIN wire', Moves(wire'[i], u)
      PROVE  i + d \in DOMAIN wire /\ Moves(wire[i + d], u)
  <2>1. \/ i + d \in DOMAIN wire /\ wire'[i] = wire[i + d]
        \/ \E j \in DOMAIN cmds : wire'[i] = cmds[j]
    BY Origin
  <2> QED
    BY <1>1, <2>1
<1>2. \A i \in DOMAIN wire' : i \in Nat
  BY CommandType DEF Grows
<1>3. ASSUME NEW i \in DOMAIN wire', Moves(wire'[i], u)
      PROVE  calls'[u] = 1 /\ score'[u] = 0
  BY <1>1, <1>3 DEF Once
<1>4. ASSUME NEW i \in DOMAIN wire', Moves(wire'[i], u), NEW j \in DOMAIN wire', Moves(wire'[j], u)
      PROVE  i = j
  <2>1. i + d = j + d
    BY <1>1, <1>4 DEF Once
  <2> QED
    BY <1>2, <2>1
<1>5. score'[u] # 0 => calls'[u] = 1
  BY DEF Once
<1> QED
  BY <1>3, <1>4, <1>5 DEF Once, Moves

(* A step that takes him out of one place and puts him into another. *)
LEMMA OnceMoved ==
    ASSUME TypeOK, NEW u \in Users, NEW d \in {0, 1}, NEW cmds \in Seq(Commands), Grows(d, cmds),
           \A i \in DOMAIN wire : i > d => ~Moves(wire[i], u),
           calls'[u] = 1,
           \A k \in DOMAIN cmds : Moves(cmds[k], u) =>
              score'[u] = 0 /\ \A j \in DOMAIN cmds : Moves(cmds[j], u) => k = j
    PROVE  Once(u)'
<1>1. ASSUME NEW i \in DOMAIN wire', Moves(wire'[i], u)
      PROVE  \E k \in DOMAIN cmds : i = Len(wire) - d + k /\ wire'[i] = cmds[k]
  <2>1. \/ i + d \in DOMAIN wire /\ i + d > d /\ wire'[i] = wire[i + d]
        \/ \E j \in DOMAIN cmds : i = Len(wire) - d + j /\ wire'[i] = cmds[j]
    BY Origin
  <2> QED
    BY <1>1, <2>1
<1>2. ASSUME NEW i \in DOMAIN wire', Moves(wire'[i], u), NEW j \in DOMAIN wire', Moves(wire'[j], u)
      PROVE  i = j
  <2>1. PICK k \in DOMAIN cmds : i = Len(wire) - d + k /\ wire'[i] = cmds[k]
    BY <1>1, <1>2
  <2>2. PICK l \in DOMAIN cmds : j = Len(wire) - d + l /\ wire'[j] = cmds[l]
    BY <1>1, <1>2
  <2> QED
    BY <1>2, <2>1, <2>2
<1>3. ASSUME NEW i \in DOMAIN wire', Moves(wire'[i], u) PROVE score'[u] = 0
  BY <1>1, <1>3
<1> QED
  BY <1>2, <1>3 DEF Once, Moves

(* A step that leaves him listening if he did, and admits no others than   *)
(* those it finds in the line.                                             *)
LEMMA HearsKept ==
    ASSUME TypeOK, NEW u \in Users, Hears(u), NEW d \in {0, 1}, NEW cmds \in Seq(Commands),
           Grows(d, cmds), u \in listening => u \in listening',
           d = 1 => 1 \in DOMAIN wire /\ ~Returns(1, u),
           \/ score'[u] # 0 => score[u] # 0
           \/ \E k \in DOMAIN cmds : cmds[k].op = "sadd" /\ cmds[k].user = u,
           \A k \in DOMAIN cmds : cmds[k].op = "set" /\ cmds[k].user = u => score[u] # 0
    PROVE  Hears(u)'
<1> SUFFICES ASSUME u \notin listening'
             PROVE  /\ score'[u] # 0 =>
                         \E j \in DOMAIN wire' : wire'[j].op = "sadd" /\ wire'[j].user = u
                    /\ \A i \in DOMAIN wire' : wire'[i].op = "set" /\ wire'[i].user = u =>
                         \E j \in DOMAIN wire' : j < i /\ wire'[j].op = "sadd" /\ wire'[j].user = u
  BY DEF Hears, Returns
<1>1. u \notin listening
  OBVIOUS
<1>2. Len(wire) \in Nat /\ DOMAIN wire = 1..Len(wire) /\ DOMAIN cmds \subseteq Nat \ {0}
  BY DEF TypeOK
<1>3. ASSUME NEW j \in DOMAIN wire, Returns(j, u)
      PROVE  j > d /\ j - d \in DOMAIN wire' /\ wire'[j - d] = wire[j]
  <2>1. j > d
    BY <1>2, <1>3
  <2> QED
    BY <2>1, Stays
<1>4. ASSUME score'[u] # 0
      PROVE  \E j \in DOMAIN wire' : wire'[j].op = "sadd" /\ wire'[j].user = u
  <2>1. CASE \E k \in DOMAIN cmds : cmds[k].op = "sadd" /\ cmds[k].user = u
    BY <2>1, Appended
  <2>2. CASE score[u] # 0
    <3>1. PICK j \in DOMAIN wire : Returns(j, u)
      BY <1>1, <2>2 DEF Hears
    <3> QED
      BY <1>3, <3>1 DEF Returns
  <2> QED
    BY <1>4, <2>1, <2>2
<1>5. ASSUME NEW i \in DOMAIN wire', wire'[i].op = "set", wire'[i].user = u
      PROVE  \E j \in DOMAIN wire' : j < i /\ wire'[j].op = "sadd" /\ wire'[j].user = u
  <2>1. CASE i + d \in DOMAIN wire /\ wire'[i] = wire[i + d]
    <3>1. PICK j \in DOMAIN wire : j < i + d /\ Returns(j, u)
      BY <1>1, <1>5, <2>1 DEF Hears
    <3>2. j - d \in DOMAIN wire' /\ wire'[j - d] = wire[j]
      BY <1>3, <3>1
    <3>3. i \in Nat
      BY CommandType DEF Grows
    <3>4. j - d < i
      BY <1>2, <3>1, <3>3
    <3> QED
      BY <3>1, <3>2, <3>4 DEF Returns
  <2>2. CASE \E k \in DOMAIN cmds : i = Len(wire) - d + k /\ wire'[i] = cmds[k]
    <3>1. PICK k \in DOMAIN cmds : i = Len(wire) - d + k /\ wire'[i] = cmds[k]
      BY <2>2
    <3>2. score[u] # 0
      BY <1>5, <3>1
    <3>3. PICK j \in DOMAIN wire : Returns(j, u)
      BY <1>1, <3>2 DEF Hears
    <3>4. j - d \in DOMAIN wire' /\ wire'[j - d] = wire[j]
      BY <1>3, <3>3
    <3>5. j - d < i
      BY <1>2, <3>1
    <3> QED
      BY <3>3, <3>4, <3>5 DEF Returns
  <2> QED
    BY <2>1, <2>2, Origin
<1> QED
  BY <1>4, <1>5

LEMMA NoRestart ==
    ASSUME TypeOK, [Next]_vars, crashes' = 0
    PROVE  crashes = 0 /\ ~Crash
<1> USE DEF boundVars
<1>1. ASSUME Crash PROVE FALSE
  BY <1>1 DEF Crash, TypeOK
<1>2. ASSUME NEW u \in Users, Join(u) PROVE crashes' = crashes
  BY <1>2 DEF Join
<1>3. CASE DropPermission \/ DrawNumber \/ Enqueue \/ Activate \/ PopBatch \/ Admit
  BY <1>1, <1>3 DEF DropPermission, DrawNumber, Enqueue, Activate, PopBatch, Admit
<1>4. CASE Aside
  BY <1>1, <1>4, Bystanders DEF Bystander
<1> QED
  BY <1>1, <1>2, <1>3, <1>4, Steps

(* He whose command is executed is nowhere else. *)
LEMMA OnlyHead ==
    ASSUME TypeOK, NEW u \in Users, Once(u), 1 \in DOMAIN wire, Moves(wire[1], u)
    PROVE  calls[u] = 1 /\ score[u] = 0 /\ \A i \in DOMAIN wire : i > 1 => ~Moves(wire[i], u)
BY DEF Once

(* A handler of join goes on with the next command for the same user. *)
LEMMA OncePassedOn ==
    ASSUME TypeOK, NEW u \in Users, Once(u), 1 \in DOMAIN wire, NEW op, NEW n,
           wire[1].op \in MovingOps, <<Cmd(op, wire[1].user, n)>> \in Seq(Commands),
           Grows(1, <<Cmd(op, wire[1].user, n)>>),
           op \in MovingOps => score'[u] = score[u],
           wire[1].user # u => score'[u] = score[u], calls'[u] = calls[u]
    PROVE  Once(u)'
<1> DEFINE cmds == <<Cmd(op, wire[1].user, n)>>
<1>1. cmds \in Seq(Commands) /\ Grows(1, cmds) /\ DOMAIN cmds = {1} /\ cmds[1] = Cmd(op, wire[1].user, n)
  OBVIOUS
<1> HIDE DEF cmds
<1>2. CASE wire[1].user = u
  <2>1. Moves(wire[1], u)
    BY <1>2 DEF Moves
  <2>2. calls[u] = 1 /\ score[u] = 0 /\ \A i \in DOMAIN wire : i > 1 => ~Moves(wire[i], u)
    BY <2>1, OnlyHead
  <2>3. Moves(cmds[1], u) => score'[u] = 0
    BY <1>1, <2>2 DEF Moves, Cmd
  <2> QED
    BY <1>1, <2>2, <2>3, OnceMoved
<1>3. CASE wire[1].user # u
  <2>1. ~Moves(cmds[1], u)
    BY <1>1, <1>3 DEF Moves, Cmd
  <2> QED
    BY <1>1, <1>3, <2>1, OnceKept
<1> QED
  BY <1>2, <1>3

LEMMA VirtualPreserved ==
    ASSUME TypeOK, TypeOK', Numbered, JoinsOnce, HearsInTime, [Next]_vars
    PROVE  JoinsOnce' /\ HearsInTime'
<1> SUFFICES ASSUME crashes' = 0, NEW u \in Virtual PROVE Once(u)' /\ Hears(u)'
  <2>1. (JoinsOnce <=> (crashes = 0 => \A u \in Virtual : Once(u)))'
    BY EachUser, PTL
  <2>2. (HearsInTime <=> (crashes = 0 => \A u \in Virtual : Hears(u)))'
    BY EachUser, PTL
  <2> QED
    BY <2>1, <2>2
<1>0. u \in Users /\ Once(u) /\ Hears(u)
  BY NoRestart, EachUser, AdmissionAssumption
<1> USE DEF redisVars, workerVars, boundVars, pageVars
<1>1. ASSUME NEW v \in Users, Join(v) PROVE Once(u)' /\ Hears(u)'
  <2> DEFINE cmds == <<Cmd("del", v, 0)>>
  <2>1. /\ Grows(0, cmds) /\ cmds \in Seq(Commands)
        /\ DOMAIN cmds = {1} /\ cmds[1].op = "del" /\ cmds[1].user = v
    BY <1>1, JoinSends DEF Cmd
  <2>2. /\ score' = score /\ listening' = listening /\ calls' = [calls EXCEPT ![v] = @ + 1]
        /\ v \in Virtual => calls[v] < 1
    BY <1>1 DEF Join
  <2>3. calls \in [Users -> 0..MaxCalls] /\ MaxCalls \in Nat
    BY AdmissionAssumption DEF TypeOK
  <2> HIDE DEF cmds
  <2>4. Hears(u)'
    BY <1>0, <2>1, <2>2, HearsKept
  <2>5. CASE v = u
    <3>1. calls[u] = 0
      BY <1>0, <2>2, <2>3, <2>5
    <3>2. calls'[u] = 1
      BY <1>0, <2>2, <2>3, <2>5, <3>1
    <3>3. score[u] = 0 /\ \A i \in DOMAIN wire : ~Moves(wire[i], u)
      BY <1>0, <3>1 DEF Once
    <3> QED
      BY <1>0, <2>1, <2>2, <2>4, <3>2, <3>3, OnceMoved
  <2>6. CASE v # u
    <3>1. calls'[u] = calls[u]
      BY <1>0, <2>2, <2>3, <2>6
    <3>2. ~Moves(cmds[1], u)
      BY <2>1, <2>6 DEF Moves
    <3> QED
      BY <1>0, <2>1, <2>2, <2>4, <3>1, <3>2, OnceKept
  <2> QED
    BY <2>5, <2>6
<1>2. CASE DropPermission
  <2> DEFINE cmds == <<Cmd("incr", wire[1].user, 0)>>
  <2>1. /\ 1 \in DOMAIN wire /\ wire[1].op = "del" /\ Grows(1, cmds) /\ cmds \in Seq(Commands)
        /\ DOMAIN cmds = {1} /\ cmds[1].op = "incr"
    BY <1>2, DropPermissionSends DEF Cmd
  <2>2. score' = score /\ listening' = listening /\ calls' = calls
    BY <1>2 DEF DropPermission
  <2>3. Once(u)'
    BY <1>0, <2>1, <2>2, OncePassedOn DEF MovingOps
  <2>4. ~Returns(1, u)
    BY <2>1 DEF Returns
  <2> HIDE DEF cmds
  <2>5. Hears(u)'
    BY <1>0, <2>1, <2>2, <2>4, HearsKept
  <2> QED
    BY <2>3, <2>5
<1>3. CASE DrawNumber
  <2> DEFINE cmds == <<Cmd("zadd", wire[1].user, seq + 1)>>
  <2>1. /\ 1 \in DOMAIN wire /\ wire[1].op = "incr" /\ Grows(1, cmds) /\ cmds \in Seq(Commands)
        /\ DOMAIN cmds = {1} /\ cmds[1].op = "zadd"
    BY <1>3, DrawNumberSends DEF Cmd
  <2>2. score' = score /\ listening' = listening /\ calls' = calls
    BY <1>3 DEF DrawNumber
  <2>3. Once(u)'
    BY <1>0, <2>1, <2>2, OncePassedOn DEF MovingOps
  <2>4. ~Returns(1, u)
    BY <2>1 DEF Returns
  <2> HIDE DEF cmds
  <2>5. Hears(u)'
    BY <1>0, <2>1, <2>2, <2>4, HearsKept
  <2> QED
    BY <2>3, <2>5
<1>4. CASE Enqueue
  <2> DEFINE v == wire[1].user
             cmds == <<Cmd("sadd", v, 0)>>
  <2>1. /\ 1 \in DOMAIN wire /\ wire[1].op = "zadd" /\ Grows(1, cmds) /\ cmds \in Seq(Commands)
        /\ DOMAIN cmds = {1} /\ cmds[1].op = "sadd" /\ cmds[1].user = v
        /\ score' = [score EXCEPT ![v] = IF @ = 0 THEN wire[1].arg ELSE @]
    BY <1>4, EnqueueSends DEF Cmd
  <2>2. listening' = listening /\ calls' = calls
    BY <1>4 DEF Enqueue
  <2>3. v # u => score'[u] = score[u]
    BY <1>0, <2>1 DEF TypeOK
  <2>4. Once(u)'
    BY <1>0, <2>1, <2>2, <2>3, OncePassedOn DEF MovingOps
  <2>5. ~Returns(1, u)
    BY <2>1 DEF Returns
  <2> HIDE DEF cmds, v
  <2>6. Hears(u)'
    BY <1>0, <2>1, <2>2, <2>3, <2>5, HearsKept
  <2> QED
    BY <2>4, <2>6
<1>5. CASE Activate
  <2> DEFINE cmds == <<>>
  <2>1. /\ 1 \in DOMAIN wire /\ wire[1].op = "sadd"
        /\ listening' = listening \cup ({wire[1].user} \cap Virtual)
        /\ Grows(1, cmds) /\ cmds \in Seq(Commands) /\ DOMAIN cmds = {}
    BY <1>5, ActivateSends
  <2>2. score' = score /\ calls' = calls
    BY <1>5 DEF Activate
  <2> HIDE DEF cmds
  <2>3. Once(u)'
    BY <1>0, <2>1, <2>2, OnceKept
  <2>4. CASE wire[1].user = u
    <3>1. u \in listening'
      BY <2>1, <2>4
    <3> QED
      BY <2>3, <3>1 DEF Hears
  <2>5. CASE wire[1].user # u
    <3>1. ~Returns(1, u)
      BY <2>5 DEF Returns
    <3>2. Hears(u)'
      BY <1>0, <2>1, <2>2, <3>1, HearsKept
    <3> QED
      BY <2>3, <3>2
  <2> QED
    BY <2>4, <2>5
<1>6. CASE PopBatch
  <2> DEFINE batch == FirstOf(wire[1].arg)
             cmds == Admissions(batch)
  <2>1. /\ 1 \in DOMAIN wire /\ wire[1].op = "zpopmin" /\ batch \in SUBSET Waiting
        /\ score' = [v \in Users |-> IF v \in batch THEN 0 ELSE score[v]]
        /\ Grows(1, cmds) /\ cmds \in Seq(Commands)
    BY <1>6, PopBatchSends
  <2>2. /\ \A k \in DOMAIN cmds :
             \/ cmds[k] = Cmd("zcard", NoUser, 0)
             \/ \E v \in batch : cmds[k] = Cmd("set", v, 0)
        /\ \A j, k \in DOMAIN cmds : \A v \in Users :
             cmds[j] = Cmd("set", v, 0) /\ cmds[k] = Cmd("set", v, 0) => j = k
    BY <2>1, AdmissionsAre
  <2>3. listening' = listening /\ calls' = calls
    BY <1>6 DEF PopBatch
  <2>4. ~Returns(1, u)
    BY <2>1 DEF Returns
  <2> HIDE DEF cmds
  <2>5. ASSUME NEW k \in DOMAIN cmds, cmds[k].user = u, cmds[k].op \in {"set"} \cup MovingOps
        PROVE  u \in batch /\ cmds[k] = Cmd("set", u, 0)
    <3>1. cmds[k] # Cmd("zcard", NoUser, 0)
      BY <2>5 DEF Cmd, MovingOps
    <3>2. PICK v \in batch : cmds[k] = Cmd("set", v, 0)
      BY <2>2, <3>1
    <3> QED
      BY <2>5, <3>2 DEF Cmd
  <2>6. u \in batch => score[u] # 0
    BY <2>1 DEF Waiting
  <2>7. score'[u] \in {score[u], 0} /\ (u \in batch => score'[u] = 0)
    BY <1>0, <2>1
  <2> HIDE DEF batch
  <2>8. Hears(u)'
    BY <1>0, <2>1, <2>3, <2>4, <2>5, <2>6, <2>7, HearsKept
  <2>9. CASE u \in batch
    <3>1. calls'[u] = 1 /\ \A i \in DOMAIN wire : ~Moves(wire[i], u)
      BY <1>0, <2>3, <2>6, <2>9 DEF Once
    <3>2. ASSUME NEW k \in DOMAIN cmds, Moves(cmds[k], u)
          PROVE  score'[u] = 0 /\ \A j \in DOMAIN cmds : Moves(cmds[j], u) => k = j
      BY <1>0, <2>2, <2>5, <2>7, <2>9, <3>2 DEF Moves
    <3> QED
      BY <1>0, <2>1, <2>8, <3>1, <3>2, OnceMoved
  <2>10. CASE u \notin batch
    <3>1. \A k \in DOMAIN cmds : ~Moves(cmds[k], u)
      BY <2>5, <2>10 DEF Moves
    <3> QED
      BY <1>0, <2>1, <2>3, <2>7, <2>8, <3>1, OnceKept
  <2> QED
    BY <2>9, <2>10
<1>7. CASE Admit
  <2>1. PICK cmds \in {<<>>, <<Cmd("zcard", NoUser, 0)>>} : Grows(1, cmds) /\ cmds \in Seq(Commands)
    BY <1>7, AdmitSends
  <2>2. 1 \in DOMAIN wire /\ wire[1].op = "set" /\ listening' = listening \ {wire[1].user}
    BY <1>7, AdmitSends
  <2>3. score' = score /\ calls' = calls
    BY <1>7 DEF Admit
  <2>4. \A k \in DOMAIN cmds : cmds[k].op = "zcard"
    BY DEF Cmd
  <2>5. \A k \in DOMAIN cmds : ~Moves(cmds[k], u) /\ cmds[k].op # "set"
    BY <2>4 DEF Moves, MovingOps
  <2>6. Once(u)'
    BY <1>0, <2>1, <2>3, <2>5, OnceKept
  <2>7. CASE wire[1].user = u
    <3>1. Moves(wire[1], u)
      BY <2>2, <2>7 DEF Moves, MovingOps
    <3>2. score[u] = 0 /\ \A i \in DOMAIN wire : i > 1 => ~Moves(wire[i], u)
      BY <1>0, <2>2, <3>1, OnlyHead
    <3>3. ASSUME NEW i \in DOMAIN wire', wire'[i].op = "set", wire'[i].user = u PROVE FALSE
      <4>1. \/ i + 1 \in DOMAIN wire /\ i + 1 > 1 /\ wire'[i] = wire[i + 1]
            \/ \E j \in DOMAIN cmds : wire'[i] = cmds[j]
        BY <2>1, Origin
      <4>2. \E j \in DOMAIN wire : j > 1 /\ Moves(wire[j], u)
        BY <2>5, <3>3, <4>1 DEF Moves, MovingOps
      <4> QED
        BY <3>2, <4>2
    <3>4. Hears(u)'
      BY <2>3, <3>2, <3>3 DEF Hears
    <3> QED
      BY <2>6, <3>4
  <2>8. CASE wire[1].user # u
    <3>1. (u \in listening => u \in listening') /\ ~Returns(1, u)
      BY <2>2, <2>8 DEF Returns
    <3>2. Hears(u)'
      BY <1>0, <2>1, <2>2, <2>3, <2>5, <3>1, HearsKept
    <3> QED
      BY <2>6, <3>2
  <2> QED
    BY <2>7, <2>8
<1>8. CASE Aside
  <2>1. PICK d \in {0, 1} : \E cmds : Bystander(d, cmds)
    BY <1>8, Bystanders
  <2>2. PICK cmds : Bystander(d, cmds)
    BY <2>1
  <2>3. /\ cmds \in Seq(Commands) /\ Grows(d, cmds) /\ score'[u] \in {score[u], 0}
        /\ listening' = listening /\ calls' = calls
    BY <1>0, <2>2 DEF Bystander
  <2>4. \A k \in DOMAIN cmds : ~Moves(cmds[k], u) /\ cmds[k].op # "set"
    BY <2>2 DEF Bystander, Tracked, Moves, MovingOps
  <2>5. d = 1 => 1 \in DOMAIN wire /\ ~Returns(1, u)
    BY <2>2 DEF Bystander, Tracked, Returns
  <2>6. Once(u)'
    BY <1>0, <2>3, <2>4, OnceKept
  <2>7. Hears(u)'
    BY <1>0, <2>3, <2>4, <2>5, HearsKept
  <2> QED
    BY <2>6, <2>7
<1> QED
  BY <1>1, <1>2, <1>3, <1>4, <1>5, <1>6, <1>7, <1>8, NoRestart, Steps

(* AdmissionProcessor publishes an admission once, on a bus that keeps     *)
(* nothing, and a virtual user subscribes only after joinLoadTest has      *)
(* returned, one command after his ZADD: even when he is popped before, *)
(* his subscription is in time, as the reply of his SADD comes before that *)
(* of his SET. (It holds for each process until it restarts.)              *)
THEOREM VirtualUsersHear == Spec => VirtualHearsAdmission
<1> DEFINE Step == \A u \in Virtual :
              admitted'[u] /\ ~admitted[u] /\ crashes = 0 => u \in listening
<1>1. Init => JoinsOnce /\ HearsInTime
  BY AdmissionAssumption DEF Init, JoinsOnce, HearsInTime, Moving, Returns
<1>2. TypeOK /\ Numbered /\ JoinsOnce /\ HearsInTime /\ [Next]_vars
        => JoinsOnce' /\ HearsInTime'
  BY TypePreserved, VirtualPreserved
<1>3. ASSUME TypeOK, Numbered, HearsInTime, [Next]_vars PROVE [Step]_vars
  <2> SUFFICES ASSUME NEW u \in Virtual, admitted'[u], ~admitted[u], crashes = 0, u \notin listening
               PROVE  FALSE
    OBVIOUS
  <2>1. u \in Users /\ admitted \in [Users -> BOOLEAN]
    BY <1>3, AdmissionAssumption DEF TypeOK
  <2> USE DEF redisVars, workerVars, boundVars, pageVars
  <2>2. CASE Admit
    <3>1. /\ 1 \in DOMAIN wire /\ wire[1].op = "set"
          /\ admitted' = [admitted EXCEPT ![wire[1].user] = TRUE]
      BY <1>3, <2>2, AdmitSends
    <3>2. wire[1].user = u
      BY <2>1, <3>1
    <3>3. PICK j \in DOMAIN wire : j < 1
      BY <1>3, <3>1, <3>2 DEF HearsInTime
    <3>4. j \in Nat \ {0}
      BY <1>3 DEF TypeOK
    <3> QED
      BY <3>3, <3>4
  <2>3. CASE DropPermission \/ \E v \in Users : Lapse(v)
    BY <2>1, <2>3 DEF DropPermission, Lapse
  <2>4. CASE admitted' = admitted
    BY <2>4
  <2>5. ASSUME ~Admit, ~DropPermission, ~\E v \in Users : Lapse(v) PROVE admitted' = admitted
    BY <1>3, <2>5 DEF Next, vars, Join, Poll, Book, Settle, JoinStep, DrawNumber, Enqueue, Activate,
       WorkerStep, TickStarts, TickReachesEvent, CountHeld, WorkerReply, ListActive, MeasureLine,
       PopBatch, TestEmpty, Deactivate, Reset, PurgeStep, PurgeLine, PurgeCasual, PurgeLoadTest,
       StatusStep, ReadRank, ReadPermission, Crash
  <2> QED
    BY <2>2, <2>3, <2>4, <2>5
<1>4. Spec => [](JoinsOnce /\ HearsInTime)
  BY QueueTypes, QueueNumbered, <1>1, <1>2, PTL DEF Spec
<1>5. TypeOK /\ Numbered /\ HearsInTime /\ [Next]_vars => [Step]_vars
  BY <1>3
<1> QED
  BY QueueTypes, QueueNumbered, <1>4, <1>5, PTL DEF Spec, VirtualHearsAdmission
=============================================================================
