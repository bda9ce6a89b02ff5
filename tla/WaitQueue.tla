------------------------------- MODULE WaitQueue -------------------------------
(***************************************************************************)
(* internal/gateway/push/channel_redis.go: the messages the gateways could *)
(* not put on a connection's channel in time.  A message waits on the list *)
(* "wait:push:<user>" in Redis, which all gateways share; each gateway     *)
(* keeps in memory the set of the users it watches, and a listener that    *)
(* goes round that set for ever, popping one message of each user and      *)
(* trying the channel again.  (internal/send/push/channel_cache.go has a   *)
(* copy of this code for the standalone mode.)                             *)
(*                                                                         *)
(* waitSet is a sync.Map, which go 1.25 ranges over in the order of the    *)
(* keys' hashes: the same order in every round, which Order stands for.    *)
(* Connections come and go in one step here (see GatewayConn).             *)
(***************************************************************************)
EXTENDS RedisList, Functions

CONSTANTS
  Gateways, Users,
  Msgs,          \* the messages dispatched here, each to one target
  For,           \* For[m]: the user message m is for
  Order,         \* Order[u]: u's place in the rounds
  Home,          \* Home[u]: the gateway u is connected to at first
  Reading,       \* the users whose client reads what is written to it
  ChanCap,       \* capacity of a send channel
  LocalCap,      \* capacity of a user's local channel (100)
  Retry,         \* attempts of a Redis command (2)
  MaxTroubles,   \* bound: attempts lost or failed and new connections
  Old,           \* a message from before
  Nowhere, NoUser, NoMsg

ASSUME WaitAssumption ==
  /\ IsFiniteSet(Gateways) /\ IsFiniteSet(Users)
  /\ For \in [Msgs -> Users]
  /\ Order \in [Users -> Nat \ {0}] /\ IsInjective(Order)
  /\ Home \in [Users -> Gateways]
  /\ Reading \subseteq Users
  /\ {ChanCap, LocalCap, Retry} \subseteq Nat \ {0}
  /\ MaxTroubles \in Nat
  /\ Old \notin Msgs /\ NoMsg \notin Msgs /\ NoUser \notin Users
  /\ Nowhere \notin Gateways

VARIABLES
  list,          \* list[u]: the list wait:push:<u>
  waitSet,       \* waitSet[g]: the users gateway g watches
  local,         \* local[g,u]: waitMsg, for when Redis is down; nobody receives
  at,            \* at[u]: the gateway u is connected to
  chan,          \* chan[u]: the send channel of u's connection
  ins,           \* ins[m]: the dispatch worker that has m
  lis,           \* lis[g]: the listener of g
  troubles,
  written,       \* history: written[m]: times m was written to its user
  gone,          \* history: gone[m]: copies of m no one has any more
  dup,           \* history: dup[m]: copies of m stored by attempts that were repeated
  late,          \* history: late[g]: g's workers pushed for lis[g].user since LLEN
  unwatched      \* history: users dropped from a wait set they belonged in

redisVars == <<list, troubles>>
connVars == <<at, chan>>
history == <<written, gone, dup, late, unwatched>>
vars == <<redisVars, waitSet, local, connVars, ins, lis, history>>

InsType == [pc : {"new", "load", "store", "push", "local", "done"},
            gw : Gateways \cup {Nowhere}, tries : 0 .. Retry]
LisType == [pc : {"range", "pop", "enqueue", "back", "len", "remove"}, pos : Nat,
            user : Users \cup {NoUser}, msg : Msgs \cup {NoMsg}, tries : 0 .. Retry]

TypeOK ==
  /\ list \in [Users -> Seq(Msgs)]
  /\ waitSet \in [Gateways -> SUBSET Users]
  /\ local \in [Gateways \X Users -> Seq(Msgs)]
  /\ at \in [Users -> Gateways \cup {Nowhere}]
  /\ chan \in [Users -> Seq(Msgs \cup {Old})]
  /\ \A u \in Users : Len(chan[u]) <= ChanCap
  /\ ins \in [Msgs -> InsType]
  /\ lis \in [Gateways -> LisType]
  /\ troubles \in 0 .. MaxTroubles
  /\ written \in [Msgs -> Nat] /\ gone \in [Msgs -> Nat] /\ dup \in [Msgs -> Nat]
  /\ late \in [Gateways -> BOOLEAN]
  /\ unwatched \subseteq Users

Worker(pc, g, tries) == [pc |-> pc, gw |-> g, tries |-> tries]
NotYet == Worker("new", Nowhere, 0)
Finished == Worker("done", Nowhere, 0)
\* The listener between two users of a round, and at one.
Ranging(i) == [pc |-> "range", pos |-> i, user |-> NoUser, msg |-> NoMsg, tries |-> 0]
Listener(w, pc, m, tries) ==
  [pc |-> pc, pos |-> w.pos, user |-> w.user, msg |-> m, tries |-> tries]

\* Users are connected, and their channels are full.
Init ==
  /\ list = [u \in Users |-> << >>]
  /\ waitSet = [g \in Gateways |-> {}]
  /\ local = [p \in Gateways \X Users |-> << >>]
  /\ at = Home
  /\ chan = [u \in Users |-> [i \in 1 .. ChanCap |-> Old]]
  /\ ins = [m \in Msgs |-> NotYet]
  /\ lis = [g \in Gateways |-> Ranging(0)]
  /\ troubles = 0
  /\ written = [m \in Msgs |-> 0] /\ gone = [m \in Msgs |-> 0] /\ dup = [m \in Msgs |-> 0]
  /\ late = [g \in Gateways |-> FALSE]
  /\ unwatched = {}

Trouble == troubles < MaxTroubles /\ troubles' = troubles + 1

Attempt(o) == IF o = "ok" THEN UNCHANGED troubles ELSE Trouble

\* Mutant of HasRoom: off by one.
HasRoomOneMore(u) == Len(chan[u]) <= ChanCap
\* The send on the channel succeeds in time.
HasRoom(u) == Len(chan[u]) < ChanCap

--------------------------------------------------------------------------------
(* Dispatch and InsertWaitQueue, by a dispatch worker. *)

\* The target has a connection here: the message is put on its channel, or the
\* 100 ms pass and it is for the wait queue.  (It is posted back if he has none.)
Dispatch(m) ==
  LET u == For[m] IN
  /\ ins[m].pc = "new" /\ at[u] # Nowhere
  /\ IF HasRoom(u)
     THEN /\ chan' = [chan EXCEPT ![u] = Append(@, m)]
          /\ ins' = [ins EXCEPT ![m] = Finished]
     ELSE /\ ins' = [ins EXCEPT ![m] = Worker("load", at[u], 0)]
          /\ UNCHANGED chan
  /\ UNCHANGED <<redisVars, waitSet, local, at, lis, history>>

\* InsertWaitSet: Load, then Store.
Load(m) ==
  /\ ins[m].pc = "load"
  /\ ins' = [ins EXCEPT ![m] =
               IF For[m] \in waitSet[ins[m].gw]
               THEN Worker("push", @.gw, Retry) ELSE Worker("store", @.gw, 0)]
  /\ UNCHANGED <<redisVars, waitSet, local, connVars, lis, history>>

Store(m) ==
  /\ ins[m].pc = "store"
  /\ waitSet' = [waitSet EXCEPT ![ins[m].gw] = @ \cup {For[m]}]
  /\ ins' = [ins EXCEPT ![m] = Worker("push", @.gw, Retry)]
  /\ UNCHANGED <<redisVars, local, connVars, lis, history>>

\* RPUSH; the message is put on the local channel when the attempts have failed.
Push(m, o) ==
  LET u == For[m]
      g == ins[m].gw
  IN
  /\ ins[m].pc = "push"
  /\ Attempt(o)
  /\ list' = [list EXCEPT ![u] = Pushed(@, m, o)]
  /\ ins' = [ins EXCEPT ![m] =
               IF TriesAgain(o, @.tries) THEN Again(@)
               ELSE IF Answers(o) THEN Finished ELSE Worker("local", @.gw, 0)]
  /\ dup' = [dup EXCEPT ![m] = @ + IF o = "lost" THEN 1 ELSE 0]
  /\ late' = [late EXCEPT ![g] = @ \/ (o # "failed" /\ lis[g].user = u)]
  /\ UNCHANGED <<waitSet, local, connVars, lis, written, gone, unwatched>>

\* InsertWaitMsg: nobody receives from the local channel; a worker waits for ever
\* when it is full.
Park(m) ==
  LET p == <<ins[m].gw, For[m]>> IN
  /\ ins[m].pc = "local"
  /\ Len(local[p]) < LocalCap
  /\ local' = [local EXCEPT ![p] = Append(@, m)]
  /\ ins' = [ins EXCEPT ![m] = Finished]
  /\ UNCHANGED <<redisVars, waitSet, connVars, lis, history>>

--------------------------------------------------------------------------------
(* ListeningWaitQueue. *)

Watched(g, i) == {u \in waitSet[g] : Order[u] > i}

\* Range comes to its next user.
Visit(g) ==
  /\ lis[g].pc = "range"
  /\ \E u \in Watched(g, lis[g].pos) :
       /\ \A v \in Watched(g, lis[g].pos) : Order[u] <= Order[v]
       /\ lis' = [lis EXCEPT ![g] = [pc |-> "pop", pos |-> Order[u], user |-> u,
                                     msg |-> NoMsg, tries |-> Retry]]
  /\ UNCHANGED <<redisVars, waitSet, local, connVars, ins, history>>

\* Mutant of RoundStart: the rounds are not started again.
RoundStartNot(g) == lis[g].pos
\* A round begins with the first user.
RoundStart(g) == 0

\* The round is over; after a second of sleep if nobody is watched.
NextRound(g) ==
  /\ lis[g].pc = "range" /\ lis[g].pos > 0
  /\ Watched(g, lis[g].pos) = {}
  /\ lis' = [lis EXCEPT ![g] = Ranging(RoundStart(g))]
  /\ UNCHANGED <<redisVars, waitSet, local, connVars, ins, history>>

\* LPOP; the round goes on when the list is empty or the attempts have failed.
Pop(g, o) ==
  LET u == lis[g].user IN
  /\ lis[g].pc = "pop"
  /\ Attempt(o)
  /\ list' = [list EXCEPT ![u] = Popped(@, o)]
  /\ lis' = [lis EXCEPT ![g] =
               IF TriesAgain(o, @.tries) THEN Again(@)
               ELSE IF Answers(o) /\ list[u] # << >>
               THEN Listener(@, "enqueue", Head(list[u]), 0)
               ELSE Ranging(@.pos)]
  /\ gone' = IF o = "lost" /\ list[u] # << >>
             THEN [gone EXCEPT ![Head(list[u])] = @ + 1] ELSE gone
  /\ UNCHANGED <<waitSet, local, connVars, ins, written, dup, late, unwatched>>

\* EnqueueMessage: no connection here, or no room for 100 ms, is for PutBack.
Enqueue(g) ==
  LET u == lis[g].user IN
  /\ lis[g].pc = "enqueue"
  /\ IF at[u] = g /\ HasRoom(u)
     THEN /\ chan' = [chan EXCEPT ![u] = Append(@, lis[g].msg)]
          /\ lis' = [lis EXCEPT ![g] = Listener(@, "len", NoMsg, 0)]
     ELSE /\ lis' = [lis EXCEPT ![g] = Listener(@, "back", @.msg, Retry)]
          /\ UNCHANGED chan
  /\ UNCHANGED <<redisVars, waitSet, local, at, ins, history>>

\* The message goes to the tail of the list, or is missed; this ends the round.
PutBack(g, o) ==
  LET u == lis[g].user
      m == lis[g].msg
  IN
  /\ lis[g].pc = "back"
  /\ Attempt(o)
  /\ list' = [list EXCEPT ![u] = Pushed(@, m, o)]
  /\ lis' = [lis EXCEPT ![g] =
               IF TriesAgain(o, @.tries) THEN Again(@)
               ELSE Ranging(RoundStart(g))]
  /\ dup' = [dup EXCEPT ![m] = @ + IF o = "lost" THEN 1 ELSE 0]
  /\ gone' = [gone EXCEPT ![m] = @ + IF GivesUp(o, lis[g].tries) THEN 1 ELSE 0]
  /\ UNCHANGED <<waitSet, local, connVars, ins, written, late, unwatched>>

\* Mutant of Emptied: the length is not looked at.
EmptiedAlways(u) == TRUE
\* LLEN is zero.
Emptied(u) == list[u] = << >>

\* One LLEN; an error keeps the user watched.
CheckLen(g, o) ==
  /\ lis[g].pc = "len"
  /\ Attempt(o)
  /\ lis' = [lis EXCEPT ![g] = IF Answers(o) /\ Emptied(@.user)
                               THEN Listener(@, "remove", NoMsg, 0) ELSE Ranging(@.pos)]
  /\ late' = [late EXCEPT ![g] = FALSE]
  /\ UNCHANGED <<list, waitSet, local, connVars, ins, written, gone, dup, unwatched>>

\* RemoveWaitSet.  A worker that has found or put the user in the set and pushes, or
\* has pushed since LLEN, counts on a listener that no longer comes.
Remove(g) ==
  LET u == lis[g].user IN
  /\ lis[g].pc = "remove"
  /\ waitSet' = [waitSet EXCEPT ![g] = @ \ {u}]
  /\ lis' = [lis EXCEPT ![g] = Ranging(@.pos)]
  /\ unwatched' = IF late[g] \/ \E m \in Msgs : /\ For[m] = u /\ ins[m].gw = g
                                                /\ ins[m].pc = "push"
                  THEN unwatched \cup {u} ELSE unwatched
  /\ UNCHANGED <<redisVars, local, connVars, ins, written, gone, dup, late>>

--------------------------------------------------------------------------------
(* The connections, and the gateway process. *)

Write(u) ==
  /\ chan[u] # << >>
  /\ chan' = [chan EXCEPT ![u] = Tail(@)]
  /\ written' = IF Head(chan[u]) \in Msgs
                THEN [written EXCEPT ![Head(chan[u])] = @ + 1] ELSE written
  /\ UNCHANGED <<redisVars, waitSet, local, at, ins, lis, gone, dup, late,
                 unwatched>>

\* What is on the channel of a connection that ends is GatewayConn's business.
Leave(u) ==
  /\ at[u] # Nowhere
  /\ Trouble
  /\ at' = [at EXCEPT ![u] = Nowhere]
  /\ chan' = [chan EXCEPT ![u] = << >>]
  /\ gone' = [m \in Msgs |-> gone[m] + Copies(chan[u], m)]
  /\ UNCHANGED <<list, waitSet, local, ins, lis, written, dup, late,
                 unwatched>>

Join(u, g) ==
  /\ at[u] = Nowhere
  /\ Trouble
  /\ at' = [at EXCEPT ![u] = g]
  /\ UNCHANGED <<list, waitSet, local, chan, ins, lis, history>>

One(b) == IF b THEN 1 ELSE 0

\* The process ends and starts again: the wait set, the local channels and what its
\* goroutines hold are lost with it.
Restart(g) ==
  LET here == {u \in Users : at[u] = g} IN
  /\ Trouble
  /\ waitSet' = [waitSet EXCEPT ![g] = {}]
  /\ local' = [p \in Gateways \X Users |-> IF p[1] = g THEN << >> ELSE local[p]]
  /\ at' = [u \in Users |-> IF u \in here THEN Nowhere ELSE at[u]]
  /\ chan' = [u \in Users |-> IF u \in here THEN << >> ELSE chan[u]]
  /\ ins' = [m \in Msgs |-> IF ins[m].gw = g THEN Finished ELSE ins[m]]
  /\ lis' = [lis EXCEPT ![g] = Ranging(0)]
  /\ gone' = [m \in Msgs |-> gone[m] + One(ins[m].gw = g) + One(lis[g].msg = m)
                             + CopiesAt(local, {g} \X Users, m) + CopiesAt(chan, here, m)]
  /\ late' = [late EXCEPT ![g] = FALSE]
  /\ unwatched' = unwatched \cup waitSet[g]
  /\ UNCHANGED <<list, written, dup>>

--------------------------------------------------------------------------------
Insert(m) == Load(m) \/ Store(m) \/ (\E o \in Outcomes : Push(m, o)) \/ Park(m)

Listen(g) ==
  \/ Visit(g) \/ NextRound(g) \/ Enqueue(g) \/ Remove(g)
  \/ \E o \in Outcomes : Pop(g, o) \/ PutBack(g, o) \/ CheckLen(g, o)

Next ==
  \/ \E m \in Msgs : Dispatch(m) \/ Insert(m)
  \/ \E g \in Gateways : Listen(g) \/ Restart(g)
  \/ \E u \in Users : Write(u) \/ Leave(u) \/ \E g \in Gateways : Join(u, g)

Spec == Init /\ [][Next]_vars

\* Goroutines run, and clients read; users need not come back.
Fairness ==
  /\ \A m \in Msgs : WF_vars(Insert(m))
  /\ \A g \in Gateways : WF_vars(Listen(g))
  /\ \A u \in Reading : WF_vars(Write(u))

FairSpec == Spec /\ Fairness

--------------------------------------------------------------------------------
(* Properties. *)

\* Where the copies of m are: with its worker, on the list, with a listener, on the
\* local channels, on the send channels.
Copied(m) ==
    One(ins[m].gw # Nowhere) + Copies(list[For[m]], m)
  + Cardinality({g \in Gateways : lis[g].msg = m})
  + CopiesAmong(local, m) + CopiesAmong(chan, m)

\* Every copy of a dispatched message is somewhere, and there are no more of them
\* than RPUSHes that were repeated after their answer was lost: the pop, the failed
\* enqueue and the put-back (:98-117), with any other gateway on the same list, lose
\* a message or make another of it only where an answer is lost, a put-back gives up,
\* a connection ends or a process does.
Conserved ==
  \A m \in Msgs : ins[m].pc # "new" =>
    Copied(m) + written[m] + gone[m] = 1 + dup[m]

\* Messages that wait are watched by some gateway, unless a restart lost the set or
\* a user was removed while a worker was adding to the list that had been found empty
\* (:121-130).
Attended ==
  \A u \in Users : list[u] # << >> =>
    \/ u \in unwatched
    \/ \E g \in Gateways : u \in waitSet[g]

\* g cannot get past a user before u in its rounds: what waits for him has no channel
\* to go to and ends each round (:117).
Hindered(g, u) ==
  \E v \in waitSet[g] : /\ Order[v] < Order[u]
                        /\ list[v] # << >> \/ (lis[g].user = v /\ lis[g].msg # NoMsg)
                        /\ ~ (at[v] = g /\ HasRoom(v))

\* Only g has m, on the list or in its listener, for a user who is connected to it.
Due(g, m) ==
  LET u == For[m] IN
  /\ at[u] = g /\ u \in Reading
  /\ u \in waitSet[g] /\ \A h \in Gateways \ {g} : u \notin waitSet[h]
  /\ Copies(list[u], m) > 0 \/ lis[g].msg = m
  /\ ~ Hindered(g, u)

\* A message does not wait for ever for a user who is connected, reads, and is watched
\* by his gateway alone, unless the rounds always end at another user.
Retried == \A g \in Gateways : \A m \in Msgs : []<>~Due(g, m)
================================================================================
