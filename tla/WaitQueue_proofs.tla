---------------------------- MODULE WaitQueue_proofs ---------------------------
(* Proofs about WaitQueue. *)
EXTENDS WaitQueue, Counting_proofs

MsgsOf(u) == {m \in Msgs : For[m] = u}

\* A worker with a message has a gateway; a listener off its round has a user, and
\* has a message of his between the pop and the channel or the put-back; the messages
\* on a list are for its user.
InsOK(w) == w.gw = Nowhere <=> w.pc \in {"new", "done"}

LisOK(w) ==
  /\ w.pc = "range" <=> w.user = NoUser
  /\ w.pc \in {"enqueue", "back"} => w.msg \in MsgsOf(w.user)
  /\ w.pc \notin {"enqueue", "back"} => w.msg = NoMsg

TypeInv ==
  /\ TypeOK
  /\ \A m \in Msgs : InsOK(ins[m])
  /\ \A g \in Gateways : LisOK(lis[g])
  /\ \A u \in Users : list[u] \in Seq(MsgsOf(u))

LEMMA Constants ==
  /\ ChanCap \in Nat /\ ChanCap > 0 /\ LocalCap \in Nat /\ LocalCap > 0
  /\ Retry \in Nat /\ Retry > 0 /\ MaxTroubles \in Nat
  /\ \A u \in Users : Order[u] \in Nat
  /\ \A m \in Msgs : For[m] \in Users /\ m # NoMsg /\ m # Old
  /\ \A u \in Users : u # NoUser /\ Home[u] \in Gateways
  /\ \A g \in Gateways : g # Nowhere
BY WaitAssumption

LEMMA Workers ==
  /\ NotYet \in InsType /\ InsOK(NotYet) /\ NotYet.gw = Nowhere /\ NotYet.pc = "new"
  /\ Finished \in InsType /\ InsOK(Finished) /\ Finished.gw = Nowhere /\ Finished.pc = "done"
  /\ \A g \in Gateways, pc \in {"load", "store", "push", "local"}, n \in 0 .. Retry :
       /\ Worker(pc, g, n) \in InsType /\ InsOK(Worker(pc, g, n))
       /\ Worker(pc, g, n).gw = g /\ Worker(pc, g, n).pc = pc
BY Constants DEF Worker, NotYet, Finished, InsType, InsOK

LEMMA Listeners ==
  /\ \A i \in Nat : /\ Ranging(i) \in LisType /\ LisOK(Ranging(i))
                    /\ Ranging(i).msg = NoMsg /\ Ranging(i).pc = "range"
                    /\ Ranging(i).user = NoUser
  /\ \A w \in LisType, n \in 0 .. Retry : w.user \in Users =>
       /\ \A pc \in {"len", "remove"} :
            /\ Listener(w, pc, NoMsg, n) \in LisType /\ LisOK(Listener(w, pc, NoMsg, n))
            /\ Listener(w, pc, NoMsg, n).msg = NoMsg
            /\ Listener(w, pc, NoMsg, n).user = w.user
            /\ Listener(w, pc, NoMsg, n).pc = pc
       /\ \A pc \in {"enqueue", "back"}, m \in MsgsOf(w.user) :
            /\ Listener(w, pc, m, n) \in LisType /\ LisOK(Listener(w, pc, m, n))
            /\ Listener(w, pc, m, n).msg = m
            /\ Listener(w, pc, m, n).user = w.user
            /\ Listener(w, pc, m, n).pc = pc
BY Constants DEF Ranging, Listener, LisType, LisOK, MsgsOf

LEMMA AgainWorker ==
  ASSUME NEW w \in InsType, InsOK(w), NEW o, TriesAgain(o, w.tries)
  PROVE  /\ Again(w) \in InsType /\ InsOK(Again(w))
         /\ Again(w).gw = w.gw /\ Again(w).pc = w.pc
BY Constants DEF InsType, InsOK, Again, TriesAgain

LEMMA AgainListener ==
  ASSUME NEW w \in LisType, LisOK(w), NEW o, TriesAgain(o, w.tries)
  PROVE  /\ Again(w) \in LisType /\ LisOK(Again(w))
         /\ Again(w).user = w.user /\ Again(w).pc = w.pc /\ Again(w).msg = w.msg
BY Constants DEF LisType, LisOK, Again, TriesAgain

LEMMA WorkerType ==
  ASSUME TypeInv, NEW m \in Msgs
  PROVE  /\ ins[m] \in InsType /\ InsOK(ins[m])
         /\ ins[m].pc \notin {"new", "done"} => ins[m].gw \in Gateways
         /\ ins[m].tries \in 0 .. Retry
BY DEF TypeInv, TypeOK, InsType, InsOK

LEMMA ListenerType ==
  ASSUME TypeInv, NEW g \in Gateways
  PROVE  /\ lis[g] \in LisType /\ LisOK(lis[g])
         /\ lis[g].pc # "range" => lis[g].user \in Users
         /\ lis[g].tries \in 0 .. Retry /\ lis[g].pos \in Nat
BY DEF TypeInv, TypeOK, LisType, LisOK

LEMMA WorkerMoves ==
  ASSUME TypeInv, NEW m \in Msgs, NEW w \in InsType, InsOK(w), ins' = [ins EXCEPT ![m] = w]
  PROVE  /\ ins' \in [Msgs -> InsType] /\ \A n \in Msgs : InsOK(ins'[n])
         /\ ins'[m] = w /\ \A n \in Msgs \ {m} : ins'[n] = ins[n]
BY DEF TypeInv, TypeOK

LEMMA ListenerMoves ==
  ASSUME TypeInv, NEW g \in Gateways, NEW w \in LisType, LisOK(w),
         lis' = [lis EXCEPT ![g] = w]
  PROVE  /\ lis' \in [Gateways -> LisType] /\ \A h \in Gateways : LisOK(lis'[h])
         /\ lis'[g] = w /\ \A h \in Gateways \ {g} : lis'[h] = lis[h]
BY DEF TypeInv, TypeOK

LEMMA MsgsOfUser == \A u \in Users : MsgsOf(u) \subseteq Msgs
BY DEF MsgsOf

LEMMA AttemptType ==
  ASSUME TypeInv, NEW o, Attempt(o) \/ Trouble
  PROVE  troubles' \in 0 .. MaxTroubles
BY Constants DEF TypeInv, TypeOK, Attempt, Trouble

\* What a changed list and a changed channel do to the types.
LEMMA ListMoves ==
  ASSUME TypeInv, NEW u \in Users, NEW s \in Seq(MsgsOf(u)), list' = [list EXCEPT ![u] = s]
  PROVE  /\ list' \in [Users -> Seq(Msgs)] /\ \A v \in Users : list'[v] \in Seq(MsgsOf(v))
         /\ list'[u] = s /\ \A v \in Users \ {u} : list'[v] = list[v]
<1>1. s \in Seq(Msgs)
  BY MsgsOfUser, SeqMonotonic
<1> QED BY <1>1 DEF TypeInv, TypeOK

LEMMA ChanMoves ==
  ASSUME TypeInv, NEW u \in Users, NEW s \in Seq(Msgs \cup {Old}), Len(s) <= ChanCap,
         chan' = [chan EXCEPT ![u] = s]
  PROVE  /\ chan' \in [Users -> Seq(Msgs \cup {Old})]
         /\ \A v \in Users : Len(chan'[v]) <= ChanCap
         /\ chan'[u] = s /\ \A v \in Users \ {u} : chan'[v] = chan[v]
BY DEF TypeInv, TypeOK

\* A message that is put on a channel with room.
LEMMA Enqueued ==
  ASSUME TypeInv, NEW u \in Users, HasRoom(u), NEW m \in Msgs
  PROVE  /\ Append(chan[u], m) \in Seq(Msgs \cup {Old})
         /\ Len(Append(chan[u], m)) <= ChanCap
<1>1. chan[u] \in Seq(Msgs \cup {Old}) /\ Len(chan[u]) \in Nat
  BY LenProperties DEF TypeInv, TypeOK
<1> QED BY <1>1, AppendProperties, Constants DEF HasRoom

LEMMA TypeInit == Init => TypeInv
<1> SUFFICES ASSUME Init PROVE TypeInv
  OBVIOUS
<1>1. chan \in [Users -> Seq(Msgs \cup {Old})] /\ \A u \in Users : Len(chan[u]) <= ChanCap
  BY Constants DEF Init
<1>2. ins \in [Msgs -> InsType] /\ \A m \in Msgs : InsOK(ins[m])
  BY Workers DEF Init
<1>3. lis \in [Gateways -> LisType] /\ \A g \in Gateways : LisOK(lis[g])
  BY Listeners DEF Init
<1>4. \A u \in Users : list[u] \in Seq(MsgsOf(u))
  BY DEF Init
<1>5. at \in [Users -> Gateways \cup {Nowhere}]
  BY WaitAssumption DEF Init
<1> QED BY <1>1, <1>2, <1>3, <1>4, <1>5, Constants DEF TypeInv, TypeOK, Init
--------------------------------------------------------------------------------
(* Type correctness, and the outcome of each step in the terms of the proofs below. *)

LEMMA DispatchType ==
  ASSUME TypeInv, NEW m \in Msgs, Dispatch(m)
  PROVE  TypeInv'
<1> DEFINE u == For[m]
<1>0. u \in Users /\ at[u] \in Gateways
  BY Constants DEF Dispatch, TypeInv, TypeOK
<1>1. PICK w \in InsType : InsOK(w) /\ ins' = [ins EXCEPT ![m] = w]
  BY <1>0, Workers, Constants DEF Dispatch
<1>2. PICK s \in Seq(Msgs \cup {Old}) : Len(s) <= ChanCap /\ chan' = [chan EXCEPT ![u] = s]
  <2>1. CASE HasRoom(u)
    BY <1>0, <2>1, Enqueued DEF Dispatch
  <2>2. CASE ~ HasRoom(u)
    BY <1>0, <2>2 DEF Dispatch, TypeInv, TypeOK
  <2> QED BY <2>1, <2>2
<1>3. ins' \in [Msgs -> InsType] /\ \A n \in Msgs : InsOK(ins'[n])
  BY <1>1, WorkerMoves
<1>4. chan' \in [Users -> Seq(Msgs \cup {Old})] /\ \A v \in Users : Len(chan'[v]) <= ChanCap
  BY <1>0, <1>2, ChanMoves
<1> QED BY <1>3, <1>4 DEF Dispatch, TypeInv, TypeOK, redisVars, history

LEMMA LoadStoreType ==
  ASSUME TypeInv, NEW m \in Msgs, Load(m) \/ Store(m)
  PROVE  /\ TypeInv'
         /\ ins' = [ins EXCEPT ![m] = ins'[m]] /\ ins'[m].gw = ins[m].gw
         /\ ins'[m].pc # "new" /\ ins[m].pc # "new"
<1>1. ins[m].gw \in Gateways /\ 0 \in 0 .. Retry /\ Retry \in 0 .. Retry
  BY WorkerType, Constants DEF Load, Store
<1>2. PICK w \in InsType : /\ InsOK(w) /\ ins' = [ins EXCEPT ![m] = w]
                           /\ w.gw = ins[m].gw /\ w.pc \in {"push", "store"}
  BY <1>1, Workers DEF Load, Store
<1>3. ins' \in [Msgs -> InsType] /\ (\A n \in Msgs : InsOK(ins'[n])) /\ ins'[m] = w
  BY <1>2, WorkerMoves
<1>4. waitSet' \in [Gateways -> SUBSET Users]
  <2>1. For[m] \in Users
    BY Constants
  <2>2. CASE Load(m)
    BY <2>2 DEF Load, TypeInv, TypeOK
  <2>3. CASE Store(m)
    <3>1. waitSet[ins[m].gw] \cup {For[m]} \in SUBSET Users
      BY <1>1, <2>1 DEF TypeInv, TypeOK
    <3> QED BY <2>3, <3>1 DEF Store, TypeInv, TypeOK
  <2> QED BY <2>2, <2>3
<1>5. UNCHANGED <<redisVars, local, connVars, lis, history>>
  BY DEF Load, Store
<1>6. TypeInv'
  BY <1>3, <1>4, <1>5 DEF TypeInv, TypeOK, redisVars, history, connVars
<1> QED BY <1>2, <1>3, <1>6 DEF Load, Store

LEMMA PushType ==
  ASSUME TypeInv, NEW m \in Msgs, NEW o \in Outcomes, Push(m, o)
  PROVE  /\ TypeInv'
         /\ ins' = [ins EXCEPT ![m] = ins'[m]]
         /\ ins'[m].gw = IF o = "ok" THEN Nowhere ELSE ins[m].gw
         /\ ins'[m].pc # "new" /\ ins[m].gw \in Gateways
         /\ ins'[m].pc = "push" => ins[m].pc = "push"
<1> DEFINE u == For[m]
<1>1. /\ ins[m].gw \in Gateways /\ 0 \in 0 .. Retry /\ u \in Users /\ m \in MsgsOf(u)
      /\ ins[m] \in InsType /\ InsOK(ins[m])
  BY WorkerType, Constants DEF Push, MsgsOf
<1>2. PICK w \in InsType :
        /\ InsOK(w) /\ ins' = [ins EXCEPT ![m] = w]
        /\ w.gw = IF o = "ok" THEN Nowhere ELSE ins[m].gw
        /\ w.pc # "new"
  <2>1. CASE TriesAgain(o, ins[m].tries)
    <3>1. ins' = [ins EXCEPT ![m] = Again(ins[m])] /\ o # "ok" /\ ins[m].pc = "push"
      BY <2>1 DEF Push, TriesAgain
    <3> QED BY <1>1, <2>1, <3>1, AgainWorker
  <2>2. CASE ~ TriesAgain(o, ins[m].tries) /\ o = "ok"
    BY <2>2, Workers DEF Push, Answers
  <2>3. CASE ~ TriesAgain(o, ins[m].tries) /\ o # "ok"
    <3>1. ins' = [ins EXCEPT ![m] = Worker("local", ins[m].gw, 0)]
      BY <2>3 DEF Push, Answers
    <3>2. /\ Worker("local", ins[m].gw, 0) \in InsType /\ InsOK(Worker("local", ins[m].gw, 0))
          /\ Worker("local", ins[m].gw, 0).gw = ins[m].gw
          /\ Worker("local", ins[m].gw, 0).pc = "local"
      BY <1>1, Workers
    <3> QED BY <2>3, <3>1, <3>2
  <2> QED BY <2>1, <2>2, <2>3
<1>3. ins' \in [Msgs -> InsType] /\ (\A n \in Msgs : InsOK(ins'[n])) /\ ins'[m] = w
  BY <1>2, WorkerMoves
<1>4. list[u] \in Seq(MsgsOf(u))
  BY <1>1 DEF TypeInv
<1>5. Pushed(list[u], m, o) \in Seq(MsgsOf(u)) /\ list' = [list EXCEPT ![u] = Pushed(list[u], m, o)]
  BY <1>1, <1>4, PushedCopies DEF Push
<1>6. list' \in [Users -> Seq(Msgs)] /\ \A v \in Users : list'[v] \in Seq(MsgsOf(v))
  BY <1>1, <1>5, ListMoves
<1>7. dup' \in [Msgs -> Nat]
  BY DEF Push, TypeInv, TypeOK
<1>8. late' \in [Gateways -> BOOLEAN]
  BY <1>1 DEF Push, TypeInv, TypeOK
<1>9. troubles' \in 0 .. MaxTroubles
  BY AttemptType DEF Push
<1>10. TypeInv'
  BY <1>3, <1>6, <1>7, <1>8, <1>9 DEF Push, TypeInv, TypeOK, connVars
<1> QED BY <1>1, <1>2, <1>3, <1>10 DEF Push

LEMMA ParkType ==
  ASSUME TypeInv, NEW m \in Msgs, Park(m)
  PROVE  /\ TypeInv'
         /\ ins' = [ins EXCEPT ![m] = Finished]
         /\ <<ins[m].gw, For[m]>> \in Gateways \X Users
<1> DEFINE p == <<ins[m].gw, For[m]>>
<1>1. p \in Gateways \X Users
  BY WorkerType, Constants DEF Park
<1>2. ins' = [ins EXCEPT ![m] = Finished]
  BY DEF Park
<1>3. ins' \in [Msgs -> InsType] /\ \A n \in Msgs : InsOK(ins'[n])
  BY <1>2, Workers, WorkerMoves
<1>4. local' \in [Gateways \X Users -> Seq(Msgs)]
  <2>1. local[p] \in Seq(Msgs)
    BY <1>1 DEF TypeInv, TypeOK
  <2>2. Append(local[p], m) \in Seq(Msgs)
    BY <2>1, AppendProperties
  <2>3. local' = [local EXCEPT ![p] = Append(local[p], m)]
    BY DEF Park
  <2> HIDE DEF p
  <2> QED BY <2>2, <2>3 DEF TypeInv, TypeOK
<1> QED BY <1>1, <1>2, <1>3, <1>4 DEF Park, TypeInv, TypeOK, redisVars, history, connVars

LEMMA RoundType ==
  ASSUME TypeInv, NEW g \in Gateways, Visit(g) \/ NextRound(g)
  PROVE  /\ TypeInv'
         /\ lis' = [lis EXCEPT ![g] = lis'[g]]
         /\ lis[g].msg = NoMsg /\ lis'[g].msg = NoMsg
         /\ lis'[g].pc \in {"range", "pop"}
         /\ lis'[g].pc = "pop" => lis'[g].user \in waitSet[g]
<1>1. PICK w \in LisType : /\ LisOK(w) /\ lis' = [lis EXCEPT ![g] = w] /\ w.msg = NoMsg
                           /\ w.pc \in {"range", "pop"}
                           /\ w.pc = "pop" => w.user \in waitSet[g]
  <2>1. CASE Visit(g)
    <3>1. PICK u \in Watched(g, lis[g].pos) :
            lis' = [lis EXCEPT ![g] = [pc |-> "pop", pos |-> Order[u], user |-> u,
                                       msg |-> NoMsg, tries |-> Retry]]
      BY <2>1 DEF Visit
    <3>2. u \in Users /\ u \in waitSet[g]
      BY DEF Watched, TypeInv, TypeOK
    <3> DEFINE w == [pc |-> "pop", pos |-> Order[u], user |-> u, msg |-> NoMsg,
                     tries |-> Retry]
    <3>3. w \in LisType /\ LisOK(w)
      BY <3>2, Constants DEF LisType, LisOK
    <3> QED BY <3>1, <3>2, <3>3
  <2>2. CASE NextRound(g)
    <3>1. lis' = [lis EXCEPT ![g] = Ranging(0)]
      BY <2>2 DEF NextRound, RoundStart
    <3> QED BY <3>1, Listeners
  <2> QED BY <2>1, <2>2
<1>2. lis' \in [Gateways -> LisType] /\ (\A h \in Gateways : LisOK(lis'[h])) /\ lis'[g] = w
  BY <1>1, ListenerMoves
<1>3. lis[g].msg = NoMsg
  BY ListenerType DEF Visit, NextRound, LisOK
<1>4. UNCHANGED <<redisVars, waitSet, local, connVars, ins, history>>
  BY DEF Visit, NextRound
<1>5. TypeInv'
  BY <1>2, <1>4 DEF TypeInv, TypeOK, redisVars, connVars, history
<1> QED BY <1>1, <1>2, <1>3, <1>5

\* The message of a listener that has popped, or NoMsg.
LEMMA PopType ==
  ASSUME TypeInv, NEW g \in Gateways, NEW o \in Outcomes, Pop(g, o)
  PROVE  /\ TypeInv'
         /\ lis[g].user \in Users /\ lis[g].msg = NoMsg
         /\ lis' = [lis EXCEPT ![g] = lis'[g]]
         /\ lis'[g].msg = IF o = "ok" /\ list[lis[g].user] # << >>
                          THEN Head(list[lis[g].user]) ELSE NoMsg
         /\ lis'[g].pc \in {"range", "pop", "enqueue"}
         /\ lis'[g].pc # "range" => lis'[g].user = lis[g].user
         /\ list[lis[g].user] # << >> => Head(list[lis[g].user]) \in MsgsOf(lis[g].user)
<1> DEFINE u == lis[g].user
           h == Head(list[u])
           kept == o = "ok" /\ list[u] # << >>
<1>1. /\ u \in Users /\ lis[g] \in LisType /\ LisOK(lis[g]) /\ lis[g].pc = "pop"
      /\ lis[g].pos \in Nat /\ 0 \in 0 .. Retry /\ lis[g].msg = NoMsg
  BY ListenerType, Constants DEF Pop, LisOK
<1>2. list[u] \in Seq(MsgsOf(u)) /\ (list[u] # << >> => h \in MsgsOf(u))
  BY <1>1, HeadTailProperties DEF TypeInv
<1>3. PICK w \in LisType : /\ LisOK(w) /\ lis' = [lis EXCEPT ![g] = w]
                           /\ w.msg = IF kept THEN h ELSE NoMsg
                           /\ w.pc \in {"range", "pop", "enqueue"}
                           /\ w.pc # "range" => w.user = u
  <2>1. CASE TriesAgain(o, lis[g].tries)
    <3>1. lis' = [lis EXCEPT ![g] = Again(lis[g])] /\ o # "ok"
      BY <2>1 DEF Pop, TriesAgain
    <3> QED BY <1>1, <2>1, <3>1, AgainListener
  <2>2. CASE ~ TriesAgain(o, lis[g].tries) /\ kept
    <3>1. lis' = [lis EXCEPT ![g] = Listener(lis[g], "enqueue", h, 0)]
      BY <2>2 DEF Pop, Answers
    <3> DEFINE w == Listener(lis[g], "enqueue", h, 0)
    <3>2. w \in LisType /\ LisOK(w) /\ w.msg = h /\ w.pc = "enqueue" /\ w.user = u
      BY <1>1, <1>2, <2>2, Listeners
    <3> HIDE DEF w
    <3> QED BY <2>2, <3>1, <3>2 DEF w
  <2>3. CASE ~ TriesAgain(o, lis[g].tries) /\ ~ kept
    <3>1. lis' = [lis EXCEPT ![g] = Ranging(lis[g].pos)]
      BY <2>3 DEF Pop, Answers
    <3>2. /\ Ranging(lis[g].pos) \in LisType /\ LisOK(Ranging(lis[g].pos))
          /\ Ranging(lis[g].pos).msg = NoMsg /\ Ranging(lis[g].pos).pc = "range"
      BY <1>1, Listeners
    <3> QED BY <2>3, <3>1, <3>2
  <2> QED BY <2>1, <2>2, <2>3
<1>4. lis' \in [Gateways -> LisType] /\ (\A k \in Gateways : LisOK(lis'[k])) /\ lis'[g] = w
  BY <1>3, ListenerMoves
<1>5. /\ Popped(list[u], o) \in Seq(MsgsOf(u))
      /\ list' = [list EXCEPT ![u] = Popped(list[u], o)]
  BY <1>2, PoppedCopies DEF Pop
<1>6. list' \in [Users -> Seq(Msgs)] /\ \A v \in Users : list'[v] \in Seq(MsgsOf(v))
  BY <1>1, <1>5, ListMoves
<1>7. gone' \in [Msgs -> Nat]
  <2>1. list[u] # << >> => h \in Msgs
    BY <1>2 DEF MsgsOf
  <2>2. gone \in [Msgs -> Nat] /\ \A b \in Msgs : gone[b] + 1 \in Nat
    BY DEF TypeInv, TypeOK
  <2>3. gone' = IF o = "lost" /\ list[u] # << >> THEN [gone EXCEPT ![h] = @ + 1] ELSE gone
    BY DEF Pop
  <2> HIDE DEF h, u
  <2> QED BY <2>1, <2>2, <2>3
<1>8. troubles' \in 0 .. MaxTroubles
  BY AttemptType DEF Pop
<1>9. TypeInv'
  BY <1>4, <1>6, <1>7, <1>8 DEF Pop, TypeInv, TypeOK, connVars
<1> QED BY <1>1, <1>2, <1>3, <1>4, <1>9

LEMMA EnqueueType ==
  ASSUME TypeInv, NEW g \in Gateways, Enqueue(g)
  PROVE  /\ TypeInv'
         /\ lis[g].user \in Users /\ lis[g].msg \in Msgs
         /\ lis' = [lis EXCEPT ![g] = lis'[g]]
         /\ lis'[g].user = lis[g].user /\ lis'[g].pc \in {"len", "back"}
         /\ \/ /\ HasRoom(lis[g].user) /\ lis'[g].msg = NoMsg
               /\ chan' = [chan EXCEPT ![lis[g].user] = Append(@, lis[g].msg)]
            \/ lis'[g].msg = lis[g].msg /\ chan' = chan
<1> DEFINE u == lis[g].user
           m == lis[g].msg
<1>1. /\ u \in Users /\ lis[g] \in LisType /\ LisOK(lis[g]) /\ lis[g].pc = "enqueue"
      /\ 0 \in 0 .. Retry /\ Retry \in 0 .. Retry
  BY ListenerType, Constants DEF Enqueue
<1>2. m \in MsgsOf(u) /\ m \in Msgs
  BY <1>1 DEF LisOK, MsgsOf
<1>3. UNCHANGED <<redisVars, waitSet, local, at, ins, history>>
  BY DEF Enqueue
<1>4. CASE at[u] = g /\ HasRoom(u)
  <2> DEFINE w == Listener(lis[g], "len", NoMsg, 0)
  <2>1. /\ lis' = [lis EXCEPT ![g] = w]
        /\ chan' = [chan EXCEPT ![u] = Append(chan[u], m)]
    BY <1>4 DEF Enqueue
  <2>2. w \in LisType /\ LisOK(w) /\ w.msg = NoMsg /\ w.pc = "len" /\ w.user = u
    BY <1>1, Listeners
  <2> HIDE DEF w
  <2>3. lis' \in [Gateways -> LisType] /\ (\A k \in Gateways : LisOK(lis'[k])) /\ lis'[g] = w
    BY <2>1, <2>2, ListenerMoves
  <2>4. chan' \in [Users -> Seq(Msgs \cup {Old})] /\ \A v \in Users : Len(chan'[v]) <= ChanCap
    BY <1>1, <1>2, <1>4, <2>1, Enqueued, ChanMoves
  <2>5. TypeInv'
    BY <1>3, <2>3, <2>4 DEF TypeInv, TypeOK, redisVars, history
  <2> QED BY <1>1, <1>2, <1>4, <2>1, <2>2, <2>3, <2>5
<1>5. CASE ~ (at[u] = g /\ HasRoom(u))
  <2> DEFINE w == Listener(lis[g], "back", m, Retry)
  <2>1. lis' = [lis EXCEPT ![g] = w] /\ chan' = chan
    BY <1>5 DEF Enqueue
  <2>2. w \in LisType /\ LisOK(w) /\ w.msg = m /\ w.pc = "back" /\ w.user = u
    BY <1>1, <1>2, Listeners
  <2> HIDE DEF w
  <2>3. lis' \in [Gateways -> LisType] /\ (\A k \in Gateways : LisOK(lis'[k])) /\ lis'[g] = w
    BY <2>1, <2>2, ListenerMoves
  <2>4. TypeInv'
    BY <1>3, <2>1, <2>3 DEF TypeInv, TypeOK, redisVars, history
  <2> QED BY <1>1, <1>2, <2>1, <2>2, <2>3, <2>4
<1> QED BY <1>4, <1>5

LEMMA PutBackType ==
  ASSUME TypeInv, NEW g \in Gateways, NEW o \in Outcomes, PutBack(g, o)
  PROVE  /\ TypeInv'
         /\ lis[g].user \in Users /\ lis[g].msg \in MsgsOf(lis[g].user)
         /\ lis' = [lis EXCEPT ![g] = lis'[g]]
         /\ lis'[g].msg = IF TriesAgain(o, lis[g].tries) THEN lis[g].msg ELSE NoMsg
         /\ lis'[g].pc \in {"back", "range"}
         /\ lis'[g].pc # "range" => lis'[g].user = lis[g].user
<1> DEFINE u == lis[g].user
           m == lis[g].msg
<1>1. /\ u \in Users /\ lis[g] \in LisType /\ LisOK(lis[g]) /\ lis[g].pc = "back"
      /\ m \in MsgsOf(u) /\ m \in Msgs
  BY ListenerType DEF PutBack, LisOK, MsgsOf
<1>2. PICK w \in LisType : /\ LisOK(w) /\ lis' = [lis EXCEPT ![g] = w]
                           /\ w.msg = IF TriesAgain(o, lis[g].tries) THEN m ELSE NoMsg
                           /\ w.pc \in {"back", "range"}
                           /\ w.pc # "range" => w.user = u
  <2>1. CASE TriesAgain(o, lis[g].tries)
    <3>1. lis' = [lis EXCEPT ![g] = Again(lis[g])]
      BY <2>1 DEF PutBack
    <3> QED BY <1>1, <2>1, <3>1, AgainListener
  <2>2. CASE ~ TriesAgain(o, lis[g].tries)
    <3>1. lis' = [lis EXCEPT ![g] = Ranging(0)]
      BY <2>2 DEF PutBack, RoundStart
    <3>2. /\ Ranging(0) \in LisType /\ LisOK(Ranging(0)) /\ Ranging(0).msg = NoMsg
          /\ Ranging(0).pc = "range"
      BY Listeners
    <3> QED BY <2>2, <3>1, <3>2
  <2> QED BY <2>1, <2>2
<1>3. lis' \in [Gateways -> LisType] /\ (\A k \in Gateways : LisOK(lis'[k])) /\ lis'[g] = w
  BY <1>2, ListenerMoves
<1>4. list[u] \in Seq(MsgsOf(u))
  BY <1>1 DEF TypeInv
<1>5. Pushed(list[u], m, o) \in Seq(MsgsOf(u)) /\ list' = [list EXCEPT ![u] = Pushed(list[u], m, o)]
  BY <1>1, <1>4, PushedCopies DEF PutBack
<1>6. list' \in [Users -> Seq(Msgs)] /\ \A v \in Users : list'[v] \in Seq(MsgsOf(v))
  BY <1>1, <1>5, ListMoves
<1>7. dup' \in [Msgs -> Nat] /\ gone' \in [Msgs -> Nat]
  <2>1. \A b : \A n \in Nat : n + (IF b THEN 1 ELSE 0) \in Nat
    OBVIOUS
  <2>2. dup[m] \in Nat /\ gone[m] \in Nat
    BY <1>1 DEF TypeInv, TypeOK
  <2>3. /\ dup[m] + (IF o = "lost" THEN 1 ELSE 0) \in Nat
        /\ gone[m] + (IF GivesUp(o, lis[g].tries) THEN 1 ELSE 0) \in Nat
    BY <2>1, <2>2
  <2> QED BY <2>3 DEF PutBack, TypeInv, TypeOK
<1>8. troubles' \in 0 .. MaxTroubles
  BY AttemptType DEF PutBack
<1>9. TypeInv'
  BY <1>3, <1>6, <1>7, <1>8 DEF PutBack, TypeInv, TypeOK, connVars
<1> QED BY <1>1, <1>2, <1>3, <1>9

LEMMA CheckLenType ==
  ASSUME TypeInv, NEW g \in Gateways, NEW o \in Outcomes, CheckLen(g, o)
  PROVE  /\ TypeInv'
         /\ lis[g].user \in Users /\ lis[g].msg = NoMsg /\ lis[g].pc = "len"
         /\ lis' = [lis EXCEPT ![g] = lis'[g]]
         /\ lis'[g].msg = NoMsg
         /\ lis'[g].pc \in {"range", "remove"}
         /\ lis'[g].pc # "range" => /\ lis'[g].user = lis[g].user
                                    /\ list[lis[g].user] = << >>
<1>1. /\ lis[g].user \in Users /\ lis[g] \in LisType /\ LisOK(lis[g]) /\ lis[g].pc = "len"
      /\ lis[g].pos \in Nat /\ 0 \in 0 .. Retry /\ lis[g].msg = NoMsg
  BY ListenerType, Constants DEF CheckLen, LisOK
<1>2. PICK w \in LisType : /\ LisOK(w) /\ lis' = [lis EXCEPT ![g] = w] /\ w.msg = NoMsg
                           /\ w.pc \in {"range", "remove"}
                           /\ w.pc # "range" => /\ w.user = lis[g].user
                                                /\ list[lis[g].user] = << >>
  <2>1. CASE Answers(o) /\ Emptied(lis[g].user)
    <3> DEFINE w == Listener(lis[g], "remove", NoMsg, 0)
    <3>1. lis' = [lis EXCEPT ![g] = w] /\ list[lis[g].user] = << >>
      BY <2>1 DEF CheckLen, Emptied
    <3>2. /\ w \in LisType /\ LisOK(w) /\ w.msg = NoMsg /\ w.pc = "remove"
          /\ w.user = lis[g].user
      BY <1>1, Listeners
    <3> HIDE DEF w
    <3> QED BY <3>1, <3>2
  <2>2. CASE ~ (Answers(o) /\ Emptied(lis[g].user))
    <3>1. lis' = [lis EXCEPT ![g] = Ranging(lis[g].pos)]
      BY <2>2 DEF CheckLen
    <3>2. /\ Ranging(lis[g].pos) \in LisType /\ LisOK(Ranging(lis[g].pos))
          /\ Ranging(lis[g].pos).msg = NoMsg /\ Ranging(lis[g].pos).pc = "range"
      BY <1>1, Listeners
    <3> QED BY <3>1, <3>2
  <2> QED BY <2>1, <2>2
<1>3. lis' \in [Gateways -> LisType] /\ (\A k \in Gateways : LisOK(lis'[k])) /\ lis'[g] = w
  BY <1>2, ListenerMoves
<1>4. troubles' \in 0 .. MaxTroubles
  BY AttemptType DEF CheckLen
<1>5. late' \in [Gateways -> BOOLEAN]
  BY DEF CheckLen, TypeInv, TypeOK
<1>6. TypeInv'
  BY <1>3, <1>4, <1>5 DEF CheckLen, TypeInv, TypeOK, connVars
<1> QED BY <1>1, <1>2, <1>3, <1>6

LEMMA RemoveType ==
  ASSUME TypeInv, NEW g \in Gateways, Remove(g)
  PROVE  /\ TypeInv'
         /\ lis[g].user \in Users /\ lis[g].msg = NoMsg
         /\ lis' = [lis EXCEPT ![g] = lis'[g]]
         /\ lis'[g].msg = NoMsg /\ lis'[g].pc = "range"
         /\ waitSet' = [waitSet EXCEPT ![g] = @ \ {lis[g].user}]
<1>1. /\ lis[g].user \in Users /\ LisOK(lis[g]) /\ lis[g].pos \in Nat /\ lis[g].msg = NoMsg
  BY ListenerType DEF Remove, LisOK
<1>2. lis' = [lis EXCEPT ![g] = Ranging(lis[g].pos)]
  BY DEF Remove
<1>3. /\ Ranging(lis[g].pos) \in LisType /\ LisOK(Ranging(lis[g].pos))
      /\ Ranging(lis[g].pos).msg = NoMsg /\ Ranging(lis[g].pos).pc = "range"
  BY <1>1, Listeners
<1>4. /\ lis' \in [Gateways -> LisType] /\ (\A k \in Gateways : LisOK(lis'[k]))
      /\ lis'[g] = Ranging(lis[g].pos)
  BY <1>2, <1>3, ListenerMoves
<1>5. waitSet' = [waitSet EXCEPT ![g] = @ \ {lis[g].user}]
  BY DEF Remove
<1>6. waitSet' \in [Gateways -> SUBSET Users]
  BY <1>5 DEF TypeInv, TypeOK
<1>7. unwatched' \subseteq Users
  BY <1>1 DEF Remove, TypeInv, TypeOK
<1>8. TypeInv'
  BY <1>4, <1>6, <1>7 DEF Remove, TypeInv, TypeOK, redisVars, connVars
<1> QED BY <1>1, <1>2, <1>3, <1>4, <1>5, <1>8

LEMMA WriteType ==
  ASSUME TypeInv, NEW u \in Users, Write(u)
  PROVE  TypeInv' /\ Tail(chan[u]) \in Seq(Msgs \cup {Old})
<1>1. /\ chan[u] \in Seq(Msgs \cup {Old}) /\ chan[u] # << >> /\ Len(chan[u]) <= ChanCap
      /\ Len(chan[u]) \in Nat
  BY LenProperties DEF Write, TypeInv, TypeOK
<1>2. /\ Tail(chan[u]) \in Seq(Msgs \cup {Old}) /\ Len(Tail(chan[u])) <= ChanCap
      /\ chan' = [chan EXCEPT ![u] = Tail(chan[u])]
  BY <1>1, HeadTailProperties, Constants DEF Write
<1>3. chan' \in [Users -> Seq(Msgs \cup {Old})] /\ \A v \in Users : Len(chan'[v]) <= ChanCap
  BY <1>2, ChanMoves
<1>4. written' \in [Msgs -> Nat]
  BY DEF Write, TypeInv, TypeOK
<1> QED BY <1>2, <1>3, <1>4 DEF Write, TypeInv, TypeOK, redisVars

LEMMA LeaveType ==
  ASSUME TypeInv, NEW u \in Users, Leave(u)
  PROVE  TypeInv'
<1>1. << >> \in Seq(Msgs \cup {Old}) /\ Len(<< >>) <= ChanCap
  BY Constants
<1>2. chan' \in [Users -> Seq(Msgs \cup {Old})] /\ \A v \in Users : Len(chan'[v]) <= ChanCap
  BY <1>1, ChanMoves DEF Leave
<1>3. gone' \in [Msgs -> Nat]
  <2>1. \A m \in Msgs : Copies(chan[u], m) \in Nat
    BY CopiesType DEF TypeInv, TypeOK
  <2>2. \A m \in Msgs : gone[m] + Copies(chan[u], m) \in Nat
    BY <2>1 DEF TypeInv, TypeOK
  <2> QED BY <2>2 DEF Leave
<1>4. troubles' \in 0 .. MaxTroubles
  BY AttemptType DEF Leave
<1>5. at' \in [Users -> Gateways \cup {Nowhere}]
  BY DEF Leave, TypeInv, TypeOK
<1> QED BY <1>2, <1>3, <1>4, <1>5 DEF Leave, TypeInv, TypeOK

LEMMA JoinType ==
  ASSUME TypeInv, NEW u \in Users, NEW g \in Gateways, Join(u, g)
  PROVE  TypeInv'
<1>1. troubles' \in 0 .. MaxTroubles
  BY AttemptType DEF Join
<1>2. at' \in [Users -> Gateways \cup {Nowhere}]
  BY DEF Join, TypeInv, TypeOK
<1> QED BY <1>1, <1>2 DEF Join, TypeInv, TypeOK, history

\* The lists that a restart of g clears, and what they held.
LEMMA Cleared ==
  ASSUME TypeInv, NEW g \in Gateways, Restart(g), NEW m \in Msgs
  PROVE  LET here == {u \in Users : at[u] = g}
         IN  /\ chan' \in Lists(Users, Msgs \cup {Old})
             /\ local' \in Lists(Gateways \X Users, Msgs)
             /\ CopiesAmong(chan, m) = CopiesAmong(chan', m) + CopiesAt(chan, here, m)
             /\ CopiesAmong(local, m) = CopiesAmong(local', m)
                                        + CopiesAt(local, {g} \X Users, m)
             /\ CopiesAt(chan, here, m) \in Nat
             /\ CopiesAt(local, {g} \X Users, m) \in Nat
<1> DEFINE here == {u \in Users : at[u] = g}
           mine == {g} \X Users
           P == Gateways \X Users
<1>1. /\ IsFiniteSet(Users) /\ IsFiniteSet(P) /\ here \subseteq Users /\ mine \subseteq P
  BY WaitAssumption, FS_Product
<1>2. chan \in Lists(Users, Msgs \cup {Old}) /\ local \in Lists(P, Msgs)
  BY DEF TypeInv, TypeOK, Lists
<1>3. chan' = [u \in Users |-> IF u \in here THEN << >> ELSE chan[u]]
  BY DEF Restart
<1>4. local' = [p \in P |-> IF p \in mine THEN << >> ELSE local[p]]
  <2>1. \A p \in P : p \in mine <=> p[1] = g
    OBVIOUS
  <2>2. local' = [p \in P |-> IF p[1] = g THEN << >> ELSE local[p]]
    BY DEF Restart
  <2> HIDE DEF P, mine
  <2> QED BY <2>1, <2>2
<1> HIDE DEF here, mine, P
<1>5. /\ chan' \in Lists(Users, Msgs \cup {Old})
      /\ CopiesAmong(chan, m) = CopiesAmong(chan', m) + CopiesAt(chan, here, m)
      /\ CopiesAt(chan, here, m) \in Nat
  BY <1>1, <1>2, <1>3, CopiesAmongClear
<1>6. /\ local' \in Lists(P, Msgs)
      /\ CopiesAmong(local, m) = CopiesAmong(local', m) + CopiesAt(local, mine, m)
      /\ CopiesAt(local, mine, m) \in Nat
  BY <1>1, <1>2, <1>4, CopiesAmongClear
<1> QED BY <1>5, <1>6 DEF here, mine, P

LEMMA OneType == \A b : One(b) \in Nat
BY DEF One

LEMMA RestartType ==
  ASSUME TypeInv, NEW g \in Gateways, Restart(g)
  PROVE  /\ TypeInv'
         /\ lis' = [lis EXCEPT ![g] = Ranging(0)]
         /\ Ranging(0).msg = NoMsg /\ Ranging(0).pc = "range" /\ Ranging(0).user = NoUser
         /\ lis'[g] = Ranging(0)
<1>1. /\ Ranging(0) \in LisType /\ LisOK(Ranging(0)) /\ Ranging(0).msg = NoMsg
      /\ Ranging(0).pc = "range" /\ Ranging(0).user = NoUser
  BY Listeners
<1>2. lis' = [lis EXCEPT ![g] = Ranging(0)]
  BY DEF Restart
<1>3. /\ lis' \in [Gateways -> LisType] /\ (\A k \in Gateways : LisOK(lis'[k]))
      /\ lis'[g] = Ranging(0)
  BY <1>1, <1>2, ListenerMoves
<1>4. ins' \in [Msgs -> InsType] /\ \A m \in Msgs : InsOK(ins'[m])
  BY Workers, WorkerType DEF Restart
<1>5. chan' \in [Users -> Seq(Msgs \cup {Old})] /\ \A u \in Users : Len(chan'[u]) <= ChanCap
  BY Constants DEF Restart, TypeInv, TypeOK
<1>6. local' \in [Gateways \X Users -> Seq(Msgs)]
  <2> DEFINE P == Gateways \X Users
  <2>1. local' = [p \in P |-> IF p[1] = g THEN << >> ELSE local[p]]
    BY DEF Restart
  <2>2. local \in [P -> Seq(Msgs)]
    BY DEF TypeInv, TypeOK
  <2> HIDE DEF P
  <2>3. local' \in [P -> Seq(Msgs)]
    BY <2>1, <2>2
  <2> QED BY <2>3 DEF P
<1>7. gone' \in [Msgs -> Nat]
  <2> DEFINE here == {u \in Users : at[u] = g}
             more(m) == One(ins[m].gw = g) + One(lis[g].msg = m)
             onlocal(m) == CopiesAt(local, {g} \X Users, m)
             onchan(m) == CopiesAt(chan, here, m)
  <2>1. \A m \in Msgs : onlocal(m) \in Nat /\ onchan(m) \in Nat
    BY Cleared
  <2>2. \A m \in Msgs : One(ins[m].gw = g) \in Nat /\ One(lis[g].msg = m) \in Nat
    BY DEF One
  <2>3. gone' = [m \in Msgs |-> gone[m] + One(ins[m].gw = g) + One(lis[g].msg = m)
                                + onlocal(m) + onchan(m)]
    BY DEF Restart
  <2>4. \A m \in Msgs : gone[m] \in Nat
    BY DEF TypeInv, TypeOK
  <2> HIDE DEF onlocal, onchan
  <2> QED BY <2>1, <2>2, <2>3, <2>4
<1>8. /\ waitSet' \in [Gateways -> SUBSET Users] /\ late' \in [Gateways -> BOOLEAN]
      /\ unwatched' \subseteq Users /\ at' \in [Users -> Gateways \cup {Nowhere}]
  BY DEF Restart, TypeInv, TypeOK
<1>9. troubles' \in 0 .. MaxTroubles
  BY AttemptType DEF Restart
<1>10. TypeInv'
  BY <1>3, <1>4, <1>5, <1>6, <1>7, <1>8, <1>9 DEF Restart, TypeInv, TypeOK
<1> QED BY <1>1, <1>2, <1>3, <1>10
--------------------------------------------------------------------------------
(* The balance: the copies of a message that is not new are as many as Conserved   *)
(* says, and of a new one there are none but those of dup.                         *)

WithWorker(m) == One(ins[m].gw # Nowhere)
OnList(m) == Copies(list[For[m]], m)
Holders(m) == {g \in Gateways : lis[g].msg = m}
WithListeners(m) == Cardinality(Holders(m))
OnLocal(m) == CopiesAmong(local, m)
OnChan(m) == CopiesAmong(chan, m)
Begun(m) == One(ins[m].pc # "new")

Balance(m) ==
  WithWorker(m) + OnList(m) + WithListeners(m) + OnLocal(m) + OnChan(m)
    + written[m] + gone[m] = Begun(m) + dup[m]

LEMMA Numbers ==
  ASSUME TypeInv, NEW m \in Msgs
  PROVE  /\ WithWorker(m) \in Nat /\ OnList(m) \in Nat /\ WithListeners(m) \in Nat
         /\ OnLocal(m) \in Nat /\ OnChan(m) \in Nat /\ Begun(m) \in Nat
         /\ written[m] \in Nat /\ gone[m] \in Nat /\ dup[m] \in Nat
<1>1. OnList(m) \in Nat
  BY Constants, CopiesType DEF OnList, TypeInv
<1>2. WithListeners(m) \in Nat
  BY WaitAssumption, FS_Subset, FS_CardinalityType DEF WithListeners, Holders
<1>3. local \in Lists(Gateways \X Users, Msgs) /\ chan \in Lists(Users, Msgs \cup {Old})
  BY DEF Lists, TypeInv, TypeOK
<1>4. OnLocal(m) \in Nat
  BY <1>3, WaitAssumption, FS_Product, CopiesAmongType DEF OnLocal
<1>5. OnChan(m) \in Nat
  BY <1>3, WaitAssumption, CopiesAmongType DEF OnChan
<1>6. WithWorker(m) \in Nat /\ Begun(m) \in Nat
  BY OneType DEF WithWorker, Begun
<1> QED BY <1>1, <1>2, <1>4, <1>5, <1>6 DEF TypeInv, TypeOK

\* What a step of one actor does to the numbers.
LEMMA ListenerHolds ==
  ASSUME TypeInv, NEW g \in Gateways, NEW w, lis' = [lis EXCEPT ![g] = w], NEW m \in Msgs
  PROVE  WithListeners(m)' = WithListeners(m) - One(lis[g].msg = m) + One(w.msg = m)
<1> DEFINE R == {h \in Gateways \ {g} : lis[h].msg = m}
<1>1. IsFiniteSet(R) /\ g \notin R /\ Cardinality(R) \in Nat
  BY WaitAssumption, FS_Subset, FS_CardinalityType
<1>2. Cardinality(R \cup {g}) = Cardinality(R) + 1
  BY <1>1, FS_AddElement
<1>3. Holders(m) = IF lis[g].msg = m THEN R \cup {g} ELSE R
  BY DEF Holders
<1>4. Holders(m)' = IF w.msg = m THEN R \cup {g} ELSE R
  BY DEF Holders, TypeInv, TypeOK
<1> HIDE DEF R
<1>5. WithListeners(m) = Cardinality(R) + One(lis[g].msg = m)
  BY <1>1, <1>2, <1>3 DEF WithListeners, One
<1>6. WithListeners(m)' = Cardinality(R) + One(w.msg = m)
  BY <1>1, <1>2, <1>4 DEF WithListeners, One
<1> QED BY <1>1, <1>5, <1>6, OneType

LEMMA ChanHolds ==
  ASSUME TypeInv, NEW u \in Users, NEW s \in Seq(Msgs \cup {Old}),
         chan' = [chan EXCEPT ![u] = s], NEW m \in Msgs
  PROVE  OnChan(m)' = OnChan(m) - Copies(chan[u], m) + Copies(s, m)
<1>1. chan \in Lists(Users, Msgs \cup {Old}) /\ chan' \in Lists(Users, Msgs \cup {Old})
  BY DEF Lists, TypeInv, TypeOK
<1>2. SameBut(chan', chan, Users, u) /\ chan'[u] = s
  BY DEF SameBut, TypeInv, TypeOK
<1>3. CopiesAmong(chan', m) = CopiesAmong(chan, m) - Copies(chan[u], m) + Copies(chan'[u], m)
  <2>1. \A f, h \in Lists(Users, Msgs \cup {Old}) : SameBut(f, h, Users, u) =>
          CopiesAmong(f, m) = CopiesAmong(h, m) - Copies(h[u], m) + Copies(f[u], m)
    BY WaitAssumption, CopiesAmongDiffer
  <2> QED BY <1>1, <1>2, <2>1
<1> QED BY <1>2, <1>3 DEF OnChan

ChanTook(u, e) == chan' = [chan EXCEPT ![u] = Append(@, e)]
LocalTook(p, e) == local' = [local EXCEPT ![p] = Append(@, e)]

LEMMA ChanTakes ==
  ASSUME TypeInv, NEW u \in Users, NEW e \in Msgs, ChanTook(u, e), NEW m \in Msgs
  PROVE  OnChan(m)' = OnChan(m) + One(e = m)
<1>1. chan[u] \in Seq(Msgs \cup {Old}) /\ e \in Msgs \cup {Old}
  BY DEF TypeInv, TypeOK
<1>2. /\ Append(chan[u], e) \in Seq(Msgs \cup {Old})
      /\ chan' = [chan EXCEPT ![u] = Append(chan[u], e)]
  BY <1>1, AppendProperties DEF ChanTook
<1>3. Copies(Append(chan[u], e), m) = Copies(chan[u], m) + IF e = m THEN 1 ELSE 0
  BY <1>1, CopiesAppend
<1>4. OnChan(m)' = OnChan(m) - Copies(chan[u], m) + Copies(Append(chan[u], e), m)
  BY <1>2, ChanHolds
<1>5. Copies(chan[u], m) \in Nat /\ OnChan(m) \in Nat
  BY <1>1, CopiesType, Numbers
<1> QED BY <1>3, <1>4, <1>5 DEF One

LEMMA LocalTakes ==
  ASSUME TypeInv, NEW p \in Gateways \X Users, NEW e \in Msgs, LocalTook(p, e),
         NEW m \in Msgs
  PROVE  OnLocal(m)' = OnLocal(m) + One(e = m)
<1> DEFINE P == Gateways \X Users
<1>1. local \in [P -> Seq(Msgs)] /\ IsFiniteSet(P) /\ p \in P
  BY WaitAssumption, FS_Product DEF TypeInv, TypeOK
<1> HIDE DEF P
<1>2. local[p] \in Seq(Msgs) /\ Append(local[p], e) \in Seq(Msgs)
  BY <1>1, AppendProperties
<1>3. /\ local \in Lists(P, Msgs) /\ local' \in Lists(P, Msgs)
      /\ SameBut(local', local, P, p) /\ local'[p] = Append(local[p], e)
  BY <1>1, <1>2 DEF LocalTook, Lists, SameBut
<1>4. CopiesAmong(local', m)
        = CopiesAmong(local, m) - Copies(local[p], m) + Copies(local'[p], m)
  <2>1. \A f, h \in Lists(P, Msgs) : SameBut(f, h, P, p) =>
          CopiesAmong(f, m) = CopiesAmong(h, m) - Copies(h[p], m) + Copies(f[p], m)
    BY <1>1, CopiesAmongDiffer
  <2> QED BY <1>3, <2>1
<1>5. Copies(Append(local[p], e), m) = Copies(local[p], m) + IF e = m THEN 1 ELSE 0
  BY <1>2, CopiesAppend
<1>6. Copies(local[p], m) \in Nat /\ OnLocal(m) \in Nat
  BY <1>2, CopiesType, Numbers
<1> QED BY <1>3, <1>4, <1>5, <1>6 DEF OnLocal, One

LEMMA ListTakes ==
  ASSUME TypeInv, NEW u \in Users, NEW e \in MsgsOf(u), NEW o,
         list' = [list EXCEPT ![u] = Pushed(@, e, o)], NEW m \in Msgs
  PROVE  OnList(m)' = OnList(m) + One(o # "failed" /\ e = m)
<1>1. list[u] \in Seq(MsgsOf(u)) /\ list \in [Users -> Seq(Msgs)] /\ For[m] \in Users
  BY Constants DEF TypeInv, TypeOK
<1>2. Copies(Pushed(list[u], e, o), m)
        = Copies(list[u], m) + IF o # "failed" /\ e = m THEN 1 ELSE 0
  BY <1>1, PushedCopies
<1>3. CASE For[m] = u
  <2>1. list'[For[m]] = Pushed(list[u], e, o)
    BY <1>1, <1>3
  <2> QED BY <1>2, <1>3, <2>1 DEF OnList, One
<1>4. CASE For[m] # u
  <2>1. list'[For[m]] = list[For[m]] /\ e # m
    BY <1>1, <1>4 DEF MsgsOf
  <2>2. OnList(m) \in Nat
    BY Numbers
  <2> QED BY <2>1, <2>2 DEF OnList, One
<1> QED BY <1>3, <1>4

LEMMA ListGives ==
  ASSUME TypeInv, NEW u \in Users, NEW o,
         list' = [list EXCEPT ![u] = Popped(@, o)], NEW m \in Msgs
  PROVE  OnList(m) = OnList(m)'
                     + One(o # "failed" /\ list[u] # << >> /\ Head(list[u]) = m)
<1>1. list[u] \in Seq(MsgsOf(u)) /\ list \in [Users -> Seq(Msgs)] /\ For[m] \in Users
  BY Constants DEF TypeInv, TypeOK
<1>2. Copies(list[u], m)
        = Copies(Popped(list[u], o), m)
          + IF o # "failed" /\ list[u] # << >> /\ Head(list[u]) = m THEN 1 ELSE 0
  BY <1>1, PoppedCopies
<1>3. CASE For[m] = u
  <2>1. list'[For[m]] = Popped(list[u], o)
    BY <1>1, <1>3
  <2> QED BY <1>2, <1>3, <2>1 DEF OnList, One
<1>4. CASE For[m] # u
  <2>1. list[u] # << >> => Head(list[u]) \in MsgsOf(u)
    BY <1>1, HeadTailProperties
  <2>2. list'[For[m]] = list[For[m]] /\ ~ (list[u] # << >> /\ Head(list[u]) = m)
    BY <1>1, <1>4, <2>1 DEF MsgsOf
  <2>3. OnList(m) \in Nat
    BY Numbers
  <2> QED BY <2>2, <2>3 DEF OnList, One
<1> QED BY <1>3, <1>4

LEMMA WorkerHolds ==
  ASSUME TypeInv, NEW n \in Msgs, NEW w, ins' = [ins EXCEPT ![n] = w], NEW m \in Msgs
  PROVE  /\ WithWorker(m)' = IF m = n THEN One(w.gw # Nowhere) ELSE WithWorker(m)
         /\ Begun(m)' = IF m = n THEN One(w.pc # "new") ELSE Begun(m)
BY DEF WithWorker, Begun, TypeInv, TypeOK

LEMMA WorkerEnds ==
  ASSUME TypeInv, NEW n \in Msgs, ins' = [ins EXCEPT ![n] = Finished], NEW m \in Msgs
  PROVE  /\ WithWorker(m)' = IF m = n THEN 0 ELSE WithWorker(m)
         /\ Begun(m)' = IF m = n THEN 1 ELSE Begun(m)
<1>1. Finished.gw = Nowhere /\ Finished.pc # "new"
  BY DEF Finished, Worker
<1>2. /\ WithWorker(m)' = IF m = n THEN One(Finished.gw # Nowhere) ELSE WithWorker(m)
      /\ Begun(m)' = IF m = n THEN One(Finished.pc # "new") ELSE Begun(m)
  BY WorkerHolds
<1> QED BY <1>1, <1>2 DEF One
--------------------------------------------------------------------------------
(* Each step keeps the balance. *)

LEMMA DispatchBalance ==
  ASSUME TypeInv, NEW n \in Msgs, Dispatch(n), NEW m \in Msgs, Balance(m)
  PROVE  Balance(m)'
<1> DEFINE u == For[n]
<1>1. u \in Users /\ at[u] \in Gateways /\ at[u] # Nowhere
  BY Constants DEF Dispatch, TypeInv, TypeOK
<1>2. WithWorker(n) = 0 /\ Begun(n) = 0
  BY WorkerType DEF Dispatch, InsOK, WithWorker, Begun, One
<1>3. OnList(m)' = OnList(m) /\ WithListeners(m)' = WithListeners(m)
  BY DEF Dispatch, OnList, WithListeners, Holders, redisVars
<1>4. OnLocal(m)' = OnLocal(m) /\ written'[m] = written[m] /\ gone'[m] = gone[m] /\ dup'[m] = dup[m]
  BY DEF Dispatch, OnLocal, history
<1>5. \/ /\ OnChan(m)' = OnChan(m) + One(n = m)
         /\ WithWorker(m)' = IF m = n THEN 0 ELSE WithWorker(m)
      \/ /\ OnChan(m)' = OnChan(m)
         /\ WithWorker(m)' = IF m = n THEN 1 ELSE WithWorker(m)
  <2>1. CASE HasRoom(u)
    <3>1. ins' = [ins EXCEPT ![n] = Finished] /\ ChanTook(u, n)
      BY <2>1 DEF Dispatch, ChanTook
    <3>2. OnChan(m)' = OnChan(m) + One(n = m)
      BY <1>1, <3>1, ChanTakes
    <3> QED BY <3>1, <3>2, WorkerEnds
  <2>2. CASE ~ HasRoom(u)
    <3>1. ins' = [ins EXCEPT ![n] = Worker("load", at[u], 0)] /\ chan' = chan
      BY <2>2 DEF Dispatch
    <3>2. Worker("load", at[u], 0).gw = at[u]
      BY DEF Worker
    <3> QED BY <1>1, <3>1, <3>2, WorkerHolds DEF OnChan, One
  <2> QED BY <2>1, <2>2
<1>6. Begun(m)' = IF m = n THEN 1 ELSE Begun(m)
  <2>1. CASE HasRoom(u)
    <3>1. ins' = [ins EXCEPT ![n] = Finished]
      BY <2>1 DEF Dispatch
    <3> QED BY <3>1, WorkerEnds
  <2>2. CASE ~ HasRoom(u)
    <3>1. ins' = [ins EXCEPT ![n] = Worker("load", at[u], 0)]
      BY <2>2 DEF Dispatch
    <3>2. Worker("load", at[u], 0).pc # "new"
      BY DEF Worker
    <3> QED BY <3>1, <3>2, WorkerHolds DEF One
  <2> QED BY <2>1, <2>2
<1> HIDE DEF u
<1> QED BY <1>2, <1>3, <1>4, <1>5, <1>6, Numbers DEF Balance, One

LEMMA LoadStoreBalance ==
  ASSUME TypeInv, NEW n \in Msgs, Load(n) \/ Store(n), NEW m \in Msgs, Balance(m)
  PROVE  Balance(m)'
<1>1. WithWorker(m)' = WithWorker(m) /\ Begun(m)' = Begun(m)
  <2>1. /\ ins' = [ins EXCEPT ![n] = ins'[n]] /\ ins'[n].gw = ins[n].gw
        /\ ins'[n].pc # "new" /\ ins[n].pc # "new"
    BY LoadStoreType
  <2>2. /\ WithWorker(m)' = IF m = n THEN One(ins'[n].gw # Nowhere) ELSE WithWorker(m)
        /\ Begun(m)' = IF m = n THEN One(ins'[n].pc # "new") ELSE Begun(m)
    BY <2>1, WorkerHolds
  <2> QED BY <2>1, <2>2 DEF WithWorker, Begun
<1>2. UNCHANGED <<list, lis, local, chan, written, gone, dup>>
  BY DEF Load, Store, redisVars, connVars, history
<1> QED BY <1>1, <1>2 DEF Balance, OnList, WithListeners, Holders, OnLocal, OnChan

LEMMA PushBalance ==
  ASSUME TypeInv, NEW n \in Msgs, NEW o \in Outcomes, Push(n, o), NEW m \in Msgs, Balance(m)
  PROVE  Balance(m)'
<1>1. /\ ins' = [ins EXCEPT ![n] = ins'[n]]
      /\ ins'[n].gw = IF o = "ok" THEN Nowhere ELSE ins[n].gw
      /\ ins'[n].pc # "new" /\ ins[n].pc # "new"
      /\ ins[n].gw # Nowhere
  BY PushType, Constants DEF Push
<1>2. /\ WithWorker(m)' = IF m = n THEN One(ins'[n].gw # Nowhere) ELSE WithWorker(m)
      /\ Begun(m)' = IF m = n THEN One(ins'[n].pc # "new") ELSE Begun(m)
  BY <1>1, WorkerHolds
<1>3. /\ WithWorker(m)' = IF m = n /\ o = "ok" THEN 0 ELSE WithWorker(m)
      /\ Begun(m)' = Begun(m)
      /\ m = n => WithWorker(m) = 1
  BY <1>1, <1>2 DEF One, WithWorker, Begun
<1>4. OnList(m)' = OnList(m) + One(o # "failed" /\ n = m)
  <2>1. For[n] \in Users /\ n \in MsgsOf(For[n])
    BY Constants DEF MsgsOf
  <2>2. list' = [list EXCEPT ![For[n]] = Pushed(@, n, o)]
    BY DEF Push
  <2> QED BY <2>1, <2>2, ListTakes
<1>5. dup'[m] = dup[m] + One(o = "lost" /\ n = m)
  <2>1. dup \in [Msgs -> Nat] /\ dup' = [dup EXCEPT ![n] = @ + IF o = "lost" THEN 1 ELSE 0]
    BY DEF Push, TypeInv, TypeOK
  <2> QED BY <2>1 DEF One
<1>6. /\ UNCHANGED <<lis, local, chan, written, gone>>
  BY DEF Push, connVars
<1>7. /\ WithListeners(m)' = WithListeners(m) /\ OnLocal(m)' = OnLocal(m) /\ OnChan(m)' = OnChan(m)
      /\ written'[m] = written[m] /\ gone'[m] = gone[m]
  BY <1>6 DEF WithListeners, Holders, OnLocal, OnChan
<1> QED BY <1>3, <1>4, <1>5, <1>7, Numbers DEF Balance, One, Outcomes

LEMMA ParkBalance ==
  ASSUME TypeInv, NEW n \in Msgs, Park(n), NEW m \in Msgs, Balance(m)
  PROVE  Balance(m)'
<1> DEFINE p == <<ins[n].gw, For[n]>>
<1>1. ins' = [ins EXCEPT ![n] = Finished] /\ p \in Gateways \X Users
  BY ParkType
<1>2. ins[n].pc = "local" /\ ins[n].gw # Nowhere
  BY WorkerType, Constants DEF Park
<1>3. /\ WithWorker(m)' = IF m = n THEN 0 ELSE WithWorker(m)
      /\ Begun(m)' = Begun(m)
      /\ m = n => WithWorker(m) = 1
  <2>1. /\ WithWorker(m)' = IF m = n THEN 0 ELSE WithWorker(m)
        /\ Begun(m)' = IF m = n THEN 1 ELSE Begun(m)
    BY <1>1, WorkerEnds
  <2>2. WithWorker(n) = 1 /\ Begun(n) = 1
    BY <1>2 DEF WithWorker, Begun, One
  <2> QED BY <2>1, <2>2
<1>4. OnLocal(m)' = OnLocal(m) + One(n = m)
  <2>1. LocalTook(p, n)
    BY DEF Park, LocalTook
  <2> HIDE DEF p
  <2> QED BY <1>1, <2>1, LocalTakes
<1>5. UNCHANGED <<list, lis, chan, written, gone, dup>>
  BY DEF Park, redisVars, connVars, history
<1>6. /\ OnList(m)' = OnList(m) /\ WithListeners(m)' = WithListeners(m) /\ OnChan(m)' = OnChan(m)
      /\ written'[m] = written[m] /\ gone'[m] = gone[m] /\ dup'[m] = dup[m]
  BY <1>5 DEF OnList, WithListeners, Holders, OnChan
<1> HIDE DEF p
<1> QED BY <1>3, <1>4, <1>6, Numbers DEF Balance, One

\* The steps of a listener that neither take nor give a message.
LEMMA QuietBalance ==
  ASSUME TypeInv, NEW g \in Gateways, lis' = [lis EXCEPT ![g] = lis'[g]],
         lis[g].msg = NoMsg, lis'[g].msg = NoMsg,
         UNCHANGED <<list, local, chan, ins, written, gone, dup>>,
         NEW m \in Msgs, Balance(m)
  PROVE  Balance(m)'
<1>1. WithListeners(m)' = WithListeners(m) - One(lis[g].msg = m) + One(lis'[g].msg = m)
  BY ListenerHolds
<1>2. WithListeners(m)' = WithListeners(m)
  BY <1>1, Numbers, Constants DEF One
<1>3. /\ OnList(m)' = OnList(m) /\ OnLocal(m)' = OnLocal(m) /\ OnChan(m)' = OnChan(m)
      /\ WithWorker(m)' = WithWorker(m) /\ Begun(m)' = Begun(m)
  BY DEF OnList, OnLocal, OnChan, WithWorker, Begun
<1> QED BY <1>2, <1>3 DEF Balance

LEMMA PopBalance ==
  ASSUME TypeInv, NEW g \in Gateways, NEW o \in Outcomes, Pop(g, o), NEW m \in Msgs, Balance(m)
  PROVE  Balance(m)'
<1> DEFINE u == lis[g].user
           full == list[u] # << >>
           h == Head(list[u])
<1>1. /\ u \in Users /\ lis[g].msg = NoMsg /\ lis' = [lis EXCEPT ![g] = lis'[g]]
      /\ lis'[g].msg = IF o = "ok" /\ full THEN h ELSE NoMsg
      /\ full => h \in MsgsOf(u)
  BY PopType
<1>2. WithListeners(m)' = WithListeners(m) - One(lis[g].msg = m) + One(lis'[g].msg = m)
  BY <1>1, ListenerHolds
<1>3. WithListeners(m)' = WithListeners(m) + One(o = "ok" /\ full /\ h = m)
  BY <1>1, <1>2, Numbers, Constants DEF One
<1>4. OnList(m) = OnList(m)' + One(o # "failed" /\ full /\ h = m)
  BY <1>1, ListGives DEF Pop
<1>5. gone'[m] = gone[m] + One(o = "lost" /\ full /\ h = m)
  <2>1. gone \in [Msgs -> Nat] /\ gone' = IF o = "lost" /\ full
                                          THEN [gone EXCEPT ![h] = @ + 1] ELSE gone
    BY DEF Pop, TypeInv, TypeOK
  <2>2. full => h \in Msgs
    BY <1>1, MsgsOfUser
  <2> HIDE DEF h, full
  <2> QED BY <2>1, <2>2 DEF One
<1>6. UNCHANGED <<local, chan, ins, written, dup>>
  BY DEF Pop, connVars
<1>7. /\ OnLocal(m)' = OnLocal(m) /\ OnChan(m)' = OnChan(m)
      /\ WithWorker(m)' = WithWorker(m) /\ Begun(m)' = Begun(m)
      /\ written'[m] = written[m] /\ dup'[m] = dup[m]
  BY <1>6 DEF OnLocal, OnChan, WithWorker, Begun
<1>8. OnList(m)' \in Nat
  <2>1. TypeInv'
    BY PopType
  <2>2. list'[For[m]] \in Seq(MsgsOf(For[m]))
    BY <2>1, Constants DEF TypeInv
  <2> QED BY <2>2, CopiesType DEF OnList
<1> HIDE DEF h, full
<1> QED BY <1>3, <1>4, <1>5, <1>7, <1>8, Numbers DEF Balance, One, Outcomes

LEMMA EnqueueBalance ==
  ASSUME TypeInv, NEW g \in Gateways, Enqueue(g), NEW m \in Msgs, Balance(m)
  PROVE  Balance(m)'
<1> DEFINE u == lis[g].user
           e == lis[g].msg
<1>1. /\ u \in Users /\ e \in Msgs /\ lis' = [lis EXCEPT ![g] = lis'[g]]
      /\ \/ lis'[g].msg = NoMsg /\ ChanTook(u, e)
         \/ lis'[g].msg = e /\ chan' = chan
  BY EnqueueType DEF ChanTook
<1>2. WithListeners(m)' = WithListeners(m) - One(e = m) + One(lis'[g].msg = m)
  BY <1>1, ListenerHolds
<1>3. UNCHANGED <<list, local, ins, written, gone, dup>>
  BY DEF Enqueue, redisVars, history
<1>4. /\ OnList(m)' = OnList(m) /\ OnLocal(m)' = OnLocal(m)
      /\ WithWorker(m)' = WithWorker(m) /\ Begun(m)' = Begun(m)
      /\ written'[m] = written[m] /\ gone'[m] = gone[m] /\ dup'[m] = dup[m]
  BY <1>3 DEF OnList, OnLocal, WithWorker, Begun
<1> HIDE DEF u, e
<1>5. \E k \in {0, 1} : /\ OnChan(m)' = OnChan(m) + k
                         /\ WithListeners(m)' = WithListeners(m) - k
  <2>1. CASE lis'[g].msg = NoMsg /\ ChanTook(u, e)
    <3>1. OnChan(m)' = OnChan(m) + One(e = m)
      BY <1>1, <2>1, ChanTakes
    <3>2. WithListeners(m)' = WithListeners(m) - One(e = m)
      BY <1>2, <2>1, Numbers, Constants DEF One
    <3>3. One(e = m) \in {0, 1}
      BY DEF One
    <3> QED BY <3>1, <3>2, <3>3
  <2>2. CASE lis'[g].msg = e /\ chan' = chan
    <3>1. OnChan(m)' = OnChan(m)
      BY <2>2 DEF OnChan
    <3>2. WithListeners(m)' = WithListeners(m)
      BY <1>2, <2>2, Numbers DEF One
    <3> QED BY <3>1, <3>2, Numbers
  <2> QED BY <1>1, <2>1, <2>2
<1> QED BY <1>4, <1>5, Numbers DEF Balance

LEMMA PutBackBalance ==
  ASSUME TypeInv, NEW g \in Gateways, NEW o \in Outcomes, PutBack(g, o),
         NEW m \in Msgs, Balance(m)
  PROVE  Balance(m)'
<1> DEFINE u == lis[g].user
           e == lis[g].msg
           again == TriesAgain(o, lis[g].tries)
<1>1. /\ u \in Users /\ e \in MsgsOf(u) /\ e \in Msgs /\ lis' = [lis EXCEPT ![g] = lis'[g]]
      /\ lis'[g].msg = IF again THEN e ELSE NoMsg
  BY PutBackType DEF MsgsOf
<1>2. WithListeners(m)' = WithListeners(m) - One(e = m) + One(lis'[g].msg = m)
  BY <1>1, ListenerHolds
<1>3. WithListeners(m)' = WithListeners(m) - One(e = m /\ ~ again)
  BY <1>1, <1>2, Numbers, Constants DEF One
<1>4. OnList(m)' = OnList(m) + One(o # "failed" /\ e = m)
  <2>1. list' = [list EXCEPT ![u] = Pushed(@, e, o)]
    BY DEF PutBack
  <2> HIDE DEF u, e
  <2> QED BY <1>1, <2>1, ListTakes
<1>5. dup'[m] = dup[m] + One(o = "lost" /\ e = m)
  <2>1. dup \in [Msgs -> Nat] /\ dup' = [dup EXCEPT ![e] = @ + IF o = "lost" THEN 1 ELSE 0]
    BY DEF PutBack, TypeInv, TypeOK
  <2> HIDE DEF e
  <2> QED BY <2>1 DEF One
<1>6. gone'[m] = gone[m] + One(GivesUp(o, lis[g].tries) /\ e = m)
  <2>1. /\ gone \in [Msgs -> Nat]
        /\ gone' = [gone EXCEPT ![e] = @ + IF GivesUp(o, lis[g].tries) THEN 1 ELSE 0]
    BY DEF PutBack, TypeInv, TypeOK
  <2> HIDE DEF e
  <2> QED BY <2>1 DEF One
<1>7. /\ again => o = "lost" /\ ~ GivesUp(o, lis[g].tries)
      /\ ~ again => GivesUp(o, lis[g].tries) \/ o = "ok"
      /\ o = "ok" => ~ GivesUp(o, lis[g].tries)
      /\ o = "failed" => GivesUp(o, lis[g].tries)
  BY ListenerType, Constants DEF TriesAgain, GivesUp, Outcomes
<1>8. UNCHANGED <<local, chan, ins, written>>
  BY DEF PutBack, connVars
<1>9. /\ OnLocal(m)' = OnLocal(m) /\ OnChan(m)' = OnChan(m)
      /\ WithWorker(m)' = WithWorker(m) /\ Begun(m)' = Begun(m) /\ written'[m] = written[m]
  BY <1>8 DEF OnLocal, OnChan, WithWorker, Begun
<1> DEFINE gives == GivesUp(o, lis[g].tries)
           l == One(e = m /\ ~ again)
           p == One(o # "failed" /\ e = m)
           d == One(o = "lost" /\ e = m)
           x == One(gives /\ e = m)
<1>10. l + d = p + x /\ l \in Nat /\ d \in Nat /\ p \in Nat /\ x \in Nat
  <2> HIDE DEF e, again, gives
  <2>1. CASE e = m
    BY <1>7, <2>1 DEF One, Outcomes, gives
  <2>2. CASE e # m
    BY <2>2 DEF One
  <2> QED BY <2>1, <2>2
<1>11. /\ WithListeners(m)' = WithListeners(m) - l /\ OnList(m)' = OnList(m) + p
       /\ dup'[m] = dup[m] + d /\ gone'[m] = gone[m] + x
  BY <1>3, <1>4, <1>5, <1>6
<1>12. /\ WithWorker(m) \in Nat /\ OnList(m) \in Nat /\ WithListeners(m) \in Nat
       /\ OnLocal(m) \in Nat /\ OnChan(m) \in Nat /\ Begun(m) \in Nat
       /\ written[m] \in Nat /\ gone[m] \in Nat /\ dup[m] \in Nat
  BY Numbers
<1> HIDE DEF l, p, d, x, e, again, gives
<1> QED BY <1>9, <1>10, <1>11, <1>12 DEF Balance

LEMMA WriteBalance ==
  ASSUME TypeInv, NEW u \in Users, Write(u), NEW m \in Msgs, Balance(m)
  PROVE  Balance(m)'
<1> DEFINE h == Head(chan[u])
<1>1. chan[u] \in Seq(Msgs \cup {Old}) /\ chan[u] # << >> /\ h \in Msgs \cup {Old}
  BY HeadTailProperties DEF Write, TypeInv, TypeOK
<1>2. Copies(chan[u], m) = Copies(Tail(chan[u]), m) + One(h = m)
  BY <1>1, CopiesTail DEF One
<1>3. Tail(chan[u]) \in Seq(Msgs \cup {Old}) /\ Copies(Tail(chan[u]), m) \in Nat
  BY WriteType, CopiesType
<1>4. OnChan(m)' = OnChan(m) - Copies(chan[u], m) + Copies(Tail(chan[u]), m)
  BY <1>3, ChanHolds DEF Write
<1>5. OnChan(m)' = OnChan(m) - One(h = m)
  BY <1>2, <1>3, <1>4, Numbers, OneType
<1>6. written'[m] = written[m] + One(h = m)
  <2>1. /\ written \in [Msgs -> Nat]
        /\ written' = IF h \in Msgs THEN [written EXCEPT ![h] = @ + 1] ELSE written
    BY DEF Write, TypeInv, TypeOK
  <2> HIDE DEF h
  <2> QED BY <2>1 DEF One
<1>7. UNCHANGED <<list, local, ins, lis, gone, dup>>
  BY DEF Write, redisVars
<1>8. /\ OnList(m)' = OnList(m) /\ OnLocal(m)' = OnLocal(m)
      /\ WithListeners(m)' = WithListeners(m)
      /\ WithWorker(m)' = WithWorker(m) /\ Begun(m)' = Begun(m)
      /\ gone'[m] = gone[m] /\ dup'[m] = dup[m]
  BY <1>7 DEF OnList, OnLocal, WithListeners, Holders, WithWorker, Begun
<1> HIDE DEF h
<1> QED BY <1>5, <1>6, <1>8, Numbers DEF Balance, One

LEMMA LeaveBalance ==
  ASSUME TypeInv, NEW u \in Users, Leave(u), NEW m \in Msgs, Balance(m)
  PROVE  Balance(m)'
<1>1. chan[u] \in Seq(Msgs \cup {Old}) /\ << >> \in Seq(Msgs \cup {Old})
  BY DEF TypeInv, TypeOK
<1>2. OnChan(m)' = OnChan(m) - Copies(chan[u], m) + Copies(<< >>, m)
  BY <1>1, ChanHolds DEF Leave
<1>3. gone'[m] = gone[m] + Copies(chan[u], m)
  BY DEF Leave
<1>4. UNCHANGED <<list, local, ins, lis, written, dup>>
  BY DEF Leave
<1>5. /\ OnList(m)' = OnList(m) /\ OnLocal(m)' = OnLocal(m)
      /\ WithListeners(m)' = WithListeners(m)
      /\ WithWorker(m)' = WithWorker(m) /\ Begun(m)' = Begun(m)
      /\ written'[m] = written[m] /\ dup'[m] = dup[m]
  BY <1>4 DEF OnList, OnLocal, WithListeners, Holders, WithWorker, Begun
<1>6. Copies(chan[u], m) \in Nat /\ Copies(<< >>, m) = 0
  BY <1>1, CopiesType, CopiesEmpty
<1>7. /\ WithWorker(m) \in Nat /\ OnList(m) \in Nat /\ WithListeners(m) \in Nat
      /\ OnLocal(m) \in Nat /\ OnChan(m) \in Nat /\ Begun(m) \in Nat
      /\ written[m] \in Nat /\ gone[m] \in Nat /\ dup[m] \in Nat
  BY Numbers
<1> DEFINE c == Copies(chan[u], m)
<1>8. OnChan(m)' = OnChan(m) - c /\ gone'[m] = gone[m] + c /\ c \in Nat
  BY <1>2, <1>3, <1>6, <1>7
<1> HIDE DEF c
<1> QED BY <1>5, <1>7, <1>8 DEF Balance

LEMMA JoinBalance ==
  ASSUME TypeInv, NEW u \in Users, NEW g \in Gateways, Join(u, g), NEW m \in Msgs, Balance(m)
  PROVE  Balance(m)'
BY DEF Join, history, Balance, OnList, OnLocal, OnChan, WithListeners, Holders, WithWorker, Begun

LEMMA RestartBalance ==
  ASSUME TypeInv, NEW g \in Gateways, Restart(g), NEW m \in Msgs, Balance(m)
  PROVE  Balance(m)'
<1> DEFINE here == {u \in Users : at[u] = g}
           onlocal == CopiesAt(local, {g} \X Users, m)
           onchan == CopiesAt(chan, here, m)
<1>1. /\ OnLocal(m) = OnLocal(m)' + onlocal /\ OnChan(m) = OnChan(m)' + onchan
      /\ onlocal \in Nat /\ onchan \in Nat
  BY Cleared DEF OnLocal, OnChan
<1>2. gone'[m] = gone[m] + One(ins[m].gw = g) + One(lis[g].msg = m) + onlocal + onchan
  BY DEF Restart
<1>3. WithListeners(m)' = WithListeners(m) - One(lis[g].msg = m)
  <2>1. lis' = [lis EXCEPT ![g] = lis'[g]] /\ lis'[g].msg = NoMsg
    BY RestartType
  <2>2. WithListeners(m)' = WithListeners(m) - One(lis[g].msg = m) + One(lis'[g].msg = m)
    BY <2>1, ListenerHolds
  <2> QED BY <2>1, <2>2, Numbers, OneType, Constants DEF One
<1>4. Finished.gw = Nowhere /\ Finished.pc = "done"
  BY DEF Finished, Worker
<1>5. ins'[m] = IF ins[m].gw = g THEN Finished ELSE ins[m]
  BY DEF Restart
<1>6. ins[m].gw = g => ins[m].pc # "new"
  BY WorkerType, Constants DEF InsOK
<1>7. WithWorker(m)' = WithWorker(m) - One(ins[m].gw = g) /\ Begun(m)' = Begun(m)
  BY <1>4, <1>5, <1>6, Constants DEF WithWorker, Begun, One
<1>8. OnList(m)' = OnList(m) /\ written'[m] = written[m] /\ dup'[m] = dup[m]
  BY DEF Restart, OnList
<1>9. One(ins[m].gw = g) \in Nat /\ One(lis[g].msg = m) \in Nat
  BY OneType
<1>10. OnLocal(m)' \in Nat /\ OnChan(m)' \in Nat
  <2>1. local' \in Lists(Gateways \X Users, Msgs) /\ chan' \in Lists(Users, Msgs \cup {Old})
    BY Cleared
  <2> QED BY <2>1, WaitAssumption, FS_Product, CopiesAmongType DEF OnLocal, OnChan
<1> HIDE DEF onlocal, onchan
<1> DEFINE w == One(ins[m].gw = g)
           l == One(lis[g].msg = m)
<1>11. /\ gone'[m] = gone[m] + w + l + onlocal + onchan
       /\ WithListeners(m)' = WithListeners(m) - l /\ WithWorker(m)' = WithWorker(m) - w
       /\ w \in Nat /\ l \in Nat
  BY <1>2, <1>3, <1>7, <1>9
<1> HIDE DEF w, l
<1> QED BY <1>1, <1>7, <1>8, <1>10, <1>11, Numbers DEF Balance

LEMMA InitBalance == Init => \A m \in Msgs : Balance(m)
<1> SUFFICES ASSUME Init, NEW m \in Msgs PROVE Balance(m)
  OBVIOUS
<1>1. WithWorker(m) = 0 /\ Begun(m) = 0
  BY DEF Init, WithWorker, Begun, One, NotYet, Worker
<1>2. OnList(m) = 0
  BY Constants, CopiesEmpty DEF Init, OnList
<1>3. WithListeners(m) = 0
  <2>1. Holders(m) = {}
    BY Constants DEF Init, Holders, Ranging
  <2> QED BY <2>1, FS_EmptySet DEF WithListeners
<1>4. OnLocal(m) = 0
  <2>1. DOMAIN local = Gateways \X Users /\ \A p \in DOMAIN local : local[p] = << >>
    BY DEF Init
  <2> QED BY <2>1, CopiesAmongEmpty DEF OnLocal
<1>5. OnChan(m) = 0
  <2> DEFINE full == [i \in 1 .. ChanCap |-> Old]
  <2>1. DOMAIN chan = Users /\ \A u \in DOMAIN chan : chan[u] = full
    BY DEF Init
  <2>2. Where(full, m) = {}
    BY Constants DEF Where
  <2> HIDE DEF full
  <2>3. \A u \in DOMAIN chan : Where(chan[u], m) = {}
    BY <2>1, <2>2
  <2>4. Spots(chan, m) = {}
    BY <2>3 DEF Spots
  <2> QED BY <2>4, FS_EmptySet DEF OnChan, CopiesAmong
<1> QED BY <1>1, <1>2, <1>3, <1>4, <1>5 DEF Init, Balance
--------------------------------------------------------------------------------
(* Who attends to a list.  A listener off its round is at a user of its wait set, a *)
(* worker that pushes has its user in a wait set, and a list that is not empty has *)
(* a gateway that watches and is not about to remove the user without knowing of   *)
(* the push; or the user is one that unwatched names.                              *)

Watching == \A g \in Gateways : lis[g].pc # "range" => lis[g].user \in waitSet[g]

Announced ==
  \A m \in Msgs : ins[m].pc = "push" =>
    For[m] \in waitSet[ins[m].gw] \/ For[m] \in unwatched

Tends(g, u) == u \in waitSet[g] /\ (lis[g].pc = "remove" /\ lis[g].user = u => late[g])

Tended ==
  \A u \in Users : list[u] # << >> => u \in unwatched \/ \E g \in Gateways : Tends(g, u)

AttendInv == Watching /\ Announced /\ Tended

LEMMA InitAttend == Init => AttendInv
BY Constants DEF Init, AttendInv, Watching, Announced, Tended, Ranging, NotYet, Worker

\* The steps that touch neither lists nor listeners, where no worker comes to its push.
LEMMA AsideAttend ==
  ASSUME TypeInv, AttendInv, UNCHANGED <<list, waitSet, lis, late, unwatched>>,
         \A m \in Msgs : ins'[m].pc = "push" => ins'[m] = ins[m]
  PROVE  AttendInv'
BY DEF AttendInv, Watching, Announced, Tended, Tends

LEMMA DispatchAttend ==
  ASSUME TypeInv, AttendInv, NEW n \in Msgs, Dispatch(n)
  PROVE  AttendInv'
<1>1. \A m \in Msgs : ins'[m].pc = "push" => ins'[m] = ins[m]
  BY DEF Dispatch, Finished, Worker, TypeInv, TypeOK
<1>2. UNCHANGED <<list, waitSet, lis, late, unwatched>>
  BY DEF Dispatch, redisVars, history
<1> QED BY <1>1, <1>2, AsideAttend

LEMMA ParkAttend ==
  ASSUME TypeInv, AttendInv, NEW n \in Msgs, Park(n)
  PROVE  AttendInv'
<1>1. \A m \in Msgs : ins'[m].pc = "push" => ins'[m] = ins[m]
  BY DEF Park, Finished, Worker, TypeInv, TypeOK
<1>2. UNCHANGED <<list, waitSet, lis, late, unwatched>>
  BY DEF Park, redisVars, history
<1> QED BY <1>1, <1>2, AsideAttend

LEMMA UserAttend ==
  ASSUME TypeInv, AttendInv, NEW u \in Users,
         Write(u) \/ Leave(u) \/ \E g \in Gateways : Join(u, g)
  PROVE  AttendInv'
<1>1. UNCHANGED <<list, waitSet, lis, late, unwatched, ins>>
  BY DEF Write, Leave, Join, redisVars, history
<1> QED BY <1>1, AsideAttend

LEMMA LoadStoreAttend ==
  ASSUME TypeInv, AttendInv, NEW n \in Msgs, Load(n) \/ Store(n)
  PROVE  AttendInv'
<1>1. /\ UNCHANGED <<list, lis, late, unwatched>>
      /\ ins' = [ins EXCEPT ![n] = ins'[n]] /\ ins'[n].gw = ins[n].gw
      /\ ins[n].gw \in Gateways
  BY LoadStoreType, WorkerType DEF Load, Store, redisVars, history
<1>2. /\ \A g \in Gateways : waitSet[g] \subseteq waitSet'[g]
      /\ ins'[n].pc = "push" => For[n] \in waitSet'[ins[n].gw]
  <2>1. CASE Load(n)
    <3>1. waitSet' = waitSet
      BY <2>1 DEF Load
    <3>2. For[n] \notin waitSet[ins[n].gw] => ins'[n] = Worker("store", ins[n].gw, 0)
      BY <2>1 DEF Load, TypeInv, TypeOK
    <3> QED BY <3>1, <3>2 DEF Worker
  <2>2. CASE Store(n)
    BY <1>1, <2>2 DEF Store, TypeInv, TypeOK
  <2> QED BY <2>1, <2>2
<1>3. Watching'
  BY <1>1, <1>2 DEF AttendInv, Watching
<1>4. Announced'
  <2> SUFFICES ASSUME NEW m \in Msgs, ins'[m].pc = "push"
               PROVE  For[m] \in waitSet'[ins'[m].gw] \/ For[m] \in unwatched'
    BY DEF Announced
  <2>1. CASE m = n
    BY <1>1, <1>2, <2>1
  <2>2. CASE m # n
    <3>1. ins'[m] = ins[m]
      BY <1>1, <2>2 DEF TypeInv, TypeOK
    <3>2. ins[m].gw \in Gateways
      BY <3>1, WorkerType
    <3> QED BY <1>1, <1>2, <3>1, <3>2 DEF AttendInv, Announced
  <2> QED BY <2>1, <2>2
<1>5. Tended'
  BY <1>1, <1>2 DEF AttendInv, Tended, Tends
<1> QED BY <1>3, <1>4, <1>5 DEF AttendInv

LEMMA PushAttend ==
  ASSUME TypeInv, AttendInv, NEW n \in Msgs, NEW o \in Outcomes, Push(n, o)
  PROVE  AttendInv'
<1> DEFINE u == For[n]
           g == ins[n].gw
<1>1. /\ ins' = [ins EXCEPT ![n] = ins'[n]] /\ ins[n].pc = "push" /\ g \in Gateways
      /\ ins'[n].pc = "push" => ins'[n].gw = g
      /\ u \in Users
  <2>1. ins' = [ins EXCEPT ![n] = ins'[n]] /\ g \in Gateways /\ ins[n].pc = "push"
    BY PushType DEF Push
  <2>2. ins'[n].pc = "push" => o # "ok"
    BY <2>1 DEF Push, TriesAgain, Answers, Finished, Worker, TypeInv, TypeOK
  <2> QED BY <2>1, <2>2, PushType, Constants
<1>2. /\ UNCHANGED <<waitSet, lis, unwatched>>
      /\ list' = [list EXCEPT ![u] = Pushed(@, n, o)]
      /\ late' = [late EXCEPT ![g] = @ \/ (o # "failed" /\ lis[g].user = u)]
  BY DEF Push
<1>3. Watching'
  BY <1>2 DEF AttendInv, Watching
<1>4. Announced'
  <2> SUFFICES ASSUME NEW m \in Msgs, ins'[m].pc = "push"
               PROVE  For[m] \in waitSet[ins'[m].gw] \/ For[m] \in unwatched
    BY <1>2 DEF Announced
  <2>1. ins[m].pc = "push" /\ ins'[m].gw = ins[m].gw
    BY <1>1 DEF TypeInv, TypeOK
  <2> QED BY <2>1 DEF AttendInv, Announced
<1>5. Tended'
  <2> SUFFICES ASSUME NEW v \in Users, list'[v] # << >>
               PROVE  v \in unwatched \/ \E h \in Gateways : Tends(h, v)'
    BY <1>2 DEF Tended
  <2>1. late \in [Gateways -> BOOLEAN] /\ list \in [Users -> Seq(Msgs)]
    BY DEF TypeInv, TypeOK
  <2>2. \A h \in Gateways : late[h] => late'[h]
    BY <1>2, <2>1
  <2>3. CASE list[v] # << >>
    BY <1>2, <2>2, <2>3 DEF AttendInv, Tended, Tends
  <2>4. CASE list[v] = << >>
    <3>1. v = u /\ o # "failed"
      BY <1>2, <2>1, <2>4 DEF Pushed
    <3>2. u \in waitSet[g] \/ u \in unwatched
      BY <1>1 DEF AttendInv, Announced
    <3>3. lis[g].user = u => late'[g]
      BY <1>1, <1>2, <2>1, <3>1
    <3>4. PICK h \in Gateways : h = g
      BY <1>1
    <3>5. v \in waitSet[h] => Tends(h, v)'
      BY <1>2, <3>1, <3>3, <3>4 DEF Tends
    <3> QED BY <3>1, <3>2, <3>4, <3>5
  <2> QED BY <2>3, <2>4
<1> QED BY <1>3, <1>4, <1>5 DEF AttendInv

\* The steps of a listener that leave the wait set: it is not about to remove its user,
\* or the list is empty, and it may have put a message back.
LEMMA ListenAttend ==
  ASSUME TypeInv, AttendInv, NEW g \in Gateways, lis' = [lis EXCEPT ![g] = lis'[g]],
         UNCHANGED <<waitSet, ins, unwatched>>,
         lis'[g].pc # "range" => lis'[g].user \in waitSet[g],
         \A h \in Gateways \ {g} : late'[h] = late[h],
         lis'[g].pc = "remove" => list[lis'[g].user] = << >> /\ list' = list,
         \A u \in Users : list'[u] # << >> =>
           list[u] # << >> \/ (u \in waitSet[g] /\ lis'[g].pc # "remove")
  PROVE  AttendInv'
<1>1. \A h \in Gateways \ {g} : lis'[h] = lis[h]
  BY DEF TypeInv, TypeOK
<1>2. Watching'
  BY <1>1 DEF AttendInv, Watching
<1>3. Announced'
  BY DEF AttendInv, Announced
<1>4. Tended'
  <2> SUFFICES ASSUME NEW u \in Users, list'[u] # << >>, u \notin unwatched
               PROVE  \E h \in Gateways : Tends(h, u)'
    BY DEF Tended
  <2>1. CASE u \in waitSet[g]
    <3>1. ~ (lis'[g].pc = "remove" /\ lis'[g].user = u)
      OBVIOUS
    <3> QED BY <2>1, <3>1 DEF Tends
  <2>2. CASE u \notin waitSet[g]
    <3>1. PICK h \in Gateways : Tends(h, u)
      BY <2>2 DEF AttendInv, Tended
    <3>2. h # g
      BY <2>2, <3>1 DEF Tends
    <3> QED BY <1>1, <3>1, <3>2 DEF Tends
  <2> QED BY <2>1, <2>2
<1> QED BY <1>2, <1>3, <1>4 DEF AttendInv

LEMMA VisitAttend ==
  ASSUME TypeInv, AttendInv, NEW g \in Gateways, Visit(g) \/ NextRound(g)
  PROVE  AttendInv'
<1>1. /\ lis' = [lis EXCEPT ![g] = lis'[g]] /\ lis'[g].pc \in {"range", "pop"}
      /\ lis'[g].pc = "pop" => lis'[g].user \in waitSet[g]
  BY RoundType
<1>2. UNCHANGED <<waitSet, ins, unwatched, late, list>>
  BY DEF Visit, NextRound, redisVars, history
<1> QED BY <1>1, <1>2, ListenAttend

LEMMA PopAttend ==
  ASSUME TypeInv, AttendInv, NEW g \in Gateways, NEW o \in Outcomes, Pop(g, o)
  PROVE  AttendInv'
<1>1. /\ lis' = [lis EXCEPT ![g] = lis'[g]] /\ lis'[g].pc \in {"range", "pop", "enqueue"}
      /\ lis'[g].pc # "range" => lis'[g].user \in waitSet[g]
  BY PopType DEF Pop, AttendInv, Watching
<1>2. UNCHANGED <<waitSet, ins, unwatched, late>>
  BY DEF Pop
<1>3. \A u \in Users : list'[u] # << >> => list[u] # << >>
  BY DEF Pop, Popped, TypeInv, TypeOK
<1> QED BY <1>1, <1>2, <1>3, ListenAttend

LEMMA EnqueueAttend ==
  ASSUME TypeInv, AttendInv, NEW g \in Gateways, Enqueue(g)
  PROVE  AttendInv'
<1>1. /\ lis' = [lis EXCEPT ![g] = lis'[g]] /\ lis'[g].pc \in {"len", "back"}
      /\ lis'[g].user \in waitSet[g]
  BY EnqueueType DEF Enqueue, AttendInv, Watching
<1>2. UNCHANGED <<waitSet, ins, unwatched, late, list>>
  BY DEF Enqueue, redisVars, history
<1> QED BY <1>1, <1>2, ListenAttend

LEMMA PutBackAttend ==
  ASSUME TypeInv, AttendInv, NEW g \in Gateways, NEW o \in Outcomes, PutBack(g, o)
  PROVE  AttendInv'
<1>1. /\ lis' = [lis EXCEPT ![g] = lis'[g]] /\ lis'[g].pc \in {"back", "range"}
      /\ lis[g].user \in waitSet[g]
      /\ lis'[g].pc # "range" => lis'[g].user \in waitSet[g]
  BY PutBackType DEF PutBack, AttendInv, Watching
<1>2. UNCHANGED <<waitSet, ins, unwatched, late>>
  BY DEF PutBack
<1>3. \A u \in Users \ {lis[g].user} : list'[u] = list[u]
  BY DEF PutBack, TypeInv, TypeOK
<1> QED BY <1>1, <1>2, <1>3, ListenAttend

LEMMA CheckLenAttend ==
  ASSUME TypeInv, AttendInv, NEW g \in Gateways, NEW o \in Outcomes, CheckLen(g, o)
  PROVE  AttendInv'
<1>1. /\ lis' = [lis EXCEPT ![g] = lis'[g]] /\ lis[g].pc = "len"
      /\ lis'[g].pc # "range" => /\ lis'[g].user = lis[g].user
                                 /\ list[lis[g].user] = << >>
  BY CheckLenType
<1>2. lis[g].user \in waitSet[g]
  BY <1>1 DEF AttendInv, Watching
<1>3. UNCHANGED <<waitSet, ins, unwatched, list>> /\ late' = [late EXCEPT ![g] = FALSE]
  BY DEF CheckLen
<1>4. \A h \in Gateways \ {g} : late'[h] = late[h]
  BY <1>3 DEF TypeInv, TypeOK
<1>5. lis'[g].pc = "remove" => list[lis'[g].user] = << >> /\ list' = list
  BY <1>1, <1>3
<1>6. ASSUME NEW u \in Users, list'[u] # << >>, u \notin unwatched
      PROVE  \E h \in Gateways : Tends(h, u)'
  <2>1. PICK h \in Gateways : Tends(h, u)
    BY <1>3, <1>6 DEF AttendInv, Tended
  <2>2. CASE h = g
    <3>1. ~ (lis'[g].pc = "remove" /\ lis'[g].user = u)
      BY <1>3, <1>5, <1>6
    <3> QED BY <1>3, <2>1, <2>2, <3>1 DEF Tends
  <2>3. CASE h # g
    <3>1. lis'[h] = lis[h]
      BY <1>1, <2>3 DEF TypeInv, TypeOK
    <3> QED BY <1>3, <1>4, <2>1, <2>3, <3>1 DEF Tends
  <2> QED BY <2>2, <2>3
<1>7. Tended'
  BY <1>3, <1>6 DEF Tended
<1>8. Watching'
  BY <1>1, <1>2, <1>3 DEF AttendInv, Watching, TypeInv, TypeOK
<1>9. Announced'
  BY <1>3 DEF AttendInv, Announced
<1> QED BY <1>7, <1>8, <1>9 DEF AttendInv

LEMMA RemoveAttend ==
  ASSUME TypeInv, AttendInv, NEW g \in Gateways, Remove(g)
  PROVE  AttendInv'
<1> DEFINE u == lis[g].user
           missed == late[g] \/ \E m \in Msgs : /\ For[m] = u /\ ins[m].gw = g
                                                /\ ins[m].pc = "push"
<1>1. /\ lis' = [lis EXCEPT ![g] = lis'[g]] /\ lis'[g].pc = "range" /\ u \in Users
      /\ waitSet' = [waitSet EXCEPT ![g] = @ \ {u}] /\ lis[g].pc = "remove"
      /\ UNCHANGED <<list, ins, late>>
      /\ unwatched' = IF missed THEN unwatched \cup {u} ELSE unwatched
  BY RemoveType DEF Remove, redisVars
<1>2. /\ waitSet \in [Gateways -> SUBSET Users] /\ lis \in [Gateways -> LisType]
      /\ waitSet'[g] = waitSet[g] \ {u}
      /\ \A h \in Gateways \ {g} : waitSet'[h] = waitSet[h] /\ lis'[h] = lis[h]
  BY <1>1 DEF TypeInv, TypeOK
<1>3. unwatched \subseteq unwatched' /\ (missed => u \in unwatched')
  BY <1>1
<1>4. Watching'
  BY <1>1, <1>2 DEF AttendInv, Watching
<1>5. Announced'
  <2> SUFFICES ASSUME NEW m \in Msgs, ins[m].pc = "push"
               PROVE  For[m] \in waitSet'[ins[m].gw] \/ For[m] \in unwatched'
    BY <1>1 DEF Announced
  <2>1. For[m] \in waitSet[ins[m].gw] \/ For[m] \in unwatched
    BY DEF AttendInv, Announced
  <2>2. ins[m].gw \in Gateways
    BY WorkerType
  <2>3. CASE ins[m].gw = g /\ For[m] = u
    <3>1. missed
      BY <2>3
    <3> QED BY <1>3, <2>3, <3>1
  <2>4. CASE ~ (ins[m].gw = g /\ For[m] = u)
    <3> HIDE DEF missed, u
    <3> QED BY <1>2, <1>3, <2>1, <2>2, <2>4
  <2> QED BY <2>3, <2>4
<1>6. Tended'
  <2> SUFFICES ASSUME NEW v \in Users, list[v] # << >>, v \notin unwatched'
               PROVE  \E h \in Gateways : Tends(h, v)'
    BY <1>1 DEF Tended
  <2>1. PICK h \in Gateways : Tends(h, v)
    BY <1>3 DEF AttendInv, Tended
  <2>2. ~ (h = g /\ v = u)
    <3>1. h = g /\ v = u => late[g]
      BY <1>1, <2>1 DEF Tends
    <3> QED BY <1>3, <3>1
  <2>3. v \in waitSet'[h]
    BY <1>2, <2>1, <2>2 DEF Tends
  <2>4. lis'[h].pc = "remove" /\ lis'[h].user = v => late'[h]
    <3>1. CASE h = g
      BY <1>1, <3>1
    <3>2. CASE h # g
      BY <1>1, <1>2, <2>1, <3>2 DEF Tends
    <3> QED BY <3>1, <3>2
  <2> QED BY <2>3, <2>4 DEF Tends
<1> QED BY <1>4, <1>5, <1>6 DEF AttendInv

LEMMA RestartAttend ==
  ASSUME TypeInv, AttendInv, NEW g \in Gateways, Restart(g)
  PROVE  AttendInv'
<1>1. lis' = [lis EXCEPT ![g] = lis'[g]] /\ lis'[g].pc = "range"
  BY RestartType
<1>2. /\ waitSet' = [waitSet EXCEPT ![g] = {}] /\ late' = [late EXCEPT ![g] = FALSE]
      /\ unwatched' = unwatched \cup waitSet[g] /\ list' = list
      /\ \A m \in Msgs : ins'[m] = IF ins[m].gw = g THEN Finished ELSE ins[m]
  BY DEF Restart
<1>3. \A h \in Gateways \ {g} :
        waitSet'[h] = waitSet[h] /\ lis'[h] = lis[h] /\ late'[h] = late[h]
  BY <1>1, <1>2 DEF TypeInv, TypeOK
<1>4. Watching'
  BY <1>1, <1>3 DEF AttendInv, Watching
<1>5. Announced'
  <2> SUFFICES ASSUME NEW m \in Msgs, ins'[m].pc = "push"
               PROVE  For[m] \in waitSet'[ins'[m].gw] \/ For[m] \in unwatched'
    BY DEF Announced
  <2>1. ins'[m] = ins[m] /\ ins[m].gw # g
    BY <1>2 DEF Finished, Worker
  <2>2. ins[m].gw \in Gateways
    BY <2>1, WorkerType
  <2> QED BY <1>2, <1>3, <2>1, <2>2 DEF AttendInv, Announced
<1>6. Tended'
  <2> SUFFICES ASSUME NEW v \in Users, list[v] # << >>, v \notin unwatched'
               PROVE  \E h \in Gateways : Tends(h, v)'
    BY <1>2 DEF Tended
  <2>1. PICK h \in Gateways : Tends(h, v)
    BY <1>2 DEF AttendInv, Tended
  <2>2. h # g
    BY <1>2, <2>1 DEF Tends
  <2> QED BY <1>3, <2>1, <2>2 DEF Tends
<1> QED BY <1>4, <1>5, <1>6 DEF AttendInv
--------------------------------------------------------------------------------
(* The inductive invariant, and the theorems. *)

IInv == TypeInv /\ (\A m \in Msgs : Balance(m)) /\ AttendInv

LEMMA InitInv == Init => IInv
BY TypeInit, InitBalance, InitAttend DEF IInv

LEMMA StepInv == IInv /\ [Next]_vars => IInv'
<1> SUFFICES ASSUME IInv, [Next]_vars PROVE IInv'
  OBVIOUS
<1>0. TypeInv /\ (\A m \in Msgs : Balance(m)) /\ AttendInv
  BY DEF IInv
<1>1. ASSUME NEW n \in Msgs, Dispatch(n) PROVE IInv'
  BY <1>0, <1>1, DispatchType, DispatchBalance, DispatchAttend DEF IInv
<1>2. ASSUME NEW n \in Msgs, Load(n) \/ Store(n) PROVE IInv'
  BY <1>0, <1>2, LoadStoreType, LoadStoreBalance, LoadStoreAttend DEF IInv
<1>3. ASSUME NEW n \in Msgs, NEW o \in Outcomes, Push(n, o) PROVE IInv'
  BY <1>0, <1>3, PushType, PushBalance, PushAttend DEF IInv
<1>4. ASSUME NEW n \in Msgs, Park(n) PROVE IInv'
  BY <1>0, <1>4, ParkType, ParkBalance, ParkAttend DEF IInv
<1>5. ASSUME NEW g \in Gateways, Visit(g) \/ NextRound(g) PROVE IInv'
  <2>1. UNCHANGED <<list, local, chan, ins, written, gone, dup>>
    BY <1>5 DEF Visit, NextRound, redisVars, connVars, history
  <2>2. /\ TypeInv' /\ lis' = [lis EXCEPT ![g] = lis'[g]]
        /\ lis[g].msg = NoMsg /\ lis'[g].msg = NoMsg
    BY <1>0, <1>5, RoundType
  <2>3. \A m \in Msgs : Balance(m)'
    BY <1>0, <2>1, <2>2, QuietBalance
  <2> QED BY <1>0, <1>5, <2>2, <2>3, VisitAttend DEF IInv
<1>6. ASSUME NEW g \in Gateways, NEW o \in Outcomes, Pop(g, o) PROVE IInv'
  BY <1>0, <1>6, PopType, PopBalance, PopAttend DEF IInv
<1>7. ASSUME NEW g \in Gateways, Enqueue(g) PROVE IInv'
  BY <1>0, <1>7, EnqueueType, EnqueueBalance, EnqueueAttend DEF IInv
<1>8. ASSUME NEW g \in Gateways, NEW o \in Outcomes, PutBack(g, o) PROVE IInv'
  BY <1>0, <1>8, PutBackType, PutBackBalance, PutBackAttend DEF IInv
<1>9. ASSUME NEW g \in Gateways, NEW o \in Outcomes, CheckLen(g, o) PROVE IInv'
  <2>1. UNCHANGED <<list, local, chan, ins, written, gone, dup>>
    BY <1>9 DEF CheckLen, connVars
  <2>2. /\ TypeInv' /\ lis' = [lis EXCEPT ![g] = lis'[g]]
        /\ lis[g].msg = NoMsg /\ lis'[g].msg = NoMsg
    BY <1>0, <1>9, CheckLenType
  <2>3. \A m \in Msgs : Balance(m)'
    BY <1>0, <2>1, <2>2, QuietBalance
  <2> QED BY <1>0, <1>9, <2>2, <2>3, CheckLenAttend DEF IInv
<1>10. ASSUME NEW g \in Gateways, Remove(g) PROVE IInv'
  <2>1. UNCHANGED <<list, local, chan, ins, written, gone, dup>>
    BY <1>10 DEF Remove, redisVars, connVars
  <2>2. /\ TypeInv' /\ lis' = [lis EXCEPT ![g] = lis'[g]]
        /\ lis[g].msg = NoMsg /\ lis'[g].msg = NoMsg
    BY <1>0, <1>10, RemoveType
  <2>3. \A m \in Msgs : Balance(m)'
    BY <1>0, <2>1, <2>2, QuietBalance
  <2> QED BY <1>0, <1>10, <2>2, <2>3, RemoveAttend DEF IInv
<1>11. ASSUME NEW g \in Gateways, Restart(g) PROVE IInv'
  BY <1>0, <1>11, RestartType, RestartBalance, RestartAttend DEF IInv
<1>12. ASSUME NEW u \in Users, Write(u) PROVE IInv'
  BY <1>0, <1>12, WriteType, WriteBalance, UserAttend DEF IInv
<1>13. ASSUME NEW u \in Users, Leave(u) PROVE IInv'
  BY <1>0, <1>13, LeaveType, LeaveBalance, UserAttend DEF IInv
<1>14. ASSUME NEW u \in Users, NEW g \in Gateways, Join(u, g) PROVE IInv'
  BY <1>0, <1>14, JoinType, JoinBalance, UserAttend DEF IInv
<1>15. CASE UNCHANGED vars
  <2>1. TypeInv'
    BY <1>0, <1>15 DEF vars, redisVars, connVars, history, TypeInv, TypeOK
  <2>2. \A m \in Msgs : Balance(m)'
    BY <1>0, <1>15 DEF vars, redisVars, connVars, history, Balance, WithWorker, OnList,
      WithListeners, Holders, OnLocal, OnChan, Begun
  <2>3. AttendInv'
    BY <1>0, <1>15, AsideAttend DEF vars, redisVars, connVars, history
  <2> QED BY <2>1, <2>2, <2>3 DEF IInv
<1> QED BY <1>1, <1>2, <1>3, <1>4, <1>5, <1>6, <1>7, <1>8, <1>9, <1>10, <1>11, <1>12,
           <1>13, <1>14, <1>15 DEF Next, Insert, Listen

\* The inductive invariant: the types, the balance of copies, who attends to a list.
THEOREM Invariant == Spec => []IInv
BY InitInv, StepInv, PTL DEF Spec

\* WaitQueue's state has the declared types, for every number of gateways, users and
\* messages and every capacity: channels do not exceed theirs.
THEOREM TypeCorrect == Spec => []TypeOK
<1>1. IInv => TypeOK
  BY DEF IInv, TypeInv
<1> QED BY <1>1, Invariant, PTL

\* The pop, the failed enqueue and the put-back lose no message and make no second
\* one (channel_redis.go:97-118), however many gateways listen to the same list, but
\* where an answer is lost, a put-back gives up, a connection ends or a process does.
THEOREM NothingLost == Spec => []Conserved
<1>1. IInv => Conserved
  <2> SUFFICES ASSUME IInv, NEW m \in Msgs, ins[m].pc # "new"
               PROVE  Copied(m) + written[m] + gone[m] = 1 + dup[m]
    BY DEF Conserved
  <2>1. Copied(m) = WithWorker(m) + OnList(m) + WithListeners(m) + OnLocal(m) + OnChan(m)
    BY DEF Copied, WithWorker, OnList, WithListeners, Holders, OnLocal, OnChan
  <2>2. Begun(m) = 1 /\ Balance(m)
    BY DEF IInv, Begun, One
  <2> QED BY <2>1, <2>2 DEF Balance
<1> QED BY <1>1, Invariant, PTL

\* A list that holds messages is watched by a gateway, except after a restart or after
\* a removal that raced with a push (channel_redis.go:121-130).
THEOREM AlwaysAttended == Spec => []Attended
<1>1. IInv => Attended
  BY DEF IInv, AttendInv, Tended, Tends, Attended
<1> QED BY <1>1, Invariant, PTL
================================================================================
