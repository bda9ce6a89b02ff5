-------------------------- MODULE SendDispatch_proofs --------------------------
(* Proofs about SendDispatch. *)
EXTENDS SendDispatchInv, FiniteSetTheorems, SequenceTheorems, TLAPS

\* The call records beyond their types: a call in progress names a message, and
\* from the lookup on the state it works on.
CallOK ==
  \A t \in Threads :
    /\ call[t].pc # "idle" => call[t].msg \in Msgs
    /\ call[t].pc \notin {"idle", "lookup"} => call[t].task \in Requests

BusyOK == \A w \in Workers : wpc[w] # "idle" => sub[w] \in SubMsgs

TypeInv == TypeOK /\ CallOK /\ BusyOK

LEMMA TargetsFinite ==
  ASSUME NEW r \in Requests
  PROVE  IsFiniteSet(Targets(r)) /\ Cardinality(Targets(r)) = Size[r]
BY SendAssumption, FS_Interval DEF Targets

LEMMA UsersFinite == IsFiniteSet(Users)
<1> DEFINE T == {1 .. Size[r] : r \in Requests}
           f == [r \in Requests |-> 1 .. Size[r]]
<1>1. f \in Surjection(Requests, T)
  BY DEF Surjection
<1>2. IsFiniteSet(T)
  BY <1>1, SendAssumption, FS_Surjection
<1>3. \A S \in T : IsFiniteSet(S)
  BY SendAssumption, FS_Interval
<1> QED BY <1>2, <1>3, FS_UNION DEF Users

LEMMA UserSets ==
  ASSUME NEW S \in SUBSET Users
  PROVE  IsFiniteSet(S) /\ Cardinality(S) \in Nat
BY UsersFinite, FS_Subset, FS_CardinalityType

LEMMA BatchUsers ==
  ASSUME NEW r \in Requests, NEW k
  PROVE  Batch(r, k) \subseteq Users
BY DEF Batch, Targets, Users

LEMMA RouteType ==
  /\ \A S \in SUBSET Users : \A f \in [S -> Gateways] : f \in Routes
  /\ \A f \in Routes : DOMAIN f \in SUBSET Users /\ f \in [DOMAIN f -> Gateways]
BY DEF Routes

LEMMA Calls ==
  /\ NoCall \in CallType
  /\ \A m \in Msgs, n \in Nat :
       /\ \A k \in Requests :
            [pc |-> "initLock", op |-> "init", msg |-> m, n |-> n, task |-> k] \in CallType
       /\ [pc |-> "lookup", op |-> "done", msg |-> m, n |-> n, task |-> NoTask] \in CallType
       /\ [pc |-> "lookup", op |-> "fail", msg |-> m, n |-> n, task |-> NoTask] \in CallType
BY DEF NoCall, CallType, CallPC

LEMMA TypeInit == Init => TypeInv
<1> SUFFICES ASSUME Init PROVE TypeInv
  OBVIOUS
<1> USE SendAssumption DEF Init
<1>1. PendingTypeOK
  <2>1. [k \in Requests |-> [pending |-> 0, failed |-> 0]] \in [Requests -> Counters]
    BY DEF Counters
  <2>2. [t \in Threads |-> NoCall] \in [Threads -> CallType]
    BY Calls
  <2> QED BY <2>1, <2>2 DEF PendingInit, PendingTypeOK
<1>2. CallOK
  BY DEF PendingInit, CallOK, NoCall
<1>3. BusyOK
  BY DEF BusyOK
<1>4. /\ queue \in Seq(SubMsgs)
      /\ sub \in [Workers -> SubMsgs \cup {NoSub}]
      /\ local \in [Users -> 0 .. LocalCap]
  BY DEF Init
<1>6. grp \in [Workers -> Routes]
  <2>1. << >> \in [{} -> Gateways]
    OBVIOUS
  <2> QED BY <2>1, RouteType DEF Init
<1>5. place \in [Requests -> [Users -> Place]]
  BY DEF Init, Place
<1> QED BY <1>1, <1>2, <1>3, <1>4, <1>5, <1>6 DEF TypeInv, TypeOK, RequestPC, WorkerPC
--------------------------------------------------------------------------------
(* Type correctness, one lemma per group of actions. *)

\* A call that begins is well formed.
LEMMA CallBegins ==
  ASSUME TypeInv, NEW t \in Threads, NEW r \in Requests, NEW n \in Nat,
         CallInit(t, MsgOf[r], r, n) \/ CallDoneN(t, MsgOf[r], n) \/ CallFailN(t, MsgOf[r], n)
  PROVE  call' \in [Threads -> CallType] /\ CallOK'
<1>1. MsgOf[r] \in Msgs
  BY SendAssumption
<1>2. call \in [Threads -> CallType]
  BY DEF TypeInv, TypeOK, PendingTypeOK
<1>3. call' \in [Threads -> CallType]
  BY <1>1, <1>2, Calls DEF CallInit, CallDoneN, CallFailN
<1>4. CallOK'
  BY <1>1, <1>2 DEF CallInit, CallDoneN, CallFailN, CallOK, TypeInv
<1> QED BY <1>3, <1>4

LEMMA Puts ==
  ASSUME TypeInv, NEW r \in Requests, NEW S, NEW p \in Place
  PROVE  Put(r, S, p) \in [Requests -> [Users -> Place]]
BY DEF TypeInv, TypeOK, Put

LEMMA CallMoves ==
  ASSUME NEW c \in CallType, NEW pc \in CallPC
  PROVE  [c EXCEPT !.pc = pc] \in CallType
BY DEF CallType

LEMMA CounterMoves ==
  ASSUME NEW h \in Counters, NEW n \in Nat
  PROVE  /\ [h EXCEPT !.pending = h.pending - n] \in Counters
         /\ [h EXCEPT !.failed = h.failed + n] \in Counters
BY DEF Counters

LEMMA TypeDispatch ==
  ASSUME TypeInv, NEW r \in Requests, DispatchStep(r)
  PROVE  TypeInv'
<1> USE SendAssumption DEF TypeInv, TypeOK, PendingTypeOK, BusyOK, taskVars,
        dispatchVars, workerVars, historyVars, Threads
<1>1. CASE Start(r)
  <2>1. call' \in [Threads -> CallType] /\ CallOK'
    BY <1>1, CallBegins DEF Start
  <2>2. rpc' \in [Requests -> RequestPC] /\ msg2sender' \in SUBSET Msgs
    BY <1>1 DEF Start, RequestPC
  <2> QED BY <1>1, <2>1, <2>2 DEF Start
<1>2. CASE Enqueue(r)
  <2>1. queue' \in Seq(SubMsgs) /\ next' \in [Requests -> Nat]
    BY <1>2 DEF Enqueue, SubMsgs
  <2> QED BY <1>2, <2>1 DEF Enqueue, CallOK, RequestPC
<1>3. CASE Drop(r)
  <2>1. failSet' \in [Threads -> SUBSET Users]
    BY <1>3, BatchUsers DEF Drop, Dropped
  <2>2. place' \in [Requests -> [Users -> Place]]
    BY <1>3, Puts DEF Drop, Place, Lost
  <2> QED BY <1>3, <2>1, <2>2 DEF Drop, RequestPC, CallOK
<1>4. CASE EndLoop(r)
  <2>1. CASE failSet[r] # {}
    <3>1. call' \in [Threads -> CallType] /\ CallOK'
      BY <1>4, <2>1, UserSets, CallBegins DEF EndLoop
    <3> QED BY <1>4, <3>1 DEF EndLoop, RequestPC
  <2>2. CASE failSet[r] = {}
    BY <1>4, <2>2 DEF EndLoop, RequestPC, CallOK
  <2> QED BY <2>1, <2>2
<1> QED BY <1>1, <1>2, <1>3, <1>4 DEF DispatchStep

LEMMA TypeWorker ==
  ASSUME TypeInv, NEW w \in Workers, WorkerStep(w)
  PROVE  TypeInv'
<1> USE SendAssumption DEF TypeInv, TypeOK, PendingTypeOK, BusyOK, taskVars,
        dispatchVars, workerVars, historyVars, Threads, WorkerPC
<1>a. wpc[w] # "idle" => sub[w] \in SubMsgs /\ sub[w][1] \in Requests
  BY DEF SubMsgs
<1>1. CASE Take(w)
  <2> DEFINE s == Head(queue)
  <2>1. queue' \in Seq(SubMsgs) /\ s \in SubMsgs /\ s[1] \in Requests
    <3>1. queue' \in Seq(SubMsgs) /\ s \in SubMsgs
      BY <1>1, HeadTailProperties DEF Take
    <3> QED BY <3>1 DEF SubMsgs
  <2>2. PICK route \in [Batch(s[1], s[2]) -> Gateways \cup {Offline}] :
          LET away == {u \in DOMAIN route : route[u] = Offline}
          IN  /\ off' = [off EXCEPT ![w] = away]
              /\ grp' = [grp EXCEPT ![w] = [u \in DOMAIN route \ away |-> route[u]]]
    BY <1>1 DEF Take
  <2>3. DOMAIN route \subseteq Users
    BY <2>1, BatchUsers
  <2>4. off' \in [Workers -> SUBSET Users]
    BY <2>2, <2>3
  <2>5. grp' \in [Workers -> Routes]
    <3> DEFINE away == {u \in DOMAIN route : route[u] = Offline}
               left == [u \in DOMAIN route \ away |-> route[u]]
    <3>1. left \in [DOMAIN route \ away -> Gateways] /\ DOMAIN route \ away \in SUBSET Users
      BY <2>3
    <3>2. left \in Routes
      BY <3>1, RouteType
    <3>3. grp' = [grp EXCEPT ![w] = left]
      BY <2>2
    <3> QED BY <3>2, <3>3
  <2> QED BY <1>1, <2>1, <2>4, <2>5 DEF Take, CallOK
<1>2. ASSUME NEW u \in Users, StoreOffline(w, u)
      PROVE  TypeInv'
  <2>1. place' \in [Requests -> [Users -> Place]]
    <3>1. {"offline", "local"} \subseteq Place
      BY DEF Place, Handled
    <3>2. place' = Put(sub[w][1], {u}, "offline") \/ place' = Put(sub[w][1], {u}, "local")
      BY <1>2 DEF StoreOffline
    <3> QED BY SMTT(30), <1>a, <1>2, <3>1, <3>2, Puts DEF StoreOffline
  <2>2. local' \in [Users -> 0 .. LocalCap]
    <3>1. \/ local' = local
          \/ local[u] < LocalCap /\ local' = [local EXCEPT ![u] = @ + 1]
      BY <1>2 DEF StoreOffline, HasRoom
    <3>2. local[u] + 1 \in 0 .. LocalCap \/ ~(local[u] < LocalCap)
      OBVIOUS
    <3>3. CASE local' = local
      BY <3>3
    <3>4. CASE local[u] < LocalCap /\ local' = [local EXCEPT ![u] = @ + 1]
      BY <3>2, <3>4
    <3> QED BY <3>1, <3>3, <3>4
  <2> QED BY <1>2, <2>1, <2>2 DEF StoreOffline, CallOK
<1>3. ASSUME NEW u \in Users, LocalFull(w, u)
      PROVE  TypeInv'
  BY <1>3 DEF LocalFull, CallOK
<1>4. CASE EndOffline(w)
  <2>1. CASE doneSet[w] # {}
    <3>1. call' \in [Threads -> CallType] /\ CallOK'
      BY <1>a, <1>4, <2>1, UserSets, CallBegins DEF EndOffline
    <3> QED BY <1>4, <3>1 DEF EndOffline
  <2>2. CASE doneSet[w] = {}
    BY <1>4, <2>2 DEF EndOffline, CallOK
  <2> QED BY <2>1, <2>2
<1>b. \A g \in Gateways : Group(w, g) \in SUBSET Users
  BY RouteType DEF Group
<1>c. ASSUME NEW g \in Gateways, grp' = Ungroup(w, g)
      PROVE  grp' \in [Workers -> Routes]
  <2> DEFINE S == DOMAIN grp[w] \ Group(w, g)
  <2>1. S \in SUBSET Users /\ \A u \in S : grp[w][u] \in Gateways
    BY RouteType
  <2>2. Restrict(grp[w], S) \in [S -> Gateways]
    BY <2>1 DEF Restrict
  <2>3. Restrict(grp[w], S) \in Routes
    BY <2>1, <2>2, RouteType
  <2> QED BY <1>c, <2>3 DEF Ungroup
<1>5. ASSUME NEW g \in Gateways, SendGroup(w, g)
      PROVE  TypeInv'
  <2>1. call' \in [Threads -> CallType] /\ CallOK'
    BY <1>a, <1>b, <1>5, UserSets, CallBegins DEF SendGroup, Ready
  <2>2. place' \in [Requests -> [Users -> Place]]
    BY <1>a, <1>5, Puts DEF SendGroup, Ready, Place, Handled
  <2> QED BY <1>b, <1>c, <1>5, <2>1, <2>2 DEF SendGroup
<1>6. ASSUME NEW g \in Gateways, FallBack(w, g)
      PROVE  TypeInv'
  <2>1. PICK stored \in SUBSET Group(w, g) :
          /\ doneSet' = [doneSet EXCEPT ![w] = stored]
          /\ failSet' = [failSet EXCEPT ![w] = Group(w, g) \ stored]
          /\ place' = [place EXCEPT ![sub[w][1]] =
                         [u \in Users |-> IF u \in stored THEN "offline"
                                          ELSE IF u \in Group(w, g) THEN "failed"
                                          ELSE @[u]]]
          /\ IF stored # {}
             THEN CallDoneN(w, MsgOf[sub[w][1]], Cardinality(stored))
             ELSE CallFailN(w, MsgOf[sub[w][1]], Cardinality(Group(w, g)))
    BY <1>6 DEF FallBack
  <2>2. stored \in SUBSET Users
    BY <1>b
  <2>3. Cardinality(stored) \in Nat /\ Cardinality(Group(w, g)) \in Nat
    BY <1>b, <2>2, UserSets
  <2>4. call' \in [Threads -> CallType] /\ CallOK'
    BY <1>a, <1>6, <2>1, <2>3, CallBegins DEF FallBack, Ready
  <2>5. place' \in [Requests -> [Users -> Place]]
    BY <1>a, <1>6, <2>1 DEF FallBack, Ready, Place, Handled, Lost
  <2>6. doneSet' \in [Threads -> SUBSET Users] /\ failSet' \in [Threads -> SUBSET Users]
    BY <1>b, <2>1, <2>2
  <2> QED BY <1>c, <1>6, <2>4, <2>5, <2>6 DEF FallBack
<1>7. CASE ReportFailed(w)
  <2>1. call' \in [Threads -> CallType] /\ CallOK'
    BY <1>a, <1>7, UserSets, CallBegins DEF ReportFailed
  <2> QED BY <1>7, <2>1 DEF ReportFailed
<1>8. CASE Finish(w)
  BY <1>8 DEF Finish, Ready, CallOK
<1> QED BY <1>1, <1>2, <1>3, <1>4, <1>5, <1>6, <1>7, <1>8 DEF WorkerStep

LEMMA TypeCall ==
  ASSUME TypeInv, NEW t \in Threads, CallStep(t)
  PROVE  TypeInv'
<1> USE SendAssumption DEF TypeInv, TypeOK, BusyOK, dispatchVars, workerVars, historyVars
<1>a. call[t] \in CallType /\ PendingTypeOK
  BY DEF PendingTypeOK
<1>b. ASSUME NEW pc \in CallPC, Goto(t, pc), call[t].pc # "idle",
             call[t].pc = "lookup" => pc = "idle"
      PROVE  call' \in [Threads -> CallType] /\ CallOK'
  <2>1. call' \in [Threads -> CallType]
    BY <1>a, <1>b, CallMoves DEF Goto, PendingTypeOK
  <2> QED BY <1>a, <1>b, <2>1 DEF Goto, CallOK, PendingTypeOK, CallType
<1>c. ASSUME Exit(t)
      PROVE  call' \in [Threads -> CallType] /\ CallOK'
  BY <1>a, <1>c, Calls DEF Exit, CallOK, PendingTypeOK, NoCall
<1>d. call[t].pc \notin {"idle", "lookup"} =>
        call[t].task \in Requests /\ heap[call[t].task] \in Counters
  BY <1>a DEF CallOK, PendingTypeOK
<1>e. call[t].n \in Nat /\ (call[t].pc # "idle" => call[t].msg \in Msgs)
  BY <1>a DEF CallType, CallOK
<1>1. CASE InTable(t)
  <2>1. PendingTypeOK' /\ CallOK'
    <3>1. CASE InitLock(t)
      BY <1>a, <1>b, <3>1 DEF InitLock, Lock, At, CallPC, PendingTypeOK
    <3>2. CASE InitStore(t)
      <4>1. [pending |-> call[t].n, failed |-> 0] \in Counters
        BY <1>e DEF Counters
      <4> QED BY <1>a, <1>c, <1>d, <1>e, <3>2, <4>1 DEF InitStore, At, PendingTypeOK
    <3>3. CASE Found(t)
      <4> DEFINE pc == IF call[t].op = "fail" THEN "addFailed" ELSE "addPending"
                 k == table[call[t].msg]
      <4>1. k \in Requests
        BY <1>a, <1>e, <3>3 DEF Found, At, PendingTypeOK
      <4>2. call' = [call EXCEPT ![t] = [call[t] EXCEPT !.pc = pc, !.task = k]]
        BY <1>a, <3>3 DEF Found, PendingTypeOK
      <4>3. [call[t] EXCEPT !.pc = pc, !.task = k] \in CallType
        BY <1>a, <4>1 DEF CallType, CallPC
      <4>4. call' \in [Threads -> CallType]
        BY <1>a, <4>2, <4>3 DEF PendingTypeOK
      <4>5. CallOK'
        BY <1>a, <1>e, <3>3, <4>1, <4>2 DEF CallOK, Found, At, PendingTypeOK, CallType
      <4> QED BY <1>a, <3>3, <4>4, <4>5 DEF Found, PendingTypeOK
    <3>4. CASE RuntimeFatal(t)
      BY <1>a, <3>4 DEF RuntimeFatal, PendingTypeOK, CallOK
    <3>5. CASE AddFailed(t)
      <4>1. [heap[call[t].task] EXCEPT !.failed = Failures(@, call[t].n)] \in Counters
        BY <1>d, <1>e, <3>5, CounterMoves DEF AddFailed, At, Failures
      <4>2. heap' \in [Requests -> Counters]
        BY <1>a, <1>d, <3>5, <4>1 DEF AddFailed, At, PendingTypeOK
      <4> QED BY <1>a, <1>b, <3>5, <4>2 DEF AddFailed, At, CallPC, PendingTypeOK
    <3>6. CASE DeleteLock(t)
      BY <1>a, <1>b, <3>6 DEF DeleteLock, Lock, At, CallPC, PendingTypeOK
    <3>7. CASE DeleteEntry(t)
      BY <1>a, <1>b, <3>7 DEF DeleteEntry, Deleted, At, CallPC, PendingTypeOK
    <3> QED BY <1>1, <3>1, <3>2, <3>3, <3>4, <3>5, <3>6, <3>7 DEF InTable
  <2> QED BY <1>1, <2>1 DEF InTable
<1>2. CASE Miss(t)
  <2>1. PendingTypeOK' /\ CallOK'
    BY <1>a, <1>c, <1>e, <1>2 DEF Miss, NotFound, PendingTypeOK, At
  <2>2. doneSet' \in [Threads -> SUBSET Users] /\ failSet' \in [Threads -> SUBSET Users]
    BY <1>2 DEF Miss, Clear
  <2> QED BY <1>2, <2>1, <2>2 DEF Miss
<1>3. CASE Account(t)
  <2> DEFINE left == heap[call[t].task].pending - call[t].n
  <2>1. [heap[call[t].task] EXCEPT !.pending = left] \in Counters
    BY <1>d, <1>e, <1>3, CounterMoves DEF Account, AddPending, At
  <2>2. heap' \in [Requests -> Counters]
    <3>1. heap' = [heap EXCEPT ![call[t].task] = [heap[call[t].task] EXCEPT !.pending = left]]
      BY <1>a, <1>d, <1>3 DEF Account, AddPending, At, PendingTypeOK
    <3> QED BY <1>a, <2>1, <3>1 DEF PendingTypeOK
  <2>3. call' \in [Threads -> CallType] /\ CallOK'
    BY <1>b, <1>c, <1>3 DEF Account, AddPending, At, CallPC
  <2>4. doneSet' \in [Threads -> SUBSET Users] /\ failSet' \in [Threads -> SUBSET Users]
    BY <1>3 DEF Account, Clear
  <2>5. counted' \in [Requests -> SUBSET Users]
    BY <1>3, <1>d DEF Account, AddPending, At, Reported
  <2>6. PendingTypeOK'
    BY <1>a, <1>3, <2>2, <2>3 DEF Account, AddPending, PendingTypeOK
  <2> QED BY <1>3, <2>3, <2>4, <2>5, <2>6 DEF Account
<1>4. CASE Ack(t) \/ Fail(t)
  <2>1. PendingTypeOK' /\ CallOK'
    BY <1>a, <1>c, <1>4 DEF Ack, Fail, Return, PendingTypeOK
  <2>2. doneCb' \in [Requests -> Nat] /\ failCb' \in [Requests -> Nat]
    <3>1. call[t].task \in Requests
      BY <1>d, <1>4 DEF Ack, Fail, Return, At
    <3>2. CASE Ack(t)
      BY <3>1, <3>2 DEF Ack
    <3>3. CASE Fail(t)
      BY <3>1, <3>3 DEF Fail
    <3> QED BY <1>4, <3>2, <3>3
  <2>3. acked' \subseteq Msgs /\ msg2sender' \subseteq Msgs
    BY <1>e, <1>4 DEF Ack, Fail, Return, At
  <2> QED BY <1>4, <2>1, <2>2, <2>3 DEF Ack, Fail
<1> QED BY <1>1, <1>2, <1>3, <1>4 DEF CallStep

LEMMA TypeStutter == TypeInv /\ UNCHANGED vars => TypeInv'
BY DEF TypeInv, TypeOK, PendingTypeOK, CallOK, BusyOK, vars, taskVars, dispatchVars,
       workerVars, historyVars

LEMMA TypeInvariant == Spec => []TypeInv
<1>1. TypeInv /\ [Next]_vars => TypeInv'
  BY TypeDispatch, TypeWorker, TypeCall, TypeStutter DEF Next
<1> QED BY <1>1, TypeInit, PTL DEF Spec

\* Type correctness, for any number of requests, workers, gateways and any sizes.
THEOREM TypeCorrect == Spec => []TypeOK
<1>1. TypeInv => TypeOK
  BY DEF TypeInv
<1> QED BY <1>1, TypeInvariant, PTL
--------------------------------------------------------------------------------
(* The invariant of SendDispatchInv is inductive when nobody resends. *)

LEMMA BatchToken ==
  ASSUME NEW r \in Requests, NEW k \in Nat, NEW u
  PROVE  u \in Batch(r, k) <=> u \in Targets(r) /\ Token(r, u) = <<r, k>>
BY DEF Batch, Token

LEMMA TokenType ==
  ASSUME NEW r \in Requests, NEW u \in Targets(r)
  PROVE  Token(r, u)[1] = r /\ Token(r, u)[2] \in Nat
BY SendAssumption DEF Token, Targets

\* A busy worker has a sub-message of a request whose state is stored, and only
\* targets of it that nobody else has.
LEMMA BusyFacts ==
  ASSUME TypeInv, IInv, NEW w \in Workers, Busy(w)
  PROVE  /\ sub[w][1] \in Requests /\ sub[w][2] \in Nat
         /\ sub[w] = <<sub[w][1], sub[w][2]>>
         /\ ~Fresh(sub[w][1])
         /\ RequestOf(w) = sub[w][1]
         /\ \A u \in Held(w) : u \in Targets(sub[w][1]) /\ Token(sub[w][1], u) = sub[w]
         /\ Held(w) \cap (counted[sub[w][1]] \cup failSet[sub[w][1]]) = {}
<1>1. sub[w][1] \in Requests /\ sub[w][2] \in Nat /\ sub[w] = <<sub[w][1], sub[w][2]>>
  BY DEF TypeInv, BusyOK, Busy, SubMsgs
<1>2. ~Fresh(sub[w][1])
  BY <1>1 DEF IInv, TokenShape, FreshOf
<1>3. RequestOf(w) = sub[w][1]
  BY SendAssumption DEF RequestOf
<1>4. \A u \in Held(w) : u \in Targets(sub[w][1]) /\ Token(sub[w][1], u) = sub[w]
  BY <1>1, BatchToken DEF IInv, WorkerOf
<1>5. Held(w) \cap (counted[sub[w][1]] \cup failSet[sub[w][1]]) = {}
  BY <1>1, <1>4 DEF IInv, ApartOf
<1> QED BY <1>1, <1>2, <1>3, <1>4, <1>5

\* Two busy workers have no target in common.
LEMMA HeldDisjoint ==
  ASSUME TypeInv, IInv, NEW v \in Workers, NEW w \in Workers, Busy(v), Busy(w), v # w,
         sub[v][1] = sub[w][1]
  PROVE  Held(v) \cap Held(w) = {}
BY BusyFacts DEF IInv, TokenShape

\* A goroutine that reports targets works for a request whose state is stored.
LEMMA CallFacts ==
  ASSUME TypeInv, IInv, NEW t \in Threads, call[t].op \in {"done", "fail"}
  PROVE  /\ RequestOf(t) \in Requests
         /\ ~Fresh(RequestOf(t))
         /\ call[t].msg = MsgOf[RequestOf(t)]
         /\ Reported(t) \subseteq Held(t)
         /\ t \in Workers => Busy(t)
<1>1. CASE t \in Workers
  <2>1. wpc[t] = "groups"
    BY <1>1 DEF IInv, CallOf
  <2>2. Busy(t)
    BY <2>1 DEF Busy
  <2>3. Reported(t) \subseteq Held(t)
    BY <1>1, SendAssumption DEF Reported, Held
  <2> QED BY <1>1, <2>2, <2>3, BusyFacts DEF IInv, CallOf
<1>2. CASE t \in Requests
  <2>1. call[t].op = "fail" /\ rpc[t] = "returned"
    BY <1>2 DEF IInv, CallOf
  <2>2. ~Fresh(t)
    BY <2>1 DEF Fresh
  <2>3. t \notin Workers
    BY <1>2, SendAssumption
  <2> QED BY <1>2, <2>1, <2>2, <2>3 DEF IInv, CallOf, RequestOf, Reported, Held
<1> QED BY <1>1, <1>2 DEF Threads

LEMMA InvInit == Init => IInv
<1> SUFFICES ASSUME Init PROVE IInv
  OBVIOUS
<1> USE SendAssumption DEF Init, PendingInit, NoCall
<1>1. TableShape /\ TokenShape
  BY DEF TableShape, TokenShape, Busy, InQueue
<1>2. Alone
  BY DEF Alone, Closing
<1>3. ASSUME NEW t \in Threads
      PROVE  CallOf(t) /\ FailOf(t) /\ ClosingOf(t)
  <2>1. call[t].pc = "idle" /\ call[t].op = "none" /\ failSet[t] = {}
    BY <1>3
  <2> QED BY <2>1 DEF CallOf, FailOf, ClosingOf, Accounting, Closing
<1>4. ASSUME NEW w \in Workers
      PROVE  WorkerOf(w) /\ ApartOf(w) /\ DoneOf(w) /\ WaitingOf(w)
  <2>1. /\ wpc[w] = "idle" /\ off[w] = {} /\ DOMAIN grp[w] = {}
        /\ doneSet[w] = {} /\ failSet[w] = {} /\ call[w].op = "none"
    BY <1>4 DEF Threads
  <2> QED BY <1>4, <2>1 DEF WorkerOf, ApartOf, DoneOf, WaitingOf, Held, Busy
<1>5. ASSUME NEW r \in Requests
      PROVE  /\ FreshOf(r) /\ CountOf(r) /\ CountedOf(r)
             /\ HeapOf(r) /\ VerdictOf(r) /\ OpenOf(r)
  <2>1. Fresh(r) /\ ~Verdict(r)
    BY DEF Fresh, Verdict
  <2>2. Targets(r) \subseteq Users
    BY DEF Targets, Users
  <2>3. failSet[r] = {} /\ counted[r] = {}
    BY DEF Threads
  <2>4. FreshOf(r) /\ CountOf(r) /\ CountedOf(r) /\ HeapOf(r)
    BY <2>1, <2>3 DEF FreshOf, CountOf, CountedOf, HeapOf
  <2>5. VerdictOf(r)
    BY <2>1 DEF VerdictOf
  <2>6. OpenOf(r)
    BY <2>2 DEF OpenOf
  <2> QED BY <2>4, <2>5, <2>6
<1> QED BY <1>1, <1>2, <1>3, <1>4, <1>5 DEF IInv
--------------------------------------------------------------------------------
(* The steps of Dispatch_gateway. *)

LEMMA InvStart ==
  ASSUME NoResend, TypeInv, IInv, NEW r \in Requests, Start(r)
  PROVE  IInv'
<1> USE SendAssumption DEF TypeInv, TypeOK, PendingTypeOK, workerVars, historyVars
<1>1. /\ r \in Threads /\ r \notin Workers /\ Fresh(r)
      /\ rpc[r] = "start" /\ call[r].pc = "idle" /\ call[r].op = "none"
  BY DEF Start, Running, Threads, Fresh, IInv, CallOf
<1>2. /\ call' = [call EXCEPT ![r] = [pc |-> "initLock", op |-> "init", msg |-> MsgOf[r],
                                       n |-> Size[r], task |-> r]]
      /\ rpc' = [rpc EXCEPT ![r] = "loop"]
      /\ UNCHANGED <<table, heap, next, queue, wpc, sub, off, grp,
                     doneSet, failSet, place, counted, doneCb, failCb, acked>>
      /\ msg2sender' = msg2sender \cup {MsgOf[r]}
  BY DEF Start, CallInit
<1>3. \A t \in Threads : t # r => call'[t] = call[t]
  BY <1>1, <1>2
<1>4. /\ call'[r] = [pc |-> "initLock", op |-> "init", msg |-> MsgOf[r],
                     n |-> Size[r], task |-> r]
      /\ rpc'[r] = "loop"
  BY <1>1, <1>2
<1>5. \A q \in Requests : Fresh(q)' <=> Fresh(q)
  BY <1>1, <1>2, <1>3, <1>4 DEF Fresh, Threads
<1>6. TableShape' /\ TokenShape'
  BY <1>2 DEF IInv, TableShape, TokenShape, InQueue, Busy
<1>7. Alone'
  <2>1. \A t \in Threads : call'[t].pc \in Closing => call'[t] = call[t]
    BY <1>3, <1>4 DEF Closing
  <2> QED BY <2>1 DEF IInv, Alone
<1>8. ASSUME NEW t \in Threads
      PROVE  CallOf(t)' /\ FailOf(t)' /\ ClosingOf(t)'
  <2>1. FailOf(t)'
    BY <1>2 DEF IInv, FailOf, RequestOf
  <2>2. CASE t = r
    BY <1>1, <1>4, <2>1, <2>2 DEF CallOf, ClosingOf, Accounting, Closing
  <2>3. CASE t # r
    BY <1>2, <1>3, <2>1, <2>3 DEF IInv, CallOf, ClosingOf, RequestOf, Reported, Verdict
  <2> QED BY <2>2, <2>3
<1>9. ASSUME NEW w \in Workers
      PROVE  WorkerOf(w)' /\ ApartOf(w)' /\ DoneOf(w)' /\ WaitingOf(w)'
  <2>1. call'[w] = call[w] /\ Held(w)' = Held(w)
    BY <1>1, <1>2, <1>3 DEF Threads, Held
  <2> QED BY <1>2, <2>1 DEF IInv, WorkerOf, ApartOf, DoneOf, WaitingOf, Busy
<1>10. ASSUME NEW q \in Requests
       PROVE  /\ FreshOf(q)' /\ CountOf(q)' /\ CountedOf(q)'
              /\ HeapOf(q)' /\ VerdictOf(q)' /\ OpenOf(q)'
  <2>1. Verdict(q)' = Verdict(q)
    BY <1>2 DEF Verdict
  <2>2. Verdict(q) => MsgOf[q] \notin msg2sender'
    BY <1>1, <1>2 DEF IInv, FreshOf, VerdictOf, Verdict, NoResend
  <2>3. FreshOf(q)' /\ CountOf(q)' /\ CountedOf(q)' /\ HeapOf(q)' /\ OpenOf(q)'
    BY <1>2, <1>5 DEF IInv, FreshOf, CountOf, CountedOf, HeapOf, OpenOf, InQueue
  <2> QED BY <1>2, <2>1, <2>2, <2>3 DEF IInv, VerdictOf
<1> QED BY <1>6, <1>7, <1>8, <1>9, <1>10 DEF IInv

LEMMA Queued ==
  ASSUME NEW q \in Seq(SubMsgs), NEW x \in SubMsgs
  PROVE  \E n \in Nat :
           /\ n = Len(q) /\ Len(Append(q, x)) = n + 1
           /\ \A i \in 1 .. n : q[i] \in SubMsgs /\ Append(q, x)[i] = q[i]
           /\ Append(q, x)[n + 1] = x
BY AppendProperties, LenProperties, ElementOfSeq

LEMMA InvEnqueue ==
  ASSUME TypeInv, IInv, NEW r \in Requests, Enqueue(r)
  PROVE  IInv'
<1> USE SendAssumption DEF TypeInv, TypeOK, PendingTypeOK, taskVars, workerVars, historyVars
<1> DEFINE x == <<r, next[r]>>
<1>1. /\ r \in Threads /\ r \notin Workers /\ ~Fresh(r)
      /\ call[r].pc = "idle" /\ call[r].op = "none"
  BY DEF Enqueue, Running, Threads, Fresh, IInv, CallOf
<1>2. /\ rpc' = rpc
      /\ next' = [next EXCEPT ![r] = next[r] + 1]
      /\ queue' = Append(queue, x)
      /\ UNCHANGED <<table, heap, call, wpc, sub, off, grp, msg2sender,
                     doneSet, failSet, place, counted, doneCb, failCb, acked>>
  BY DEF Enqueue
<1>3. /\ x \in SubMsgs /\ x[1] = r /\ x[2] = next[r]
      /\ next'[r] = next[r] + 1
      /\ \A q \in Requests : next[q] \in Nat /\ next'[q] \in Nat /\ next[q] <= next'[q]
  BY <1>2 DEF SubMsgs
<1>4. PICK n \in Nat :
        /\ n = Len(queue) /\ Len(queue') = n + 1
        /\ \A i \in 1 .. n : queue[i] \in SubMsgs /\ queue'[i] = queue[i]
        /\ queue'[n + 1] = x
  <2>1. queue \in Seq(SubMsgs) /\ x \in SubMsgs
    BY <1>3
  <2>2. queue' = Append(queue, x)
    BY <1>2
  <2> HIDE DEF x, TypeInv
  <2> QED BY <2>1, <2>2, Queued
<1>a. \A i \in 1 .. n + 1 : i \in 1 .. n \/ i = n + 1
  OBVIOUS
<1>5. ASSUME NEW y
      PROVE  InQueue(y)' <=> InQueue(y) \/ y = x
  <2>1. InQueue(y)' <=> \E i \in 1 .. n + 1 : queue'[i] = y
    BY <1>4 DEF InQueue
  <2>2. InQueue(y) <=> \E i \in 1 .. n : queue[i] = y
    BY <1>4 DEF InQueue
  <2>3. 1 .. n \subseteq 1 .. n + 1 /\ n + 1 \in 1 .. n + 1
    OBVIOUS
  <2> QED BY <1>4, <1>a, <2>1, <2>2, <2>3
<1>6. \A q \in Requests : (Fresh(q)' <=> Fresh(q)) /\ Verdict(q)' = Verdict(q)
  BY <1>1, <1>2 DEF Enqueue, Fresh, Verdict
<1>7. TableShape' /\ Alone'
  BY <1>2 DEF IInv, TableShape, Alone
<1>8. TokenShape'
  <2>1. ASSUME NEW i \in 1 .. n
        PROVE  /\ queue[i][1] \in Requests /\ queue[i][2] \in Nat
               /\ queue[i][2] < next[queue[i][1]] /\ queue[i] # x
    <3>1. queue[i][1] \in Requests /\ queue[i][2] \in Nat
      BY <1>4 DEF SubMsgs
    <3>2. queue[i][2] < next[queue[i][1]]
      BY <1>4 DEF IInv, TokenShape
    <3> QED BY <1>3, <3>1, <3>2
  <2>2. \A i, j \in 1 .. n + 1 : queue'[i] = queue'[j] => i = j
    <3>1. \A i, j \in 1 .. n : queue[i] = queue[j] => i = j
      BY <1>4 DEF IInv, TokenShape
    <3>2. ASSUME NEW i \in 1 .. n
          PROVE  queue'[i] = queue[i] /\ queue'[i] # x
      BY <1>4, <2>1
    <3> SUFFICES ASSUME NEW i \in 1 .. n + 1, NEW j \in 1 .. n + 1, queue'[i] = queue'[j]
                 PROVE  i = j
      OBVIOUS
    <3>3. CASE i \in 1 .. n /\ j \in 1 .. n
      BY <3>1, <3>2, <3>3
    <3>4. CASE i = n + 1 /\ j = n + 1
      BY <3>4
    <3>5. CASE i \in 1 .. n /\ j = n + 1
      BY <1>4, <3>2, <3>5
    <3>6. CASE i = n + 1 /\ j \in 1 .. n
      BY <1>4, <3>2, <3>6
    <3> QED BY <1>a, <3>3, <3>4, <3>5, <3>6
  <2>3. \A i \in 1 .. n + 1 : queue'[i][2] < next'[queue'[i][1]]
    <3>1. ASSUME NEW i \in 1 .. n
          PROVE  queue'[i][2] < next'[queue'[i][1]]
      BY SMTT(30), <1>3, <1>4, <2>1
    <3>2. queue'[n + 1][2] < next'[queue'[n + 1][1]]
      BY <1>3, <1>4
    <3> QED BY <1>a, <3>1, <3>2
  <2>4. ASSUME NEW w \in Workers, Busy(w)'
        PROVE  (~InQueue(sub[w]) /\ sub[w][2] < next[sub[w][1]])'
    <3>1. Busy(w) /\ sub'[w] = sub[w]
      BY <1>2, <2>4 DEF Busy
    <3>2. /\ sub[w][1] \in Requests /\ sub[w][2] \in Nat
          /\ ~InQueue(sub[w]) /\ sub[w][2] < next[sub[w][1]]
      BY <3>1, BusyFacts DEF IInv, TokenShape
    <3>3. sub[w] # x
      BY <1>3, <3>2
    <3>4. ~InQueue(sub[w])'
      BY <1>2, <1>5, <3>2, <3>3 DEF InQueue
    <3> QED BY SMTT(30), <1>3, <3>1, <3>2, <3>4
  <2>5. \A v, w \in Workers : (Busy(v) /\ Busy(w) /\ sub[v] = sub[w])' => v = w
    BY <1>2 DEF IInv, TokenShape, Busy
  <2> QED BY <1>4, <2>2, <2>3, <2>4, <2>5 DEF TokenShape
<1>9. ASSUME NEW t \in Threads
      PROVE  CallOf(t)' /\ FailOf(t)' /\ ClosingOf(t)'
  BY <1>1, <1>2 DEF IInv, CallOf, FailOf, ClosingOf, RequestOf, Reported, Verdict
<1>10. ASSUME NEW w \in Workers
       PROVE  WorkerOf(w)' /\ ApartOf(w)' /\ DoneOf(w)' /\ WaitingOf(w)'
  <2>1. Held(w)' = Held(w) /\ (Busy(w)' <=> Busy(w))
    BY <1>2 DEF Held, Busy
  <2>2. WorkerOf(w)'
    BY <1>2, <2>1 DEF IInv, WorkerOf
  <2>3. ApartOf(w)'
    BY <1>2, <2>1 DEF IInv, ApartOf
  <2>4. DoneOf(w)' /\ WaitingOf(w)'
    BY <1>2 DEF IInv, DoneOf, WaitingOf
  <2> QED BY <2>2, <2>3, <2>4
<1>11. ASSUME NEW q \in Requests
       PROVE  /\ FreshOf(q)' /\ CountOf(q)' /\ CountedOf(q)'
              /\ HeapOf(q)' /\ VerdictOf(q)' /\ OpenOf(q)'
  <2>1. \A u \in Targets(q) : Token(q, u)[1] = q /\ Token(q, u)[2] \in Nat
    BY TokenType
  <2>2. FreshOf(q)'
    BY <1>1, <1>2, <1>6 DEF IInv, FreshOf
  <2>3. CountOf(q)'
    BY <1>2, <1>3, <1>5, <2>1 DEF IInv, CountOf
  <2>4. OpenOf(q)'
    <3> SUFFICES ASSUME NEW u \in Targets(q),
                        Token(q, u)[2] >= next'[q] \/ InQueue(Token(q, u))'
                 PROVE  place[q][u] = "pending"
      BY <1>2 DEF OpenOf
    <3>1. Token(q, u)[2] >= next[q] \/ InQueue(Token(q, u))
      BY SMTT(30), <1>3, <1>5, <2>1
    <3> QED BY <3>1 DEF IInv, OpenOf
  <2>5. CountedOf(q)' /\ HeapOf(q)' /\ VerdictOf(q)'
    BY <1>2, <1>6 DEF IInv, CountedOf, HeapOf, VerdictOf
  <2> QED BY <2>2, <2>3, <2>4, <2>5
<1> QED BY <1>7, <1>8, <1>9, <1>10, <1>11 DEF IInv

LEMMA InvDrop ==
  ASSUME TypeInv, IInv, NEW r \in Requests, Drop(r)
  PROVE  IInv'
<1> USE SendAssumption DEF TypeInv, TypeOK, PendingTypeOK, taskVars, workerVars
<1> DEFINE B == Batch(r, next[r])
<1>1. /\ r \in Threads /\ r \notin Workers /\ ~Fresh(r)
      /\ call[r].pc = "idle" /\ call[r].op = "none"
  BY DEF Drop, Running, Threads, Fresh, IInv, CallOf
<1>2. /\ rpc' = rpc
      /\ next' = [next EXCEPT ![r] = next[r] + 1]
      /\ failSet' = [failSet EXCEPT ![r] = failSet[r] \cup B]
      /\ place' = Put(r, B, "dropped")
      /\ UNCHANGED <<table, heap, call, queue, wpc, sub, off, grp, msg2sender,
                     doneSet, counted, doneCb, failCb, acked>>
  BY DEF Drop, Dropped
<1>3. /\ next'[r] = next[r] + 1
      /\ \A q \in Requests : next[q] \in Nat /\ next'[q] \in Nat /\ next[q] <= next'[q]
      /\ \A t \in Threads : t # r => failSet'[t] = failSet[t]
      /\ failSet'[r] = failSet[r] \cup B
  BY <1>1, <1>2
<1>4. \A u : u \in B <=> u \in Targets(r) /\ Token(r, u) = <<r, next[r]>>
  BY BatchToken
<1>5. ASSUME NEW q \in Requests, NEW u \in Targets(q)
      PROVE  place'[q][u] = IF q = r /\ u \in B THEN "dropped" ELSE place[q][u]
  BY <1>2 DEF Put, Users, Targets
<1>6. \A q \in Requests : (Fresh(q)' <=> Fresh(q)) /\ Verdict(q)' = Verdict(q)
  BY <1>1, <1>2 DEF Drop, Fresh, Verdict
\* The dropped batch was in nobody's hands.
<1>7. ~InQueue(<<r, next[r]>>)
  BY DEF IInv, TokenShape, InQueue
<1>8. ASSUME NEW w \in Workers, Busy(w)
      PROVE  /\ sub[w] # <<r, next[r]>>
             /\ \A u \in Held(w) : place'[sub[w][1]][u] = place[sub[w][1]][u]
  <2>1. sub[w] # <<r, next[r]>>
    BY <1>8, BusyFacts DEF IInv, TokenShape
  <2> QED BY SMTT(30), <1>4, <1>5, <1>8, <2>1, BusyFacts
<1>14. \A y : InQueue(y)' <=> InQueue(y)
  BY <1>2 DEF InQueue
<1>9. TableShape' /\ Alone'
  BY <1>2 DEF IInv, TableShape, Alone
<1>10. TokenShape'
  <2>1. ASSUME NEW i \in 1 .. Len(queue)
        PROVE  queue[i][2] < next'[queue[i][1]]
    <3>1. queue[i] \in SubMsgs
      BY ElementOfSeq
    <3>2. queue[i][1] \in Requests /\ queue[i][2] \in Nat
      BY <3>1 DEF SubMsgs
    <3>3. queue[i][2] < next[queue[i][1]]
      BY DEF IInv, TokenShape
    <3> QED BY SMTT(30), <1>3, <3>2, <3>3
  <2>2. \A w \in Workers : Busy(w) => sub[w][2] < next'[sub[w][1]]
    BY SMTT(30), <1>3, BusyFacts DEF IInv, TokenShape
  <2> QED BY <1>2, <2>1, <2>2 DEF IInv, TokenShape, Busy, InQueue
<1>11. ASSUME NEW w \in Workers
       PROVE  WorkerOf(w)' /\ ApartOf(w)' /\ DoneOf(w)' /\ WaitingOf(w)'
  <2>1. Held(w)' = Held(w) /\ (Busy(w)' <=> Busy(w)) /\ w # r /\ failSet'[w] = failSet[w]
    BY <1>1, <1>2 DEF Held, Busy, Threads
  <2>2. WorkerOf(w)'
    BY <1>2, <2>1 DEF IInv, WorkerOf
  <2>3. CASE ~Busy(w)
    BY <1>2, <2>1, <2>2, <2>3 DEF IInv, WorkerOf, ApartOf, DoneOf, WaitingOf, Held, Busy
  <2>4. CASE Busy(w)
    <3>1. ApartOf(w)'
      <4>1. sub[w][1] \in Requests /\ Requests \subseteq Threads
        BY <2>4, BusyFacts DEF Threads
      <4>2. \A u \in B : Token(sub[w][1], u) # sub[w] \/ sub[w][1] # r
        <5> SUFFICES ASSUME NEW u \in B, sub[w][1] = r
                     PROVE  Token(sub[w][1], u) # sub[w]
          OBVIOUS
        <5>1. Token(r, u) = <<r, next[r]>>
          BY <1>4
        <5> QED BY <1>8, <2>4, <5>1
      <4> QED BY <1>2, <1>3, <2>1, <2>4, <4>1, <4>2 DEF IInv, ApartOf
    <3>2. DoneOf(w)' /\ WaitingOf(w)'
      <4>1. off[w] \cup DOMAIN grp[w] \cup doneSet[w] \subseteq Held(w)
        BY DEF Held
      <4>2. \A u \in off[w] \cup DOMAIN grp[w] \cup doneSet[w] :
              place'[sub[w][1]][u] = place[sub[w][1]][u]
        BY <1>8, <2>4, <4>1
      <4>3. DoneOf(w)'
        BY <1>2, <4>2 DEF IInv, DoneOf
      <4>4. WaitingOf(w)'
        BY <1>2, <4>2 DEF IInv, WaitingOf
      <4> QED BY <4>3, <4>4
    <3> QED BY <2>2, <3>1, <3>2
  <2> QED BY <2>3, <2>4
<1>12. ASSUME NEW t \in Threads
       PROVE  CallOf(t)' /\ FailOf(t)' /\ ClosingOf(t)'
  <2>1. RequestOf(t)' = RequestOf(t)
    BY <1>2 DEF RequestOf
  <2>2. call[t].op # "none" => t # r
    BY <1>1
  <2>3. CallOf(t)'
    BY <1>1, <1>2, <1>3, <2>1, <2>2 DEF IInv, CallOf, Reported
  <2>4. ClosingOf(t)'
    BY <1>2 DEF IInv, ClosingOf, Verdict
  <2>5. FailOf(t)'
    <3> SUFFICES ASSUME NEW u \in failSet'[t]
                 PROVE  place'[RequestOf(t)][u] \in Lost
      BY <2>1 DEF FailOf
    <3>1. CASE t \in Requests
      <4>1. RequestOf(t) = t
        BY <3>1 DEF RequestOf
      <4>2. u \in Targets(t)
        BY <1>3, <1>4, <3>1 DEF IInv, CountOf
      <4>3. u \in failSet[t] => place[t][u] \in Lost
        BY <4>1 DEF IInv, FailOf
      <4>4. u \in failSet[t] \/ (t = r /\ u \in B)
        BY <1>3
      <4>5. place'[t][u] \in Lost
        BY <1>5, <3>1, <4>2, <4>3, <4>4 DEF Lost
      <4> QED BY <4>1, <4>5
    <3>2. CASE t \in Workers
      <4>1. t # r /\ u \in failSet[t] /\ u \in Held(t) /\ Busy(t)
        BY <1>1, <1>3, <3>2 DEF IInv, WorkerOf, Held, Busy
      <4> QED BY SMTT(30), <1>8, <3>2, <4>1, BusyFacts DEF IInv, FailOf
    <3> QED BY <3>1, <3>2 DEF Threads
  <2> QED BY <2>3, <2>4, <2>5
<1>13. ASSUME NEW q \in Requests
       PROVE  /\ FreshOf(q)' /\ CountOf(q)' /\ CountedOf(q)'
              /\ HeapOf(q)' /\ VerdictOf(q)' /\ OpenOf(q)'
  <2>1. \A u \in Targets(q) : Token(q, u)[1] = q /\ Token(q, u)[2] \in Nat
    BY TokenType
  <2>2. FreshOf(q)'
    BY <1>1, <1>2, <1>6 DEF IInv, FreshOf, Threads
  <2>3. counted[q] \subseteq Targets(q) /\ \A u \in counted[q] : q = r => u \notin B
    BY <1>3, <1>4 DEF IInv, CountOf
  <2>4. CountOf(q)'
    <3>1. CASE q = r
      <4>1. counted'[q] = counted[q] /\ failSet'[q] = failSet[q] \cup B
        BY <1>2, <1>3, <3>1
      <4>2. \A u \in counted[q] \cup failSet[q] :
              Token(q, u)[2] < next[q] /\ ~InQueue(Token(q, u)) /\ u \in Targets(q)
        BY DEF IInv, CountOf
      <4>3. \A u \in B : /\ u \in Targets(q) /\ Token(q, u)[2] = next[q]
                         /\ ~InQueue(Token(q, u)) /\ u \notin counted[q]
        <5> SUFFICES ASSUME NEW u \in B
                     PROVE  /\ u \in Targets(q) /\ Token(q, u)[2] = next[q]
                            /\ ~InQueue(Token(q, u)) /\ u \notin counted[q]
          OBVIOUS
        <5>1. u \in Targets(q) /\ Token(q, u) = <<r, next[r]>>
          BY <1>4, <3>1
        <5> QED BY <1>7, <2>3, <3>1, <5>1
      <4>4. \A u \in counted'[q] \cup failSet'[q] :
              Token(q, u)[2] < next'[q] /\ ~InQueue(Token(q, u))'
        BY <1>3, <1>14, <2>1, <3>1, <4>1, <4>2, <4>3
      <4> QED BY <4>1, <4>2, <4>3, <4>4 DEF IInv, CountOf
    <3>2. CASE q # r
      BY <1>2, <1>3, <2>1, <3>2 DEF IInv, CountOf, InQueue, Threads
    <3> QED BY <3>1, <3>2
  <2>5. CountedOf(q)'
    BY <1>2, <1>5, <2>3 DEF IInv, CountedOf
  <2>6. HeapOf(q)'
    <3> SUFFICES ASSUME ~Fresh(q)
                 PROVE  /\ heap[q].pending = Size[q] - Cardinality(counted[q])
                        /\ heap[q].failed > 0 => \E u \in Targets(q) : place'[q][u] \in Lost
      BY <1>2, <1>6 DEF HeapOf
    <3>1. \A u \in Targets(q) : place[q][u] \in Lost => place'[q][u] \in Lost
      BY <1>5 DEF Lost
    <3> QED BY <3>1 DEF IInv, HeapOf
  <2>7. VerdictOf(q)'
    BY <1>2, <1>6 DEF IInv, VerdictOf
  <2>8. OpenOf(q)'
    <3> SUFFICES ASSUME NEW u \in Targets(q),
                        Token(q, u)[2] >= next'[q] \/ InQueue(Token(q, u))'
                 PROVE  place'[q][u] = "pending"
      BY DEF OpenOf
    <3>1. Token(q, u)[2] >= next[q] \/ InQueue(Token(q, u))
      BY <1>2, <1>3, <2>1 DEF InQueue
    <3>2. ~(q = r /\ u \in B)
      <4> SUFFICES ASSUME q = r, u \in B PROVE FALSE
        OBVIOUS
      <4>1. Token(q, u) = <<r, next[r]>>
        BY <1>4
      <4>2. ~InQueue(Token(q, u))'
        BY <1>7, <1>14, <4>1
      <4> QED BY <1>3, <4>1, <4>2
    <3> QED BY <1>5, <3>1, <3>2 DEF IInv, OpenOf
  <2> QED BY <2>2, <2>4, <2>5, <2>6, <2>7, <2>8
<1> QED BY <1>9, <1>10, <1>11, <1>12, <1>13 DEF IInv

LEMMA InvEndLoop ==
  ASSUME TypeInv, IInv, NEW r \in Requests, EndLoop(r)
  PROVE  IInv'
<1> USE SendAssumption DEF TypeInv, TypeOK, PendingTypeOK, workerVars, historyVars
<1>1. /\ r \in Threads /\ r \notin Workers /\ ~Fresh(r)
      /\ call[r].pc = "idle" /\ call[r].op = "none"
  BY DEF EndLoop, Running, Threads, Fresh, IInv, CallOf
<1>2. /\ rpc' = [rpc EXCEPT ![r] = "returned"]
      /\ UNCHANGED <<table, heap, next, queue, wpc, sub, off, grp, msg2sender,
                     doneSet, failSet, place, counted, doneCb, failCb, acked>>
  BY DEF EndLoop
<1>3. /\ \A t \in Threads : t # r => call'[t] = call[t]
      /\ \/ call'[r] = call[r]
         \/ /\ failSet[r] # {}
            /\ call'[r] = [pc |-> "lookup", op |-> "fail", msg |-> MsgOf[r],
                           n |-> Cardinality(failSet[r]), task |-> NoTask]
  BY <1>1 DEF EndLoop, CallFailN
<1>4. \A q \in Requests : (Fresh(q)' <=> Fresh(q)) /\ Verdict(q)' = Verdict(q)
  BY <1>1, <1>2, <1>3 DEF EndLoop, Fresh, Verdict, Threads
<1>5. TableShape' /\ TokenShape'
  BY <1>2 DEF IInv, TableShape, TokenShape, InQueue, Busy
<1>6. Alone'
  <2>1. \A t \in Threads : call'[t].pc \in Closing => call'[t] = call[t]
    BY <1>3 DEF Closing
  <2> QED BY <2>1 DEF IInv, Alone
<1>7. ASSUME NEW t \in Threads
      PROVE  CallOf(t)' /\ FailOf(t)' /\ ClosingOf(t)'
  <2>1. RequestOf(t)' = RequestOf(t)
    BY <1>2 DEF RequestOf
  <2>2. FailOf(t)'
    BY <1>2, <2>1 DEF IInv, FailOf
  <2>3. CASE call'[t] = call[t]
    BY <1>1, <1>2, <2>1, <2>2, <2>3 DEF IInv, CallOf, ClosingOf, Reported, Verdict
  <2>4. CASE call'[t] # call[t]
    <3>1. t = r /\ RequestOf(r)' = r /\ rpc'[r] = "returned" /\ failSet'[r] = failSet[r]
      BY <1>1, <1>2, <1>3, <2>4 DEF RequestOf
    <3>2. failSet[r] # {}
      BY <1>3, <2>4, <3>1
    <3>3. call'[r] = [pc |-> "lookup", op |-> "fail", msg |-> MsgOf[r],
                      n |-> Cardinality(failSet[r]), task |-> NoTask]
      BY <1>3, <2>4, <3>1
    <3>4. CallOf(r)'
      BY <1>1, <3>1, <3>2, <3>3 DEF CallOf, Reported, Accounting, Closing
    <3>5. ClosingOf(r)'
      BY <3>3 DEF ClosingOf, Closing
    <3> QED BY <2>2, <3>1, <3>4, <3>5
  <2> QED BY <2>3, <2>4
<1>8. ASSUME NEW w \in Workers
      PROVE  WorkerOf(w)' /\ ApartOf(w)' /\ DoneOf(w)' /\ WaitingOf(w)'
  <2>1. call'[w] = call[w] /\ Held(w)' = Held(w)
    BY <1>1, <1>2, <1>3 DEF Threads, Held
  <2>2. WorkerOf(w)' /\ ApartOf(w)'
    BY <1>2, <2>1 DEF IInv, WorkerOf, ApartOf, Busy
  <2>3. DoneOf(w)' /\ WaitingOf(w)'
    BY <1>2 DEF IInv, DoneOf, WaitingOf
  <2> QED BY <2>2, <2>3
<1>9. ASSUME NEW q \in Requests
      PROVE  /\ FreshOf(q)' /\ CountOf(q)' /\ CountedOf(q)'
             /\ HeapOf(q)' /\ VerdictOf(q)' /\ OpenOf(q)'
  <2>1. FreshOf(q)' /\ CountOf(q)' /\ OpenOf(q)'
    BY <1>2, <1>4 DEF IInv, FreshOf, CountOf, OpenOf, InQueue
  <2>2. CountedOf(q)' /\ HeapOf(q)' /\ VerdictOf(q)'
    BY <1>2, <1>4 DEF IInv, CountedOf, HeapOf, VerdictOf
  <2> QED BY <2>1, <2>2
<1> QED BY <1>5, <1>6, <1>7, <1>8, <1>9 DEF IInv

--------------------------------------------------------------------------------
(* The steps of gatewayWorker: first what a step of worker w leaves alone. *)

Elsewhere(w) ==
  /\ \A v \in Workers \ {w} :
       wpc'[v] = wpc[v] /\ sub'[v] = sub[v] /\ off'[v] = off[v] /\ grp'[v] = grp[v]
  /\ \A t \in Threads \ {w} :
       call'[t] = call[t] /\ doneSet'[t] = doneSet[t] /\ failSet'[t] = failSet[t]
  /\ call'[w].pc \in {"idle", "lookup"}
  /\ \A y : InQueue(y)' => InQueue(y)
  /\ UNCHANGED <<table, heap, msg2sender, rpc, next, counted, doneCb, failCb, acked>>

\* Only fates of targets in S, which w has, are decided.
Settles(w, S) ==
  /\ S \subseteq off[w] \cup DOMAIN grp[w]
  /\ \A q \in Requests : \A u \in Targets(q) :
       place'[q][u] # place[q][u] => q = sub[w][1] /\ u \in S

RestKept(w) ==
  /\ TableShape' /\ Alone'
  /\ ClosingOf(w)'
  /\ \A t \in Threads \ {w} : CallOf(t)' /\ FailOf(t)' /\ ClosingOf(t)'
  /\ \A v \in Workers \ {w} : WorkerOf(v)' /\ ApartOf(v)' /\ DoneOf(v)' /\ WaitingOf(v)'
  /\ \A r \in Requests : /\ FreshOf(r)' /\ CountOf(r)' /\ CountedOf(r)'
                         /\ HeapOf(r)' /\ VerdictOf(r)' /\ OpenOf(r)'

\* A decided fate stays.
LEMMA FateKept ==
  ASSUME TypeInv, IInv, NEW w \in Workers, NEW S, Settles(w, S)
  PROVE  \A q \in Requests : \A u \in Targets(q) :
           place[q][u] # "pending" => place'[q][u] = place[q][u]
BY DEF IInv, WaitingOf, Settles

\* What a goroutine holds are targets of its request.
LEMMA FailTargets ==
  ASSUME TypeInv, IInv, NEW t \in Threads
  PROVE  /\ failSet[t] # {} => RequestOf(t) \in Requests
         /\ failSet[t] \subseteq Targets(RequestOf(t))
<1>1. CASE t \in Requests
  BY <1>1 DEF IInv, CountOf, RequestOf
<1>2. CASE t \in Workers
  <2>1. t \notin Requests
    BY <1>2, SendAssumption
  <2>2. failSet[t] # {} => Busy(t)
    BY <1>2 DEF IInv, WorkerOf, Busy
  <2>3. failSet[t] \subseteq Held(t)
    BY <2>1 DEF Held
  <2> QED BY <1>2, <2>2, <2>3, BusyFacts
<1> QED BY <1>1, <1>2 DEF Threads

LEMMA WorkerRest ==
  ASSUME TypeInv, IInv, NEW w \in Workers, Elsewhere(w), NEW S, Settles(w, S)
  PROVE  RestKept(w)
<1> USE SendAssumption
<1>1. w \in Threads /\ \A r \in Requests : r \in Threads \ {w}
  BY DEF Threads
<1>2. \A q \in Requests : \A u \in Targets(q) :
        place[q][u] # "pending" => place'[q][u] = place[q][u]
  BY FateKept
<1>3. UNCHANGED <<table, heap, msg2sender, rpc, next, counted, doneCb, failCb, acked>>
  BY DEF Elsewhere
<1>4. \A q \in Requests : (Fresh(q)' <=> Fresh(q)) /\ Verdict(q)' = Verdict(q)
  BY <1>1, <1>3 DEF Elsewhere, Fresh, Verdict
<1>5. TableShape'
  BY <1>3 DEF IInv, TableShape
<1>6. ~(call'[w].pc \in Closing) /\ call'[w].pc # "addPending"
  BY DEF Elsewhere, Closing
<1>7. Alone'
  <2>1. \A t \in Threads : call'[t].pc \in Closing => call'[t] = call[t]
    BY <1>6 DEF Elsewhere
  <2> QED BY <2>1 DEF IInv, Alone
<1>8. ClosingOf(w)'
  BY <1>6 DEF ClosingOf, Closing
<1>9. ASSUME NEW t \in Threads \ {w}
      PROVE  CallOf(t)' /\ FailOf(t)' /\ ClosingOf(t)'
  <2>1. call'[t] = call[t] /\ doneSet'[t] = doneSet[t] /\ failSet'[t] = failSet[t]
    BY DEF Elsewhere
  <2>2. t \in Workers => wpc'[t] = wpc[t] /\ sub'[t] = sub[t]
    BY DEF Elsewhere
  <2>3. RequestOf(t)' = RequestOf(t) /\ Reported(t)' = Reported(t)
    BY <2>1, <2>2 DEF RequestOf, Reported, Threads
  <2>4. CallOf(t)'
    BY <1>3, <2>1, <2>2, <2>3 DEF IInv, CallOf
  <2>5. FailOf(t)'
    BY <1>2, <2>1, <2>3, FailTargets DEF IInv, FailOf, Lost
  <2>6. ClosingOf(t)'
    BY <1>3, <2>1 DEF IInv, ClosingOf, Verdict
  <2> QED BY <2>4, <2>5, <2>6
<1>10. ASSUME NEW v \in Workers \ {w}
       PROVE  WorkerOf(v)' /\ ApartOf(v)' /\ DoneOf(v)' /\ WaitingOf(v)'
  <2>1. v \in Threads \ {w}
    BY DEF Threads
  <2>2. /\ wpc'[v] = wpc[v] /\ sub'[v] = sub[v] /\ off'[v] = off[v] /\ grp'[v] = grp[v]
        /\ call'[v] = call[v] /\ doneSet'[v] = doneSet[v] /\ failSet'[v] = failSet[v]
    BY <2>1 DEF Elsewhere
  <2>3. Held(v)' = Held(v) /\ (Busy(v)' <=> Busy(v))
    BY <2>2 DEF Held, Busy
  <2>4. WorkerOf(v)'
    BY <2>2, <2>3 DEF IInv, WorkerOf
  <2>5. CASE ~Busy(v)
    <3>1. off[v] = {} /\ DOMAIN grp[v] = {} /\ doneSet[v] = {}
      BY <2>5 DEF IInv, WorkerOf, Held, Busy
    <3> QED BY <2>2, <2>3, <2>4, <2>5, <3>1 DEF ApartOf, DoneOf, WaitingOf
  <2>6. CASE Busy(v)
    <3>1. sub[v][1] \in Requests /\ Held(v) \subseteq Targets(sub[v][1])
      BY <2>6, BusyFacts
    <3>2. failSet'[sub[v][1]] = failSet[sub[v][1]]
      BY <1>1, <3>1 DEF Elsewhere
    <3>3. ApartOf(v)'
      BY <1>3, <2>2, <2>3, <3>2 DEF IInv, ApartOf
    <3>4. off[v] \cup DOMAIN grp[v] \subseteq Held(v) /\ doneSet[v] \subseteq Held(v)
      BY DEF Held
    <3>5. DoneOf(v)'
      BY <1>2, <2>2, <3>1, <3>4 DEF IInv, DoneOf, Handled
    <3>6. WaitingOf(v)'
      <4>1. ASSUME NEW u \in off[v] \cup DOMAIN grp[v]
            PROVE  place'[sub[v][1]][u] = place[sub[v][1]][u]
        <5>1. CASE sub[v][1] = sub[w][1] /\ u \in S
          <6>1. u \in Held(w) /\ Busy(w)
            BY <5>1 DEF Settles, Held, Busy, IInv, WorkerOf
          <6> QED BY <2>6, <3>4, <5>1, <6>1, HeldDisjoint
        <5>2. CASE ~(sub[v][1] = sub[w][1] /\ u \in S)
          BY <3>1, <3>4, <5>2 DEF Settles
        <5> QED BY <5>1, <5>2
      <4> QED BY <2>2, <4>1 DEF IInv, WaitingOf
    <3> QED BY <2>4, <3>3, <3>5, <3>6
  <2> QED BY <2>5, <2>6
<1>11. ASSUME NEW r \in Requests
       PROVE  /\ FreshOf(r)' /\ CountOf(r)' /\ CountedOf(r)'
              /\ HeapOf(r)' /\ VerdictOf(r)' /\ OpenOf(r)'
  <2>1. call'[r] = call[r] /\ failSet'[r] = failSet[r]
    BY <1>1 DEF Elsewhere
  <2>2. FreshOf(r)'
    BY <1>3, <1>4, <2>1 DEF IInv, FreshOf
  <2>3. CountOf(r)'
    BY <1>3, <2>1 DEF IInv, CountOf, Elsewhere
  <2>4. CountedOf(r)'
    BY <1>2, <1>3 DEF IInv, CountedOf, CountOf, Handled, Lost
  <2>5. HeapOf(r)'
    BY <1>2, <1>3, <1>4 DEF IInv, HeapOf, Lost
  <2>6. VerdictOf(r)'
    BY <1>3, <1>4 DEF IInv, VerdictOf
  <2>7. OpenOf(r)'
    <3> SUFFICES ASSUME NEW u \in Targets(r),
                        Token(r, u)[2] >= next[r] \/ InQueue(Token(r, u))'
                 PROVE  place'[r][u] = "pending"
      BY <1>3 DEF OpenOf
    <3>1. Token(r, u)[2] >= next[r] \/ InQueue(Token(r, u))
      BY DEF Elsewhere
    <3>2. place[r][u] = "pending"
      BY <3>1 DEF IInv, OpenOf
    <3>3. ~(r = sub[w][1] /\ u \in S)
      <4> SUFFICES ASSUME r = sub[w][1], u \in S PROVE FALSE
        OBVIOUS
      <4>1. u \in Held(w) /\ Busy(w)
        BY DEF Settles, Held, Busy, IInv, WorkerOf
      <4>2. Token(r, u) = sub[w] /\ sub[w][2] \in Nat /\ next[r] \in Nat
        BY <4>1, BusyFacts DEF TypeInv, TypeOK
      <4>3. ~InQueue(sub[w]) /\ sub[w][2] < next[r]
        BY <4>1 DEF IInv, TokenShape
      <4> QED BY <3>1, <4>2, <4>3
    <3> QED BY <3>2, <3>3 DEF Settles
  <2> QED BY <2>2, <2>3, <2>4, <2>5, <2>6, <2>7
<1> QED BY <1>5, <1>7, <1>8, <1>9, <1>10, <1>11 DEF RestKept

\* What is left to show of a step of worker w.
LEMMA WorkerGoal ==
  ASSUME NEW w \in Workers, RestKept(w), TokenShape', CallOf(w)', FailOf(w)',
         WorkerOf(w)', ApartOf(w)', DoneOf(w)', WaitingOf(w)'
  PROVE  IInv'
BY DEF RestKept, IInv

LEMMA Dequeued ==
  ASSUME NEW q \in Seq(SubMsgs), q # << >>
  PROVE  \E n \in Nat :
           /\ n + 1 = Len(q) /\ Len(Tail(q)) = n /\ Head(q) = q[1]
           /\ \A i \in 1 .. n + 1 : q[i] \in SubMsgs
           /\ \A i \in 1 .. n : Tail(q)[i] = q[i + 1]
<1>1. Len(q) \in Nat \ {0}
  BY EmptySeq, LenProperties
<1>2. \A i \in 1 .. Len(q) : q[i] \in SubMsgs
  BY ElementOfSeq
<1>3. Len(Tail(q)) = Len(q) - 1 /\ \A i \in 1 .. Len(Tail(q)) : Tail(q)[i] = q[i + 1]
  BY <1>1, HeadTailProperties
<1>4. Head(q) = q[1]
  BY HeadTailProperties
<1> DEFINE n == Len(q) - 1
<1>5. n \in Nat /\ n + 1 = Len(q) /\ 1 .. Len(q) = 1 .. n + 1
  BY <1>1
<1>6. Len(Tail(q)) = n
  BY <1>3
<1> HIDE DEF n
<1>7. \A i \in 1 .. n : Tail(q)[i] = q[i + 1]
  BY <1>3, <1>6
<1> QED BY <1>2, <1>4, <1>5, <1>6, <1>7

LEMMA InvTake ==
  ASSUME TypeInv, IInv, NEW w \in Workers, Take(w)
  PROVE  IInv'
<1>0. PICK s : s = Head(queue)
  OBVIOUS
<1>1. /\ wpc[w] = "idle" /\ call[w].pc = "idle" /\ call[w].op = "none" /\ w \in Threads
      /\ off[w] = {} /\ DOMAIN grp[w] = {} /\ doneSet[w] = {} /\ failSet[w] = {}
      /\ w \notin Requests
  <2>1. wpc[w] = "idle" /\ call[w].pc = "idle" /\ w \in Threads /\ w \notin Requests
    BY SendAssumption DEF Take, Running, Threads
  <2> QED BY <2>1 DEF IInv, WorkerOf, CallOf, Held
<1>2. /\ queue # << >> /\ queue' = Tail(queue)
      /\ sub' = [sub EXCEPT ![w] = s] /\ wpc' = [wpc EXCEPT ![w] = "offline"]
      /\ UNCHANGED <<taskVars, msg2sender, rpc, next, doneSet, failSet, place, counted,
                     doneCb, failCb, acked>>
  BY <1>0 DEF Take, historyVars
<1>3. PICK away : /\ off' = [off EXCEPT ![w] = away]
                  /\ away \cup DOMAIN grp'[w] = Batch(s[1], s[2])
                  /\ away \cap DOMAIN grp'[w] = {}
                  /\ \A v \in Workers \ {w} : grp'[v] = grp[v]
  <2>1. PICK route \in [Batch(s[1], s[2]) -> Gateways \cup {Offline}] :
          LET away == {u \in DOMAIN route : route[u] = Offline}
          IN  /\ off' = [off EXCEPT ![w] = away]
              /\ grp' = [grp EXCEPT ![w] = [u \in DOMAIN route \ away |-> route[u]]]
    BY <1>0 DEF Take
  <2> DEFINE gone == {u \in DOMAIN route : route[u] = Offline}
  <2>2. DOMAIN grp'[w] = DOMAIN route \ gone /\ \A v \in Workers \ {w} : grp'[v] = grp[v]
    BY <2>1 DEF TypeInv, TypeOK
  <2>3. off' = [off EXCEPT ![w] = gone]
    BY <2>1
  <2>4. gone \cup DOMAIN grp'[w] = Batch(s[1], s[2]) /\ gone \cap DOMAIN grp'[w] = {}
    BY <2>2
  <2> HIDE DEF gone
  <2> QED BY <2>2, <2>3, <2>4
<1>4. /\ sub'[w] = s /\ wpc'[w] = "offline" /\ off'[w] = away
      /\ \A v \in Workers \ {w} : wpc'[v] = wpc[v] /\ sub'[v] = sub[v] /\ off'[v] = off[v]
  BY <1>2, <1>3 DEF TypeInv, TypeOK
<1>5. PICK n \in Nat : /\ n + 1 = Len(queue) /\ Len(queue') = n /\ s = queue[1]
                       /\ \A i \in 1 .. n + 1 : queue[i] \in SubMsgs
                       /\ \A i \in 1 .. n : queue'[i] = queue[i + 1]
  <2>1. queue \in Seq(SubMsgs)
    BY DEF TypeInv, TypeOK
  <2> QED BY <1>0, <1>2, <2>1, Dequeued
<1>7. 1 \in 1 .. n + 1 /\ \A i \in 1 .. n : i + 1 \in 1 .. n + 1 /\ i + 1 # 1
  OBVIOUS
<1>6. /\ s \in SubMsgs /\ s[1] \in Requests /\ s[2] \in Nat /\ s = <<s[1], s[2]>>
      /\ InQueue(s)
  <2>1. s \in SubMsgs
    BY <1>5, <1>7
  <2>2. InQueue(s)
    BY <1>5, <1>7 DEF InQueue
  <2> QED BY <2>1, <2>2 DEF SubMsgs
\* The head is in the queue no more, the others still are.
<1>8. /\ ~InQueue(s)'
      /\ \A y : InQueue(y)' => InQueue(y)
  <2>1. \A y : InQueue(y)' => \E i \in 1 .. n : queue[i + 1] = y
    BY <1>5 DEF InQueue
  <2>2. \A i, j \in 1 .. n + 1 : queue[i] = queue[j] => i = j
    BY <1>5 DEF IInv, TokenShape
  <2>3. \A y : InQueue(y)' => InQueue(y)
    BY <1>5, <1>7, <2>1 DEF InQueue
  <2>4. ~InQueue(s)'
    <3>1. \A i \in 1 .. n : queue[i + 1] # s
      BY <1>5, <1>7, <2>2
    <3> QED BY <2>1, <3>1
  <2> QED BY <2>3, <2>4
<1>9. Elsewhere(w)
  BY <1>1, <1>2, <1>3, <1>4, <1>8 DEF Elsewhere, taskVars
<1>10. Settles(w, {})
  BY <1>2 DEF Settles
<1>11. RestKept(w)
  BY <1>9, <1>10, WorkerRest
<1>12. TokenShape'
  <2>1. \A i, j \in 1 .. n : queue'[i] = queue'[j] => i = j
    <3>1. \A i, j \in 1 .. n + 1 : queue[i] = queue[j] => i = j
      BY <1>5 DEF IInv, TokenShape
    <3> QED BY <1>5, <1>7, <3>1
  <2>2. \A i \in 1 .. n : queue'[i][2] < next[queue'[i][1]]
    <3>1. \A i \in 1 .. n + 1 : queue[i][2] < next[queue[i][1]]
      BY <1>5 DEF IInv, TokenShape
    <3> QED BY <1>5, <1>7, <3>1
  <2>3. ASSUME NEW v \in Workers, Busy(v)'
        PROVE  (~InQueue(sub[v]) /\ sub[v][2] < next[sub[v][1]])'
    <3>1. CASE v = w
      <4>1. s[2] < next[s[1]]
        BY <1>5, <1>7 DEF IInv, TokenShape
      <4>2. ~InQueue(sub[v])'
        BY <1>4, <1>8, <3>1 DEF InQueue
      <4> QED BY <1>2, <1>4, <3>1, <4>1, <4>2
    <3>2. CASE v # w
      <4>1. Busy(v) /\ sub'[v] = sub[v]
        BY <1>4, <2>3, <3>2 DEF Busy
      <4>2. ~InQueue(sub[v])'
        BY <1>8, <4>1 DEF IInv, TokenShape, InQueue
      <4> QED BY <1>2, <4>1, <4>2 DEF IInv, TokenShape
    <3> QED BY <3>1, <3>2
  <2>4. ASSUME NEW v1 \in Workers, NEW v2 \in Workers, Busy(v1)', Busy(v2)',
               sub'[v1] = sub'[v2]
        PROVE  v1 = v2
    <3>1. \A v \in Workers \ {w} : Busy(v)' => Busy(v) /\ sub'[v] # s
      BY <1>4, <1>6 DEF Busy, IInv, TokenShape
    <3> QED BY <1>4, <2>4, <3>1 DEF IInv, TokenShape
  <2> QED BY <1>2, <1>5, <2>1, <2>2, <2>3, <2>4 DEF TokenShape
<1>13. CallOf(w)' /\ FailOf(w)' /\ DoneOf(w)'
  BY <1>1, <1>2 DEF CallOf, FailOf, DoneOf, taskVars, Accounting, Closing
<1>14. WorkerOf(w)'
  <2>1. Held(w)' = Batch(s[1], s[2])
    BY <1>1, <1>2, <1>3, <1>4 DEF Held
  <2> QED BY <1>1, <1>2, <1>3, <1>4, <2>1 DEF WorkerOf, taskVars
<1>15. ApartOf(w)'
  <2>1. Held(w)' = Batch(s[1], s[2])
    BY <1>1, <1>2, <1>3, <1>4 DEF Held
  <2>2. \A u \in counted[s[1]] \cup failSet[s[1]] : Token(s[1], u) # s
    BY <1>6 DEF IInv, CountOf
  <2>3. \A u \in Batch(s[1], s[2]) : Token(s[1], u) = s
    BY <1>6, BatchToken
  <2> QED BY <1>2, <1>4, <2>1, <2>2, <2>3 DEF ApartOf
<1>16. WaitingOf(w)'
  <2>1. \A u \in Batch(s[1], s[2]) : place[s[1]][u] = "pending"
    BY <1>6, BatchToken DEF IInv, OpenOf
  <2> QED BY <1>2, <1>3, <1>4, <2>1 DEF WaitingOf
<1> QED BY <1>11, <1>12, <1>13, <1>14, <1>15, <1>16, WorkerGoal

\* A step of a worker that keeps its sub-message and what it holds.
LEMMA WorkerSame ==
  ASSUME TypeInv, IInv, NEW w \in Workers, Busy(w), Elsewhere(w), NEW S, Settles(w, S),
         queue' = queue, sub' = sub, Held(w)' = Held(w)
  PROVE  /\ RestKept(w) /\ TokenShape' /\ ApartOf(w)'
         /\ RequestOf(w)' = sub[w][1]
         /\ \A u \in Held(w) \ S : place'[sub[w][1]][u] = place[sub[w][1]][u]
<1>1. RestKept(w)
  BY WorkerRest
<1>2. TokenShape'
  <2>1. \A v \in Workers : Busy(v)' => Busy(v)
    BY DEF Elsewhere, Busy
  <2>2. \A y : InQueue(y)' <=> InQueue(y)
    BY DEF InQueue
  <2>3. next' = next
    BY DEF Elsewhere
  <2> QED BY <2>1, <2>2, <2>3 DEF IInv, TokenShape
<1>3. RequestOf(w)' = sub[w][1]
  BY SendAssumption DEF RequestOf
<1>4. ApartOf(w)'
  <2>1. sub[w][1] \in Threads \ {w}
    BY BusyFacts, SendAssumption DEF Threads
  <2>2. failSet'[sub[w][1]] = failSet[sub[w][1]] /\ counted' = counted
    BY <2>1 DEF Elsewhere
  <2> QED BY <2>2 DEF IInv, ApartOf
<1>5. \A u \in Held(w) \ S : place'[sub[w][1]][u] = place[sub[w][1]][u]
  BY BusyFacts DEF Settles
<1> QED BY <1>1, <1>2, <1>3, <1>4, <1>5

LEMMA Idle ==
  ASSUME IInv, NEW w \in Workers, Running(w)
  PROVE  w \in Threads /\ call[w].pc = "idle" /\ call[w].op = "none"
BY DEF Running, Threads, IInv, CallOf

LEMMA PutAt ==
  ASSUME TypeInv, NEW r \in Requests, NEW S, NEW p, place' = Put(r, S, p)
  PROVE  \A q \in Requests : \A u \in Targets(q) :
           place'[q][u] = IF q = r /\ u \in S THEN p ELSE place[q][u]
BY DEF TypeInv, TypeOK, Put, Targets, Users

LEMMA InvStoreOffline ==
  ASSUME TypeInv, IInv, NEW w \in Workers, NEW u \in Users, StoreOffline(w, u)
  PROVE  IInv'
<1>1. Busy(w) /\ wpc[w] = "offline" /\ u \in off[w] /\ Running(w)
  BY DEF StoreOffline, Busy
<1>2. w \in Threads /\ call[w].pc = "idle" /\ call[w].op = "none"
  BY <1>1, Idle
<1>3. /\ off' = [off EXCEPT ![w] = off[w] \ {u}]
      /\ doneSet' = [doneSet EXCEPT ![w] = doneSet[w] \cup {u}]
      /\ UNCHANGED <<taskVars, dispatchVars, wpc, sub, grp, failSet, counted, doneCb,
                     failCb, acked>>
  BY DEF StoreOffline
<1>4. PICK p \in Handled : place' = Put(sub[w][1], {u}, p)
  BY DEF StoreOffline, Handled
<1>5. /\ off'[w] = off[w] \ {u} /\ doneSet'[w] = doneSet[w] \cup {u}
      /\ \A v \in Workers \ {w} : off'[v] = off[v]
      /\ \A t \in Threads \ {w} : doneSet'[t] = doneSet[t]
  BY <1>2, <1>3 DEF TypeInv, TypeOK
<1>6. u \in Held(w) /\ sub[w][1] \in Requests /\ u \in Targets(sub[w][1])
  BY <1>1, BusyFacts, SendAssumption DEF Held
<1>7. \A q \in Requests : \A v \in Targets(q) :
        place'[q][v] = IF q = sub[w][1] /\ v \in {u} THEN p ELSE place[q][v]
  BY SMTT(30), <1>4, <1>6, PutAt
<1>8. Elsewhere(w)
  BY <1>2, <1>3, <1>5 DEF Elsewhere, taskVars, dispatchVars, InQueue
<1>9. Settles(w, {u})
  BY <1>1, <1>7 DEF Settles
<1>10. Held(w)' = Held(w)
  BY SMTT(30), <1>1, <1>3, <1>5, SendAssumption DEF Held
<1>11. /\ RestKept(w) /\ TokenShape' /\ ApartOf(w)'
       /\ RequestOf(w)' = sub[w][1]
       /\ \A v \in Held(w) \ {u} : place'[sub[w][1]][v] = place[sub[w][1]][v]
  BY <1>1, <1>3, <1>8, <1>9, <1>10, WorkerSame DEF dispatchVars
<1>12. CallOf(w)' /\ FailOf(w)'
  <2>1. failSet[w] = {} /\ failSet'[w] = {}
    BY <1>1, <1>3 DEF IInv, WorkerOf
  <2> QED BY <1>2, <1>3, <2>1 DEF CallOf, FailOf, taskVars, Accounting, Closing
<1>13. WorkerOf(w)'
  <2>1. Busy(w)' => Held(w)' \subseteq Batch(sub'[w][1], sub'[w][2])
    BY <1>1, <1>3, <1>10 DEF IInv, WorkerOf, dispatchVars
  <2>2. failSet[w] = {} /\ failSet'[w] = {} /\ call' = call /\ wpc' = wpc /\ grp' = grp
    BY <1>1, <1>3 DEF IInv, WorkerOf, taskVars
  <2>3. off'[w] \cap (DOMAIN grp'[w] \cup doneSet'[w]) = {}
    BY <1>5, <2>2 DEF IInv, WorkerOf
  <2>4. DOMAIN grp'[w] \cap doneSet'[w] = {}
    BY <1>1, <1>5, <2>2 DEF IInv, WorkerOf
  <2> QED BY <1>1, <1>2, <2>1, <2>2, <2>3, <2>4 DEF WorkerOf
<1>14. DoneOf(w)' /\ WaitingOf(w)'
  <2>1. doneSet[w] \cup off[w] \cup DOMAIN grp[w] \subseteq Held(w)
    BY SendAssumption DEF Held
  <2>2. sub'[w] = sub[w] /\ grp' = grp
    BY <1>3
  <2>3. place'[sub[w][1]][u] \in Handled
    BY <1>4, <1>6, <1>7
  <2>4. DoneOf(w)'
    BY <1>5, <1>11, <2>1, <2>2, <2>3 DEF IInv, DoneOf
  <2>5. u \notin off'[w] \cup DOMAIN grp'[w]
    BY <1>1, <1>5, <2>2 DEF IInv, WorkerOf
  <2>6. WaitingOf(w)'
    BY <1>5, <1>11, <2>1, <2>2, <2>5 DEF IInv, WaitingOf
  <2> QED BY <2>4, <2>6
<1> QED BY <1>11, <1>12, <1>13, <1>14, WorkerGoal

LEMMA InvLocalFull ==
  ASSUME TypeInv, IInv, NEW w \in Workers, NEW u \in Users, LocalFull(w, u)
  PROVE  IInv'
<1>1. Busy(w) /\ wpc[w] = "offline" /\ Running(w)
  BY DEF LocalFull, Busy
<1>2. w \in Threads /\ call[w].pc = "idle" /\ call[w].op = "none"
  BY <1>1, Idle
<1>3. /\ wpc' = [wpc EXCEPT ![w] = "stuck"]
      /\ UNCHANGED <<taskVars, dispatchVars, sub, off, grp, doneSet, failSet, historyVars>>
  BY DEF LocalFull
<1>4. wpc'[w] = "stuck" /\ \A v \in Workers \ {w} : wpc'[v] = wpc[v]
  BY <1>3 DEF TypeInv, TypeOK
<1>5. Elsewhere(w)
  BY <1>2, <1>3, <1>4 DEF Elsewhere, taskVars, dispatchVars, historyVars, InQueue
<1>6. Settles(w, {})
  BY <1>3 DEF Settles, historyVars
<1>7. Held(w)' = Held(w)
  BY <1>3 DEF Held
<1>8. RestKept(w) /\ TokenShape' /\ ApartOf(w)' /\ RequestOf(w)' = sub[w][1]
  BY <1>1, <1>3, <1>5, <1>6, <1>7, WorkerSame DEF dispatchVars
<1>9. CallOf(w)' /\ FailOf(w)'
  <2>1. failSet'[w] = {}
    BY <1>1, <1>3 DEF IInv, WorkerOf
  <2> QED BY <1>2, <1>3, <2>1 DEF CallOf, FailOf, taskVars, Accounting, Closing
<1>10. WorkerOf(w)' /\ DoneOf(w)' /\ WaitingOf(w)'
  BY <1>1, <1>3, <1>4, <1>7 DEF IInv, WorkerOf, DoneOf, WaitingOf, Busy, taskVars,
                                historyVars
<1> QED BY <1>8, <1>9, <1>10, WorkerGoal

\* A worker's call of DoneN or FailN begins.
LEMMA CallBegun ==
  ASSUME NEW w \in Workers, wpc'[w] = "groups", RequestOf(w)' = sub[w][1],
         \/ /\ doneSet'[w] # {}
            /\ call'[w] = [pc |-> "lookup", op |-> "done", msg |-> MsgOf[sub[w][1]],
                           n |-> Cardinality(doneSet'[w]), task |-> NoTask]
         \/ /\ failSet'[w] # {}
            /\ call'[w] = [pc |-> "lookup", op |-> "fail", msg |-> MsgOf[sub[w][1]],
                           n |-> Cardinality(failSet'[w]), task |-> NoTask]
  PROVE  CallOf(w)'
<1>1. w \notin Requests
  BY SendAssumption
<1>2. CASE doneSet'[w] # {} /\ call'[w] = [pc |-> "lookup", op |-> "done",
                     msg |-> MsgOf[sub[w][1]], n |-> Cardinality(doneSet'[w]), task |-> NoTask]
  BY <1>1, <1>2 DEF CallOf, Reported, Accounting, Closing
<1>3. CASE failSet'[w] # {} /\ call'[w] = [pc |-> "lookup", op |-> "fail",
                     msg |-> MsgOf[sub[w][1]], n |-> Cardinality(failSet'[w]), task |-> NoTask]
  BY <1>1, <1>3 DEF CallOf, Reported, Accounting, Closing
<1> QED BY <1>2, <1>3

LEMMA InvEndOffline ==
  ASSUME TypeInv, IInv, NEW w \in Workers, EndOffline(w)
  PROVE  IInv'
<1>1. Busy(w) /\ wpc[w] = "offline" /\ off[w] = {} /\ Running(w)
  BY DEF EndOffline, Busy
<1>2. w \in Threads /\ call[w].pc = "idle" /\ call[w].op = "none" /\ failSet[w] = {}
  BY <1>1, Idle DEF IInv, WorkerOf
<1>3. /\ wpc' = [wpc EXCEPT ![w] = "groups"]
      /\ UNCHANGED <<table, heap, dispatchVars, sub, off, grp, doneSet, failSet, historyVars>>
  BY DEF EndOffline
<1>4. wpc'[w] = "groups" /\ \A v \in Workers \ {w} : wpc'[v] = wpc[v]
  BY <1>3 DEF TypeInv, TypeOK
<1>5. /\ \A t \in Threads \ {w} : call'[t] = call[t]
      /\ \/ doneSet[w] = {} /\ call'[w] = call[w]
         \/ /\ doneSet[w] # {}
            /\ call'[w] = [pc |-> "lookup", op |-> "done", msg |-> MsgOf[sub[w][1]],
                           n |-> Cardinality(doneSet[w]), task |-> NoTask]
  BY <1>2 DEF EndOffline, CallDoneN, TypeInv, TypeOK, PendingTypeOK
<1>6. Elsewhere(w)
  BY <1>2, <1>3, <1>4, <1>5 DEF Elsewhere, dispatchVars, historyVars, InQueue
<1>7. Settles(w, {})
  BY <1>3 DEF Settles, historyVars
<1>8. Held(w)' = Held(w)
  BY <1>3 DEF Held
<1>9. RestKept(w) /\ TokenShape' /\ ApartOf(w)' /\ RequestOf(w)' = sub[w][1]
  BY <1>1, <1>3, <1>6, <1>7, <1>8, WorkerSame DEF dispatchVars
<1>10. CallOf(w)'
  <2>1. CASE doneSet[w] = {}
    BY <1>2, <1>5, <2>1 DEF CallOf, Accounting, Closing
  <2>2. CASE doneSet[w] # {}
    BY <1>3, <1>4, <1>5, <1>9, <2>2, CallBegun
  <2> QED BY <2>1, <2>2
<1>11. FailOf(w)' /\ DoneOf(w)' /\ WaitingOf(w)'
  BY <1>2, <1>3 DEF IInv, FailOf, DoneOf, WaitingOf, historyVars
<1>12. WorkerOf(w)'
  BY <1>1, <1>3, <1>4, <1>5, <1>8 DEF IInv, WorkerOf, Busy
<1> QED BY <1>9, <1>10, <1>11, <1>12, WorkerGoal

\* A worker between two groups holds only what is still grouped.
LEMMA ReadyFacts ==
  ASSUME TypeInv, IInv, NEW w \in Workers, Ready(w)
  PROVE  /\ Busy(w) /\ wpc[w] = "groups" /\ w \in Threads
         /\ call[w].pc = "idle" /\ call[w].op = "none"
         /\ off[w] = {} /\ doneSet[w] = {} /\ failSet[w] = {}
         /\ Held(w) = DOMAIN grp[w]
         /\ sub[w][1] \in Requests /\ Held(w) \subseteq Targets(sub[w][1])
<1>1. /\ Busy(w) /\ wpc[w] = "groups" /\ w \in Threads
      /\ call[w].pc = "idle" /\ call[w].op = "none"
      /\ doneSet[w] = {} /\ failSet[w] = {}
  BY Idle DEF Ready, Busy
<1>2. off[w] = {}
  BY <1>1 DEF IInv, WorkerOf
<1> QED BY <1>1, <1>2, BusyFacts, SendAssumption DEF Held

\* A group is handed over: to be reported as done, as failed, or in part each.
HandsOver(w, G, D) ==
  /\ G # {} /\ G \subseteq DOMAIN grp[w] /\ D \subseteq G
  /\ DOMAIN grp'[w] = DOMAIN grp[w] \ G
  /\ \A v \in Workers \ {w} : grp'[v] = grp[v]
  /\ doneSet' = [doneSet EXCEPT ![w] = D]
  /\ failSet' = [failSet EXCEPT ![w] = G \ D]
  /\ \A q \in Requests : \A u \in Targets(q) :
       IF q = sub[w][1] /\ u \in G
       THEN place'[q][u] \in IF u \in D THEN Handled ELSE Lost
       ELSE place'[q][u] = place[q][u]
  /\ \A t \in Threads \ {w} : call'[t] = call[t]
  /\ IF D # {}
     THEN call'[w] = [pc |-> "lookup", op |-> "done", msg |-> MsgOf[sub[w][1]],
                      n |-> Cardinality(D), task |-> NoTask]
     ELSE call'[w] = [pc |-> "lookup", op |-> "fail", msg |-> MsgOf[sub[w][1]],
                      n |-> Cardinality(G \ D), task |-> NoTask]
  /\ UNCHANGED <<table, heap, dispatchVars, wpc, sub, off, counted, doneCb, failCb, acked>>

LEMMA Grouped ==
  ASSUME TypeInv, IInv, NEW w \in Workers, Ready(w), NEW G, NEW D, HandsOver(w, G, D)
  PROVE  IInv'
<1> USE DEF HandsOver
<1>1. /\ Busy(w) /\ wpc[w] = "groups" /\ w \in Threads
      /\ call[w].pc = "idle" /\ call[w].op = "none"
      /\ off[w] = {} /\ doneSet[w] = {} /\ failSet[w] = {}
      /\ Held(w) = DOMAIN grp[w]
      /\ sub[w][1] \in Requests /\ Held(w) \subseteq Targets(sub[w][1])
  BY ReadyFacts
<1>2. /\ doneSet'[w] = D /\ failSet'[w] = G \ D
      /\ \A t \in Threads \ {w} : doneSet'[t] = doneSet[t] /\ failSet'[t] = failSet[t]
  BY <1>1 DEF TypeInv, TypeOK
<1>3. Elsewhere(w)
  BY <1>2 DEF Elsewhere, dispatchVars, InQueue
<1>4. Settles(w, G)
  BY <1>1 DEF Settles
<1>5. Held(w)' = Held(w)
  <2>1. Held(w)' = off'[w] \cup DOMAIN grp'[w] \cup doneSet'[w] \cup failSet'[w]
    BY SendAssumption DEF Held
  <2> QED BY <1>1, <1>2, <2>1
<1>6. /\ RestKept(w) /\ TokenShape' /\ ApartOf(w)' /\ RequestOf(w)' = sub[w][1]
      /\ \A u \in Held(w) \ G : place'[sub[w][1]][u] = place[sub[w][1]][u]
  BY <1>1, <1>3, <1>4, <1>5, WorkerSame DEF dispatchVars
<1>7. CallOf(w)'
  <2>1. wpc'[w] = "groups" /\ (D = {} => G \ D # {})
    BY <1>1
  <2> QED BY <1>2, <1>6, <2>1, CallBegun
<1>8. FailOf(w)' /\ DoneOf(w)'
  BY <1>1, <1>2, <1>6 DEF FailOf, DoneOf
<1>9. WaitingOf(w)'
  <2>1. off'[w] \cup DOMAIN grp'[w] \subseteq (DOMAIN grp[w]) \ G
    BY <1>1
  <2> QED BY <1>1, <1>6, <2>1 DEF IInv, WaitingOf
<1>10. WorkerOf(w)'
  <2>1. Busy(w)' => Held(w)' \subseteq Batch(sub'[w][1], sub'[w][2])
    BY <1>1, <1>5 DEF IInv, WorkerOf
  <2>2. wpc'[w] = "groups" /\ off'[w] = {}
    BY <1>1
  <2>3. call'[w].op # "done" => doneSet'[w] = {}
    BY <1>2
  <2>4. DOMAIN grp'[w] \cap (doneSet'[w] \cup failSet'[w]) = {}
    BY <1>2
  <2>5. doneSet'[w] \cap failSet'[w] = {}
    BY <1>2
  <2> QED BY <2>1, <2>2, <2>3, <2>4, <2>5 DEF WorkerOf
<1> QED BY <1>6, <1>7, <1>8, <1>9, <1>10, WorkerGoal

LEMMA Ungrouped ==
  ASSUME TypeInv, NEW w \in Workers, NEW g \in Gateways, grp' = Ungroup(w, g)
  PROVE  /\ DOMAIN grp'[w] = DOMAIN grp[w] \ Group(w, g)
         /\ \A v \in Workers \ {w} : grp'[v] = grp[v]
         /\ Group(w, g) \subseteq DOMAIN grp[w]
BY DEF TypeInv, TypeOK, Ungroup, Restrict, Group

LEMMA InvSendGroup ==
  ASSUME TypeInv, IInv, NEW w \in Workers, NEW g \in Gateways, SendGroup(w, g)
  PROVE  IInv'
<1>1. PICK G : G = Group(w, g)
  OBVIOUS
<1>2. /\ Ready(w) /\ G # {} /\ doneSet' = [doneSet EXCEPT ![w] = G]
      /\ UNCHANGED <<table, heap, dispatchVars, wpc, sub, off, failSet, counted, doneCb,
                     failCb, acked>>
  BY <1>1 DEF SendGroup
<1>3. /\ DOMAIN grp'[w] = DOMAIN grp[w] \ G /\ G \subseteq DOMAIN grp[w]
      /\ \A v \in Workers \ {w} : grp'[v] = grp[v]
  BY <1>1, Ungrouped DEF SendGroup
<1>4. w \in Threads /\ failSet[w] = {} /\ sub[w][1] \in Requests
  BY <1>2, ReadyFacts
<1>5. failSet' = [failSet EXCEPT ![w] = G \ G]
  BY <1>2, <1>4 DEF TypeInv, TypeOK
<1>6. \A q \in Requests : \A u \in Targets(q) :
        place'[q][u] = IF q = sub[w][1] /\ u \in G THEN "stream" ELSE place[q][u]
  <2>1. place' = Put(sub[w][1], G, "stream")
    BY <1>1 DEF SendGroup
  <2> QED BY <1>4, <2>1, PutAt
<1>7. /\ \A t \in Threads \ {w} : call'[t] = call[t]
      /\ call'[w] = [pc |-> "lookup", op |-> "done", msg |-> MsgOf[sub[w][1]],
                     n |-> Cardinality(G), task |-> NoTask]
  BY <1>1, <1>4 DEF SendGroup, CallDoneN, TypeInv, TypeOK, PendingTypeOK
<1>8. \A q \in Requests : \A u \in Targets(q) :
        IF q = sub[w][1] /\ u \in G
        THEN place'[q][u] \in IF u \in G THEN Handled ELSE Lost
        ELSE place'[q][u] = place[q][u]
  BY <1>6 DEF Handled
<1>9. IF G # {}
      THEN call'[w] = [pc |-> "lookup", op |-> "done", msg |-> MsgOf[sub[w][1]],
                       n |-> Cardinality(G), task |-> NoTask]
      ELSE call'[w] = [pc |-> "lookup", op |-> "fail", msg |-> MsgOf[sub[w][1]],
                       n |-> Cardinality(G \ G), task |-> NoTask]
  BY <1>2, <1>7
<1>10. HandsOver(w, G, G)
  BY <1>2, <1>3, <1>5, <1>7, <1>8, <1>9 DEF HandsOver
<1> QED BY <1>2, <1>10, Grouped

LEMMA InvFallBack ==
  ASSUME TypeInv, IInv, NEW w \in Workers, NEW g \in Gateways, FallBack(w, g)
  PROVE  IInv'
<1>1. PICK G : G = Group(w, g)
  OBVIOUS
<1>2. /\ Ready(w) /\ G # {}
      /\ UNCHANGED <<table, heap, dispatchVars, wpc, sub, off, counted, doneCb, failCb, acked>>
  BY <1>1 DEF FallBack
<1>3. /\ DOMAIN grp'[w] = DOMAIN grp[w] \ G /\ G \subseteq DOMAIN grp[w]
      /\ \A v \in Workers \ {w} : grp'[v] = grp[v]
  BY <1>1, Ungrouped DEF FallBack
<1>4. w \in Threads /\ sub[w][1] \in Requests
  BY <1>2, ReadyFacts
<1>5. PICK D \in SUBSET G :
        /\ doneSet' = [doneSet EXCEPT ![w] = D]
        /\ failSet' = [failSet EXCEPT ![w] = G \ D]
        /\ place' = [place EXCEPT ![sub[w][1]] =
                       [u \in Users |-> IF u \in D THEN "offline"
                                        ELSE IF u \in G THEN "failed"
                                        ELSE place[sub[w][1]][u]]]
        /\ IF D # {} THEN CallDoneN(w, MsgOf[sub[w][1]], Cardinality(D))
                     ELSE CallFailN(w, MsgOf[sub[w][1]], Cardinality(G))
  BY <1>1 DEF FallBack
<1>6. \A q \in Requests : \A u \in Targets(q) :
        place'[q][u] = IF q = sub[w][1] /\ u \in G
                       THEN IF u \in D THEN "offline" ELSE "failed"
                       ELSE place[q][u]
  BY <1>4, <1>5 DEF TypeInv, TypeOK, Targets, Users
<1>7. /\ \A t \in Threads \ {w} : call'[t] = call[t]
      /\ IF D # {}
         THEN call'[w] = [pc |-> "lookup", op |-> "done", msg |-> MsgOf[sub[w][1]],
                          n |-> Cardinality(D), task |-> NoTask]
         ELSE call'[w] = [pc |-> "lookup", op |-> "fail", msg |-> MsgOf[sub[w][1]],
                          n |-> Cardinality(G \ D), task |-> NoTask]
  <2>1. D = {} => G \ D = G
    OBVIOUS
  <2> QED BY <1>4, <1>5, <2>1 DEF CallDoneN, CallFailN, TypeInv, TypeOK, PendingTypeOK
<1>8. \A q \in Requests : \A u \in Targets(q) :
        IF q = sub[w][1] /\ u \in G
        THEN place'[q][u] \in IF u \in D THEN Handled ELSE Lost
        ELSE place'[q][u] = place[q][u]
  BY <1>6 DEF Handled, Lost
<1>9. HandsOver(w, G, D)
  BY <1>2, <1>3, <1>5, <1>7, <1>8 DEF HandsOver
<1> QED BY <1>2, <1>9, Grouped

LEMMA InvReportFailed ==
  ASSUME TypeInv, IInv, NEW w \in Workers, ReportFailed(w)
  PROVE  IInv'
<1>1. Busy(w) /\ wpc[w] = "groups" /\ Running(w) /\ failSet[w] # {} /\ doneSet[w] = {}
  BY DEF ReportFailed, Busy
<1>2. w \in Threads /\ call[w].pc = "idle" /\ call[w].op = "none"
  BY <1>1, Idle
<1>3. UNCHANGED <<table, heap, dispatchVars, wpc, sub, off, grp, doneSet, failSet, historyVars>>
  BY DEF ReportFailed, workerVars
<1>4. /\ \A t \in Threads \ {w} : call'[t] = call[t]
      /\ call'[w] = [pc |-> "lookup", op |-> "fail", msg |-> MsgOf[sub[w][1]],
                     n |-> Cardinality(failSet[w]), task |-> NoTask]
  BY <1>2 DEF ReportFailed, CallFailN, TypeInv, TypeOK, PendingTypeOK
<1>5. Elsewhere(w)
  BY <1>3, <1>4 DEF Elsewhere, dispatchVars, historyVars, InQueue
<1>6. Settles(w, {})
  BY <1>3 DEF Settles, historyVars
<1>7. Held(w)' = Held(w)
  BY <1>3 DEF Held
<1>8. RestKept(w) /\ TokenShape' /\ ApartOf(w)' /\ RequestOf(w)' = sub[w][1]
  BY <1>1, <1>3, <1>5, <1>6, <1>7, WorkerSame DEF dispatchVars
<1>9. CallOf(w)'
  BY <1>1, <1>3, <1>4, <1>8, CallBegun
<1>10. FailOf(w)' /\ DoneOf(w)' /\ WaitingOf(w)'
  <2>1. RequestOf(w)' = RequestOf(w)
    BY <1>3 DEF RequestOf
  <2>2. FailOf(w)'
    BY <1>2, <1>3, <2>1 DEF IInv, FailOf, historyVars
  <2>3. DoneOf(w)' /\ WaitingOf(w)'
    BY <1>3 DEF IInv, DoneOf, WaitingOf, historyVars
  <2> QED BY <2>2, <2>3
<1>11. WorkerOf(w)'
  BY <1>1, <1>3, <1>7 DEF IInv, WorkerOf, Busy
<1> QED BY <1>8, <1>9, <1>10, <1>11, WorkerGoal

LEMMA InvFinish ==
  ASSUME TypeInv, IInv, NEW w \in Workers, Finish(w)
  PROVE  IInv'
<1>1. /\ Busy(w) /\ wpc[w] = "groups" /\ w \in Threads
      /\ call[w].pc = "idle" /\ call[w].op = "none"
      /\ off[w] = {} /\ doneSet[w] = {} /\ failSet[w] = {} /\ DOMAIN grp[w] = {}
  BY ReadyFacts DEF Finish
<1>2. /\ wpc' = [wpc EXCEPT ![w] = "idle"] /\ sub' = [sub EXCEPT ![w] = NoSub]
      /\ UNCHANGED <<taskVars, dispatchVars, off, grp, doneSet, failSet, historyVars>>
  BY DEF Finish
<1>3. /\ wpc'[w] = "idle"
      /\ \A v \in Workers \ {w} : wpc'[v] = wpc[v] /\ sub'[v] = sub[v]
  BY <1>2 DEF TypeInv, TypeOK
<1>4. Elsewhere(w)
  BY <1>1, <1>2, <1>3 DEF Elsewhere, taskVars, dispatchVars, historyVars, InQueue
<1>5. Settles(w, {})
  BY <1>2 DEF Settles, historyVars
<1>6. RestKept(w)
  BY <1>4, <1>5, WorkerRest
<1>7. TokenShape'
  <2>1. \A v \in Workers : Busy(v)' => Busy(v) /\ sub'[v] = sub[v]
    BY <1>3 DEF Busy
  <2>2. \A y : InQueue(y)' <=> InQueue(y)
    BY <1>2 DEF InQueue, dispatchVars
  <2>3. queue' = queue /\ next' = next
    BY <1>2 DEF dispatchVars
  <2> QED BY <2>1, <2>2, <2>3 DEF IInv, TokenShape
<1>8. CallOf(w)' /\ FailOf(w)'
  BY <1>1, <1>2 DEF CallOf, FailOf, taskVars, Accounting, Closing
<1>9. WorkerOf(w)' /\ ApartOf(w)' /\ DoneOf(w)' /\ WaitingOf(w)'
  <2>1. Held(w)' = {} /\ ~Busy(w)'
    BY <1>1, <1>2, <1>3, SendAssumption DEF Held, Busy
  <2> QED BY <1>1, <1>2, <1>3, <2>1 DEF WorkerOf, ApartOf, DoneOf, WaitingOf, taskVars
<1> QED BY <1>6, <1>7, <1>8, <1>9, WorkerGoal

--------------------------------------------------------------------------------
(* The steps of Init, DoneN and FailN: first what a step of a call leaves alone. *)

InCall(t) ==
  /\ UNCHANGED <<rpc, next, queue, wpc, sub, off, grp, place>>
  /\ \A s \in Threads \ {t} :
       call'[s] = call[s] /\ doneSet'[s] = doneSet[s] /\ failSet'[s] = failSet[s]
  /\ doneSet'[t] \subseteq doneSet[t] /\ failSet'[t] \subseteq failSet[t]

LEMMA CallRest ==
  ASSUME TypeInv, IInv, NEW t \in Threads, InCall(t)
  PROVE  /\ TokenShape'
         /\ \A s \in Threads : FailOf(s)' /\ RequestOf(s)' = RequestOf(s)
         /\ \A s \in Threads \ {t} : CallOf(s)'
         /\ \A w \in Workers : DoneOf(w)' /\ WaitingOf(w)' /\ (Busy(w)' <=> Busy(w))
         /\ \A w \in Workers : Held(w)' \subseteq Held(w)
         /\ \A r \in Requests : OpenOf(r)'
         /\ \A y : InQueue(y)' <=> InQueue(y)
<1> USE DEF InCall
<1>1. \A y : InQueue(y)' <=> InQueue(y)
  BY DEF InQueue
<1>2. \A w \in Workers : Busy(w)' <=> Busy(w)
  BY DEF Busy
<1>3. TokenShape'
  BY <1>1, <1>2 DEF IInv, TokenShape
<1>4. ASSUME NEW s \in Threads
      PROVE  FailOf(s)' /\ RequestOf(s)' = RequestOf(s)
  <2>1. RequestOf(s)' = RequestOf(s)
    BY DEF RequestOf
  <2>2. failSet'[s] \subseteq failSet[s]
    BY <1>4
  <2> QED BY <2>1, <2>2 DEF IInv, FailOf
<1>5. ASSUME NEW s \in Threads \ {t}
      PROVE  CallOf(s)'
  <2>1. Reported(s)' = Reported(s)
    BY DEF Reported
  <2>2. RequestOf(s)' = RequestOf(s)
    BY <1>4
  <2>3. call'[s] = call[s] /\ rpc' = rpc /\ wpc' = wpc
    BY <1>5
  <2> QED BY <2>1, <2>2, <2>3 DEF IInv, CallOf
<1>6. ASSUME NEW w \in Workers
      PROVE  /\ DoneOf(w)' /\ WaitingOf(w)'
             /\ Held(w)' \subseteq Held(w)
  <2>1. w \in Threads /\ w \notin Requests
    BY SendAssumption DEF Threads
  <2>2. doneSet'[w] \subseteq doneSet[w] /\ failSet'[w] \subseteq failSet[w]
    BY <2>1
  <2>3. DoneOf(w)' /\ WaitingOf(w)'
    BY <2>2 DEF IInv, DoneOf, WaitingOf
  <2>4. Held(w)' \subseteq Held(w)
    BY <2>1, <2>2 DEF Held
  <2> QED BY <2>3, <2>4
<1>7. ASSUME NEW r \in Requests
      PROVE  OpenOf(r)'
  BY <1>1 DEF IInv, OpenOf
<1> QED BY <1>1, <1>2, <1>3, <1>4, <1>5, <1>6, <1>7

\* A step of a call that reports nothing yet: it touches the table only.
InTableOnly(t) ==
  /\ InCall(t)
  /\ UNCHANGED <<doneSet, failSet, counted, doneCb, failCb, acked, msg2sender>>
  /\ t \in Workers => call'[t].op = call[t].op

LEMMA TableRest ==
  ASSUME TypeInv, IInv, NEW t \in Threads, InTableOnly(t)
  PROVE  /\ \A w \in Workers : WorkerOf(w)' /\ ApartOf(w)'
         /\ \A r \in Requests : CountOf(r)' /\ Verdict(r)' = Verdict(r)
<1> USE DEF InTableOnly
<1>1. UNCHANGED <<doneSet, failSet, counted, wpc, sub, off, grp, next, queue>>
  BY DEF InCall
<1>2. ASSUME NEW w \in Workers
      PROVE  WorkerOf(w)' /\ ApartOf(w)'
  <2>1. Held(w)' = Held(w) /\ (Busy(w)' <=> Busy(w))
    BY <1>1 DEF Held, Busy
  <2>2. call'[w].op = call[w].op
    BY DEF InCall, Threads
  <2>3. WorkerOf(w)'
    BY <1>1, <2>1, <2>2 DEF IInv, WorkerOf
  <2>4. ApartOf(w)'
    BY <1>1, <2>1 DEF IInv, ApartOf
  <2> QED BY <2>3, <2>4
<1>3. ASSUME NEW r \in Requests
      PROVE  CountOf(r)' /\ Verdict(r)' = Verdict(r)
  BY <1>1 DEF IInv, CountOf, Verdict, InQueue
<1> QED BY <1>2, <1>3

\* The table and the counters stay: the lock, a lookup that finds the state, and
\* the end of the process.
LEMMA InvQuiet ==
  ASSUME TypeInv, IInv, NEW t \in Threads, InTableOnly(t), UNCHANGED <<table, heap>>,
         call'[t].op = call[t].op, CallOf(t)',
         call'[t].pc \in Closing => /\ call[t].pc \in Closing
                                    /\ call'[t].task = call[t].task,
         call'[t].pc = "addPending" => call'[t].op # "fail",
         call'[t].pc # "callback"
  PROVE  IInv'
<1>1. \A s \in Threads \ {t} : call'[s] = call[s]
  BY DEF InTableOnly, InCall
<1>2. UNCHANGED <<rpc, doneSet, failSet, counted, doneCb, failCb, acked, msg2sender, next, place>>
  BY DEF InTableOnly, InCall
<1>3. \A r \in Requests : (Fresh(r)' <=> Fresh(r)) /\ Verdict(r)' = Verdict(r)
  BY <1>1, <1>2, TableRest DEF Fresh, Threads
<1>4. TableShape'
  BY DEF IInv, TableShape
<1>5. Alone'
  <2>1. \A s \in Threads : call'[s].pc \in Closing =>
                             call[s].pc \in Closing /\ call'[s].task = call[s].task
    BY <1>1
  <2> QED BY <2>1 DEF IInv, Alone
<1>6. ASSUME NEW s \in Threads
      PROVE  ClosingOf(s)'
  <2>1. CASE s = t
    <3>1. CASE call'[t].pc \in Closing
      <4>1. call[t].pc \in Closing /\ call'[t].task = call[t].task /\ call'[t].op = call[t].op
        BY <3>1
      <4> QED BY <1>2, <2>1, <3>1, <4>1 DEF IInv, ClosingOf, Verdict
    <3>2. CASE call'[t].pc \notin Closing
      BY <2>1, <3>2 DEF ClosingOf
    <3> QED BY <3>1, <3>2
  <2>2. CASE s # t
    BY <1>1, <1>2, <2>2 DEF IInv, ClosingOf, Verdict
  <2> QED BY <2>1, <2>2
<1>7. ASSUME NEW r \in Requests
      PROVE  FreshOf(r)' /\ CountedOf(r)' /\ HeapOf(r)' /\ VerdictOf(r)'
  BY <1>2, <1>3 DEF IInv, FreshOf, CountedOf, HeapOf, VerdictOf
<1>8. InCall(t)
  BY DEF InTableOnly
<1> QED BY <1>4, <1>5, <1>6, <1>7, <1>8, CallRest, TableRest DEF IInv

\* What a call step leaves alone, read off the definitions.
LEMMA TableFrame ==
  ASSUME NEW t \in Threads, InTable(t)
  PROVE  UNCHANGED <<rpc, next, queue, wpc, sub, off, grp, place, doneSet, failSet,
                     counted, doneCb, failCb, acked, msg2sender>>
BY DEF InTable, dispatchVars, workerVars, historyVars

LEMMA CallTypes ==
  ASSUME TypeInv, NEW t \in Threads
  PROVE  /\ call \in [Threads -> CallType] /\ call[t] \in CallType
         /\ call[t].n \in Nat
         /\ Exit(t) => /\ \A s \in Threads \ {t} : call'[s] = call[s]
                       /\ call'[t] = NoCall
<1>1. call \in [Threads -> CallType] /\ call[t] \in CallType
  BY DEF TypeInv, TypeOK, PendingTypeOK
<1>2. call[t].n \in Nat
  BY <1>1 DEF CallType
<1>3. Exit(t) => /\ \A s \in Threads \ {t} : call'[s] = call[s]
                 /\ call'[t] = NoCall
  BY <1>1 DEF Exit
<1> QED BY <1>1, <1>2, <1>3

LEMMA GotoFacts ==
  ASSUME TypeInv, NEW t \in Threads, NEW pc, Goto(t, pc)
  PROVE  /\ \A s \in Threads \ {t} : call'[s] = call[s]
         /\ call'[t].pc = pc /\ call'[t].op = call[t].op /\ call'[t].msg = call[t].msg
         /\ call'[t].n = call[t].n /\ call'[t].task = call[t].task
<1>1. call'[t] = [call[t] EXCEPT !.pc = pc] /\ \A s \in Threads \ {t} : call'[s] = call[s]
  BY CallTypes DEF Goto
<1> QED BY <1>1, CallTypes DEF CallType

LEMMA InvLocks ==
  ASSUME TypeInv, IInv, NEW t \in Threads, InTable(t),
         InitLock(t) \/ DeleteLock(t) \/ RuntimeFatal(t)
  PROVE  IInv'
<1>1. UNCHANGED <<rpc, next, queue, wpc, sub, off, grp, place, doneSet, failSet,
                  counted, doneCb, failCb, acked, msg2sender>>
  BY TableFrame
<1>2. UNCHANGED <<table, heap>>
  BY DEF InitLock, DeleteLock, Lock, RuntimeFatal
<1>3. CASE RuntimeFatal(t)
  <2>1. call' = call /\ call[t].pc = "lookup"
    BY <1>3 DEF RuntimeFatal, At
  <2>2. InTableOnly(t)
    BY <1>1, <2>1 DEF InTableOnly, InCall
  <2>3. CallOf(t)'
    <3>1. Reported(t)' = Reported(t) /\ RequestOf(t)' = RequestOf(t)
      BY <1>1, <2>1 DEF Reported, RequestOf
    <3> QED BY <1>1, <2>1, <3>1 DEF IInv, CallOf
  <2>4. call[t].pc \notin Closing /\ call[t].pc # "addPending"
    BY <2>1 DEF Closing
  <2> QED BY <1>2, <2>1, <2>2, <2>3, <2>4, InvQuiet
<1>4. CASE InitLock(t) \/ DeleteLock(t)
  <2>0. PICK to : /\ Goto(t, to)
                  /\ \/ call[t].pc = "initLock" /\ to = "initStore"
                     \/ call[t].pc = "deleteLock" /\ to = "delete"
    BY <1>4 DEF InitLock, DeleteLock, Lock, At
  <2>1. /\ \A s \in Threads \ {t} : call'[s] = call[s]
        /\ call'[t].pc = to /\ call'[t].op = call[t].op /\ call'[t].msg = call[t].msg
        /\ call'[t].n = call[t].n /\ call'[t].task = call[t].task
    BY <2>0, GotoFacts
  <2>2. InTableOnly(t)
    BY <1>1, <2>1 DEF InTableOnly, InCall
  <2>3. CallOf(t)'
    <3>1. RequestOf(t)' = RequestOf(t)
      BY <1>1 DEF RequestOf
    <3> QED BY <1>1, <2>0, <2>1, <3>1 DEF IInv, CallOf, Accounting, Closing
  <2>4. to \in Closing => call[t].pc \in Closing
    BY <2>0 DEF Closing
  <2>5. to # "addPending" /\ to # "callback"
    BY <2>0
  <2> QED BY <1>2, <2>1, <2>2, <2>3, <2>4, <2>5, InvQuiet
<1> QED BY <1>3, <1>4

\* The entry found is the state of the caller's own request.
LEMMA InvFound ==
  ASSUME NoResend, TypeInv, IInv, NEW t \in Threads, InTable(t), Found(t)
  PROVE  IInv'
<1>1. UNCHANGED <<rpc, next, queue, wpc, sub, off, grp, place, doneSet, failSet,
                  counted, doneCb, failCb, acked, msg2sender, table, heap>>
  BY TableFrame DEF Found
<1>2. /\ call[t].pc = "lookup" /\ call[t].op \in {"done", "fail"}
      /\ call[t].msg = MsgOf[RequestOf(t)] /\ RequestOf(t) \in Requests
  <2>1. call[t].pc = "lookup"
    BY DEF Found, At
  <2>2. call[t].op \in {"done", "fail"}
    BY <2>1, CallTypes DEF CallType, IInv, CallOf
  <2> QED BY <2>1, <2>2, CallFacts
<1> DEFINE pc == IF call[t].op = "fail" THEN "addFailed" ELSE "addPending"
           k == table[call[t].msg]
<1>3. /\ \A s \in Threads \ {t} : call'[s] = call[s]
      /\ call'[t].pc = pc /\ call'[t].op = call[t].op /\ call'[t].msg = call[t].msg
      /\ call'[t].n = call[t].n /\ call'[t].task = k
  <2>1. call' = [call EXCEPT ![t] = [call[t] EXCEPT !.pc = pc, !.task = k]]
    BY CallTypes DEF Found
  <2> QED BY <2>1, CallTypes DEF CallType
<1>4. k = RequestOf(t)
  <2>1. call[t].msg \in Msgs /\ k # NoTask
    BY <1>2 DEF TypeInv, CallOK, Found
  <2>2. k \in Requests /\ MsgOf[k] = call[t].msg
    BY <2>1 DEF IInv, TableShape, TypeInv, TypeOK, PendingTypeOK
  <2> QED BY <1>2, <2>2 DEF NoResend
<1>5. InTableOnly(t)
  BY <1>1, <1>3 DEF InTableOnly, InCall
<1>6. CallOf(t)'
  <2>1. RequestOf(t)' = RequestOf(t) /\ Reported(t)' = Reported(t)
    BY <1>1, <1>3 DEF RequestOf, Reported
  <2>2. pc \in Accounting /\ (pc = "addFailed" => call[t].op = "fail")
    BY DEF Accounting
  <2> QED BY <1>1, <1>2, <1>3, <1>4, <2>1, <2>2 DEF IInv, CallOf, Accounting, Closing
<1>7. pc \notin Closing /\ (pc = "addPending" => call[t].op # "fail") /\ pc # "callback"
  BY DEF Closing
<1> QED BY <1>1, <1>3, <1>5, <1>6, <1>7, InvQuiet

\* A goroutine that still has targets to account for holds back the verdict.
LEMMA NotYet ==
  ASSUME TypeInv, IInv, NEW t \in Threads, call[t].pc \in Accounting
  PROVE  LET k == call[t].task
         IN  /\ k = RequestOf(t) /\ k \in Requests /\ ~Fresh(k) /\ ~Verdict(k)
             /\ call[t].op \in {"done", "fail"}
             /\ Reported(t) # {} /\ call[t].n = Cardinality(Reported(t))
             /\ Reported(t) \subseteq Targets(k) /\ Reported(t) \cap counted[k] = {}
             /\ \A s \in Threads : call[s].pc \in Closing => call[s].task # k
<1>1. call[t].op \in {"done", "fail"}
  BY CallTypes DEF CallType, IInv, CallOf, Accounting
<1>2. /\ call[t].task = RequestOf(t) /\ RequestOf(t) \in Requests /\ ~Fresh(RequestOf(t))
      /\ Reported(t) # {} /\ call[t].n = Cardinality(Reported(t))
  BY <1>1, CallFacts DEF IInv, CallOf
<1>3. /\ Reported(t) \subseteq Targets(RequestOf(t))
      /\ Reported(t) \cap counted[RequestOf(t)] = {}
  <2>1. CASE t \in Workers
    BY <1>1, <2>1, CallFacts, BusyFacts
  <2>2. CASE t \in Requests
    <3>1. call[t].op = "fail" /\ RequestOf(t) = t
      BY <1>1, <2>2 DEF IInv, CallOf, RequestOf
    <3> QED BY <2>2, <3>1 DEF IInv, CountOf, Reported
  <2> QED BY <2>1, <2>2 DEF Threads
<1>4. counted[RequestOf(t)] # Targets(RequestOf(t))
  BY <1>2, <1>3
<1>5. ~Verdict(RequestOf(t))
  BY <1>2, <1>4 DEF IInv, VerdictOf
<1>6. \A s \in Threads : call[s].pc \in Closing => call[s].task # RequestOf(t)
  BY <1>4 DEF IInv, ClosingOf
<1> QED BY <1>1, <1>2, <1>3, <1>5, <1>6

LEMMA InvAddFailed ==
  ASSUME TypeInv, IInv, NEW t \in Threads, InTable(t), AddFailed(t)
  PROVE  IInv'
<1>0. PICK k : k = call[t].task
  OBVIOUS
<1>1. UNCHANGED <<rpc, next, queue, wpc, sub, off, grp, place, doneSet, failSet,
                  counted, doneCb, failCb, acked, msg2sender, table>>
  BY TableFrame DEF AddFailed
<1>2. call[t].pc = "addFailed" /\ call[t].op = "fail"
  BY DEF AddFailed, At, IInv, CallOf
<1>3. /\ k = RequestOf(t) /\ k \in Requests /\ ~Verdict(k)
      /\ Reported(t) # {} /\ call[t].n = Cardinality(Reported(t))
      /\ \A s \in Threads : call[s].pc \in Closing => call[s].task # k
  BY <1>0, <1>2, NotYet DEF Accounting
<1>4. call[t].n \in Nat \ {0}
  <2>1. Reported(t) = failSet[t] /\ failSet[t] \in SUBSET Users
    BY <1>2 DEF Reported, TypeInv, TypeOK
  <2> QED BY <1>3, <2>1, UserSets, FS_EmptySet
<1>5. /\ \A s \in Threads \ {t} : call'[s] = call[s]
      /\ call'[t].pc = "addPending" /\ call'[t].op = "fail" /\ call'[t].msg = call[t].msg
      /\ call'[t].n = call[t].n /\ call'[t].task = k
  BY <1>0, <1>2, GotoFacts DEF AddFailed
<1>6. /\ heap'[k].failed > 0 /\ heap'[k].pending = heap[k].pending
      /\ \A q \in Requests \ {k} : heap'[q] = heap[q]
  <2>1. heap[k] \in Counters
    BY <1>3 DEF TypeInv, TypeOK, PendingTypeOK
  <2>2. heap' = [heap EXCEPT ![k] = [heap[k] EXCEPT !.failed = heap[k].failed + call[t].n]]
    BY <1>0, <1>3 DEF AddFailed, Failures, TypeInv, TypeOK, PendingTypeOK
  <2>3. heap'[k] = [heap[k] EXCEPT !.failed = heap[k].failed + call[t].n]
    BY <1>3, <2>2 DEF TypeInv, TypeOK, PendingTypeOK
  <2>4. \A q \in Requests \ {k} : heap'[q] = heap[q]
    BY <2>2 DEF TypeInv, TypeOK, PendingTypeOK
  <2> QED BY <1>4, <2>1, <2>3, <2>4 DEF Counters
<1>7. InTableOnly(t)
  BY <1>1, <1>2, <1>5 DEF InTableOnly, InCall
<1>8. \A r \in Requests : (Fresh(r)' <=> Fresh(r)) /\ Verdict(r)' = Verdict(r)
  BY <1>1, <1>2, <1>5, <1>7, TableRest DEF Fresh, Threads
<1>9. TableShape'
  BY <1>1 DEF IInv, TableShape
<1>10. Alone'
  <2>1. \A s \in Threads : call'[s].pc \in Closing => s # t /\ call'[s] = call[s]
    BY <1>5 DEF Closing
  <2> QED BY <2>1 DEF IInv, Alone
<1>11. CallOf(t)'
  <2>1. RequestOf(t)' = RequestOf(t) /\ Reported(t)' = Reported(t)
    BY <1>1, <1>2, <1>5 DEF RequestOf, Reported
  <2> QED BY <1>1, <1>2, <1>3, <1>5, <2>1 DEF IInv, CallOf, Accounting, Closing
<1>12. ASSUME NEW s \in Threads
       PROVE  ClosingOf(s)'
  <2>1. CASE s = t
    BY <1>0, <1>5, <1>6, <2>1 DEF ClosingOf, Closing
  <2>2. CASE s # t
    <3>1. call[s].pc \in Closing => call[s].task \in Requests \ {k}
      BY <1>3 DEF TypeInv, CallOK, Closing
    <3>2. call[s].pc = "addPending" => call[s].task \in Requests
      BY DEF TypeInv, CallOK
    <3>3. call'[s] = call[s] /\ doneSet' = doneSet /\ counted' = counted /\ table' = table
      BY <1>1, <1>5, <2>2
    <3>4. call[s].pc \in {"addPending"} \cup Closing /\ call[s].op = "fail" =>
            heap'[call[s].task].failed > 0
      BY <1>6, <3>1, <3>2 DEF IInv, ClosingOf
    <3>5. call[s].pc \in Closing => ~Verdict(call[s].task)'
      BY <1>1, <3>3 DEF IInv, ClosingOf, Verdict
    <3> QED BY <3>3, <3>4, <3>5 DEF IInv, ClosingOf, Verdict
  <2> QED BY <2>1, <2>2
<1>13. ASSUME NEW r \in Requests
       PROVE  FreshOf(r)' /\ CountedOf(r)' /\ HeapOf(r)' /\ VerdictOf(r)'
  <2>1. CASE r # k
    BY <1>1, <1>6, <1>8, <2>1 DEF IInv, FreshOf, CountedOf, HeapOf, VerdictOf
  <2>2. CASE r = k
    <3>1. FreshOf(k)'
      BY <1>1, <1>3, <1>8 DEF IInv, FreshOf
    <3>2. CountedOf(k)'
      BY <1>1, <1>3, <1>6 DEF IInv, CountedOf
    <3>3. \E u \in Targets(k) : place[k][u] \in Lost
      BY <1>2, <1>3, FailTargets DEF IInv, FailOf, Reported
    <3>4. HeapOf(k)'
      BY <1>1, <1>3, <1>6, <1>8, <3>3 DEF IInv, HeapOf
    <3>5. doneCb[k] = 0 /\ failCb[k] = 0
      BY <1>3 DEF Verdict, TypeInv, TypeOK
    <3>6. VerdictOf(k)'
      BY <1>1, <1>3, <1>8, <3>5 DEF IInv, VerdictOf
    <3> QED BY <2>2, <3>1, <3>2, <3>4, <3>6
  <2> QED BY <2>1, <2>2
<1>14. InCall(t)
  BY <1>7 DEF InTableOnly
<1> QED BY <1>7, <1>9, <1>10, <1>11, <1>12, <1>13, <1>14, CallRest, TableRest DEF IInv

LEMMA InvInitStore ==
  ASSUME NoResend, TypeInv, IInv, NEW r \in Threads, InTable(r), InitStore(r)
  PROVE  IInv'
<1>1. UNCHANGED <<rpc, next, queue, wpc, sub, off, grp, place, doneSet, failSet,
                  counted, doneCb, failCb, acked, msg2sender>>
  BY TableFrame
<1>2. /\ r \in Requests /\ r \notin Workers /\ call[r].op = "init" /\ rpc[r] = "loop"
      /\ call[r].msg = MsgOf[r] /\ call[r].task = r /\ call[r].n = Size[r]
      /\ MsgOf[r] \in Msgs
  BY SendAssumption DEF InitStore, At, IInv, CallOf
<1>3. Fresh(r)
  BY <1>2 DEF Fresh
<1>4. /\ next[r] = 0 /\ counted[r] = {} /\ failSet[r] = {}
      /\ doneCb[r] = 0 /\ failCb[r] = 0
  BY <1>2, <1>3 DEF IInv, FreshOf
<1>5. /\ call'[r] = NoCall /\ \A s \in Threads \ {r} : call'[s] = call[s]
      /\ table' = [table EXCEPT ![MsgOf[r]] = r]
      /\ heap' = [heap EXCEPT ![r] = [pending |-> Size[r], failed |-> 0]]
  BY <1>2, CallTypes DEF InitStore
<1>6. /\ heap'[r] = [pending |-> Size[r], failed |-> 0]
      /\ \A q \in Requests \ {r} : heap'[q] = heap[q]
      /\ table'[MsgOf[r]] = r /\ \A m \in Msgs \ {MsgOf[r]} : table'[m] = table[m]
  BY <1>2, <1>5 DEF TypeInv, TypeOK, PendingTypeOK
<1>7. InTableOnly(r)
  BY <1>1, <1>2, <1>5 DEF InTableOnly, InCall
<1>8. /\ \A q \in Requests : Verdict(q)' = Verdict(q)
      /\ ~Fresh(r)' /\ \A q \in Requests \ {r} : (Fresh(q)' <=> Fresh(q))
  <2>1. \A q \in Requests \ {r} : Fresh(q)' <=> Fresh(q)
    BY <1>1, <1>5 DEF Fresh, Threads
  <2>2. ~Fresh(r)'
    BY <1>1, <1>2, <1>5 DEF Fresh, NoCall
  <2> QED BY <1>7, <2>1, <2>2, TableRest
<1>9. TableShape'
  BY <1>2, <1>6 DEF IInv, TableShape
<1>10. Alone'
  <2>1. \A s \in Threads : call'[s].pc \in Closing => s # r /\ call'[s] = call[s]
    BY <1>5 DEF Closing, NoCall
  <2> QED BY <2>1 DEF IInv, Alone
<1>11. CallOf(r)'
  BY <1>5 DEF CallOf, NoCall, Accounting, Closing
\* A goroutine that works for another request works for another message.
<1>12. ASSUME NEW s \in Threads
       PROVE  ClosingOf(s)'
  <2>1. CASE s = r
    BY <1>5, <2>1 DEF ClosingOf, Closing, NoCall
  <2>2. CASE s # r /\ call[s].pc \in {"addPending"} \cup Closing
    <3>1. call'[s] = call[s] /\ doneSet' = doneSet /\ counted' = counted
      BY <1>1, <1>5, <2>2
    <3>2. call[s].op \in {"done", "fail"}
      BY <2>2, CallTypes DEF CallType, IInv, CallOf, Closing
    <3>3. call[s].task = RequestOf(s)
      BY <2>2 DEF IInv, CallOf, Accounting
    <3>4. /\ call[s].task \in Requests \ {r} /\ call[s].msg = MsgOf[call[s].task]
          /\ call[s].msg \in Msgs
      BY <1>3, <3>2, <3>3, CallFacts, SendAssumption
    <3>5. call[s].msg # MsgOf[r]
      BY <1>2, <3>4 DEF NoResend
    <3>6. heap'[call[s].task] = heap[call[s].task] /\ table'[call[s].msg] = table[call[s].msg]
      BY <1>6, <3>4, <3>5
    <3> QED BY <1>1, <3>1, <3>6 DEF IInv, ClosingOf, Verdict
  <2>3. CASE s # r /\ call[s].pc \notin {"addPending"} \cup Closing
    BY <1>5, <2>3 DEF ClosingOf, Closing
  <2> QED BY <2>1, <2>2, <2>3
<1>13. ASSUME NEW q \in Requests
       PROVE  FreshOf(q)' /\ CountedOf(q)' /\ HeapOf(q)' /\ VerdictOf(q)'
  <2>1. CASE q # r
    <3>1. MsgOf[q] \in Msgs \ {MsgOf[r]}
      BY <1>2, <2>1, SendAssumption DEF NoResend
    <3>2. heap'[q] = heap[q] /\ table'[MsgOf[q]] = table[MsgOf[q]]
      BY <1>6, <2>1, <3>1
    <3>3. (Fresh(q)' <=> Fresh(q)) /\ Verdict(q)' = Verdict(q)
      BY <1>8, <2>1
    <3> QED BY <1>1, <3>2, <3>3 DEF IInv, FreshOf, CountedOf, HeapOf, VerdictOf
  <2>2. CASE q = r
    <3>1. FreshOf(r)' /\ CountedOf(r)'
      BY <1>1, <1>4, <1>8 DEF FreshOf, CountedOf
    <3>2. HeapOf(r)'
      BY <1>1, <1>2, <1>4, <1>6, FS_EmptySet, SendAssumption DEF HeapOf
    <3>3. VerdictOf(r)'
      BY <1>1, <1>2, <1>4, <1>8 DEF VerdictOf, Verdict, IInv
    <3> QED BY <2>2, <3>1, <3>2, <3>3
  <2> QED BY <2>1, <2>2
<1>14. InCall(r)
  BY <1>7 DEF InTableOnly
<1> QED BY <1>7, <1>9, <1>10, <1>11, <1>12, <1>13, <1>14, CallRest, TableRest DEF IInv

LEMMA InvDeleteEntry ==
  ASSUME TypeInv, IInv, NEW t \in Threads, InTable(t), DeleteEntry(t)
  PROVE  IInv'
<1>1. UNCHANGED <<rpc, next, queue, wpc, sub, off, grp, place, doneSet, failSet,
                  counted, doneCb, failCb, acked, msg2sender, heap>>
  BY TableFrame DEF DeleteEntry
<1>2. call[t].pc = "delete" /\ table' = [table EXCEPT ![call[t].msg] = NoTask]
  BY DEF DeleteEntry, At, Deleted
<1>3. /\ \A s \in Threads \ {t} : call'[s] = call[s]
      /\ call'[t].pc = "callback" /\ call'[t].op = call[t].op /\ call'[t].msg = call[t].msg
      /\ call'[t].n = call[t].n /\ call'[t].task = call[t].task
  BY GotoFacts DEF DeleteEntry
<1>4. /\ \A m \in Msgs : table'[m] \in {table[m], NoTask}
      /\ table'[call[t].msg] = NoTask
  BY <1>2 DEF TypeInv, CallOK, TypeOK, PendingTypeOK
<1>5. InTableOnly(t)
  BY <1>1, <1>3 DEF InTableOnly, InCall
<1>6. \A r \in Requests : (Fresh(r)' <=> Fresh(r)) /\ Verdict(r)' = Verdict(r)
  BY <1>1, <1>3, <1>5, TableRest DEF Fresh, Threads
<1>7. TableShape'
  BY <1>4 DEF IInv, TableShape
<1>8. Alone'
  <2>1. \A s \in Threads : call'[s].pc \in Closing =>
                             call[s].pc \in Closing /\ call'[s].task = call[s].task
    BY <1>2, <1>3 DEF Closing
  <2> QED BY <2>1 DEF IInv, Alone
<1>9. CallOf(t)'
  <2>1. RequestOf(t)' = RequestOf(t)
    BY <1>1 DEF RequestOf
  <2> QED BY <1>1, <1>2, <1>3, <2>1 DEF IInv, CallOf, Accounting, Closing
<1>10. ASSUME NEW s \in Threads
       PROVE  ClosingOf(s)'
  <2>1. CASE s = t
    BY <1>1, <1>2, <1>3, <1>4, <2>1 DEF IInv, ClosingOf, Closing, Verdict
  <2>2. CASE s # t
    <3>1. call'[s] = call[s] /\ (call[s].pc = "callback" => call[s].msg \in Msgs)
      BY <1>3, <2>2 DEF TypeInv, CallOK
    <3> QED BY <1>1, <1>4, <3>1 DEF IInv, ClosingOf, Verdict
  <2> QED BY <2>1, <2>2
<1>11. ASSUME NEW r \in Requests
       PROVE  FreshOf(r)' /\ CountedOf(r)' /\ HeapOf(r)' /\ VerdictOf(r)'
  <2>1. MsgOf[r] \in Msgs
    BY SendAssumption
  <2> QED BY <1>1, <1>4, <1>6, <2>1 DEF IInv, FreshOf, CountedOf, HeapOf, VerdictOf
<1>12. InCall(t)
  BY <1>5 DEF InTableOnly
<1> QED BY <1>5, <1>7, <1>8, <1>9, <1>10, <1>11, <1>12, CallRest, TableRest DEF IInv

\* A call that returns, or goes on to delete, has given away what it reported.
LEMMA Cleared ==
  ASSUME TypeInv, IInv, NEW t \in Threads, call[t].pc \in {"lookup", "addPending"}, Clear(t),
         UNCHANGED <<dispatchVars, workerVars, place>>,
         \A s \in Threads \ {t} : call'[s] = call[s],
         call'[t].op = call[t].op \/ call'[t] = NoCall
  PROVE  /\ InCall(t)
         /\ call[t].op \in {"done", "fail"}
         /\ call[t].op = "done" => doneSet'[t] = {} /\ failSet' = failSet
         /\ call[t].op = "fail" => failSet'[t] = {} /\ doneSet' = doneSet
         /\ \A w \in Workers : WorkerOf(w)'
         /\ t \in Workers => Held(t)' \cap Reported(t) = {}
         /\ \A r \in Requests : Fresh(r)' <=> Fresh(r)
<1>1. call[t].op \in {"done", "fail"}
  BY CallTypes DEF CallType, IInv, CallOf
<1>2. /\ call[t].op = "done" => doneSet'[t] = {} /\ failSet' = failSet
      /\ call[t].op = "fail" => failSet'[t] = {} /\ doneSet' = doneSet
      /\ \A s \in Threads \ {t} : doneSet'[s] = doneSet[s] /\ failSet'[s] = failSet[s]
  BY <1>1 DEF Clear, TypeInv, TypeOK
<1>3. InCall(t)
  BY <1>1, <1>2 DEF InCall, dispatchVars, workerVars
<1>4. ASSUME NEW w \in Workers \ {t}
      PROVE  WorkerOf(w)'
  <2>1. w \in Threads \ {t}
    BY DEF Threads
  <2>2. /\ call'[w] = call[w] /\ doneSet'[w] = doneSet[w] /\ failSet'[w] = failSet[w]
        /\ UNCHANGED <<wpc, sub, off, grp>>
    BY <2>1, <1>2 DEF workerVars
  <2>3. Held(w)' = Held(w) /\ (Busy(w)' <=> Busy(w))
    BY <2>2 DEF Held, Busy
  <2> QED BY <2>2, <2>3 DEF IInv, WorkerOf
<1>5. t \in Workers => WorkerOf(t)' /\ Held(t)' \cap Reported(t) = {}
  <2> SUFFICES ASSUME t \in Workers PROVE WorkerOf(t)' /\ Held(t)' \cap Reported(t) = {}
    OBVIOUS
  <2>1. UNCHANGED <<wpc, sub, off, grp>> /\ wpc[t] = "groups" /\ off[t] = {} /\ t \notin Requests
    BY <1>1, SendAssumption DEF workerVars, IInv, CallOf, WorkerOf
  <2>2. /\ doneSet'[t] \subseteq doneSet[t] /\ failSet'[t] \subseteq failSet[t]
        /\ doneSet'[t] = {}
    BY <1>1, <1>2, <2>1 DEF IInv, WorkerOf
  <2>3. Held(t)' \subseteq Held(t)
    BY <1>3, CallRest
  <2>4. /\ DOMAIN grp[t] \cap (doneSet[t] \cup failSet[t]) = {}
        /\ doneSet[t] \cap failSet[t] = {}
        /\ Held(t) \subseteq Batch(sub[t][1], sub[t][2])
    BY <2>1 DEF IInv, WorkerOf, Busy
  <2>5. WorkerOf(t)'
    <3>1. Held(t)' \subseteq Batch(sub'[t][1], sub'[t][2])
      BY <2>1, <2>3, <2>4
    <3> QED BY <2>1, <2>2, <2>4, <3>1 DEF WorkerOf
  <2>6. Held(t)' = DOMAIN grp[t] \cup failSet'[t]
    BY <2>1, <2>2 DEF Held
  <2>7. Held(t)' \cap Reported(t) = {}
    BY <1>1, <1>2, <2>2, <2>4, <2>6 DEF Reported
  <2> QED BY <2>5, <2>7
<1>6. \A r \in Requests : Fresh(r)' <=> Fresh(r)
  BY <1>1 DEF Fresh, NoCall, dispatchVars, Threads
<1> QED BY <1>1, <1>2, <1>3, <1>4, <1>5, <1>6

LEMMA InvMiss ==
  ASSUME TypeInv, IInv, NEW t \in Threads, Miss(t)
  PROVE  IInv'
<1>1. /\ call[t].pc = "lookup" /\ Clear(t)
      /\ UNCHANGED <<table, heap, dispatchVars, workerVars, historyVars>>
  BY DEF Miss, NotFound, At
<1>2. call'[t] = NoCall /\ \A s \in Threads \ {t} : call'[s] = call[s]
  BY CallTypes DEF Miss, NotFound
<1>3. /\ InCall(t)
      /\ \A w \in Workers : WorkerOf(w)'
      /\ \A r \in Requests : Fresh(r)' <=> Fresh(r)
  BY <1>1, <1>2, Cleared DEF historyVars
<1>4. /\ UNCHANGED <<table, heap, counted, doneCb, failCb, acked, msg2sender, next, place>>
      /\ \A s \in Threads : doneSet'[s] \subseteq doneSet[s] /\ failSet'[s] \subseteq failSet[s]
  BY <1>1, <1>3 DEF InCall, dispatchVars, historyVars
<1>5. TableShape'
  BY <1>4 DEF IInv, TableShape
<1>6. Alone'
  <2>1. \A s \in Threads : call'[s].pc \in Closing => call'[s] = call[s]
    BY <1>2 DEF Closing, NoCall
  <2> QED BY <2>1 DEF IInv, Alone
<1>7. CallOf(t)'
  BY <1>2 DEF CallOf, NoCall, Accounting, Closing
<1>8. ASSUME NEW s \in Threads
      PROVE  ClosingOf(s)'
  <2>1. CASE s = t
    BY <1>2, <2>1 DEF ClosingOf, Closing, NoCall
  <2>2. CASE s # t
    BY <1>2, <1>4, <2>2 DEF IInv, ClosingOf, Verdict
  <2> QED BY <2>1, <2>2
<1>9. ASSUME NEW w \in Workers
      PROVE  ApartOf(w)'
  <2>1. Held(w)' \subseteq Held(w) /\ (Busy(w)' <=> Busy(w)) /\ sub' = sub
    BY <1>3, CallRest DEF InCall
  <2>2. Busy(w) => sub[w][1] \in Threads
    BY BusyFacts DEF Threads
  <2> QED BY <1>4, <2>1, <2>2 DEF IInv, ApartOf
<1>10. ASSUME NEW r \in Requests
       PROVE  FreshOf(r)' /\ CountOf(r)' /\ CountedOf(r)' /\ HeapOf(r)' /\ VerdictOf(r)'
  <2>1. failSet'[r] \subseteq failSet[r]
    BY <1>4 DEF Threads
  <2>2. CountOf(r)'
    BY <1>3, <1>4, <2>1, CallRest DEF IInv, CountOf
  <2>3. FreshOf(r)' /\ CountedOf(r)' /\ HeapOf(r)' /\ VerdictOf(r)'
    BY <1>3, <1>4, <2>1 DEF IInv, FreshOf, CountedOf, HeapOf, VerdictOf, Verdict
  <2> QED BY <2>2, <2>3
<1> QED BY <1>3, <1>5, <1>6, <1>7, <1>8, <1>9, <1>10, CallRest DEF IInv

LEMMA InvAccount ==
  ASSUME TypeInv, IInv, NEW t \in Threads, Account(t)
  PROVE  IInv'
<1>0. PICK k, R : k = call[t].task /\ R = Reported(t)
  OBVIOUS
<1>1. /\ call[t].pc = "addPending" /\ Clear(t)
      /\ UNCHANGED <<table, dispatchVars, workerVars, place, doneCb, failCb, acked>>
      /\ counted' = [counted EXCEPT ![k] = counted[k] \cup R]
      /\ heap' = [heap EXCEPT ![k].pending = heap[k].pending - call[t].n]
  BY <1>0 DEF Account, AddPending, At
<1>2. /\ k = RequestOf(t) /\ k \in Requests /\ ~Fresh(k) /\ ~Verdict(k)
      /\ call[t].op \in {"done", "fail"} /\ call[t].n = Cardinality(R)
      /\ R \subseteq Targets(k) /\ R \cap counted[k] = {}
      /\ \A s \in Threads : call[s].pc \in Closing => call[s].task # k
  BY <1>0, <1>1, NotYet DEF Accounting
<1>3. /\ \A s \in Threads \ {t} : call'[s] = call[s]
      /\ \/ /\ Last(heap[k].pending - call[t].n)
            /\ call'[t].pc = "deleteLock" /\ call'[t].op = call[t].op
            /\ call'[t].msg = call[t].msg /\ call'[t].task = k
         \/ call'[t] = NoCall
  <2>1. (Goto(t, "deleteLock") /\ Last(heap[k].pending - call[t].n)) \/ Exit(t)
    BY <1>0 DEF Account, AddPending
  <2> QED BY <1>0, <2>1, CallTypes, GotoFacts
<1>4. /\ InCall(t)
      /\ call[t].op = "done" => doneSet'[t] = {} /\ failSet' = failSet
      /\ call[t].op = "fail" => failSet'[t] = {} /\ doneSet' = doneSet
      /\ \A w \in Workers : WorkerOf(w)'
      /\ t \in Workers => Held(t)' \cap R = {}
      /\ \A r \in Requests : Fresh(r)' <=> Fresh(r)
  BY <1>0, <1>1, <1>3, Cleared
<1>5. /\ UNCHANGED <<table, doneCb, failCb, acked, msg2sender, next, place, sub>>
      /\ \A s \in Threads : doneSet'[s] \subseteq doneSet[s] /\ failSet'[s] \subseteq failSet[s]
  BY <1>1, <1>4 DEF InCall, dispatchVars
<1>6. /\ counted'[k] = counted[k] \cup R
      /\ \A q \in Requests \ {k} : counted'[q] = counted[q] /\ heap'[q] = heap[q]
      /\ heap'[k].pending = heap[k].pending - Cardinality(R)
      /\ heap'[k].failed = heap[k].failed
  <2>1. heap[k] \in Counters /\ heap \in [Requests -> Counters]
    BY <1>2 DEF TypeInv, TypeOK, PendingTypeOK
  <2>2. /\ heap'[k] = [heap[k] EXCEPT !.pending = heap[k].pending - call[t].n]
        /\ \A q \in Requests \ {k} : heap'[q] = heap[q]
    BY <1>1, <1>2, <2>1
  <2> QED BY <1>1, <1>2, <2>1, <2>2 DEF TypeInv, TypeOK, Counters
<1>7. /\ counted[k] \subseteq Targets(k) /\ counted'[k] \subseteq Targets(k)
      /\ Cardinality(counted'[k]) = Cardinality(counted[k]) + Cardinality(R)
      /\ Cardinality(counted[k]) \in Nat /\ Cardinality(R) \in Nat
  <2>1. counted[k] \subseteq Targets(k)
    BY <1>2 DEF IInv, CountOf
  <2>2. IsFiniteSet(Targets(k))
    BY <1>2, TargetsFinite
  <2>3. IsFiniteSet(counted[k]) /\ IsFiniteSet(R)
    BY <1>2, <2>1, <2>2, FS_Subset
  <2>4. counted[k] \cap R = {}
    BY <1>2
  <2>5. Cardinality(counted[k] \cup R) =
          Cardinality(counted[k]) + Cardinality(R) - Cardinality(counted[k] \cap R)
    BY <2>3, FS_Union
  <2>6. Cardinality(counted[k] \cap R) = 0
    BY <2>4, FS_EmptySet
  <2>7. Cardinality(counted[k]) \in Nat /\ Cardinality(R) \in Nat
    BY <2>3, FS_CardinalityType
  <2> QED BY <1>2, <1>6, <2>1, <2>5, <2>6, <2>7
<1>8. heap[k].pending = Size[k] - Cardinality(counted[k])
  BY <1>2 DEF IInv, HeapOf
\* The call that reaches zero has accounted for the last target.
<1>9. call'[t].pc \in Closing => counted'[k] = Targets(k)
  <2> SUFFICES ASSUME call'[t].pc \in Closing PROVE counted'[k] = Targets(k)
    OBVIOUS
  <2>1. heap[k].pending - call[t].n <= 0
    BY <1>3 DEF Last, NoCall, Closing
  <2>2. Size[k] \in Nat
    BY <1>2, SendAssumption
  <2>3. Cardinality(counted'[k]) >= Size[k]
    BY <1>2, <1>7, <1>8, <2>1, <2>2
  <2>4. IsFiniteSet(Targets(k)) /\ Cardinality(Targets(k)) = Size[k]
    BY <1>2, TargetsFinite
  <2>5. PICK C \in SUBSET Targets(k) : C = counted'[k]
    BY <1>7
  <2>6. Cardinality(C) <= Cardinality(Targets(k)) /\ Cardinality(C) \in Nat
    BY <2>4, FS_Subset, FS_CardinalityType
  <2>7. Cardinality(C) = Cardinality(Targets(k))
    BY <2>2, <2>3, <2>4, <2>5, <2>6
  <2> QED BY <2>4, <2>5, <2>7, FS_Subset
<1>10. TableShape'
  BY <1>5 DEF IInv, TableShape
<1>11. Alone'
  <2>1. \A s \in Threads : s # t /\ call'[s].pc \in Closing =>
                             call'[s] = call[s] /\ call'[s].task # k
    BY <1>2, <1>3
  <2>2. call'[t].pc \in Closing => call'[t].task = k
    BY <1>3 DEF NoCall, Closing
  <2> QED BY <2>1, <2>2 DEF IInv, Alone
<1>12. CallOf(t)'
  <2>1. CASE call'[t] = NoCall
    BY <2>1 DEF CallOf, NoCall, Accounting, Closing
  <2>2. CASE call'[t] # NoCall
    <3>1. RequestOf(t)' = RequestOf(t) /\ rpc' = rpc /\ wpc' = wpc
      BY <1>4, CallRest DEF InCall
    <3> QED BY <1>1, <1>2, <1>3, <2>2, <3>1 DEF IInv, CallOf, Accounting, Closing
  <2> QED BY <2>1, <2>2
<1>13. ASSUME NEW s \in Threads
       PROVE  ClosingOf(s)'
  <2>1. CASE s = t
    <3>1. CASE call'[t] = NoCall
      BY <2>1, <3>1 DEF ClosingOf, Closing, NoCall
    <3>2. CASE call'[t] # NoCall
      <4>1. /\ call'[t].pc = "deleteLock" /\ call'[t].op = call[t].op /\ call'[t].task = k
            /\ call'[t].pc \in Closing
        BY <1>3, <3>2 DEF Closing
      <4>2. call[t].op = "fail" => heap'[k].failed > 0
        BY <1>0, <1>1, <1>6 DEF IInv, ClosingOf
      <4>3. ~Verdict(k)'
        BY <1>2, <1>5 DEF Verdict
      <4> QED BY <1>4, <1>9, <2>1, <4>1, <4>2, <4>3 DEF ClosingOf, Verdict
    <3> QED BY <3>1, <3>2
  <2>2. CASE s # t
    <3>1. call'[s] = call[s] /\ doneSet'[s] \subseteq doneSet[s]
      BY <1>3, <1>5, <2>2
    <3>2. call[s].pc \in Closing => call[s].task \in Requests \ {k}
      BY <1>2 DEF TypeInv, CallOK, Closing
    <3>3. call[s].pc = "addPending" => call[s].task \in Requests
      BY DEF TypeInv, CallOK
    <3>4. call[s].pc \in {"addPending"} \cup Closing /\ call[s].op = "fail" =>
            heap'[call[s].task].failed > 0
      BY <1>6, <3>2, <3>3 DEF IInv, ClosingOf
    <3>5. call[s].pc \in Closing => counted'[call[s].task] = Targets(call[s].task)
      BY <1>6, <3>2 DEF IInv, ClosingOf
    <3> QED BY <1>5, <3>1, <3>4, <3>5 DEF IInv, ClosingOf, Verdict
  <2> QED BY <2>1, <2>2
<1>14. ASSUME NEW w \in Workers
       PROVE  ApartOf(w)'
  <2>1. Held(w)' \subseteq Held(w) /\ (Busy(w)' <=> Busy(w)) /\ sub' = sub
    BY <1>4, <1>5, CallRest
  <2> SUFFICES ASSUME Busy(w) PROVE ApartOf(w)'
    BY <2>1 DEF ApartOf
  <2>2. sub[w][1] \in Requests /\ sub[w][1] \in Threads
    BY BusyFacts DEF Threads
  <2>3. \A u \in failSet'[sub[w][1]] : Token(sub[w][1], u) # sub[w]
    BY <1>5, <2>2 DEF IInv, ApartOf
  <2>4. counted'[sub[w][1]] \cap Held(w)' = {}
    <3>1. CASE sub[w][1] # k
      BY <1>6, <2>1, <2>2, <3>1 DEF IInv, ApartOf
    <3>2. CASE sub[w][1] = k /\ w = t
      BY <1>4, <1>6, <2>1, <3>2 DEF IInv, ApartOf
    <3>3. CASE sub[w][1] = k /\ w # t
      <4>1. R \cap Held(w) = {}
        <5>1. CASE t \in Workers
          <6>1. Busy(t) /\ sub[t][1] = k /\ R \subseteq Held(t)
            BY <1>0, <1>2, <5>1, CallFacts, BusyFacts
          <6> QED BY <3>3, <5>1, <6>1, HeldDisjoint
        <5>2. CASE t \in Requests
          <6>1. k = t /\ R = failSet[k]
            BY <1>0, <1>2, <5>2 DEF RequestOf, Reported, IInv, CallOf
          <6> QED BY <3>3, <6>1, BusyFacts
        <5> QED BY <5>1, <5>2 DEF Threads
      <4> QED BY <1>6, <2>1, <3>3, <4>1 DEF IInv, ApartOf
    <3> QED BY <3>1, <3>2, <3>3
  <2> QED BY <2>1, <2>3, <2>4 DEF ApartOf
<1>15. ASSUME NEW r \in Requests
       PROVE  FreshOf(r)' /\ CountOf(r)' /\ CountedOf(r)' /\ HeapOf(r)' /\ VerdictOf(r)'
  <2>1. failSet'[r] \subseteq failSet[r]
    BY <1>5 DEF Threads
  <2>2. \A y : InQueue(y)' <=> InQueue(y)
    BY <1>4, CallRest
  <2>3. CASE r # k
    <3>1. CountOf(r)'
      BY <1>5, <1>6, <2>1, <2>2, <2>3 DEF IInv, CountOf
    <3> QED BY <1>4, <1>5, <1>6, <2>1, <2>3, <3>1
             DEF IInv, FreshOf, CountedOf, HeapOf, VerdictOf, Verdict
  <2>4. CASE r = k
    <3>1. FreshOf(k)'
      BY <1>2, <1>4 DEF FreshOf
    <3>2. CountOf(k)'
      <4>1. \A u \in R : /\ Token(k, u)[2] < next[k] /\ ~InQueue(Token(k, u))
                         /\ u \notin failSet'[k]
        <5>1. CASE t \in Workers
          <6>1. Busy(t) /\ sub[t][1] = k /\ R \subseteq Held(t)
            BY <1>0, <1>2, <5>1, CallFacts, BusyFacts
          <6>2. \A u \in R : Token(k, u) = sub[t] /\ u \notin failSet[k]
            BY <5>1, <6>1, BusyFacts
          <6> QED BY <2>1, <2>4, <5>1, <6>1, <6>2 DEF IInv, TokenShape
        <5>2. CASE t \in Requests
          <6>1. k = t /\ R = failSet[k] /\ failSet'[k] = {}
            BY <1>0, <1>2, <1>4, <5>2 DEF RequestOf, Reported, IInv, CallOf
          <6> QED BY <1>2, <6>1 DEF IInv, CountOf
        <5> QED BY <5>1, <5>2 DEF Threads
      <4> QED BY <1>2, <1>5, <1>6, <1>7, <2>1, <2>2, <2>4, <4>1 DEF IInv, CountOf
    <3>3. CountedOf(k)'
      <4>1. CASE call[t].op = "done"
        <5>1. t \in Workers /\ R = doneSet[t] /\ sub[t][1] = k
          <6>1. t \in Workers
            BY <4>1 DEF IInv, CallOf, Threads
          <6> QED BY <1>0, <1>2, <4>1, <6>1, SendAssumption DEF Reported, RequestOf
        <5>2. \A u \in R : place[k][u] \in Handled
          BY <5>1 DEF IInv, DoneOf
        <5> QED BY <1>2, <1>5, <1>6, <5>2 DEF IInv, CountedOf
      <4>2. CASE call[t].op = "fail"
        <5>1. \A u \in R : place[k][u] \in Lost
          BY <1>0, <1>2, <4>2 DEF IInv, FailOf, Reported
        <5>2. heap[k].failed > 0
          BY <1>0, <1>1, <4>2 DEF IInv, ClosingOf
        <5> QED BY <1>2, <1>5, <1>6, <5>1, <5>2 DEF IInv, CountedOf
      <4> QED BY <1>2, <4>1, <4>2
    <3>4. HeapOf(k)'
      <4>1. heap'[k].pending = Size[k] - Cardinality(counted'[k])
        BY <1>2, <1>6, <1>7, <1>8, SendAssumption
      <4> QED BY <1>2, <1>5, <1>6, <4>1 DEF IInv, HeapOf
    <3>5. VerdictOf(k)'
      <4>1. doneCb[k] = 0 /\ failCb[k] = 0
        BY <1>2 DEF Verdict, TypeInv, TypeOK
      <4> QED BY <1>2, <1>5, <4>1 DEF IInv, VerdictOf, Verdict
    <3> QED BY <2>4, <3>1, <3>2, <3>3, <3>4, <3>5
  <2> QED BY <2>3, <2>4
<1> QED BY <1>4, <1>10, <1>11, <1>12, <1>13, <1>14, <1>15, CallRest DEF IInv

\* The verdict: the callback's goroutine is the last one of its request.
LEMMA InvVerdict ==
  ASSUME NoResend, TypeInv, IInv, NEW t \in Threads, Ack(t) \/ Fail(t)
  PROVE  IInv'
<1>0. PICK k, m : k = call[t].task /\ m = call[t].msg
  OBVIOUS
<1>1. /\ call[t].pc = "callback" /\ Exit(t)
      /\ UNCHANGED <<table, heap, rpc, next, queue, wpc, sub, off, grp, doneSet, failSet,
                     place, counted>>
      /\ msg2sender' = msg2sender \ {m}
  <2>1. CASE Ack(t)
    BY <1>0, <2>1 DEF Ack, Return, At, workerVars
  <2>2. CASE Fail(t)
    BY <1>0, <2>2 DEF Fail, Return, At, workerVars
  <2> QED BY <2>1, <2>2
<1>2. call'[t] = NoCall /\ \A s \in Threads \ {t} : call'[s] = call[s]
  BY <1>1, CallTypes
<1>3. /\ k = RequestOf(t) /\ k \in Requests /\ ~Fresh(k) /\ m = MsgOf[k]
      /\ call[t].op \in {"done", "fail"}
      /\ counted[k] = Targets(k) /\ doneCb[k] = 0 /\ failCb[k] = 0
      /\ table[m] = NoTask
      /\ call[t].op = "fail" => heap[k].failed > 0
      /\ call[t].op = "done" => doneSet[t] = {}
      /\ heap[k].failed \in Nat
  <2>1. call[t].op \in {"done", "fail"}
    BY <1>1, CallTypes DEF CallType, IInv, CallOf
  <2>2. k = RequestOf(t)
    BY <1>0, <1>1 DEF IInv, CallOf, Closing
  <2>3. counted[k] = Targets(k) /\ ~Verdict(k) /\ table[m] = NoTask
    BY <1>0, <1>1 DEF IInv, ClosingOf, Closing
  <2>4. call[t].op = "fail" => heap[k].failed > 0
    BY <1>0, <1>1 DEF IInv, ClosingOf, Closing
  <2>5. call[t].op = "done" => doneSet[t] = {}
    BY <1>1 DEF IInv, ClosingOf, Closing
  <2>6. k \in Requests /\ ~Fresh(k) /\ m = MsgOf[k]
    BY <1>0, <2>1, <2>2, CallFacts
  <2>7. doneCb[k] = 0 /\ failCb[k] = 0
    BY <2>3, <2>6 DEF Verdict, TypeInv, TypeOK
  <2>8. heap[k].failed \in Nat
    BY <2>6 DEF TypeInv, TypeOK, PendingTypeOK, Counters
  <2> QED BY <2>1, <2>2, <2>3, <2>4, <2>5, <2>6, <2>7, <2>8
\* Exactly one callback, the right one, and the ACK only with doneFunc.
<1>4. /\ \/ heap[k].failed = 0 /\ doneCb'[k] = 1 /\ failCb'[k] = 0
         \/ heap[k].failed > 0 /\ doneCb'[k] = 0 /\ failCb'[k] = 1
      /\ \A q \in Requests \ {k} : doneCb'[q] = doneCb[q] /\ failCb'[q] = failCb[q]
      /\ acked' = acked \/ (acked' = acked \cup {m} /\ doneCb'[k] = 1)
  <2>1. doneCb \in [Requests -> Nat] /\ failCb \in [Requests -> Nat]
    BY DEF TypeInv, TypeOK
  <2>2. CASE Ack(t)
    <3>1. heap[k].failed = 0
      BY <1>0, <2>2 DEF Ack, CallsDone
    <3>2. doneCb' = [doneCb EXCEPT ![k] = doneCb[k] + 1] /\ failCb' = failCb
      BY <1>0, <2>2 DEF Ack
    <3>3. acked' = acked \cup {m} \/ acked' = acked
      BY <1>0, <2>2 DEF Ack
    <3>4. doneCb'[k] = 1
      BY <1>3, <2>1, <3>2
    <3> QED BY <1>3, <2>1, <3>1, <3>2, <3>3, <3>4
  <2>3. CASE Fail(t)
    <3>1. heap[k].failed > 0
      BY <1>0, <1>3, <2>3 DEF Fail, CallsDone
    <3>2. failCb' = [failCb EXCEPT ![k] = failCb[k] + 1] /\ UNCHANGED <<doneCb, acked>>
      BY <1>0, <2>3 DEF Fail
    <3>3. failCb'[k] = 1
      BY <1>3, <2>1, <3>2
    <3> QED BY <1>3, <2>1, <3>1, <3>2, <3>3
  <2> QED BY <2>2, <2>3
<1>5. InCall(t)
  BY <1>1, <1>2 DEF InCall
<1>6. \A r \in Requests : Fresh(r)' <=> Fresh(r)
  BY <1>1, <1>2, <1>3 DEF Fresh, NoCall, Threads
<1>7. TableShape'
  BY <1>1 DEF IInv, TableShape
<1>8. Alone'
  <2>1. \A s \in Threads : call'[s].pc \in Closing => call'[s] = call[s]
    BY <1>2 DEF Closing, NoCall
  <2> QED BY <2>1 DEF IInv, Alone
<1>9. CallOf(t)'
  BY <1>2 DEF CallOf, NoCall, Accounting, Closing
<1>10. ASSUME NEW s \in Threads
       PROVE  ClosingOf(s)'
  <2>1. CASE s = t
    BY <1>2, <2>1 DEF ClosingOf, Closing, NoCall
  <2>2. CASE s # t
    <3>1. call'[s] = call[s]
      BY <1>2, <2>2
    <3>2. call[s].pc \in Closing => call[s].task \in Requests \ {k}
      BY <1>0, <1>1, <2>2 DEF IInv, Alone, Closing, TypeInv, CallOK
    <3>3. call[s].pc \in Closing => /\ doneCb'[call[s].task] = doneCb[call[s].task]
                                    /\ failCb'[call[s].task] = failCb[call[s].task]
      BY <1>4, <3>2
    <3> QED BY <1>1, <3>1, <3>3 DEF IInv, ClosingOf, Verdict
  <2> QED BY <2>1, <2>2
<1>11. ASSUME NEW w \in Workers
       PROVE  WorkerOf(w)' /\ ApartOf(w)'
  <2>1. Held(w)' = Held(w) /\ (Busy(w)' <=> Busy(w))
    BY <1>1 DEF Held, Busy
  <2>2. ApartOf(w)'
    BY <1>1, <2>1 DEF IInv, ApartOf
  <2>3. CASE w = t
    <3>1. wpc[t] = "groups" /\ call[t].op \in {"done", "fail"} /\ call'[t].op = "none"
      BY <1>2, <1>3, <2>3 DEF IInv, CallOf, NoCall
    <3>2. doneSet[t] = {}
      BY <1>3, <2>3, <3>1 DEF IInv, WorkerOf
    <3> QED BY <1>1, <2>1, <2>2, <2>3, <3>1, <3>2 DEF IInv, WorkerOf
  <2>4. CASE w # t
    <3>1. call'[w] = call[w]
      BY <1>2, <2>4 DEF Threads
    <3> QED BY <1>1, <2>1, <2>2, <3>1 DEF IInv, WorkerOf
  <2> QED BY <2>3, <2>4
<1>12. ASSUME NEW r \in Requests
       PROVE  FreshOf(r)' /\ CountOf(r)' /\ CountedOf(r)' /\ HeapOf(r)' /\ VerdictOf(r)'
  <2>1. CountOf(r)' /\ CountedOf(r)' /\ HeapOf(r)'
    BY <1>1, <1>6 DEF IInv, CountOf, CountedOf, HeapOf, InQueue
  <2>2. CASE r = k
    <3>1. FreshOf(k)'
      BY <1>3, <1>6 DEF FreshOf
    <3>2. VerdictOf(k)'
      BY <1>1, <1>3, <1>4 DEF VerdictOf, IInv, Verdict
    <3> QED BY <2>1, <2>2, <3>1, <3>2
  <2>3. CASE r # k
    <3>1. doneCb'[r] = doneCb[r] /\ failCb'[r] = failCb[r] /\ MsgOf[r] # m
      BY <1>3, <1>4, <2>3 DEF NoResend
    <3>2. MsgOf[r] \in acked' <=> MsgOf[r] \in acked
      BY <1>4, <3>1
    <3>3. FreshOf(r)'
      BY <1>1, <1>6, <3>1 DEF IInv, FreshOf
    <3>4. VerdictOf(r)'
      BY <1>1, <3>1, <3>2 DEF IInv, VerdictOf, Verdict
    <3> QED BY <2>1, <3>3, <3>4
  <2> QED BY <2>2, <2>3
<1> QED BY <1>5, <1>7, <1>8, <1>9, <1>10, <1>11, <1>12, CallRest DEF IInv

LEMMA InvStutter == IInv /\ UNCHANGED vars => IInv'
<1> SUFFICES ASSUME IInv, UNCHANGED vars PROVE IInv'
  OBVIOUS
<1> USE DEF vars, taskVars, dispatchVars, workerVars, historyVars
<1>1. TableShape' /\ TokenShape' /\ Alone'
  BY DEF IInv, TableShape, TokenShape, Alone, InQueue, Busy
<1>2. ASSUME NEW t \in Threads
      PROVE  CallOf(t)' /\ FailOf(t)' /\ ClosingOf(t)'
  BY DEF IInv, CallOf, FailOf, ClosingOf, RequestOf, Reported, Verdict
<1>3. ASSUME NEW w \in Workers
      PROVE  WorkerOf(w)' /\ ApartOf(w)' /\ DoneOf(w)' /\ WaitingOf(w)'
  <2>1. Held(w)' = Held(w) /\ (Busy(w)' <=> Busy(w))
    BY DEF Held, Busy
  <2> QED BY <2>1 DEF IInv, WorkerOf, ApartOf, DoneOf, WaitingOf
<1>4. ASSUME NEW r \in Requests
      PROVE  /\ FreshOf(r)' /\ CountOf(r)' /\ CountedOf(r)'
             /\ HeapOf(r)' /\ VerdictOf(r)' /\ OpenOf(r)'
  <2>1. Fresh(r)' <=> Fresh(r)
    BY DEF Fresh
  <2>2. FreshOf(r)' /\ CountOf(r)' /\ CountedOf(r)'
    BY <2>1 DEF IInv, FreshOf, CountOf, CountedOf, InQueue
  <2>3. HeapOf(r)' /\ VerdictOf(r)' /\ OpenOf(r)'
    BY <2>1 DEF IInv, HeapOf, VerdictOf, OpenOf, InQueue, Verdict
  <2> QED BY <2>2, <2>3
<1> QED BY <1>1, <1>2, <1>3, <1>4 DEF IInv

LEMMA InvNext ==
  ASSUME NoResend, TypeInv, IInv, [Next]_vars
  PROVE  IInv'
<1>1. ASSUME NEW r \in Requests, DispatchStep(r)
      PROVE  IInv'
  BY <1>1, InvStart, InvEnqueue, InvDrop, InvEndLoop DEF DispatchStep
<1>2. ASSUME NEW w \in Workers, WorkerStep(w)
      PROVE  IInv'
  BY <1>2, InvTake, InvStoreOffline, InvLocalFull, InvEndOffline, InvSendGroup,
     InvFallBack, InvReportFailed, InvFinish DEF WorkerStep
<1>3. ASSUME NEW t \in Threads, CallStep(t)
      PROVE  IInv'
  <2>1. ASSUME InTable(t) PROVE IInv'
    BY <2>1, InvLocks, InvInitStore, InvFound, InvAddFailed, InvDeleteEntry DEF InTable
  <2> QED BY <1>3, <2>1, InvMiss, InvAccount, InvVerdict DEF CallStep
<1>4. CASE UNCHANGED vars
  BY <1>4, InvStutter
<1> QED BY <1>1, <1>2, <1>3, <1>4 DEF Next
--------------------------------------------------------------------------------
(* The theorems.  NoResend is a property of the constants: it says that no two  *)
(* requests carry the same message id, that is, that ResendHandler is not used. *)

LEMMA Inductive == NoResend => (Spec => [](TypeInv /\ IInv))
<1> SUFFICES ASSUME NoResend PROVE Spec => [](TypeInv /\ IInv)
  OBVIOUS
<1>1. Init => TypeInv /\ IInv
  BY TypeInit, InvInit
<1>2. TypeInv /\ [Next]_vars => TypeInv'
  BY TypeDispatch, TypeWorker, TypeCall, TypeStutter DEF Next
<1>3. TypeInv /\ IInv /\ [Next]_vars => (TypeInv /\ IInv)'
  BY <1>2, InvNext
<1> QED BY <1>1, <1>3, PTL DEF Spec

\* The invariant the runs check on a small instance holds of every instance in
\* which nobody resends.
THEOREM Invariant == NoResend => (Spec => []IInv)
BY Inductive, PTL

\* An ACK says that every target is on a gateway's stream or stored for later.
THEOREM AckIsSound == NoResend => (Spec => []AckSound)
<1>1. ASSUME TypeInv, IInv, NEW r \in Requests, doneCb[r] > 0, NEW u \in Targets(r)
      PROVE  place[r][u] \in Handled
  <2>1. counted[r] = Targets(r) /\ heap[r].failed = 0
    <3>1. doneCb[r] \in Nat /\ failCb[r] \in Nat
      BY <1>1 DEF TypeInv, TypeOK
    <3> QED BY <1>1, <3>1 DEF IInv, VerdictOf, Verdict
  <2> QED BY <1>1, <2>1 DEF IInv, CountedOf
<1>2. TypeInv /\ IInv => AckSound
  BY <1>1 DEF AckSound
<1> QED BY <1>2, Inductive, PTL

\* A message is only given up when a target was lost and none is in flight.
THEOREM FailIsSound == NoResend => (Spec => []FailSound)
<1>1. ASSUME TypeInv, IInv, NEW r \in Requests, failCb[r] > 0
      PROVE  /\ \E u \in Targets(r) : place[r][u] \in Lost
             /\ \A u \in Targets(r) : place[r][u] # "pending"
  <2>1. counted[r] = Targets(r) /\ heap[r].failed > 0 /\ ~Fresh(r)
    BY <1>1 DEF IInv, VerdictOf, FreshOf, Verdict, TypeInv, TypeOK
  <2>2. \E u \in Targets(r) : place[r][u] \in Lost
    BY <1>1, <2>1 DEF IInv, HeapOf
  <2>3. \A u \in Targets(r) : place[r][u] \in Handled \cup Lost
    BY <1>1, <2>1 DEF IInv, CountedOf
  <2> QED BY <2>2, <2>3 DEF Handled, Lost
<1>2. TypeInv /\ IInv => FailSound
  BY <1>1 DEF FailSound
<1> QED BY <1>2, Inductive, PTL

\* However many goroutines race for the last target, one callback runs, once.
THEOREM VerdictIsOnce == NoResend => (Spec => []OneVerdict)
<1>1. ASSUME TypeInv, IInv, NEW r \in Requests
      PROVE  /\ doneCb[r] + failCb[r] <= 1
             /\ failCb[r] > 0 => MsgOf[r] \notin acked
             /\ doneCb[r] + failCb[r] > 0 => /\ table[MsgOf[r]] = NoTask
                                             /\ MsgOf[r] \notin msg2sender
  <2>1. doneCb[r] \in Nat /\ failCb[r] \in Nat
    BY <1>1 DEF TypeInv, TypeOK
  <2> QED BY <1>1, <2>1 DEF IInv, VerdictOf, Verdict
<1>2. TypeInv /\ IInv => OneVerdict
  BY <1>1 DEF OneVerdict
<1> QED BY <1>2, Inductive, PTL

\* No target is counted twice: the counter never passes zero.
THEOREM CounterIsExact == NoResend => (Spec => []CounterExact)
<1>1. IInv => CounterExact
  BY DEF IInv, HeapOf, Fresh, CounterExact
<1> QED BY <1>1, Inductive, PTL

--------------------------------------------------------------------------------
(* Every step of the service is a step of AckPromise, or none. *)

LEMMA PromiseInit == Init => Promise!PromiseInit
BY SendAssumption DEF Init, Promise!PromiseInit, Fate, Told, Targets, Users

\* Fates of request r are decided, nothing else is.
Decides(r) ==
  /\ UNCHANGED <<doneCb, failCb>>
  /\ \A q \in Requests : \A u \in Targets(q) :
       place'[q][u] # place[q][u] => /\ q = r
                                     /\ place[q][u] = "pending"
                                     /\ place'[q][u] \in Handled \cup Lost

LEMMA DecidesSettles ==
  ASSUME NEW r \in Requests, Decides(r)
  PROVE  Promise!Settle(r)
<1> DEFINE settled == {u \in Targets(r) : place'[r][u] # place[r][u]}
           how == [u \in settled |-> IF place'[r][u] \in Handled THEN "handled" ELSE "lost"]
<1>1. settled \in SUBSET (1 .. Size[r]) /\ how \in [settled -> {"handled", "lost"}]
  BY DEF Targets
<1>2. \A u \in settled : Fate[r][u] = "open"
  BY DEF Decides, Fate
<1>3. Fate' = [Fate EXCEPT ![r] = [u \in 1 .. Size[r] |->
                                     IF u \in settled THEN how[u] ELSE Fate[r][u]]]
  <2>1. ASSUME NEW q \in Requests, NEW u \in Targets(q)
        PROVE  Fate'[q][u] = IF q = r /\ u \in settled THEN how[u] ELSE Fate[q][u]
    BY DEF Decides, Fate, Handled, Lost
  <2>2. /\ Fate = [q \in Requests |-> [u \in Targets(q) |-> Fate[q][u]]]
        /\ Fate' = [q \in Requests |-> [u \in Targets(q) |-> Fate'[q][u]]]
    BY DEF Fate
  <2> HIDE DEF settled, how
  <2>3. \A q \in Requests : q # r => Fate'[q] = Fate[q]
    BY <2>1, <2>2
  <2>4. Fate'[r] = [u \in 1 .. Size[r] |-> IF u \in settled THEN how[u] ELSE Fate[r][u]]
    BY <2>1, <2>2 DEF Targets
  <2> QED BY <2>2, <2>3, <2>4
<1>4. Told' = Told
  BY DEF Decides, Told
<1> HIDE DEF settled, how
<1> QED BY <1>1, <1>2, <1>3, <1>4 DEF Promise!Settle

LEMMA DispatchPromise ==
  ASSUME TypeInv, IInv, NEW r \in Requests, DispatchStep(r)
  PROVE  Decides(r)
<1>1. UNCHANGED <<doneCb, failCb>>
  BY DEF DispatchStep, Start, Enqueue, Drop, EndLoop, historyVars
<1>2. CASE Drop(r)
  <2>1. /\ place' = Put(r, Batch(r, next[r]), "dropped")
        /\ next[r] \in Nat
    BY <1>2 DEF Drop, TypeInv, TypeOK
  <2>2. \A u \in Batch(r, next[r]) : u \in Targets(r) /\ place[r][u] = "pending"
    BY <2>1, BatchToken DEF IInv, OpenOf
  <2>3. ASSUME NEW q \in Requests, NEW u \in Targets(q)
        PROVE  \/ place'[q][u] = place[q][u]
               \/ q = r /\ u \in Batch(r, next[r]) /\ place'[q][u] = "dropped"
    BY <2>1 DEF Put, TypeInv, TypeOK, Targets, Users
  <2> QED BY <1>1, <2>2, <2>3 DEF Decides, Lost
<1>3. CASE ~Drop(r)
  <2>1. place' = place
    BY <1>3 DEF DispatchStep, Start, Enqueue, EndLoop, historyVars
  <2> QED BY <1>1, <2>1 DEF Decides
<1> QED BY <1>2, <1>3

LEMMA WorkerDecides ==
  ASSUME TypeInv, IInv, NEW w \in Workers, Busy(w), NEW S, S \subseteq off[w] \cup DOMAIN grp[w],
         UNCHANGED <<doneCb, failCb>>,
         \A q \in Requests : \A u \in Targets(q) :
           IF q = sub[w][1] /\ u \in S THEN place'[q][u] \in Handled \cup Lost
                                       ELSE place'[q][u] = place[q][u]
  PROVE  \E r \in Requests : Decides(r)
<1>1. sub[w][1] \in Requests
  BY BusyFacts
<1>2. \A u \in S : place[sub[w][1]][u] = "pending"
  BY DEF IInv, WaitingOf
<1>3. ASSUME NEW q \in Requests, NEW u \in Targets(q), place'[q][u] # place[q][u]
      PROVE  /\ q = sub[w][1] /\ place[q][u] = "pending"
             /\ place'[q][u] \in Handled \cup Lost
  BY <1>2, <1>3
<1>4. Decides(sub[w][1])
  BY <1>3 DEF Decides
<1> QED BY <1>1, <1>4

LEMMA WorkerPromise ==
  ASSUME TypeInv, IInv, NEW w \in Workers, WorkerStep(w)
  PROVE  (\E r \in Requests : Decides(r)) \/ UNCHANGED <<place, doneCb, failCb>>
<1>1. CASE \E u \in Users : StoreOffline(w, u)
  <2>1. PICK u \in Users : StoreOffline(w, u)
    BY <1>1
  <2>2. PICK p \in Handled : place' = Put(sub[w][1], {u}, p)
    BY <2>1 DEF StoreOffline, Handled
  <2>3. Busy(w) /\ {u} \subseteq off[w] \cup DOMAIN grp[w] /\ UNCHANGED <<doneCb, failCb>>
    BY <2>1 DEF StoreOffline, Busy
  <2>4. \A q \in Requests : \A v \in Targets(q) :
          IF q = sub[w][1] /\ v \in {u} THEN place'[q][v] \in Handled \cup Lost
                                        ELSE place'[q][v] = place[q][v]
    <3>1. sub[w][1] \in Requests
      BY <2>3, BusyFacts
    <3>2. PICK S : S = {u}
      OBVIOUS
    <3>3. place' = Put(sub[w][1], S, p)
      BY <2>2, <3>2
    <3>4. ASSUME NEW q \in Requests, NEW v \in Targets(q)
          PROVE  place'[q][v] = IF q = sub[w][1] /\ v \in S THEN p ELSE place[q][v]
      BY <3>1, <3>3, PutAt
    <3> QED BY <3>2, <3>4
  <2>5. PICK S : S = {u}
    OBVIOUS
  <2>6. S \subseteq off[w] \cup DOMAIN grp[w]
    BY <2>3, <2>5
  <2>7. \A q \in Requests : \A v \in Targets(q) :
          IF q = sub[w][1] /\ v \in S THEN place'[q][v] \in Handled \cup Lost
                                      ELSE place'[q][v] = place[q][v]
    BY <2>4, <2>5
  <2> QED BY <2>3, <2>6, <2>7, WorkerDecides
<1>2. CASE \E g \in Gateways : SendGroup(w, g) \/ FallBack(w, g)
  <2>1. PICK g \in Gateways : SendGroup(w, g) \/ FallBack(w, g)
    BY <1>2
  <2>2. PICK G : G = Group(w, g)
    OBVIOUS
  <2>3. Ready(w) /\ UNCHANGED <<doneCb, failCb>>
    BY <2>1 DEF SendGroup, FallBack
  <2>4. Busy(w) /\ sub[w][1] \in Requests /\ G \subseteq off[w] \cup DOMAIN grp[w]
    BY <2>2, <2>3, ReadyFacts DEF Group
  <2>5. CASE SendGroup(w, g)
    <3>1. place' = Put(sub[w][1], G, "stream")
      BY <2>2, <2>5 DEF SendGroup
    <3>2. \A q \in Requests : \A u \in Targets(q) :
            IF q = sub[w][1] /\ u \in G THEN place'[q][u] \in Handled \cup Lost
                                        ELSE place'[q][u] = place[q][u]
      BY <2>4, <3>1, PutAt DEF Handled
    <3> QED BY <2>3, <2>4, <3>2, WorkerDecides
  <2>6. CASE FallBack(w, g)
    <3>1. PICK D \in SUBSET G :
            place' = [place EXCEPT ![sub[w][1]] =
                        [u \in Users |-> IF u \in D THEN "offline"
                                         ELSE IF u \in G THEN "failed"
                                         ELSE place[sub[w][1]][u]]]
      <4>1. PICK D \in SUBSET Group(w, g) :
              place' = [place EXCEPT ![sub[w][1]] =
                          [u \in Users |-> IF u \in D THEN "offline"
                                           ELSE IF u \in Group(w, g) THEN "failed"
                                           ELSE @[u]]]
        BY <2>6 DEF FallBack
      <4> QED BY <2>2, <4>1
    <3>2. \A q \in Requests : \A u \in Targets(q) :
            place'[q][u] = IF q = sub[w][1] /\ u \in G
                           THEN IF u \in D THEN "offline" ELSE "failed"
                           ELSE place[q][u]
      BY <2>4, <3>1 DEF TypeInv, TypeOK, Targets, Users
    <3>3. \A q \in Requests : \A u \in Targets(q) :
            IF q = sub[w][1] /\ u \in G THEN place'[q][u] \in Handled \cup Lost
                                        ELSE place'[q][u] = place[q][u]
      BY <3>2 DEF Handled, Lost
    <3> QED BY <2>3, <2>4, <3>3, WorkerDecides
  <2> QED BY <2>1, <2>5, <2>6
<1>3. CASE /\ ~\E u \in Users : StoreOffline(w, u)
           /\ ~\E g \in Gateways : SendGroup(w, g) \/ FallBack(w, g)
  BY <1>3 DEF WorkerStep, Take, LocalFull, EndOffline, ReportFailed, Finish, historyVars
<1> QED BY <1>1, <1>2, <1>3

LEMMA VerdictPromise ==
  ASSUME NoResend, TypeInv, IInv, NEW t \in Threads, CallStep(t)
  PROVE  \/ \E r \in Requests : Promise!Ack(r) \/ Promise!Fail(r)
         \/ UNCHANGED <<place, doneCb, failCb>>
<1>1. CASE Ack(t) \/ Fail(t)
  <2>1. PICK k : k = call[t].task
    OBVIOUS
  <2>2. call[t].pc = "callback" /\ place' = place
    BY <1>1 DEF Ack, Fail, Return, At
  <2>3. k \in Requests /\ counted[k] = Targets(k) /\ ~Verdict(k)
    BY <2>1, <2>2 DEF TypeInv, CallOK, IInv, ClosingOf, Closing
  <2>4. doneCb \in [Requests -> Nat] /\ failCb \in [Requests -> Nat]
    BY DEF TypeInv, TypeOK
  <2>5. Fate' = Fate /\ Told[k] = "none"
    BY <2>2, <2>3, <2>4 DEF Fate, Told, Verdict
  <2>6. \A u \in Targets(k) : /\ place[k][u] \in Handled \cup Lost
                              /\ heap[k].failed = 0 => place[k][u] \in Handled
    BY <2>3 DEF IInv, CountedOf
  <2>7. CASE Ack(t)
    <3>1. heap[k].failed = 0 /\ doneCb' = [doneCb EXCEPT ![k] = doneCb[k] + 1] /\ failCb' = failCb
      BY <2>1, <2>7 DEF Ack, CallsDone
    <3>2. Told' = [Told EXCEPT ![k] = "acked"]
      <4>1. ASSUME NEW q \in Requests
            PROVE  doneCb'[q] = IF q = k THEN doneCb[q] + 1 ELSE doneCb[q]
        BY <2>3, <2>4, <3>1
      <4>2. ASSUME NEW q \in Requests
            PROVE  Told'[q] = IF q = k THEN "acked" ELSE Told[q]
        BY <2>4, <3>1, <4>1 DEF Told
      <4>3. /\ Told = [q \in Requests |-> Told[q]]
            /\ Told' = [q \in Requests |-> Told'[q]]
        BY DEF Told
      <4> QED BY <2>3, <4>2, <4>3
    <3>3. \A u \in 1 .. Size[k] : Fate[k][u] = "handled"
      BY <2>3, <2>6, <3>1 DEF Fate, Targets, Handled
    <3> QED BY <2>3, <2>5, <3>2, <3>3 DEF Promise!Ack
  <2>8. CASE Fail(t)
    <3>1. failCb' = [failCb EXCEPT ![k] = failCb[k] + 1] /\ doneCb' = doneCb
      BY <2>1, <2>8 DEF Fail
    <3>2. doneCb[k] = 0
      BY <2>3, <2>4 DEF Verdict
    <3>3. Told' = [Told EXCEPT ![k] = "failed"]
      <4>1. ASSUME NEW q \in Requests
            PROVE  failCb'[q] = IF q = k THEN failCb[q] + 1 ELSE failCb[q]
        BY <2>3, <2>4, <3>1
      <4>2. ASSUME NEW q \in Requests
            PROVE  Told'[q] = IF q = k THEN "failed" ELSE Told[q]
        BY <2>4, <3>1, <3>2, <4>1 DEF Told
      <4>3. /\ Told = [q \in Requests |-> Told[q]]
            /\ Told' = [q \in Requests |-> Told'[q]]
        BY DEF Told
      <4> QED BY <2>3, <4>2, <4>3
    <3>4. heap[k].failed > 0
      <4>1. heap[k].failed \in Nat
        BY <2>3 DEF TypeInv, TypeOK, PendingTypeOK, Counters
      <4>2. call[t].op \in {"done", "fail"}
        BY <2>2, CallTypes DEF CallType, IInv, CallOf
      <4>3. call[t].op = "fail" => heap[k].failed > 0
        BY <2>1, <2>2 DEF IInv, ClosingOf, Closing
      <4> QED BY <2>1, <2>8, <4>1, <4>2, <4>3 DEF Fail, CallsDone
    <3>5. ~Fresh(k)
      <4>1. call[t].op \in {"done", "fail"} /\ k = RequestOf(t)
        BY <2>1, <2>2, CallTypes DEF CallType, IInv, CallOf, Closing
      <4> QED BY <4>1, CallFacts
    <3>6. \E u \in Targets(k) : place[k][u] \in Lost
      BY <2>3, <3>4, <3>5 DEF IInv, HeapOf
    <3>7. /\ \A u \in 1 .. Size[k] : Fate[k][u] # "open"
          /\ \E u \in 1 .. Size[k] : Fate[k][u] = "lost"
      BY <2>3, <2>6, <3>6 DEF Fate, Targets, Handled, Lost
    <3> QED BY <2>3, <2>5, <3>3, <3>7 DEF Promise!Fail
  <2> QED BY <1>1, <2>7, <2>8
<1>2. CASE InTable(t) \/ Miss(t) \/ Account(t)
  BY <1>2 DEF InTable, Miss, Account, historyVars
<1> QED BY <1>1, <1>2 DEF CallStep

\* The service keeps the promise of AckPromise to every sender.
THEOREM KeepsPromise == NoResend => (Spec => PromiseKept)
<1> SUFFICES ASSUME NoResend PROVE Spec => PromiseKept
  OBVIOUS
<1>1. ASSUME TypeInv, IInv, [Next]_vars
      PROVE  [Promise!Next]_<<Fate, Told>>
  <2>1. UNCHANGED <<place, doneCb, failCb>> => UNCHANGED <<Fate, Told>>
    BY DEF Fate, Told
  <2>2. ASSUME NEW r \in Requests, DispatchStep(r)
        PROVE  [Promise!Next]_<<Fate, Told>>
    BY <1>1, <2>2, DispatchPromise, DecidesSettles DEF Promise!Next
  <2>3. ASSUME NEW w \in Workers, WorkerStep(w)
        PROVE  [Promise!Next]_<<Fate, Told>>
    BY <1>1, <2>1, <2>3, WorkerPromise, DecidesSettles DEF Promise!Next
  <2>4. ASSUME NEW t \in Threads, CallStep(t)
        PROVE  [Promise!Next]_<<Fate, Told>>
    BY <1>1, <2>1, <2>4, VerdictPromise DEF Promise!Next
  <2>5. CASE UNCHANGED vars
    BY <2>1, <2>5 DEF vars, historyVars
  <2> QED BY <1>1, <2>2, <2>3, <2>4, <2>5 DEF Next
<1>2. Init => Promise!PromiseInit
  BY PromiseInit
<1>3. Spec => [](TypeInv /\ IInv)
  BY Inductive
<1> QED BY <1>1, <1>2, <1>3, PTL DEF Spec, PromiseKept, Promise!Spec
================================================================================
