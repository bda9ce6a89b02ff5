------------------------------ MODULE SendDispatch -----------------------------
(***************************************************************************)
(* The Send service in gateway mode.  A request (a new message, or the     *)
(* resend of a stored one under the same id) splits its targets into       *)
(* batches on a bounded queue; workers look up the targets' gateways,      *)
(* append one entry per gateway to its Redis stream, put the others on     *)
(* Redis offline queues, and account for every target in the pending-task  *)
(* table.  The call that accounts for the last target sends the ACK to the *)
(* message's sender, or only closes the message if some target failed.     *)
(***************************************************************************)
EXTENDS Integers, Sequences, FiniteSets, Functions

CONSTANTS
  Msgs,         \* message ids
  Requests,     \* HTTP requests (send or resend), each its own goroutine
  MsgOf,        \* MsgOf[r]: the message id of request r
  Size,         \* Size[r]: the number of room members request r addresses
  BatchSize,    \* targets per sub-message (100)
  Workers,      \* gatewayWorker goroutines
  QueueCap,     \* capacity of gatewayQueue
  LocalCap,     \* capacity of a user's local channel (100)
  Gateways,     \* gateway ids
  Offline,      \* a target without a route
  NoTask, NoMsg, NoThread, NoSub

ASSUME SendAssumption ==
  /\ IsFiniteSet(Requests)
  /\ MsgOf \in [Requests -> Msgs]
  /\ Size \in [Requests -> Nat]
  /\ BatchSize \in Nat \ {0}
  /\ QueueCap \in Nat \ {0}
  /\ LocalCap \in Nat
  /\ Requests \cap Workers = {}
  /\ NoTask \notin Requests
  /\ NoThread \notin Requests \cup Workers
  /\ Offline \notin Gateways
  /\ NoMsg \notin Msgs

Threads == Requests \cup Workers

VARIABLES
  table, heap, mutex, call, fatal, missed,   \* the pending-task table
  msg2sender,   \* messages whose sender is stored
  rpc, next,    \* Dispatch_gateway: program counter, next batch of each request
  queue,        \* gatewayQueue: sub-messages <<request, batch>>
  wpc, sub,     \* gatewayWorker: program counter, the sub-message taken
  off, grp,     \* its targets still to store offline; the gateway of the others
  doneSet,      \* targets a goroutine is about to report with DoneN
  failSet,      \* ... with FailN (a dispatcher's droppedTargets among them)
  local,        \* local[u]: messages in u's local channel, which nobody drains
  place,        \* history: place[r][u]: what has become of target u of request r
  counted,      \* history: targets whose count has been subtracted
  doneCb,       \* history: doneFunc calls for the state request r allocated
  failCb,       \* history: failFunc calls for it
  acked         \* history: messages whose ACK went to the sender's gateway

INSTANCE PendingTask WITH Tasks <- Requests

taskVars == <<table, heap, mutex, call, fatal, missed>>
dispatchVars == <<msg2sender, rpc, next, queue>>
workerVars == <<wpc, sub, off, grp, local>>
historyVars == <<place, counted, doneCb, failCb, acked>>
vars == <<taskVars, dispatchVars, workerVars, doneSet, failSet, historyVars>>

Users == UNION {1 .. Size[r] : r \in Requests}
Targets(r) == 1 .. Size[r]
\* Mutant of Batch: the slices overlap by one target.
BatchOverlaps(r, k) ==
  {u \in Targets(r) : (u - 1) \div BatchSize = k \/ u = (k + 1) * BatchSize + 1}
\* The k-th sub-message's targets: the slice [k*BatchSize, (k+1)*BatchSize).
Batch(r, k) == {u \in Targets(r) : (u - 1) \div BatchSize = k}
SubMsgs == Requests \X Nat
\* Which gateways some targets are to be reached through.
Routes == UNION {[S -> Gateways] : S \in SUBSET Users}

Handled == {"stream", "offline", "local"}
Lost == {"dropped", "failed"}
Place == Handled \cup Lost \cup {"pending"}
RequestPC == {"start", "loop", "returned"}
WorkerPC == {"idle", "offline", "groups", "stuck"}
--------------------------------------------------------------------------------
TypeOK ==
  /\ PendingTypeOK
  /\ msg2sender \subseteq Msgs
  /\ rpc \in [Requests -> RequestPC]
  /\ next \in [Requests -> Nat]
  /\ queue \in Seq(SubMsgs)
  /\ wpc \in [Workers -> WorkerPC]
  /\ sub \in [Workers -> SubMsgs \cup {NoSub}]
  /\ off \in [Workers -> SUBSET Users]
  /\ grp \in [Workers -> Routes]
  /\ doneSet \in [Threads -> SUBSET Users]
  /\ failSet \in [Threads -> SUBSET Users]
  /\ local \in [Users -> 0 .. LocalCap]
  /\ place \in [Requests -> [Users -> Place]]
  /\ counted \in [Requests -> SUBSET Users]
  /\ doneCb \in [Requests -> Nat]
  /\ failCb \in [Requests -> Nat]
  /\ acked \subseteq Msgs

Init ==
  /\ PendingInit
  /\ msg2sender = {}
  /\ rpc = [r \in Requests |-> "start"]
  /\ next = [r \in Requests |-> 0]
  /\ queue = << >>
  /\ wpc = [w \in Workers |-> "idle"]
  /\ sub = [w \in Workers |-> NoSub]
  /\ off = [w \in Workers |-> {}]
  /\ grp = [w \in Workers |-> << >>]
  /\ doneSet = [t \in Threads |-> {}]
  /\ failSet = [t \in Threads |-> {}]
  /\ local = [u \in Users |-> 0]
  /\ place = [r \in Requests |-> [u \in Users |-> "pending"]]
  /\ counted = [r \in Requests |-> {}]
  /\ doneCb = [r \in Requests |-> 0]
  /\ failCb = [r \in Requests |-> 0]
  /\ acked = {}

Put(r, S, p) == [place EXCEPT ![r] = [u \in Users |-> IF u \in S THEN p ELSE @[u]]]

Running(t) == ~fatal /\ call[t].pc = "idle"
--------------------------------------------------------------------------------
(* Dispatch_gateway *)

Start(r) ==
  /\ Running(r)
  /\ rpc[r] = "start"
  /\ msg2sender' = msg2sender \cup {MsgOf[r]}
  /\ CallInit(r, MsgOf[r], r, Size[r])
  /\ rpc' = [rpc EXCEPT ![r] = "loop"]
  /\ UNCHANGED <<table, heap, mutex, fatal, missed, next, queue, workerVars,
                 doneSet, failSet, historyVars>>

HasBatch(r) == next[r] * BatchSize < Size[r]

Enqueue(r) ==
  /\ Running(r)
  /\ rpc[r] = "loop"
  /\ HasBatch(r)
  /\ Len(queue) < QueueCap
  /\ queue' = Append(queue, <<r, next[r]>>)
  /\ next' = [next EXCEPT ![r] = @ + 1]
  /\ UNCHANGED <<taskVars, msg2sender, rpc, workerVars, doneSet, failSet, historyVars>>

\* Mutant of Dropped: the dropped batch is not reported.
DroppedForgotten(r) == failSet[r]
Dropped(r) == failSet[r] \cup Batch(r, next[r])

\* The select blocks on the full queue until the 200 ms timer fires.
Drop(r) ==
  /\ Running(r)
  /\ rpc[r] = "loop"
  /\ HasBatch(r)
  /\ Len(queue) >= QueueCap
  /\ failSet' = [failSet EXCEPT ![r] = Dropped(r)]
  /\ place' = Put(r, Batch(r, next[r]), "dropped")
  /\ next' = [next EXCEPT ![r] = @ + 1]
  /\ UNCHANGED <<taskVars, msg2sender, rpc, queue, workerVars, doneSet,
                 counted, doneCb, failCb, acked>>

\* After the loop the dropped targets are failed in one call.
EndLoop(r) ==
  /\ Running(r)
  /\ rpc[r] = "loop"
  /\ ~HasBatch(r)
  /\ rpc' = [rpc EXCEPT ![r] = "returned"]
  /\ IF failSet[r] # {} THEN CallFailN(r, MsgOf[r], Cardinality(failSet[r]))
                        ELSE UNCHANGED call
  /\ UNCHANGED <<table, heap, mutex, fatal, missed, msg2sender, next, queue,
                 workerVars, doneSet, failSet, historyVars>>
--------------------------------------------------------------------------------
(* gatewayWorker *)

\* BatchGetUserGateways gives some of the targets a gateway; when it fails, all
\* of them count as offline.
Take(w) ==
  /\ Running(w)
  /\ wpc[w] = "idle"
  /\ queue # << >>
  /\ LET s == Head(queue)
     IN  \E route \in [Batch(s[1], s[2]) -> Gateways \cup {Offline}] :
           LET away == {u \in DOMAIN route : route[u] = Offline}
           IN  /\ off' = [off EXCEPT ![w] = away]
               /\ grp' = [grp EXCEPT ![w] =
                            [u \in DOMAIN route \ away |-> route[u]]]
  /\ sub' = [sub EXCEPT ![w] = Head(queue)]
  /\ queue' = Tail(queue)
  /\ wpc' = [wpc EXCEPT ![w] = "offline"]
  /\ UNCHANGED <<taskVars, msg2sender, rpc, next, local, doneSet, failSet,
                 historyVars>>

\* Mutant of HasRoom: the local channel takes any number of messages.
HasRoomAlways(u) == TRUE
HasRoom(u) == local[u] < LocalCap

\* InsertOfflineQueue, with its fallback to the user's local channel when the
\* RPUSH fails.  The target counts as done either way.
StoreOffline(w, u) ==
  /\ Running(w)
  /\ wpc[w] = "offline"
  /\ u \in off[w]
  /\ \/ /\ place' = Put(sub[w][1], {u}, "offline")
        /\ UNCHANGED local
     \/ /\ HasRoom(u)
        /\ local' = [local EXCEPT ![u] = @ + 1]
        /\ place' = Put(sub[w][1], {u}, "local")
  /\ off' = [off EXCEPT ![w] = @ \ {u}]
  /\ doneSet' = [doneSet EXCEPT ![w] = @ \cup {u}]
  /\ UNCHANGED <<taskVars, dispatchVars, wpc, sub, grp, failSet,
                 counted, doneCb, failCb, acked>>

\* The RPUSH fails and the local channel is full: nobody ever receives from it,
\* so the worker waits for ever.
LocalFull(w, u) ==
  /\ Running(w)
  /\ wpc[w] = "offline"
  /\ u \in off[w]
  /\ ~HasRoom(u)
  /\ wpc' = [wpc EXCEPT ![w] = "stuck"]
  /\ UNCHANGED <<taskVars, dispatchVars, sub, off, grp, local, doneSet, failSet,
                 historyVars>>

EndOffline(w) ==
  /\ Running(w)
  /\ wpc[w] = "offline"
  /\ off[w] = {}
  /\ wpc' = [wpc EXCEPT ![w] = "groups"]
  /\ IF doneSet[w] # {}
     THEN CallDoneN(w, MsgOf[sub[w][1]], Cardinality(doneSet[w]))
     ELSE UNCHANGED call
  /\ UNCHANGED <<table, heap, mutex, fatal, missed, dispatchVars, sub, off, grp,
                 local, doneSet, failSet, historyVars>>

Group(w, g) == {u \in DOMAIN grp[w] : grp[w][u] = g}

Ungroup(w, g) == [grp EXCEPT ![w] = Restrict(grp[w], DOMAIN grp[w] \ Group(w, g))]

\* Between two groups: everything of the last one has been reported.
Ready(w) == Running(w) /\ wpc[w] = "groups" /\ doneSet[w] = {} /\ failSet[w] = {}

\* The XADD to the gateway's stream succeeds.
SendGroup(w, g) ==
  /\ Ready(w)
  /\ Group(w, g) # {}
  /\ place' = Put(sub[w][1], Group(w, g), "stream")
  /\ doneSet' = [doneSet EXCEPT ![w] = Group(w, g)]
  /\ grp' = Ungroup(w, g)
  /\ CallDoneN(w, MsgOf[sub[w][1]], Cardinality(Group(w, g)))
  /\ UNCHANGED <<table, heap, mutex, fatal, missed, dispatchVars, wpc, sub, off,
                 local, failSet, counted, doneCb, failCb, acked>>

\* The XADD fails: each target goes to its offline queue, and those for whom the
\* RPUSH fails too are failed, after the others are reported.
FallBack(w, g) ==
  /\ Ready(w)
  /\ Group(w, g) # {}
  /\ \E stored \in SUBSET Group(w, g) :
       /\ doneSet' = [doneSet EXCEPT ![w] = stored]
       /\ failSet' = [failSet EXCEPT ![w] = Group(w, g) \ stored]
       /\ place' = [place EXCEPT ![sub[w][1]] =
                      [u \in Users |-> IF u \in stored THEN "offline"
                                       ELSE IF u \in Group(w, g) THEN "failed"
                                       ELSE @[u]]]
       /\ IF stored # {}
          THEN CallDoneN(w, MsgOf[sub[w][1]], Cardinality(stored))
          ELSE CallFailN(w, MsgOf[sub[w][1]], Cardinality(Group(w, g)))
  /\ grp' = Ungroup(w, g)
  /\ UNCHANGED <<table, heap, mutex, fatal, missed, dispatchVars, wpc, sub, off,
                 local, counted, doneCb, failCb, acked>>

ReportFailed(w) ==
  /\ Running(w)
  /\ wpc[w] = "groups"
  /\ doneSet[w] = {}
  /\ failSet[w] # {}
  /\ CallFailN(w, MsgOf[sub[w][1]], Cardinality(failSet[w]))
  /\ UNCHANGED <<table, heap, mutex, fatal, missed, dispatchVars, workerVars,
                 doneSet, failSet, historyVars>>

Finish(w) ==
  /\ Ready(w)
  /\ DOMAIN grp[w] = {}
  /\ wpc' = [wpc EXCEPT ![w] = "idle"]
  /\ sub' = [sub EXCEPT ![w] = NoSub]
  /\ UNCHANGED <<taskVars, dispatchVars, off, grp, local, doneSet, failSet,
                 historyVars>>
--------------------------------------------------------------------------------
(* DoneN, FailN and Init, as goroutine t executes them *)

Reported(t) == IF call[t].op = "fail" THEN failSet[t] ELSE doneSet[t]

\* The targets the call carried have been accounted for, or forgotten.
Clear(t) ==
  /\ doneSet' = [doneSet EXCEPT ![t] = IF call[t].op = "done" THEN {} ELSE @]
  /\ failSet' = [failSet EXCEPT ![t] = IF call[t].op = "fail" THEN {} ELSE @]

InTable(t) ==
  /\ \/ InitLock(t) \/ InitStore(t) \/ Found(t) \/ RuntimeFatal(t) \/ AddFailed(t)
     \/ DeleteLock(t) \/ DeleteEntry(t)
  /\ UNCHANGED <<dispatchVars, workerVars, doneSet, failSet, historyVars>>

Miss(t) ==
  /\ NotFound(t)
  /\ Clear(t)
  /\ UNCHANGED <<dispatchVars, workerVars, historyVars>>

Account(t) ==
  /\ AddPending(t)
  /\ Clear(t)
  /\ counted' = [counted EXCEPT ![call[t].task] = @ \cup Reported(t)]
  /\ UNCHANGED <<dispatchVars, workerVars, place, doneCb, failCb, acked>>

\* doneFunc = SendACKToSender: the ACK is pushed if the sender is still stored
\* and has a gateway whose stream can be appended to.
Ack(t) ==
  /\ Return(t)
  /\ CallsDone(t)
  /\ doneCb' = [doneCb EXCEPT ![call[t].task] = @ + 1]
  /\ msg2sender' = msg2sender \ {call[t].msg}
  /\ \/ call[t].msg \in msg2sender /\ acked' = acked \cup {call[t].msg}
     \/ UNCHANGED acked
  /\ UNCHANGED <<rpc, next, queue, workerVars, doneSet, failSet, place, counted, failCb>>

\* failFunc = OnFailMessage: the sender will retry by timeout.
Fail(t) ==
  /\ Return(t)
  /\ ~CallsDone(t)
  /\ failCb' = [failCb EXCEPT ![call[t].task] = @ + 1]
  /\ msg2sender' = msg2sender \ {call[t].msg}
  /\ UNCHANGED <<rpc, next, queue, workerVars, doneSet, failSet, place, counted, doneCb,
                 acked>>
--------------------------------------------------------------------------------
DispatchStep(r) == Start(r) \/ Enqueue(r) \/ Drop(r) \/ EndLoop(r)

WorkerStep(w) ==
  \/ Take(w)
  \/ \E u \in Users : StoreOffline(w, u) \/ LocalFull(w, u)
  \/ EndOffline(w)
  \/ \E g \in Gateways : SendGroup(w, g) \/ FallBack(w, g)
  \/ ReportFailed(w)
  \/ Finish(w)

CallStep(t) == InTable(t) \/ Miss(t) \/ Account(t) \/ Ack(t) \/ Fail(t)

Next ==
  \/ \E r \in Requests : DispatchStep(r)
  \/ \E w \in Workers : WorkerStep(w)
  \/ \E t \in Threads : CallStep(t)

\* Goroutines are scheduled; a request that was received runs to its end.
Fairness ==
  /\ \A r \in Requests : WF_vars(DispatchStep(r) \/ CallStep(r))
  /\ \A w \in Workers : WF_vars(WorkerStep(w) \/ CallStep(w))

Spec == Init /\ [][Next]_vars

FairSpec == Spec /\ Fairness
--------------------------------------------------------------------------------
(* Properties *)

\* Every message id is dispatched by one request only: nobody resends.
NoResend == \A r1, r2 \in Requests : MsgOf[r1] = MsgOf[r2] => r1 = r2

\* "Called when all pending tasks are complete" (SendACKToSender): once doneFunc
\* has run for a request, every one of its targets is on a stream or stored for
\* later, and none was dropped or failed.
AckSound ==
  \A r \in Requests : doneCb[r] > 0 => \A u \in Targets(r) : place[r][u] \in Handled

\* A message the sender is told to retry (OnFailMessage) did lose a target, and
\* no target of it is still in flight.
FailSound ==
  \A r \in Requests : failCb[r] > 0 =>
    /\ \E u \in Targets(r) : place[r][u] \in Lost
    /\ \A u \in Targets(r) : place[r][u] # "pending"

\* One of the two callbacks runs, once, however many goroutines race for the
\* last target of a request; by then the map and msg2sender have forgotten it.
OneVerdict ==
  \A r \in Requests :
    /\ doneCb[r] + failCb[r] <= 1
    /\ failCb[r] > 0 => MsgOf[r] \notin acked
    /\ doneCb[r] + failCb[r] > 0 => /\ table[MsgOf[r]] = NoTask
                                    /\ MsgOf[r] \notin msg2sender

\* The counter of a request's state is the number of its targets nobody has
\* accounted for; in particular it never goes below zero.
CounterExact ==
  \A r \in Requests :
    rpc[r] # "start" /\ call[r].op # "init" =>
      heap[r].pending = Size[r] - Cardinality(counted[r])

Verdict(r) == doneCb[r] + failCb[r] > 0

\* A dispatched message is acknowledged or failed, unless a racing read lost a
\* count or ended the process, a worker is stuck on a full local channel, or the
\* room was empty (Init with 0 and no call to reach it).
Resolves ==
  \A r \in Requests :
    rpc[r] # "start" /\ Size[r] > 0 ~>
      Verdict(r) \/ fatal \/ MsgOf[r] \in missed \/ \E w \in Workers : wpc[w] = "stuck"

\* What the sender is promised (AckPromise), with a request's verdict read off
\* the callbacks made for it.
Fate == [r \in Requests |-> [u \in Targets(r) |->
           IF place[r][u] = "pending" THEN "open"
           ELSE IF place[r][u] \in Handled THEN "handled" ELSE "lost"]]
Told == [r \in Requests |-> IF doneCb[r] > 0 THEN "acked"
                            ELSE IF failCb[r] > 0 THEN "failed" ELSE "none"]
Promise == INSTANCE AckPromise WITH fate <- Fate, verdict <- Told

PromiseKept == Promise!Spec
================================================================================
