------------------------------ MODULE GatewayConn ------------------------------
(***************************************************************************)
(* internal/gateway/push: the WebSocket connections of one gateway.  A     *)
(* user has at most one connection in connStore, with a bounded send       *)
(* channel and a writer goroutine of its own.  Dispatch workers put        *)
(* messages on the channel; the handler of a connection registers it       *)
(* (taking over what an earlier connection of the user left unsent),       *)
(* greets, and reads until an error, then removes the user's connection;   *)
(* a heartbeat goroutine pings, and removes the connection when pings fail.*)
(*                                                                         *)
(* Nothing guards these steps as a whole: connStore is a sync.Map, and the *)
(* functions work on the holder they once loaded.  A send on a channel     *)
(* another goroutine has closed panics: net/http recovers the panic of a   *)
(* handler, any other ends the process.  Accesses of one goroutine that no *)
(* other can tell apart are one step.                                      *)
(***************************************************************************)
EXTENDS Integers, Sequences, FiniteSets, Counting

CONSTANTS
  Users,
  Conns,            \* accepted WebSocket connections
  UserOf,           \* UserOf[c]: the user connection c authenticates
  Msgs,             \* push messages pulled from the stream
  Targets,          \* Targets[m]: the users message m is for
  Dispatchers,      \* dispatchWorker goroutines
  SendCap,          \* capacity of a send channel (SendChannelSize)
  MaxConnections,
  Greeted,          \* bound: the connections whose greeting is not skipped
  Pinged,           \* bound: the connections whose heartbeat pings, once
  NoConn, NoMsg, NoUser

Procs == {"handler", "beat"} \X Conns
\* A message, or the n-th greeting or ping of a handler or heartbeat.
Greetings == Procs \X (1 .. 2)
Items == Msgs \cup Greetings

ASSUME GatewayAssumption ==
  /\ IsFiniteSet(Conns) /\ IsFiniteSet(Dispatchers)
  /\ UserOf \in [Conns -> Users]
  /\ Targets \in [Msgs -> SUBSET Users]
  /\ SendCap \in Nat \ {0}
  /\ MaxConnections \in Nat
  /\ Greeted \subseteq Conns
  /\ Pinged \subseteq Conns
  /\ NoConn \notin Conns
  /\ NoMsg \notin Msgs /\ Msgs \cap Greetings = {}
  /\ NoUser \notin Users

VARIABLES
  store,         \* connStore[u]: the connection registered for u, or NoConn
  conn,          \* conn[c]: sendCh with its capacity, whether sendCh and closeCh
                 \*   are closed, and the socket of c
  connCount,
  totalPending,
  writer,        \* writer[c]: where c's writerLoop is and the item in its hand
  proc,          \* state of the handler and heartbeat goroutines
  job,           \* state of the dispatch workers
  taken,         \* messages a dispatch worker has started on
  fatal,         \* a panic has ended the process
  sent,          \* history: sent[u]: the messages enqueued for u, in order
  settled        \* history: settled[m][u]: how often m was written, posted back,
                 \*   put on the wait queue or lost for u

history == <<sent, settled>>
vars == <<store, conn, connCount, totalPending, writer, proc, job, taken, fatal, history>>

ProcPC == {"connect", "load", "stop", "drain", "closeCh", "closeConn", "unstore", "store",
           "greet", "send", "inc", "await", "read", "tick",
           "rload", "rstop", "rdrain", "rcloseCh", "rback", "rdelete", "end"}
ConnType == [chan : Seq(Items), cap : Nat, closed : BOOLEAN, stopped : BOOLEAN,
             sock : {"none", "open", "closed"}]
ProcType == [pc : ProcPC, old : Conns \cup {NoConn}, held : Seq(Items), ret : {"read", "end"},
             fails : 0 .. 1, n : 0 .. 2, answer : {"none", "ok", "err"}]
WriterType == [pc : {"none", "select", "write", "ended"}, item : Items \cup {NoMsg}]
JobType == [pc : {"load", "send", "inc"}, msg : Msgs \cup {NoMsg}, todo : SUBSET Users,
            user : Users \cup {NoUser}, old : Conns \cup {NoConn}]

TypeOK ==
  /\ store \in [Users -> Conns \cup {NoConn}]
  /\ conn \in [Conns -> ConnType]
  /\ connCount \in Int
  /\ totalPending \in Int
  /\ writer \in [Conns -> WriterType]
  /\ proc \in [Procs -> ProcType]
  /\ job \in [Dispatchers -> JobType]
  /\ taken \subseteq Msgs
  /\ fatal \in BOOLEAN
  /\ sent \in [Users -> Seq(Msgs)]
  /\ settled \in [Msgs -> [Users -> Nat]]

Init ==
  /\ store = [u \in Users |-> NoConn]
  /\ conn = [c \in Conns |-> [chan |-> << >>, cap |-> 0, closed |-> FALSE, stopped |-> FALSE,
                              sock |-> "none"]]
  /\ connCount = 0
  /\ totalPending = 0
  /\ writer = [c \in Conns |-> [pc |-> "none", item |-> NoMsg]]
  /\ proc = [p \in Procs |->
               [pc |-> IF p[1] = "handler" THEN "connect" ELSE "end", old |-> NoConn,
                held |-> << >>, ret |-> IF p[1] = "handler" THEN "read" ELSE "end",
                fails |-> 0, n |-> 0, answer |-> "none"]]
  /\ job = [d \in Dispatchers |-> [pc |-> "load", msg |-> NoMsg, todo |-> {},
                                   user |-> NoUser, old |-> NoConn]]
  /\ taken = {}
  /\ fatal = FALSE
  /\ sent = [u \in Users |-> << >>]
  /\ settled = [m \in Msgs |-> [u \in Users |-> 0]]

UserOfProc(p) == UserOf[p[2]]
HasRoom(c) == Len(conn[c].chan) < conn[c].cap

\* The messages of the sequence ms are settled for user u.
Settle(ms, u) ==
  /\ settled' = [m \in Msgs |-> [settled[m] EXCEPT ![u] = @ + Copies(ms, m)]]
  /\ UNCHANGED sent

At(p, pc) == proc[p].pc = pc
Goto(p, pc) == proc' = [proc EXCEPT ![p].pc = pc]
--------------------------------------------------------------------------------
(* WebSocketHandler and RegisterConnection, by the handler of a new connection *)

\* The connection count is read before the upgrade, and not again.
Connect(p) ==
  /\ At(p, "connect")
  /\ IF connCount >= MaxConnections
     THEN Goto(p, "end") /\ UNCHANGED conn
     ELSE Goto(p, "load") /\ conn' = [conn EXCEPT ![p[2]].sock = "open"]
  /\ UNCHANGED <<store, connCount, totalPending, writer, job, taken, fatal, history>>

LoadOld(p) ==
  /\ At(p, "load")
  /\ proc' = [proc EXCEPT ![p].old = store[UserOfProc(p)],
                          ![p].pc = IF store[UserOfProc(p)] = NoConn THEN "store" ELSE "stop"]
  /\ UNCHANGED <<store, conn, connCount, totalPending, writer, job, taken, fatal, history>>

\* close(old.closeCh), recovered when it is closed already.
StopOld(p) ==
  /\ At(p, "stop")
  /\ conn' = [conn EXCEPT ![proc[p].old].stopped = TRUE]
  /\ Goto(p, "drain")
  /\ UNCHANGED <<store, connCount, totalPending, writer, job, taken, fatal, history>>

\* Mutant of Collected: the drained items are put together in reverse.
CollectedFirst(held, item) == <<item>> \o held
Collected(held, item) == Append(held, item)

\* One non-blocking receive of the loop that drains the channel, until it is empty.
Drain(p, from, to) ==
  LET c == proc[p].old
  IN  /\ At(p, from)
      /\ IF conn[c].chan # << >>
         THEN /\ proc' = [proc EXCEPT ![p].held = Collected(@, Head(conn[c].chan))]
              /\ conn' = [conn EXCEPT ![c].chan = Tail(@)]
         ELSE Goto(p, to) /\ UNCHANGED conn
      /\ UNCHANGED <<store, connCount, totalPending, writer, job, taken, fatal, history>>

\* close(sendCh), recovered when it is closed already.
CloseOldCh(p) ==
  /\ At(p, "closeCh")
  /\ conn' = [conn EXCEPT ![proc[p].old].closed = TRUE]
  /\ Goto(p, "closeConn")
  /\ UNCHANGED <<store, connCount, totalPending, writer, job, taken, fatal, history>>

CloseOldConn(p) ==
  /\ At(p, "closeConn")
  /\ conn' = [conn EXCEPT ![proc[p].old].sock = "closed"]
  /\ connCount' = connCount - 1
  /\ Goto(p, "unstore")
  /\ UNCHANGED <<store, totalPending, writer, job, taken, fatal, history>>

\* connStore.Delete: whichever connection the user has there by now.
UnstoreOld(p) ==
  /\ At(p, "unstore")
  /\ store' = [store EXCEPT ![UserOfProc(p)] = NoConn]
  /\ Goto(p, "store")
  /\ UNCHANGED <<conn, connCount, totalPending, writer, job, taken, fatal, history>>

\* Mutant of Migrated: the drained items are forgotten.
MigratedNot(p) == << >>
\* The new channel starts with what was drained from the old one.
Migrated(p) == proc[p].held

\* The channel has room for the drained items and SendCap more; the writer starts.
StoreNew(p) ==
  /\ At(p, "store")
  /\ conn' = [conn EXCEPT ![p[2]].chan = Migrated(p),
                          ![p[2]].cap = SendCap + Len(proc[p].held)]
  /\ store' = [store EXCEPT ![UserOfProc(p)] = p[2]]
  /\ connCount' = connCount + 1
  /\ writer' = [writer EXCEPT ![p[2]].pc = "select"]
  /\ proc' = [proc EXCEPT ![p].held = << >>, ![p].old = NoConn, ![p].pc = "greet"]
  /\ UNCHANGED <<totalPending, job, taken, fatal, history>>
--------------------------------------------------------------------------------
(* WriteJSONSafe, for the greeting (PushViaWS) and for the pings *)

\* The call in progress is over: a handler that has greeted goes on to read and
\* starts the heartbeat.
Resume(p) ==
  proc' = [q \in Procs |->
             IF q = p
             THEN [proc[p] EXCEPT !.pc = proc[p].ret, !.old = NoConn, !.fails = 0,
                                  !.answer = "none"]
             ELSE IF q = <<"beat", p[2]>> /\ proc[p].ret = "read"
             THEN [proc[q] EXCEPT !.pc = "tick"] ELSE proc[q]]

\* The user's connection of the moment is written to, whichever it is.
Greet(p) ==
  /\ At(p, "greet")
  /\ IF store[UserOfProc(p)] = NoConn \/ p[2] \notin Greeted
     THEN Resume(p)
     ELSE proc' = [proc EXCEPT ![p].old = store[UserOfProc(p)], ![p].fails = 1,
                               ![p].pc = "send"]
  /\ UNCHANGED <<store, conn, connCount, totalPending, writer, job, taken, fatal, history>>

\* A heartbeat that finds no connection waits for the next tick, for ever.
Tick(p) ==
  /\ At(p, "tick") /\ ~fatal
  /\ p[2] \in Pinged
  /\ proc[p].n = 0
  /\ store[UserOfProc(p)] # NoConn
  /\ proc' = [proc EXCEPT ![p].old = store[UserOfProc(p)], ![p].fails = 0, ![p].pc = "send"]
  /\ UNCHANGED <<store, conn, connCount, totalPending, writer, job, taken, fatal, history>>

SendItem(p) ==
  /\ At(p, "send")
  /\ ~conn[proc[p].old].closed /\ HasRoom(proc[p].old)
  /\ conn' = [conn EXCEPT ![proc[p].old].chan = Append(@, <<p, proc[p].n + 1>>)]
  /\ proc' = [proc EXCEPT ![p].n = @ + 1, ![p].answer = "none", ![p].pc = "inc"]
  /\ UNCHANGED <<store, connCount, totalPending, writer, job, taken, fatal, history>>

\* The channel was closed after the holder was loaded: the send panics.
SendPanics(p) ==
  /\ At(p, "send")
  /\ conn[proc[p].old].closed
  /\ IF p[1] = "handler" THEN Goto(p, "end") /\ UNCHANGED fatal
                         ELSE fatal' = TRUE /\ UNCHANGED proc
  /\ UNCHANGED <<store, conn, connCount, totalPending, writer, job, taken, history>>

\* Mutant of Failed: a write that fails is tried again, however often it has failed.
FailedAgain(p) == proc' = [proc EXCEPT ![p].fails = @ + 1, ![p].pc = "send"]
\* The greeting is not repeated, a ping once; then the connection is removed.
Failed(p) ==
  proc' = [proc EXCEPT ![p].fails = 1, ![p].pc = IF proc[p].fails = 0 THEN "send" ELSE "rload"]

SendTimeout(p) ==
  /\ At(p, "send")
  /\ ~conn[proc[p].old].closed /\ ~HasRoom(proc[p].old)
  /\ Failed(p)
  /\ UNCHANGED <<store, conn, connCount, totalPending, writer, job, taken, fatal, history>>

\* The sender adds to totalPending after the item is on the channel.
IncProc(p) ==
  /\ At(p, "inc")
  /\ totalPending' = totalPending + 1
  /\ Goto(p, "await")
  /\ UNCHANGED <<store, conn, connCount, writer, job, taken, fatal, history>>

\* The answer, or the time limit, whichever the select sees.
Await(p) ==
  /\ At(p, "await")
  /\ \/ /\ proc[p].answer = "ok"
        /\ IF p[1] = "handler" THEN Resume(p) ELSE Goto(p, "tick")
     \/ Failed(p)
  /\ UNCHANGED <<store, conn, connCount, totalPending, writer, job, taken, fatal, history>>

\* The read loop ends: the socket is closed, the peer leaves, or it says nothing
\* until the deadline.
ReadError(p) ==
  /\ At(p, "read") /\ ~fatal
  /\ proc' = [proc EXCEPT ![p].ret = "end", ![p].pc = "rload"]
  /\ UNCHANGED <<store, conn, connCount, totalPending, writer, job, taken, fatal, history>>
--------------------------------------------------------------------------------
(* RemoveConnection, by a handler or a heartbeat: of the connection the user  *)
(* has at the moment                                                          *)

LoadHolder(p) ==
  /\ At(p, "rload")
  /\ IF store[UserOfProc(p)] = NoConn
     THEN Resume(p)
     ELSE proc' = [proc EXCEPT ![p].old = store[UserOfProc(p)], ![p].pc = "rstop"]
  /\ UNCHANGED <<store, conn, connCount, totalPending, writer, job, taken, fatal, history>>

\* When closeCh is closed already, the panic also skips the drain.
StopHolder(p) ==
  /\ At(p, "rstop")
  /\ Goto(p, IF conn[proc[p].old].stopped THEN "rback" ELSE "rdrain")
  /\ conn' = [conn EXCEPT ![proc[p].old].stopped = TRUE]
  /\ UNCHANGED <<store, connCount, totalPending, writer, job, taken, fatal, history>>

\* Mutant of Uncounted: drained items stay counted.
UncountedNot(p) == 0
Uncounted(p) == Len(proc[p].held)

\* close(sendCh); the drained items come off totalPending.
CloseHolderCh(p) ==
  /\ At(p, "rcloseCh")
  /\ conn' = [conn EXCEPT ![proc[p].old].closed = TRUE]
  /\ totalPending' = totalPending - Uncounted(p)
  /\ Goto(p, "rback")
  /\ UNCHANGED <<store, connCount, writer, job, taken, fatal, history>>

\* Mutant of PostedBack: the drained messages are dropped.
PostedBackNot(p) == << >>
PostedBack(p) == proc[p].held

\* The drained messages are posted back to Send instances, one by one: each is
\* settled, whether that succeeds or not.  Greetings and pings are of no account.
BackDrained(p) ==
  /\ At(p, "rback")
  /\ Settle(PostedBack(p), UserOfProc(p))
  /\ conn' = [conn EXCEPT ![proc[p].old].sock = "closed"]
  /\ proc' = [proc EXCEPT ![p].held = << >>, ![p].pc = "rdelete"]
  /\ UNCHANGED <<store, connCount, totalPending, writer, job, taken, fatal>>

\* The user's entry is deleted, whichever connection it names by now.
UnstoreHolder(p) ==
  /\ At(p, "rdelete")
  /\ store' = [store EXCEPT ![UserOfProc(p)] = NoConn]
  /\ connCount' = connCount - 1
  /\ Resume(p)
  /\ UNCHANGED <<conn, totalPending, writer, job, taken, fatal, history>>
--------------------------------------------------------------------------------
(* writerLoop of connection c *)

\* An item may still be received after closeCh or sendCh is closed.
Receive(c) ==
  /\ writer[c].pc = "select"
  /\ conn[c].chan # << >>
  /\ writer' = [writer EXCEPT ![c] = [pc |-> "write", item |-> Head(conn[c].chan)]]
  /\ conn' = [conn EXCEPT ![c].chan = Tail(@)]
  /\ totalPending' = totalPending - 1
  /\ UNCHANGED <<store, connCount, proc, job, taken, fatal, history>>

WriterEnds(c) ==
  /\ writer[c].pc = "select"
  /\ conn[c].stopped \/ (conn[c].closed /\ conn[c].chan = << >>)
  /\ writer' = [writer EXCEPT ![c].pc = "ended"]
  /\ UNCHANGED <<store, conn, connCount, totalPending, proc, job, taken, fatal, history>>

\* The goroutine that waits for this very item, if any does, gets the result.
Answer(item, result) ==
  IF item \in Msgs THEN UNCHANGED proc
  ELSE LET p == item[1]
           awaits == proc[p].n = item[2] /\ proc[p].pc \in {"inc", "await"}
       IN  proc' = [proc EXCEPT ![p].answer = IF awaits THEN result ELSE @]

WriteOk(c) ==
  /\ writer[c].pc = "write"
  /\ conn[c].sock = "open"
  /\ Answer(writer[c].item, "ok")
  /\ Settle(<<writer[c].item>>, UserOf[c])
  /\ writer' = [writer EXCEPT ![c] = [pc |-> "select", item |-> NoMsg]]
  /\ UNCHANGED <<store, conn, connCount, totalPending, job, taken, fatal>>

\* The write fails: the message in hand is lost, the writer closes the socket
\* and leaves the rest of the channel to RemoveConnection.
WriteFails(c) ==
  /\ writer[c].pc = "write"
  /\ Answer(writer[c].item, "err")
  /\ Settle(<<writer[c].item>>, UserOf[c])
  /\ writer' = [writer EXCEPT ![c] = [pc |-> "ended", item |-> NoMsg]]
  /\ conn' = [conn EXCEPT ![c].sock = "closed"]
  /\ UNCHANGED <<store, connCount, totalPending, job, taken, fatal>>
--------------------------------------------------------------------------------
(* dispatchWorker: Dispatch, with EnqueueMessage for every target *)

Dispatch(d, m) ==
  /\ job[d].pc = "load" /\ job[d].todo = {}
  /\ m \notin taken
  /\ taken' = taken \cup {m}
  /\ job' = [job EXCEPT ![d].msg = m, ![d].todo = Targets[m]]
  /\ UNCHANGED <<store, conn, connCount, totalPending, writer, proc, fatal, history>>

\* A target without a connection: the message is posted back to a Send instance,
\* or that fails and it is lost.
PushBack(d, u) ==
  /\ job[d].pc = "load" /\ u \in job[d].todo
  /\ store[u] = NoConn
  /\ Settle(<<job[d].msg>>, u)
  /\ job' = [job EXCEPT ![d].todo = @ \ {u}]
  /\ UNCHANGED <<store, conn, connCount, totalPending, writer, proc, taken, fatal>>

LoadTarget(d, u) ==
  /\ job[d].pc = "load" /\ u \in job[d].todo
  /\ store[u] # NoConn
  /\ job' = [job EXCEPT ![d].todo = @ \ {u}, ![d].user = u, ![d].old = store[u],
                        ![d].pc = "send"]
  /\ UNCHANGED <<store, conn, connCount, totalPending, writer, proc, taken, fatal, history>>

\* The worker turns to its next target.
Turn(d) == job' = [job EXCEPT ![d].pc = "load", ![d].user = NoUser, ![d].old = NoConn]

Enqueue(d) ==
  /\ job[d].pc = "send"
  /\ ~conn[job[d].old].closed /\ HasRoom(job[d].old)
  /\ conn' = [conn EXCEPT ![job[d].old].chan = Append(@, job[d].msg)]
  /\ sent' = [sent EXCEPT ![job[d].user] = Append(@, job[d].msg)]
  /\ job' = [job EXCEPT ![d].pc = "inc"]
  /\ UNCHANGED <<store, connCount, totalPending, writer, proc, taken, fatal, settled>>

\* A worker blocked on a full channel panics too when the channel is closed.
EnqueuePanics(d) ==
  /\ job[d].pc = "send"
  /\ conn[job[d].old].closed
  /\ fatal' = TRUE
  /\ UNCHANGED <<store, conn, connCount, totalPending, writer, proc, job, taken, history>>

\* After 100 ms on a full channel the message goes to the user's wait queue.
EnqueueTimeout(d) ==
  /\ job[d].pc = "send"
  /\ ~conn[job[d].old].closed /\ ~HasRoom(job[d].old)
  /\ Settle(<<job[d].msg>>, job[d].user)
  /\ Turn(d)
  /\ UNCHANGED <<store, conn, connCount, totalPending, writer, proc, taken, fatal>>

IncDispatch(d) ==
  /\ job[d].pc = "inc"
  /\ totalPending' = totalPending + 1
  /\ Turn(d)
  /\ UNCHANGED <<store, conn, connCount, writer, proc, taken, fatal, history>>
--------------------------------------------------------------------------------
Register(p) ==
  \/ Connect(p) \/ LoadOld(p) \/ StopOld(p) \/ Drain(p, "drain", "closeCh")
  \/ CloseOldCh(p) \/ CloseOldConn(p) \/ UnstoreOld(p) \/ StoreNew(p)

Write(p) ==
  Greet(p) \/ SendItem(p) \/ SendPanics(p) \/ SendTimeout(p) \/ IncProc(p) \/ Await(p)

Remove(p) ==
  \/ LoadHolder(p) \/ StopHolder(p) \/ Drain(p, "rdrain", "rcloseCh")
  \/ CloseHolderCh(p) \/ BackDrained(p) \/ UnstoreHolder(p)

ProcStep(p) == ~fatal /\ (Register(p) \/ Write(p) \/ Remove(p))

WriterStep(c) == ~fatal /\ (Receive(c) \/ WriterEnds(c) \/ WriteOk(c) \/ WriteFails(c))

DispatchStep(d) ==
  /\ ~fatal
  /\ \/ \E m \in Msgs : Dispatch(d, m)
     \/ \E u \in Users : PushBack(d, u) \/ LoadTarget(d, u)
     \/ Enqueue(d) \/ EnqueuePanics(d) \/ EnqueueTimeout(d) \/ IncDispatch(d)

Next ==
  \/ \E p \in Procs : ProcStep(p) \/ Tick(p) \/ ReadError(p)
  \/ \E c \in Conns : WriterStep(c)
  \/ \E d \in Dispatchers : DispatchStep(d)

Spec == Init /\ [][Next]_vars

\* Goroutines are scheduled, blocked sends and waits time out, and a read of a
\* closed socket fails.  No client need ever connect, leave or be pinged.
Fairness ==
  /\ \A p \in Procs : /\ WF_vars(proc[p].pc # "connect" /\ ProcStep(p))
                      /\ WF_vars(conn[p[2]].sock = "closed" /\ ReadError(p))
  /\ \A c \in Conns : WF_vars(WriterStep(c))
  /\ \A d \in Dispatchers : WF_vars(DispatchStep(d))

FairSpec == Spec /\ Fairness
--------------------------------------------------------------------------------
(* Properties *)

\* Where message m for user u is: the workers that have yet to enqueue it ...
ToEnqueue(m, u) ==
  {d \in Dispatchers : /\ job[d].msg = m
                       /\ u \in job[d].todo \/ (job[d].user = u /\ job[d].pc = "send")}
\* ... the writers that have it in hand, and where it may be in line: on the channels and
\* in the drained lists.
InHand(m, u) == {c \in Conns : UserOf[c] = u /\ writer[c].item = m}
Chans == [c \in Conns |-> conn[c].chan]
Held == [p \in Procs |-> proc[p].held]
ConnsOf(u) == {c \in Conns : UserOf[c] = u}
ProcsOf(u) == {p \in Procs : UserOfProc(p) = u}

\* No message is lost track of and none is delivered twice: from the time a worker
\* takes it, it is for each of its targets in exactly one place, or settled once,
\* through reconnections, concurrent removals and drains of the same channel.
Accounted ==
  \A m \in taken : \A u \in Targets[m] :
    Cardinality(ToEnqueue(m, u)) + Cardinality(InHand(m, u)) + CopiesAt(Chans, ConnsOf(u), m)
      + CopiesAt(Held, ProcsOf(u), m) + settled[m][u] = 1

\* A connection's writer, and its channel after it, hold a user's messages in the
\* order in which they were enqueued, the ones migrated from an earlier connection
\* included: they are written in that order.
InOrder ==
  \A c \in Conns :
    LET line == <<writer[c].item>> \o conn[c].chan
        queued == sent[UserOf[c]]
    IN  \A i, j \in DOMAIN line : i < j /\ line[i] \in Msgs /\ line[j] \in Msgs =>
          \E k, l \in DOMAIN queued : k < l /\ queued[k] = line[i] /\ queued[l] = line[j]

\* Drained items come off totalPending before they are posted back.
Drained == [p \in Procs |-> IF At(p, "rback") THEN << >> ELSE proc[p].held]

\* totalPending, which throttles PullTask, counts the items on channels and in
\* drained lists, but for the goroutines that have sent and not yet added one.
PendingExact ==
  totalPending = Total(Chans) + Total(Drained)
                   - Cardinality({p \in Procs : At(p, "inc")})
                   - Cardinality({d \in Dispatchers : job[d].pc = "inc"})

\* Nobody is left to receive m: its connection's writer has ended and the
\* connection is closed, or no longer the user's.
Stranded(m, u) ==
  \E c \in Conns : /\ UserOf[c] = u
                   /\ writer[c].pc = "ended"
                   /\ Where(conn[c].chan, m) # {}
                   /\ conn[c].closed \/ store[u] # c

\* A message a worker takes is, for every target, written, posted back or put on
\* the wait queue (or fails to be), unless it is stranded or the process ends.
Settles ==
  \A m \in Msgs : \A u \in Targets[m] :
    m \in taken ~> settled[m][u] > 0 \/ Stranded(m, u) \/ fatal
================================================================================
