------------------------------- MODULE StreamFlow -------------------------------
(***************************************************************************)
(* The Redis stream of one gateway, from XADD to the last word on an       *)
(* entry.  The gateway's pull loops read it through its consumer group     *)
(* (internal/gateway/push/pullTask.go), dispatch workers put each entry on *)
(* the channels of its connected targets and post it back to Send for the  *)
(* others, the connections' writers write it, and completion reaches the   *)
(* ack cache (pkg/db/redis/AckCache.go).  A pull loop ends when too much   *)
(* is pending; only decPending, called by a writer for each item it takes, *)
(* starts another: heartbeat pings, which are such items, keep it going.   *)
(* The msgflusher claims entries that stay pending                         *)
(* (internal/msgflusher/reclaimer.go).  The gateway may crash and restart. *)
(*                                                                         *)
(* Completion is counted by message id, which entries of one stream may    *)
(* share: the parts of a message for more than 100 targets                 *)
(* (internal/send/push/dispatcher_gateway.go), a message and the ACK of    *)
(* it, replayed batches (all -1, channel_cache.go there), and an XADD that *)
(* was repeated.  DoneN is two steps of its caller, the lookup of the      *)
(* count and all the rest; PendingTask takes it apart further.             *)
(*                                                                         *)
(* Connections do not come and go here (see GatewayConn), and what a full  *)
(* channel sends to the wait queue leaves this model (see WaitQueue).      *)
(***************************************************************************)
EXTENDS Integers, Sequences, FiniteSets, SequencesExt, FiniteSetsExt, Counting

CONSTANTS
  Size,          \* bound: the entries ever added to the stream, 1 .. Size
  Users,
  Online,        \* the users with a connection to this gateway
  Targets,       \* Targets[e]: the users entry e is for
  MsgId,         \* MsgId[e]: the id of the message in entry e
  Loops,         \* bound: pullLoop goroutines that may run at a time
  Workers,       \* dispatchWorker goroutines
  PullBatch,     \* batchSize of an XREADGROUP
  ChanCap,       \* capacity of taskChan
  SendCap,       \* capacity of a connection's send channel
  PullLimit,     \* PullTask skips when more tasks are in taskChan
  Threshold,     \* thresholdPending
  AckCap,        \* capacity of the ack cache
  ClaimBatch,    \* batch size of an XAUTOCLAIM
  MaxCrashes,    \* bound: crashes of the gateway
  Aged,          \* bound: the entries that may be pending long enough to be claimed
  Pinged,        \* bound: the users whose heartbeat pings, one ping at a time
  NoEntry, Ping

Entries == 1 .. Size
Ids == {MsgId[e] : e \in Entries}

\* The goroutines that report a target done: workers, and the writer of a user.
Callers == Workers \cup Users

ASSUME StreamAssumption ==
  /\ Size \in Nat
  /\ IsFiniteSet(Users) /\ Online \subseteq Users
  /\ IsFiniteSet(Loops) /\ Loops # {} /\ IsFiniteSet(Workers) /\ Workers \cap Users = {}
  /\ Targets \in [Entries -> (SUBSET Users) \ {{}}]
  /\ PullBatch \in Nat \ {0} /\ ClaimBatch \in Nat \ {0} /\ ChanCap \in Nat \ {0}
  /\ SendCap \in Nat
  /\ PullLimit \in Nat /\ Threshold \in Nat /\ AckCap \in Nat /\ MaxCrashes \in Nat
  /\ Aged \subseteq Entries /\ Pinged \subseteq Online
  /\ NoEntry \notin Entries /\ Ping \notin Entries /\ Ping # NoEntry

VARIABLES
  added,         \* entries 1 .. added are in the stream
  lastRead,      \* last delivered entry of the consumer group
  pel,           \* the group's pending entries
  idle,          \* those of them pending long enough to be claimed
  up,            \* the gateway process runs
  crashes,
  isPulling,
  loop,          \* the pullLoop goroutines and the entries they hold
  taskChan,
  worker,        \* the dispatch workers
  beat,          \* beat[u]: u's heartbeat has sent a ping and not yet added it up
  channel,       \* channel[u]: the send channel of u's connection
  writer,        \* the connections' writers, in decPending or writing
  totalPending,
  pending,       \* pending[e]: the count that Init made when e was dispatched
  table,         \* table[i]: the entry whose count DefaultPendingManager has for id i
  call,          \* call[c]: the entry whose count goroutine c found and will count down
  ackIds,        \* ids in the ack cache
  rec,           \* the reclaimer
  delivered,     \* history: delivered[e][u]: times entry e was written to u
  posted,        \* history: posted[e][u]: times e was posted back to Send for u
  gone           \* history: pairs of an entry and a target that the gateway let go of,
                 \* or put in the wait queue

streamVars == <<added, lastRead, pel, idle>>
pullVars == <<isPulling, loop, taskChan>>
countVars == <<pending, table, call, ackIds>>
workVars == <<worker, beat, channel, writer, totalPending, countVars>>
history == <<delivered, posted, gone>>
vars == <<streamVars, up, crashes, pullVars, workVars, rec, history>>

LoopType == [pc : {"off", "start", "check", "read", "put", "return"}, batch : Seq(Entries)]
WorkerType == [entry : Entries \cup {NoEntry}, todo : SUBSET Users, inc : BOOLEAN]
WriterType == [pc : {"select", "pulling", "room", "load", "write"},
               entry : Entries \cup {NoEntry, Ping}]
RecType == [pc : {"idle", "claim", "entry", "ack"}, start : Nat, more : BOOLEAN,
            page : SUBSET Entries]

TypeOK ==
  /\ added \in 0 .. Size /\ lastRead \in 0 .. added
  /\ pel \subseteq Entries /\ idle \subseteq pel
  /\ up \in BOOLEAN /\ crashes \in 0 .. MaxCrashes
  /\ isPulling \in BOOLEAN
  /\ loop \in [Loops -> LoopType]
  /\ taskChan \in Seq(Entries) /\ Len(taskChan) <= ChanCap
  /\ worker \in [Workers -> WorkerType]
  /\ beat \in [Users -> BOOLEAN]
  /\ channel \in [Users -> Seq(Entries \cup {Ping})]
  /\ writer \in [Users -> WriterType]
  /\ totalPending \in Int
  /\ pending \in [Entries -> Int]
  /\ table \in [Ids -> Entries \cup {NoEntry}]
  /\ call \in [Callers -> Entries \cup {NoEntry}]
  /\ rec \in RecType
  /\ delivered \in [Entries -> [Users -> Nat]]
  /\ posted \in [Entries -> [Users -> Nat]]
  /\ gone \subseteq Entries \X Users

NoLoop == [pc |-> "off", batch |-> << >>]
NoWork == [entry |-> NoEntry, todo |-> {}, inc |-> FALSE]
Reading == [pc |-> "select", entry |-> NoEntry]
Waiting == [pc |-> "idle", start |-> 0, more |-> FALSE, page |-> {}]

\* A gateway that has just started (InitStreamAndGroup): one pull loop is on its way.
FirstLoop == CHOOSE l \in Loops : TRUE
FirstLoops ==
  [l \in Loops |-> IF l = FirstLoop THEN [NoLoop EXCEPT !.pc = "start"] ELSE NoLoop]
NoneYet == [u \in Users |-> 0]

Init ==
  /\ added = 0 /\ lastRead = 0 /\ pel = {} /\ idle = {}
  /\ up = TRUE /\ crashes = 0
  /\ isPulling = FALSE /\ loop = FirstLoops /\ taskChan = << >>
  /\ worker = [w \in Workers |-> NoWork]
  /\ beat = [u \in Users |-> FALSE]
  /\ channel = [u \in Users |-> << >>]
  /\ writer = [u \in Users |-> Reading]
  /\ totalPending = 0
  /\ pending = [e \in Entries |-> 0]
  /\ table = [i \in Ids |-> NoEntry]
  /\ call = [c \in Callers |-> NoEntry]
  /\ ackIds = {}
  /\ rec = Waiting
  /\ delivered = [e \in Entries |-> NoneYet]
  /\ posted = [e \in Entries |-> NoneYet]
  /\ gone = {}
--------------------------------------------------------------------------------
(* The stream: Send appends entries, and time passes over pending ones *)

Add ==
  /\ added < Size
  /\ added' = added + 1
  /\ UNCHANGED <<lastRead, pel, idle, up, crashes, pullVars, workVars, rec, history>>

Age(e) ==
  /\ e \in (pel \cap Aged) \ idle
  /\ idle' = idle \cup {e}
  /\ UNCHANGED <<added, lastRead, pel, up, crashes, pullVars, workVars, rec, history>>
--------------------------------------------------------------------------------
(* pullLoop, by goroutine l *)

LoopStart(l) ==
  /\ loop[l].pc = "start"
  /\ isPulling' = TRUE
  /\ loop' = [loop EXCEPT ![l].pc = "check"]
  /\ UNCHANGED <<streamVars, up, crashes, taskChan, workVars, rec, history>>

Overloaded == totalPending > Threshold

\* Too much pending: the loop is over.
Check(l) ==
  /\ loop[l].pc = "check"
  /\ loop' = [loop EXCEPT ![l].pc = IF Overloaded THEN "return" ELSE "read"]
  /\ UNCHANGED <<streamVars, up, crashes, isPulling, taskChan, workVars, rec, history>>

\* The entries a read hands over, and the last of them.
LastOf == Min({added, lastRead + PullBatch})
NextBatch == lastRead + 1 .. LastOf

Pairs(es) == {p \in es \X Users : p[2] \in Targets[p[1]]}

\* XREADGROUP hands over new entries, or its reply is lost and the entries are
\* pending with a consumer that never saw them.
Read(l) ==
  /\ loop[l].pc = "read"
  /\ lastRead < added
  /\ lastRead' = LastOf
  /\ pel' = pel \cup NextBatch
  /\ \/ /\ loop' = [loop EXCEPT ![l] = [pc |-> "put",
                                       batch |-> [i \in 1 .. LastOf - lastRead |->
                                                    lastRead + i]]]
        /\ UNCHANGED gone
     \/ /\ loop' = [loop EXCEPT ![l].pc = "check"]
        /\ gone' = gone \cup Pairs(NextBatch)
  /\ UNCHANGED <<added, idle, up, crashes, isPulling, taskChan, workVars, rec, delivered,
                 posted>>

\* The read times out, or fails.
ReadNothing(l) ==
  /\ loop[l].pc = "read"
  /\ loop' = [loop EXCEPT ![l].pc = "check"]
  /\ UNCHANGED <<streamVars, up, crashes, isPulling, taskChan, workVars, rec, history>>

\* Mutant of TaskRoom: off by one.
TaskRoomOneMore == Len(taskChan) <= ChanCap
TaskRoom == Len(taskChan) < ChanCap

Put(l) ==
  /\ loop[l].pc = "put"
  /\ TaskRoom
  /\ taskChan' = Append(taskChan, Head(loop[l].batch))
  /\ loop' = [loop EXCEPT ![l] = [pc |-> IF Len(@.batch) = 1 THEN "check" ELSE "put",
                                  batch |-> Tail(@.batch)]]
  /\ UNCHANGED <<streamVars, up, crashes, isPulling, workVars, rec, history>>

\* Mutant of PullingAfter: the deferred reset is missing.
PullingAfterStays == isPulling
PullingAfter == FALSE

Return(l) ==
  /\ loop[l].pc = "return"
  /\ isPulling' = PullingAfter
  /\ loop' = [loop EXCEPT ![l].pc = "off"]
  /\ UNCHANGED <<streamVars, up, crashes, taskChan, workVars, rec, history>>
--------------------------------------------------------------------------------
(* Dispatch, by worker w *)

\* The history h, in which entry e has reached its end for u once more.
OnceMore(h, e, u) == [h EXCEPT ![e][u] = @ + 1]

Free(c) == call[c] = NoEntry

\* Init: the count of e replaces the one that the id had, which goroutines that have
\* found it go on counting down.
TakeTask(w) ==
  /\ worker[w] = NoWork /\ Free(w)
  /\ taskChan # << >>
  /\ LET e == Head(taskChan)
     IN  /\ pending' = [pending EXCEPT ![e] = Cardinality(Targets[e])]
         /\ table' = [table EXCEPT ![MsgId[e]] = e]
         /\ worker' = [worker EXCEPT ![w] = [entry |-> e, todo |-> Targets[e], inc |-> FALSE]]
  /\ taskChan' = Tail(taskChan)
  /\ UNCHANGED <<streamVars, up, crashes, isPulling, loop, beat, channel, writer,
                 totalPending, call, ackIds, rec, history>>

\* Done, called by c for a target of entry e, looks the id up: it may find the count
\* of another entry, or nothing, and then it returns.
Done(c, e) ==
  /\ call' = [call EXCEPT ![c] = table[MsgId[e]]]
  /\ UNCHANGED <<pending, table, ackIds>>

\* The id DoneFunc puts in the ack cache is the message's, not the stream entry's.
MessageId(i) == <<"message", i>>
EntryId(e) == <<"entry", e>>

\* Mutant of NothingLeft: the count is one short.
NothingLeftButOne(left) == left <= 1
NothingLeft(left) == left <= 0

\* DoneN goes on with the count it found.  Every call that leaves nothing, or less,
\* deletes the id, whatever count it has by now, and calls DoneFunc.
CountDown(c) ==
  /\ ~Free(c)
  /\ LET e == call[c]
     IN  /\ pending' = [pending EXCEPT ![e] = @ - 1]
         /\ IF NothingLeft(pending'[e])
            THEN /\ table' = [table EXCEPT ![MsgId[e]] = NoEntry]
                 /\ ackIds' = IF Cardinality(ackIds) < AckCap
                              THEN ackIds \cup {MessageId(MsgId[e])} ELSE ackIds
            ELSE UNCHANGED <<table, ackIds>>
  /\ call' = [call EXCEPT ![c] = NoEntry]
  /\ UNCHANGED <<streamVars, up, crashes, pullVars, worker, beat, channel, writer,
                 totalPending, rec, history>>

\* The target worker w may turn to.
Turns(w, u) == u \in worker[w].todo /\ ~worker[w].inc /\ Free(w)
Turn(w, u) ==
  worker' = [worker EXCEPT ![w] = IF @.todo = {u} THEN NoWork
                                  ELSE [@ EXCEPT !.todo = worker[w].todo \ {u}]]

\* The target is connected.
Enqueue(w, u) ==
  /\ Turns(w, u) /\ u \in Online
  /\ Len(channel[u]) < SendCap
  /\ channel' = [channel EXCEPT ![u] = Append(@, worker[w].entry)]
  /\ worker' = [worker EXCEPT ![w] = [entry |-> @.entry, todo |-> @.todo \ {u},
                                      inc |-> TRUE]]
  /\ UNCHANGED <<streamVars, up, crashes, pullVars, beat, writer, totalPending, countVars, rec,
                 history>>

\* incPending follows the send on the channel.
Inc(w) ==
  /\ worker[w].inc
  /\ totalPending' = totalPending + 1
  /\ worker' = [worker EXCEPT ![w] = IF @.todo = {} THEN NoWork ELSE [@ EXCEPT !.inc = FALSE]]
  /\ UNCHANGED <<streamVars, up, crashes, pullVars, beat, channel, writer, countVars,
                 rec, history>>

\* The channel stays full for the timeout: the message goes to the wait queue.
Overflow(w, u) ==
  /\ Turns(w, u) /\ u \in Online
  /\ Len(channel[u]) >= SendCap
  /\ Turn(w, u)
  /\ gone' = gone \cup {<<worker[w].entry, u>>}
  /\ UNCHANGED <<streamVars, up, crashes, pullVars, beat, channel, writer, totalPending,
                 countVars, rec, delivered, posted>>

\* Mutant of NotPosted: the target is counted as done.
NotPostedDone(w, e) == Done(w, e)
NotPosted(w, e) == UNCHANGED countVars

\* The target is not connected: the message is posted back; that fails; or only its
\* answer is lost.
PostBack(w, u) ==
  /\ Turns(w, u) /\ u \notin Online
  /\ Turn(w, u)
  /\ LET e == worker[w].entry
     IN  \/ /\ posted' = OnceMore(posted, e, u)
            /\ Done(w, e) \/ NotPosted(w, e)
            /\ UNCHANGED gone
         \/ /\ gone' = gone \cup {<<e, u>>}
            /\ NotPosted(w, e)
            /\ UNCHANGED posted
  /\ UNCHANGED <<streamVars, up, crashes, pullVars, beat, channel, writer, totalPending,
                 rec, delivered>>
--------------------------------------------------------------------------------
(* writerLoop of user u, with decPending and PullTask *)

WriterAt(u, pc) == writer[u].pc = pc /\ Free(u)
WriterTo(u, pc) == writer' = [writer EXCEPT ![u].pc = pc]

Receive(u) ==
  /\ WriterAt(u, "select")
  /\ channel[u] # << >>
  /\ writer' = [writer EXCEPT ![u] = [pc |-> "pulling", entry |-> Head(channel[u])]]
  /\ channel' = [channel EXCEPT ![u] = Tail(@)]
  /\ totalPending' = totalPending - 1
  /\ UNCHANGED <<streamVars, up, crashes, pullVars, worker, beat, countVars, rec,
                 history>>

\* PullTask gives up when a loop runs or the channel is nearly full.
AskPulling(u) ==
  /\ WriterAt(u, "pulling")
  /\ WriterTo(u, IF isPulling THEN "write" ELSE "room")
  /\ UNCHANGED <<streamVars, up, crashes, pullVars, worker, beat, channel, totalPending,
                 countVars, rec, history>>

AskRoom(u) ==
  /\ WriterAt(u, "room")
  /\ WriterTo(u, IF Len(taskChan) > PullLimit THEN "write" ELSE "load")
  /\ UNCHANGED <<streamVars, up, crashes, pullVars, worker, beat, channel, totalPending,
                 countVars, rec, history>>

\* go pullLoop(), while the bound Loops leaves a goroutine for it.
AskLoad(u) ==
  /\ WriterAt(u, "load")
  /\ WriterTo(u, "write")
  /\ IF Overloaded \/ \A l \in Loops : loop[l].pc # "off"
     THEN UNCHANGED loop
     ELSE \E l \in Loops : /\ loop[l].pc = "off"
                           /\ loop' = [loop EXCEPT ![l].pc = "start"]
  /\ UNCHANGED <<streamVars, up, crashes, isPulling, taskChan, worker, beat, channel,
                 totalPending, countVars, rec, history>>

Write(u) ==
  /\ WriterAt(u, "write")
  /\ writer[u].entry # Ping
  /\ delivered' = OnceMore(delivered, writer[u].entry, u)
  /\ Done(u, writer[u].entry)
  /\ writer' = [writer EXCEPT ![u] = Reading]
  /\ UNCHANGED <<streamVars, up, crashes, pullVars, worker, beat, channel, totalPending, rec,
                 posted, gone>>

WritePing(u) ==
  /\ WriterAt(u, "write")
  /\ writer[u].entry = Ping
  /\ writer' = [writer EXCEPT ![u] = Reading]
  /\ UNCHANGED <<streamVars, up, crashes, pullVars, worker, beat, channel, totalPending,
                 countVars, rec, history>>

\* The heartbeat of u's connection: the ping goes through the channel, and its
\* sender waits for the result.
Beat(u) ==
  /\ u \in Pinged /\ ~beat[u]
  /\ Len(channel[u]) < SendCap
  /\ Ping \notin ToSet(channel[u]) /\ writer[u].entry # Ping
  /\ channel' = [channel EXCEPT ![u] = Append(@, Ping)]
  /\ beat' = [beat EXCEPT ![u] = TRUE]
  /\ UNCHANGED <<streamVars, up, crashes, pullVars, worker, writer, totalPending, countVars, rec,
                 history>>

BeatInc(u) ==
  /\ beat[u]
  /\ totalPending' = totalPending + 1
  /\ beat' = [beat EXCEPT ![u] = FALSE]
  /\ UNCHANGED <<streamVars, up, crashes, pullVars, worker, channel, writer, countVars,
                 rec, history>>

\* cacheFlushWorker: XACK takes the entries with these ids off the pending list.
Flush ==
  /\ ackIds # {}
  /\ pel' = {e \in pel : EntryId(e) \notin ackIds}
  /\ idle' = idle \cap pel'
  /\ ackIds' = {}
  /\ UNCHANGED <<added, lastRead, up, crashes, pullVars, worker, beat, channel, writer,
                 totalPending, pending, table, call, rec, history>>
--------------------------------------------------------------------------------
(* The gateway process ends, with all that it has not settled, and starts again *)

Settled(e, u) == delivered[e][u] + posted[e][u] > 0

Crash ==
  /\ up /\ crashes < MaxCrashes
  /\ up' = FALSE
  /\ crashes' = crashes + 1
  /\ gone' = gone \cup {p \in Pairs(1 .. lastRead) : ~Settled(p[1], p[2])}
  /\ isPulling' = FALSE /\ loop' = FirstLoops /\ taskChan' = << >>
  /\ worker' = [w \in Workers |-> NoWork]
  /\ beat' = [u \in Users |-> FALSE]
  /\ channel' = [u \in Users |-> << >>]
  /\ writer' = [u \in Users |-> Reading]
  /\ totalPending' = 0
  /\ pending' = [e \in Entries |-> 0]
  /\ table' = [i \in Ids |-> NoEntry]
  /\ call' = [c \in Callers |-> NoEntry]
  /\ ackIds' = {}
  /\ UNCHANGED <<streamVars, rec, delivered, posted>>

Restart ==
  /\ ~up
  /\ up' = TRUE
  /\ UNCHANGED <<streamVars, crashes, pullVars, workVars, rec, history>>
--------------------------------------------------------------------------------
(* The reclaimer *)

RunOnce ==
  /\ rec.pc = "idle"
  /\ rec' = [rec EXCEPT !.pc = "claim", !.start = 0]
  /\ UNCHANGED <<streamVars, up, crashes, pullVars, workVars, history>>

\* XAUTOCLAIM: the first idle entries from the cursor on are the reclaimer's, and
\* their idle time starts again.
Claimable == {e \in idle : e >= rec.start}
Claimed == {e \in Claimable : Cardinality({f \in Claimable : f <= e}) <= ClaimBatch}

Claim ==
  /\ rec.pc = "claim"
  /\ rec' = IF Claimed = {} THEN Waiting
            ELSE [rec EXCEPT !.pc = "entry", !.page = Claimed, !.more = Claimed # Claimable]
  /\ idle' = idle \ Claimed
  /\ UNCHANGED <<added, lastRead, pel, up, crashes, pullVars, workVars, history>>

\* The entry at hand, and the loop's turn to the next one, or to the next page.
First(e) == e \in rec.page /\ \A f \in rec.page : e <= f
NextEntry(e) ==
  rec' = IF rec.page # {e} THEN [rec EXCEPT !.pc = "entry", !.page = @ \ {e}]
         ELSE IF rec.more THEN [Waiting EXCEPT !.pc = "claim", !.start = e + 1]
         ELSE Waiting

\* Mutant of DecodedTargets: the targets are decoded.
DecodedTargetsAll(e) == Targets[e]
\* Send marshals PushMessage without field tags; the reclaimer looks for
\* "target_ids" and finds no target.
DecodedTargets(e) == {}

\* The entry is posted back for each target, up to the first that fails.
Forward ==
  /\ rec.pc = "entry"
  /\ \E e \in Entries : \E done \in SUBSET DecodedTargets(e) :
        /\ First(e)
        /\ posted' = [posted EXCEPT ![e] = [u \in Users |-> IF u \in done THEN @[u] + 1
                                                            ELSE @[u]]]
        /\ IF done = DecodedTargets(e) THEN rec' = [rec EXCEPT !.pc = "ack"]
           ELSE NextEntry(e)
  /\ UNCHANGED <<streamVars, up, crashes, pullVars, workVars, delivered, gone>>

\* XACK, which may fail.
Ack ==
  /\ rec.pc = "ack"
  /\ \E e \in Entries : /\ First(e)
                        /\ \/ pel' = pel \ {e}
                           \/ UNCHANGED pel
                        /\ NextEntry(e)
  /\ idle' = idle \cap pel'
  /\ UNCHANGED <<added, lastRead, up, crashes, pullVars, workVars, history>>

\* A command fails, or the msgflusher is stopped and started again.
Abandon ==
  /\ rec.pc # "idle"
  /\ rec' = Waiting
  /\ UNCHANGED <<streamVars, up, crashes, pullVars, workVars, history>>
--------------------------------------------------------------------------------
LoopStep(l) ==
  up /\ (LoopStart(l) \/ Check(l) \/ Read(l) \/ ReadNothing(l) \/ Put(l) \/ Return(l))

WorkerStep(w) ==
  /\ up
  /\ \/ TakeTask(w) \/ Inc(w) \/ CountDown(w)
     \/ \E u \in Users : Enqueue(w, u) \/ Overflow(w, u) \/ PostBack(w, u)

WriterStep(u) ==
  /\ up
  /\ \/ Receive(u) \/ AskPulling(u) \/ AskRoom(u) \/ AskLoad(u)
     \/ Write(u) \/ WritePing(u) \/ CountDown(u)

BeatStep(u) == up /\ (Beat(u) \/ BeatInc(u))

Reclaim == RunOnce \/ Claim \/ Forward \/ Ack \/ Abandon

Next ==
  \/ Add \/ \E e \in Entries : Age(e)
  \/ \E l \in Loops : LoopStep(l)
  \/ \E w \in Workers : WorkerStep(w)
  \/ \E u \in Users : WriterStep(u) \/ BeatStep(u)
  \/ up /\ Flush
  \/ Crash \/ Restart
  \/ Reclaim

Spec == Init /\ [][Next]_vars

\* The gateway's goroutines are scheduled and connections pinged, and a loop's reads
\* do not come back empty-handed for ever while there are entries.
Fairness ==
  /\ \A l \in Loops : WF_vars(LoopStep(l)) /\ SF_vars(up /\ Read(l))
  /\ \A w \in Workers : WF_vars(WorkerStep(w))
  /\ \A u \in Users : WF_vars(WriterStep(u)) /\ WF_vars(BeatStep(u))

FairSpec == Spec /\ Fairness
--------------------------------------------------------------------------------
(* Properties *)

One(b) == IF b THEN 1 ELSE 0

\* How often the gateway has entry e for user u: with a pull loop, in taskChan, with
\* a worker that has yet to turn to u, on u's channel, at u's writer.
Batches == [l \in Loops |-> loop[l].batch]
Dealing(e, u) == {w \in Workers : worker[w].entry = e /\ u \in worker[w].todo}
Held(e, u) ==
  CopiesAmong(Batches, e) + Copies(taskChan, e) + Cardinality(Dealing(e, u))
  + Copies(channel[u], e) + One(writer[u].entry = e)

\* However many loops run, every entry handed out by the group is for each of its
\* targets in one place of the gateway, or written, posted back or gone once.  No
\* ack of the gateway takes an entry off the pending list, so the reclaimer claims
\* delivered ones too: it is only because it posts nothing that none arrives twice.
Accounted ==
  \A e \in 1 .. lastRead : \A u \in Targets[e] :
    Held(e, u) + delivered[e][u] + posted[e][u] + One(<<e, u>> \in gone) = 1

\* The targets of the entries with message id i that are written to or posted back for.
SettledFor(i) == {p \in Pairs(Entries) : MsgId[p[1]] = i /\ Settled(p[1], p[2])}

\* The gateway takes a message for done only when it has written it or posted it back
\* for as many targets as an entry with the id has: all of its targets, when no other
\* entry has the id.  An id that entries share may be done with targets still owed,
\* and more than once, but never for less than what one of the counts asked for.
AckCached ==
  \A i \in Ids : MessageId(i) \in ackIds =>
    \E e \in 1 .. lastRead : /\ MsgId[e] = i
                             /\ Cardinality(SettledFor(i)) >= Cardinality(Targets[e])

\* "Each Gateway consumes its own Redis Stream" (readme.md): the entries of the
\* stream are read in the end, unless the gateway crashes.  PullTask may find
\* isPulling still set by a loop that is about to return, or taskChan nearly full:
\* nobody pulls then until a writer takes its next item, be it a ping.
Pulled == lastRead < added ~> lastRead = added \/ ~up
================================================================================
