# GoStacker: a TLA+ verification project

GoStacker is a chat backend of six Go services around Redis and MySQL. This directory
holds TLA+ models of its core protocols, the TLC runs that check them on small instances,
and proofs, checked by TLAPS, of what holds for every instance. Every definition is
translated from the source under `src/`; `PROJECT.json` maps each to its lines.

## 1. Inventory

| Component | State | Operations | What makes it correct |
|---|---|---|---|
| Pending task manager (`pkg/pendingTask`) | per message id: `pending`, `failed`; 64 locked shards | `Init`, `DoneN`, `FailN`, callbacks | one verdict per message, the right one, after the last target |
| Send dispatch (`internal/send/push/dispatcher_gateway.go`) | `gatewayQueue`, `msg2sender`, local channels | `Dispatch_gateway`, `gatewayWorker` and its fallbacks | every target is on a stream, stored, or reported failed; ACK only when all are handled |
| Gateway connections (`internal/gateway/push/manager.go`, `user/ws/ws.go`) | `connStore`, per connection `sendCh`, `closeCh`, writer; `connCount`, `totalPending` | register with migration, remove, enqueue, write, heartbeat, read loop | no message lost track of or doubled over reconnections, order kept, throttle counter exact |
| Stream pull and ack cache (`pullTask.go`, `pkg/db/redis/AckCache.go`) | consumer group, `isPulling`, `taskChan`, ack channel | `pullLoop`, `PullTask`, `dispatchWorker`, flush worker | the stream is read to its end, each entry once; an id is acknowledged for no fewer settled targets than a count of it asked for |
| Reclaimer (`internal/msgflusher`) | cursor, claimed page | `runOnce`, `reclaimStream`, pushback, XACK | an entry leaves the pending list only when nobody needs it |
| Wait queue (`internal/gateway/push/channel_redis.go`) | `waitSet` per gateway, shared `wait:push:` lists, local channels | insert, `ListeningWaitQueue` (pop, retry, put back, unwatch) | no copy lost or made; a list with messages is watched; a waiting message is retried until delivered |
| Offline queues (`internal/send/push/channel_cache.go`, `pushback`, `pushnotify`) | `offline:push:` lists, route cache | insert, replay, pushback and notify handlers | a stored message reaches its user once, however he comes and goes |
| Message persistence (`internal/send/chat/send`, `cmd/flusher`) | Redis list, MySQL table | insert, flusher | no accepted message is missing from MySQL |
| Redis lists (`pkg/db/redis/redis.go`, `send_roles.go`) | the lists | `RPUSH`, `LPOP` with retries | what a repeated command can lose or make |
| Routes (`internal/registry/user`, `internal/send/route`) | route keys with TTL, local cache | connect, disconnect, lease, query | a connected user is routed to its gateway |
| Gateway and Send registries (`internal/registry/{gateway,send}`) | instance sets, records with TTL, load ranking | register, heartbeat, unregister, pick | a live instance with room is found |
| Group cache and flusher (`internal/meta/chat/group`) | member sets, dirty sets, tables | add, remove, query, write-back | a change reaches MySQL, nothing else is overwritten |
| Monitor (`pkg/monitor`, `pkg/db/redis/hook.go`) | task channel, ring, sums | `NewTask`, `CompleteTask`, `Run`, `GetStats` | the statistics are about the last tasks; measuring never blocks the measured |
| Users, mains, config, logging, response helpers | none of their own | | not modelled |

How they interact: an HTTP request to Send starts a dispatch; workers look routes up and
append one entry per gateway to the gateway's Redis stream, or store messages offline. The
gateway's pull loop reads its stream through a consumer group into `taskChan`; dispatch
workers put each message on the channels of the connected targets, post it back to Send for
the others, and park it on a wait queue when a channel is full. Writers write to the
sockets and report to a pending manager of their own, whose callback feeds the ack cache.
The msgflusher claims entries that stay pending. All components run concurrently; they
share `sync.Map`s, Go channels, atomics and Redis, and few steps are guarded as a whole.
What is hard is listed line by line in `PROJECT.json` under `hazards`. Where the code gives in to
a hazard, no property can hold against it: the hazard then has a note that says which model shows
it and under which name a property excepts it; the properties listed for it, if any, are those
that hold in spite of it.

## 2. Plan

1. `PendingTask`, `SendDispatch`, `AckPromise`: the ACK protocol. *Done, with proofs.*
2. `GatewayConn`: connections and their migration. *Done, with proofs.*
3. `StreamFlow`: pulling, completion, crash, reclaiming. *Done, with proofs.*
4. `GroupCache`: write-back of membership. *Done, with proofs.*
5. `Registry`: registration, heartbeats, routes and leases behind a retrying client. *Done,
   with proofs.*
6. `RedisList`, `WaitQueue`, `MsgStore`: the queues behind a slow or crashed consumer.
   *Done, with proofs.*
7. `OfflineQueue`: Send, registry, gateways and the offline list around a user who comes and
   goes, with cached routes and duplicated stream entries. *Done, with proofs.*
8. `Monitor`: the statistics every Redis command and SQL statement goes through. *Done, with
   proofs.*

Left: one module from dispatch to socket (`SendDispatch`, `OfflineQueue`, `StreamFlow` and
`GatewayConn` meet at a stream entry and at "the gateway of the user's connection", each
checked on its own side); nicknames and mutes in `GroupCache`.

## 3. Modules

### PendingTask, SendDispatch, AckPromise

`PendingTask` is `pkg/pendingTask/pendingTask.go`, one action per access another goroutine
can see: taking the shard's lock, storing the state, looking the id up, adding to `failed`,
adding to `pending`, deleting, calling back. `table` is the map, `heap` the `pendingState`
objects (a goroutine keeps the pointer it found), `mutex` the writers' lock, `call[t]` the
call goroutine `t` is in. `DoneN` and `FailN` read the map without the lock: reading it
while a writer is inside is a data race, whose outcomes are the old value, the new value,
a miss (`missed`) and the runtime's "concurrent map read and map write" (`fatal`).

`SendDispatch` INSTANCEs it and adds the Send service: requests run `Dispatch_gateway`
(batches, the bounded queue with its timeout, dropped targets reported at the end), workers
run `gatewayWorker` (routes, offline storage with the fallback to a local channel, one XADD
per gateway with the fallback to offline queues, reports). Targets of a request are
`1 .. Size[r]`. `place`, `counted`, `doneCb`, `failCb`, `acked` are history variables.

`AckPromise` is what the sender may rely on; `PromiseKept` says that `SendDispatch`
implements it under the refinement mapping `fate <- Fate`, `verdict <- Told`.

`SendDispatchInv` states the inductive invariant, `SendDispatch_proofs` holds the proofs,
`MCSendDispatch` the instances.

### GatewayConn

One gateway's connections. `conn[c]` is a `ConnectionHolder` (channel with capacity, both
closed flags, the socket), `store` is `connStore`, `proc[p]` the handler or heartbeat
goroutine of a connection with the holder (`old`) it once loaded, `writer[c]` the writer,
`job[d]` a dispatch worker. `RegisterConnection`, `RemoveConnection`, `WriteJSONSafe`,
`EnqueueMessage` and `writerLoop` are split at every access to shared state. A send on a
closed channel panics: `net/http` recovers it in a handler; in any other goroutine it ends
the process (`fatal`). `sent` and `settled` are history variables: what was enqueued for a user,
in order, and how often a message was written, posted back, parked or lost with its connection.
That `Conns` and `Dispatchers` are finite says that finitely many connections are accepted in a
run; their number is not bounded.

### StreamFlow

One gateway's stream from XADD on. `pel` and `idle` are the group's pending entries and
those old enough to be claimed; `loop`, `isPulling` and `taskChan` belong to
`pullLoop`/`PullTask`, whose three checks are three actions of a writer; `worker`, `beat`,
`channel`, `writer`, `totalPending` are the goroutines around the connections, without the
connections' own changes (see `GatewayConn`); what finds a channel full goes to the wait queue,
and out of this model (`Overflow`). `rec` is the reclaimer, whose page of claimed entries is a
set it goes through from the first on.

Completion is counted by message id, and entries may share one (`MsgId`): the parts of a message
for more than 100 targets, a message and the ACK of it, replayed batches, which are all -1, and
entries that a repeated XADD has doubled. `pending[e]` is the count that `Init` made for entry
`e`, `table[i]` the entry whose count the manager has under id `i`; a second `Init` for an id
(`TakeTask`) replaces the first. `Done` looks the id up, and `CountDown` is the rest of `DoneN`:
it goes on with the count the caller found (`call`), even when the table has another by now, and
may take it below zero; whoever finds nothing left deletes the id and puts it in `ackIds`, a set,
where the code's channel may hold an id twice. `PendingTask` has the finer steps.

`delivered`, `posted` and `gone` are history variables, the last one of what the gateway has let
go of: entries whose read was not answered, targets a post-back failed for, what a crash took
and what went to the wait queue. A post-back whose answer alone is lost counts as posted, and
not as done. `Held` counts the places
inside the gateway where an entry is for a target. Two conversions are modelled by what they do: the ack
cache holds message ids, which are no stream entry ids (`MessageId`, `EntryId`), so an XACK
of them takes nothing off `pel`; and the reclaimer decodes no targets from an entry
(`DecodedTargets`), because Send marshals `TargetIDs` and it looks for `target_ids`.

### GroupCache

Membership of rooms (`internal/meta/chat/group`), as Redis sets with dirty marks in front of
MySQL tables. A request is a *script*, the Redis commands and SQL statements its code issues,
in their order: `Serve` gives a handler the script of an offered request, `FlushKey` gives the
Flusher that of a key, and each action executes the head of a script, so those of different
processes interleave command by command. A reply that decides what comes next rewrites the
rest of the script (`ZScore`, `Load`, `Check`); an error abandons or shortens it as the code's
error paths do, whether or not the command took effect (`CommandFails`, `StatementFails`,
`SMembersFails`, `SIsMemberFails`). `cache[k]` is the set of key `k` (empty: no key),
`expiring` the keys with a TTL, `dirty` the marks, `role` and `joined` the tables, `phase` and
`todo` the Flusher's place in its round: stale rooms, stale users, dirty rooms, dirty users.
`doubtful` is a history variable: the keys whose set nothing will write back although it may
differ from the table. `IsRequest` says which scripts are requests: what is proved holds for
any set `Offered` of them, with any lists of users in `UserLists`, and the run offers eight.
There are three causes of doubt, and `Settled` says there is no fourth: a change
between the Flusher's read and its removal of the mark; a reader that fills a key with what has
meanwhile left the table; a request that fails before its ZADD.

### Registry

The Registry service (`internal/registry`), its HTTP client (`pkg/registry_client`) and their
users: the main functions and heartbeats of gateways and Send instances, clients that ask for a
gateway and connect, and the reports of `RegisterConnection` and `RemoveConnection`. As in
`GroupCache` a request is the list of Redis commands its code issues (`todo` of the handler's
`task`), executed one by one. A caller (`Main`, `Beat`, `Client`) makes a call of up to three
attempts (`Call`, `Attempt`, `GiveUp`); when it gives an attempt up (`NoAnswer`), dies (`Die`)
or its attempt never arrives (`AttemptLost`), the handler, if any, goes on alone, beside the
next attempt or a restarted process. `info`, `ranking`, `instances`, `route` are the Redis keys;
`stored` says which connection `connStore` holds (how it comes about is `GatewayConn`'s).

Two data are abstracted. Loads are left open, so any ranked gateway may be the first one. And a
record is there or not: the client reports `connections`, the service decodes
`connected_users`, so the number compared with the capacity is always 0.

`hidden`, `ghost`, `disputed` and `steady` are history variables; each names the exact events
that excuse an invariant. `Visible`, `Unlisted` and `Routed` thus say what can make an instance
invisible, leave traces of a stopped gateway, or misroute a connected user, and that nothing
else does: each of these events does happen in the run. They are the consequences of requests
that outlive their callers, of check-then-act on Redis, and of routes that nothing renews.
`Leased` has no excuse: the three reads of a lease need no lock.

### RedisList

The list commands as the services use them, through helpers that repeat a failed attempt
(`RPushWithRetry`, `LPopWithRetry`). An attempt is executed and answered (`"ok"`), executed
with its answer lost (`"lost"`), or not executed (`"failed"`), and the helper cannot tell the
last two apart. `Pushed`, `Popped`, `TriesAgain`, `GivesUp` and `Again` are the pieces the
three modules below build their actions from: each attempt is a step, for others use the list
in between. `Counting` defines `Copies`, `CopiesAmong` and `CopiesAt`, the numbers of places
where an item is in a list, in one of several lists, or in several lists of several, and
`Total`, the number of items in several lists: the properties of `StreamFlow`, `GatewayConn`
and of the queues are stated with them.

### WaitQueue

`internal/gateway/push/channel_redis.go`: messages for which a connection's channel had no
room. `list[u]` is `wait:push:<u>`, shared by all gateways; `waitSet[g]` and `local` are a
gateway's memory, `ins[m]` the dispatch worker inserting `m` (`Load`, `Store`, `Push`, `Park`),
`lis[g]` the listener (`Visit`, `Pop`, `Enqueue`, `PutBack`, `CheckLen`, `Remove`, `NextRound`).
A `sync.Map` is ranged over in the order of the keys' hashes, the same in every round:
`Order`. `Leave`, `Join` and `Restart` are connections and processes that end. `written`,
`gone` and `dup` count deliveries, lost and doubled copies; `unwatched` names the users whom a
restart, or a removal that raced with a push, took out of a set they belonged in.

### OfflineQueue

What becomes of the messages for one user who comes and goes, over four services: Send looks
his gateway up (`Look`, `Lookup`: its own cache, or the registry) and adds to the gateway's
stream (`XAdd`) or to the offline list (`Store`); a gateway without his connection posts an
entry back, in up to `Posts` requests of which each is up to `Retry` pushes (`Handle`, `PostBack`,
`PostUnheard`, `PostFails`); a connection is reported (`Report`, and `ReportRefused` when the
route is stored and the report answered 500) and told to Send (`Notify`), which replays the list (`Count`, `Pop`, `RouteBatch`, `XAddBatch`, `Back`). Entries
are `ClientMessage`s; a batch that is put back is marshalled as a JSON array, which no replay
can decode (`Unreadable`). A message is told by its content; its id, which `PushbackHandler`
rounds to a float64 because it decodes the message into an `interface{}` (`handler.go:16`), is no
part of it, for no step depends on it. A request that its sender has given up is not
carried out later (see `Registry` for that). `Count` has no lost answer: LLEN changes nothing. `Home` says which
gateways a connection may be made to and `Prior` which messages Send has done with when it
comes to one. The theorems hold for any; the run, where symmetry would be unsound, has the
first connection made to the first of two gateways that are alike, which loses nothing, and
one worker of Send with both messages, so that two workers of one user are left to the proofs,
as far as safety goes. So are the paths that need two failures in a row, such as an XADD and its
fallback: the run has one trouble.

### MsgStore

`internal/send/chat/send` and `cmd/flusher`: `req[m]` is the request to send `m`, `list` the
Redis list, `fl[f]` a flusher's round (`Tick`, `Pop`, `Full`, `Insert`, `PutBack`, `AllBack`),
`table` the MySQL table with its primary key `Id[m]`. A sender may choose a content that is longer
than the table's column (`Send`, `FitsText`), and the table refuses a batch with such a one, or
with an id that is there already (`Storable`). `KillSend` and `KillFlusher` end processes.
`Poisoned` names the state in which an id is there twice, or a content too long, so that every
batch with it fails.

### Monitor

`pkg/monitor/monitor.go`: callers make a task, complete it and send it over a bounded channel;
`Take` is one turn of the receiver's loop, under its lock: the old entries at the head go
(`Passes`), the oldest one too when the ring is full (`Overwritten`), the new one is stored
and the sums are adjusted. `runs` says whether anybody receives: `Run` is called for one
monitor of three. `inserted` and `last` are history variables. Durations are counted in
moments (`Took`).

## 4. Runs

| Run | Question | Bounds |
|---|---|---|
| `send_dispatch` | ACK, failure, counting, the proofs' invariant, refinement of `AckPromise` | two requests of two messages, the larger of two batches; two workers, queue of one |
| `send_live` | does every dispatch get its verdict | as above, batches of one, local channels full |
| `gateway_conn` | `Accounted`, `InOrder`, `PendingExact` over reconnections | one user, two connections, two messages, one worker, channel of two; one greeting |
| `gateway_live` | is every message settled | one connection, with greeting and heartbeat, two messages |
| `stream_flow` | `Accounted`, `AckCached` with two loops, a crash and the reclaimer | two entries with one id, three users, one worker, channels of one; the first entry may be claimed |
| `stream_live` | is the stream read to its end; `AckCached` where no entries share an id | two entries, two connections, one heartbeat, channels of one |
| `group_cache` | is an unmarked cached set what its table holds | two handlers, two requests, one failure, one room, two users, batches of one |
| `registry` | what stays true of listings, routes and leases, and what excuses the rest | two gateways, one Send instance, one user with two connections, two handlers; mixes of up to four calls and a fault |
| `wait_queue` | is a waiting message conserved, watched and retried | two gateways, two users of whom one reads, three messages, channels of one, two troubles |
| `offline` | is a message for an absent user conserved, fetched and delivered | two gateways, two connections, the first to a given one, two messages of one worker, two replays at a time, one trouble |
| `msg_store` | does an accepted message reach the table | two Send processes, two flushers, three messages of which two share an id and one may be too long, batches of two, two troubles |
| `monitor` | are the statistics exact; who can be blocked | four tasks, ring and channel of three, two moments, with and without a receiver |

Why the bounds are enough: each hazard needs two actors on one object (two workers
finishing one message, a registration against a removal, a writer's `PullTask` against a
loop that ends, two listeners on one list) and one item more than fits (a queue, batch, ring
or channel of one or two). Two of each, and capacities below the number of items, produce
every such meeting; symmetry is used for interchangeable workers or messages only, and in no
run with liveness. The named bounds in the modules are `Greeted`, `Pinged` (which greetings
and pings are not skipped), `Loops`, `Aged`, `MayBeLong`, `MaxCrashes`, `Size`, `Offered`, `Creations`,
`MaxOps`, `MaxFails`, `Budgets`, `MaxTroubles` (attempts that fail or lose their answer,
connections and processes that end), `Conns`, `Replays`, `Prior` and `MaxClock`: they limit how often
something happens and never remove a step from an operation. `Home`, `Reading`, `By`, `Id`, `MsgId`
and `Order` place the instances' data. In `group_cache` the age of a mark is left open, so the
Flusher may take any marked key for a stale one, and a key with a TTL may expire at once.
`registry` takes calls of instances alone, of clients alone, and mixes: a race of two instances'
requests needs two of the first kind (shutdown and restart, or a heartbeat), a race for a
route three of the second (two connects, one disconnect). `monitor` is small because what its
ring does is proved for every length; the liveness of its callers is not. Behaviours of the runs without
a deadlock check may end: all processes may be down, users gone, and nothing need be started.

### What the properties except, and what that says of the code

Several properties hold but for named causes; each of these does happen in the runs, and a
reader of the code should know of them.

* A resend under the id of a dispatch in progress replaces its counters, and reports of the
  first dispatch finish the second (`ResendHandler`, `Init`): the theorems on verdicts assume
  `NoResend`.
* A dispatch worker that loaded the old connection may enqueue between the end of a
  migration's drain and the close of the channel: that message stays behind (`Settles`).
* The reclaimer decodes no targets from an entry and acknowledges it: what a crashed gateway
  had read is lost (`Accounted` of `StreamFlow` counts it).
* A gateway counts and acknowledges by message id, which the entries of its stream share: a
  second `Init` replaces the count of the first entry, and two callers of `DoneN` that have found
  the same count may both take it to zero or below. Hence an id may be acknowledged twice, or
  with targets of one of its entries still owed, or never. `AckCached` says what is left: as many
  targets of the id are settled as *one* of its entries has, which is all of them when no other
  entry has the id. (As the ids are no stream entry ids, an early acknowledgement does no harm.)
* A removal from a room whose set is not cached marks the room dirty without loading it; the
  write-back of stale rooms then reads an empty set and deletes every row
  (`flusher.go`, `GroupCache` has the step).
* A removal marks the set of the user's rooms and does not make it persistent
  (`cache.go:136`), though "marking dirty protects the key from expiring" (`cache.go:76`). After
  a flush the set has a TTL of five seconds, as long as the Flusher's interval, and the round
  that finds it expired writes an empty list over the rooms the user is still in. A reader whose
  ZSCORE precedes a mark and whose EXPIRE follows it gives a marked set a TTL as well, of a
  day. `Settled` speaks of sets that are there and does not exclude this.
* `stream_live` holds thanks to the heartbeats alone: `PullTask` reads `isPulling` while a loop
  that has seen too much pending is about to clear it, and the wakeup is lost; nothing but the
  next item a writer takes - a ping, when no message is left - starts a loop again.
* `send_live` and `gateway_live` name in the property the ways in which the code does lose
  track: a racing map read, a worker blocked on a full local channel, a process ended by a
  panic, a message stranded on a channel without a writer.
* `RemoveWaitSet` follows LLEN: a message pushed in between is on a list nobody watches
  (`unwatched`), until the next message for that user or for ever.
* A put-back ends the listener's round (`return false`), and rounds start at the same user:
  one whose channel stays full, or who has left, keeps those after him from being served
  (`Hindered`), and the messages of a user who is gone go round for ever.
* A lost answer of LPOP loses the element, one of RPUSH or XADD doubles it, and one of INSERT
  puts stored ids back on the list, where every batch that holds one fails again (`Poisoned`);
  so do equal ids, which two Send processes, both snowflake node 1 (`repo.go:17`), can make.
* The content of a message is a TEXT, 65,535 bytes at most (`chat_message.sql:5`), and a text
  payload has no limit (`chatpayload.go:12`): a longer one is answered as sent, and every batch
  that holds it is put back, for ever (`Poisoned`).
* The worker's fallback after a failed XADD does not park what it cannot store, as
  `InsertOfflineQueue` does: the message is nowhere (`gone` of `OfflineQueue`). And when the batch
  lookup of routes fails, it drops those it had in its cache.
* A replayed batch that cannot be sent is put back as an array, which the next replay drops
  (`Conserved` of `OfflineQueue` counts it in `gone`). The replay's cap of fifty messages for a
  batch never applies, for nothing increases `nowSize` (`channel_cache.go:115-125`), and
  `MGetWithRetry` shadows its error, so that a failed lookup reads as "offline".
* `Run` is never called for the monitors of Redis and MySQL: after 1000 commands, or 100
  statements, `CompleteTask` blocks for ever (`Completes` names this case). The other modules
  describe processes that have not got that far.
* The monitor's full ring has its head at its tail, where the expiry loop ends at once:
  nothing expires until the ring is shorter again, which it never is (`Windowed`).

### Fairness

Weak fairness of every goroutine's steps: Go schedules runnable goroutines, channel
operations and HTTP or Redis calls return or time out, and the models' timeouts are steps
of the goroutine that waits. No client need ever connect, leave or send, and no crash,
aging or reclaiming need ever happen. `GatewayConn` assumes besides that a read of a closed
socket fails; `StreamFlow` that connections are pinged (a ticker) and, strongly, that the
reads of a loop are not empty-handed for ever while the stream has entries. In `WaitQueue`
only the clients of `Reading` take what is written to them; in `OfflineQueue`, `MsgStore` and
`Monitor` users need not come, messages need not be sent, time need not pass. Retries are
bounded, and so are troubles: after the last one the commands succeed, which is what
`Retried`, `Arrives` and `Written` rely on.

## 5. Proofs

Checked by TLAPS for every value of the constants that satisfies each module's assumption.

| Module | Theorems |
|---|---|
| `SendDispatch_proofs` | `TypeCorrect`; `Invariant`, `AckIsSound`, `FailIsSound`, `VerdictIsOnce`, `CounterIsExact`: `NoResend => (Spec => []...)`; `KeepsPromise`: `NoResend => (Spec => PromiseKept)` |
| `WaitQueue_proofs` | `Invariant`, `TypeCorrect`, `NothingLost` (`Conserved`), `AlwaysAttended` (`Attended`) |
| `OfflineQueue_proofs` | `Invariant`, `TypeCorrect`, `NothingLost` (`Conserved`), `ReplayStaysAwaited` (`StaysAwaited`) |
| `Stores_proofs` (`MsgStore`) | `Invariant`, `TypeCorrect`, `NothingLost` (`Conserved`) |
| `Stores_proofs` (`Monitor`) | `MonitorInvariant`, `MonitorTypeCorrect`, `StatsExact` (`Exact`), `WindowKept` (`Windowed`) |
| `Stores_proofs` (`GroupCache`) | `GroupInvariant`, `GroupTypeCorrect`, `CacheSettled` (`Settled`) |
| `StreamFlow_proofs` | `Invariant`, `TypeCorrect`, `NothingLost` (`Accounted`), `AcksAreSound` (`AckCached`) |
| `Registry_proofs` | `Invariant`, `TypeCorrect`, `InstancesVisible` (`Visible`), `ShutdownUnlisted` (`Unlisted`), `NewestRouted` (`Routed`), `LeaseReturned` (`Leased`) |
| `GatewayConn_proofs` | `Invariant`, `TypeCorrect`, `NothingLost` (`Accounted`), `WrittenInOrder` (`InOrder`), `PendingIsExact` (`PendingExact`) |
| `Counting_proofs` | lemmas on counting copies, used by `WaitQueue`, `OfflineQueue`, `MsgStore`, `StreamFlow` and `GatewayConn` |

`Stores_proofs` extends three modules that have no part in each other; what they would all
call `Init`, `Spec` or `TypeOK` carries the component's name in `Monitor` and `GroupCache`.

**Verdicts.** `NoResend` says that no two requests dispatch the same message id. It is
necessary: with two requests under one id TLC finds an acknowledgement for targets that are
still queued. None of the properties is inductive: that a callback may run follows from
where every target is. `IInv` follows a target from the member list to the counter: it is
in a batch not yet enqueued, in a queued sub-message, in exactly one set of the worker that
took it (`off`, `grp`, `doneSet`, `failSet`), or counted. From these it follows that counts
carried by calls are sizes of disjoint sets, hence that `pending` is the number of targets
not counted (`HeapOf`), hence that the call that brings it to zero is alone (`Alone`) and
leaves nothing (`ClosingOf`), hence that its verdict is right (`VerdictOf`). The proof has
one lemma per action and conjunct group; the arithmetic of batches and cardinalities is in
lemmas of its own. The refinement maps every step to one of `AckPromise` or to a stutter.

**Copies.** `Conserved` of `WaitQueue` and `MsgStore` is a balance: the places of a message's
copies, plus those written or lost, are one plus those doubled. `Counting_proofs` reduces
counting to cardinalities of sets of positions: what a push, a pop, the change of one list
among many or the merging of lists adds or takes. Each action then moves one copy, or the
action's own history entry pays for it. In `WaitQueue` this needs besides that a worker has
left the message exactly when it has no gateway; in `MsgStore`, that a stored message was
stored once because its id is a key (`Storable`) or counted in `dup`. In `OfflineQueue` the
entries of lists and streams are batches, so a step moves the copies of a whole sequence of
messages: the copies in a list of entries are those in the sequences of messages they carry
(`EntryMsgs`, `OnListOfMsgs`), and a batch that is merged, put back or dropped is counted as
one. What a worker and a replay hold at each stage (`SndOK`, `RepOK`) says that nothing is
held twice. That there are finitely many gateways and replays is assumed; how many is not.

**Replays.** `StaysAwaited` is about steps: a replay that is to come for a message is either
coming (`Coming`: the user is away, is being reported, or a replay has yet to read the length)
or will pop as far as the message (`Reached`). Reading the length makes `ToPop`, the pops all
replays have left, at least the length of the list; a pop takes one from `ToPop` and brings
each message one place nearer; a push puts an entry behind the others. The proof has a lemma
per kind of step, and only a failed attempt (`troubles`) is excepted.

**The stream.** `Accounted` speaks of entries that were read; its inductive form `Balance` says
of every entry and target that its places are one when the entry was read and none before, and
rests on the shape of what each goroutine holds: a loop has a batch exactly while it puts it on
`taskChan`, a worker turns only to targets of its entry, a connection carries only entries for
its user (`LoopOK`, `WorkerOK`, `WriterOK`). For `AckCached` a count cannot be tied to its
entry: a target of any entry of an id counts down whichever count is found, and a count that
several callers hold goes below zero. What is invariant is an inequality over the id: a count in
use, plus the targets of the id that are settled, is never less than the targets it began with,
plus the callers that are still to count down for that id (`Counted`), and no more callers are
under way than targets of the id are settled (`Backed`). `Init` satisfies it by `Backed`, `Done`
adds at most one caller for a target that is settled with it, `CountDown` takes one from the
count and one from the callers; and a count that has come to zero leaves as many settled targets
as it began with (`Acked`). Each action lemma moves one place to the next one; `Crash` moves what
is not settled to `gone`.

**Attendance.** `Attended` is not inductive: between LLEN and the removal a listener is about
to unwatch its user. The invariant adds who may be about to push for a watched user, and that
a listener that has seen the list empty will, if anybody has pushed since (`late`), put the
user into `unwatched` when it removes him.

**The ring.** `RingInv` says that the entries from head on are the last `count` insertions and
that tail is head plus `count`, modulo the length; `OnceInv` that a task goes through the
channel once, so that no entry is in the ring twice; `SumInv` that the sums are those of the
ring's entries. The modular arithmetic is in lemmas on indices (`Ahead`, `Shifted`, `Apart`,
`NextTail`), `TakeStep` puts the receiver's step in terms of entries, and the sums follow from
the disjoint union of what stays and what comes. `Windowed` follows at each step from the
entry at which the expiry loop stopped.

**Requests.** What the registry promises follows from what its handlers have still to
execute, so its invariant is about scripts. `TasksInv` says that the rest of a request is a
suffix of what one of the service's functions issues (`OfKind`, with the sets of suffixes
`Registering`, `Removing`, `Connecting`, `Leaving`, `Finding` and so on), that a request whose
caller still waits is the one its caller's state calls for (`CallOK`), and that no two handlers
serve one caller; `NodesInv` ties the callers to what their processes and connections are
doing. On these rest four parts, one for each property. `VisibleInv`: a registration that will
still put an instance into the set will put a gateway into the ranking as well, if it is not
there. `UnlistedInv`: of a gateway that is shutting down, a handler that serves its Unregister
has removed what it no longer has to remove (`Removed`), so that nothing is left when the
answer is OK. `RoutedInv`: the route is right from the SET of the report on, before the caller
knows (`Connected`), because a report that has gone past it is answered OK or not at all.
`LeasedInv`: while a user's route is live, the handler that leases it is at one of three
places, with the gateway in its script or found (`LeaseFinds`). The proof has a lemma about
each function's script (`GoesKind`: a step leads from a script to one of its kind), then three
forms of a step: a handler goes on (`Moves`), a task begins (`Begins`), or tasks stay, go on
without callers, or end (`Fewer`); what a form disturbs is proved once for all its actions.

**Write-back.** `Settled` speaks of a set that nobody is still to mark, so its invariant is
about what is left of a request (`Served`, proved of every request from the commands it is made
of). A change of a set is followed by the mark of that set, with no other change of it in
between (`Promised`); nothing that may end a script early - a check, a read - comes between a
change and its mark (`Guarded`); and a request never removes a mark (`Proper`). Hence a script
that goes on, or is rewritten by a reply, still owes every mark it owed (`Owed`), and one that
fails owes marks only for keys that become `doubtful`. The Flusher has a script of its own
(`FlushOK`): the key it is at is marked until its last command, and what it has read, if
anything, is the table once it has written it, so that removing the mark leaves a set that is either what was
written or was changed since, which makes it doubtful. `Agrees` is `Settled` with `Owed` in
place of `Unmarked`, and follows at each step for each key: a command touches one key, a
statement changes the table of a marked key only. That the absence of a row (`NoRow`) is no
role is assumed.

**Connections.** Everything a goroutine of a gateway does rests on a pointer it loaded some time
ago, so none of `Accounted`, `InOrder` and `PendingExact` is inductive. `Shape` says what such a
pointer is worth: it names a connection of the goroutine's own user that has been registered
(`Born`), a connection not yet registered has an empty channel and no writer (hence `StoreNew`,
which overwrites the channel, loses nothing), only goroutines between a drain and what follows
it hold items, and a handler's heartbeat does not run before the handler has greeted.
`Balanced` extends `Accounted` to messages no worker has taken and to users who are no targets:
of these there is none anywhere. `Ordered` says that what a writer has in hand, then its
channel, and what a goroutine has drained, then the rest of the channel it drains, are in the
order of `sent`: a drained list becomes the channel of the next connection, and what is put
after it is enqueued later. Two goroutines may
drain the same channel at once: each of their lists is in order, which is why the property is
about each list with the channel and not about the lists together. The proof treats handlers and
heartbeats by what a step does to the lists - most move no item (`Walks`), some take from or
add to one (`Moves`, `Leaves`) -, writers by `BalanceSum`, workers by `JobKeeps`.

Every invariant a run checks is stated by a theorem. Only model-checked: all liveness
(fairness and `ENABLED` are outside what the prover handles).
Nothing is stated of recursively defined operators: the models use none.

## 6. Not modelled

`PROJECT.json` lists every component with its reason.

* User accounts, tokens and password hashing (one statement per request), start-up,
  configuration, logging, routing tables and HTTP plumbing.
* The standalone mode of Send (`dispatcher_standalone.go`, `manager.go`, `ws.go`): nothing
  serves its WebSocket route, and its connections and wait queue are copies of the gateway's.
* The center WebSocket client (`center_client/ws`), which no service starts.
* Retries inside go-redis and the MySQL driver; an attempt here is what the services' helpers see.
* Nicknames, mutes and the room search: single statements on columns nothing else reads.
* `DeleteUserRoute` and the pending manager's `Delete`, which nothing calls.
* `UnregisterSendInstance`: it is deferred in Send's `main`, which is never returned from.
  SIGINT and SIGTERM are caught by the monitor (`waitForShutdown`), which cancels its own
  context and does not end the process, and other ends are not returns.

* Requests that outlive their callers, outside `Registry`: in `OfflineQueue` and `WaitQueue` an
  attempt has had its effect, or never will, before the next one.

Abstracted inside the modules: payloads and their encodings, but for the conversions named
above, message ids in `OfflineQueue`, and the registry's view of which gateways live (outside `Registry`).
