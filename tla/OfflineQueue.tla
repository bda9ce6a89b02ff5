------------------------------ MODULE OfflineQueue ------------------------------
(***************************************************************************)
(* What becomes of the messages for one user who comes and goes, across    *)
(* the services.                                                           *)
(*                                                                         *)
(* Send looks the user's gateway up, in its own route cache or in the      *)
(* registry (internal/send/route), and adds the message to the gateway's   *)
(* stream, or puts it on the list "offline:push:<user>" in Redis           *)
(* (internal/send/push).  A gateway that gets a message for a user it has  *)
(* no connection of posts it back to a Send instance (centerclient.go),    *)
(* which puts it on that list (internal/send/pushback).  When the user     *)
(* connects, the gateway reports it to the registry, which stores the      *)
(* route and tells a Send instance (internal/registry/user), and that      *)
(* starts a replay of the list (internal/send/pushnotify, PushOfflineMess- *)
(* ages of channel_cache.go).  Each Redis command and HTTP request may be  *)
(* lost or lose its answer, and is retried; one that was given up is not   *)
(* carried out later.                                                      *)
(*                                                                         *)
(* A message is told here by its content.  Its id is no part of it: nobody *)
(* reads the id on this way, and PushbackHandler, which takes the message  *)
(* as an interface{}, rounds it to a float64.                              *)
(*                                                                         *)
(* A message that reaches the gateway of the user's connection counts as   *)
(* delivered here (see GatewayConn and WaitQueue), and a stream is read to *)
(* its end (see StreamFlow).                                               *)
(***************************************************************************)
EXTENDS RedisList

CONSTANTS
  Gateways,
  Msgs,          \* the messages sent to the user
  Prior,         \* bound: Prior[m]: the messages Send has done with when it comes to m
  Conns,         \* bound: the connections he makes, 1 .. Conns
  Home,          \* bound: Home[c]: the gateways connection c may be made to
  Replays,       \* bound: PushOfflineMessages goroutines that run at a time
  Retry,         \* attempts of a Redis command (2)
  Posts,         \* attempts to post a message back (3)
  Notes,         \* attempts to tell Send of a connection (2)
  Reports,       \* attempts to report a connection (3)
  MaxTroubles,   \* bound: requests that all fail, or lose their answer
  Nowhere

ASSUME OfflineAssumption ==
  /\ IsFiniteSet(Gateways) /\ IsFiniteSet(Replays)
  /\ Prior \in [Msgs -> SUBSET Msgs]
  /\ Conns \in Nat /\ Home \in [1 .. Conns -> SUBSET Gateways]
  /\ {Retry, Posts, Notes, Reports} \subseteq Nat \ {0}
  /\ MaxTroubles \in Nat
  /\ Nowhere \notin Gateways

VARIABLES
  at,            \* the gateway the user is connected to
  conns,         \* connections made so far
  link,          \* link[c]: the report of connection c
  notes,         \* notes[t]: goroutines of the registry with t attempts left
  route,         \* the registry's route for the user
  cache,         \* the route in Send's cache
  snd,           \* snd[m]: the worker of Send that has message m
  stream,        \* stream[g]: the entries on g's stream
  gwk,           \* gwk[g]: the dispatch worker of g, whose request is being handled
  list,          \* the list offline:push:<user>
  local,         \* offlineMsg, for when Redis is down; nobody receives
  rep,           \* the replays
  troubles,
  delivered,     \* history: delivered[m]: times m reached the user's gateway
  gone,          \* history: gone[m]: copies of m no one has any more
  dup            \* history: dup[m]: copies of m made by requests that were repeated

regVars == <<at, conns, link, notes, route>>
history == <<delivered, gone, dup>>
vars == <<regVars, cache, snd, stream, gwk, list, local, rep, troubles, history>>

Places == Gateways \cup {Nowhere}

\* A list entry is a ClientMessage, of one message or of a batch; or a JSON array of
\* messages, which a replay puts back and no replay can read.
ListEntry == [msgs : Seq(Msgs), array : BOOLEAN]
Readable(ms) == [msgs |-> ms, array |-> FALSE]
Unreadable(ms) == [msgs |-> ms, array |-> TRUE]

SndType == [pc : {"new", "xadd", "rpush", "fallback", "done"}, to : Places, tries : Nat]
PostType == [msgs : Seq(Msgs), posts : 0 .. Posts, tries : 0 .. Retry]
RepType == [pc : {"off", "len", "pop", "route", "xadd", "back"}, left : Nat,
            acc : Seq(Msgs), info : BOOLEAN, to : Places, tries : Nat]

TypeOK ==
  /\ at \in Places /\ conns \in 0 .. Conns
  /\ link \in [1 .. Conns -> [gw : Places, tries : 0 .. Reports]]
  /\ notes \in [1 .. Notes -> Nat]
  /\ route \in Places /\ cache \in Places
  /\ snd \in [Msgs -> SndType]
  /\ stream \in [Gateways -> Seq(Seq(Msgs))]
  /\ gwk \in [Gateways -> PostType]
  /\ list \in Seq(ListEntry)
  /\ local \subseteq Msgs
  /\ rep \in [Replays -> RepType]
  /\ troubles \in 0 .. MaxTroubles
  /\ delivered \in [Msgs -> Nat] /\ gone \in [Msgs -> Nat] /\ dup \in [Msgs -> Nat]

Reported == [gw |-> Nowhere, tries |-> 0]
Sending(pc) == [pc |-> pc, to |-> Nowhere, tries |-> 0]
NoPost == [msgs |-> << >>, posts |-> 0, tries |-> 0]
Posting(ms, posts) == [msgs |-> ms, posts |-> posts, tries |-> Retry]
NoReplay == [pc |-> "off", left |-> 0, acc |-> << >>, info |-> FALSE, to |-> Nowhere,
             tries |-> 0]

Init ==
  /\ at = Nowhere /\ conns = 0
  /\ link = [c \in 1 .. Conns |-> Reported]
  /\ notes = [t \in 1 .. Notes |-> 0]
  /\ route = Nowhere /\ cache = Nowhere
  /\ snd = [m \in Msgs |-> Sending("new")]
  /\ stream = [g \in Gateways |-> << >>]
  /\ gwk = [g \in Gateways |-> NoPost]
  /\ list = << >> /\ local = {}
  /\ rep = [r \in Replays |-> NoReplay]
  /\ troubles = 0
  /\ delivered = [m \in Msgs |-> 0] /\ gone = [m \in Msgs |-> 0] /\ dup = [m \in Msgs |-> 0]

Trouble == troubles < MaxTroubles /\ troubles' = troubles + 1
Attempt(o) == IF o = "ok" THEN UNCHANGED troubles ELSE Trouble

Plus(count, ms) == [m \in Msgs |-> count[m] + Copies(ms, m)]
\* The caller still has ms in hand, which are stored.
Doubled(ms, o) == IF o = "lost" THEN Plus(dup, ms) ELSE dup

--------------------------------------------------------------------------------
(* The user, his gateways' reports and the registry. *)

Connect(g) ==
  /\ conns < Conns /\ conns' = conns + 1
  /\ g \in Home[conns + 1]
  /\ at' = g
  /\ link' = [link EXCEPT ![conns + 1] = [gw |-> g, tries |-> Reports]]
  /\ UNCHANGED <<notes, route, cache, snd, stream, gwk, list, local, rep, troubles, history>>

\* The route stays until it expires.
Disconnect ==
  /\ at # Nowhere
  /\ at' = Nowhere
  /\ UNCHANGED <<conns, link, notes, route, cache, snd, stream, gwk, list, local, rep,
                 troubles, history>>

\* ConnectHandler starts a goroutine that tells Send.
Told == [notes EXCEPT ![Notes] = @ + 1]

\* ReportUserConnect and ConnectHandler: the route is stored and Send is to be told.
Report(c, o) ==
  /\ link[c].tries > 0
  /\ Attempt(o)
  /\ link' = [link EXCEPT ![c] = IF TriesAgain(o, @.tries) THEN Again(@)
                                 ELSE Reported]
  /\ IF o = "failed" THEN UNCHANGED <<route, notes>>
     ELSE route' = link[c].gw /\ notes' = Told
  /\ UNCHANGED <<at, conns, cache, snd, stream, gwk, list, local, rep, history>>

\* RecordUserConnect stores the route without hearing so, and the handler answers 500:
\* Send is not told, and the report is repeated.
ReportRefused(c) ==
  /\ link[c].tries > 0
  /\ Trouble
  /\ route' = link[c].gw
  /\ link' = [link EXCEPT ![c] = IF @.tries > 1 THEN Again(@) ELSE Reported]
  /\ UNCHANGED <<at, conns, notes, cache, snd, stream, gwk, list, local, rep, history>>

\* Nothing renews the route of a user who stays connected (service.go:61).
RouteExpires ==
  /\ route # Nowhere
  /\ route' = Nowhere
  /\ UNCHANGED <<at, conns, link, notes, cache, snd, stream, gwk, list, local, rep, troubles,
                 history>>

FreeReplays == {r \in Replays : rep[r].pc = "off"}

\* LLEN is tried twice, and after 100 ms twice again.
Started == [NoReplay EXCEPT !.pc = "len", !.tries = 2 * Retry]

\* NotifyOnlineHandler starts a replay for each request that reaches it.
Notify(t, o) ==
  /\ notes[t] > 0
  /\ Attempt(o)
  /\ notes' = [u \in 1 .. Notes |->
                 notes[u] - (IF u = t THEN 1 ELSE 0)
                          + (IF TriesAgain(o, t) /\ u = t - 1 THEN 1 ELSE 0)]
  /\ IF o = "failed" THEN UNCHANGED rep
     ELSE \E r \in FreeReplays : rep' = [rep EXCEPT ![r] = Started]
  /\ UNCHANGED <<at, conns, link, route, cache, snd, stream, gwk, list, local, history>>

\* GetRandomSendInstance finds none.
NotifyNobody(t) ==
  /\ notes[t] > 0 /\ t = Notes
  /\ Trouble
  /\ notes' = [notes EXCEPT ![t] = @ - 1]
  /\ UNCHANGED <<at, conns, link, route, cache, snd, stream, gwk, list, local, rep, history>>

--------------------------------------------------------------------------------
(* Looking the user's gateway up. *)

\* What MGET finds, whatever gateway the user is connected to by now.
BatchGetUserRoutes == route

\* GetUserGateway and BatchGetUserGateways: the cached route, or the registry's,
\* which is cached when there is one.
Lookup(g) ==
  /\ g = IF cache # Nowhere THEN cache ELSE BatchGetUserRoutes
  /\ cache' = g
  /\ UNCHANGED troubles

\* The registry does not answer, or its MGET fails, which MGetWithRetry does not
\* report (redis.go:223 shadows err): the user counts as offline.
LookupFails(g) ==
  /\ cache = Nowhere /\ g = Nowhere
  /\ Trouble
  /\ UNCHANGED cache

\* One answer missing fails BatchGetUserGateways, and with it the routes gatewayWorker
\* has in the cache: a message has other targets (dispatcher_gateway.go:146-151).
BatchLookupFails(g) ==
  /\ g = Nowhere
  /\ Trouble
  /\ UNCHANGED cache

\* After LocalRouteCacheTTL, or evicted.
CacheExpires ==
  /\ cache # Nowhere
  /\ cache' = Nowhere
  /\ UNCHANGED <<regVars, snd, stream, gwk, list, local, rep, troubles, history>>

--------------------------------------------------------------------------------
(* gatewayWorker, for a message. *)

Look(m) ==
  /\ snd[m].pc = "new"
  /\ \A k \in Prior[m] : snd[k].pc = "done"
  /\ \E g \in Places :
       /\ Lookup(g) \/ BatchLookupFails(g)
       /\ snd' = [snd EXCEPT ![m] = [pc |-> IF g = Nowhere THEN "rpush" ELSE "xadd",
                                     to |-> g, tries |-> Retry]]
  /\ UNCHANGED <<regVars, stream, gwk, list, local, rep, history>>

\* XADD to the gateway's stream; the offline list when the attempts have failed.
XAdd(m, o) ==
  /\ snd[m].pc = "xadd"
  /\ Attempt(o)
  /\ stream' = [stream EXCEPT ![snd[m].to] = Pushed(@, <<m>>, o)]
  /\ snd' = [snd EXCEPT ![m] =
               IF TriesAgain(o, @.tries) THEN Again(@)
               ELSE IF Answers(o) THEN Sending("done")
               ELSE [pc |-> "fallback", to |-> Nowhere, tries |-> Retry]]
  /\ dup' = Doubled(<<m>>, o)
  /\ UNCHANGED <<regVars, cache, gwk, list, local, rep, delivered, gone>>

\* InsertOfflineQueue for a user without a route, and the worker's own RPUSH after an
\* XADD that failed.  When the attempts have failed, the first puts the message into the
\* local channel, and the second counts a failed target and has done with it (:218-222).
Store(m, o) ==
  /\ snd[m].pc \in {"rpush", "fallback"}
  /\ Attempt(o)
  /\ list' = Pushed(list, Readable(<<m>>), o)
  /\ snd' = [snd EXCEPT ![m] = IF TriesAgain(o, @.tries) THEN Again(@)
                               ELSE Sending("done")]
  /\ local' = IF GivesUp(o, snd[m].tries) /\ snd[m].pc = "rpush"
              THEN local \cup {m} ELSE local
  /\ gone' = IF GivesUp(o, snd[m].tries) /\ snd[m].pc = "fallback"
             THEN Plus(gone, <<m>>) ELSE gone
  /\ dup' = Doubled(<<m>>, o)
  /\ UNCHANGED <<regVars, cache, stream, gwk, rep, delivered>>

--------------------------------------------------------------------------------
(* A gateway takes an entry off its stream. *)

Handle(g) ==
  /\ gwk[g] = NoPost /\ stream[g] # << >>
  /\ stream' = [stream EXCEPT ![g] = Tail(@)]
  /\ IF at = g THEN /\ delivered' = Plus(delivered, Head(stream[g]))
                    /\ UNCHANGED gwk
               ELSE /\ gwk' = [gwk EXCEPT ![g] = Posting(Head(stream[g]), Posts)]
                    /\ UNCHANGED delivered
  /\ UNCHANGED <<regVars, cache, snd, list, local, rep, troubles, gone, dup>>

\* SendPushBackRequest: the next request, when there is one.  An entry that cannot be
\* posted back stays in the stream's pending list.
PostAgain(g) ==
  LET ms == gwk[g].msgs IN
  IF gwk[g].posts > 1
  THEN gwk' = [gwk EXCEPT ![g] = Posting(ms, @.posts - 1)] /\ UNCHANGED gone
  ELSE gwk' = [gwk EXCEPT ![g] = NoPost] /\ gone' = Plus(gone, ms)

\* PushbackHandler: one RPUSH, after which the request is answered, or handled further.
PostBack(g, o) ==
  LET ms == gwk[g].msgs IN
  /\ gwk[g].posts > 0
  /\ Attempt(o)
  /\ list' = Pushed(list, Readable(ms), o)
  /\ CASE Answers(o) -> gwk' = [gwk EXCEPT ![g] = NoPost] /\ UNCHANGED gone
       [] TriesAgain(o, gwk[g].tries) ->
            gwk' = [gwk EXCEPT ![g] = Again(@)] /\ UNCHANGED gone
       [] OTHER -> PostAgain(g)
  /\ dup' = Doubled(ms, o)
  /\ UNCHANGED <<regVars, cache, snd, stream, local, rep, delivered>>

\* The message was pushed, and the gateway does not hear so.
PostUnheard(g) ==
  LET ms == gwk[g].msgs IN
  /\ gwk[g].posts > 0
  /\ Trouble
  /\ list' = Append(list, Readable(ms))
  /\ PostAgain(g)
  /\ dup' = Plus(dup, ms)
  /\ UNCHANGED <<regVars, cache, snd, stream, local, rep, delivered>>

\* No Send instance is listed, or the registry does not answer, or none of the requests
\* that are left arrives.
PostFails(g) ==
  /\ gwk[g].posts > 0 /\ gwk[g].tries = Retry
  /\ Trouble
  /\ gwk' = [gwk EXCEPT ![g] = NoPost]
  /\ gone' = Plus(gone, gwk[g].msgs)
  /\ UNCHANGED <<regVars, cache, snd, stream, list, local, rep, delivered, dup>>

--------------------------------------------------------------------------------
(* PushOfflineMessages. *)

\* Mutant of Flush: the batch is not pushed.
FlushNot(acc) == NoReplay
\* The loop has ended: what has been read is pushed as one batch.
Flush(acc) ==
  IF acc = << >> THEN NoReplay
  ELSE [NoReplay EXCEPT !.pc = "route", !.acc = acc]

\* Mutant of Reading: the loop has no end.
ReadingOn(left, acc) ==
  [NoReplay EXCEPT !.pc = "pop", !.left = left, !.acc = acc, !.tries = Retry]
\* The loop goes on, or has come to its end.
Reading(left, acc) ==
  IF left = 0 THEN Flush(acc)
  ELSE [NoReplay EXCEPT !.pc = "pop", !.left = left, !.acc = acc, !.tries = Retry]

\* Mutant of LenOfList: off by one.
LenOfListLess == IF list = << >> THEN 0 ELSE Len(list) - 1
\* The number of entries the loop pops.
LenOfList == Len(list)

Count(r, o) ==
  /\ rep[r].pc = "len" /\ o # "lost"
  /\ Attempt(o)
  /\ rep' = [rep EXCEPT ![r] =
               IF TriesAgain(o, @.tries) THEN Again(@)
               ELSE IF Answers(o) THEN Reading(LenOfList, << >>) ELSE NoReplay]
  /\ UNCHANGED <<regVars, cache, snd, stream, gwk, list, local, history>>

\* LPOP: an empty list ends the loop; an array is dropped; when the attempts have
\* failed the user is informed and the loop ends.
Pop(r, o) ==
  LET left == rep[r].left
      acc == rep[r].acc
  IN
  /\ rep[r].pc = "pop"
  /\ Attempt(o)
  /\ list' = Popped(list, o)
  /\ rep' = [rep EXCEPT ![r] =
       IF TriesAgain(o, @.tries) THEN Again(@)
       ELSE IF ~ Answers(o)
       THEN [@ EXCEPT !.pc = "route", !.left = 0, !.info = TRUE, !.tries = 0]
       ELSE IF list = << >> THEN Flush(acc)
       ELSE Reading(left - 1, IF Head(list).array THEN acc ELSE acc \o Head(list).msgs)]
  /\ gone' = IF list # << >> /\ (o = "lost" \/ (o = "ok" /\ Head(list).array))
             THEN Plus(gone, Head(list).msgs) ELSE gone
  /\ UNCHANGED <<regVars, cache, snd, stream, gwk, local, delivered, dup>>

\* PushSingleViaGateway: the batch, or the info, of which an error is ignored, is for
\* the stream of the user's gateway.  A batch that cannot be pushed is put back.
AfterPush(r) == IF rep[r].info THEN Flush(rep[r].acc) ELSE NoReplay
NotPushed(r) ==
  IF rep[r].info THEN Flush(rep[r].acc)
  ELSE [rep[r] EXCEPT !.pc = "back", !.to = Nowhere, !.tries = Retry]

RouteBatch(r) ==
  /\ rep[r].pc = "route"
  /\ \E g \in Places :
       /\ Lookup(g) \/ LookupFails(g)
       /\ rep' = [rep EXCEPT ![r] = IF g = Nowhere THEN NotPushed(r)
                                    ELSE [@ EXCEPT !.pc = "xadd", !.to = g, !.tries = Retry]]
  /\ UNCHANGED <<regVars, snd, stream, gwk, list, local, history>>

XAddBatch(r, o) ==
  LET ms == IF rep[r].info THEN << >> ELSE rep[r].acc IN
  /\ rep[r].pc = "xadd"
  /\ Attempt(o)
  /\ stream' = [stream EXCEPT ![rep[r].to] = Pushed(@, ms, o)]
  /\ rep' = [rep EXCEPT ![r] =
               IF TriesAgain(o, @.tries) THEN Again(@)
               ELSE IF Answers(o) THEN AfterPush(r) ELSE NotPushed(r)]
  /\ dup' = Doubled(ms, o)
  /\ UNCHANGED <<regVars, cache, snd, gwk, list, local, delivered, gone>>

\* json.Marshal(messages): an array.
Back(r, o) ==
  /\ rep[r].pc = "back"
  /\ Attempt(o)
  /\ list' = Pushed(list, Unreadable(rep[r].acc), o)
  /\ rep' = [rep EXCEPT ![r] = IF TriesAgain(o, @.tries) THEN Again(@)
                               ELSE NoReplay]
  /\ dup' = Doubled(rep[r].acc, o)
  /\ gone' = IF GivesUp(o, rep[r].tries) THEN Plus(gone, rep[r].acc) ELSE gone
  /\ UNCHANGED <<regVars, cache, snd, stream, gwk, local, delivered>>

--------------------------------------------------------------------------------
Registry ==
  \/ \E c \in 1 .. Conns : ReportRefused(c) \/ \E o \in Outcomes : Report(c, o)
  \/ \E t \in 1 .. Notes : NotifyNobody(t) \/ \E o \in Outcomes : Notify(t, o)

Dispatch(m) == \E o \in Outcomes : XAdd(m, o) \/ Store(m, o)

Gateway(g) ==
  Handle(g) \/ PostUnheard(g) \/ PostFails(g) \/ \E o \in Outcomes : PostBack(g, o)

Replay(r) ==
  \/ RouteBatch(r)
  \/ \E o \in Outcomes : Count(r, o) \/ Pop(r, o) \/ XAddBatch(r, o) \/ Back(r, o)

Next ==
  \/ \E g \in Gateways : Connect(g) \/ Gateway(g)
  \/ Disconnect \/ RouteExpires \/ CacheExpires \/ Registry
  \/ \E m \in Msgs : Look(m) \/ Dispatch(m)
  \/ \E r \in Replays : Replay(r)

Spec == Init /\ [][Next]_vars

\* The goroutines of the services run.
Fairness ==
  /\ WF_vars(Registry)
  /\ \A m \in Msgs : WF_vars(Dispatch(m))
  /\ \A g \in Gateways : WF_vars(Gateway(g))
  /\ \A r \in Replays : WF_vars(Replay(r))

FairSpec == Spec /\ Fairness

--------------------------------------------------------------------------------
(* Properties. *)

OnList(m) == CopiesAmong([i \in DOMAIN list |-> list[i].msgs], m)
OnStreams(m) == SizeAmong([g \in Gateways |-> Spots(stream[g], m)])
InHands(m) ==
    (IF snd[m].pc = "done" THEN 0 ELSE 1)
  + CopiesAmong([g \in Gateways |-> gwk[g].msgs], m)
  + CopiesAmong([r \in Replays |-> rep[r].acc], m)
Parked(m) == IF m \in local THEN 1 ELSE 0

\* Between Send, the streams, the gateways, the offline list and its replays, every
\* copy of a message is somewhere, and there are no more of them than requests that
\* were repeated though they had been carried out.  Where none is (troubles = 0), a
\* message is delivered at most once, and lost only in a batch that was put back as
\* an array.
Conserved ==
  \A m \in Msgs :
    InHands(m) + OnList(m) + OnStreams(m) + Parked(m) + delivered[m] + gone[m] = 1 + dup[m]

\* The entries the replays will pop, unless the list is shorter.
ToPop == SizeAmong([r \in Replays |-> 1 .. rep[r].left])

\* A replay will come for the m on the list: at the next connection, or because a
\* connection is being reported, or because it will pop that far.
Awaited(m) ==
  \/ at = Nowhere
  \/ \E c \in 1 .. Conns : link[c].tries > 0
  \/ \E t \in 1 .. Notes : notes[t] > 0
  \/ \E r \in Replays : rep[r].pc = "len"
  \/ \E i \in DOMAIN list : i <= ToPop /\ Copies(list[i].msgs, m) > 0

\* "Push the offline messages stored in Redis when the user logs in" (channel_cache.go:95):
\* once a replay is to come for a message on the list, it comes, however the user
\* comes and goes, whatever is added to the list and whoever pops it, unless a request
\* fails.  (A message added after the last replay has read the length is not awaited:
\* Send found the user offline, or an outdated route, before he connected.)
StaysAwaited ==
  [][\A m \in Msgs :
       OnList(m) > 0 /\ OnList(m)' >= OnList(m) /\ Awaited(m)
         => Awaited(m)' \/ troubles' > troubles]_vars

\* m has been sent, and is neither delivered nor lost, nor on the list for a user who
\* is away or for whom no replay will come.
Underway(m) ==
  /\ snd[m].pc # "new"
  /\ delivered[m] = 0 /\ gone[m] = 0 /\ m \notin local
  /\ OnList(m) > 0 => at # Nowhere /\ Awaited(m)

\* A message does not stay under way for ever.
Arrives == \A m \in Msgs : []<>~Underway(m)
================================================================================
