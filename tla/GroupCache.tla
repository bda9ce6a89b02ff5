------------------------------- MODULE GroupCache -------------------------------
(***************************************************************************)
(* Group membership, kept in Redis and written back to MySQL               *)
(* (internal/meta/chat/group).  A room has a set of members and a user a   *)
(* set of joined rooms, each under a Redis key of its own.  Handlers       *)
(* change both sets, mark both keys dirty and make them persistent; the    *)
(* Flusher service writes dirty keys to their tables, unmarks them and     *)
(* lets them expire; readers load a missing key from its table.            *)
(*                                                                         *)
(* A request is a script: the Redis commands and SQL statements its code   *)
(* issues, in their order.  A process executes the head of its script, so  *)
(* those of different processes interleave and any of them may fail.       *)
(*                                                                         *)
(* Nicknames and mutes, columns no script here reads, are left out.        *)
(*                                                                         *)
(* The definitions every module has are named for the group cache here,    *)
(* so that one module of proofs can extend this one and others.            *)
(***************************************************************************)
EXTENDS Naturals, Sequences, FiniteSets, SequencesExt, FiniteSetsExt

CONSTANTS
  Rooms, Users,
  Groups,        \* the rooms that are group rooms, not private chats
  Existing,      \* rooms that may exist, out of the cache, from the start
  UserLists,     \* the lists of users AddRoomMembers is given
  Offered,       \* bound: the requests that are made,
  Creations,     \* bound: and the rooms, with creator and members, that are created
  Handlers,      \* bound: requests served at a time by the Meta service
  Flusher,       \* the Flusher service
  BatchSize,     \* dirty keys of a kind flushed in one round
  MaxOps,        \* bound: requests
  MaxFails,      \* bound: Redis commands and SQL statements that fail
  NoRow

ASSUME GroupAssumption ==
  /\ IsFiniteSet(Rooms) /\ IsFiniteSet(Users) /\ Rooms \cap Users = {}
  /\ Groups \subseteq Rooms /\ Existing \subseteq Rooms
  /\ Flusher \notin Handlers
  /\ BatchSize \in Nat \ {0} /\ MaxOps \in Nat /\ MaxFails \in Nat
  /\ NoRow \notin {0, 1, 2}

Keys == Rooms \cup Users
Procs == Handlers \cup {Flusher}
Owner == 0
Admin == 1
Member == 2

VARIABLES
  cache,         \* cache[k]: the Redis set of key k; the empty set is a missing key
  expiring,      \* the keys with a TTL
  dirty,         \* the keys with a dirty mark
  created,       \* the rooms in chat_rooms
  role,          \* role[r][u]: the role in u's row of r's member table, or NoRow
  joined,        \* joined[u]: u's joined_chatrooms
  asked,         \* the join requests
  script,        \* what each process has still to do
  seen,          \* the set each process has read
  phase,         \* the part of its round the Flusher is in, 0 between rounds
  todo,          \* keys the Flusher has still to handle in this part
  ops, fails,
  doubtful       \* history: the keys whose cached set nothing will write back,
                 \* though it may differ from the table

redisVars == <<cache, expiring, dirty>>
tableVars == <<created, role, joined, asked>>
procVars == <<script, seen>>
flushVars == <<phase, todo>>
bounds == <<ops, fails>>
groupVars == <<redisVars, tableVars, procVars, flushVars, bounds, doubtful>>
--------------------------------------------------------------------------------
(* Commands and scripts *)

Cmd(op, k, args) == [op |-> op, key |-> k, args |-> args]
Simple == {"sadd", "srem", "zadd", "zrem", "persist", "expire", "unmark", "fill"}
Gates == {"group", "manager", "owner", "asked", "unless"}
Reads == {"smembers", "sismember", "zscore", "load"}
Writes == {"setRole", "ask", "unask", "commit"}
CmdType == [op : Simple \cup Gates \cup Reads \cup Writes, key : Keys, args : SUBSET Keys]

SAdd(k, x) == Cmd("sadd", k, {x})
ZAdd(k) == Cmd("zadd", k, {})
Persist(k) == Cmd("persist", k, {})

\* Mutant of AddRoomMemberCache: both sets are given the user.
AddRoomMemberCacheSwapped(r, u) ==
  << SAdd(r, u), SAdd(u, u), ZAdd(r), ZAdd(u), Persist(r), Persist(u) >>
AddRoomMemberCache(r, u) ==
  << SAdd(r, u), SAdd(u, r), ZAdd(r), ZAdd(u), Persist(r), Persist(u) >>

\* The turns of its loop over the users, each with an SADD and a ZADD.
Turns(us, r) ==
  [i \in 1 .. 2 * Len(us) |-> IF i % 2 = 1 THEN SAdd(us[(i + 1) \div 2], r)
                             ELSE ZAdd(us[i \div 2])]
AddRoomMembersCache(r, us) ==
  << Cmd("sadd", r, ToSet(us)) >> \o Turns(us, r) \o << ZAdd(r), Persist(r) >>
    \o [i \in DOMAIN us |-> Persist(us[i])]

RemoveRoomMemberCache(r, u) ==
  << Cmd("srem", r, {u}), Cmd("srem", u, {r}), ZAdd(r), ZAdd(u),
     Cmd("expire", r, {}), Persist(r) >>

\* GetRoomMemberIDsCache and GetUserJoinedRoomsCache: the reply to zscore decides
\* between persist and expire.
GetCache(k) == << Cmd("smembers", k, {}), Cmd("zscore", k, {}) >>

\* QueryRoomMemberIDs and QueryJoinedRooms.
Query(k) == Append(GetCache(k), Cmd("load", k, {}))

\* IsRoomMember, and what JoinRoom does if its answer is no.
Join(r, u) ==
  << Cmd("group", r, {}), Cmd("sismember", r, {u}), Cmd("zscore", r, {}),
     Cmd("unless", r, {u}) >> \o AddRoomMemberCache(r, u)

CreateRoom(r, creator, members) ==
  AddRoomMembersCache(r, members) \o AddRoomMemberCache(r, creator)

\* QueryMemberRole of the requester, and the roles that suffice.
Manager(r, by) == Cmd("manager", r, {by})

AddRoomMember(r, u, by) ==
  << Cmd("group", r, {}), Manager(r, by) >> \o AddRoomMemberCache(r, u)
AddRoomMembers(r, us, by) ==
  << Cmd("group", r, {}), Manager(r, by) >> \o AddRoomMembersCache(r, us)
RemoveRoomMember(r, u, by) == << Manager(r, by) >> \o RemoveRoomMemberCache(r, u)
ChangeMemberRole(r, u, by) == << Cmd("owner", r, {by}), Cmd("setRole", r, {u}) >>
RequestJoin(r, u) == << Cmd("group", r, {}), Cmd("ask", r, {u}) >> \o Query(r)
RespondJoinRequest(r, u, approve, by) ==
  << Cmd("asked", r, {u}), Manager(r, by) >>
    \o (IF approve THEN AddRoomMemberCache(r, u) ELSE << >>)
    \o << Cmd("unask", r, {u}) >>

\* writeBackGroup and writeBackUser, and the caller's removal of the mark.
WriteBack(k) == GetCache(k) \o << Cmd("commit", k, {}), Cmd("zrem", k, {}) >>

\* Mutant of ProcessDirty: the mark is removed first.
ProcessDirtyEarly(k) == GetCache(k) \o << Cmd("unmark", k, {}), Cmd("commit", k, {}) >>

\* One turn of the loops of processDirtyGroups and processDirtyUsers.
ProcessDirty(k) == GetCache(k) \o << Cmd("commit", k, {}), Cmd("unmark", k, {}) >>

\* The requests there are.
IsRequest(s) ==
  \E r \in Rooms, u \in Users, by \in Users :
    \/ s \in { Join(r, u), Query(r), Query(u), AddRoomMember(r, u, by),
              RemoveRoomMember(r, u, by), ChangeMemberRole(r, u, by), RequestJoin(r, u) }
    \/ \E approve \in BOOLEAN : s = RespondJoinRequest(r, u, approve, by)
    \/ \E us \in UserLists : s = AddRoomMembers(r, us, by)

ASSUME OfferedAssumption ==
  /\ UserLists \subseteq Seq(Users)
  /\ \A s \in Offered : IsRequest(s)
  /\ Creations \subseteq [room : Rooms, creator : Users, members : Seq(Users)]
--------------------------------------------------------------------------------
GroupTypeOK ==
  /\ cache \in [Keys -> SUBSET Keys] /\ \A r \in Rooms : cache[r] \subseteq Users
  /\ \A u \in Users : cache[u] \subseteq Rooms
  /\ expiring \subseteq { k \in Keys : cache[k] # {} }
  /\ dirty \subseteq Keys
  /\ created \subseteq Rooms
  /\ role \in [Rooms -> [Users -> {Owner, Admin, Member, NoRow}]]
  /\ joined \in [Users -> SUBSET Rooms]
  /\ asked \subseteq Rooms \X Users
  /\ script \in [Procs -> Seq(CmdType)]
  /\ seen \in [Procs -> SUBSET Keys]
  /\ phase \in 0 .. 4 /\ todo \subseteq Keys
  /\ ops \in 0 .. MaxOps /\ fails \in 0 .. MaxFails
  /\ doubtful \subseteq Keys

\* Some rooms are left from before: written back, expired from the cache, and with
\* every member an owner, as write-back leaves them (see Commit).
GroupInit ==
  /\ cache = [k \in Keys |-> {}] /\ expiring = {} /\ dirty = {}
  /\ created \in SUBSET Existing
  /\ role = [r \in Rooms |-> [u \in Users |-> IF r \in created THEN Owner ELSE NoRow]]
  /\ joined = [u \in Users |-> created]
  /\ asked = {}
  /\ script = [p \in Procs |-> << >>] /\ seen = [p \in Procs |-> {}]
  /\ phase = 0 /\ todo = {}
  /\ ops = 0 /\ fails = 0
  /\ doubtful = {}

\* What the table of a key holds.
Table(k) == IF k \in Rooms THEN { u \in Users : role[k][u] # NoRow } ELSE joined[k]

Current(p) == Head(script[p])
Runs(p, S) == script[p] # << >> /\ Current(p).op \in S

\* A process goes on with script s; what it has read ends with its script.
Continue(p, s) ==
  /\ script' = [script EXCEPT ![p] = s]
  /\ seen' = [seen EXCEPT ![p] = IF s = << >> THEN {} ELSE @]
Advance(p) == Continue(p, Tail(script[p]))
Abandon(p) == Continue(p, << >>)
--------------------------------------------------------------------------------
(* Redis commands that change something *)

SAddTo(k, xs) ==
  cache' = [cache EXCEPT ![k] = @ \cup xs] /\ UNCHANGED <<expiring, dirty>>

\* A set that gets empty is deleted, with its TTL.
SRemFrom(k, xs) ==
  /\ cache' = [cache EXCEPT ![k] = @ \ xs]
  /\ expiring' = IF cache[k] \subseteq xs THEN expiring \ {k} ELSE expiring
  /\ UNCHANGED dirty

\* EXPIRE does nothing to a missing key.
Expiring(k) == IF cache[k] = {} THEN expiring ELSE expiring \cup {k}

Redis(c) ==
  \/ c.op \in {"sadd", "fill"} /\ SAddTo(c.key, c.args)
  \/ c.op = "srem" /\ SRemFrom(c.key, c.args)
  \/ c.op = "zadd" /\ dirty' = dirty \cup {c.key} /\ UNCHANGED <<cache, expiring>>
  \/ c.op = "zrem" /\ dirty' = dirty \ {c.key} /\ UNCHANGED <<cache, expiring>>
  \/ c.op = "persist" /\ expiring' = expiring \ {c.key} /\ UNCHANGED <<cache, dirty>>
  \/ c.op = "expire" /\ expiring' = Expiring(c.key) /\ UNCHANGED <<cache, dirty>>
  \/ /\ c.op = "unmark"
     /\ dirty' = dirty \ {c.key}
     /\ expiring' = Expiring(c.key)
     /\ UNCHANGED cache

\* The ways a cached set stops being vouched for: its mark is removed although it
\* changed since the Flusher read it, or what a reader loaded is no longer in the
\* table when it fills the key.  A flush without such a change restores the trust.
Doubts(p, c) ==
  CASE c.op \in {"zrem", "unmark"} ->
         IF cache[c.key] = seen[p] THEN doubtful \ {c.key} ELSE doubtful \cup {c.key}
    [] c.op = "fill" /\ c.args # Table(c.key) -> doubtful \cup {c.key}
    [] OTHER -> doubtful

Command(p) ==
  /\ Runs(p, Simple)
  /\ Redis(Current(p))
  /\ doubtful' = Doubts(p, Current(p))
  /\ Advance(p)
  /\ UNCHANGED <<tableVars, flushVars, bounds>>

\* The third way: a request that fails leaves keys unmarked that it may have changed.
Unmarked(p) == { k \in Keys : \E i \in DOMAIN script[p] : script[p][i] = ZAdd(k) }

\* The errors of PERSIST, EXPIRE and of a fill are ignored.  A command that reports an
\* error may have been executed.
CommandFails(p) ==
  /\ Runs(p, Simple)
  /\ fails < MaxFails /\ fails' = fails + 1
  /\ IF Current(p).op \in {"persist", "expire", "fill"} THEN Advance(p) ELSE Abandon(p)
  /\ \/ Redis(Current(p)) /\ doubtful' = Doubts(p, Current(p)) \cup Unmarked(p)
     \/ UNCHANGED redisVars /\ doubtful' = doubtful \cup Unmarked(p)
  /\ UNCHANGED <<tableVars, flushVars, ops>>
--------------------------------------------------------------------------------
(* Reads *)

SMembers(p) ==
  /\ Runs(p, {"smembers"})
  /\ seen' = [seen EXCEPT ![p] = cache[Current(p).key]]
  /\ script' = [script EXCEPT ![p] = Tail(@)]
  /\ UNCHANGED <<redisVars, tableVars, flushVars, bounds, doubtful>>

\* A query falls back on the table; writeBackGroup and writeBackUser return nil, and
\* the mark is removed; processDirtyGroups and processDirtyUsers go on with the next.
WithoutCache(p) ==
  IF p = Flusher /\ phase \in {3, 4} THEN << >> ELSE << Last(script[p]) >>

SMembersFails(p) ==
  /\ Runs(p, {"smembers"})
  /\ fails < MaxFails /\ fails' = fails + 1
  /\ Continue(p, WithoutCache(p))
  /\ UNCHANGED <<redisVars, tableVars, flushVars, ops, doubtful>>

SIsMember(h) ==
  /\ Runs(h, {"sismember"})
  /\ seen' = [seen EXCEPT ![h] = cache[Current(h).key] \cap Current(h).args]
  /\ script' = [script EXCEPT ![h] = Tail(@)]
  /\ UNCHANGED <<redisVars, tableVars, flushVars, bounds, doubtful>>

\* IsRoomMember asks the table then, without touching the key; if that fails too,
\* JoinRoom takes it for a no.
SIsMemberFails(h) ==
  /\ Runs(h, {"sismember"})
  /\ fails < MaxFails /\ fails' = fails + 1
  /\ seen' \in { [seen EXCEPT ![h] = found] :
                  found \in {Table(Current(h).key) \cap Current(h).args, {}} }
  /\ script' = [script EXCEPT ![h] = Tail(Tail(@))]
  /\ UNCHANGED <<redisVars, tableVars, flushVars, ops, doubtful>>

\* A failing ZSCORE is taken for a key that is not dirty.
Touch(k, marked) == IF marked THEN Persist(k) ELSE Cmd("expire", k, {})

ZScore(p) ==
  /\ Runs(p, {"zscore"})
  /\ LET k == Current(p).key
     IN \/ /\ Continue(p, << Touch(k, k \in dirty) >> \o Tail(script[p]))
           /\ UNCHANGED fails
        \/ /\ fails < MaxFails /\ fails' = fails + 1
           /\ Continue(p, << Touch(k, FALSE) >> \o Tail(script[p]))
  /\ UNCHANGED <<redisVars, tableVars, flushVars, ops, doubtful>>

\* The SELECT of a query whose key was missing, which fills the key.
Fill(k) == IF Table(k) = {} THEN << >> ELSE << Cmd("fill", k, Table(k)) >>

Load(h) ==
  /\ Runs(h, {"load"})
  /\ Continue(h, IF seen[h] = {} THEN Fill(Current(h).key) ELSE << >>)
  /\ UNCHANGED <<redisVars, tableVars, flushVars, bounds, doubtful>>
--------------------------------------------------------------------------------
(* The tables *)

Clears(h, c) ==
  \/ c.op = "group" /\ c.key \in created \cap Groups
  \/ c.op = "manager" /\ \A u \in c.args : role[c.key][u] \in {Owner, Admin}
  \/ c.op = "owner" /\ \A u \in c.args : role[c.key][u] = Owner
  \/ c.op = "asked" /\ {c.key} \X c.args \subseteq asked
  \/ c.op = "unless" /\ seen[h] = {}

Check(h) ==
  /\ Runs(h, Gates)
  /\ IF Clears(h, Current(h)) THEN Advance(h) ELSE Abandon(h)
  /\ UNCHANGED <<redisVars, tableVars, flushVars, bounds, doubtful>>

\* UpdateMemberRole: required roles are not zero, and a member without a row gets none.
SetRole(k, us) ==
  \E newRole \in {Admin, Member} :
    role' = [role EXCEPT ![k] =
               [u \in Users |-> IF u \in us /\ @[u] # NoRow THEN newRole ELSE @[u]]]

\* The rows are deleted and inserted anew, with the default role 0.
Commit(k, members) ==
  IF k \in Rooms
  THEN /\ role' = [role EXCEPT ![k] = [u \in Users |-> IF u \in members THEN Owner ELSE NoRow]]
       /\ UNCHANGED joined
  ELSE joined' = [joined EXCEPT ![k] = members] /\ UNCHANGED role

Statement(p, c) ==
  /\ \/ c.op = "setRole" /\ SetRole(c.key, c.args) /\ UNCHANGED <<joined, asked>>
     \/ c.op = "ask" /\ asked' = asked \cup ({c.key} \X c.args) /\ UNCHANGED <<role, joined>>
     \/ c.op = "unask" /\ asked' = asked \ ({c.key} \X c.args) /\ UNCHANGED <<role, joined>>
     \/ c.op = "commit" /\ Commit(c.key, seen[p]) /\ UNCHANGED asked
  /\ UNCHANGED created

Execute(p) ==
  /\ Runs(p, Writes)
  /\ Statement(p, Current(p))
  /\ Advance(p)
  /\ UNCHANGED <<redisVars, flushVars, bounds, doubtful>>

\* A statement or transaction that reports an error may have taken effect.
StatementFails(p) ==
  /\ Runs(p, (Gates \ {"unless"}) \cup Writes \cup {"load"})
  /\ fails < MaxFails /\ fails' = fails + 1
  /\ \/ Runs(p, Writes) /\ Statement(p, Current(p))
     \/ UNCHANGED tableVars
  /\ Abandon(p)
  /\ UNCHANGED <<redisVars, flushVars, ops, doubtful>>
--------------------------------------------------------------------------------
(* The Meta service, the Flusher service and time *)

Free(h) == script[h] = << >> /\ ops < MaxOps

Serve(h) ==
  /\ Free(h)
  /\ \E s \in Offered : Continue(h, s)
  /\ ops' = ops + 1
  /\ UNCHANGED <<redisVars, tableVars, flushVars, fails, doubtful>>

\* InsertRoom makes a new id, and the room's table is created with it.  The handler
\* adds the creator to the listed members.
ServeCreate(h) ==
  /\ Free(h)
  /\ \E c \in Creations :
       /\ c.room \notin created /\ created' = created \cup {c.room}
       /\ Continue(h, CreateRoom(c.room, c.creator, Append(c.members, c.creator)))
  /\ ops' = ops + 1
  /\ UNCHANGED <<redisVars, role, joined, asked, flushVars, fails, doubtful>>

\* Each part of a round reads the dirty keys it is for: CleanStaleDirty those with an
\* old mark, processDirtyGroups and processDirtyUsers the BatchSize oldest.  The age of
\* a mark is left open.
Part(n) ==
  LET kind == dirty \cap (IF n \in {1, 3} THEN Rooms ELSE Users)
  IN CASE n = 0 -> {{}}
       [] n \in {1, 2} -> SUBSET kind
       [] n \in {3, 4} -> kSubset(Min({BatchSize, Cardinality(kind)}), kind)

FlushPart ==
  /\ script[Flusher] = << >> /\ todo = {}
  /\ phase' = (phase + 1) % 5
  /\ \/ todo' \in Part(phase') /\ UNCHANGED fails
     \/ phase' # 0 /\ todo' = {} /\ fails < MaxFails /\ fails' = fails + 1
  /\ UNCHANGED <<redisVars, tableVars, procVars, ops, doubtful>>

FlushKey ==
  /\ script[Flusher] = << >>
  /\ \E k \in todo :
       /\ todo' = todo \ {k}
       /\ Continue(Flusher, IF phase \in {1, 2} THEN WriteBack(k) ELSE ProcessDirty(k))
  /\ UNCHANGED <<redisVars, tableVars, phase, bounds, doubtful>>

Expire(k) ==
  /\ k \in expiring
  /\ cache' = [cache EXCEPT ![k] = {}]
  /\ expiring' = expiring \ {k}
  /\ UNCHANGED <<dirty, tableVars, procVars, flushVars, bounds, doubtful>>

Step(p) ==
  \/ Command(p) \/ CommandFails(p)
  \/ SMembers(p) \/ SMembersFails(p)
  \/ SIsMember(p) \/ SIsMemberFails(p)
  \/ ZScore(p) \/ Load(p) \/ Check(p)
  \/ Execute(p) \/ StatementFails(p)

GroupNext ==
  \/ \E p \in Procs : Step(p)
  \/ \E h \in Handlers : Serve(h) \/ ServeCreate(h)
  \/ FlushPart \/ FlushKey
  \/ \E k \in Keys : Expire(k)

GroupSpec == GroupInit /\ [][GroupNext]_groupVars
--------------------------------------------------------------------------------
(* A cached set that is not marked dirty, and that no request in progress is still   *)
(* to mark, is what its table holds, unless it is doubtful: nothing else makes the   *)
(* cache and MySQL differ for good.                                                  *)
Settled ==
  \A k \in Keys :
    (/\ cache[k] # {} /\ k \notin dirty \cup doubtful
     /\ \A h \in Handlers : k \notin Unmarked(h)) => cache[k] = Table(k)
================================================================================
