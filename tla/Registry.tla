--------------------------------- MODULE Registry ---------------------------------
(***************************************************************************)
(* The Registry service (internal/registry) between the services that      *)
(* register with it, the gateways that report connections and the clients  *)
(* that ask for a gateway, with the retrying HTTP client in between        *)
(* (pkg/registry_client).                                                  *)
(*                                                                         *)
(* Everything the service knows is in Redis, and no request is atomic: a   *)
(* handler executes Redis commands one by one, and goes on when its client *)
(* has given up waiting and tries again.                                   *)
(*                                                                         *)
(* Loads are left open, so any ranked gateway may be the first.  A record  *)
(* is there or not: heartbeats report "connections" where the service      *)
(* decodes "connected_users", so the number it compares with the capacity  *)
(* is always 0 and the comparison never fails.                             *)
(***************************************************************************)
EXTENDS Naturals, Sequences, FiniteSets, SequencesExt

CONSTANTS
  Gateways, Sends,   \* instances, by the name they register under
  Users,
  Conns,             \* clients' connections, each of one user
  UserOf,
  Handlers,          \* bound: requests the service executes at a time
  Budgets,           \* bound: calls of instances and of clients, and faults: commands
                     \* that fail, attempts without an answer, crashes, late heartbeats
  None

Instances == Gateways \cup Sends

ASSUME RegistryAssumption ==
  /\ IsFiniteSet(Gateways) /\ IsFiniteSet(Sends) /\ Gateways \cap Sends = {}
  /\ UserOf \in [Conns -> Users]
  /\ Budgets \subseteq [instances : Nat, clients : Nat, faults : Nat]

VARIABLES
  info,          \* instances with an unexpired record
  ranking,       \* gateways in the load ranking
  instances,     \* instances in the instance sets
  route,         \* route[u]: gateway and status of u's route, or None
  life,          \* life[i]: where the process of an instance is in its main function
  conn,          \* conn[c]: what the goroutines of a connection are doing
  gateway,       \* gateway[c]: the gateway c is told to use, or uses
  stored,        \* connections that are the ones in their gateway's connStore
  calling,       \* callers in a call
  tries,         \* tries[p]: attempts p has not made yet for its call
  task,          \* task[h]: the request a handler executes, or None
  left,          \* what is left of the budget
  \* history
  latest,        \* latest[u]: u's newest connection
  reported,      \* connections whose connect report was answered OK
  unregistered,  \* gateways whose last Unregister was answered OK
  hidden,        \* instances with a record that an interference keeps from being listed
  ghost,         \* gateways written about since they began to shut down
  disputed,      \* users whose route is not what the newest connection reported
  steady         \* steady[h]: the gateway h's user has had a live route to all the time

redisVars == <<info, ranking, instances, route>>
nodeVars == <<life, conn, gateway, stored>>
callVars == <<calling, tries, task>>
notes == <<latest, reported, unregistered, hidden, ghost, disputed>>
vars == <<redisVars, nodeVars, callVars, left, notes, steady>>

\* The goroutines that call the service, and whose calls a handler serves.
Main(i) == <<"main", i>>
Beat(i) == <<"beat", i>>
Client(c) == <<"client", c>>
Callers == ({"main", "beat"} \X Instances) \cup ({"client"} \X Conns)
Attempts == 3
--------------------------------------------------------------------------------
(* Requests: the Redis commands their code issues, in their order.           *)

Cmd(op, i) == [op |-> op, inst |-> i]
CmdType ==
  [op : {"setex", "refresh", "zadd", "sadd", "del", "zrem", "srem", "drop", "get", "connect",
         "getRoute", "disconnect", "lease", "exists", "info", "lowest", "random", "members",
         "check"},
   inst : Instances \cup {None}]

\* Mutant of RegisterGateway: the gateway is not added to the instance set.
RegisterUnlisted(g) == << Cmd("setex", g), Cmd("zadd", g) >>
RegisterGateway(g) == << Cmd("setex", g), Cmd("zadd", g), Cmd("sadd", g) >>
RegisterSendInstance(s) == << Cmd("setex", s), Cmd("sadd", s) >>

\* The record is read, and written with a new TTL.
UpdateHeartbeat(g) == << Cmd("get", g), Cmd("refresh", g), Cmd("zadd", g) >>
UpdateSendHeartbeat(s) == << Cmd("get", s), Cmd("refresh", s) >>

\* Mutant of UnregisterGateway: the ranking is left to itself.
UnregisterRanked(g) == << Cmd("del", g), Cmd("srem", g) >>
UnregisterGateway(g) == << Cmd("del", g), Cmd("zrem", g), Cmd("srem", g) >>

RecordUserConnect(g) == << Cmd("get", g), Cmd("connect", g) >>
RecordUserDisconnect(g) == << Cmd("getRoute", g), Cmd("disconnect", g) >>

\* Mutant of GetAvailableGatewayForUser: the user's route is not looked at.
GetAnyGateway == << Cmd("lowest", None) >>
GetAvailableGatewayForUser == << Cmd("lease", None) >>
GetRandomSendInstance == << Cmd("random", None) >>
ListAllSendInstances == << Cmd("members", None) >>

\* A goroutine notifies a Send instance; the handler need not wait for it to reply.
ConnectHandler(g) == RecordUserConnect(g) \o GetRandomSendInstance
Asynchronous == {"random", "check", "drop"}

\* What the call of a caller asks for, decided by where the caller is.
Request(p) ==
  LET i == p[2]
  IN CASE p[1] = "main" ->
            IF life[i] # "starting" THEN UnregisterGateway(i)
            ELSE IF i \in Gateways THEN RegisterGateway(i) ELSE RegisterSendInstance(i)
       [] p[1] = "beat" -> IF i \in Gateways THEN UpdateHeartbeat(i) ELSE UpdateSendHeartbeat(i)
       [] OTHER ->
            CASE conn[i] = "asking" -> GetAvailableGatewayForUser
              [] conn[i] = "joining" -> ConnectHandler(gateway[i])
              [] OTHER -> RecordUserDisconnect(gateway[i])

Subject(p) == IF p[1] = "client" THEN UserOf[p[2]] ELSE None
--------------------------------------------------------------------------------
TaskType ==
  [by : Callers \cup {None}, user : Users \cup {None}, todo : Seq(CmdType),
   ok : BOOLEAN, found : Gateways \cup {None}]
RouteType == [gateway : Gateways, status : {"connected", "disconnected"}]

ASSUME NoneAssumption ==
  /\ None \notin Instances \cup Conns \cup Users \cup Callers
  /\ None \notin RouteType /\ None \notin TaskType

TypeOK ==
  /\ info \subseteq Instances /\ ranking \subseteq Gateways /\ instances \subseteq Instances
  /\ route \in [Users -> RouteType \cup {None}]
  /\ life \in [Instances -> {"down", "starting", "up", "stopping", "stopped"}]
  /\ conn \in [Conns -> {"out", "asking", "told", "joining", "up", "leaving"}]
  /\ gateway \in [Conns -> Gateways \cup {None}]
  /\ stored \subseteq { c \in Conns : gateway[c] \in Gateways }
  /\ calling \subseteq Callers /\ tries \in [Callers -> 0 .. Attempts]
  /\ task \in [Handlers -> TaskType \cup {None}]
  /\ left \in [instances : Nat, clients : Nat, faults : Nat]
  /\ latest \in [Users -> Conns \cup {None}]
  /\ reported \subseteq Conns /\ unregistered \subseteq Gateways
  /\ hidden \subseteq Instances /\ ghost \subseteq Gateways /\ disputed \subseteq Users
  /\ steady \in [Handlers -> Gateways \cup {None}]

\* Some instances are running and registered, the others have never run;
\* some clients have been told their gateway.
Init ==
  /\ info \in SUBSET Instances /\ ranking = info \cap Gateways /\ instances = info
  /\ route = [u \in Users |-> None]
  /\ life = [i \in Instances |-> IF i \in info THEN "up" ELSE "down"]
  /\ gateway \in [Conns -> (Gateways \cap info) \cup {None}]
  /\ conn = [c \in Conns |-> IF gateway[c] = None THEN "out" ELSE "told"] /\ stored = {}
  /\ calling = {} /\ tries = [p \in Callers |-> 0] /\ task = [h \in Handlers |-> None]
  /\ left \in Budgets
  /\ latest = [u \in Users |-> None]
  /\ reported = {} /\ unregistered = {} /\ hidden = {} /\ ghost = {} /\ disputed = {}
  /\ steady = [h \in Handlers |-> None]

Executes(h, ops) ==
  /\ task[h] # None /\ task[h].todo # << >>
  /\ Head(task[h].todo).op \in ops
Current(h) == Head(task[h].todo)

Continue(h, todo) == task' = [task EXCEPT ![h].todo = todo]
Advance(h) == Continue(h, Tail(task[h].todo))
\* The handler replies with an error.
Refuse(h) == task' = [task EXCEPT ![h].todo = << >>, ![h].ok = FALSE]
Spend(kind) == left[kind] > 0 /\ left' = [left EXCEPT ![kind] = @ - 1]
Fault == Spend("faults")
--------------------------------------------------------------------------------
(* Redis commands that write                                                 *)

Effect(c) ==
  /\ info' = CASE c.op \in {"setex", "refresh"} -> info \cup {c.inst}
               [] c.op = "del" -> info \ {c.inst}
               [] OTHER -> info
  /\ ranking' = CASE c.op = "zadd" -> ranking \cup {c.inst}
                  [] c.op = "zrem" -> ranking \ {c.inst}
                  [] OTHER -> ranking
  /\ instances' = CASE c.op = "sadd" -> instances \cup {c.inst}
                    [] c.op \in {"srem", "drop"} -> instances \ {c.inst}
                    [] OTHER -> instances

ListedIn(i, set, ranked) == i \in set /\ (i \in Gateways => i \in ranked)
Listed(i) == ListedIn(i, instances, ranking)
ToList(h, i) == Cmd("sadd", i) \in ToSet(task[h].todo)

\* The interferences: an instance with a record is taken off a list, or a heartbeat
\* writes back the record of an instance that has been taken off.
Interferes(c) ==
  \/ c.op \in {"zrem", "srem", "drop"} /\ c.inst \in info
  \/ c.op = "refresh" /\ ~Listed(c.inst)

Judge(i, interfered) ==
  hidden' = IF ListedIn(i, instances', ranking') THEN hidden \ {i}
            ELSE IF interfered THEN hidden \cup {i} ELSE hidden

Haunts(c) ==
  /\ c.inst \in Gateways
  /\ c.op \in {"setex", "refresh", "zadd", "sadd"}
  /\ life[c.inst] \in {"stopping", "stopped", "down"}

Write(h, interfered) ==
  LET c == Current(h)
  IN /\ Effect(c)
     /\ Judge(c.inst, interfered \/ Interferes(c))
     /\ ghost' = IF Haunts(c) THEN ghost \cup {c.inst} ELSE ghost

Writes == {"setex", "refresh", "zadd", "sadd", "del", "zrem", "srem", "drop"}

Command(h) ==
  /\ Executes(h, Writes)
  /\ Write(h, FALSE)
  /\ Advance(h)
  /\ UNCHANGED <<route, nodeVars, calling, tries, left, latest, reported, unregistered,
                 disputed>>

\* A command that reports an error may have been executed; the handler gives up, unless
\* it is the removal of an instance that was not found.
CommandFails(h) ==
  /\ Executes(h, Writes)
  /\ Fault
  /\ IF Current(h).op = "drop" THEN Advance(h) ELSE Refuse(h)
  /\ \/ Write(h, ToList(h, Current(h).inst))
     \/ /\ UNCHANGED <<info, ranking, instances, ghost>>
        /\ Judge(Current(h).inst, Current(h).inst \in info /\ ToList(h, Current(h).inst))
  /\ UNCHANGED <<route, nodeVars, calling, tries, latest, reported, unregistered, disputed>>

\* A running instance loses its record when it misses three heartbeats in a row.
Expire(i) ==
  /\ i \in info /\ info' = info \ {i}
  /\ IF life[i] = "down" THEN UNCHANGED left ELSE Fault
  /\ UNCHANGED <<ranking, instances, route, nodeVars, callVars, notes>>
--------------------------------------------------------------------------------
(* Redis commands that read.  Most code takes an error for a missing key.    *)

Reads(hit, present) ==
  \/ hit = present /\ UNCHANGED left
  \/ ~hit /\ present /\ Fault

ReadOnly == UNCHANGED <<redisVars, nodeVars, calling, tries, notes>>

Get(h) ==
  /\ Executes(h, {"get"})
  /\ \E hit \in BOOLEAN :
       /\ Reads(hit, Current(h).inst \in info)
       /\ IF hit THEN Advance(h) ELSE Refuse(h)
  /\ ReadOnly

FallBack(h) == Continue(h, << Cmd("lowest", None) >>)

Lease(h) ==
  LET r == route[task[h].user]
  IN /\ Executes(h, {"lease"})
     /\ \E hit \in BOOLEAN :
          /\ Reads(hit, r # None)
          /\ IF hit THEN Continue(h, << Cmd("exists", r.gateway), Cmd("info", r.gateway) >>)
                    ELSE FallBack(h)
     /\ ReadOnly

\* IsGatewayHealthy, then GetGatewayInfo.
Probe(h) ==
  /\ Executes(h, {"exists", "info"})
  /\ \E hit \in BOOLEAN :
       /\ Reads(hit, Current(h).inst \in info)
       /\ IF hit THEN task' = [task EXCEPT ![h].todo = Tail(@), ![h].found = Current(h).inst]
                 ELSE FallBack(h)
  /\ ReadOnly

\* Mutant of GetLowestLoadGateway: any instance is taken.
GetAnyInstance(h) ==
  /\ Executes(h, {"lowest"})
  /\ \E i \in instances :
       task' = [task EXCEPT ![h].todo = << Cmd("get", i) >>, ![h].found = i]
  /\ ReadOnly /\ UNCHANGED left

GetLowestLoadGateway(h) ==
  /\ Executes(h, {"lowest"})
  /\ \/ \E g \in ranking :
          /\ task' = [task EXCEPT ![h].todo = << Cmd("get", g) >>, ![h].found = g]
          /\ UNCHANGED left
     \/ ranking = {} /\ Refuse(h) /\ UNCHANGED left
     \/ ranking # {} /\ Refuse(h) /\ Fault
  /\ ReadOnly

SendSet == instances \cap Sends
CheckOne == { << Cmd("check", i) >> : i \in SendSet }
CheckAll == { [n \in DOMAIN s |-> Cmd("check", s[n])] : s \in SetToSeqs(SendSet) }

\* An error is taken for an empty set.
Pick(h, op, scripts) ==
  /\ Executes(h, {op})
  /\ \/ SendSet # {} /\ (\E s \in scripts : Continue(h, s)) /\ UNCHANGED left
     \/ SendSet = {} /\ Continue(h, << >>) /\ UNCHANGED left
     \/ SendSet # {} /\ Continue(h, << >>) /\ Fault
  /\ ReadOnly

SRandMember(h) == Pick(h, "random", CheckOne)
SMembers(h) == Pick(h, "members", CheckAll)

\* An instance whose record cannot be read is removed from the set.
CheckInstance(h) ==
  /\ Executes(h, {"check"})
  /\ \E hit \in BOOLEAN :
       /\ Reads(hit, Current(h).inst \in info)
       /\ IF hit THEN Advance(h)
          ELSE Continue(h, << Cmd("drop", Current(h).inst) >> \o Tail(task[h].todo))
  /\ ReadOnly
--------------------------------------------------------------------------------
(* Routes of users                                                           *)

\* Mutant of GetRoute: the route may be of another gateway.
GetAnyRoute(h) ==
  LET r == route[task[h].user]
  IN /\ Executes(h, {"getRoute"})
     /\ IF r # None
        THEN task' = [task EXCEPT ![h].todo = Tail(@), ![h].found = r.gateway]
        ELSE Continue(h, << >>)
     /\ ReadOnly /\ UNCHANGED left

\* A disconnect changes nothing, and succeeds, without a route to its gateway.
GetRoute(h) ==
  LET r == route[task[h].user]
  IN /\ Executes(h, {"getRoute"})
     /\ \E hit \in BOOLEAN :
          /\ Reads(hit, r # None)
          /\ IF hit /\ r.gateway = Current(h).inst
             THEN task' = [task EXCEPT ![h].todo = Tail(@), ![h].found = r.gateway]
             ELSE Continue(h, << >>)
     /\ ReadOnly

Newest(u, g) == latest[u] \in stored /\ gateway[latest[u]] = g

\* A connect reports another connection than the newest; a disconnect finds another
\* route than it read, or is of the gateway of the newest connection.
SetRoute(h) ==
  LET c == Current(h) u == task[h].user
  IN IF c.op = "connect"
     THEN /\ route' = [route EXCEPT ![u] = [gateway |-> c.inst, status |-> "connected"]]
          /\ disputed' = IF Newest(u, c.inst) THEN disputed \ {u} ELSE disputed \cup {u}
     ELSE /\ route' = [route EXCEPT ![u] = [gateway |-> task[h].found,
                                            status |-> "disconnected"]]
          /\ disputed' = IF \/ route[u] = None \/ route[u].gateway # task[h].found
                            \/ Newest(u, c.inst)
                         THEN disputed \cup {u} ELSE disputed

WriteRoute(h) ==
  /\ Executes(h, {"connect", "disconnect"})
  /\ \/ SetRoute(h) /\ Advance(h) /\ UNCHANGED left
     \/ /\ SetRoute(h) \/ UNCHANGED <<route, disputed>>
        /\ Refuse(h) /\ Fault
  /\ UNCHANGED <<info, ranking, instances, nodeVars, calling, tries, latest, reported,
                 unregistered, hidden, ghost>>

ExpireRoute(u) ==
  /\ route[u] # None /\ route' = [route EXCEPT ![u] = None]
  /\ disputed' = disputed \cup {u}
  /\ UNCHANGED <<info, ranking, instances, nodeVars, callVars, left, latest, reported,
                 unregistered, hidden, ghost>>
--------------------------------------------------------------------------------
(* Calls                                                                     *)

Served(p) == \E h \in Handlers : task[h] # None /\ task[h].by = p

\* doRequest; its loop goes on with Attempt, AttemptLost and GiveUp.
Call(p, attempts) ==
  /\ Spend(IF p[1] = "client" THEN "clients" ELSE "instances")
  /\ calling' = calling \cup {p} /\ tries' = [tries EXCEPT ![p] = attempts]

MayTry(p) == p \in calling /\ ~Served(p) /\ tries[p] > 0

Attempt(p, h) ==
  /\ MayTry(p) /\ tries' = [tries EXCEPT ![p] = @ - 1]
  /\ task[h] = None
  /\ task' = [task EXCEPT ![h] = [by |-> p, user |-> Subject(p), todo |-> Request(p),
                                  ok |-> TRUE, found |-> None]]
  /\ UNCHANGED <<redisVars, nodeVars, calling, left, notes>>

AttemptLost(p) ==
  /\ MayTry(p) /\ tries' = [tries EXCEPT ![p] = @ - 1]
  /\ Fault
  /\ UNCHANGED <<redisVars, nodeVars, calling, task, notes>>

\* The caller's HTTP timeout, or a lost answer: the handler goes on alone.
NoAnswer(h) ==
  /\ task[h] # None /\ task[h].by # None
  /\ Fault
  /\ task' = [task EXCEPT ![h].by = None]
  /\ UNCHANGED <<redisVars, nodeVars, calling, tries, notes>>

\* Also when the answer is an error: every status from 400 on is tried again.
Finish(h) ==
  /\ task[h] # None /\ task[h].todo = << >>
  /\ ~task[h].ok \/ task[h].by = None
  /\ task' = [task EXCEPT ![h] = None]
  /\ UNCHANGED <<redisVars, nodeVars, calling, tries, left, notes>>

\* What the caller does then.  A gateway or Send instance that could not register
\* goes on all the same.
MainReturns(i, ok) ==
  /\ life' = [life EXCEPT ![i] = IF @ = "starting" THEN "up" ELSE "stopped"]
  /\ unregistered' = IF ok /\ life[i] = "stopping" THEN unregistered \cup {i} ELSE unregistered
  /\ UNCHANGED <<conn, gateway, reported>>

ClientReturns(c, ok, g) ==
  /\ conn' = [conn EXCEPT ![c] = CASE @ = "joining" -> "up"
                                   [] @ = "asking" /\ ok -> "told"
                                   [] OTHER -> "out"]
  /\ gateway' = IF conn[c] = "asking" /\ ok THEN [gateway EXCEPT ![c] = g] ELSE gateway
  /\ reported' = IF conn[c] = "joining" /\ ok THEN reported \cup {c} ELSE reported
  /\ UNCHANGED <<life, unregistered>>

Returns(p, ok, g) ==
  /\ calling' = calling \ {p} /\ tries' = [tries EXCEPT ![p] = 0]
  /\ \/ p[1] = "main" /\ MainReturns(p[2], ok)
     \/ p[1] = "beat" /\ UNCHANGED <<life, conn, gateway, reported, unregistered>>
     \/ p[1] = "client" /\ ClientReturns(p[2], ok, g)
  /\ UNCHANGED <<redisVars, stored, left, latest, hidden, ghost, disputed>>

Reply(h) ==
  /\ task[h] # None /\ task[h].ok /\ task[h].by # None
  /\ \A n \in DOMAIN task[h].todo : task[h].todo[n].op \in Asynchronous
  /\ Returns(task[h].by, TRUE, task[h].found)
  /\ task' = IF task[h].todo = << >> THEN [task EXCEPT ![h] = None]
             ELSE [task EXCEPT ![h].by = None]

GiveUp(p) ==
  /\ p \in calling /\ ~Served(p) /\ tries[p] = 0
  /\ Returns(p, FALSE, None)
  /\ UNCHANGED task

RegistryCrash ==
  /\ Fault
  /\ task' = [h \in Handlers |-> None]
  /\ hidden' = hidden \cup { i \in info : ~Listed(i) /\ \E h \in Handlers :
                               task[h] # None /\ ToList(h, i) }
  /\ UNCHANGED <<redisVars, nodeVars, calling, tries, latest, reported, unregistered,
                 ghost, disputed>>
--------------------------------------------------------------------------------
(* Instances, clients and their connections                                  *)

Start(i) ==
  /\ life[i] = "down" /\ life' = [life EXCEPT ![i] = "starting"]
  /\ Call(Main(i), Attempts)
  /\ unregistered' = unregistered \ {i} /\ ghost' = ghost \ {i}
  /\ UNCHANGED <<redisVars, conn, gateway, stored, task, latest, reported, hidden,
                 disputed>>

SendHeartbeat(i) ==
  /\ life[i] = "up" /\ Beat(i) \notin calling
  /\ Call(Beat(i), Attempts)
  /\ UNCHANGED <<redisVars, nodeVars, task, notes>>

\* The ticker is stopped; a heartbeat under way goes on.  A Send instance never
\* unregisters: it ends by a signal it does not handle.
Stop(g) ==
  /\ life[g] = "up" /\ life' = [life EXCEPT ![g] = "stopping"]
  /\ Call(Main(g), Attempts)
  /\ UNCHANGED <<redisVars, conn, gateway, stored, task, notes>>

\* The end of the process, after its shutdown or by a crash: nothing is reported.
Die(i) ==
  LET on == { c \in Conns : gateway[c] = i /\ conn[c] \in {"joining", "up", "leaving"} }
      gone == {Main(i), Beat(i)} \cup { Client(c) : c \in on }
  IN /\ life[i] # "down" /\ life' = [life EXCEPT ![i] = "down"]
     /\ conn' = [c \in Conns |-> IF c \in on THEN "out" ELSE conn[c]]
     /\ stored' = stored \ on
     /\ calling' = calling \ gone
     /\ tries' = [p \in Callers |-> IF p \in gone THEN 0 ELSE tries[p]]
     /\ task' = [h \in Handlers |-> IF task[h] = None \/ task[h].by \notin gone THEN task[h]
                                    ELSE [task[h] EXCEPT !.by = None]]
     /\ IF life[i] = "stopped" THEN UNCHANGED left ELSE Fault
     /\ UNCHANGED <<redisVars, gateway, notes>>

Ask(c) ==
  /\ conn[c] = "out" /\ conn' = [conn EXCEPT ![c] = "asking"]
  /\ Call(Client(c), 1)
  /\ UNCHANGED <<redisVars, life, gateway, stored, task, notes>>

\* The connection of a user that its gateway has in connStore.
Same(c) == { d \in stored : UserOf[d] = UserOf[c] /\ gateway[d] = gateway[c] }

\* RegisterConnection: the connection takes the place of an older one, and is reported.
Join(c) ==
  /\ conn[c] = "told" /\ life[gateway[c]] \in {"up", "stopping", "stopped"}
  /\ conn' = [conn EXCEPT ![c] = "joining"]
  /\ stored' = (stored \ Same(c)) \cup {c}
  /\ latest' = [latest EXCEPT ![UserOf[c]] = c]
  /\ reported' = reported \ {c}
  /\ Call(Client(c), Attempts)
  /\ UNCHANGED <<redisVars, life, gateway, task, unregistered, hidden, ghost, disputed>>

\* RemoveConnection: whatever connection of the user is in connStore goes, and the
\* disconnect is reported; without one nothing is.
Leave(c) ==
  /\ conn[c] = "up"
  /\ IF Same(c) # {}
     THEN /\ conn' = [conn EXCEPT ![c] = "leaving"]
          /\ Call(Client(c), Attempts)
     ELSE /\ conn' = [conn EXCEPT ![c] = "out"]
          /\ UNCHANGED <<left, calling, tries>>
  /\ stored' = stored \ Same(c)
  /\ UNCHANGED <<redisVars, life, gateway, task, notes>>

\* Requests of other services for Send instances.
List(h) ==
  /\ task[h] = None
  /\ Spend("instances")
  /\ \E todo \in {GetRandomSendInstance, ListAllSendInstances} :
       task' = [task EXCEPT ![h] = [by |-> None, user |-> None, todo |-> todo, ok |-> TRUE,
                                    found |-> None]]
  /\ UNCHANGED <<redisVars, nodeVars, calling, tries, notes>>
--------------------------------------------------------------------------------
Step(h) ==
  \/ Command(h) \/ CommandFails(h)
  \/ Get(h) \/ Lease(h) \/ Probe(h) \/ GetLowestLoadGateway(h)
  \/ SRandMember(h) \/ SMembers(h) \/ CheckInstance(h) \/ GetRoute(h) \/ WriteRoute(h)
  \/ NoAnswer(h) \/ Finish(h) \/ Reply(h) \/ List(h)

Other ==
  \/ \E i \in Instances : Expire(i) \/ Start(i) \/ SendHeartbeat(i) \/ Die(i)
  \/ \E g \in Gateways : Stop(g)
  \/ \E u \in Users : ExpireRoute(u)
  \/ \E p \in Callers : AttemptLost(p) \/ GiveUp(p)
  \/ \E c \in Conns : Ask(c) \/ Join(c) \/ Leave(c)
  \/ RegistryCrash

\* The gateway a user's route names, if it has a record.
LiveRoute(routes, records, u) ==
  IF u # None /\ routes[u] # None /\ routes[u].gateway \in records
  THEN routes[u].gateway ELSE None

Asks(h) == task'[h].todo = GetAvailableGatewayForUser

Watch(h) ==
  IF task'[h] = None \/ left'.faults # left.faults THEN None
  ELSE LET live == LiveRoute(route', info', task'[h].user)
       IN IF steady[h] = live \/ (task[h] = None /\ Asks(h)) THEN live ELSE None

Next ==
  /\ \/ \E h \in Handlers : Step(h) \/ \E p \in Callers : Attempt(p, h)
     \/ Other
  /\ steady' = [h \in Handlers |-> Watch(h)]

Spec == Init /\ [][Next]_vars
--------------------------------------------------------------------------------
(* Whoever has a record can be found: it is in the instance set and, a gateway, in   *)
(* the ranking, or its registration is still being executed.  Only three things      *)
(* break this: a registration given up half way, a removal executed after the record *)
(* was written again, and a heartbeat that writes the record of an instance removed  *)
(* since it was read.                                                                *)
Visible ==
  \A i \in info :
    Listed(i) \/ i \in hidden \/ \E h \in Handlers : task[h] # None /\ ToList(h, i)

(* A gateway that has shut down and had its Unregister answered OK has left nothing  *)
(* behind, unless a heartbeat or registration of it was still executed afterwards.   *)
Unlisted == \A g \in unregistered \ ghost : g \notin info \cup ranking \cup instances

(* While the newest connection of a user is up and its report was answered OK, the   *)
(* user's route is to its gateway and connected, unless the route has expired, an    *)
(* older report was executed late, a disconnect wrote back what it had read before   *)
(* the route changed, or a disconnect came from the same gateway.                    *)
Routed ==
  \A c \in stored \cap reported :
    latest[UserOf[c]] = c /\ conn[c] = "up" /\ UserOf[c] \notin disputed
      => route[UserOf[c]] = [gateway |-> gateway[c], status |-> "connected"]

(* A user whose route names a gateway with a record all the while is told to         *)
(* reconnect to that gateway, whatever else changes between the reads.               *)
Leased ==
  \A h \in Handlers :
    steady[h] # None /\ task[h].todo = << >> => task[h].ok /\ task[h].found = steady[h]
================================================================================
