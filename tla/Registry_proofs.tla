----------------------------- MODULE Registry_proofs ----------------------------
(* Proofs about Registry. *)
EXTENDS Registry, FiniteSetTheorems, SequenceTheorems, TLAPS

(* What is left of a request, by kind *)

Registering(i) ==
  IF i \in Gateways
  THEN {RegisterGateway(i), << Cmd("zadd", i), Cmd("sadd", i) >>, << Cmd("sadd", i) >>, << >>}
  ELSE {RegisterSendInstance(i), << Cmd("sadd", i) >>, << >>}
Beating(i) ==
  IF i \in Gateways
  THEN {UpdateHeartbeat(i), << Cmd("refresh", i), Cmd("zadd", i) >>, << Cmd("zadd", i) >>, << >>}
  ELSE {UpdateSendHeartbeat(i), << Cmd("refresh", i) >>, << >>}
Removing(g) ==
  {UnregisterGateway(g), << Cmd("zrem", g), Cmd("srem", g) >>, << Cmd("srem", g) >>, << >>}
Checks == Seq({Cmd(op, s) : op \in {"check", "drop"}, s \in Sends})
Notifying == {GetRandomSendInstance} \cup Checks
Connecting(g) ==
  {<< Cmd("get", g), Cmd("connect", g), Cmd("random", None) >>,
   << Cmd("connect", g), Cmd("random", None) >>} \cup Notifying
Leaving(g) == {RecordUserDisconnect(g), << Cmd("disconnect", g) >>, << >>}
Probing(g) == {<< Cmd("exists", g), Cmd("info", g) >>, << Cmd("info", g) >>, << Cmd("get", g) >>}
Finding ==
  {GetAvailableGatewayForUser, GetAnyGateway, << >>} \cup UNION {Probing(g) : g \in Gateways}
Listing == {ListAllSendInstances} \cup Notifying

\* The rest of a request about an instance, about a gateway, or about none.
OfKind(s) ==
  \/ \E i \in Instances : s \in Registering(i) \/ s \in Beating(i)
  \/ \E g \in Gateways : s \in Removing(g) \/ s \in Connecting(g) \/ s \in Leaving(g)
  \/ s \in Finding \/ s \in Listing

UserOps == {"lease", "connect", "getRoute", "disconnect"}

KindOK(t) ==
  /\ OfKind(t.todo)
  /\ \A g \in Gateways : t.todo = << Cmd("disconnect", g) >> => t.found = g
  /\ t.user = None => \A c \in ToSet(t.todo) : c.op \notin UserOps

\* A request with a caller is the one its caller's state calls for.
CallOK(t) ==
  /\ \A i \in Instances : t.by = Main(i) =>
       \/ life[i] = "starting" /\ t.todo \in Registering(i)
       \/ life[i] = "stopping" /\ t.todo \in Removing(i)
  /\ \A i \in Instances : t.by = Beat(i) => t.todo \in Beating(i)
  /\ \A c \in Conns : t.by = Client(c) =>
       /\ t.user = UserOf[c]
       /\ \/ /\ conn[c] = "asking" /\ t.todo \in Finding
             /\ t.ok /\ (t.todo = << >> \/ Head(t.todo).op = "get") => t.found \in Gateways
          \/ conn[c] = "joining" /\ t.todo \in Connecting(gateway[c])
          \/ conn[c] = "leaving" /\ t.todo \in Leaving(gateway[c])

TasksInv ==
  /\ \A h \in Handlers : task[h] # None => KindOK(task[h]) /\ CallOK(task[h])
  /\ \A h \in Handlers : task[h] # None /\ task[h].by # None => task[h].by \in calling
  /\ \A h, k \in Handlers :
       task[h] # None /\ task[k] # None /\ task[h].by = task[k].by /\ task[h].by # None => h = k

NodesInv ==
  /\ \A i \in Instances : Main(i) \in calling <=> life[i] \in {"starting", "stopping"}
  /\ \A i \in Instances : life[i] \in {"stopping", "stopped"} => i \in Gateways
  /\ \A c \in Conns : Client(c) \in calling <=> conn[c] \in {"asking", "joining", "leaving"}
  /\ \A c \in Conns : conn[c] \notin {"out", "asking"} => gateway[c] \in Gateways
  /\ \A c \in stored : conn[c] \in {"joining", "up"}
  /\ \A c \in reported : conn[c] # "joining"

\* Handler h will put i on the lists it is not on.
WillList(h, i) ==
  /\ task[h] # None
  /\ ToList(h, i)
  /\ i \in Gateways => i \in ranking \/ Cmd("zadd", i) \in ToSet(task[h].todo)
VisibleInv ==
  \A i \in info : Listed(i) \/ i \in hidden \/ \E h \in Handlers : WillList(h, i)

\* The removals of g that h has executed, or has still to execute.
Removed(h, g) ==
  LET ahead == ToSet(task[h].todo)
  IN  /\ Cmd("del", g) \in ahead \/ g \notin info
      /\ Cmd("zrem", g) \in ahead \/ g \notin ranking
      /\ Cmd("srem", g) \in ahead \/ g \notin instances
UnlistedInv ==
  /\ \A g \in unregistered : life[g] \in {"stopped", "down"}
  /\ Unlisted
  /\ \A h \in Handlers : \A g \in Gateways \ ghost :
       task[h] # None /\ task[h].by = Main(g) /\ life[g] = "stopping" /\ task[h].ok
         => Removed(h, g)

\* The report of c's connection has been executed.
Connected(c) ==
  \/ conn[c] = "up" /\ c \in reported
  \/ /\ conn[c] = "joining"
     /\ \E h \in Handlers : /\ task[h] # None /\ task[h].by = Client(c) /\ task[h].ok
                            /\ task[h].todo \in Notifying
RoutedInv ==
  \A c \in stored :
    latest[UserOf[c]] = c /\ UserOf[c] \notin disputed /\ Connected(c)
      => route[UserOf[c]] = [gateway |-> gateway[c], status |-> "connected"]

\* A lease of a user whose route is to the live gateway g goes on to find g.
LeaseFinds(t, g) ==
  /\ t.ok
  /\ LiveRoute(route, info, t.user) = g
  /\ \/ t.todo \in {<< Cmd("lease", None) >>, << Cmd("exists", g), Cmd("info", g) >>}
     \/ t.todo \in {<< Cmd("info", g) >>, << >>} /\ t.found = g
LeasedInv ==
  \A h \in Handlers :
    steady[h] # None => task[h] # None /\ LeaseFinds(task[h], steady[h])

IInv == TypeOK /\ TasksInv /\ NodesInv /\ VisibleInv /\ UnlistedInv /\ RoutedInv /\ LeasedInv
--------------------------------------------------------------------------------
(* The constants, and scripts *)

LEMMA Names ==
  /\ None \notin Instances /\ None \notin Gateways /\ None \notin Sends
  /\ None \notin Conns /\ None \notin Users /\ None \notin Callers
  /\ None \notin RouteType /\ None \notin TaskType
  /\ Gateways \cap Sends = {} /\ UserOf \in [Conns -> Users]
  /\ Gateways \subseteq Instances /\ Sends \subseteq Instances
BY RegistryAssumption, NoneAssumption DEF Instances

LEMMA CallerNames ==
  /\ \A i \in Instances : Main(i) \in Callers /\ Beat(i) \in Callers
  /\ \A c \in Conns : Client(c) \in Callers
  /\ \A p \in Callers : \/ \E i \in Instances : p = Main(i) \/ p = Beat(i)
                        \/ \E c \in Conns : p = Client(c)
  /\ \A i, j : Main(i) = Main(j) \/ Beat(i) = Beat(j) \/ Client(i) = Client(j) => i = j
  /\ \A i, j : Main(i) # Beat(j) /\ Main(i) # Client(j) /\ Beat(i) # Client(j)
  /\ \A i : Main(i)[1] = "main" /\ Beat(i)[1] = "beat" /\ Client(i)[1] = "client"
  /\ \A i : Main(i)[2] = i /\ Beat(i)[2] = i /\ Client(i)[2] = i
BY DEF Main, Beat, Client, Callers

LEMMA ScriptOne ==
  ASSUME NEW a
  PROVE  /\ << a >> # << >> /\ Head(<< a >>) = a /\ Tail(<< a >>) = << >>
         /\ ToSet(<< a >>) = {a} /\ DOMAIN << a >> = {1}
BY DEF ToSet

LEMMA ScriptTwo ==
  ASSUME NEW a, NEW b
  PROVE  /\ << a, b >> # << >> /\ Head(<< a, b >>) = a /\ Tail(<< a, b >>) = << b >>
         /\ ToSet(<< a, b >>) = {a, b}
BY DEF ToSet

LEMMA ScriptThree ==
  ASSUME NEW a, NEW b, NEW c
  PROVE  /\ << a, b, c >> # << >> /\ Head(<< a, b, c >>) = a /\ Tail(<< a, b, c >>) = << b, c >>
         /\ ToSet(<< a, b, c >>) = {a, b, c}
BY DEF ToSet

LEMMA ScriptNone == ToSet(<< >>) = {}
BY DEF ToSet

LEMMA TailSet ==
  ASSUME NEW S, NEW s \in Seq(S), s # << >>
  PROVE  /\ Tail(s) \in Seq(S) /\ Head(s) \in S
         /\ Head(s) \in ToSet(s) /\ ToSet(Tail(s)) \subseteq ToSet(s)
         /\ ToSet(s) = {Head(s)} \cup ToSet(Tail(s))
<1>1. /\ Tail(s) \in Seq(S) /\ Head(s) \in S /\ Head(s) = s[1]
      /\ Len(Tail(s)) = Len(s) - 1 /\ \A i \in 1 .. Len(Tail(s)) : Tail(s)[i] = s[i + 1]
  BY HeadTailProperties
<1>2. /\ Len(s) \in Nat /\ Len(s) # 0 /\ DOMAIN s = 1 .. Len(s)
      /\ DOMAIN Tail(s) = 1 .. Len(Tail(s))
  BY <1>1, LenProperties, EmptySeq
<1>3. Head(s) \in ToSet(s)
  BY <1>1, <1>2 DEF ToSet
<1>4. ASSUME NEW x \in ToSet(Tail(s)) PROVE x \in ToSet(s)
  <2>1. PICK i \in 1 .. Len(s) - 1 : x = s[i + 1]
    BY <1>1, <1>2, <1>4 DEF ToSet
  <2> QED BY <1>2, <2>1 DEF ToSet
<1>5. ASSUME NEW x \in ToSet(s), x # Head(s) PROVE x \in ToSet(Tail(s))
  <2>1. PICK i \in 1 .. Len(s) : x = s[i]
    BY <1>2, <1>5 DEF ToSet
  <2>2. i - 1 \in 1 .. Len(s) - 1 /\ (i - 1) + 1 = i
    BY <1>1, <1>2, <1>5, <2>1
  <2>3. Tail(s)[i - 1] = s[i]
    BY <1>1, <2>2
  <2> QED BY <1>1, <1>2, <2>1, <2>2, <2>3 DEF ToSet
<1> QED BY <1>1, <1>3, <1>4, <1>5

LEMMA SeqSet ==
  ASSUME NEW S, NEW s \in Seq(S)
  PROVE  ToSet(s) \subseteq S
BY DEF ToSet

CheckCmds == {Cmd(op, s) : op \in {"check", "drop"}, s \in Sends}

LEMMA CmdFields ==
  ASSUME NEW op, NEW i
  PROVE  Cmd(op, i).op = op /\ Cmd(op, i).inst = i
BY DEF Cmd

LEMMA CmdTypes ==
  /\ \A i \in Instances :
       \A op \in {"setex", "refresh", "sadd", "del", "srem", "get", "zadd", "zrem", "drop",
                  "connect", "getRoute", "disconnect", "exists", "info", "check"} :
         Cmd(op, i) \in CmdType
  /\ \A op \in {"lease", "lowest", "random", "members"} : Cmd(op, None) \in CmdType
BY DEF Cmd, CmdType

LEMMA CheckSet ==
  /\ Checks = Seq(CheckCmds) /\ CheckCmds \subseteq CmdType
  /\ \A c \in CheckCmds : c.op \in {"check", "drop"} /\ c.inst \in Sends
<1>1. Checks = Seq(CheckCmds)
  BY DEF Checks, CheckCmds
<1>2. \A c \in CheckCmds : \E s \in Sends : c = Cmd("check", s) \/ c = Cmd("drop", s)
  BY DEF CheckCmds
<1>3. \A s \in Sends : Cmd("check", s) \in CmdType /\ Cmd("drop", s) \in CmdType
  BY CmdTypes, Names
<1> QED BY <1>1, <1>2, <1>3, CmdFields

LEMMA ScriptSeq ==
  ASSUME NEW S, NEW a \in S, NEW b \in S, NEW c \in S
  PROVE  /\ << >> \in Seq(S) /\ << a >> \in Seq(S) /\ << a, b >> \in Seq(S)
         /\ << a, b, c >> \in Seq(S)
OBVIOUS

\* What is left of a request is a script.
LEMMA ScriptTypes ==
  ASSUME NEW s, OfKind(s)
  PROVE  s \in Seq(CmdType)
<1>1. ASSUME NEW i \in Instances, s \in Registering(i) PROVE s \in Seq(CmdType)
  <2>1. Cmd("setex", i) \in CmdType /\ Cmd("zadd", i) \in CmdType /\ Cmd("sadd", i) \in CmdType
    BY CmdTypes
  <2>2. Registering(i) \subseteq Seq(CmdType)
    BY <2>1, ScriptSeq DEF Registering, RegisterGateway, RegisterSendInstance
  <2> QED BY <1>1, <2>2
<1>2. ASSUME NEW i \in Instances, s \in Beating(i) PROVE s \in Seq(CmdType)
  <2>1. Cmd("get", i) \in CmdType /\ Cmd("refresh", i) \in CmdType /\ Cmd("zadd", i) \in CmdType
    BY CmdTypes
  <2>2. Beating(i) \subseteq Seq(CmdType)
    BY <2>1, ScriptSeq DEF Beating, UpdateHeartbeat, UpdateSendHeartbeat
  <2> QED BY <1>2, <2>2
<1>3. ASSUME NEW g \in Gateways, s \in Removing(g) PROVE s \in Seq(CmdType)
  <2>1. Cmd("del", g) \in CmdType /\ Cmd("zrem", g) \in CmdType /\ Cmd("srem", g) \in CmdType
    BY CmdTypes, Names
  <2>2. Removing(g) \subseteq Seq(CmdType)
    BY <2>1, ScriptSeq DEF Removing, UnregisterGateway
  <2> QED BY <1>3, <2>2
<1>4. ASSUME NEW g \in Gateways, s \in Leaving(g) PROVE s \in Seq(CmdType)
  <2>1. Cmd("getRoute", g) \in CmdType /\ Cmd("disconnect", g) \in CmdType
    BY CmdTypes, Names
  <2>2. Leaving(g) \subseteq Seq(CmdType)
    BY <2>1, ScriptSeq DEF Leaving, RecordUserDisconnect
  <2> QED BY <1>4, <2>2
<1>5. Checks \subseteq Seq(CmdType)
  BY CheckSet
<1>6. Cmd("random", None) \in CmdType /\ Cmd("members", None) \in CmdType
  BY CmdTypes
<1>7. Notifying \subseteq Seq(CmdType) /\ Listing \subseteq Seq(CmdType)
  BY <1>5, <1>6, ScriptSeq
  DEF Listing, Notifying, ListAllSendInstances, GetRandomSendInstance
<1>8. ASSUME NEW g \in Gateways, s \in Connecting(g) PROVE s \in Seq(CmdType)
  <2>1. Cmd("get", g) \in CmdType /\ Cmd("connect", g) \in CmdType
    BY CmdTypes, Names
  <2>2. Connecting(g) \subseteq Seq(CmdType)
    BY <1>6, <1>7, <2>1, ScriptSeq DEF Connecting
  <2> QED BY <1>8, <2>2
<1>9. CASE s \in Finding
  <2>1. Cmd("lease", None) \in CmdType /\ Cmd("lowest", None) \in CmdType
    BY CmdTypes
  <2>2. ASSUME NEW g \in Gateways, s \in Probing(g) PROVE s \in Seq(CmdType)
    <3>1. Cmd("exists", g) \in CmdType /\ Cmd("info", g) \in CmdType /\ Cmd("get", g) \in CmdType
      BY CmdTypes, Names
    <3>2. Probing(g) \subseteq Seq(CmdType)
      BY <3>1, ScriptSeq DEF Probing
    <3> QED BY <2>2, <3>2
  <2>3. GetAvailableGatewayForUser \in Seq(CmdType) /\ GetAnyGateway \in Seq(CmdType)
        /\ << >> \in Seq(CmdType)
    BY <2>1, ScriptSeq DEF GetAvailableGatewayForUser, GetAnyGateway
  <2> QED BY <1>9, <2>2, <2>3 DEF Finding
<1> QED BY <1>1, <1>2, <1>3, <1>4, <1>7, <1>8, <1>9 DEF OfKind

\* What a step of a handler makes of its script.
Goes(s, t) ==
  \/ t = Tail(s) \/ t = << >>
  \/ Head(s).op \in {"lease", "exists", "info"} /\ t = GetAnyGateway
  \/ Head(s).op = "lease" /\ \E g \in Gateways : t = << Cmd("exists", g), Cmd("info", g) >>
  \/ Head(s).op = "lowest" /\ \E g \in Gateways : t = << Cmd("get", g) >>
  \/ Head(s).op \in {"random", "members"} /\ t \in Checks
  \/ Head(s).op = "check" /\ t = << Cmd("drop", Head(s).inst) >> \o Tail(s)

LEMMA RegisteringScripts ==
  ASSUME NEW i \in Instances, NEW s \in Registering(i), s # << >>
  PROVE  /\ Head(s) \in {Cmd("setex", i), Cmd("zadd", i), Cmd("sadd", i)}
         /\ Cmd("zadd", i) \in ToSet(s) => i \in Gateways
         /\ Tail(s) \in Registering(i) /\ << >> \in Registering(i)
         /\ Cmd("sadd", i) \in ToSet(s)
         /\ \A c \in ToSet(s) : c \in {Cmd("setex", i), Cmd("zadd", i), Cmd("sadd", i)}
         /\ Head(s).op = "setex" => /\ Cmd("sadd", i) \in ToSet(Tail(s))
                                    /\ i \in Gateways => Cmd("zadd", i) \in ToSet(Tail(s))
         /\ Head(s).op = "zadd" => Cmd("sadd", i) \in ToSet(Tail(s))
         /\ Head(s).op = "sadd" => ToSet(s) = {Cmd("sadd", i)}
<1>1. << >> \in Registering(i) /\ << Cmd("sadd", i) >> \in Registering(i)
  BY DEF Registering
<1>2. i \in Gateways => << Cmd("zadd", i), Cmd("sadd", i) >> \in Registering(i)
  BY DEF Registering
<1>3. \/ i \in Gateways /\ s = << Cmd("setex", i), Cmd("zadd", i), Cmd("sadd", i) >>
      \/ i \in Gateways /\ s = << Cmd("zadd", i), Cmd("sadd", i) >>
      \/ i \notin Gateways /\ s = << Cmd("setex", i), Cmd("sadd", i) >>
      \/ s = << Cmd("sadd", i) >>
  BY Zenon DEF Registering, RegisterGateway, RegisterSendInstance
<1>4. CASE i \in Gateways /\ s = << Cmd("setex", i), Cmd("zadd", i), Cmd("sadd", i) >>
  BY <1>1, <1>2, <1>4, CmdFields, ScriptTwo, ScriptThree
<1>5. CASE i \in Gateways /\ s = << Cmd("zadd", i), Cmd("sadd", i) >>
  BY <1>1, <1>2, <1>5, CmdFields, ScriptOne, ScriptTwo
<1>6. CASE i \notin Gateways /\ s = << Cmd("setex", i), Cmd("sadd", i) >>
  BY <1>1, <1>6, CmdFields, ScriptOne, ScriptTwo
<1>7. CASE s = << Cmd("sadd", i) >>
  BY <1>1, <1>7, CmdFields, ScriptOne
<1> QED BY <1>3, <1>4, <1>5, <1>6, <1>7

LEMMA BeatingScripts ==
  ASSUME NEW i \in Instances, NEW s \in Beating(i), s # << >>
  PROVE  /\ Head(s) \in {Cmd("get", i), Cmd("refresh", i), Cmd("zadd", i)}
         /\ Cmd("zadd", i) \in ToSet(s) => i \in Gateways
         /\ Tail(s) \in Beating(i) /\ << >> \in Beating(i)
         /\ \A c \in ToSet(s) : c \in {Cmd("get", i), Cmd("refresh", i), Cmd("zadd", i)}
<1>1. << >> \in Beating(i)
  BY DEF Beating
<1>2. i \in Gateways => /\ << Cmd("refresh", i), Cmd("zadd", i) >> \in Beating(i)
                        /\ << Cmd("zadd", i) >> \in Beating(i)
  BY DEF Beating
<1>3. i \notin Gateways => << Cmd("refresh", i) >> \in Beating(i)
  BY DEF Beating
<1>4. \/ i \in Gateways /\ s = << Cmd("get", i), Cmd("refresh", i), Cmd("zadd", i) >>
      \/ i \in Gateways /\ s = << Cmd("refresh", i), Cmd("zadd", i) >>
      \/ i \in Gateways /\ s = << Cmd("zadd", i) >>
      \/ i \notin Gateways /\ s = << Cmd("get", i), Cmd("refresh", i) >>
      \/ i \notin Gateways /\ s = << Cmd("refresh", i) >>
  BY Zenon DEF Beating, UpdateHeartbeat, UpdateSendHeartbeat
<1>5. CASE i \in Gateways /\ s = << Cmd("get", i), Cmd("refresh", i), Cmd("zadd", i) >>
  BY <1>1, <1>2, <1>5, CmdFields, ScriptTwo, ScriptThree
<1>6. CASE i \in Gateways /\ s = << Cmd("refresh", i), Cmd("zadd", i) >>
  BY <1>1, <1>2, <1>6, CmdFields, ScriptOne, ScriptTwo
<1>7. CASE i \in Gateways /\ s = << Cmd("zadd", i) >>
  BY <1>1, <1>7, CmdFields, ScriptOne
<1>8. CASE i \notin Gateways /\ s = << Cmd("get", i), Cmd("refresh", i) >>
  BY <1>1, <1>3, <1>8, CmdFields, ScriptOne, ScriptTwo
<1>9. CASE i \notin Gateways /\ s = << Cmd("refresh", i) >>
  BY <1>1, <1>9, CmdFields, ScriptOne
<1> QED BY <1>4, <1>5, <1>6, <1>7, <1>8, <1>9

LEMMA RemovingScripts ==
  ASSUME NEW g \in Gateways, NEW s \in Removing(g), s # << >>
  PROVE  /\ Head(s) \in {Cmd("del", g), Cmd("zrem", g), Cmd("srem", g)}
         /\ Tail(s) \in Removing(g) /\ << >> \in Removing(g)
         /\ \A c \in ToSet(s) : c \in {Cmd("del", g), Cmd("zrem", g), Cmd("srem", g)}
<1>1. /\ << >> \in Removing(g) /\ << Cmd("srem", g) >> \in Removing(g)
      /\ << Cmd("zrem", g), Cmd("srem", g) >> \in Removing(g)
  BY DEF Removing
<1>2. \/ s = << Cmd("del", g), Cmd("zrem", g), Cmd("srem", g) >>
      \/ s = << Cmd("zrem", g), Cmd("srem", g) >>
      \/ s = << Cmd("srem", g) >>
  BY Zenon DEF Removing, UnregisterGateway
<1>3. CASE s = << Cmd("del", g), Cmd("zrem", g), Cmd("srem", g) >>
  BY <1>1, <1>3, ScriptThree
<1>4. CASE s = << Cmd("zrem", g), Cmd("srem", g) >>
  BY <1>1, <1>4, ScriptTwo
<1>5. CASE s = << Cmd("srem", g) >>
  BY <1>1, <1>5, ScriptOne
<1> QED BY <1>2, <1>3, <1>4, <1>5

LEMMA LeavingScripts ==
  ASSUME NEW g \in Gateways, NEW s \in Leaving(g), s # << >>
  PROVE  /\ Head(s) \in {Cmd("getRoute", g), Cmd("disconnect", g)}
         /\ Tail(s) \in Leaving(g) /\ << >> \in Leaving(g)
         /\ \A c \in ToSet(s) : c \in {Cmd("getRoute", g), Cmd("disconnect", g)}
         /\ Head(s).op = "getRoute" => Tail(s) = << Cmd("disconnect", g) >>
         /\ Head(s).op = "disconnect" => s = << Cmd("disconnect", g) >> /\ Tail(s) = << >>
<1>1. << >> \in Leaving(g) /\ << Cmd("disconnect", g) >> \in Leaving(g)
  BY DEF Leaving
<1>2. \/ s = << Cmd("getRoute", g), Cmd("disconnect", g) >>
      \/ s = << Cmd("disconnect", g) >>
  BY Zenon DEF Leaving, RecordUserDisconnect
<1>3. CASE s = << Cmd("getRoute", g), Cmd("disconnect", g) >>
  BY <1>1, <1>3, CmdFields, ScriptTwo
<1>4. CASE s = << Cmd("disconnect", g) >>
  BY <1>1, <1>4, CmdFields, ScriptOne
<1> QED BY <1>2, <1>3, <1>4

LEMMA ChecksScripts ==
  ASSUME NEW s \in Checks
  PROVE  /\ s # << >> => Tail(s) \in Checks /\ Head(s) \in CheckCmds
         /\ << >> \in Checks
         /\ \A c \in ToSet(s) : c \in CheckCmds
<1>1. s \in Seq(CheckCmds)
  BY CheckSet
<1>2. s # << >> => Tail(s) \in Seq(CheckCmds) /\ Head(s) \in CheckCmds
  BY <1>1
<1>3. ToSet(s) \subseteq CheckCmds
  BY <1>1, SeqSet
<1> QED BY <1>2, <1>3, CheckSet

LEMMA NoChecks == << >> \in Checks /\ << >> \in Notifying
<1>1. << >> \in Checks
  BY CheckSet
<1> QED BY <1>1 DEF Notifying

LEMMA NotifyingScripts ==
  ASSUME NEW s \in Notifying
  PROVE  /\ s = GetRandomSendInstance \/ s \in Checks
         /\ \A c \in ToSet(s) : c = Cmd("random", None) \/ c \in CheckCmds
         /\ \A c \in ToSet(s) : c.op \in Asynchronous
         /\ << >> \in Notifying
<1>1. s = GetRandomSendInstance \/ s \in Checks
  BY DEF Notifying
<1>2. \A c \in ToSet(s) : c = Cmd("random", None) \/ c \in CheckCmds
  BY <1>1, ScriptOne, ChecksScripts DEF GetRandomSendInstance
<1>3. \A c \in ToSet(s) : c.op \in Asynchronous
  BY <1>2, CheckSet, CmdFields DEF Asynchronous
<1>4. << >> \in Notifying
  BY NoChecks
<1> QED BY <1>1, <1>2, <1>3, <1>4

LEMMA ConnectingScripts ==
  ASSUME NEW g \in Gateways, NEW s \in Connecting(g)
  PROVE  /\ \/ /\ s = << Cmd("get", g), Cmd("connect", g), Cmd("random", None) >>
               /\ Head(s) = Cmd("get", g)
               /\ Tail(s) = << Cmd("connect", g), Cmd("random", None) >>
            \/ /\ s = << Cmd("connect", g), Cmd("random", None) >>
               /\ Head(s) = Cmd("connect", g) /\ Tail(s) = GetRandomSendInstance
            \/ s \in Notifying
         /\ << >> \in Connecting(g) /\ Notifying \subseteq Connecting(g)
         /\ << Cmd("connect", g), Cmd("random", None) >> \in Connecting(g)
         /\ \A c \in ToSet(s) : \/ c \in {Cmd("get", g), Cmd("connect", g), Cmd("random", None)}
                                \/ c \in CheckCmds
<1>1. /\ Notifying \subseteq Connecting(g) /\ GetRandomSendInstance \in Notifying
      /\ << Cmd("connect", g), Cmd("random", None) >> \in Connecting(g)
  BY DEF Connecting, Notifying
<1>2. << >> \in Connecting(g)
  BY <1>1, NotifyingScripts
<1>3. \/ s = << Cmd("get", g), Cmd("connect", g), Cmd("random", None) >>
      \/ s = << Cmd("connect", g), Cmd("random", None) >>
      \/ s \in Notifying
  BY DEF Connecting
<1>4. CASE s = << Cmd("get", g), Cmd("connect", g), Cmd("random", None) >>
  BY <1>1, <1>2, <1>4, ScriptThree
<1>5. CASE s = << Cmd("connect", g), Cmd("random", None) >>
  BY <1>1, <1>2, <1>5, ScriptTwo DEF GetRandomSendInstance
<1>6. CASE s \in Notifying
  BY <1>1, <1>2, <1>6, NotifyingScripts
<1> QED BY <1>3, <1>4, <1>5, <1>6

LEMMA ProbingScripts ==
  ASSUME NEW g \in Gateways, NEW s \in Probing(g)
  PROVE  /\ \/ Head(s) = Cmd("exists", g) /\ Tail(s) = << Cmd("info", g) >>
            \/ Head(s) = Cmd("info", g) /\ Tail(s) = << >>
            \/ Head(s) = Cmd("get", g) /\ Tail(s) = << >>
         /\ s # << >>
         /\ \A c \in ToSet(s) : c \in {Cmd("exists", g), Cmd("info", g), Cmd("get", g)}
         /\ << Cmd("info", g) >> \in Finding
<1>1. << Cmd("info", g) >> \in Finding
  BY DEF Finding, Probing
<1>2. \/ s = << Cmd("exists", g), Cmd("info", g) >>
      \/ s = << Cmd("info", g) >> \/ s = << Cmd("get", g) >>
  BY DEF Probing
<1>3. CASE s = << Cmd("exists", g), Cmd("info", g) >>
  BY <1>1, <1>3, ScriptTwo
<1>4. CASE s = << Cmd("info", g) >>
  BY <1>1, <1>4, ScriptOne
<1>5. CASE s = << Cmd("get", g) >>
  BY <1>1, <1>5, ScriptOne
<1> QED BY <1>2, <1>3, <1>4, <1>5

LEMMA FindingScripts ==
  ASSUME NEW s \in Finding
  PROVE  /\ s = << >> \/ s = GetAvailableGatewayForUser \/ s = GetAnyGateway
            \/ \E g \in Gateways : s \in Probing(g)
         /\ << >> \in Finding /\ GetAnyGateway \in Finding
         /\ \A g \in Gateways : /\ << Cmd("exists", g), Cmd("info", g) >> \in Finding
                                /\ << Cmd("get", g) >> \in Finding
         /\ \A c \in ToSet(s) : c.op \in {"lease", "lowest", "exists", "info", "get"}
<1>1. s = << >> \/ s = GetAvailableGatewayForUser \/ s = GetAnyGateway
      \/ \E g \in Gateways : s \in Probing(g)
  BY DEF Finding
<1>2. << >> \in Finding /\ GetAnyGateway \in Finding
  BY DEF Finding
<1>3. \A g \in Gateways : /\ << Cmd("exists", g), Cmd("info", g) >> \in Finding
                          /\ << Cmd("get", g) >> \in Finding
  BY DEF Finding, Probing
<1>4. CASE s = << >>
  BY <1>1, <1>2, <1>3, <1>4, ScriptNone
<1>5. CASE s = GetAvailableGatewayForUser
  BY <1>1, <1>2, <1>3, <1>5, ScriptOne, CmdFields DEF GetAvailableGatewayForUser
<1>6. CASE s = GetAnyGateway
  BY <1>1, <1>2, <1>3, <1>6, ScriptOne, CmdFields DEF GetAnyGateway
<1>7. ASSUME NEW g \in Gateways, s \in Probing(g)
      PROVE  \A c \in ToSet(s) : c.op \in {"lease", "lowest", "exists", "info", "get"}
  <2>1. \A c \in ToSet(s) : c \in {Cmd("exists", g), Cmd("info", g), Cmd("get", g)}
    BY <1>7, ProbingScripts
  <2> QED BY <2>1, CmdFields
<1> QED BY <1>1, <1>2, <1>3, <1>4, <1>5, <1>6, <1>7

LEMMA ListingScripts ==
  ASSUME NEW s \in Listing
  PROVE  /\ s = ListAllSendInstances \/ s \in Notifying
         /\ << >> \in Listing /\ Notifying \subseteq Listing
         /\ \A c \in ToSet(s) : \/ c = Cmd("random", None) \/ c = Cmd("members", None)
                                \/ c \in CheckCmds
<1>1. s = ListAllSendInstances \/ s \in Notifying
  BY DEF Listing
<1>2. Notifying \subseteq Listing
  BY DEF Listing
<1>3. << >> \in Listing
  BY <1>2, NoChecks
<1>4. CASE s = ListAllSendInstances
  BY <1>1, <1>2, <1>3, <1>4, ScriptOne DEF ListAllSendInstances
<1>5. CASE s \in Notifying
  BY <1>1, <1>2, <1>3, <1>5, NotifyingScripts
<1> QED BY <1>1, <1>4, <1>5

\* What the commands of a script tell of its kind.
KindOf(c, s) ==
  /\ c.op \in {"setex", "sadd"} => c.inst \in Instances /\ s \in Registering(c.inst)
  /\ c.op = "refresh" => c.inst \in Instances /\ s \in Beating(c.inst)
  /\ c.op = "zadd" =>
       c.inst \in Gateways /\ (s \in Registering(c.inst) \/ s \in Beating(c.inst))
  /\ c.op \in {"del", "zrem", "srem"} => c.inst \in Gateways /\ s \in Removing(c.inst)
  /\ c.op \in {"getRoute", "disconnect"} => c.inst \in Gateways /\ s \in Leaving(c.inst)
  /\ c.op = "connect" => c.inst \in Gateways /\ s \in Connecting(c.inst)
  /\ c.op \in {"lease", "lowest", "exists", "info"} => s \in Finding
  /\ c.op \in {"random", "members", "check", "drop"} =>
       s \in Listing \/ \E g \in Gateways : s \in Connecting(g)
  /\ c.op \in {"check", "drop"} => c.inst \in Sends /\ c \in CheckCmds

LEMMA ScriptKind ==
  ASSUME NEW s, OfKind(s), NEW c \in ToSet(s)
  PROVE  KindOf(c, s)
<1>1. ASSUME NEW i \in Instances, s \in Registering(i)
      PROVE  KindOf(c, s)
  <2>1. c \in {Cmd("setex", i), Cmd("zadd", i), Cmd("sadd", i)}
        /\ (c = Cmd("zadd", i) => i \in Gateways)
    BY <1>1, RegisteringScripts, ScriptNone
  <2> QED BY <1>1, <2>1, CmdFields DEF KindOf
<1>2. ASSUME NEW i \in Instances, s \in Beating(i)
      PROVE  KindOf(c, s)
  <2>1. c \in {Cmd("get", i), Cmd("refresh", i), Cmd("zadd", i)}
        /\ (c = Cmd("zadd", i) => i \in Gateways)
    BY <1>2, BeatingScripts, ScriptNone
  <2> QED BY <1>2, <2>1, CmdFields DEF KindOf
<1>3. ASSUME NEW g \in Gateways, s \in Removing(g)
      PROVE  KindOf(c, s)
  <2>1. c \in {Cmd("del", g), Cmd("zrem", g), Cmd("srem", g)}
    BY <1>3, RemovingScripts, ScriptNone
  <2> QED BY <1>3, <2>1, CmdFields DEF KindOf
<1>4. ASSUME NEW g \in Gateways, s \in Leaving(g)
      PROVE  KindOf(c, s)
  <2>1. c \in {Cmd("getRoute", g), Cmd("disconnect", g)}
    BY <1>4, LeavingScripts, ScriptNone
  <2> QED BY <1>4, <2>1, CmdFields DEF KindOf
<1>5. ASSUME c \in CheckCmds, s \in Listing \/ \E g \in Gateways : s \in Connecting(g)
      PROVE  KindOf(c, s)
  <2>1. c.op \in {"check", "drop"} /\ c.inst \in Sends
    BY <1>5, CheckSet
  <2> QED BY <1>5, <2>1 DEF KindOf
<1>6. ASSUME NEW g \in Gateways, s \in Connecting(g)
      PROVE  KindOf(c, s)
  <2>1. c \in {Cmd("get", g), Cmd("connect", g), Cmd("random", None)} \/ c \in CheckCmds
    BY <1>6, ConnectingScripts
  <2>2. CASE c \in {Cmd("get", g), Cmd("connect", g), Cmd("random", None)}
    BY <1>6, <2>2, CmdFields DEF KindOf
  <2> QED BY <1>5, <1>6, <2>1, <2>2
<1>7. CASE s \in Finding
  <2>1. c.op \in {"lease", "lowest", "exists", "info", "get"}
    BY <1>7, FindingScripts
  <2> QED BY <1>7, <2>1 DEF KindOf
<1>8. CASE s \in Listing
  <2>1. c = Cmd("random", None) \/ c = Cmd("members", None) \/ c \in CheckCmds
    BY <1>8, ListingScripts
  <2>2. CASE c = Cmd("random", None) \/ c = Cmd("members", None)
    BY <1>8, <2>2, CmdFields DEF KindOf
  <2> QED BY <1>5, <1>8, <2>1, <2>2
<1> QED BY <1>1, <1>2, <1>3, <1>4, <1>6, <1>7, <1>8 DEF OfKind

LEMMA HeadKind ==
  ASSUME NEW s, OfKind(s), s # << >>
  PROVE  /\ s \in Seq(CmdType) /\ Head(s) \in CmdType /\ Head(s) \in ToSet(s)
         /\ Tail(s) \in Seq(CmdType) /\ ToSet(s) = {Head(s)} \cup ToSet(Tail(s))
         /\ KindOf(Head(s), s)
<1>1. s \in Seq(CmdType)
  BY ScriptTypes
<1> QED BY <1>1, TailSet, ScriptKind

LEMMA GoesNotifying ==
  ASSUME NEW s \in Notifying, NEW t, s # << >>, Goes(s, t)
  PROVE  t \in Notifying
<1>1. CASE s \in Checks
  <2>1. Tail(s) \in Checks /\ Head(s) \in CheckCmds /\ << >> \in Checks
    BY <1>1, ChecksScripts
  <2>2. /\ Head(s).op \in {"check", "drop"} /\ Head(s).inst \in Sends
        /\ Tail(s) \in Seq(CheckCmds)
    BY <2>1, CheckSet
  <2>3. Cmd("drop", Head(s).inst) \in CheckCmds
    BY <2>2 DEF CheckCmds
  <2>4. << Cmd("drop", Head(s).inst) >> \o Tail(s) \in Seq(CheckCmds)
    BY <2>2, <2>3
  <2>5. t = Tail(s) \/ t = << >> \/ t = << Cmd("drop", Head(s).inst) >> \o Tail(s)
    BY <2>2 DEF Goes
  <2> QED BY <2>1, <2>4, <2>5, CheckSet DEF Notifying
<1>2. CASE s = GetRandomSendInstance
  <2>1. Head(s).op = "random" /\ Tail(s) = << >>
    BY <1>2, ScriptOne, CmdFields DEF GetRandomSendInstance
  <2>2. t = << >> \/ t \in Checks
    BY <2>1 DEF Goes
  <2> QED BY <2>2, NoChecks DEF Notifying
<1> QED BY <1>1, <1>2 DEF Notifying

LEMMA GoesFinding ==
  ASSUME NEW s \in Finding, NEW t, s # << >>, Goes(s, t)
  PROVE  t \in Finding
<1>1. /\ << >> \in Finding /\ GetAnyGateway \in Finding
      /\ \A g \in Gateways : /\ << Cmd("exists", g), Cmd("info", g) >> \in Finding
                             /\ << Cmd("get", g) >> \in Finding
  BY FindingScripts
<1>2. s = GetAvailableGatewayForUser \/ s = GetAnyGateway \/ \E g \in Gateways : s \in Probing(g)
  BY FindingScripts
<1>3. CASE s = GetAvailableGatewayForUser
  <2>1. Head(s).op = "lease" /\ Tail(s) = << >>
    BY <1>3, ScriptOne, CmdFields DEF GetAvailableGatewayForUser
  <2>2. \/ t = << >> \/ t = GetAnyGateway
        \/ \E g \in Gateways : t = << Cmd("exists", g), Cmd("info", g) >>
    BY <2>1 DEF Goes
  <2> QED BY <1>1, <2>2
<1>4. CASE s = GetAnyGateway
  <2>1. Head(s).op = "lowest" /\ Tail(s) = << >>
    BY <1>4, ScriptOne, CmdFields DEF GetAnyGateway
  <2>2. t = << >> \/ \E g \in Gateways : t = << Cmd("get", g) >>
    BY <2>1 DEF Goes
  <2> QED BY <1>1, <2>2
<1>5. ASSUME NEW g \in Gateways, s \in Probing(g) PROVE t \in Finding
  <2>1. Tail(s) \in Finding
    BY <1>1, <1>5, ProbingScripts
  <2>2. Head(s) \in {Cmd("exists", g), Cmd("info", g), Cmd("get", g)}
    BY <1>5, ProbingScripts
  <2>3. t = Tail(s) \/ t = << >> \/ t = GetAnyGateway
    BY <2>2, CmdFields DEF Goes
  <2> QED BY <1>1, <2>1, <2>3
<1> QED BY <1>2, <1>3, <1>4, <1>5

LEMMA GoesConnecting ==
  ASSUME NEW g \in Gateways, NEW s \in Connecting(g), NEW t, s # << >>, Goes(s, t)
  PROVE  t \in Connecting(g)
<1>1. Notifying \subseteq Connecting(g) /\ << >> \in Connecting(g)
      /\ << Cmd("connect", g), Cmd("random", None) >> \in Connecting(g)
  BY ConnectingScripts
<1>2. CASE s \in Notifying
  BY <1>1, <1>2, GoesNotifying
<1>3. CASE Head(s) = Cmd("get", g) /\ Tail(s) = << Cmd("connect", g), Cmd("random", None) >>
  <2>1. Head(s).op = "get"
    BY <1>3, CmdFields
  <2>2. t = Tail(s) \/ t = << >>
    BY <2>1 DEF Goes
  <2> QED BY <1>1, <1>3, <2>2
<1>4. CASE Head(s) = Cmd("connect", g) /\ Tail(s) = GetRandomSendInstance
  <2>1. Head(s).op = "connect"
    BY <1>4, CmdFields
  <2>2. t = Tail(s) \/ t = << >>
    BY <2>1 DEF Goes
  <2> QED BY <1>1, <1>4, <2>2 DEF Notifying
<1> QED BY <1>2, <1>3, <1>4, ConnectingScripts

LEMMA GoesListing ==
  ASSUME NEW s \in Listing, NEW t, s # << >>, Goes(s, t)
  PROVE  t \in Listing
<1>1. Notifying \subseteq Listing /\ << >> \in Listing
  BY ListingScripts
<1>2. CASE s \in Notifying
  BY <1>1, <1>2, GoesNotifying
<1>3. CASE s = ListAllSendInstances
  <2>1. Head(s).op = "members" /\ Tail(s) = << >>
    BY <1>3, ScriptOne, CmdFields DEF ListAllSendInstances
  <2>2. t = << >> \/ t \in Checks
    BY <2>1 DEF Goes
  <2> QED BY <1>1, <2>2 DEF Notifying
<1> QED BY <1>2, <1>3, ListingScripts

\* A step of a handler keeps the kind of its script.
LEMMA GoesKind ==
  ASSUME NEW s, NEW t, s # << >>, Goes(s, t)
  PROVE  /\ \A i \in Instances : /\ s \in Registering(i) => t \in Registering(i)
                                 /\ s \in Beating(i) => t \in Beating(i)
         /\ \A g \in Gateways : /\ s \in Removing(g) => t \in Removing(g)
                                /\ s \in Leaving(g) => t \in Leaving(g)
                                /\ s \in Connecting(g) => t \in Connecting(g)
         /\ s \in Notifying => t \in Notifying
         /\ s \in Finding => t \in Finding
         /\ s \in Listing => t \in Listing
         /\ OfKind(s) => OfKind(t)
<1>1. ASSUME NEW i \in Instances, s \in Registering(i) PROVE t \in Registering(i)
  <2>1. Head(s) \in {Cmd("setex", i), Cmd("zadd", i), Cmd("sadd", i)}
        /\ Tail(s) \in Registering(i) /\ << >> \in Registering(i)
    BY <1>1, RegisteringScripts
  <2>2. Head(s).op \in {"setex", "zadd", "sadd"}
    BY <2>1, CmdFields
  <2>3. t = Tail(s) \/ t = << >>
    BY <2>2 DEF Goes
  <2> QED BY <2>1, <2>3
<1>2. ASSUME NEW i \in Instances, s \in Beating(i) PROVE t \in Beating(i)
  <2>1. Head(s) \in {Cmd("get", i), Cmd("refresh", i), Cmd("zadd", i)}
        /\ Tail(s) \in Beating(i) /\ << >> \in Beating(i)
    BY <1>2, BeatingScripts
  <2>2. Head(s).op \in {"get", "refresh", "zadd"}
    BY <2>1, CmdFields
  <2>3. t = Tail(s) \/ t = << >>
    BY <2>2 DEF Goes
  <2> QED BY <2>1, <2>3
<1>3. ASSUME NEW g \in Gateways, s \in Removing(g) PROVE t \in Removing(g)
  <2>1. Head(s) \in {Cmd("del", g), Cmd("zrem", g), Cmd("srem", g)}
        /\ Tail(s) \in Removing(g) /\ << >> \in Removing(g)
    BY <1>3, RemovingScripts
  <2>2. Head(s).op \in {"del", "zrem", "srem"}
    BY <2>1, CmdFields
  <2>3. t = Tail(s) \/ t = << >>
    BY <2>2 DEF Goes
  <2> QED BY <2>1, <2>3
<1>4. ASSUME NEW g \in Gateways, s \in Leaving(g) PROVE t \in Leaving(g)
  <2>1. Head(s) \in {Cmd("getRoute", g), Cmd("disconnect", g)}
        /\ Tail(s) \in Leaving(g) /\ << >> \in Leaving(g)
    BY <1>4, LeavingScripts
  <2>2. Head(s).op \in {"getRoute", "disconnect"}
    BY <2>1, CmdFields
  <2>3. t = Tail(s) \/ t = << >>
    BY <2>2 DEF Goes
  <2> QED BY <2>1, <2>3
<1>5. \A g \in Gateways : s \in Connecting(g) => t \in Connecting(g)
  BY GoesConnecting
<1>6. /\ s \in Notifying => t \in Notifying
      /\ s \in Finding => t \in Finding
      /\ s \in Listing => t \in Listing
  BY GoesNotifying, GoesFinding, GoesListing
<1> QED BY <1>1, <1>2, <1>3, <1>4, <1>5, <1>6 DEF OfKind

\* What a script has still to do, its handler had to do before, but for what it looks up.
LEMMA GoesSet ==
  ASSUME NEW s, OfKind(s), NEW t, s # << >>, Goes(s, t), NEW c \in ToSet(t)
  PROVE  c \in ToSet(s) \/ c.op \in {"lowest", "exists", "info", "get", "check", "drop"}
<1>1. /\ ToSet(s) = {Head(s)} \cup ToSet(Tail(s)) /\ Tail(s) \in Seq(CmdType)
      /\ Head(s) \in CmdType
  BY HeadKind
<1>2. CASE t = Tail(s)
  BY <1>1, <1>2
<1>3. CASE t = << >>
  BY <1>3, ScriptNone
<1>4. CASE t = GetAnyGateway
  BY <1>4, ScriptOne, CmdFields DEF GetAnyGateway
<1>5. ASSUME NEW g \in Gateways, t = << Cmd("exists", g), Cmd("info", g) >>
      PROVE  c.op \in {"exists", "info"}
  <2>1. c \in {Cmd("exists", g), Cmd("info", g)}
    BY <1>5, ScriptTwo
  <2> QED BY <2>1, CmdFields
<1>6. ASSUME NEW g \in Gateways, t = << Cmd("get", g) >>
      PROVE  c.op = "get"
  BY <1>6, ScriptOne, CmdFields
<1>7. CASE t \in Checks
  BY <1>7, ChecksScripts, CheckSet
<1>8. CASE t = << Cmd("drop", Head(s).inst) >> \o Tail(s)
  <2> DEFINE d == Cmd("drop", Head(s).inst)
  <2>1. ToSet(t) \subseteq {d} \cup ToSet(Tail(s))
    <3> HIDE DEF d
    <3>1. << d >> \in Seq({d} \cup CmdType) /\ Tail(s) \in Seq({d} \cup CmdType)
      BY <1>1
    <3>2. /\ Len(t) = 1 + Len(Tail(s)) /\ t[1] = d /\ t \in Seq({d} \cup CmdType)
          /\ \A i \in 2 .. Len(t) : t[i] = Tail(s)[i - 1]
      BY <1>8, <3>1 DEF d
    <3>3. PICK i \in DOMAIN t : c = t[i]
      BY DEF ToSet
    <3>4. ASSUME NEW j \in DOMAIN t PROVE t[j] = d \/ t[j] \in ToSet(Tail(s))
      <4>1. Len(t) \in Nat /\ DOMAIN t = 1 .. Len(t) /\ DOMAIN Tail(s) = 1 .. Len(Tail(s))
        BY <3>1, <3>2, LenProperties
      <4>2. j \in 1 .. Len(t)
        BY <4>1
      <4>3. CASE j = 1
        BY <3>2, <4>3
      <4>4. CASE j # 1
        <5>1. j - 1 \in DOMAIN Tail(s) /\ t[j] = Tail(s)[j - 1]
          BY <1>1, <3>2, <4>1, <4>2, <4>4
        <5> QED BY <5>1 DEF ToSet
      <4> QED BY <4>3, <4>4
    <3> QED BY <3>4 DEF ToSet
  <2>2. c = d \/ c \in ToSet(s)
    BY <1>1, <2>1
  <2> QED BY <2>2, CmdFields
<1> QED BY <1>2, <1>3, <1>4, <1>5, <1>6, <1>7, <1>8 DEF Goes
--------------------------------------------------------------------------------
(* The steps of a handler *)

\* The task of h with another script, result and gateway.
With(h, todo, ok, found) ==
  [by |-> task[h].by, user |-> task[h].user, todo |-> todo, ok |-> ok, found |-> found]

LEMMA WithFields ==
  ASSUME NEW h, NEW todo, NEW ok, NEW found
  PROVE  /\ With(h, todo, ok, found).by = task[h].by
         /\ With(h, todo, ok, found).user = task[h].user
         /\ With(h, todo, ok, found).todo = todo
         /\ With(h, todo, ok, found).ok = ok
         /\ With(h, todo, ok, found).found = found
BY DEF With

LEMMA TaskFields ==
  ASSUME TypeOK, NEW h \in Handlers, task[h] # None
  PROVE  /\ task[h] \in TaskType /\ task[h].by \in Callers \cup {None}
         /\ task[h].user \in Users \cup {None} /\ task[h].todo \in Seq(CmdType)
         /\ task[h].ok \in BOOLEAN /\ task[h].found \in Gateways \cup {None}
         /\ task[h] = With(h, task[h].todo, task[h].ok, task[h].found)
         /\ \A todo \in Seq(CmdType), ok \in BOOLEAN, found \in Gateways \cup {None} :
              With(h, todo, ok, found) \in TaskType
<1>1. task[h] \in TaskType
  BY DEF TypeOK
<1> QED BY <1>1 DEF TaskType, With

LEMMA TaskUpdates ==
  ASSUME TypeOK, NEW h \in Handlers, task[h] # None
  PROVE  /\ \A todo : Continue(h, todo) <=>
              task' = [task EXCEPT ![h] = With(h, todo, task[h].ok, task[h].found)]
         /\ Refuse(h) <=> task' = [task EXCEPT ![h] = With(h, << >>, FALSE, task[h].found)]
<1>1. task[h] \in TaskType /\ task \in [Handlers -> TaskType \cup {None}]
  BY DEF TypeOK
<1>2. task[h] = [by |-> task[h].by, user |-> task[h].user, todo |-> task[h].todo,
                 ok |-> task[h].ok, found |-> task[h].found]
  BY <1>1 DEF TaskType
<1>3. ASSUME NEW todo
      PROVE  Continue(h, todo) <=>
               task' = [task EXCEPT ![h] = With(h, todo, task[h].ok, task[h].found)]
  BY <1>1, <1>2 DEF Continue, With
<1>4. Refuse(h) <=> task' = [task EXCEPT ![h] = With(h, << >>, FALSE, task[h].found)]
  BY <1>1, <1>2 DEF Refuse, With
<1> QED BY <1>3, <1>4

\* The task of h goes on with another script and gateway.
Finds(h, todo, found) == task' = [task EXCEPT ![h].todo = todo, ![h].found = found]

LEMMA FoundUpdate ==
  ASSUME TypeOK, NEW h \in Handlers, task[h] # None, NEW todo, NEW found
  PROVE  Finds(h, todo, found)
           <=> task' = [task EXCEPT ![h] = With(h, todo, task[h].ok, found)]
<1>1. task[h] \in TaskType /\ task \in [Handlers -> TaskType \cup {None}]
  BY DEF TypeOK
<1>2. task[h] = [by |-> task[h].by, user |-> task[h].user, todo |-> task[h].todo,
                 ok |-> task[h].ok, found |-> task[h].found]
  BY <1>1 DEF TaskType
<1> QED BY <1>1, <1>2 DEF With, Finds

Plain == Writes \cup {"get", "connect", "disconnect"}

FoundOf(h, t) ==
  task[h].todo \in Finding /\ t.ok /\ (t.todo = << >> \/ Head(t.todo).op = "get") =>
    \/ t.found \in Gateways
    \/ Head(task[h].todo).op = "get" /\ t.found = task[h].found

\* What the invariant needs to know of the task t that a step makes of h's.
Moves(h, t) ==
  /\ task[h] # None /\ task[h].todo # << >>
  /\ t \in TaskType /\ t.by = task[h].by /\ t.user = task[h].user
  /\ task' = [task EXCEPT ![h] = t]
  /\ Goes(task[h].todo, t.todo)
  /\ t.ok => task[h].ok
  /\ t.ok /\ Head(task[h].todo).op \in Plain => t.todo = Tail(task[h].todo)
  /\ Head(task[h].todo).op = "getRoute" /\ t.todo # << >> => t.found = Head(task[h].todo).inst
  /\ FoundOf(h, t)

Reading(h, t) ==
  /\ Moves(h, t)
  /\ Head(task[h].todo).op \notin Writes \cup {"connect", "disconnect"}
  /\ ReadOnly

LEMMA Scripted ==
  ASSUME TypeOK, TasksInv, NEW h \in Handlers, task[h] # None, task[h].todo # << >>
  PROVE  /\ OfKind(task[h].todo)
         /\ task[h].todo \in Seq(CmdType) /\ Tail(task[h].todo) \in Seq(CmdType)
         /\ << >> \in Seq(CmdType)
         /\ Head(task[h].todo) \in CmdType /\ Head(task[h].todo) \in ToSet(task[h].todo)
         /\ ToSet(task[h].todo) = {Head(task[h].todo)} \cup ToSet(Tail(task[h].todo))
         /\ KindOf(Head(task[h].todo), task[h].todo)
<1>1. OfKind(task[h].todo)
  BY DEF TasksInv, KindOK
<1> QED BY <1>1, HeadKind

\* A handler that gives up, or goes on with the next command.
LEMMA RefuseMoves ==
  ASSUME TypeOK, TasksInv, NEW h \in Handlers, task[h] # None, task[h].todo # << >>, Refuse(h)
  PROVE  Moves(h, With(h, << >>, FALSE, task[h].found))
<1>1. << >> \in Seq(CmdType) /\ task[h].found \in Gateways \cup {None}
  BY Scripted, TaskFields
<1>2. With(h, << >>, FALSE, task[h].found) \in TaskType
  BY <1>1, TaskFields
<1>3. task' = [task EXCEPT ![h] = With(h, << >>, FALSE, task[h].found)]
  BY TaskUpdates
<1> DEFINE t == With(h, << >>, FALSE, task[h].found)
<1>4. t.by = task[h].by /\ t.user = task[h].user /\ t.todo = << >> /\ t.ok = FALSE
  BY DEF With
<1> HIDE DEF t
<1>5. Goes(task[h].todo, t.todo)
  BY <1>4 DEF Goes
<1>6. t \in TaskType /\ task' = [task EXCEPT ![h] = t]
  BY <1>2, <1>3 DEF t
<1>7. Moves(h, t)
  BY <1>4, <1>5, <1>6 DEF Moves, FoundOf
<1> QED BY <1>7 DEF t

LEMMA AdvanceMoves ==
  ASSUME TypeOK, TasksInv, NEW h \in Handlers, task[h] # None, task[h].todo # << >>, Advance(h),
         Head(task[h].todo).op \in Plain
  PROVE  Moves(h, With(h, Tail(task[h].todo), task[h].ok, task[h].found))
<1> DEFINE s == task[h].todo
           t == With(h, Tail(s), task[h].ok, task[h].found)
<1>1. Tail(s) \in Seq(CmdType) /\ task[h].found \in Gateways \cup {None} /\ task[h].ok \in BOOLEAN
  BY Scripted, TaskFields
<1>2. t \in TaskType
  BY <1>1, TaskFields
<1>3. task' = [task EXCEPT ![h] = t]
  BY TaskUpdates DEF Advance
<1>4. s \in Finding => Head(s).op = "get"
  <2>1. SUFFICES ASSUME s \in Finding PROVE Head(s).op = "get"
    OBVIOUS
  <2>2. Head(s) \in ToSet(s)
    BY Scripted
  <2>3. Head(s).op \in {"lease", "lowest", "exists", "info", "get"}
    BY <2>1, <2>2, FindingScripts
  <2> QED BY <2>3 DEF Plain, Writes
<1>5. Head(s).op # "getRoute"
  BY DEF Plain, Writes
<1>6. /\ t.by = task[h].by /\ t.user = task[h].user /\ t.todo = Tail(s) /\ t.ok = task[h].ok
      /\ t.found = task[h].found
  BY WithFields
<1> QED BY <1>2, <1>3, <1>4, <1>5, <1>6 DEF Moves, FoundOf, Goes

LEMMA GetReading ==
  ASSUME TypeOK, TasksInv, NEW h \in Handlers, Get(h)
  PROVE  \E t : Reading(h, t)
<1>1. /\ task[h] # None /\ task[h].todo # << >> /\ Head(task[h].todo).op = "get"
      /\ Advance(h) \/ Refuse(h)
      /\ ReadOnly
  BY DEF Get, Executes
<1>2. Head(task[h].todo).op \in Plain
      /\ Head(task[h].todo).op \notin Writes \cup {"connect", "disconnect"}
  BY <1>1 DEF Plain, Writes
<1>3. CASE Advance(h)
  BY <1>1, <1>2, <1>3, AdvanceMoves DEF Reading
<1>4. CASE Refuse(h)
  BY <1>1, <1>2, <1>4, RefuseMoves DEF Reading
<1> QED BY <1>1, <1>3, <1>4

LEMMA ContinueMoves ==
  ASSUME TypeOK, TasksInv, NEW h \in Handlers, task[h] # None, task[h].todo # << >>,
         Head(task[h].todo).op \notin Plain,
         NEW todo \in Seq(CmdType), NEW found \in Gateways \cup {None},
         task' = [task EXCEPT ![h] = With(h, todo, task[h].ok, found)],
         Goes(task[h].todo, todo),
         Head(task[h].todo).op = "getRoute" /\ todo # << >> => found = Head(task[h].todo).inst,
         task[h].todo \in Finding /\ (todo = << >> \/ Head(todo).op = "get") => found \in Gateways
  PROVE  Moves(h, With(h, todo, task[h].ok, found))
<1> DEFINE t == With(h, todo, task[h].ok, found)
<1>1. t \in TaskType
  BY TaskFields
<1>2. /\ t.by = task[h].by /\ t.user = task[h].user /\ t.todo = todo /\ t.ok = task[h].ok
      /\ t.found = found
  BY WithFields
<1> QED BY <1>1, <1>2 DEF Moves, FoundOf

LEMMA FallBackReading ==
  ASSUME TypeOK, TasksInv, NEW h \in Handlers, Executes(h, {"lease", "exists", "info"}),
         FallBack(h), ReadOnly
  PROVE  \E t : Reading(h, t)
<1>1. /\ task[h] # None /\ task[h].todo # << >>
      /\ Head(task[h].todo).op \in {"lease", "exists", "info"}
  BY DEF Executes
<1>2. Head(task[h].todo).op \notin Plain /\ Head(task[h].todo).op # "getRoute"
      /\ Head(task[h].todo).op \notin Writes \cup {"connect", "disconnect"}
  BY <1>1 DEF Plain, Writes
<1>3. GetAnyGateway \in Seq(CmdType) /\ GetAnyGateway # << >> /\ Head(GetAnyGateway).op = "lowest"
  <2>1. Cmd("lowest", None) \in CmdType
    BY CmdTypes
  <2> QED BY <2>1, ScriptSeq, ScriptOne, CmdFields DEF GetAnyGateway
<1>4. task' = [task EXCEPT ![h] = With(h, GetAnyGateway, task[h].ok, task[h].found)]
  BY <1>1, TaskUpdates DEF FallBack, GetAnyGateway
<1>5. task[h].found \in Gateways \cup {None}
  BY <1>1, TaskFields
<1>6. Goes(task[h].todo, GetAnyGateway)
  BY <1>1 DEF Goes
<1>7. Moves(h, With(h, GetAnyGateway, task[h].ok, task[h].found))
  BY <1>1, <1>2, <1>3, <1>4, <1>5, <1>6, ContinueMoves
<1> QED BY <1>2, <1>7 DEF Reading

\* The user of a task that reads or writes a route.
LEMMA UserKnown ==
  ASSUME TypeOK, TasksInv, NEW h \in Handlers, task[h] # None, task[h].todo # << >>,
         Head(task[h].todo).op \in UserOps
  PROVE  task[h].user \in Users
<1>1. Head(task[h].todo) \in ToSet(task[h].todo) /\ task[h].user \in Users \cup {None}
  BY Scripted, TaskFields
<1> QED BY <1>1 DEF TasksInv, KindOK

LEMMA LeaseReading ==
  ASSUME TypeOK, TasksInv, NEW h \in Handlers, Lease(h)
  PROVE  \E t : Reading(h, t)
<1> DEFINE r == route[task[h].user]
           todo == << Cmd("exists", r.gateway), Cmd("info", r.gateway) >>
<1>1. /\ task[h] # None /\ task[h].todo # << >> /\ Head(task[h].todo).op = "lease"
      /\ (r # None /\ Continue(h, todo)) \/ FallBack(h)
      /\ ReadOnly
  BY DEF Lease, Executes, Reads
<1>2. Head(task[h].todo).op \notin Plain /\ Head(task[h].todo).op # "getRoute"
      /\ Head(task[h].todo).op \notin Writes \cup {"connect", "disconnect"}
  BY <1>1 DEF Plain, Writes
<1>3. CASE FallBack(h)
  BY <1>1, <1>3, FallBackReading DEF Lease, Executes
<1>4. CASE r # None /\ Continue(h, todo)
  <2>1. r.gateway \in Gateways
    <3>1. task[h].user \in Users
      BY <1>1, UserKnown DEF UserOps
    <3> QED BY <1>4, <3>1 DEF TypeOK, RouteType
  <2>2. Cmd("exists", r.gateway) \in CmdType /\ Cmd("info", r.gateway) \in CmdType
    BY <2>1, CmdTypes, Names
  <2>3. todo \in Seq(CmdType) /\ todo # << >> /\ Head(todo).op = "exists"
    BY <2>2, ScriptSeq, ScriptTwo, CmdFields
  <2>4. Goes(task[h].todo, todo)
    BY <1>1, <2>1 DEF Goes
  <2>5. task' = [task EXCEPT ![h] = With(h, todo, task[h].ok, task[h].found)]
    BY <1>1, <1>4, TaskUpdates
  <2>6. task[h].found \in Gateways \cup {None}
    BY <1>1, TaskFields
  <2>7. Moves(h, With(h, todo, task[h].ok, task[h].found))
    BY <1>1, <1>2, <2>3, <2>4, <2>5, <2>6, ContinueMoves
  <2> QED BY <1>1, <1>2, <2>7 DEF Reading
<1> QED BY <1>1, <1>3, <1>4

LEMMA ProbeReading ==
  ASSUME TypeOK, TasksInv, NEW h \in Handlers, Probe(h)
  PROVE  \E t : Reading(h, t)
<1> DEFINE s == task[h].todo
           g == Head(s).inst
<1>1. /\ task[h] # None /\ s # << >> /\ Head(s).op \in {"exists", "info"}
      /\ \/ Finds(h, Tail(s), g)
         \/ FallBack(h)
      /\ ReadOnly
  BY DEF Probe, Executes, Current, Finds
<1>2. Head(s).op \notin Plain /\ Head(s).op # "getRoute"
      /\ Head(s).op \notin Writes \cup {"connect", "disconnect"}
  BY <1>1 DEF Plain, Writes
<1>3. CASE FallBack(h)
  BY <1>1, <1>3, FallBackReading DEF Executes
<1>4. CASE Finds(h, Tail(s), g)
  <2>1. s \in Finding
    BY <1>1, Scripted DEF KindOf
  <2>2. g \in Gateways
    <3>1. PICK f \in Gateways : s \in Probing(f)
      <4>1. s # GetAvailableGatewayForUser /\ s # GetAnyGateway
        BY <1>1, ScriptOne, CmdFields DEF GetAvailableGatewayForUser, GetAnyGateway
      <4> QED BY <1>1, <2>1, <4>1, FindingScripts
    <3>2. Head(s) \in {Cmd("exists", f), Cmd("info", f), Cmd("get", f)}
      BY <3>1, ProbingScripts
    <3> QED BY <3>2, CmdFields
  <2>3. Tail(s) \in Seq(CmdType) /\ Goes(s, Tail(s))
    BY <1>1, Scripted DEF Goes
  <2>4. task' = [task EXCEPT ![h] = With(h, Tail(s), task[h].ok, g)]
    BY <1>1, <1>4, FoundUpdate
  <2>5. Moves(h, With(h, Tail(s), task[h].ok, g))
    BY <1>1, <1>2, <2>2, <2>3, <2>4, ContinueMoves
  <2> QED BY <1>1, <1>2, <2>5 DEF Reading
<1> QED BY <1>1, <1>3, <1>4

LEMMA LowestReading ==
  ASSUME TypeOK, TasksInv, NEW h \in Handlers, GetLowestLoadGateway(h)
  PROVE  \E t : Reading(h, t)
<1> DEFINE s == task[h].todo
<1>1. /\ task[h] # None /\ s # << >> /\ Head(s).op = "lowest"
      /\ \/ \E g \in ranking : Finds(h, << Cmd("get", g) >>, g)
         \/ Refuse(h)
      /\ ReadOnly
  BY DEF GetLowestLoadGateway, Executes, Finds
<1>2. Head(s).op \notin Plain /\ Head(s).op # "getRoute"
      /\ Head(s).op \notin Writes \cup {"connect", "disconnect"}
  BY <1>1 DEF Plain, Writes
<1>3. CASE Refuse(h)
  BY <1>1, <1>2, <1>3, RefuseMoves DEF Reading
<1>4. ASSUME NEW g \in ranking, Finds(h, << Cmd("get", g) >>, g)
      PROVE  \E t : Reading(h, t)
  <2>1. g \in Gateways
    BY DEF TypeOK
  <2>2. << Cmd("get", g) >> \in Seq(CmdType)
    BY <2>1, CmdTypes, ScriptSeq, Names
  <2>3. Goes(s, << Cmd("get", g) >>)
    BY <1>1, <2>1 DEF Goes
  <2>4. task' = [task EXCEPT ![h] = With(h, << Cmd("get", g) >>, task[h].ok, g)]
    BY <1>1, <1>4, FoundUpdate
  <2>5. Moves(h, With(h, << Cmd("get", g) >>, task[h].ok, g))
    BY <1>1, <1>2, <2>1, <2>2, <2>3, <2>4, ContinueMoves
  <2> QED BY <1>1, <1>2, <2>5 DEF Reading
<1> QED BY <1>1, <1>3, <1>4

LEMMA PickReading ==
  ASSUME TypeOK, TasksInv, NEW h \in Handlers, SRandMember(h) \/ SMembers(h)
  PROVE  \E t : Reading(h, t)
<1> DEFINE s == task[h].todo
<1>1. \A i \in SendSet : Cmd("check", i) \in CheckCmds
  BY DEF SendSet, CheckCmds
<1>2. CheckOne \subseteq Checks
  <2>1. \A i \in SendSet : << Cmd("check", i) >> \in Seq(CheckCmds)
    BY <1>1, ScriptSeq
  <2> QED BY <2>1, CheckSet DEF CheckOne
<1>3. CheckAll \subseteq Checks
  <2>1. SUFFICES ASSUME NEW q \in SetToSeqs(SendSet)
                 PROVE  [n \in DOMAIN q |-> Cmd("check", q[n])] \in Checks
    BY DEF CheckAll
  <2>2. q \in [1 .. Cardinality(SendSet) -> SendSet]
    BY DEF SetToSeqs
  <2>3. Cardinality(SendSet) \in Nat
    <3>1. IsFiniteSet(SendSet)
      BY RegistryAssumption, FS_Subset DEF SendSet
    <3> QED BY <3>1, FS_CardinalityType
  <2>4. [n \in DOMAIN q |-> Cmd("check", q[n])] \in [1 .. Cardinality(SendSet) -> CheckCmds]
    BY <1>1, <2>2
  <2>5. [n \in DOMAIN q |-> Cmd("check", q[n])] \in Seq(CheckCmds)
    BY <2>3, <2>4, SeqDef
  <2> QED BY <2>5, CheckSet
<1>4. /\ task[h] # None /\ s # << >> /\ Head(s).op \in {"random", "members"}
      /\ \E todo \in CheckOne \cup CheckAll \cup {<< >>} : Continue(h, todo)
      /\ ReadOnly
  BY DEF SRandMember, SMembers, Pick, Executes
<1>5. PICK todo \in Checks : Continue(h, todo)
  BY <1>2, <1>3, <1>4, NoChecks
<1>6. Head(s).op \notin Plain /\ Head(s).op # "getRoute"
      /\ Head(s).op \notin Writes \cup {"connect", "disconnect"}
  BY <1>4 DEF Plain, Writes
<1>7. todo \in Seq(CmdType) /\ Goes(s, todo)
  BY <1>4, <1>5, CheckSet DEF Goes
<1>8. s \notin Finding
  BY <1>4, Scripted, FindingScripts
<1>9. task' = [task EXCEPT ![h] = With(h, todo, task[h].ok, task[h].found)]
      /\ task[h].found \in Gateways \cup {None}
  BY <1>4, <1>5, TaskUpdates, TaskFields
<1>10. Moves(h, With(h, todo, task[h].ok, task[h].found))
  BY <1>4, <1>6, <1>7, <1>8, <1>9, ContinueMoves
<1> QED BY <1>4, <1>6, <1>10 DEF Reading

LEMMA CheckReading ==
  ASSUME TypeOK, TasksInv, NEW h \in Handlers, CheckInstance(h)
  PROVE  \E t : Reading(h, t)
<1> DEFINE s == task[h].todo
           rest == << Cmd("drop", Head(s).inst) >> \o Tail(s)
<1>1. /\ task[h] # None /\ s # << >> /\ Head(s).op = "check"
      /\ Continue(h, Tail(s)) \/ Continue(h, rest)
      /\ ReadOnly
  BY DEF CheckInstance, Executes, Current, Advance
<1>2. Head(s).op \notin Plain /\ Head(s).op # "getRoute"
      /\ Head(s).op \notin Writes \cup {"connect", "disconnect"}
  BY <1>1 DEF Plain, Writes
<1>3. s \notin Finding
  BY <1>1, Scripted, FindingScripts
<1>4. Tail(s) \in Seq(CmdType) /\ Head(s).inst \in Sends
  BY <1>1, Scripted DEF KindOf
<1>5. rest \in Seq(CmdType)
  <2>1. Cmd("drop", Head(s).inst) \in CmdType
    BY <1>4, CmdTypes, Names
  <2>2. << Cmd("drop", Head(s).inst) >> \in Seq(CmdType)
    BY <2>1, ScriptSeq
  <2> QED BY <1>4, <2>2
<1>6. PICK todo \in {Tail(s), rest} : Continue(h, todo)
  BY <1>1
<1>7. todo \in Seq(CmdType) /\ Goes(s, todo)
  BY <1>1, <1>4, <1>5, <1>6 DEF Goes
<1>8. task' = [task EXCEPT ![h] = With(h, todo, task[h].ok, task[h].found)]
      /\ task[h].found \in Gateways \cup {None}
  BY <1>1, <1>6, TaskUpdates, TaskFields
<1>9. Moves(h, With(h, todo, task[h].ok, task[h].found))
  BY <1>1, <1>2, <1>3, <1>7, <1>8, ContinueMoves
<1> QED BY <1>1, <1>2, <1>9 DEF Reading

LEMMA RouteReading ==
  ASSUME TypeOK, TasksInv, NEW h \in Handlers, GetRoute(h)
  PROVE  \E t : Reading(h, t)
<1> DEFINE s == task[h].todo
           r == route[task[h].user]
           g == Head(s).inst
<1>1. /\ task[h] # None /\ s # << >> /\ Head(s).op = "getRoute"
      /\ \/ r.gateway = g /\ Finds(h, Tail(s), r.gateway)
         \/ Continue(h, << >>)
      /\ ReadOnly
  BY DEF GetRoute, Executes, Current, Finds
<1>2. Head(s).op \notin Plain
      /\ Head(s).op \notin Writes \cup {"connect", "disconnect"}
  BY <1>1 DEF Plain, Writes
<1>3. s \notin Finding
  BY <1>1, Scripted, FindingScripts
<1>4. g \in Gateways /\ Tail(s) \in Seq(CmdType) /\ << >> \in Seq(CmdType)
  BY <1>1, Scripted DEF KindOf
<1>5. CASE Finds(h, Tail(s), g)
  <2>1. task' = [task EXCEPT ![h] = With(h, Tail(s), task[h].ok, g)]
    BY <1>1, <1>5, FoundUpdate
  <2>2. Goes(s, Tail(s))
    BY DEF Goes
  <2>3. Moves(h, With(h, Tail(s), task[h].ok, g))
    BY <1>1, <1>2, <1>3, <1>4, <2>1, <2>2, ContinueMoves
  <2> QED BY <1>1, <1>2, <2>3 DEF Reading
<1>6. CASE Continue(h, << >>)
  <2>1. task' = [task EXCEPT ![h] = With(h, << >>, task[h].ok, task[h].found)]
        /\ task[h].found \in Gateways \cup {None}
    BY <1>1, <1>6, TaskUpdates, TaskFields
  <2>2. Goes(s, << >>)
    BY DEF Goes
  <2>3. Moves(h, With(h, << >>, task[h].ok, task[h].found))
    BY <1>1, <1>2, <1>3, <1>4, <2>1, <2>2, ContinueMoves
  <2> QED BY <1>1, <1>2, <2>3 DEF Reading
<1> QED BY <1>1, <1>5, <1>6
--------------------------------------------------------------------------------
(* Handlers' tasks and their callers *)

LEMMA MovesKind ==
  ASSUME NEW h \in Handlers, NEW t, TypeOK, TasksInv, Moves(h, t)
  PROVE  KindOK(t)
<1> DEFINE s == task[h].todo
<1>1. /\ task[h] # None /\ s # << >> /\ Goes(s, t.todo) /\ t.user = task[h].user
      /\ Head(s).op = "getRoute" /\ t.todo # << >> => t.found = Head(s).inst
  BY DEF Moves
<1>2. OfKind(s) /\ KindOK(task[h])
  BY <1>1 DEF TasksInv, KindOK
<1>3. OfKind(t.todo)
  BY <1>1, <1>2, GoesKind
<1>4. ASSUME NEW g \in Gateways, t.todo = << Cmd("disconnect", g) >>
      PROVE  t.found = g
  <2>1. Cmd("disconnect", g) \in ToSet(t.todo) /\ t.todo # << >>
    BY <1>4, ScriptOne
  <2>2. Cmd("disconnect", g).op = "disconnect" /\ Cmd("disconnect", g).inst = g
    BY CmdFields
  <2>3. Cmd("disconnect", g) \in ToSet(s)
    BY <1>1, <1>2, <2>1, <2>2, GoesSet
  <2>4. s \in Leaving(g)
    BY <1>2, <2>2, <2>3, ScriptKind DEF KindOf
  <2>5. CASE Head(s) = Cmd("getRoute", g)
    BY <1>1, <2>1, <2>5, CmdFields
  <2>6. CASE Head(s) = Cmd("disconnect", g)
    <3>1. Head(s).op = "disconnect" /\ Tail(s) = << >>
      BY <1>1, <2>2, <2>4, <2>6, LeavingScripts
    <3>2. t.todo = << >>
      BY <1>1, <3>1 DEF Goes
    <3> QED BY <2>1, <3>2
  <2> QED BY <1>1, <2>4, <2>5, <2>6, LeavingScripts
<1>5. ASSUME t.user = None, NEW c \in ToSet(t.todo)
      PROVE  c.op \notin UserOps
  <2>1. c \in ToSet(s) \/ c.op \in {"lowest", "exists", "info", "get", "check", "drop"}
    BY <1>1, <1>2, GoesSet
  <2>2. CASE c \in ToSet(s)
    BY <1>1, <1>2, <1>5, <2>2 DEF KindOK
  <2>3. CASE c.op \in {"lowest", "exists", "info", "get", "check", "drop"}
    BY <2>3 DEF UserOps
  <2> QED BY <2>1, <2>2, <2>3
<1> QED BY <1>3, <1>4, <1>5 DEF KindOK

LEMMA MovesCall ==
  ASSUME NEW h \in Handlers, NEW t, TypeOK, TasksInv, NodesInv, Moves(h, t),
         life' = life, conn' = conn, gateway' = gateway
  PROVE  CallOK(t)'
<1> DEFINE s == task[h].todo
<1>1. /\ task[h] # None /\ s # << >> /\ Goes(s, t.todo)
      /\ t.user = task[h].user /\ t.by = task[h].by
      /\ t.ok => task[h].ok
      /\ s \in Finding /\ t.ok /\ (t.todo = << >> \/ Head(t.todo).op = "get") =>
           t.found \in Gateways \/ (Head(s).op = "get" /\ t.found = task[h].found)
  <2>1. /\ task[h] # None /\ s # << >> /\ Goes(s, t.todo)
        /\ t.user = task[h].user /\ t.by = task[h].by
    BY DEF Moves
  <2>2. t.ok => task[h].ok
    BY DEF Moves
  <2>3. s \in Finding /\ t.ok /\ (t.todo = << >> \/ Head(t.todo).op = "get") =>
          t.found \in Gateways \/ (Head(s).op = "get" /\ t.found = task[h].found)
    BY DEF Moves, FoundOf
  <2> QED BY <2>1, <2>2, <2>3
<1>2. CallOK(task[h])
  BY <1>1 DEF TasksInv
<1>3. ASSUME NEW i \in Instances, t.by = Main(i)
      PROVE  \/ life[i] = "starting" /\ t.todo \in Registering(i)
             \/ life[i] = "stopping" /\ t.todo \in Removing(i)
  <2>1. \/ life[i] = "starting" /\ s \in Registering(i)
        \/ life[i] = "stopping" /\ s \in Removing(i)
    BY <1>1, <1>2, <1>3 DEF CallOK
  <2>2. life[i] = "stopping" => i \in Gateways
    BY DEF NodesInv
  <2> QED BY <1>1, <2>1, <2>2, GoesKind
<1>4. ASSUME NEW i \in Instances, t.by = Beat(i)
      PROVE  t.todo \in Beating(i)
  <2>1. s \in Beating(i)
    BY <1>1, <1>2, <1>4 DEF CallOK
  <2> QED BY <1>1, <2>1, GoesKind
<1>5. ASSUME NEW c \in Conns, t.by = Client(c)
      PROVE  /\ t.user = UserOf[c]
             /\ \/ /\ conn[c] = "asking" /\ t.todo \in Finding
                   /\ t.ok /\ (t.todo = << >> \/ Head(t.todo).op = "get") => t.found \in Gateways
                \/ conn[c] = "joining" /\ t.todo \in Connecting(gateway[c])
                \/ conn[c] = "leaving" /\ t.todo \in Leaving(gateway[c])
  <2>1. t.user = UserOf[c]
    BY <1>1, <1>2, <1>5 DEF CallOK
  <2>2. CASE conn[c] = "asking"
    <3>1. /\ s \in Finding
          /\ task[h].ok /\ (s = << >> \/ Head(s).op = "get") => task[h].found \in Gateways
      BY <1>1, <1>2, <1>5, <2>2 DEF CallOK
    <3>2. t.todo \in Finding
      BY <1>1, <3>1, GoesKind
    <3> QED BY <1>1, <2>1, <2>2, <3>1, <3>2
  <2>3. CASE conn[c] = "joining"
    <3>1. s \in Connecting(gateway[c]) /\ gateway[c] \in Gateways
      BY <1>1, <1>2, <1>5, <2>3 DEF CallOK, NodesInv
    <3>2. t.todo \in Connecting(gateway[c])
      BY <1>1, <3>1, GoesKind
    <3> QED BY <2>1, <2>3, <3>2
  <2>4. CASE conn[c] = "leaving"
    <3>1. s \in Leaving(gateway[c]) /\ gateway[c] \in Gateways
      BY <1>1, <1>2, <1>5, <2>4 DEF CallOK, NodesInv
    <3>2. t.todo \in Leaving(gateway[c])
      BY <1>1, <3>1, GoesKind
    <3> QED BY <2>1, <2>4, <3>2
  <2> QED BY <1>1, <1>2, <1>5, <2>2, <2>3, <2>4 DEF CallOK
<1> QED BY <1>3, <1>4, <1>5 DEF CallOK

LEMMA MovesTasks ==
  ASSUME NEW h \in Handlers, NEW t, TypeOK, TasksInv, NodesInv, Moves(h, t),
         life' = life, conn' = conn, gateway' = gateway, calling' = calling
  PROVE  TasksInv'
<1>1. /\ task[h] # None /\ t.by = task[h].by /\ t # None
      /\ \A k \in Handlers : task'[k] = IF k = h THEN t ELSE task[k]
  BY Names DEF Moves, TypeOK
<1>2. KindOK(t) /\ CallOK(t)'
  BY MovesKind, MovesCall
<1>3. ASSUME NEW k \in Handlers, task'[k] # None
      PROVE  /\ KindOK(task'[k]) /\ CallOK(task[k])'
             /\ task'[k].by # None => task'[k].by \in calling'
  <2>1. CASE k = h
    BY <1>1, <1>2, <2>1 DEF TasksInv, CallOK
  <2>2. CASE k # h
    <3>1. task'[k] = task[k] /\ KindOK(task[k]) /\ CallOK(task[k])
          /\ (task[k].by # None => task[k].by \in calling)
      BY <1>1, <1>3, <2>2 DEF TasksInv
    <3>2. CallOK(task[k])'
      BY <3>1 DEF CallOK
    <3> QED BY <3>1, <3>2
  <2> QED BY <2>1, <2>2
<1>4. ASSUME NEW j \in Handlers, NEW k \in Handlers, task'[j] # None, task'[k] # None,
             task'[j].by = task'[k].by, task'[j].by # None
      PROVE  j = k
  <2>1. task[j] # None /\ task[k] # None /\ task[j].by = task'[j].by /\ task[k].by = task'[k].by
    BY <1>1, <1>4
  <2> QED BY <1>4, <2>1 DEF TasksInv
<1> QED BY <1>3, <1>4 DEF TasksInv

\* What happens to p's own state: nothing.
Undisturbed(p) ==
  /\ \A i \in Instances : p = Main(i) => life'[i] = life[i]
  /\ \A c \in Conns : p = Client(c) => conn'[c] = conn[c] /\ gateway'[c] = gateway[c]

\* Handlers whose tasks stay as they are, go on without their callers, or end.
Fewer ==
  \A k \in Handlers : task'[k] # None =>
    /\ task[k] # None
    /\ task'[k].user = task[k].user /\ task'[k].todo = task[k].todo
    /\ task'[k].ok = task[k].ok /\ task'[k].found = task[k].found
    /\ task'[k].by # None => /\ task'[k].by = task[k].by /\ task[k].by \in calling'
                             /\ Undisturbed(task[k].by)

LEMMA FewerTasks ==
  ASSUME TasksInv, Fewer
  PROVE  TasksInv'
<1>1. ASSUME NEW k \in Handlers, task'[k] # None
      PROVE  /\ KindOK(task'[k]) /\ CallOK(task[k])'
             /\ task'[k].by # None => task'[k].by \in calling'
  <2>1. /\ task[k] # None
        /\ task'[k].user = task[k].user /\ task'[k].todo = task[k].todo
        /\ task'[k].ok = task[k].ok /\ task'[k].found = task[k].found
        /\ task'[k].by # None => /\ task'[k].by = task[k].by /\ task[k].by \in calling'
                                 /\ Undisturbed(task[k].by)
    BY <1>1 DEF Fewer
  <2>2. KindOK(task[k]) /\ CallOK(task[k])
    BY <2>1 DEF TasksInv
  <2>3. KindOK(task'[k])
    BY <2>1, <2>2 DEF KindOK
  <2>4. CASE task'[k].by = None
    <3>1. \A i \in Instances : None # Main(i) /\ None # Beat(i)
      BY CallerNames, Names
    <3>2. \A c \in Conns : None # Client(c)
      BY CallerNames, Names
    <3> QED BY <2>3, <2>4, <3>1, <3>2 DEF CallOK
  <2>5. CASE task'[k].by # None
    <3>1. task'[k].by = task[k].by /\ task[k].by \in calling' /\ Undisturbed(task[k].by)
      BY <2>1, <2>5
    <3>2. CallOK(task[k])'
      BY <2>1, <2>2, <3>1 DEF CallOK, Undisturbed
    <3> QED BY <2>3, <3>1, <3>2
  <2> QED BY <2>4, <2>5
<1>2. ASSUME NEW j \in Handlers, NEW k \in Handlers, task'[j] # None, task'[k] # None,
             task'[j].by = task'[k].by, task'[j].by # None
      PROVE  j = k
  <2>1. task[j] # None /\ task[k] # None /\ task[j].by = task'[j].by /\ task[k].by = task'[k].by
    BY <1>2 DEF Fewer
  <2> QED BY <1>2, <2>1 DEF TasksInv
<1> QED BY <1>1, <1>2 DEF TasksInv

\* A handler begins with task t.
Begins(h, t) ==
  /\ task[h] = None /\ task' = [task EXCEPT ![h] = t]
  /\ t \in TaskType /\ KindOK(t)
  /\ t.by # None => t.by \in calling /\ ~Served(t.by)

LEMMA BeginsTasks ==
  ASSUME NEW h \in Handlers, NEW t, TypeOK, TasksInv, Begins(h, t), CallOK(t),
         life' = life, conn' = conn, gateway' = gateway, calling' = calling
  PROVE  TasksInv'
<1>1. t # None /\ \A k \in Handlers : task'[k] = IF k = h THEN t ELSE task[k]
  BY Names DEF Begins, TypeOK
<1>2. KindOK(t) /\ CallOK(t)'
  BY DEF Begins, CallOK
<1>3. ASSUME NEW k \in Handlers, task'[k] # None
      PROVE  /\ KindOK(task'[k]) /\ CallOK(task[k])'
             /\ task'[k].by # None => task'[k].by \in calling'
  <2>1. CASE k = h
    BY <1>1, <1>2, <2>1 DEF Begins, CallOK
  <2>2. CASE k # h
    <3>1. task'[k] = task[k] /\ KindOK(task[k]) /\ CallOK(task[k])
          /\ (task[k].by # None => task[k].by \in calling)
      BY <1>1, <1>3, <2>2 DEF TasksInv
    <3>2. CallOK(task[k])'
      BY <3>1 DEF CallOK
    <3> QED BY <3>1, <3>2
  <2> QED BY <2>1, <2>2
<1>4. ASSUME NEW j \in Handlers, NEW k \in Handlers, task'[j] # None, task'[k] # None,
             task'[j].by = task'[k].by, task'[j].by # None
      PROVE  j = k
  <2>1. CASE j # h /\ k # h
    BY <1>1, <1>4, <2>1 DEF TasksInv
  <2>2. \A l \in Handlers : task[l] # None => task[l].by # t.by \/ t.by = None
    BY DEF Begins, Served
  <2>3. CASE j = h /\ k # h
    BY <1>1, <1>4, <2>2, <2>3
  <2>4. CASE j # h /\ k = h
    BY <1>1, <1>4, <2>2, <2>4
  <2> QED BY <2>1, <2>3, <2>4
<1> QED BY <1>3, <1>4 DEF TasksInv

\* What a caller asks for, by what it is doing.
LEMMA Requests ==
  ASSUME TypeOK, NodesInv, NEW p \in calling
  PROVE  \/ \E i \in Instances : /\ p = Main(i) /\ life[i] = "starting"
                                 /\ Request(p) = IF i \in Gateways THEN RegisterGateway(i)
                                                 ELSE RegisterSendInstance(i)
         \/ \E g \in Gateways : /\ p = Main(g) /\ life[g] = "stopping"
                                /\ Request(p) = UnregisterGateway(g)
         \/ \E i \in Instances : /\ p = Beat(i)
                                 /\ Request(p) = IF i \in Gateways THEN UpdateHeartbeat(i)
                                                 ELSE UpdateSendHeartbeat(i)
         \/ \E c \in Conns : /\ p = Client(c) /\ conn[c] = "asking"
                             /\ Request(p) = GetAvailableGatewayForUser
         \/ \E c \in Conns : /\ p = Client(c) /\ conn[c] = "joining"
                             /\ gateway[c] \in Gateways /\ Request(p) = ConnectHandler(gateway[c])
         \/ \E c \in Conns : /\ p = Client(c) /\ conn[c] = "leaving"
                             /\ gateway[c] \in Gateways
                             /\ Request(p) = RecordUserDisconnect(gateway[c])
<1>1. p \in Callers
  BY DEF TypeOK
<1>2. ASSUME NEW i \in Instances, p = Main(i)
      PROVE  \/ /\ life[i] = "starting"
                /\ Request(p) = IF i \in Gateways THEN RegisterGateway(i)
                                ELSE RegisterSendInstance(i)
             \/ i \in Gateways /\ life[i] = "stopping" /\ Request(p) = UnregisterGateway(i)
  <2>1. life[i] \in {"starting", "stopping"} /\ (life[i] = "stopping" => i \in Gateways)
    BY <1>2 DEF NodesInv
  <2>2. p[1] = "main" /\ p[2] = i
    BY <1>2 DEF Main
  <2>3. CASE life[i] = "starting"
    BY <2>2, <2>3 DEF Request
  <2>4. CASE life[i] = "stopping"
    <3>1. Request(p) = UnregisterGateway(i)
      BY <2>2, <2>4 DEF Request
    <3> QED BY <2>1, <2>4, <3>1
  <2> QED BY <2>1, <2>3, <2>4
<1>3. ASSUME NEW i \in Instances, p = Beat(i)
      PROVE  Request(p) = IF i \in Gateways THEN UpdateHeartbeat(i) ELSE UpdateSendHeartbeat(i)
  <2>1. p[1] = "beat" /\ p[2] = i
    BY <1>3 DEF Beat
  <2> QED BY <2>1 DEF Request
<1>4. ASSUME NEW c \in Conns, p = Client(c)
      PROVE  \/ conn[c] = "asking" /\ Request(p) = GetAvailableGatewayForUser
             \/ /\ conn[c] = "joining" /\ gateway[c] \in Gateways
                /\ Request(p) = ConnectHandler(gateway[c])
             \/ /\ conn[c] = "leaving" /\ gateway[c] \in Gateways
                /\ Request(p) = RecordUserDisconnect(gateway[c])
  <2>1. conn[c] \in {"asking", "joining", "leaving"}
    BY <1>4 DEF NodesInv
  <2>2. conn[c] # "asking" => gateway[c] \in Gateways
    BY <2>1 DEF NodesInv
  <2>3. p[1] = "client" /\ p[2] = c
    BY <1>4 DEF Client
  <2> QED BY <2>1, <2>2, <2>3 DEF Request
<1> QED BY <1>1, <1>2, <1>3, <1>4, CallerNames

LEMMA JoinScripts ==
  ASSUME NEW a, NEW b, NEW c
  PROVE  << a, b >> \o << c >> = << a, b, c >>
<1> DEFINE S == {a, b, c}
<1>1. << a, b >> \in Seq(S) /\ << c >> \in Seq(S) /\ << a, b, c >> \in Seq(S)
  BY ScriptSeq
<1>2. /\ << a, b >> \o << c >> \in Seq(S) /\ Len(<< a, b >> \o << c >>) = 3
      /\ (<< a, b >> \o << c >>)[1] = a /\ (<< a, b >> \o << c >>)[2] = b
      /\ (<< a, b >> \o << c >>)[3] = c
  BY <1>1
<1>3. \A i \in 1 .. 3 : (<< a, b >> \o << c >>)[i] = << a, b, c >>[i]
  BY <1>2
<1> QED BY <1>1, <1>2, <1>3, SeqEqual

LEMMA ConnectScript ==
  ASSUME NEW g
  PROVE  ConnectHandler(g) = << Cmd("get", g), Cmd("connect", g), Cmd("random", None) >>
BY JoinScripts DEF ConnectHandler, RecordUserConnect, GetRandomSendInstance

LEMMA ConnectSet ==
  ASSUME NEW g
  PROVE  Cmd("connect", g) \in ToSet(ConnectHandler(g))
<1> DEFINE a == Cmd("get", g)
           b == Cmd("connect", g)
           c == Cmd("random", None)
<1>1. ConnectHandler(g) = << a, b, c >>
  BY ConnectScript
<1> HIDE DEF a, b, c
<1>2. ToSet(<< a, b, c >>) = {a, b, c}
  BY ScriptThree
<1>3. b \in ToSet(ConnectHandler(g))
  BY <1>1, <1>2
<1> QED BY <1>3 DEF b

LEMMA AttemptBegins ==
  ASSUME TypeOK, TasksInv, NodesInv, NEW h \in Handlers, NEW p \in Callers, Attempt(p, h)
  PROVE  LET t == [by |-> p, user |-> Subject(p), todo |-> Request(p), ok |-> TRUE, found |-> None]
         IN  Begins(h, t) /\ CallOK(t)
<1> DEFINE t == [by |-> p, user |-> Subject(p), todo |-> Request(p), ok |-> TRUE, found |-> None]
<1>1. /\ p \in calling /\ ~Served(p) /\ task[h] = None /\ task' = [task EXCEPT ![h] = t]
  BY DEF Attempt, MayTry
<1>2. t.by = p /\ t.user = Subject(p) /\ t.todo = Request(p) /\ t.found = None
  OBVIOUS
<1>3. \A i \in Instances : p = Main(i) \/ p = Beat(i) => Subject(p) = None
  BY DEF Subject, Main, Beat
<1>4. \A c \in Conns : p = Client(c) => Subject(p) = UserOf[c] /\ UserOf[c] \in Users
  BY Names DEF Subject, Client
<1>5. ASSUME OfKind(Request(p)), Head(Request(p)).op # "disconnect",
             p[1] # "client" => \A c \in ToSet(Request(p)) : c.op \notin UserOps
      PROVE  Begins(h, t)
  <2>1. t \in TaskType
    <3>1. Request(p) \in Seq(CmdType)
      BY <1>5, ScriptTypes
    <3>2. Subject(p) \in Users \cup {None}
      BY <1>3, <1>4, CallerNames
    <3> QED BY <3>1, <3>2 DEF TaskType
  <2>2. KindOK(t)
    <3>1. \A g \in Gateways : Request(p) # << Cmd("disconnect", g) >>
      BY <1>5, ScriptOne, CmdFields
    <3>2. Subject(p) = None => p[1] # "client"
      BY <1>4, CallerNames, Names
    <3> QED BY <1>2, <1>5, <3>1, <3>2 DEF KindOK
  <2> QED BY <1>1, <1>2, <2>1, <2>2 DEF Begins
<1>6. ASSUME NEW i \in Instances, p = Main(i), life[i] = "starting",
             Request(p) = IF i \in Gateways THEN RegisterGateway(i) ELSE RegisterSendInstance(i)
      PROVE  Begins(h, t) /\ CallOK(t)
  <2>1. Request(p) \in Registering(i) /\ Request(p) # << >>
    BY <1>6, ScriptTwo, ScriptThree DEF Registering, RegisterGateway, RegisterSendInstance
  <2>2. \A c \in ToSet(Request(p)) : c.op \in {"setex", "zadd", "sadd"}
    <3>1. \A c \in ToSet(Request(p)) : c \in {Cmd("setex", i), Cmd("zadd", i), Cmd("sadd", i)}
      BY <2>1, RegisteringScripts
    <3> QED BY <3>1, CmdFields
  <2>3. OfKind(Request(p))
    BY <2>1 DEF OfKind
  <2>4. Head(Request(p)).op # "disconnect"
    BY <2>1, <2>2, <2>3, HeadKind
  <2>5. CallOK(t)
    <3>1. \A j \in Instances : p = Main(j) => j = i
      BY <1>6, CallerNames
    <3>2. \A j \in Instances : p # Beat(j)
      BY <1>6, CallerNames
    <3>3. \A c \in Conns : p # Client(c)
      BY <1>6, CallerNames
    <3> QED BY <1>2, <1>6, <2>1, <3>1, <3>2, <3>3 DEF CallOK
  <2> QED BY <1>5, <2>2, <2>3, <2>4, <2>5 DEF UserOps
<1>7. ASSUME NEW g \in Gateways, p = Main(g), life[g] = "stopping",
             Request(p) = UnregisterGateway(g)
      PROVE  Begins(h, t) /\ CallOK(t)
  <2>1. Request(p) \in Removing(g) /\ Request(p) # << >> /\ g \in Instances
    BY <1>7, ScriptThree, Names DEF Removing, UnregisterGateway
  <2>2. \A c \in ToSet(Request(p)) : c.op \in {"del", "zrem", "srem"}
    <3>1. \A c \in ToSet(Request(p)) : c \in {Cmd("del", g), Cmd("zrem", g), Cmd("srem", g)}
      BY <2>1, RemovingScripts
    <3> QED BY <3>1, CmdFields
  <2>3. OfKind(Request(p))
    BY <2>1 DEF OfKind
  <2>4. Head(Request(p)).op # "disconnect"
    BY <2>1, <2>2, <2>3, HeadKind
  <2>5. CallOK(t)
    <3>1. \A j \in Instances : p = Main(j) => j = g
      BY <1>7, CallerNames
    <3>2. \A j \in Instances : p # Beat(j)
      BY <1>7, CallerNames
    <3>3. \A c \in Conns : p # Client(c)
      BY <1>7, CallerNames
    <3> QED BY <1>2, <1>7, <2>1, <3>1, <3>2, <3>3 DEF CallOK
  <2> QED BY <1>5, <2>2, <2>3, <2>4, <2>5 DEF UserOps
<1>8. ASSUME NEW i \in Instances, p = Beat(i),
             Request(p) = IF i \in Gateways THEN UpdateHeartbeat(i) ELSE UpdateSendHeartbeat(i)
      PROVE  Begins(h, t) /\ CallOK(t)
  <2>1. Request(p) \in Beating(i) /\ Request(p) # << >>
    BY <1>8, ScriptTwo, ScriptThree DEF Beating, UpdateHeartbeat, UpdateSendHeartbeat
  <2>2. \A c \in ToSet(Request(p)) : c.op \in {"get", "refresh", "zadd"}
    <3>1. \A c \in ToSet(Request(p)) : c \in {Cmd("get", i), Cmd("refresh", i), Cmd("zadd", i)}
      BY <2>1, BeatingScripts
    <3> QED BY <3>1, CmdFields
  <2>3. OfKind(Request(p))
    BY <2>1 DEF OfKind
  <2>4. Head(Request(p)).op # "disconnect"
    BY <2>1, <2>2, <2>3, HeadKind
  <2>5. CallOK(t)
    <3>1. \A j \in Instances : p = Beat(j) => j = i
      BY <1>8, CallerNames
    <3>2. \A j \in Instances : p # Main(j)
      BY <1>8, CallerNames
    <3>3. \A c \in Conns : p # Client(c)
      BY <1>8, CallerNames
    <3> QED BY <1>2, <1>8, <2>1, <3>1, <3>2, <3>3 DEF CallOK
  <2> QED BY <1>5, <2>2, <2>3, <2>4, <2>5 DEF UserOps
<1>9. ASSUME NEW c \in Conns, p = Client(c), OfKind(Request(p)),
             Head(Request(p)).op # "disconnect",
             \/ /\ conn[c] = "asking" /\ Request(p) \in Finding
                /\ Request(p) # << >> /\ Head(Request(p)).op # "get"
             \/ conn[c] = "joining" /\ Request(p) \in Connecting(gateway[c])
             \/ conn[c] = "leaving" /\ Request(p) \in Leaving(gateway[c])
      PROVE  Begins(h, t) /\ CallOK(t)
  <2>1. p[1] = "client"
    BY <1>9, CallerNames
  <2>2. CallOK(t)
    <3>1. \A d \in Conns : p = Client(d) => d = c
      BY <1>9, CallerNames
    <3>2. \A j \in Instances : p # Main(j) /\ p # Beat(j)
      BY <1>9, CallerNames
    <3> QED BY <1>2, <1>4, <1>9, <3>1, <3>2 DEF CallOK
  <2> QED BY <1>5, <1>9, <2>1, <2>2
<1>10. ASSUME NEW c \in Conns, p = Client(c), conn[c] = "asking",
              Request(p) = GetAvailableGatewayForUser
       PROVE  Begins(h, t) /\ CallOK(t)
  <2>1. Request(p) \in Finding /\ Request(p) # << >> /\ Head(Request(p)).op = "lease"
    BY <1>10, ScriptOne, CmdFields DEF GetAvailableGatewayForUser, Finding
  <2> QED BY <1>9, <1>10, <2>1 DEF OfKind
<1>11. ASSUME NEW c \in Conns, p = Client(c), conn[c] = "joining", gateway[c] \in Gateways,
              Request(p) = ConnectHandler(gateway[c])
       PROVE  Begins(h, t) /\ CallOK(t)
  <2>1. Request(p) \in Connecting(gateway[c]) /\ Head(Request(p)).op = "get"
    BY <1>11, ConnectScript, ScriptThree, CmdFields DEF Connecting
  <2> QED BY <1>9, <1>11, <2>1 DEF OfKind
<1>12. ASSUME NEW c \in Conns, p = Client(c), conn[c] = "leaving", gateway[c] \in Gateways,
              Request(p) = RecordUserDisconnect(gateway[c])
       PROVE  Begins(h, t) /\ CallOK(t)
  <2>1. Request(p) \in Leaving(gateway[c]) /\ Head(Request(p)).op = "getRoute"
    BY <1>12, ScriptTwo, CmdFields DEF Leaving, RecordUserDisconnect
  <2> QED BY <1>9, <1>12, <2>1 DEF OfKind
<1> QED BY <1>1, <1>6, <1>7, <1>8, <1>10, <1>11, <1>12, Requests

LEMMA ListBegins ==
  ASSUME TypeOK, TasksInv, NEW h \in Handlers, List(h)
  PROVE  \E todo \in {GetRandomSendInstance, ListAllSendInstances} :
           LET t == [by |-> None, user |-> None, todo |-> todo, ok |-> TRUE, found |-> None]
           IN  Begins(h, t) /\ CallOK(t)
<1>1. PICK todo \in {GetRandomSendInstance, ListAllSendInstances} :
        task' = [task EXCEPT ![h] = [by |-> None, user |-> None, todo |-> todo, ok |-> TRUE,
                                     found |-> None]]
  BY DEF List
<1> DEFINE t == [by |-> None, user |-> None, todo |-> todo, ok |-> TRUE, found |-> None]
<1>2. todo \in Listing /\ OfKind(todo)
  BY DEF Listing, Notifying, OfKind
<1>3. todo \in {<< Cmd("random", None) >>, << Cmd("members", None) >>}
  BY DEF GetRandomSendInstance, ListAllSendInstances
<1>4. Head(todo).op \in {"random", "members"} /\ ToSet(todo) = {Head(todo)}
  BY <1>3, ScriptOne, CmdFields
<1>5. t \in TaskType
  BY <1>2, ScriptTypes DEF TaskType
<1>6. KindOK(t)
  <2>1. \A g \in Gateways : todo # << Cmd("disconnect", g) >>
    BY <1>4, ScriptOne, CmdFields
  <2> QED BY <1>2, <1>4, <2>1 DEF KindOK, UserOps
<1>7. CallOK(t)
  <2>1. \A i \in Instances : None # Main(i) /\ None # Beat(i)
    BY CallerNames, Names
  <2>2. \A c \in Conns : None # Client(c)
    BY CallerNames, Names
  <2> QED BY <2>1, <2>2 DEF CallOK
<1>8. task[h] = None
  BY DEF List
<1> QED BY <1>1, <1>5, <1>6, <1>7, <1>8 DEF Begins
--------------------------------------------------------------------------------
(* What steps leave as it was *)

Typed ==
  /\ info \subseteq Instances /\ ranking \subseteq Gateways /\ instances \subseteq Instances
  /\ route \in [Users -> RouteType \cup {None}]
  /\ life \in [Instances -> {"down", "starting", "up", "stopping", "stopped"}]
  /\ conn \in [Conns -> {"out", "asking", "told", "joining", "up", "leaving"}]
  /\ gateway \in [Conns -> Gateways \cup {None}]
  /\ stored \subseteq { c \in Conns : gateway[c] \in Gateways }
  /\ calling \subseteq Callers /\ tries \in [Callers -> 0 .. Attempts]
  /\ task \in [Handlers -> TaskType \cup {None}]
  /\ left \in [instances : Nat, clients : Nat, faults : Nat]
  /\ latest \in [Users -> Conns \cup {None}]
  /\ reported \subseteq Conns /\ unregistered \subseteq Gateways
  /\ hidden \subseteq Instances /\ ghost \subseteq Gateways /\ disputed \subseteq Users

\* The inductive invariant without what concerns steady.
Parts == Typed /\ TasksInv /\ NodesInv /\ VisibleInv /\ UnlistedInv /\ RoutedInv

LEMMA TypeParts ==
  /\ TypeOK <=> Typed /\ steady \in [Handlers -> Gateways \cup {None}]
  /\ IInv => Parts
BY DEF TypeOK, Typed, IInv, Parts

LEMMA SpendType ==
  ASSUME Typed, NEW kind \in {"instances", "clients", "faults"}, Spend(kind)
  PROVE  left' \in [instances : Nat, clients : Nat, faults : Nat]
BY DEF Typed, Spend

LEMMA ReadsType ==
  ASSUME Typed, NEW hit \in BOOLEAN, NEW present \in BOOLEAN, Reads(hit, present)
  PROVE  left' \in [instances : Nat, clients : Nat, faults : Nat]
<1>1. CASE left' = left
  BY <1>1 DEF Typed
<1>2. CASE Fault
  BY <1>2, SpendType DEF Fault
<1> QED BY <1>1, <1>2 DEF Reads

LEMMA VisibleKept ==
  ASSUME VisibleInv, info' \subseteq info, ranking' = ranking, instances' = instances,
         hidden \subseteq hidden',
         \A h \in Handlers : \A i \in info : WillList(h, i) =>
           i \in hidden' \/ Listed(i) \/ (task'[h] # None /\ task'[h].todo = task[h].todo)
  PROVE  VisibleInv'
<1> SUFFICES ASSUME NEW i \in info'
             PROVE  Listed(i)' \/ i \in hidden' \/ \E h \in Handlers : WillList(h, i)'
  BY DEF VisibleInv
<1>1. Listed(i) => Listed(i)'
  BY DEF Listed, ListedIn
<1>2. CASE Listed(i) \/ i \in hidden
  BY <1>1, <1>2
<1>3. ASSUME NEW h \in Handlers, WillList(h, i)
      PROVE  Listed(i)' \/ i \in hidden' \/ WillList(h, i)'
  BY <1>1, <1>3 DEF WillList, ToList
<1> QED BY <1>2, <1>3 DEF VisibleInv

LEMMA UnlistedKept ==
  ASSUME UnlistedInv, info' \subseteq info, ranking' = ranking, instances' = instances,
         ghost' = ghost, unregistered' = unregistered,
         \A g \in unregistered : life'[g] \in {"stopped", "down"},
         \A h \in Handlers : \A g \in Gateways \ ghost :
           task'[h] # None /\ task'[h].by = Main(g) /\ life'[g] = "stopping" /\ task'[h].ok =>
             \/ /\ task[h] # None /\ task[h].by = Main(g) /\ life[g] = "stopping" /\ task[h].ok
                /\ task'[h].todo = task[h].todo
             \/ task'[h].todo = UnregisterGateway(g)
  PROVE  UnlistedInv'
<1>1. Unlisted'
  BY DEF UnlistedInv, Unlisted
<1>2. ASSUME NEW h \in Handlers, NEW g \in Gateways \ ghost, task'[h] # None,
             task'[h].by = Main(g), life'[g] = "stopping", task'[h].ok
      PROVE  Removed(h, g)'
  <2>1. CASE /\ task[h] # None /\ task[h].by = Main(g) /\ life[g] = "stopping" /\ task[h].ok
             /\ task'[h].todo = task[h].todo
    BY <2>1 DEF UnlistedInv, Removed
  <2>2. CASE task'[h].todo = UnregisterGateway(g)
    <3>1. ToSet(UnregisterGateway(g)) = {Cmd("del", g), Cmd("zrem", g), Cmd("srem", g)}
      <4> DEFINE a == Cmd("del", g)
                 b == Cmd("zrem", g)
                 c == Cmd("srem", g)
      <4>1. UnregisterGateway(g) = << a, b, c >>
        BY DEF UnregisterGateway
      <4> HIDE DEF a, b, c
      <4>2. ToSet(<< a, b, c >>) = {a, b, c}
        BY ScriptThree
      <4>3. ToSet(UnregisterGateway(g)) = {a, b, c}
        BY <4>1, <4>2
      <4> QED BY <4>3 DEF a, b, c
    <3> QED BY <2>2, <3>1 DEF Removed
  <2> QED BY <1>2, <2>1, <2>2
<1> QED BY <1>1, <1>2 DEF UnlistedInv

LEMMA RoutedKept ==
  ASSUME RoutedInv, route' = route, disputed' = disputed, stored' \subseteq stored,
         latest' = latest, \A c \in stored' : gateway'[c] = gateway[c],
         \A c \in stored' : Connected(c)' => Connected(c)
  PROVE  RoutedInv'
BY DEF RoutedInv

LEMMA SameFewer ==
  ASSUME TasksInv, task' = task, calling \subseteq calling',
         \A k \in Handlers : task[k] # None /\ task[k].by # None => Undisturbed(task[k].by)
  PROVE  Fewer
BY DEF Fewer, TasksInv

LEMMA FewerUnlisted ==
  ASSUME Fewer, UnlistedInv, info' \subseteq info, ranking' = ranking, instances' = instances,
         ghost' = ghost, unregistered' = unregistered,
         \A g \in unregistered : life'[g] \in {"stopped", "down"}
  PROVE  UnlistedInv'
<1>1. ASSUME NEW h \in Handlers, NEW g \in Gateways \ ghost, task'[h] # None,
             task'[h].by = Main(g), life'[g] = "stopping", task'[h].ok
      PROVE  /\ task[h] # None /\ task[h].by = Main(g) /\ life[g] = "stopping" /\ task[h].ok
             /\ task'[h].todo = task[h].todo
  <2>1. Main(g) # None /\ g \in Instances
    BY CallerNames, Names
  <2> QED BY <1>1, <2>1 DEF Fewer, Undisturbed
<1> QED BY <1>1, UnlistedKept

LEMMA FewerRouted ==
  ASSUME Fewer, Typed, RoutedInv, route' = route, disputed' = disputed, stored' \subseteq stored,
         latest' = latest, \A c \in stored' : gateway'[c] = gateway[c],
         \A c \in stored' : conn'[c] = "up" /\ c \in reported' => Connected(c)
  PROVE  RoutedInv'
<1>1. ASSUME NEW c \in stored', Connected(c)'
      PROVE  Connected(c)
  <2>1. CASE conn'[c] = "up" /\ c \in reported'
    BY <2>1
  <2>2. ASSUME conn'[c] = "joining", NEW h \in Handlers, task'[h] # None,
               task'[h].by = Client(c), task'[h].ok, task'[h].todo \in Notifying
        PROVE  Connected(c)
    <3>1. Client(c) # None /\ c \in Conns
      BY CallerNames, Names DEF Typed
    <3>2. /\ task[h] # None /\ task[h].by = Client(c) /\ task[h].ok /\ task[h].todo \in Notifying
          /\ conn'[c] = conn[c]
      BY <2>2, <3>1 DEF Fewer, Undisturbed
    <3> QED BY <2>2, <3>2 DEF Connected
  <2> QED BY <1>1, <2>1, <2>2 DEF Connected
<1> QED BY <1>1, RoutedKept

LEMMA FewerVisible ==
  ASSUME Fewer, VisibleInv, info' \subseteq info, ranking' = ranking, instances' = instances,
         hidden' = hidden,
         \A h \in Handlers : task[h] # None /\ task[h].todo # << >> => task'[h] # None
  PROVE  VisibleInv'
<1>1. ASSUME NEW h \in Handlers, NEW i \in info, WillList(h, i)
      PROVE  task'[h] # None /\ task'[h].todo = task[h].todo
  <2>1. task[h] # None /\ task[h].todo # << >>
    BY <1>1, ScriptNone DEF WillList, ToList
  <2> QED BY <2>1 DEF Fewer
<1> QED BY <1>1, VisibleKept
--------------------------------------------------------------------------------
(* Steps of a handler that read *)

\* A caller's script holds a command of its kind only.
LEMMA KindWriter ==
  ASSUME TypeOK, TasksInv, NEW h \in Handlers, task[h] # None, NEW i, ToList(h, i)
  PROVE  i \in Instances /\ task[h].todo \in Registering(i) /\ task[h].todo # << >>
<1>1. OfKind(task[h].todo) /\ Cmd("sadd", i) \in ToSet(task[h].todo)
  BY DEF TasksInv, KindOK, ToList
<1>2. KindOf(Cmd("sadd", i), task[h].todo)
  BY <1>1, ScriptKind
<1>3. task[h].todo # << >>
  BY <1>1, ScriptNone
<1> QED BY <1>2, <1>3, CmdFields DEF KindOf

LEMMA RegisteringHead ==
  ASSUME NEW i \in Instances, NEW s \in Registering(i), s # << >>
  PROVE  Head(s).op \in {"setex", "zadd", "sadd"} /\ Head(s).inst = i
<1>1. Head(s) \in {Cmd("setex", i), Cmd("zadd", i), Cmd("sadd", i)}
  BY RegisteringScripts
<1> QED BY <1>1, CmdFields

LEMMA RemovingHead ==
  ASSUME NEW g \in Gateways, NEW s \in Removing(g), s # << >>
  PROVE  Head(s).op \in {"del", "zrem", "srem"} /\ Head(s).inst = g
<1>1. Head(s) \in {Cmd("del", g), Cmd("zrem", g), Cmd("srem", g)}
  BY RemovingScripts
<1> QED BY <1>1, CmdFields

LEMMA MovesTyped ==
  ASSUME TypeOK, NEW h \in Handlers, NEW t, Moves(h, t)
  PROVE  task' \in [Handlers -> TaskType \cup {None}]
BY DEF Moves, TypeOK

\* A handler that reports nothing new about connections.
LEMMA MovesConnected ==
  ASSUME TypeOK, TasksInv, NodesInv, NEW h \in Handlers, NEW t, Moves(h, t),
         conn' = conn, reported' = reported, NEW c \in stored, Connected(c)',
         ~ /\ t.ok /\ t.by = Client(c) /\ conn[c] = "joining"
           /\ Head(task[h].todo) = Cmd("connect", gateway[c])
  PROVE  Connected(c)
<1>1. c \in Conns /\ (conn[c] = "joining" => gateway[c] \in Gateways)
  BY DEF TypeOK, NodesInv
<1>2. /\ task[h] # None /\ t.by = task[h].by /\ task[h].todo # << >>
      /\ \A k \in Handlers : task'[k] = IF k = h THEN t ELSE task[k]
  BY DEF Moves, TypeOK
<1>3. CASE conn[c] = "up" /\ c \in reported
  BY <1>3 DEF Connected
<1>4. ASSUME conn[c] = "joining", NEW k \in Handlers, task'[k] # None,
             task'[k].by = Client(c), task'[k].ok, task'[k].todo \in Notifying
      PROVE  Connected(c)
  <2>1. CASE k # h
    BY <1>2, <1>4, <2>1 DEF Connected
  <2>2. CASE k = h
    <3>1. t.by = Client(c) /\ t.ok /\ t.todo \in Notifying
      BY <1>2, <1>4, <2>2
    <3>2. task[h].by = Client(c) /\ task[h].todo \in Connecting(gateway[c])
      BY <1>1, <1>2, <1>4, <3>1 DEF TasksInv, CallOK
    <3>3. task[h].ok
      BY <3>1 DEF Moves
    <3>4. CASE task[h].todo \in Notifying
      BY <1>2, <1>4, <3>2, <3>3, <3>4 DEF Connected
    <3>5. CASE /\ Head(task[h].todo) = Cmd("get", gateway[c])
               /\ Tail(task[h].todo) = << Cmd("connect", gateway[c]), Cmd("random", None) >>
      <4>1. Head(task[h].todo).op = "get"
        BY <3>5, CmdFields
      <4>2. t.todo = << Cmd("connect", gateway[c]), Cmd("random", None) >>
        BY <3>1, <3>5, <4>1 DEF Moves, Plain
      <4>3. Cmd("connect", gateway[c]) \in ToSet(t.todo)
        BY <4>2, ScriptTwo
      <4>4. Cmd("connect", gateway[c]).op \in Asynchronous
        BY <3>1, <4>3, NotifyingScripts
      <4> QED BY <4>4, CmdFields DEF Asynchronous
    <3> QED BY <1>1, <1>4, <3>1, <3>2, <3>4, <3>5, ConnectingScripts
  <2> QED BY <2>1, <2>2
<1> QED BY <1>3, <1>4 DEF Connected

LEMMA ReadingParts ==
  ASSUME IInv, NEW h \in Handlers, NEW t, Reading(h, t),
         left' \in [instances : Nat, clients : Nat, faults : Nat]
  PROVE  Parts'
<1>1. /\ TypeOK /\ Typed /\ TasksInv /\ NodesInv /\ VisibleInv /\ UnlistedInv /\ RoutedInv
      /\ Moves(h, t)
  BY TypeParts DEF IInv, Reading
<1>2. /\ info' = info /\ ranking' = ranking /\ instances' = instances /\ route' = route
      /\ life' = life /\ conn' = conn /\ gateway' = gateway /\ stored' = stored
      /\ calling' = calling /\ tries' = tries /\ latest' = latest /\ reported' = reported
      /\ unregistered' = unregistered /\ hidden' = hidden /\ ghost' = ghost
      /\ disputed' = disputed
  BY DEF Reading, ReadOnly, redisVars, nodeVars, notes
<1>3. /\ task[h] # None /\ task[h].todo # << >> /\ t.by = task[h].by
      /\ \A k \in Handlers : task'[k] = IF k = h THEN t ELSE task[k]
      /\ t.ok => task[h].ok
  <2>1. /\ task[h] # None /\ task[h].todo # << >> /\ t.by = task[h].by
        /\ \A k \in Handlers : task'[k] = IF k = h THEN t ELSE task[k]
    BY <1>1 DEF Moves, TypeOK
  <2>2. t.ok => task[h].ok
    BY <1>1 DEF Moves
  <2> QED BY <2>1, <2>2
<1>4. Head(task[h].todo).op \notin Writes \cup {"connect", "disconnect"}
  BY DEF Reading
<1>5. Typed'
  <2>1. task' \in [Handlers -> TaskType \cup {None}]
    BY <1>1, MovesTyped
  <2> QED BY <1>1, <1>2, <2>1 DEF Typed
<1>6. TasksInv'
  BY <1>1, <1>2, MovesTasks
<1>7. NodesInv'
  BY <1>1, <1>2 DEF NodesInv
<1>8. VisibleInv'
  <2>1. ASSUME NEW k \in Handlers, NEW i \in info, WillList(k, i)
        PROVE  task'[k] # None /\ task'[k].todo = task[k].todo
    <3>1. i \in Instances /\ task[k] # None /\ task[k].todo \in Registering(i)
          /\ task[k].todo # << >>
      BY <1>1, <2>1, KindWriter DEF WillList
    <3>2. Head(task[k].todo).op \in Writes
      BY <3>1, RegisteringHead DEF Writes
    <3> QED BY <1>3, <1>4, <3>1, <3>2
  <2> QED BY <1>1, <1>2, <2>1, VisibleKept
<1>9. UnlistedInv'
  <2>1. ASSUME NEW k \in Handlers, NEW g \in Gateways \ ghost, task'[k] # None,
               task'[k].by = Main(g), life[g] = "stopping", task'[k].ok
        PROVE  /\ task[k] # None /\ task[k].by = Main(g) /\ task[k].ok
               /\ task'[k].todo = task[k].todo
    <3>1. CASE k # h
      BY <1>3, <2>1, <3>1
    <3>2. CASE k = h
      <4>1. task[h].todo \in Removing(g)
        BY <1>1, <1>3, <2>1, <3>2, Names DEF TasksInv, CallOK
      <4>2. Head(task[h].todo).op \in Writes
        BY <1>3, <4>1, RemovingHead DEF Writes
      <4> QED BY <1>4, <4>2
    <3> QED BY <3>1, <3>2
  <2>2. \A g \in unregistered : life'[g] \in {"stopped", "down"}
    BY <1>1, <1>2 DEF UnlistedInv
  <2> QED BY <1>1, <1>2, <2>1, <2>2, UnlistedKept
<1>10. RoutedInv'
  <2>1. ASSUME NEW c \in stored, Connected(c)' PROVE Connected(c)
    <3>1. Head(task[h].todo) # Cmd("connect", gateway[c])
      BY <1>4, CmdFields
    <3> QED BY <1>1, <1>2, <2>1, <3>1, MovesConnected
  <2> QED BY <1>1, <1>2, <2>1, RoutedKept
<1> QED BY <1>5, <1>6, <1>7, <1>8, <1>9, <1>10 DEF Parts
--------------------------------------------------------------------------------
(* Steps of a handler that write the route of a user *)

LEMMA WriteRouteMoves ==
  ASSUME TypeOK, TasksInv, NEW h \in Handlers, WriteRoute(h)
  PROVE  \E t :
    /\ Moves(h, t)
    /\ Head(task[h].todo).op \in {"connect", "disconnect"}
    /\ SetRoute(h) \/ (UNCHANGED <<route, disputed>> /\ t.ok = FALSE)
    /\ left' \in [instances : Nat, clients : Nat, faults : Nat]
<1>1. /\ task[h] # None /\ task[h].todo # << >>
      /\ Head(task[h].todo).op \in {"connect", "disconnect"}
  BY DEF WriteRoute, Executes
<1>2. Head(task[h].todo).op \in Plain
  BY <1>1 DEF Plain
<1>3. CASE SetRoute(h) /\ Advance(h) /\ UNCHANGED left
  <2>1. Moves(h, With(h, Tail(task[h].todo), task[h].ok, task[h].found))
    BY <1>1, <1>2, <1>3, AdvanceMoves
  <2>2. left' \in [instances : Nat, clients : Nat, faults : Nat]
    BY <1>3 DEF TypeOK
  <2> QED BY <1>1, <1>3, <2>1, <2>2
<1>4. CASE (SetRoute(h) \/ UNCHANGED <<route, disputed>>) /\ Refuse(h) /\ Fault
  <2>1. Moves(h, With(h, << >>, FALSE, task[h].found))
    BY <1>1, <1>4, RefuseMoves
  <2>2. With(h, << >>, FALSE, task[h].found).ok = FALSE
    BY DEF With
  <2>3. left' \in [instances : Nat, clients : Nat, faults : Nat]
    BY <1>4, SpendType, TypeParts DEF Fault
  <2> QED BY <1>1, <1>4, <2>1, <2>2, <2>3
<1> QED BY <1>3, <1>4 DEF WriteRoute

LEMMA SetRouteCases ==
  ASSUME TypeOK, TasksInv, NEW h \in Handlers, task[h] # None, task[h].todo # << >>,
         Head(task[h].todo).op \in {"connect", "disconnect"}, SetRoute(h)
  PROVE  LET u == task[h].user
             g == Head(task[h].todo).inst
         IN  /\ u \in Users /\ g \in Gateways
             /\ \/ /\ route' = [route EXCEPT ![u] = [gateway |-> g, status |-> "connected"]]
                   /\ disputed' = IF Newest(u, g) THEN disputed \ {u} ELSE disputed \cup {u}
                \/ /\ route' = [route EXCEPT ![u] = [gateway |-> g, status |-> "disconnected"]]
                   /\ disputed \subseteq disputed' /\ disputed' \subseteq disputed \cup {u}
                   /\ u \notin disputed' => route[u].gateway = g /\ ~Newest(u, g)
                   /\ Head(task[h].todo).op = "disconnect"
<1> DEFINE s == task[h].todo
           u == task[h].user
           g == Head(s).inst
<1>1. u \in Users
  BY UserKnown DEF UserOps
<1>2. KindOf(Head(s), s)
  BY Scripted
<1>3. CASE Head(s).op = "connect"
  <2>1. g \in Gateways
    BY <1>2, <1>3 DEF KindOf
  <2> QED BY <1>1, <1>3, <2>1 DEF SetRoute, Current
<1>4. CASE Head(s).op = "disconnect"
  <2>1. g \in Gateways /\ s \in Leaving(g)
    BY <1>2, <1>4 DEF KindOf
  <2>2. s = << Cmd("disconnect", g) >>
    BY <1>4, <2>1, LeavingScripts
  <2>3. task[h].found = g
    BY <2>1, <2>2 DEF TasksInv, KindOK
  <2>4. /\ route' = [route EXCEPT ![u] = [gateway |-> g, status |-> "disconnected"]]
        /\ disputed' = IF route[u] = None \/ route[u].gateway # g \/ Newest(u, g)
                       THEN disputed \cup {u} ELSE disputed
    BY <1>4, <2>3 DEF SetRoute, Current
  <2> QED BY <1>1, <1>4, <2>1, <2>4
<1> QED BY <1>3, <1>4

LEMMA RoutePartsOf ==
  ASSUME IInv, NEW h \in Handlers, NEW t, Moves(h, t),
         Head(task[h].todo).op \in {"connect", "disconnect"},
         SetRoute(h) \/ (UNCHANGED <<route, disputed>> /\ t.ok = FALSE),
         left' \in [instances : Nat, clients : Nat, faults : Nat],
         UNCHANGED <<info, ranking, instances, nodeVars, calling, tries, latest, reported,
                     unregistered, hidden, ghost>>
  PROVE  Parts'
<1> DEFINE u == task[h].user
           g == Head(task[h].todo).inst
<1>1. TypeOK /\ Typed /\ TasksInv /\ NodesInv /\ VisibleInv /\ UnlistedInv /\ RoutedInv
  BY TypeParts DEF IInv
<1>2. /\ info' = info /\ ranking' = ranking /\ instances' = instances
      /\ life' = life /\ conn' = conn /\ gateway' = gateway /\ stored' = stored
      /\ calling' = calling /\ tries' = tries /\ latest' = latest /\ reported' = reported
      /\ unregistered' = unregistered /\ hidden' = hidden /\ ghost' = ghost
  BY DEF nodeVars
<1>3. /\ task[h] # None /\ task[h].todo # << >> /\ t.by = task[h].by
      /\ \A k \in Handlers : task'[k] = IF k = h THEN t ELSE task[k]
  BY <1>1 DEF Moves, TypeOK
<1>4. Typed'
  <2>1. task' \in [Handlers -> TaskType \cup {None}]
    BY <1>1, MovesTyped
  <2>2. route' \in [Users -> RouteType \cup {None}] /\ disputed' \subseteq Users
    <3>1. CASE UNCHANGED <<route, disputed>>
      BY <1>1, <3>1 DEF Typed
    <3>2. CASE SetRoute(h)
      <4>1. /\ u \in Users /\ g \in Gateways /\ disputed' \subseteq disputed \cup {u}
            /\ \/ route' = [route EXCEPT ![u] = [gateway |-> g, status |-> "connected"]]
               \/ route' = [route EXCEPT ![u] = [gateway |-> g, status |-> "disconnected"]]
        BY <1>1, <1>3, <3>2, SetRouteCases
      <4>2. /\ [gateway |-> g, status |-> "connected"] \in RouteType
            /\ [gateway |-> g, status |-> "disconnected"] \in RouteType
        BY <4>1 DEF RouteType
      <4> QED BY <1>1, <4>1, <4>2 DEF Typed
    <3> QED BY <3>1, <3>2
  <2> QED BY <1>1, <1>2, <2>1, <2>2 DEF Typed
<1>5. TasksInv'
  BY <1>1, <1>2, MovesTasks
<1>6. NodesInv'
  BY <1>1, <1>2 DEF NodesInv
<1>7. VisibleInv'
  <2>1. ASSUME NEW k \in Handlers, NEW i \in info, WillList(k, i)
        PROVE  task'[k] # None /\ task'[k].todo = task[k].todo
    <3>1. i \in Instances /\ task[k] # None /\ task[k].todo \in Registering(i)
          /\ task[k].todo # << >>
      BY <1>1, <2>1, KindWriter DEF WillList
    <3>2. Head(task[k].todo).op \in {"setex", "zadd", "sadd"}
      BY <3>1, RegisteringHead
    <3> QED BY <1>3, <3>1, <3>2
  <2> QED BY <1>1, <1>2, <2>1, VisibleKept
<1>8. UnlistedInv'
  <2>1. ASSUME NEW k \in Handlers, NEW f \in Gateways \ ghost, task'[k] # None,
               task'[k].by = Main(f), life[f] = "stopping", task'[k].ok
        PROVE  /\ task[k] # None /\ task[k].by = Main(f) /\ task[k].ok
               /\ task'[k].todo = task[k].todo
    <3>1. CASE k # h
      BY <1>3, <2>1, <3>1
    <3>2. CASE k = h
      <4>1. task[h].todo \in Removing(f)
        BY <1>1, <1>3, <2>1, <3>2, Names DEF TasksInv, CallOK
      <4>2. Head(task[h].todo).op \in {"del", "zrem", "srem"}
        BY <1>3, <4>1, RemovingHead
      <4> QED BY <4>2
    <3> QED BY <3>1, <3>2
  <2>2. \A f \in unregistered : life'[f] \in {"stopped", "down"}
    BY <1>1, <1>2 DEF UnlistedInv
  <2> QED BY <1>1, <1>2, <2>1, <2>2, UnlistedKept
<1>9. CASE UNCHANGED <<route, disputed>> /\ t.ok = FALSE
  <2>1. ASSUME NEW c \in stored, Connected(c)' PROVE Connected(c)
    BY <1>1, <1>2, <1>9, <2>1, MovesConnected
  <2>2. RoutedInv'
    BY <1>1, <1>2, <1>9, <2>1, RoutedKept
  <2> QED BY <1>4, <1>5, <1>6, <1>7, <1>8, <2>2 DEF Parts
<1>10. CASE SetRoute(h)
  <2>1. /\ u \in Users /\ g \in Gateways
        /\ \/ /\ route' = [route EXCEPT ![u] = [gateway |-> g, status |-> "connected"]]
              /\ disputed' = IF Newest(u, g) THEN disputed \ {u} ELSE disputed \cup {u}
           \/ /\ route' = [route EXCEPT ![u] = [gateway |-> g, status |-> "disconnected"]]
              /\ disputed \subseteq disputed' /\ disputed' \subseteq disputed \cup {u}
              /\ u \notin disputed' => route[u].gateway = g /\ ~Newest(u, g)
              /\ Head(task[h].todo).op = "disconnect"
    BY <1>1, <1>3, <1>10, SetRouteCases
  <2>2. ASSUME NEW c \in stored, latest[UserOf[c]] = c, UserOf[c] \notin disputed', Connected(c)'
        PROVE  route'[UserOf[c]] = [gateway |-> gateway[c], status |-> "connected"]
    <3>1. c \in Conns /\ UserOf[c] \in Users
      BY <1>1, Names DEF Typed
    <3>2. CASE UserOf[c] # u
      <4>1. t.by # Client(c)
        BY <1>1, <1>3, <3>1, <3>2 DEF TasksInv, CallOK
      <4>2. Connected(c)
        BY <1>1, <1>2, <2>2, <4>1, MovesConnected
      <4>3. UserOf[c] \notin disputed
        BY <2>1, <2>2, <3>2
      <4>4. route[UserOf[c]] = [gateway |-> gateway[c], status |-> "connected"]
        BY <1>1, <2>2, <4>2, <4>3 DEF RoutedInv
      <4>5. route'[UserOf[c]] = route[UserOf[c]]
        BY <1>1, <2>1, <3>1, <3>2 DEF Typed
      <4> QED BY <4>4, <4>5
    <3>3. CASE /\ UserOf[c] = u
               /\ route' = [route EXCEPT ![u] = [gateway |-> g, status |-> "connected"]]
               /\ disputed' = IF Newest(u, g) THEN disputed \ {u} ELSE disputed \cup {u}
      <4>1. Newest(u, g)
        BY <2>2, <3>3
      <4>2. gateway[c] = g
        BY <2>2, <3>3, <4>1 DEF Newest
      <4>3. route'[u] = [gateway |-> g, status |-> "connected"]
        BY <1>1, <2>1, <3>3 DEF Typed
      <4> QED BY <3>3, <4>2, <4>3
    <3>4. CASE /\ UserOf[c] = u /\ disputed \subseteq disputed'
               /\ u \notin disputed' => route[u].gateway = g /\ ~Newest(u, g)
               /\ Head(task[h].todo).op = "disconnect"
      <4>1. Head(task[h].todo) # Cmd("connect", gateway[c])
        BY <3>4, CmdFields
      <4>2. Connected(c)
        BY <1>1, <1>2, <2>2, <4>1, MovesConnected
      <4>3. route[u] = [gateway |-> gateway[c], status |-> "connected"]
        BY <1>1, <2>2, <3>4, <4>2 DEF RoutedInv
      <4>4. gateway[c] = g
        BY <2>2, <3>4, <4>3
      <4> QED BY <2>2, <3>4, <4>4 DEF Newest
    <3> QED BY <2>1, <3>2, <3>3, <3>4
  <2>3. RoutedInv'
    BY <1>2, <2>2 DEF RoutedInv
  <2> QED BY <1>4, <1>5, <1>6, <1>7, <1>8, <2>3 DEF Parts
<1> QED BY <1>9, <1>10

LEMMA WriteRouteParts ==
  ASSUME IInv, NEW h \in Handlers, WriteRoute(h)
  PROVE  Parts'
<1>1. UNCHANGED <<info, ranking, instances, nodeVars, calling, tries, latest, reported,
                  unregistered, hidden, ghost>>
  BY DEF WriteRoute
<1> QED BY <1>1, WriteRouteMoves, RoutePartsOf DEF IInv
--------------------------------------------------------------------------------
(* Steps of a handler that write the record and the lists of an instance *)

\* The command c of h's is executed, and judged with b as well; or it is not.
Lands(h, c, b) == Effect(c) /\ Judge(c.inst, b \/ Interferes(c))
                  /\ ghost' = IF Haunts(c) THEN ghost \cup {c.inst} ELSE ghost
Misses(h, c) == /\ UNCHANGED <<info, ranking, instances, ghost>>
                /\ Judge(c.inst, c.inst \in info /\ ToList(h, c.inst))

WriteStep(h, t) ==
  LET s == task[h].todo
      c == Head(s)
  IN  /\ Moves(h, t) /\ c.op \in Writes
      /\ \/ Lands(h, c, FALSE) /\ t.todo = Tail(s)
         \/ Lands(h, c, ToList(h, c.inst))
         \/ Misses(h, c) /\ (t.ok = FALSE \/ c.op = "drop")
      /\ left' \in [instances : Nat, clients : Nat, faults : Nat]
      /\ UNCHANGED <<route, nodeVars, calling, tries, latest, reported, unregistered, disputed>>

LEMMA CommandWrites ==
  ASSUME TypeOK, TasksInv, NEW h \in Handlers, Command(h) \/ CommandFails(h)
  PROVE  \E t : WriteStep(h, t)
<1> DEFINE s == task[h].todo
           c == Head(s)
<1>1. task[h] # None /\ s # << >> /\ c.op \in Writes
  BY DEF Command, CommandFails, Executes
<1>2. c.op \in Plain
  BY <1>1 DEF Plain
<1>3. CASE Command(h)
  <2> DEFINE t == With(h, Tail(s), task[h].ok, task[h].found)
  <2>1. Write(h, FALSE) /\ Advance(h)
        /\ UNCHANGED <<route, nodeVars, calling, tries, left, latest, reported, unregistered,
                       disputed>>
    BY <1>3 DEF Command
  <2>2. Moves(h, t)
    BY <1>1, <1>2, <2>1, AdvanceMoves
  <2>3. t.todo = Tail(s)
    BY WithFields
  <2>4. Lands(h, c, FALSE)
    BY <2>1 DEF Write, Current, Lands
  <2>5. left' \in [instances : Nat, clients : Nat, faults : Nat]
    BY <2>1 DEF TypeOK
  <2> HIDE DEF t
  <2>6. WriteStep(h, t)
    BY <1>1, <2>1, <2>2, <2>3, <2>4, <2>5 DEF WriteStep
  <2> QED BY <2>6
<1>4. CASE CommandFails(h)
  <2>1. /\ IF c.op = "drop" THEN Advance(h) ELSE Refuse(h)
        /\ UNCHANGED <<route, nodeVars, calling, tries, latest, reported, unregistered,
                       disputed>>
        /\ Fault
    BY <1>4 DEF CommandFails, Current
  <2>2. Lands(h, c, ToList(h, c.inst)) \/ Misses(h, c)
    BY <1>4 DEF CommandFails, Current, Write, Lands, Misses
  <2>3. left' \in [instances : Nat, clients : Nat, faults : Nat]
    BY <2>1, SpendType, TypeParts DEF Fault
  <2>4. CASE c.op = "drop"
    <3> DEFINE t == With(h, Tail(s), task[h].ok, task[h].found)
    <3>1. Moves(h, t)
      BY <1>1, <1>2, <2>1, <2>4, AdvanceMoves
    <3> HIDE DEF t
    <3>2. WriteStep(h, t)
      BY <1>1, <2>1, <2>2, <2>3, <2>4, <3>1 DEF WriteStep
    <3> QED BY <3>2
  <2>5. CASE c.op # "drop"
    <3> DEFINE t == With(h, << >>, FALSE, task[h].found)
    <3>1. Moves(h, t)
      BY <1>1, <2>1, <2>5, RefuseMoves
    <3>2. t.ok = FALSE
      BY DEF With
    <3> HIDE DEF t
    <3>3. WriteStep(h, t)
      BY <1>1, <2>1, <2>2, <2>3, <3>1, <3>2 DEF WriteStep
    <3> QED BY <3>3
  <2> QED BY <2>4, <2>5
<1> QED BY <1>3, <1>4

LEMMA ListedThen ==
  ASSUME NEW i
  PROVE  Listed(i)' <=> ListedIn(i, instances', ranking')
BY DEF Listed, ListedIn

\* Only the record and the lists of one instance are changed.
LEMMA WriteTouches ==
  ASSUME TypeOK, TasksInv, NEW h \in Handlers, NEW t, WriteStep(h, t),
         NEW i, i = Head(task[h].todo).inst
  PROVE  /\ task[h] # None /\ task[h].todo # << >>
         /\ i \in Instances /\ KindOf(Head(task[h].todo), task[h].todo)
         /\ info' \subseteq Instances /\ ranking' \subseteq Gateways
         /\ instances' \subseteq Instances
         /\ hidden' \subseteq Instances /\ ghost' \subseteq Gateways /\ ghost \subseteq ghost'
         /\ \A j : j # i => /\ j \in info' <=> j \in info
                            /\ j \in ranking' <=> j \in ranking
                            /\ j \in instances' <=> j \in instances
                            /\ j \in hidden' <=> j \in hidden
         /\ ~Listed(i)' /\ i \in hidden => i \in hidden'
<1> DEFINE s == task[h].todo
           c == Head(s)
<1>1. task[h] # None /\ s # << >> /\ c.op \in Writes
  BY DEF WriteStep, Moves
<1>2. KindOf(c, s)
  BY <1>1, Scripted
<1>3. i \in Instances /\ (c.op \in {"zadd", "zrem"} => i \in Gateways)
  BY <1>1, <1>2, Names DEF KindOf, Writes
<1>4. \/ Effect(c) /\ ghost' = (IF Haunts(c) THEN ghost \cup {i} ELSE ghost)
      \/ UNCHANGED <<info, ranking, instances, ghost>>
  BY DEF WriteStep, Lands, Misses
<1>5. Judge(i, TRUE) \/ Judge(i, FALSE)
  <2>1. \/ Judge(i, FALSE \/ Interferes(c))
        \/ Judge(i, ToList(h, i) \/ Interferes(c))
        \/ Judge(i, i \in info /\ ToList(h, i))
    BY DEF WriteStep, Lands, Misses
  <2> QED BY <2>1 DEF Judge
<1>6. /\ hidden' \subseteq hidden \cup {i} /\ hidden \ {i} \subseteq hidden'
      /\ ~Listed(i)' /\ i \in hidden => i \in hidden'
  BY <1>5, ListedThen DEF Judge
<1>7. /\ info' \subseteq info \cup {i} /\ info \ {i} \subseteq info'
      /\ ranking' \subseteq ranking \cup {i} /\ ranking \ {i} \subseteq ranking'
      /\ i \notin Gateways => ranking' \subseteq ranking
      /\ instances' \subseteq instances \cup {i} /\ instances \ {i} \subseteq instances'
  BY <1>3, <1>4 DEF Effect
<1>8. ghost' \subseteq Gateways /\ ghost \subseteq ghost'
  BY <1>4 DEF Haunts, TypeOK
<1> QED BY <1>1, <1>2, <1>3, <1>6, <1>7, <1>8 DEF TypeOK

\* An instance with a record is listed, hidden, or being listed.
LEMMA WriteVisible ==
  ASSUME TypeOK, TasksInv, VisibleInv, NEW h \in Handlers, NEW t, WriteStep(h, t),
         NEW i, i = Head(task[h].todo).inst
  PROVE  VisibleInv'
<1> DEFINE s == task[h].todo
           c == Head(s)
<1>1. /\ task[h] # None /\ s # << >> /\ i \in Instances /\ KindOf(c, s)
      /\ \A j : j # i => /\ j \in info' <=> j \in info
                         /\ j \in ranking' <=> j \in ranking
                         /\ j \in instances' <=> j \in instances
                         /\ j \in hidden' <=> j \in hidden
      /\ ~Listed(i)' /\ i \in hidden => i \in hidden'
  BY WriteTouches
<1>2. \A k \in Handlers : task'[k] = IF k = h THEN t ELSE task[k]
  BY DEF WriteStep, Moves, TypeOK
<1>3. t # None /\ c.op \in Writes
  BY Names DEF WriteStep, Moves
<1>4. ASSUME NEW k \in Handlers, k # h, NEW j, WillList(k, j), j \in ranking => j \in ranking'
      PROVE  WillList(k, j)'
  <2>1. task'[k] = task[k]
    BY <1>2, <1>4
  <2> QED BY <1>4, <2>1 DEF WillList, ToList
<1>5. ASSUME NEW j \in info', j # i
      PROVE  Listed(j)' \/ j \in hidden' \/ \E k \in Handlers : WillList(k, j)'
  <2>1. Listed(j) \/ j \in hidden \/ \E k \in Handlers : WillList(k, j)
    BY <1>1, <1>5 DEF VisibleInv
  <2>2. Listed(j) => Listed(j)'
    BY <1>1, <1>5 DEF Listed, ListedIn
  <2>3. ~WillList(h, j)
    <3>1. SUFFICES ASSUME ToList(h, j) PROVE FALSE
      BY DEF WillList
    <3>2. j \in Instances /\ s \in Registering(j)
      BY <1>1, <3>1, KindWriter
    <3> QED BY <1>1, <1>5, <3>2, RegisteringHead
  <2>4. ASSUME NEW k \in Handlers, WillList(k, j) PROVE WillList(k, j)'
    BY <1>1, <1>4, <1>5, <2>3, <2>4
  <2> QED BY <1>1, <1>5, <2>1, <2>2, <2>4
<1>6. ASSUME i \in info', ~Listed(i)', i \notin hidden'
      PROVE  \E k \in Handlers : WillList(k, i)'
  <2>1. i \notin hidden
    BY <1>1, <1>6
  <2>2. CASE Misses(h, c)
    <3>1. /\ i \in info /\ ranking' = ranking /\ instances' = instances
          /\ Judge(i, i \in info /\ ToList(h, i))
      BY <1>6, <2>2 DEF Misses
    <3>2. ~ToList(h, i)
      BY <1>6, <3>1, ListedThen DEF Judge
    <3>3. ~Listed(i)
      BY <1>6, <3>1 DEF Listed, ListedIn
    <3>4. PICK k \in Handlers : WillList(k, i)
      BY <2>1, <3>1, <3>3 DEF VisibleInv
    <3>5. k # h
      BY <3>2, <3>4 DEF WillList
    <3>6. WillList(k, i)'
      BY <1>4, <3>1, <3>4, <3>5
    <3> QED BY <3>6
  <2>3. CASE \/ Lands(h, c, FALSE) /\ t.todo = Tail(s)
             \/ Lands(h, c, ToList(h, i))
    <3>1. Effect(c) /\ (Judge(i, FALSE \/ Interferes(c)) \/ Judge(i, ToList(h, i) \/ Interferes(c)))
      BY <2>3 DEF Lands
    <3>2. ~Interferes(c)
      BY <1>6, <3>1, ListedThen DEF Judge
    <3>3. ToList(h, i) => t.todo = Tail(s)
      BY <1>6, <2>3, ListedThen DEF Lands, Judge
    <3>4. CASE c.op = "setex"
      <4>1. s \in Registering(i) /\ Cmd("sadd", i) \in ToSet(s)
            /\ Cmd("sadd", i) \in ToSet(Tail(s))
            /\ (i \in Gateways => Cmd("zadd", i) \in ToSet(Tail(s)))
        BY <1>1, <3>4, RegisteringScripts DEF KindOf
      <4>2. t.todo = Tail(s)
        BY <3>3, <4>1 DEF ToList
      <4>3. task'[h] = t
        BY <1>2
      <4> QED BY <1>3, <4>1, <4>2, <4>3 DEF WillList, ToList
    <3>5. CASE c.op = "zadd" /\ s \in Registering(i)
      <4>1. Cmd("sadd", i) \in ToSet(s) /\ Cmd("sadd", i) \in ToSet(Tail(s))
        BY <1>1, <3>5, RegisteringScripts
      <4>2. t.todo = Tail(s)
        BY <3>3, <4>1 DEF ToList
      <4>3. task'[h] = t /\ i \in ranking'
        BY <1>2, <3>1, <3>5 DEF Effect
      <4> QED BY <1>3, <4>1, <4>2, <4>3 DEF WillList, ToList
    <3>6. CASE c.op = "sadd"
      <4>1. i \in instances' /\ ranking' = ranking /\ info' = info
        BY <3>1, <3>6 DEF Effect
      <4>2. i \in Gateways /\ i \notin ranking /\ i \in info
        BY <1>6, <4>1 DEF Listed, ListedIn
      <4>3. ~Listed(i)
        BY <4>2 DEF Listed, ListedIn
      <4>4. PICK k \in Handlers : WillList(k, i)
        BY <2>1, <4>2, <4>3 DEF VisibleInv
      <4>5. Cmd("zadd", i) \in ToSet(task[k].todo)
        BY <4>2, <4>4 DEF WillList
      <4>6. s \in Registering(i) /\ ToSet(s) = {Cmd("sadd", i)}
        BY <1>1, <3>6, RegisteringScripts DEF KindOf
      <4>7. k # h
        <5>1. Cmd("zadd", i) # Cmd("sadd", i)
          BY DEF Cmd
        <5> QED BY <4>5, <4>6, <5>1
      <4> QED BY <1>4, <4>1, <4>4, <4>7
    <3>7. CASE c.op = "zadd" /\ s \in Beating(i)
      <4>1. i \in ranking' /\ instances' = instances /\ info' = info
        BY <3>1, <3>7 DEF Effect
      <4>2. ~Listed(i) /\ i \in info
        BY <1>6, <4>1 DEF Listed, ListedIn
      <4>3. PICK k \in Handlers : WillList(k, i)
        BY <2>1, <4>2 DEF VisibleInv
      <4>4. k # h
        <5>1. Cmd("sadd", i) \notin {Cmd("get", i), Cmd("refresh", i), Cmd("zadd", i)}
          BY DEF Cmd
        <5>2. Cmd("sadd", i) \notin ToSet(s)
          BY <1>1, <3>7, <5>1, BeatingScripts
        <5> QED BY <4>3, <5>2 DEF WillList, ToList
      <4> QED BY <1>4, <4>1, <4>3, <4>4
    <3>8. CASE c.op = "refresh"
      <4>1. Listed(i) /\ ranking' = ranking /\ instances' = instances
        BY <3>1, <3>2, <3>8 DEF Interferes, Effect
      <4> QED BY <1>6, <4>1 DEF Listed, ListedIn
    <3>9. CASE c.op = "del"
      BY <1>6, <3>1, <3>9 DEF Effect
    <3>10. CASE c.op \in {"zrem", "srem", "drop"}
      <4>1. info' = info
        BY <3>1, <3>10 DEF Effect
      <4> QED BY <1>6, <3>2, <3>10, <4>1 DEF Interferes
    <3>11. c.op = "zadd" => s \in Registering(i) \/ s \in Beating(i)
      BY <1>1 DEF KindOf
    <3> QED BY <1>3, <3>4, <3>5, <3>6, <3>7, <3>8, <3>9, <3>10, <3>11 DEF Writes
  <2> QED BY <2>2, <2>3 DEF WriteStep
<1> SUFFICES ASSUME NEW j \in info'
             PROVE  Listed(j)' \/ j \in hidden' \/ \E k \in Handlers : WillList(k, j)'
  BY DEF VisibleInv
<1> QED BY <1>5, <1>6

\* A write for a gateway that is shutting down haunts it.
LEMMA WriteGrowth ==
  ASSUME TypeOK, TasksInv, NEW h \in Handlers, NEW t, WriteStep(h, t),
         NEW g \in Gateways, life[g] \in {"stopping", "stopped", "down"}, g \notin ghost'
  PROVE  /\ g \in info' => g \in info
         /\ g \in ranking' => g \in ranking
         /\ g \in instances' => g \in instances
<1> DEFINE c == Head(task[h].todo)
<1>1. CASE c.inst # g
  BY <1>1, WriteTouches
<1>2. CASE Misses(h, c)
  BY <1>2 DEF Misses
<1>3. CASE c.inst = g /\ Effect(c) /\ ghost' = IF Haunts(c) THEN ghost \cup {c.inst} ELSE ghost
  <2>1. ~Haunts(c)
    BY <1>3
  <2>2. c.op \notin {"setex", "refresh", "zadd", "sadd"}
    BY <1>3, <2>1 DEF Haunts
  <2> QED BY <1>3, <2>2 DEF Effect
<1> QED BY <1>1, <1>2, <1>3 DEF WriteStep, Lands

LEMMA WriteUnlisted ==
  ASSUME TypeOK, TasksInv, UnlistedInv, NEW h \in Handlers, NEW t, WriteStep(h, t)
  PROVE  UnlistedInv'
<1> DEFINE s == task[h].todo
           c == Head(s)
<1>1. /\ task[h] # None /\ s # << >> /\ t.by = task[h].by
      /\ \A k \in Handlers : task'[k] = IF k = h THEN t ELSE task[k]
      /\ life' = life /\ unregistered' = unregistered /\ ghost \subseteq ghost'
  BY WriteTouches DEF WriteStep, Moves, TypeOK, nodeVars
<1>2. \A g \in unregistered : life[g] \in {"stopped", "down"} /\ g \in Gateways
  BY DEF UnlistedInv, TypeOK
<1>3. Unlisted'
  <2>1. SUFFICES ASSUME NEW g \in unregistered, g \notin ghost'
                 PROVE  g \notin info' \cup ranking' \cup instances'
    BY <1>1 DEF Unlisted
  <2>2. g \notin info /\ g \notin ranking /\ g \notin instances
    BY <1>1, <2>1 DEF UnlistedInv, Unlisted
  <2> QED BY <1>2, <2>1, <2>2, WriteGrowth
<1>4. ASSUME NEW k \in Handlers, NEW g \in Gateways \ ghost', task'[k] # None,
             task'[k].by = Main(g), life[g] = "stopping", task'[k].ok
      PROVE  Removed(k, g)'
  <2>1. /\ g \in info' => g \in info
        /\ g \in ranking' => g \in ranking
        /\ g \in instances' => g \in instances
    BY <1>4, WriteGrowth
  <2>2. g \notin ghost
    BY <1>1
  <2>3. CASE k # h
    <3>1. task'[k] = task[k]
      BY <1>1, <2>3
    <3>2. Removed(k, g)
      BY <1>4, <2>2, <3>1 DEF UnlistedInv
    <3> QED BY <2>1, <3>1, <3>2 DEF Removed
  <2>4. CASE k = h
    <3>1. t.by = Main(g) /\ t.ok /\ task'[h] = t
      BY <1>1, <1>4, <2>4
    <3>2. task[h].ok /\ (c.op \in Plain => t.todo = Tail(s))
      BY <3>1 DEF WriteStep, Moves
    <3>3. Removed(h, g)
      BY <1>1, <1>4, <2>2, <3>1, <3>2 DEF UnlistedInv
    <3>4. s \in Removing(g)
      BY <1>1, <1>4, <3>1, Names DEF TasksInv, CallOK
    <3>5. c \in {Cmd("del", g), Cmd("zrem", g), Cmd("srem", g)}
      BY <1>1, <3>4, RemovingScripts
    <3>6. c.op \in {"del", "zrem", "srem"} /\ c.inst = g
      BY <3>5, CmdFields
    <3>7. t.todo = Tail(s)
      BY <3>2, <3>6 DEF Plain, Writes
    <3>8. ToSet(s) = {c} \cup ToSet(Tail(s))
      BY <1>1, Scripted
    <3>9. Effect(c)
      BY <3>1, <3>6 DEF WriteStep, Lands
    <3>10. /\ c = Cmd("del", g) => g \notin info'
           /\ c = Cmd("zrem", g) => g \notin ranking'
           /\ c = Cmd("srem", g) => g \notin instances'
      BY <3>9, CmdFields DEF Effect
    <3> QED BY <2>1, <2>4, <3>1, <3>3, <3>7, <3>8, <3>10 DEF Removed
  <2> QED BY <2>3, <2>4
<1> QED BY <1>1, <1>2, <1>3, <1>4 DEF UnlistedInv

LEMMA WriteParts ==
  ASSUME IInv, NEW h \in Handlers, NEW t, WriteStep(h, t)
  PROVE  Parts'
<1>1. /\ TypeOK /\ Typed /\ TasksInv /\ NodesInv /\ VisibleInv /\ UnlistedInv /\ RoutedInv
      /\ Moves(h, t)
  BY TypeParts DEF IInv, WriteStep
<1>2. /\ route' = route /\ life' = life /\ conn' = conn /\ gateway' = gateway
      /\ stored' = stored /\ calling' = calling /\ tries' = tries /\ latest' = latest
      /\ reported' = reported /\ unregistered' = unregistered /\ disputed' = disputed
      /\ left' \in [instances : Nat, clients : Nat, faults : Nat]
  BY DEF WriteStep, nodeVars
<1>3. PICK i : i = Head(task[h].todo).inst
  OBVIOUS
<1>4. Typed'
  <2>1. task' \in [Handlers -> TaskType \cup {None}]
    BY <1>1, MovesTyped
  <2>2. /\ info' \subseteq Instances /\ ranking' \subseteq Gateways
        /\ instances' \subseteq Instances
        /\ hidden' \subseteq Instances /\ ghost' \subseteq Gateways
    BY <1>1, <1>3, WriteTouches
  <2> QED BY <1>1, <1>2, <2>1, <2>2 DEF Typed
<1>5. TasksInv'
  BY <1>1, <1>2, MovesTasks
<1>6. NodesInv'
  BY <1>1, <1>2 DEF NodesInv
<1>7. VisibleInv'
  BY <1>1, <1>3, WriteVisible
<1>8. UnlistedInv'
  BY <1>1, WriteUnlisted
<1>9. RoutedInv'
  <2>1. ASSUME NEW c \in stored, Connected(c)' PROVE Connected(c)
    <3>1. Head(task[h].todo).op \in Writes
      BY DEF WriteStep
    <3>2. Head(task[h].todo) # Cmd("connect", gateway[c])
      BY <3>1, CmdFields DEF Writes
    <3> QED BY <1>1, <1>2, <2>1, <3>2, MovesConnected
  <2> QED BY <1>1, <1>2, <2>1, RoutedKept
<1> QED BY <1>4, <1>5, <1>6, <1>7, <1>8, <1>9 DEF Parts
--------------------------------------------------------------------------------
(* New tasks *)

LEMMA BeginsParts ==
  ASSUME IInv, NEW h \in Handlers, NEW t, Begins(h, t), CallOK(t),
         UNCHANGED <<redisVars, nodeVars, calling, notes>>,
         left' \in [instances : Nat, clients : Nat, faults : Nat],
         tries' \in [Callers -> 0 .. Attempts],
         \A g \in Gateways : t.by = Main(g) /\ life[g] = "stopping" =>
           t.todo = UnregisterGateway(g),
         \A c \in Conns : t.by = Client(c) /\ conn[c] = "joining" => t.todo \notin Notifying
  PROVE  Parts'
<1>1. /\ TypeOK /\ Typed /\ TasksInv /\ NodesInv /\ VisibleInv /\ UnlistedInv /\ RoutedInv
  BY TypeParts DEF IInv
<1>2. /\ info' = info /\ ranking' = ranking /\ instances' = instances /\ route' = route
      /\ life' = life /\ conn' = conn /\ gateway' = gateway /\ stored' = stored
      /\ calling' = calling /\ latest' = latest /\ reported' = reported
      /\ unregistered' = unregistered /\ hidden' = hidden /\ ghost' = ghost
      /\ disputed' = disputed
  BY DEF redisVars, nodeVars, notes
<1>3. /\ task[h] = None /\ t \in TaskType
      /\ \A k \in Handlers : task'[k] = IF k = h THEN t ELSE task[k]
  BY <1>1 DEF Begins, TypeOK
<1>4. Typed'
  <2>1. task' \in [Handlers -> TaskType \cup {None}]
    BY <1>1, <1>3 DEF Begins, Typed
  <2> QED BY <1>1, <1>2, <2>1 DEF Typed
<1>5. TasksInv'
  BY <1>1, <1>2, BeginsTasks
<1>6. NodesInv'
  BY <1>1, <1>2 DEF NodesInv
<1>7. VisibleInv'
  <2>1. ASSUME NEW k \in Handlers, NEW i \in info, WillList(k, i)
        PROVE  task'[k] # None /\ task'[k].todo = task[k].todo
    BY <1>3, <2>1 DEF WillList
  <2> QED BY <1>1, <1>2, <2>1, VisibleKept
<1>8. UnlistedInv'
  <2>1. ASSUME NEW k \in Handlers, NEW g \in Gateways \ ghost, task'[k] # None,
               task'[k].by = Main(g), life'[g] = "stopping", task'[k].ok
        PROVE  \/ /\ task[k] # None /\ task[k].by = Main(g) /\ life[g] = "stopping" /\ task[k].ok
                  /\ task'[k].todo = task[k].todo
               \/ task'[k].todo = UnregisterGateway(g)
    <3>1. CASE k = h
      BY <1>2, <1>3, <2>1, <3>1
    <3>2. CASE k # h
      BY <1>2, <1>3, <2>1, <3>2
    <3> QED BY <3>1, <3>2
  <2>2. \A g \in unregistered : life'[g] \in {"stopped", "down"}
    BY <1>1, <1>2 DEF UnlistedInv
  <2> QED BY <1>1, <1>2, <2>1, <2>2, UnlistedKept
<1>9. RoutedInv'
  <2>1. ASSUME NEW c \in stored, Connected(c)' PROVE Connected(c)
    <3>1. CASE conn[c] = "up" /\ c \in reported
      BY <3>1 DEF Connected
    <3>2. ASSUME conn[c] = "joining", NEW k \in Handlers, task'[k] # None,
                 task'[k].by = Client(c), task'[k].ok, task'[k].todo \in Notifying
          PROVE  Connected(c)
      <4>1. c \in Conns
        BY <1>1 DEF Typed
      <4>2. k # h
        BY <1>3, <3>2, <4>1
      <4> QED BY <1>3, <3>2, <4>2 DEF Connected
    <3> QED BY <1>2, <2>1, <3>1, <3>2 DEF Connected
  <2> QED BY <1>1, <1>2, <2>1, RoutedKept
<1> QED BY <1>4, <1>5, <1>6, <1>7, <1>8, <1>9 DEF Parts

LEMMA AttemptParts ==
  ASSUME IInv, NEW h \in Handlers, NEW p \in Callers, Attempt(p, h)
  PROVE  Parts'
<1> DEFINE t == [by |-> p, user |-> Subject(p), todo |-> Request(p), ok |-> TRUE, found |-> None]
<1>1. TypeOK /\ TasksInv /\ NodesInv
  BY DEF IInv
<1>2. Begins(h, t) /\ CallOK(t)
  BY <1>1, AttemptBegins
<1>3. t.by = p /\ t.todo = Request(p)
  OBVIOUS
<1>4. ASSUME NEW g \in Gateways, p = Main(g), life[g] = "stopping"
      PROVE  Request(p) = UnregisterGateway(g)
  <2>1. p[1] = "main" /\ p[2] = g
    BY <1>4 DEF Main
  <2> QED BY <1>4, <2>1 DEF Request
<1>5. ASSUME NEW c \in Conns, p = Client(c), conn[c] = "joining"
      PROVE  Request(p) \notin Notifying
  <2>1. p[1] = "client" /\ p[2] = c
    BY <1>5 DEF Client
  <2>2. Request(p) = ConnectHandler(gateway[c])
    BY <1>5, <2>1 DEF Request
  <2>3. Cmd("connect", gateway[c]) \in ToSet(Request(p))
    BY <2>2, ConnectSet
  <2>4. Cmd("connect", gateway[c]).op \notin Asynchronous
    BY CmdFields DEF Asynchronous
  <2> QED BY <2>3, <2>4, NotifyingScripts
<1>6. /\ UNCHANGED <<redisVars, nodeVars, calling, notes>>
      /\ left' \in [instances : Nat, clients : Nat, faults : Nat]
  BY <1>1 DEF Attempt, TypeOK
<1>7. tries' \in [Callers -> 0 .. Attempts]
  <2>1. tries[p] \in 0 .. Attempts /\ tries[p] > 0 /\ tries' = [tries EXCEPT ![p] = tries[p] - 1]
    BY <1>1 DEF Attempt, MayTry, TypeOK
  <2>2. tries[p] - 1 \in 0 .. Attempts
    BY <2>1 DEF Attempts
  <2> QED BY <1>1, <2>1, <2>2 DEF TypeOK
<1> HIDE DEF t
<1> QED BY <1>2, <1>3, <1>4, <1>5, <1>6, <1>7, BeginsParts

LEMMA ListParts ==
  ASSUME IInv, NEW h \in Handlers, List(h)
  PROVE  Parts'
<1>1. TypeOK /\ TasksInv /\ Typed
  BY TypeParts DEF IInv
<1>2. PICK todo \in {GetRandomSendInstance, ListAllSendInstances} :
        LET t == [by |-> None, user |-> None, todo |-> todo, ok |-> TRUE, found |-> None]
        IN  Begins(h, t) /\ CallOK(t)
  BY <1>1, ListBegins
<1> DEFINE t == [by |-> None, user |-> None, todo |-> todo, ok |-> TRUE, found |-> None]
<1>3. t.by = None /\ Begins(h, t) /\ CallOK(t)
  BY <1>2
<1>4. /\ UNCHANGED <<redisVars, nodeVars, calling, notes>>
      /\ tries' = tries /\ tries' \in [Callers -> 0 .. Attempts] /\ Spend("instances")
  BY <1>1 DEF List, Typed
<1>5. left' \in [instances : Nat, clients : Nat, faults : Nat]
  BY <1>1, <1>4, SpendType
<1>6. \A g \in Gateways : None # Main(g)
  BY CallerNames, Names
<1>7. \A c \in Conns : None # Client(c)
  BY CallerNames, Names
<1> HIDE DEF t
<1> QED BY <1>3, <1>4, <1>5, <1>6, <1>7, BeginsParts
--------------------------------------------------------------------------------
(* Calls that end *)

ReturnsWell(p, ok) ==
  /\ NodesInv'
  /\ life' \in [Instances -> {"down", "starting", "up", "stopping", "stopped"}]
  /\ conn' \in [Conns -> {"out", "asking", "told", "joining", "up", "leaving"}]
  /\ gateway' \in [Conns -> Gateways \cup {None}]
  /\ stored' = stored /\ \A c \in stored : gateway'[c] = gateway[c]
  /\ calling' = calling \ {p} /\ tries' \in [Callers -> 0 .. Attempts]
  /\ reported' \subseteq Conns /\ unregistered' \subseteq Gateways
  /\ \A q : q # p => Undisturbed(q)
  /\ \A f \in Gateways : life'[f] = life[f] \/ life[f] \in {"starting", "stopping"}
  /\ unregistered \subseteq unregistered'
  /\ \A f \in unregistered' : \/ f \in unregistered
                              \/ /\ p = Main(f) /\ ok /\ life[f] = "stopping"
                                 /\ life'[f] = "stopped"
  /\ \A c \in stored : conn'[c] = "up" /\ c \in reported' =>
       \/ conn[c] = "up" /\ c \in reported
       \/ conn[c] = "joining" /\ p = Client(c) /\ ok

LEMMA ReturnsMain ==
  ASSUME Typed, NodesInv, NEW i \in Instances, Main(i) \in calling, NEW ok \in BOOLEAN, NEW g,
         Returns(Main(i), ok, g)
  PROVE  ReturnsWell(Main(i), ok)
<1> DEFINE p == Main(i)
<1>1. /\ calling' = calling \ {p} /\ tries' = [tries EXCEPT ![p] = 0]
      /\ life' = [life EXCEPT ![i] = IF life[i] = "starting" THEN "up" ELSE "stopped"]
      /\ unregistered' = IF ok /\ life[i] = "stopping" THEN unregistered \cup {i}
                         ELSE unregistered
      /\ conn' = conn /\ gateway' = gateway /\ reported' = reported /\ stored' = stored
  <2>1. p[1] = "main" /\ p[2] = i
    BY CallerNames
  <2> QED BY <2>1 DEF Returns, MainReturns
<1>2. life[i] \in {"starting", "stopping"} /\ (life[i] = "stopping" => i \in Gateways)
  BY DEF NodesInv
<1>3. \A j \in Instances :
        life'[j] = IF j = i THEN (IF life[i] = "starting" THEN "up" ELSE "stopped")
                   ELSE life[j]
  BY <1>1 DEF Typed
<1>4. \A j : Main(j) # p => j # i
  OBVIOUS
<1>5. \A c : Client(c) # p
  BY CallerNames
<1>6. \A j : Main(j) = p => j = i
  BY CallerNames
<1>7. NodesInv'
  <2>1. \A j \in Instances : Main(j) \in calling' <=> life'[j] \in {"starting", "stopping"}
    BY <1>1, <1>2, <1>3, <1>6 DEF NodesInv
  <2>2. \A j \in Instances : life'[j] \in {"stopping", "stopped"} => j \in Gateways
    BY <1>2, <1>3 DEF NodesInv
  <2>3. \A c \in Conns : Client(c) \in calling' <=> conn'[c] \in {"asking", "joining", "leaving"}
    BY <1>1, <1>5 DEF NodesInv
  <2> QED BY <1>1, <2>1, <2>2, <2>3 DEF NodesInv
<1>8. tries' \in [Callers -> 0 .. Attempts]
  BY <1>1 DEF Typed, Attempts
<1>9. life' \in [Instances -> {"down", "starting", "up", "stopping", "stopped"}]
  BY <1>1 DEF Typed
<1>10. \A q : q # p => Undisturbed(q)
  BY <1>1, <1>3 DEF Undisturbed
<1>11. \A f \in unregistered' : \/ f \in unregistered
                                \/ /\ p = Main(f) /\ ok /\ life[f] = "stopping"
                                   /\ life'[f] = "stopped"
  BY <1>1, <1>2, <1>3
<1>12. unregistered' \subseteq Gateways /\ unregistered \subseteq unregistered'
  BY <1>1, <1>2 DEF Typed
<1>13. \A f \in Gateways : life'[f] = life[f] \/ life[f] \in {"starting", "stopping"}
  BY <1>2, <1>3, Names
<1> HIDE DEF p
<1>14. ReturnsWell(p, ok)
  <2>1. /\ conn' \in [Conns -> {"out", "asking", "told", "joining", "up", "leaving"}]
        /\ gateway' \in [Conns -> Gateways \cup {None}] /\ reported' \subseteq Conns
    BY <1>1 DEF Typed
  <2> QED BY <1>1, <1>7, <1>8, <1>9, <1>10, <1>11, <1>12, <1>13, <2>1 DEF ReturnsWell
<1> QED BY <1>14 DEF p

LEMMA ReturnsBeat ==
  ASSUME Typed, NodesInv, NEW i \in Instances, Beat(i) \in calling, NEW ok \in BOOLEAN, NEW g,
         Returns(Beat(i), ok, g)
  PROVE  ReturnsWell(Beat(i), ok)
<1> DEFINE p == Beat(i)
<1>1. /\ calling' = calling \ {p} /\ tries' = [tries EXCEPT ![p] = 0]
      /\ life' = life /\ unregistered' = unregistered
      /\ conn' = conn /\ gateway' = gateway /\ reported' = reported /\ stored' = stored
  <2>1. p[1] = "beat" /\ p[2] = i
    BY CallerNames
  <2> QED BY <2>1 DEF Returns
<1>2. \A j : Main(j) # p /\ Client(j) # p
  BY CallerNames
<1>3. NodesInv'
  BY <1>1, <1>2 DEF NodesInv
<1>4. tries' \in [Callers -> 0 .. Attempts]
  BY <1>1 DEF Typed, Attempts
<1> HIDE DEF p
<1>5. ReturnsWell(p, ok)
  BY <1>1, <1>3, <1>4 DEF ReturnsWell, Typed, Undisturbed
<1> QED BY <1>5 DEF p

LEMMA ReturnsClient ==
  ASSUME Typed, NodesInv, NEW c \in Conns, Client(c) \in calling, NEW ok \in BOOLEAN, NEW g,
         Returns(Client(c), ok, g), conn[c] = "asking" /\ ok => g \in Gateways
  PROVE  ReturnsWell(Client(c), ok)
<1> DEFINE p == Client(c)
           after == CASE conn[c] = "joining" -> "up"
                      [] conn[c] = "asking" /\ ok -> "told"
                      [] OTHER -> "out"
<1>1. /\ calling' = calling \ {p} /\ tries' = [tries EXCEPT ![p] = 0]
      /\ conn' = [conn EXCEPT ![c] = after]
      /\ gateway' = IF conn[c] = "asking" /\ ok THEN [gateway EXCEPT ![c] = g] ELSE gateway
      /\ reported' = IF conn[c] = "joining" /\ ok THEN reported \cup {c} ELSE reported
      /\ life' = life /\ unregistered' = unregistered /\ stored' = stored
  <2>1. p[1] = "client" /\ p[2] = c
    BY CallerNames
  <2> QED BY <2>1 DEF Returns, ClientReturns
<1>2. conn[c] \in {"asking", "joining", "leaving"}
  BY DEF NodesInv
<1>3. /\ after \in {"up", "told", "out"} /\ (after = "up" <=> conn[c] = "joining")
      /\ after = "told" => conn[c] = "asking" /\ ok
  BY <1>2
<1> HIDE DEF after
<1>4. \A d \in Conns : conn'[d] = IF d = c THEN after ELSE conn[d]
  BY <1>1 DEF Typed
<1>5. \A d \in Conns : gateway'[d] = IF d = c /\ conn[c] = "asking" /\ ok THEN g ELSE gateway[d]
  BY <1>1 DEF Typed
<1>6. \A j : Main(j) # p
  BY CallerNames
<1>7. \A d : Client(d) = p => d = c
  BY CallerNames
<1>8. NodesInv'
  <2>1. \A d \in Conns : Client(d) \in calling' <=> conn'[d] \in {"asking", "joining", "leaving"}
    BY <1>1, <1>3, <1>4, <1>7 DEF NodesInv
  <2>2. \A d \in Conns : conn'[d] \notin {"out", "asking"} => gateway'[d] \in Gateways
    <3>1. ASSUME NEW d \in Conns, d # c, conn'[d] \notin {"out", "asking"}
          PROVE  gateway'[d] \in Gateways
      BY <1>4, <1>5, <3>1 DEF NodesInv
    <3>2. ASSUME conn'[c] \notin {"out", "asking"}
          PROVE  gateway'[c] \in Gateways
      <4>1. CASE after = "told"
        BY <1>3, <1>5, <4>1
      <4>2. CASE after = "up"
        <5>1. conn[c] = "joining" /\ gateway[c] \in Gateways
          BY <1>3, <4>2 DEF NodesInv
        <5> QED BY <1>5, <5>1
      <4> QED BY <1>3, <1>4, <3>2, <4>1, <4>2
    <3> QED BY <3>1, <3>2
  <2>3. \A d \in stored : conn'[d] \in {"joining", "up"}
    <3>1. \A d \in stored : d \in Conns /\ conn[d] \in {"joining", "up"}
      BY DEF NodesInv, Typed
    <3> QED BY <1>3, <1>4, <3>1, <1>2
  <2>4. \A d \in reported' : conn'[d] # "joining"
    <3>1. \A d \in reported : d \in Conns /\ conn[d] # "joining"
      BY DEF NodesInv, Typed
    <3> QED BY <1>1, <1>3, <1>4, <3>1
  <2>5. \A j \in Instances : Main(j) \in calling' <=> life'[j] \in {"starting", "stopping"}
    BY <1>1, <1>6 DEF NodesInv
  <2> QED BY <1>1, <2>1, <2>2, <2>3, <2>4, <2>5 DEF NodesInv
<1>9. tries' \in [Callers -> 0 .. Attempts]
  BY <1>1 DEF Typed, Attempts
<1>10. conn' \in [Conns -> {"out", "asking", "told", "joining", "up", "leaving"}]
  BY <1>1, <1>3 DEF Typed
<1>11. gateway' \in [Conns -> Gateways \cup {None}]
  BY <1>1 DEF Typed
<1>12. \A q : q # p => Undisturbed(q)
  BY <1>1, <1>4, <1>5 DEF Undisturbed
<1>13. \A d \in stored : gateway'[d] = gateway[d]
  <2>1. \A d \in stored : d \in Conns /\ conn[d] \in {"joining", "up"}
    BY DEF NodesInv, Typed
  <2> QED BY <1>5, <2>1
<1>14. \A d \in stored : conn'[d] = "up" /\ d \in reported' =>
         \/ conn[d] = "up" /\ d \in reported
         \/ conn[d] = "joining" /\ p = Client(d) /\ ok
  <2>1. SUFFICES ASSUME NEW d \in stored, conn'[d] = "up", d \in reported'
                 PROVE  \/ conn[d] = "up" /\ d \in reported
                        \/ conn[d] = "joining" /\ p = Client(d) /\ ok
    OBVIOUS
  <2>2. d \in Conns
    BY DEF Typed
  <2>3. CASE d # c
    BY <1>1, <1>4, <2>1, <2>2, <2>3
  <2>4. CASE d = c
    <3>1. conn[c] = "joining" /\ c \notin reported
      BY <1>3, <1>4, <2>1, <2>4 DEF NodesInv
    <3>2. ok
      BY <1>1, <2>1, <2>4, <3>1
    <3> QED BY <2>4, <3>1, <3>2
  <2> QED BY <2>3, <2>4
<1> HIDE DEF p
<1>15. ReturnsWell(p, ok)
  <2>1. /\ life' \in [Instances -> {"down", "starting", "up", "stopping", "stopped"}]
        /\ reported' \subseteq Conns /\ unregistered' \subseteq Gateways
    BY <1>1 DEF Typed
  <2> QED BY <1>1, <1>8, <1>9, <1>10, <1>11, <1>12, <1>13, <1>14, <2>1 DEF ReturnsWell
<1> QED BY <1>15 DEF p

LEMMA ReturnsAny ==
  ASSUME Typed, NodesInv, NEW p \in calling, NEW ok \in BOOLEAN, NEW g, Returns(p, ok, g),
         \A c \in Conns : p = Client(c) /\ conn[c] = "asking" /\ ok => g \in Gateways
  PROVE  ReturnsWell(p, ok)
<1>1. p \in Callers
  BY DEF Typed
<1>2. CASE \E i \in Instances : p = Main(i)
  BY <1>2, ReturnsMain
<1>3. CASE \E i \in Instances : p = Beat(i)
  BY <1>3, ReturnsBeat
<1>4. CASE \E c \in Conns : p = Client(c)
  BY <1>4, ReturnsClient
<1> QED BY <1>1, <1>2, <1>3, <1>4, CallerNames

LEMMA FewerRemoved ==
  ASSUME Fewer, UnlistedInv, info' = info, ranking' = ranking, instances' = instances,
         NEW h \in Handlers, NEW g \in Gateways, g \notin ghost, task'[h] # None,
         task'[h].by = Main(g), life'[g] = "stopping", task'[h].ok
  PROVE  Removed(h, g)'
<1>1. Main(g) # None /\ g \in Instances
  BY CallerNames, Names
<1>2. /\ task[h] # None /\ task[h].by = Main(g) /\ life[g] = "stopping" /\ task[h].ok
      /\ task'[h].todo = task[h].todo
  BY <1>1 DEF Fewer, Undisturbed
<1> QED BY <1>2 DEF UnlistedInv, Removed

\* A handler whose answer its caller has got has done all that it was asked to do.
LEMMA ReplyDone ==
  ASSUME TypeOK, TasksInv, NodesInv, NEW h \in Handlers, task[h] # None, task[h].ok,
         \A n \in DOMAIN task[h].todo : task[h].todo[n].op \in Asynchronous
  PROVE  /\ \A g \in Gateways : task[h].by = Main(g) /\ life[g] = "stopping" => task[h].todo = << >>
         /\ \A c \in Conns : task[h].by = Client(c) =>
              /\ conn[c] = "asking" => task[h].found \in Gateways
              /\ conn[c] = "joining" => task[h].todo \in Notifying
<1> DEFINE s == task[h].todo
<1>1. \A c \in ToSet(s) : c.op \in Asynchronous
  BY DEF ToSet
<1>2. s \in Seq(CmdType) /\ OfKind(s) /\ CallOK(task[h])
  BY TaskFields DEF TasksInv, KindOK
<1>3. s # << >> => Head(s) \in ToSet(s)
  BY <1>2, HeadKind
<1>4. ASSUME NEW g \in Gateways, task[h].by = Main(g), life[g] = "stopping"
      PROVE  s = << >>
  <2>1. s \in Removing(g)
    BY <1>2, <1>4, Names DEF CallOK
  <2>2. s # << >> => Head(s).op \in {"del", "zrem", "srem"}
    BY <2>1, RemovingHead
  <2> QED BY <1>1, <1>3, <2>2 DEF Asynchronous
<1>5. ASSUME NEW c \in Conns, task[h].by = Client(c), conn[c] = "asking"
      PROVE  task[h].found \in Gateways
  <2>1. /\ s \in Finding
        /\ task[h].ok /\ (s = << >> \/ Head(s).op = "get") => task[h].found \in Gateways
    BY <1>2, <1>5 DEF CallOK
  <2>2. s # << >> => Head(s).op \in {"lease", "lowest", "exists", "info", "get"}
    BY <1>3, <2>1, FindingScripts
  <2>3. s = << >>
    BY <1>1, <1>3, <2>2 DEF Asynchronous
  <2> QED BY <2>1, <2>3
<1>6. ASSUME NEW c \in Conns, task[h].by = Client(c), conn[c] = "joining"
      PROVE  s \in Notifying
  <2>1. s \in Connecting(gateway[c]) /\ gateway[c] \in Gateways
    BY <1>2, <1>6 DEF CallOK, NodesInv
  <2>2. ASSUME s \notin Notifying PROVE FALSE
    <3>1. /\ Head(s) \in {Cmd("get", gateway[c]), Cmd("connect", gateway[c])}
          /\ s # << >>
      BY <2>1, <2>2, ConnectingScripts, NoChecks
    <3>2. Head(s).op \in {"get", "connect"}
      BY <3>1, CmdFields
    <3> QED BY <1>1, <1>3, <3>1, <3>2 DEF Asynchronous
  <2> QED BY <2>2
<1> QED BY <1>4, <1>5, <1>6

LEMMA ReplyParts ==
  ASSUME IInv, NEW h \in Handlers, Reply(h)
  PROVE  Parts' /\ Fewer
<1> DEFINE p == task[h].by
<1>1. /\ TypeOK /\ Typed /\ TasksInv /\ NodesInv /\ VisibleInv /\ UnlistedInv /\ RoutedInv
  BY TypeParts DEF IInv
<1>2. /\ task[h] # None /\ task[h].ok /\ p # None /\ Returns(p, TRUE, task[h].found)
      /\ task' = IF task[h].todo = << >> THEN [task EXCEPT ![h] = None]
                 ELSE [task EXCEPT ![h].by = None]
  BY DEF Reply
<1>3. /\ \A g \in Gateways : p = Main(g) /\ life[g] = "stopping" => task[h].todo = << >>
      /\ \A c \in Conns : p = Client(c) =>
           /\ conn[c] = "asking" => task[h].found \in Gateways
           /\ conn[c] = "joining" => task[h].todo \in Notifying
  <2>1. \A n \in DOMAIN task[h].todo : task[h].todo[n].op \in Asynchronous
    BY DEF Reply
  <2> QED BY <1>1, <1>2, <2>1, ReplyDone
<1>4. p \in calling /\ p \in Callers
  BY <1>1, <1>2 DEF TasksInv, Typed
<1>5. ReturnsWell(p, TRUE)
  <2>1. \A c \in Conns : p = Client(c) /\ conn[c] = "asking" /\ TRUE => task[h].found \in Gateways
    BY <1>3
  <2> HIDE DEF p
  <2> QED BY <1>1, <1>2, <1>4, <2>1, ReturnsAny
<1>6. /\ info' = info /\ ranking' = ranking /\ instances' = instances /\ route' = route
      /\ stored' = stored /\ left' = left /\ latest' = latest /\ hidden' = hidden
      /\ ghost' = ghost /\ disputed' = disputed
  BY <1>2 DEF Returns, redisVars
<1>7. \A k \in Handlers :
        task'[k] = IF k # h THEN task[k]
                   ELSE IF task[h].todo = << >> THEN None
                   ELSE [by |-> None, user |-> task[h].user, todo |-> task[h].todo,
                         ok |-> task[h].ok, found |-> task[h].found]
  <2>1. task[h] \in TaskType /\ task \in [Handlers -> TaskType \cup {None}]
    BY <1>1, <1>2 DEF Typed
  <2>2. task[h] = [by |-> task[h].by, user |-> task[h].user, todo |-> task[h].todo,
                   ok |-> task[h].ok, found |-> task[h].found]
    BY <2>1 DEF TaskType
  <2>3. CASE task[h].todo = << >>
    <3>1. task' = [task EXCEPT ![h] = None]
      BY <1>2, <2>3
    <3> QED BY <2>1, <2>3, <3>1
  <2>4. CASE task[h].todo # << >>
    <3>1. task' = [task EXCEPT ![h].by = None]
      BY <1>2, <2>4
    <3>2. \A k \in Handlers \ {h} : task'[k] = task[k]
      BY <2>1, <3>1
    <3>3. task'[h] = [by |-> None, user |-> task[h].user, todo |-> task[h].todo,
                      ok |-> task[h].ok, found |-> task[h].found]
      BY <2>1, <2>2, <3>1
    <3> QED BY <2>4, <3>2, <3>3
  <2> QED BY <2>3, <2>4
<1>8. Fewer
  <2>1. SUFFICES ASSUME NEW k \in Handlers, task'[k] # None
                 PROVE  /\ task[k] # None
                        /\ task'[k].user = task[k].user /\ task'[k].todo = task[k].todo
                        /\ task'[k].ok = task[k].ok /\ task'[k].found = task[k].found
                        /\ task'[k].by # None => /\ task'[k].by = task[k].by
                                                 /\ task[k].by \in calling'
                                                 /\ Undisturbed(task[k].by)
    BY DEF Fewer
  <2>2. CASE k = h
    BY <1>2, <1>7, <2>1, <2>2
  <2>3. CASE k # h
    <3>1. task'[k] = task[k]
      BY <1>7, <2>3
    <3>2. task[k].by # None => task[k].by \in calling /\ task[k].by # p
      BY <1>1, <1>2, <2>1, <2>3, <3>1 DEF TasksInv
    <3>3. task[k].by # None => task[k].by \in calling' /\ Undisturbed(task[k].by)
      BY <1>5, <3>2 DEF ReturnsWell
    <3> QED BY <2>1, <3>1, <3>3
  <2> QED BY <2>2, <2>3
<1>9. Typed'
  <2>1. task' \in [Handlers -> TaskType \cup {None}]
    <3>1. task[h] \in TaskType /\ task \in [Handlers -> TaskType \cup {None}]
      BY <1>1, <1>2 DEF Typed
    <3>2. [by |-> None, user |-> task[h].user, todo |-> task[h].todo,
           ok |-> task[h].ok, found |-> task[h].found] \in TaskType
      BY <3>1 DEF TaskType
    <3>3. \A k \in Handlers : task'[k] \in TaskType \cup {None}
      BY <1>7, <3>1, <3>2
    <3>4. DOMAIN task' = Handlers /\ task' = [k \in Handlers |-> task'[k]]
      BY <1>2, <3>1
    <3> QED BY <3>3, <3>4
  <2>2. stored' \subseteq { c \in Conns : gateway'[c] \in Gateways }
    BY <1>1, <1>5 DEF ReturnsWell, Typed
  <2>3. calling' \subseteq Callers
    BY <1>1, <1>5 DEF ReturnsWell, Typed
  <2> QED BY <1>1, <1>5, <1>6, <2>1, <2>2, <2>3 DEF ReturnsWell, Typed
<1>10. TasksInv'
  BY <1>1, <1>8, FewerTasks
<1>11. NodesInv'
  BY <1>5 DEF ReturnsWell
<1>12. VisibleInv'
  <2>1. \A k \in Handlers : task[k] # None /\ task[k].todo # << >> => task'[k] # None
    <3>1. ASSUME NEW k \in Handlers, k = h, task[k].todo # << >> PROVE task'[k] # None
      <4>1. task'[h] = [by |-> None, user |-> task[h].user, todo |-> task[h].todo,
                        ok |-> task[h].ok, found |-> task[h].found]
        BY <1>7, <3>1
      <4>2. task[h] \in TaskType
        BY <1>1, <1>2 DEF Typed
      <4>3. task'[h] \in TaskType
        BY <4>1, <4>2 DEF TaskType
      <4> QED BY <3>1, <4>3, Names
    <3> QED BY <1>7, <3>1
  <2> QED BY <1>1, <1>6, <1>8, <2>1, FewerVisible
<1>13. UnlistedInv'
  <2>1. \A f \in unregistered' : \/ f \in unregistered
                                 \/ p = Main(f) /\ life[f] = "stopping" /\ life'[f] = "stopped"
    BY <1>5 DEF ReturnsWell
  <2>2. \A f \in unregistered' : f \in Gateways
    BY <1>5 DEF ReturnsWell
  <2>3. \A f \in unregistered' : life'[f] \in {"stopped", "down"}
    <3>1. \A f \in unregistered : life[f] \in {"stopped", "down"} /\ f \in Gateways
      BY <1>1 DEF UnlistedInv, Typed
    <3>2. \A f \in Gateways : life'[f] = life[f] \/ life[f] \in {"starting", "stopping"}
      BY <1>5 DEF ReturnsWell
    <3> QED BY <2>1, <3>1, <3>2
  <2>4. Unlisted'
    <3>1. SUFFICES ASSUME NEW f \in unregistered', f \notin ghost
                   PROVE  f \notin info /\ f \notin ranking /\ f \notin instances
      BY <1>6 DEF Unlisted
    <3>2. CASE f \in unregistered
      BY <1>1, <3>1, <3>2 DEF UnlistedInv, Unlisted
    <3>3. CASE p = Main(f) /\ life[f] = "stopping"
      <4>1. f \in Gateways /\ task[h].todo = << >>
        BY <1>3, <2>2, <3>3
      <4>2. Removed(h, f)
        BY <1>1, <1>2, <3>1, <3>3, <4>1 DEF UnlistedInv
      <4> QED BY <4>1, <4>2, ScriptNone DEF Removed
    <3> QED BY <2>1, <3>2, <3>3
  <2>5. ASSUME NEW k \in Handlers, NEW g \in Gateways \ ghost', task'[k] # None,
               task'[k].by = Main(g), life'[g] = "stopping", task'[k].ok
        PROVE  Removed(k, g)'
    BY <1>1, <1>6, <1>8, <2>5, FewerRemoved
  <2> QED BY <2>3, <2>4, <2>5 DEF UnlistedInv
<1>14. RoutedInv'
  <2>1. ASSUME NEW c \in stored, conn'[c] = "up", c \in reported'
        PROVE  Connected(c)
    <3>1. CASE conn[c] = "up" /\ c \in reported
      BY <3>1 DEF Connected
    <3>2. CASE conn[c] = "joining" /\ p = Client(c)
      <4>1. c \in Conns
        BY <1>1 DEF Typed
      <4>2. task[h].todo \in Notifying
        BY <1>3, <3>2, <4>1
      <4> QED BY <1>2, <3>2, <4>2 DEF Connected
    <3> QED BY <1>5, <2>1, <3>1, <3>2 DEF ReturnsWell
  <2> QED BY <1>1, <1>5, <1>6, <1>8, <2>1, FewerRouted DEF ReturnsWell
<1> QED BY <1>8, <1>9, <1>10, <1>11, <1>12, <1>13, <1>14 DEF Parts

LEMMA FewerParts ==
  ASSUME IInv, Typed', NodesInv', Fewer,
         info' \subseteq info, ranking' = ranking, instances' = instances, hidden' = hidden,
         ghost' = ghost, unregistered' = unregistered, route' = route, disputed' = disputed,
         latest' = latest, stored' \subseteq stored,
         \A c \in stored' : gateway'[c] = gateway[c],
         \A g \in unregistered : life'[g] \in {"stopped", "down"},
         \A c \in stored' : conn'[c] = "up" /\ c \in reported' => Connected(c),
         \A h \in Handlers : task[h] # None /\ task[h].todo # << >> => task'[h] # None
  PROVE  Parts'
<1>1. TypeOK /\ Typed /\ TasksInv /\ NodesInv /\ VisibleInv /\ UnlistedInv /\ RoutedInv
  BY TypeParts DEF IInv
<1>2. TasksInv'
  BY <1>1, FewerTasks
<1>3. VisibleInv'
  BY <1>1, FewerVisible
<1>4. UnlistedInv'
  BY <1>1, FewerUnlisted
<1>5. RoutedInv'
  BY <1>1, FewerRouted
<1> QED BY <1>2, <1>3, <1>4, <1>5 DEF Parts

\* The same, when no process and no connection changes what it does.
LEMMA IdleParts ==
  ASSUME IInv, Fewer, info' \subseteq info, ranking' = ranking, instances' = instances,
         hidden' = hidden, route' = route, nodeVars' = nodeVars, ghost' = ghost,
         unregistered' = unregistered, disputed' = disputed, latest' = latest,
         reported' = reported, calling' = calling,
         tries' \in [Callers -> 0 .. Attempts], task' \in [Handlers -> TaskType \cup {None}],
         left' \in [instances : Nat, clients : Nat, faults : Nat],
         \A h \in Handlers : task[h] # None /\ task[h].todo # << >> => task'[h] # None
  PROVE  Parts'
<1>1. TypeOK /\ Typed /\ TasksInv /\ NodesInv /\ VisibleInv /\ UnlistedInv /\ RoutedInv
  BY TypeParts DEF IInv
<1>2. life' = life /\ conn' = conn /\ gateway' = gateway /\ stored' = stored
  BY DEF nodeVars
<1>3. Typed'
  BY <1>1, <1>2 DEF Typed
<1>4. NodesInv'
  BY <1>1, <1>2 DEF NodesInv
<1>5. \A g \in unregistered : life'[g] \in {"stopped", "down"}
  BY <1>1, <1>2 DEF UnlistedInv
<1>6. \A c \in stored' : conn'[c] = "up" /\ c \in reported' => Connected(c)
  BY <1>2 DEF Connected
<1> QED BY <1>2, <1>3, <1>4, <1>5, <1>6, FewerParts

LEMMA NoAnswerParts ==
  ASSUME IInv, NEW h \in Handlers, NoAnswer(h)
  PROVE  Parts' /\ Fewer
<1>1. TypeOK /\ Typed /\ TasksInv
  BY TypeParts DEF IInv
<1>2. /\ task[h] # None /\ task' = [task EXCEPT ![h].by = None] /\ Fault
      /\ UNCHANGED <<redisVars, nodeVars, calling, tries, notes>>
  BY DEF NoAnswer
<1>3. /\ info' = info /\ ranking' = ranking /\ instances' = instances /\ route' = route
      /\ nodeVars' = nodeVars /\ calling' = calling /\ tries' = tries /\ latest' = latest
      /\ reported' = reported /\ unregistered' = unregistered /\ hidden' = hidden
      /\ ghost' = ghost /\ disputed' = disputed
  BY <1>2 DEF redisVars, notes
<1>4. left' \in [instances : Nat, clients : Nat, faults : Nat]
  BY <1>1, <1>2, SpendType DEF Fault
<1> DEFINE t == [by |-> None, user |-> task[h].user, todo |-> task[h].todo,
                 ok |-> task[h].ok, found |-> task[h].found]
<1>5. /\ t \in TaskType /\ task'[h] = t /\ \A k \in Handlers \ {h} : task'[k] = task[k]
      /\ task' \in [Handlers -> TaskType \cup {None}]
  <2>1. task[h] \in TaskType /\ task \in [Handlers -> TaskType \cup {None}]
    BY <1>1, <1>2 DEF Typed
  <2>2. task[h] = [by |-> task[h].by, user |-> task[h].user, todo |-> task[h].todo,
                   ok |-> task[h].ok, found |-> task[h].found]
    BY <2>1 DEF TaskType
  <2>3. t \in TaskType
    BY <2>1 DEF TaskType
  <2>4. \A k \in Handlers \ {h} : task'[k] = task[k]
    BY <1>2, <2>1
  <2>5. task'[h] = t
    BY <1>2, <2>1, <2>2
  <2>6. DOMAIN task' = Handlers /\ task' = [k \in Handlers |-> task'[k]]
    BY <1>2, <2>1
  <2>7. \A k \in Handlers : task'[k] \in TaskType \cup {None}
    <3> HIDE DEF t
    <3> QED BY <2>1, <2>3, <2>4, <2>5
  <2> QED BY <2>3, <2>4, <2>5, <2>6, <2>7
<1>6. /\ t.by = None /\ t.user = task[h].user /\ t.todo = task[h].todo /\ t.ok = task[h].ok
      /\ t.found = task[h].found
  OBVIOUS
<1> HIDE DEF t
<1>7. /\ task' \in [Handlers -> TaskType \cup {None}]
      /\ \A k \in Handlers : task'[k] = IF k = h THEN t ELSE task[k]
  BY <1>5
<1>8. t # None
  BY <1>5, Names
<1>9. Fewer
  <2>1. ASSUME NEW k \in Handlers, task'[k] # None, k # h
        PROVE  /\ task[k] # None /\ task'[k] = task[k]
               /\ task[k].by # None => task[k].by \in calling' /\ Undisturbed(task[k].by)
    <3>1. task[k] # None /\ task'[k] = task[k]
      BY <1>7, <2>1
    <3>2. life' = life /\ conn' = conn /\ gateway' = gateway
      BY <1>3 DEF nodeVars
    <3> QED BY <1>1, <1>3, <3>1, <3>2 DEF TasksInv, Undisturbed
  <2>2. task'[h] = t
    BY <1>7
  <2> QED BY <1>2, <1>6, <2>1, <2>2 DEF Fewer
<1>10. \A k \in Handlers : task[k] # None /\ task[k].todo # << >> => task'[k] # None
  BY <1>7, <1>8
<1>11. tries' \in [Callers -> 0 .. Attempts]
  BY <1>1, <1>3 DEF Typed
<1> QED BY <1>3, <1>4, <1>7, <1>9, <1>10, <1>11, IdleParts

LEMMA FinishParts ==
  ASSUME IInv, NEW h \in Handlers, Finish(h)
  PROVE  Parts' /\ Fewer
<1>1. TypeOK /\ Typed /\ TasksInv
  BY TypeParts DEF IInv
<1>2. /\ task[h] # None /\ task[h].todo = << >> /\ task' = [task EXCEPT ![h] = None]
      /\ UNCHANGED <<redisVars, nodeVars, calling, tries, left, notes>>
  BY DEF Finish
<1>3. /\ info' = info /\ ranking' = ranking /\ instances' = instances /\ route' = route
      /\ nodeVars' = nodeVars /\ calling' = calling /\ tries' = tries /\ left' = left
      /\ latest' = latest /\ reported' = reported /\ unregistered' = unregistered
      /\ hidden' = hidden /\ ghost' = ghost /\ disputed' = disputed
  BY <1>2 DEF redisVars, notes
<1>4. /\ task' \in [Handlers -> TaskType \cup {None}]
      /\ \A k \in Handlers : task'[k] = IF k = h THEN None ELSE task[k]
  BY <1>1, <1>2 DEF Typed
<1>5. Fewer
  <2>1. life' = life /\ conn' = conn /\ gateway' = gateway
    BY <1>3 DEF nodeVars
  <2> QED BY <1>1, <1>3, <1>4, <2>1 DEF Fewer, TasksInv, Undisturbed
<1>6. \A k \in Handlers : task[k] # None /\ task[k].todo # << >> => task'[k] # None
  BY <1>2, <1>4
<1>7. /\ tries' \in [Callers -> 0 .. Attempts]
      /\ left' \in [instances : Nat, clients : Nat, faults : Nat]
  BY <1>1, <1>3 DEF Typed
<1> QED BY <1>3, <1>4, <1>5, <1>6, <1>7, IdleParts

LEMMA AttemptLostParts ==
  ASSUME IInv, NEW p \in Callers, AttemptLost(p)
  PROVE  Parts' /\ Fewer
<1>1. TypeOK /\ Typed /\ TasksInv
  BY TypeParts DEF IInv
<1>2. /\ tries[p] > 0 /\ tries' = [tries EXCEPT ![p] = tries[p] - 1] /\ Fault
      /\ UNCHANGED <<redisVars, nodeVars, calling, task, notes>>
  BY <1>1 DEF AttemptLost, MayTry, Typed
<1>3. /\ info' = info /\ ranking' = ranking /\ instances' = instances /\ route' = route
      /\ nodeVars' = nodeVars /\ calling' = calling /\ task' = task /\ latest' = latest
      /\ reported' = reported /\ unregistered' = unregistered /\ hidden' = hidden
      /\ ghost' = ghost /\ disputed' = disputed
  BY <1>2 DEF redisVars, notes
<1>4. tries' \in [Callers -> 0 .. Attempts]
  <2>1. tries \in [Callers -> 0 .. Attempts] /\ tries[p] \in 0 .. Attempts
    BY <1>1 DEF Typed
  <2>2. tries[p] - 1 \in 0 .. Attempts
    BY <1>2, <2>1 DEF Attempts
  <2> QED BY <1>2, <2>1, <2>2
<1>5. Fewer
  <2>1. life' = life /\ conn' = conn /\ gateway' = gateway
    BY <1>3 DEF nodeVars
  <2> QED BY <1>1, <1>3, <2>1, SameFewer DEF Undisturbed
<1>6. /\ task' \in [Handlers -> TaskType \cup {None}]
      /\ left' \in [instances : Nat, clients : Nat, faults : Nat]
  BY <1>1, <1>2, <1>3, SpendType DEF Typed, Fault
<1> QED BY <1>3, <1>4, <1>5, <1>6, IdleParts

LEMMA ExpireParts ==
  ASSUME IInv, NEW i \in Instances, Expire(i)
  PROVE  Parts' /\ Fewer
<1>1. TypeOK /\ Typed /\ TasksInv
  BY TypeParts DEF IInv
<1>2. /\ info' = info \ {i} /\ (left' = left \/ Fault)
      /\ UNCHANGED <<ranking, instances, route, nodeVars, callVars, notes>>
  BY DEF Expire
<1>3. /\ info' \subseteq info /\ ranking' = ranking /\ instances' = instances /\ route' = route
      /\ nodeVars' = nodeVars /\ calling' = calling /\ task' = task /\ tries' = tries
      /\ latest' = latest
      /\ reported' = reported /\ unregistered' = unregistered /\ hidden' = hidden
      /\ ghost' = ghost /\ disputed' = disputed
  BY <1>2 DEF callVars, notes
<1>4. Fewer
  <2>1. life' = life /\ conn' = conn /\ gateway' = gateway
    BY <1>3 DEF nodeVars
  <2> QED BY <1>1, <1>3, <2>1, SameFewer DEF Undisturbed
<1>5. left' \in [instances : Nat, clients : Nat, faults : Nat]
  <2>1. CASE left' = left
    BY <1>1, <2>1 DEF Typed
  <2>2. CASE Fault
    BY <1>1, <2>2, SpendType DEF Fault
  <2> QED BY <1>2, <2>1, <2>2
<1>6. task' \in [Handlers -> TaskType \cup {None}] /\ tries' \in [Callers -> 0 .. Attempts]
  BY <1>1, <1>3 DEF Typed
<1> QED BY <1>3, <1>4, <1>5, <1>6, IdleParts

LEMMA StutterParts ==
  ASSUME IInv, UNCHANGED vars
  PROVE  Parts' /\ Fewer
<1>1. TypeOK /\ Typed /\ TasksInv
  BY TypeParts DEF IInv
<1>2. /\ info' = info /\ ranking' = ranking /\ instances' = instances /\ route' = route
      /\ nodeVars' = nodeVars /\ calling' = calling /\ task' = task /\ tries' = tries
      /\ left' = left /\ latest' = latest
      /\ reported' = reported /\ unregistered' = unregistered /\ hidden' = hidden
      /\ ghost' = ghost /\ disputed' = disputed
  BY DEF vars, redisVars, callVars, notes
<1>3. Fewer
  <2>1. life' = life /\ conn' = conn /\ gateway' = gateway
    BY <1>2 DEF nodeVars
  <2> QED BY <1>1, <1>2, <2>1, SameFewer DEF Undisturbed
<1>4. /\ task' \in [Handlers -> TaskType \cup {None}] /\ tries' \in [Callers -> 0 .. Attempts]
      /\ left' \in [instances : Nat, clients : Nat, faults : Nat]
  BY <1>1, <1>2 DEF Typed
<1> QED BY <1>2, <1>3, <1>4, IdleParts

LEMMA GiveUpParts ==
  ASSUME IInv, NEW p \in Callers, GiveUp(p)
  PROVE  Parts' /\ Fewer
<1>1. /\ TypeOK /\ Typed /\ TasksInv /\ NodesInv /\ VisibleInv /\ UnlistedInv /\ RoutedInv
  BY TypeParts DEF IInv
<1>2. p \in calling /\ ~Served(p) /\ Returns(p, FALSE, None) /\ task' = task
  BY DEF GiveUp
<1>3. ReturnsWell(p, FALSE)
  BY <1>1, <1>2, ReturnsAny
<1>4. /\ info' = info /\ ranking' = ranking /\ instances' = instances /\ route' = route
      /\ stored' = stored /\ left' = left /\ latest' = latest /\ hidden' = hidden
      /\ ghost' = ghost /\ disputed' = disputed
  BY <1>2 DEF Returns, redisVars
<1>5. Typed'
  <2>1. stored' \subseteq { c \in Conns : gateway'[c] \in Gateways }
    BY <1>1, <1>3 DEF ReturnsWell, Typed
  <2>2. calling' \subseteq Callers
    BY <1>1, <1>3 DEF ReturnsWell, Typed
  <2> QED BY <1>1, <1>2, <1>3, <1>4, <2>1, <2>2 DEF ReturnsWell, Typed
<1>6. NodesInv'
  BY <1>3 DEF ReturnsWell
<1>7. Fewer
  <2>1. ASSUME NEW k \in Handlers, task[k] # None, task[k].by # None
        PROVE  task[k].by \in calling' /\ Undisturbed(task[k].by)
    <3>1. task[k].by \in calling /\ task[k].by # p
      BY <1>1, <1>2, <2>1 DEF TasksInv, Served
    <3> QED BY <1>3, <3>1 DEF ReturnsWell
  <2> QED BY <1>2, <2>1 DEF Fewer
<1>8. unregistered' = unregistered
  BY <1>3 DEF ReturnsWell
<1>9. \A f \in unregistered : life'[f] \in {"stopped", "down"}
  <2>1. \A f \in unregistered : life[f] \in {"stopped", "down"} /\ f \in Gateways
    BY <1>1 DEF UnlistedInv, Typed
  <2>2. \A f \in Gateways : life'[f] = life[f] \/ life[f] \in {"starting", "stopping"}
    BY <1>3 DEF ReturnsWell
  <2> QED BY <2>1, <2>2
<1>10. /\ \A c \in stored' : gateway'[c] = gateway[c]
       /\ \A c \in stored' : conn'[c] = "up" /\ c \in reported' => Connected(c)
  BY <1>3 DEF ReturnsWell, Connected
<1> QED BY <1>2, <1>4, <1>5, <1>6, <1>7, <1>8, <1>9, <1>10, FewerParts

LEMMA ExpireRouteParts ==
  ASSUME IInv, NEW u \in Users, ExpireRoute(u)
  PROVE  Parts' /\ Fewer
<1>1. /\ TypeOK /\ Typed /\ TasksInv /\ NodesInv /\ VisibleInv /\ UnlistedInv /\ RoutedInv
  BY TypeParts DEF IInv
<1>2. /\ info' = info /\ ranking' = ranking /\ instances' = instances
      /\ route' = [route EXCEPT ![u] = None] /\ disputed' = disputed \cup {u}
      /\ life' = life /\ conn' = conn /\ gateway' = gateway /\ stored' = stored
      /\ calling' = calling /\ tries' = tries /\ task' = task /\ left' = left
      /\ latest' = latest /\ reported' = reported /\ unregistered' = unregistered
      /\ hidden' = hidden /\ ghost' = ghost
  BY DEF ExpireRoute, nodeVars, callVars
<1>3. Fewer
  BY <1>1, <1>2, SameFewer DEF Undisturbed
<1>4. Typed'
  BY <1>1, <1>2 DEF Typed
<1>5. TasksInv'
  BY <1>1, <1>3, FewerTasks
<1>6. NodesInv'
  BY <1>1, <1>2 DEF NodesInv
<1>7. VisibleInv'
  BY <1>1, <1>2, <1>3, FewerVisible
<1>8. UnlistedInv'
  <2>1. \A g \in unregistered : life'[g] \in {"stopped", "down"}
    BY <1>1, <1>2 DEF UnlistedInv
  <2> QED BY <1>1, <1>2, <1>3, <2>1, FewerUnlisted
<1>9. RoutedInv'
  <2>1. ASSUME NEW c \in stored', latest'[UserOf[c]] = c, UserOf[c] \notin disputed',
               Connected(c)'
        PROVE  route'[UserOf[c]] = [gateway |-> gateway'[c], status |-> "connected"]
    <3>1. Connected(c)
      BY <1>2, <2>1 DEF Connected
    <3>2. UserOf[c] # u /\ UserOf[c] \in Users /\ UserOf[c] \notin disputed
      BY <1>1, <1>2, <2>1, Names DEF Typed
    <3>3. route'[UserOf[c]] = route[UserOf[c]]
      BY <1>1, <1>2, <3>2 DEF Typed
    <3> QED BY <1>1, <1>2, <2>1, <3>1, <3>2, <3>3 DEF RoutedInv
  <2> QED BY <2>1 DEF RoutedInv
<1> QED BY <1>3, <1>4, <1>5, <1>6, <1>7, <1>8, <1>9 DEF Parts

LEMMA RegistryCrashParts ==
  ASSUME IInv, RegistryCrash
  PROVE  Parts' /\ Fewer
<1>1. /\ TypeOK /\ Typed /\ TasksInv /\ NodesInv /\ VisibleInv /\ UnlistedInv /\ RoutedInv
  BY TypeParts DEF IInv
<1>2. /\ info' = info /\ ranking' = ranking /\ instances' = instances /\ route' = route
      /\ life' = life /\ conn' = conn /\ gateway' = gateway /\ stored' = stored
      /\ calling' = calling /\ tries' = tries /\ task' = [h \in Handlers |-> None]
      /\ latest' = latest /\ reported' = reported /\ unregistered' = unregistered
      /\ ghost' = ghost /\ disputed' = disputed /\ Fault
      /\ hidden' = hidden \cup { i \in info : ~Listed(i) /\ \E h \in Handlers :
                                   task[h] # None /\ ToList(h, i) }
  BY DEF RegistryCrash, redisVars, nodeVars
<1>3. Fewer
  BY <1>2 DEF Fewer
<1>4. Typed'
  <2>1. left' \in [instances : Nat, clients : Nat, faults : Nat]
    BY <1>1, <1>2, SpendType DEF Fault
  <2>2. hidden' \subseteq Instances /\ task' \in [Handlers -> TaskType \cup {None}]
    BY <1>1, <1>2 DEF Typed
  <2> QED BY <1>1, <1>2, <2>1, <2>2 DEF Typed
<1>5. TasksInv'
  BY <1>1, <1>3, FewerTasks
<1>6. NodesInv'
  BY <1>1, <1>2 DEF NodesInv
<1>7. VisibleInv'
  <2>1. \A h \in Handlers : \A i \in info : WillList(h, i) => i \in hidden' \/ Listed(i)
    BY <1>2 DEF WillList
  <2> QED BY <1>1, <1>2, <2>1, VisibleKept
<1>8. UnlistedInv'
  <2>1. \A g \in unregistered : life'[g] \in {"stopped", "down"}
    BY <1>1, <1>2 DEF UnlistedInv
  <2> QED BY <1>1, <1>2, <1>3, <2>1, FewerUnlisted
<1>9. RoutedInv'
  <2>1. \A c \in stored' : conn'[c] = "up" /\ c \in reported' => Connected(c)
    BY <1>2 DEF Connected
  <2> QED BY <1>1, <1>2, <1>3, <2>1, FewerRouted
<1> QED BY <1>3, <1>4, <1>5, <1>6, <1>7, <1>8, <1>9 DEF Parts
--------------------------------------------------------------------------------
(* Instances, clients and their connections *)

LEMMA CallType ==
  ASSUME Typed, NEW p \in Callers, NEW n \in 0 .. Attempts, Call(p, n)
  PROVE  /\ left' \in [instances : Nat, clients : Nat, faults : Nat]
         /\ calling' = calling \cup {p} /\ calling' \subseteq Callers
         /\ tries' \in [Callers -> 0 .. Attempts]
<1>1. Spend("clients") \/ Spend("instances")
  BY DEF Call
<1>2. left' \in [instances : Nat, clients : Nat, faults : Nat]
  BY <1>1, SpendType
<1> QED BY <1>2 DEF Call, Typed

\* Handlers go on for callers that go on.
LEMMA SameCallers ==
  ASSUME TasksInv, task' = task, calling \subseteq calling',
         \A i \in Instances : Main(i) \in calling => life'[i] = life[i],
         \A c \in Conns : Client(c) \in calling => conn'[c] = conn[c] /\ gateway'[c] = gateway[c]
  PROVE  Fewer
<1>1. ASSUME NEW k \in Handlers, task[k] # None, task[k].by # None
      PROVE  Undisturbed(task[k].by)
  <2>1. task[k].by \in calling
    BY <1>1 DEF TasksInv
  <2> QED BY <2>1 DEF Undisturbed
<1> QED BY <1>1, SameFewer

LEMMA StartParts ==
  ASSUME IInv, NEW i \in Instances, Start(i)
  PROVE  Parts' /\ Fewer
<1>1. /\ TypeOK /\ Typed /\ TasksInv /\ NodesInv /\ VisibleInv /\ UnlistedInv /\ RoutedInv
  BY TypeParts DEF IInv
<1>2. /\ life[i] = "down" /\ life' = [life EXCEPT ![i] = "starting"] /\ Call(Main(i), Attempts)
      /\ unregistered' = unregistered \ {i} /\ ghost' = ghost \ {i}
      /\ info' = info /\ ranking' = ranking /\ instances' = instances /\ route' = route
      /\ conn' = conn /\ gateway' = gateway /\ stored' = stored /\ task' = task
      /\ latest' = latest /\ reported' = reported /\ hidden' = hidden /\ disputed' = disputed
  BY DEF Start, redisVars
<1>3. \A j \in Instances : life'[j] = IF j = i THEN "starting" ELSE life[j]
  BY <1>1, <1>2 DEF Typed
<1>4. /\ left' \in [instances : Nat, clients : Nat, faults : Nat]
      /\ calling' = calling \cup {Main(i)} /\ calling' \subseteq Callers
      /\ tries' \in [Callers -> 0 .. Attempts]
  <2>1. Main(i) \in Callers /\ Attempts \in 0 .. Attempts
    BY CallerNames DEF Attempts
  <2> QED BY <1>1, <1>2, <2>1, CallType
<1>5. Typed'
  BY <1>1, <1>2, <1>4 DEF Typed
<1>6. Fewer
  <2>1. \A j \in Instances : Main(j) \in calling => life'[j] = life[j]
    BY <1>1, <1>2, <1>3 DEF NodesInv
  <2> QED BY <1>1, <1>2, <1>4, <2>1, SameCallers
<1>7. TasksInv'
  BY <1>1, <1>6, FewerTasks
<1>8. NodesInv'
  <2>1. \A j \in Instances : Main(j) \in calling' <=> life'[j] \in {"starting", "stopping"}
    BY <1>1, <1>3, <1>4, CallerNames DEF NodesInv
  <2>2. \A c \in Conns : Client(c) \in calling' <=> Client(c) \in calling
    BY <1>4, CallerNames
  <2> QED BY <1>1, <1>2, <1>3, <2>1, <2>2 DEF NodesInv
<1>9. VisibleInv'
  BY <1>1, <1>2, <1>6, FewerVisible
<1>10. UnlistedInv'
  <2>1. \A g \in unregistered' : life'[g] \in {"stopped", "down"}
    <3>1. \A g \in unregistered' : g \in Instances /\ g # i /\ g \in unregistered
      BY <1>1, <1>2, Names DEF Typed
    <3> QED BY <1>1, <1>3, <3>1 DEF UnlistedInv
  <2>2. Unlisted'
    BY <1>1, <1>2 DEF UnlistedInv, Unlisted
  <2>3. ASSUME NEW k \in Handlers, NEW g \in Gateways \ ghost', task'[k] # None,
               task'[k].by = Main(g), life'[g] = "stopping", task'[k].ok
        PROVE  Removed(k, g)'
    <3>1. g \notin ghost
      BY <1>2, <1>3, <2>3, Names
    <3> QED BY <1>1, <1>2, <1>6, <2>3, <3>1, FewerRemoved
  <2> QED BY <2>1, <2>2, <2>3 DEF UnlistedInv
<1>11. RoutedInv'
  <2>1. \A c \in stored' : conn'[c] = "up" /\ c \in reported' => Connected(c)
    BY <1>2 DEF Connected
  <2> QED BY <1>1, <1>2, <1>6, <2>1, FewerRouted
<1> QED BY <1>5, <1>6, <1>7, <1>8, <1>9, <1>10, <1>11 DEF Parts

LEMMA SendHeartbeatParts ==
  ASSUME IInv, NEW i \in Instances, SendHeartbeat(i)
  PROVE  Parts' /\ Fewer
<1>1. /\ TypeOK /\ Typed /\ TasksInv /\ NodesInv /\ VisibleInv /\ UnlistedInv /\ RoutedInv
  BY TypeParts DEF IInv
<1>2. /\ Call(Beat(i), Attempts)
      /\ info' = info /\ ranking' = ranking /\ instances' = instances /\ route' = route
      /\ life' = life /\ conn' = conn /\ gateway' = gateway /\ stored' = stored /\ task' = task
      /\ latest' = latest /\ reported' = reported /\ unregistered' = unregistered
      /\ hidden' = hidden /\ ghost' = ghost /\ disputed' = disputed
  BY DEF SendHeartbeat, redisVars, nodeVars, notes
<1>3. /\ left' \in [instances : Nat, clients : Nat, faults : Nat]
      /\ calling' = calling \cup {Beat(i)} /\ calling' \subseteq Callers
      /\ tries' \in [Callers -> 0 .. Attempts]
  <2>1. Beat(i) \in Callers /\ Attempts \in 0 .. Attempts
    BY CallerNames DEF Attempts
  <2> QED BY <1>1, <1>2, <2>1, CallType
<1>4. Typed'
  BY <1>1, <1>2, <1>3 DEF Typed
<1>5. Fewer
  BY <1>1, <1>2, <1>3, SameCallers
<1>6. NodesInv'
  <2>1. \A j \in Instances : Main(j) \in calling' <=> Main(j) \in calling
    BY <1>3, CallerNames
  <2>2. \A c \in Conns : Client(c) \in calling' <=> Client(c) \in calling
    BY <1>3, CallerNames
  <2> QED BY <1>1, <1>2, <2>1, <2>2 DEF NodesInv
<1>7. \A g \in unregistered : life'[g] \in {"stopped", "down"}
  BY <1>1, <1>2 DEF UnlistedInv
<1>8. \A c \in stored' : conn'[c] = "up" /\ c \in reported' => Connected(c)
  BY <1>2 DEF Connected
<1> QED BY <1>2, <1>4, <1>5, <1>6, <1>7, <1>8, FewerParts

LEMMA StopParts ==
  ASSUME IInv, NEW f \in Gateways, Stop(f)
  PROVE  Parts' /\ Fewer
<1>1. /\ TypeOK /\ Typed /\ TasksInv /\ NodesInv /\ VisibleInv /\ UnlistedInv /\ RoutedInv
      /\ f \in Instances
  BY TypeParts, Names DEF IInv
<1>2. /\ life[f] = "up" /\ life' = [life EXCEPT ![f] = "stopping"] /\ Call(Main(f), Attempts)
      /\ info' = info /\ ranking' = ranking /\ instances' = instances /\ route' = route
      /\ conn' = conn /\ gateway' = gateway /\ stored' = stored /\ task' = task
      /\ latest' = latest /\ reported' = reported /\ unregistered' = unregistered
      /\ hidden' = hidden /\ ghost' = ghost /\ disputed' = disputed
  BY DEF Stop, redisVars, notes
<1>3. \A j \in Instances : life'[j] = IF j = f THEN "stopping" ELSE life[j]
  BY <1>1, <1>2 DEF Typed
<1>4. /\ left' \in [instances : Nat, clients : Nat, faults : Nat]
      /\ calling' = calling \cup {Main(f)} /\ calling' \subseteq Callers
      /\ tries' \in [Callers -> 0 .. Attempts]
  <2>1. Main(f) \in Callers /\ Attempts \in 0 .. Attempts
    BY <1>1, CallerNames DEF Attempts
  <2> QED BY <1>1, <1>2, <2>1, CallType
<1>5. Typed'
  BY <1>1, <1>2, <1>4 DEF Typed
<1>6. Fewer
  <2>1. \A j \in Instances : Main(j) \in calling => life'[j] = life[j]
    BY <1>1, <1>2, <1>3 DEF NodesInv
  <2> QED BY <1>1, <1>2, <1>4, <2>1, SameCallers
<1>7. NodesInv'
  <2>1. \A j \in Instances : Main(j) \in calling' <=> life'[j] \in {"starting", "stopping"}
    BY <1>1, <1>3, <1>4, CallerNames DEF NodesInv
  <2>2. \A c \in Conns : Client(c) \in calling' <=> Client(c) \in calling
    BY <1>4, CallerNames
  <2> QED BY <1>1, <1>2, <1>3, <2>1, <2>2 DEF NodesInv
<1>8. \A g \in unregistered : life'[g] \in {"stopped", "down"}
  BY <1>1, <1>2, <1>3, Names DEF UnlistedInv, Typed
<1>9. \A c \in stored' : conn'[c] = "up" /\ c \in reported' => Connected(c)
  BY <1>2 DEF Connected
<1> QED BY <1>2, <1>5, <1>6, <1>7, <1>8, <1>9, FewerParts

LEMMA AskParts ==
  ASSUME IInv, NEW c \in Conns, Ask(c)
  PROVE  Parts' /\ Fewer
<1>1. /\ TypeOK /\ Typed /\ TasksInv /\ NodesInv /\ VisibleInv /\ UnlistedInv /\ RoutedInv
  BY TypeParts DEF IInv
<1>2. /\ conn[c] = "out" /\ conn' = [conn EXCEPT ![c] = "asking"] /\ Call(Client(c), 1)
      /\ info' = info /\ ranking' = ranking /\ instances' = instances /\ route' = route
      /\ life' = life /\ gateway' = gateway /\ stored' = stored /\ task' = task
      /\ latest' = latest /\ reported' = reported /\ unregistered' = unregistered
      /\ hidden' = hidden /\ ghost' = ghost /\ disputed' = disputed
  BY DEF Ask, redisVars, notes
<1>3. /\ \A d \in Conns : conn'[d] = IF d = c THEN "asking" ELSE conn[d]
      /\ c \notin stored
  BY <1>1, <1>2 DEF Typed, NodesInv
<1>4. /\ left' \in [instances : Nat, clients : Nat, faults : Nat]
      /\ calling' = calling \cup {Client(c)} /\ calling' \subseteq Callers
      /\ tries' \in [Callers -> 0 .. Attempts]
  <2>1. Client(c) \in Callers /\ 1 \in 0 .. Attempts
    BY CallerNames DEF Attempts
  <2> QED BY <1>1, <1>2, <2>1, CallType
<1>5. Typed'
  BY <1>1, <1>2, <1>4 DEF Typed
<1>6. Fewer
  <2>1. \A d \in Conns : Client(d) \in calling => conn'[d] = conn[d]
    BY <1>1, <1>2, <1>3 DEF NodesInv
  <2> QED BY <1>1, <1>2, <1>4, <2>1, SameCallers
<1>7. NodesInv'
  <2>1. \A j \in Instances : Main(j) \in calling' <=> Main(j) \in calling
    BY <1>4, CallerNames
  <2>2. \A d \in Conns : Client(d) \in calling' <=> conn'[d] \in {"asking", "joining", "leaving"}
    BY <1>1, <1>3, <1>4, CallerNames DEF NodesInv
  <2>3. \A d \in stored' : conn'[d] \in {"joining", "up"}
    BY <1>1, <1>2, <1>3 DEF NodesInv, Typed
  <2>4. \A d \in reported' : conn'[d] # "joining"
    BY <1>1, <1>2, <1>3 DEF NodesInv, Typed
  <2> QED BY <1>1, <1>2, <1>3, <2>1, <2>2, <2>3, <2>4 DEF NodesInv
<1>8. \A g \in unregistered : life'[g] \in {"stopped", "down"}
  BY <1>1, <1>2 DEF UnlistedInv
<1>9. \A d \in stored' : conn'[d] = "up" /\ d \in reported' => Connected(d)
  BY <1>1, <1>2, <1>3 DEF Connected, Typed
<1> QED BY <1>2, <1>5, <1>6, <1>7, <1>8, <1>9, FewerParts

LEMMA JoinParts ==
  ASSUME IInv, NEW c \in Conns, Join(c)
  PROVE  Parts' /\ Fewer
<1>1. /\ TypeOK /\ Typed /\ TasksInv /\ NodesInv /\ VisibleInv /\ UnlistedInv /\ RoutedInv
  BY TypeParts DEF IInv
<1>2. /\ conn[c] = "told" /\ conn' = [conn EXCEPT ![c] = "joining"] /\ Call(Client(c), Attempts)
      /\ stored' = (stored \ Same(c)) \cup {c} /\ reported' = reported \ {c}
      /\ latest' = [latest EXCEPT ![UserOf[c]] = c]
      /\ info' = info /\ ranking' = ranking /\ instances' = instances /\ route' = route
      /\ life' = life /\ gateway' = gateway /\ task' = task /\ unregistered' = unregistered
      /\ hidden' = hidden /\ ghost' = ghost /\ disputed' = disputed
  BY DEF Join, redisVars
<1>3. /\ \A d \in Conns : conn'[d] = IF d = c THEN "joining" ELSE conn[d]
      /\ gateway[c] \in Gateways /\ Client(c) \notin calling /\ Client(c) # None
  BY <1>1, <1>2, CallerNames, Names DEF Typed, NodesInv
<1>4. /\ left' \in [instances : Nat, clients : Nat, faults : Nat]
      /\ calling' = calling \cup {Client(c)} /\ calling' \subseteq Callers
      /\ tries' \in [Callers -> 0 .. Attempts]
  <2>1. Client(c) \in Callers /\ Attempts \in 0 .. Attempts
    BY CallerNames DEF Attempts
  <2> QED BY <1>1, <1>2, <2>1, CallType
<1>5. Typed'
  <2>1. UserOf[c] \in Users /\ latest' \in [Users -> Conns \cup {None}]
    BY <1>1, <1>2, Names DEF Typed
  <2>2. stored' \subseteq { d \in Conns : gateway'[d] \in Gateways }
    BY <1>1, <1>2, <1>3 DEF Typed
  <2> QED BY <1>1, <1>2, <1>4, <2>1, <2>2 DEF Typed
<1>6. Fewer
  <2>1. \A d \in Conns : Client(d) \in calling => conn'[d] = conn[d]
    BY <1>3
  <2> QED BY <1>1, <1>2, <1>4, <2>1, SameCallers
<1>7. TasksInv'
  BY <1>1, <1>6, FewerTasks
<1>8. NodesInv'
  <2>1. \A j \in Instances : Main(j) \in calling' <=> Main(j) \in calling
    BY <1>4, CallerNames
  <2>2. \A d \in Conns : Client(d) \in calling' <=> conn'[d] \in {"asking", "joining", "leaving"}
    BY <1>1, <1>3, <1>4, CallerNames DEF NodesInv
  <2>3. \A d \in stored' : conn'[d] \in {"joining", "up"}
    BY <1>1, <1>2, <1>3 DEF NodesInv, Typed
  <2>4. \A d \in reported' : conn'[d] # "joining"
    BY <1>1, <1>2, <1>3 DEF NodesInv, Typed
  <2>5. \A d \in Conns : conn'[d] \notin {"out", "asking"} => gateway'[d] \in Gateways
    BY <1>1, <1>2, <1>3 DEF NodesInv
  <2> QED BY <1>1, <1>2, <2>1, <2>2, <2>3, <2>4, <2>5 DEF NodesInv
<1>9. VisibleInv'
  BY <1>1, <1>2, <1>6, FewerVisible
<1>10. UnlistedInv'
  <2>1. \A g \in unregistered : life'[g] \in {"stopped", "down"}
    BY <1>1, <1>2 DEF UnlistedInv
  <2> QED BY <1>1, <1>2, <1>6, <2>1, FewerUnlisted
<1>11. RoutedInv'
  <2>1. SUFFICES ASSUME NEW d \in stored', latest'[UserOf[d]] = d, UserOf[d] \notin disputed,
                        Connected(d)'
                 PROVE  route[UserOf[d]] = [gateway |-> gateway[d], status |-> "connected"]
    BY <1>2 DEF RoutedInv
  <2>2. d \in Conns /\ UserOf[d] \in Users /\ UserOf[c] \in Users
    BY <1>1, <1>2, Names DEF Typed
  <2>3. d # c
    <3>1. SUFFICES ASSUME d = c PROVE FALSE
      OBVIOUS
    <3>2. conn'[c] = "joining"
      BY <1>3
    <3>3. PICK h \in Handlers : task[h] # None /\ task[h].by = Client(c)
      BY <1>2, <2>1, <3>1, <3>2 DEF Connected
    <3> QED BY <1>1, <1>3, <3>3 DEF TasksInv
  <2>4. latest[UserOf[d]] = d
    BY <1>1, <1>2, <2>1, <2>2, <2>3 DEF Typed
  <2>5. d \in stored /\ conn'[d] = conn[d]
    BY <1>2, <1>3, <2>2, <2>3
  <2>6. Connected(d)
    BY <1>2, <2>1, <2>5 DEF Connected
  <2> QED BY <1>1, <2>1, <2>4, <2>5, <2>6 DEF RoutedInv
<1> QED BY <1>5, <1>6, <1>7, <1>8, <1>9, <1>10, <1>11 DEF Parts

LEMMA LeaveParts ==
  ASSUME IInv, NEW c \in Conns, Leave(c)
  PROVE  Parts' /\ Fewer
<1>1. /\ TypeOK /\ Typed /\ TasksInv /\ NodesInv /\ VisibleInv /\ UnlistedInv /\ RoutedInv
  BY TypeParts DEF IInv
<1> DEFINE next == IF Same(c) # {} THEN "leaving" ELSE "out"
<1>2. /\ conn[c] = "up" /\ conn' = [conn EXCEPT ![c] = next]
      /\ IF Same(c) # {} THEN Call(Client(c), Attempts) ELSE UNCHANGED <<left, calling, tries>>
      /\ stored' = stored \ Same(c)
      /\ info' = info /\ ranking' = ranking /\ instances' = instances /\ route' = route
      /\ life' = life /\ gateway' = gateway /\ task' = task /\ latest' = latest
      /\ reported' = reported /\ unregistered' = unregistered
      /\ hidden' = hidden /\ ghost' = ghost /\ disputed' = disputed
  BY DEF Leave, redisVars, notes
<1>3. /\ \A d \in Conns : conn'[d] = IF d = c THEN next ELSE conn[d]
      /\ next \in {"leaving", "out"} /\ c \notin stored'
  BY <1>1, <1>2 DEF Typed, Same
<1>4. /\ left' \in [instances : Nat, clients : Nat, faults : Nat]
      /\ calling' = calling \cup (IF next = "leaving" THEN {Client(c)} ELSE {})
      /\ calling' \subseteq Callers /\ tries' \in [Callers -> 0 .. Attempts]
  <2>1. CASE Same(c) # {}
    <3>1. Client(c) \in Callers /\ Attempts \in 0 .. Attempts
      BY CallerNames DEF Attempts
    <3> QED BY <1>1, <1>2, <2>1, <3>1, CallType
  <2>2. CASE Same(c) = {}
    BY <1>1, <1>2, <2>2 DEF Typed
  <2> QED BY <2>1, <2>2
<1>5. Client(c) \notin calling
  BY <1>1, <1>2 DEF NodesInv
<1> HIDE DEF next
<1>6. Typed'
  BY <1>1, <1>2, <1>3, <1>4 DEF Typed
<1>7. Fewer
  <2>1. \A d \in Conns : Client(d) \in calling => conn'[d] = conn[d]
    BY <1>3, <1>5
  <2> QED BY <1>1, <1>2, <1>4, <2>1, SameCallers
<1>8. NodesInv'
  <2>1. \A j \in Instances : Main(j) \in calling' <=> Main(j) \in calling
    BY <1>4, CallerNames
  <2>2. \A d \in Conns : Client(d) \in calling' <=> conn'[d] \in {"asking", "joining", "leaving"}
    BY <1>1, <1>3, <1>4, <1>5, CallerNames DEF NodesInv
  <2>3. \A d \in stored' : conn'[d] \in {"joining", "up"}
    BY <1>1, <1>2, <1>3 DEF NodesInv, Typed
  <2>4. \A d \in reported' : conn'[d] # "joining"
    BY <1>1, <1>2, <1>3 DEF NodesInv, Typed
  <2>5. \A d \in Conns : conn'[d] \notin {"out", "asking"} => gateway'[d] \in Gateways
    BY <1>1, <1>2, <1>3 DEF NodesInv
  <2> QED BY <1>1, <1>2, <2>1, <2>2, <2>3, <2>4, <2>5 DEF NodesInv
<1>9. \A g \in unregistered : life'[g] \in {"stopped", "down"}
  BY <1>1, <1>2 DEF UnlistedInv
<1>10. \A d \in stored' : conn'[d] = "up" /\ d \in reported' => Connected(d)
  BY <1>1, <1>2, <1>3 DEF Connected, Typed
<1> QED BY <1>2, <1>6, <1>7, <1>8, <1>9, <1>10, FewerParts

LEMMA DieParts ==
  ASSUME IInv, NEW i \in Instances, Die(i)
  PROVE  Parts' /\ Fewer
<1> DEFINE on == { c \in Conns : gateway[c] = i /\ conn[c] \in {"joining", "up", "leaving"} }
           gone == {Main(i), Beat(i)} \cup { Client(c) : c \in on }
<1>1. /\ TypeOK /\ Typed /\ TasksInv /\ NodesInv /\ VisibleInv /\ UnlistedInv /\ RoutedInv
  BY TypeParts DEF IInv
<1>2. /\ life' = [life EXCEPT ![i] = "down"]
      /\ conn' = [c \in Conns |-> IF c \in on THEN "out" ELSE conn[c]]
      /\ stored' = stored \ on /\ calling' = calling \ gone
      /\ tries' = [p \in Callers |-> IF p \in gone THEN 0 ELSE tries[p]]
      /\ task' = [h \in Handlers |-> IF task[h] = None \/ task[h].by \notin gone THEN task[h]
                                     ELSE [task[h] EXCEPT !.by = None]]
      /\ left' = left \/ Fault
      /\ info' = info /\ ranking' = ranking /\ instances' = instances /\ route' = route
      /\ gateway' = gateway /\ latest' = latest
      /\ reported' = reported /\ unregistered' = unregistered
      /\ hidden' = hidden /\ ghost' = ghost /\ disputed' = disputed
  BY DEF Die, redisVars, notes
<1>3. /\ \A j \in Instances : Main(j) \in gone <=> j = i
      /\ \A c \in Conns : Client(c) \in gone <=> c \in on
  BY CallerNames
<1>4. /\ on \subseteq Conns
      /\ \A j \in Instances : life'[j] = IF j = i THEN "down" ELSE life[j]
  BY <1>1, <1>2 DEF Typed
<1> HIDE DEF on, gone
<1>5. \A h \in Handlers : task'[h] # None =>
        /\ task[h] # None /\ task'[h].user = task[h].user /\ task'[h].todo = task[h].todo
        /\ task'[h].ok = task[h].ok /\ task'[h].found = task[h].found
        /\ task'[h].by = IF task[h].by \in gone THEN None ELSE task[h].by
  <2>1. SUFFICES ASSUME NEW h \in Handlers, task'[h] # None
                 PROVE  /\ task[h] # None
                        /\ task'[h].user = task[h].user /\ task'[h].todo = task[h].todo
                        /\ task'[h].ok = task[h].ok /\ task'[h].found = task[h].found
                        /\ task'[h].by = IF task[h].by \in gone THEN None ELSE task[h].by
    OBVIOUS
  <2>2. task'[h] = IF task[h] = None \/ task[h].by \notin gone THEN task[h]
                   ELSE [task[h] EXCEPT !.by = None]
    BY <1>2
  <2>3. CASE task[h] = None \/ task[h].by \notin gone
    BY <2>1, <2>2, <2>3
  <2>4. CASE task[h] # None /\ task[h].by \in gone
    <3>1. task[h] \in TaskType
      BY <1>1, <2>4 DEF Typed
    <3>2. task'[h] = [task[h] EXCEPT !.by = None]
      BY <2>2, <2>4
    <3> QED BY <2>4, <3>1, <3>2 DEF TaskType
  <2> QED BY <2>3, <2>4
<1>6. \A h \in Handlers : /\ task'[h] \in TaskType \cup {None}
                          /\ task[h] # None => task'[h] # None
  <2>1. SUFFICES ASSUME NEW h \in Handlers, task[h] # None, task[h].by \in gone
                 PROVE  task'[h] \in TaskType
    BY <1>1, <1>2, Names DEF Typed
  <2>2. task[h] \in TaskType
    BY <1>1, <2>1 DEF Typed
  <2>3. task'[h] = [task[h] EXCEPT !.by = None]
    BY <1>2, <2>1
  <2> QED BY <2>2, <2>3 DEF TaskType
<1>7. Typed'
  <2>1. left' \in [instances : Nat, clients : Nat, faults : Nat]
    <3>1. CASE left' = left
      BY <1>1, <3>1 DEF Typed
    <3>2. CASE Fault
      BY <1>1, <3>2, SpendType DEF Fault
    <3> QED BY <1>2, <3>1, <3>2
  <2>2. task' \in [Handlers -> TaskType \cup {None}]
    BY <1>2, <1>6
  <2>3. tries' \in [Callers -> 0 .. Attempts]
    BY <1>1, <1>2 DEF Typed, Attempts
  <2>4. life' \in [Instances -> {"down", "starting", "up", "stopping", "stopped"}]
    BY <1>1, <1>2 DEF Typed
  <2>5. conn' \in [Conns -> {"out", "asking", "told", "joining", "up", "leaving"}]
    BY <1>1, <1>2 DEF Typed
  <2> QED BY <1>1, <1>2, <2>1, <2>2, <2>3, <2>4, <2>5 DEF Typed
<1>8. Fewer
  <2>1. ASSUME NEW h \in Handlers, task[h] # None, task[h].by # None, task[h].by \notin gone
        PROVE  task[h].by \in calling' /\ Undisturbed(task[h].by)
    <3>1. task[h].by \in calling'
      BY <1>1, <1>2, <2>1 DEF TasksInv
    <3>2. \A j \in Instances : task[h].by = Main(j) => life'[j] = life[j]
      BY <1>3, <1>4, <2>1
    <3>3. \A c \in Conns : task[h].by = Client(c) => conn'[c] = conn[c] /\ gateway'[c] = gateway[c]
      BY <1>2, <1>3, <2>1
    <3> QED BY <3>1, <3>2, <3>3 DEF Undisturbed
  <2> QED BY <1>5, <2>1 DEF Fewer
<1>9. NodesInv'
  <2>1. \A j \in Instances : Main(j) \in calling' <=> life'[j] \in {"starting", "stopping"}
    BY <1>1, <1>2, <1>3, <1>4 DEF NodesInv
  <2>2. \A c \in Conns : Client(c) \in calling' <=> conn'[c] \in {"asking", "joining", "leaving"}
    BY <1>1, <1>2, <1>3 DEF NodesInv
  <2>3. \A c \in stored' : conn'[c] \in {"joining", "up"}
    BY <1>1, <1>2 DEF NodesInv, Typed
  <2>4. \A c \in reported' : conn'[c] # "joining"
    BY <1>1, <1>2 DEF NodesInv, Typed
  <2>5. \A c \in Conns : conn'[c] \notin {"out", "asking"} => gateway'[c] \in Gateways
    BY <1>1, <1>2 DEF NodesInv
  <2>6. \A j \in Instances : life'[j] \in {"stopping", "stopped"} => j \in Gateways
    BY <1>1, <1>4 DEF NodesInv
  <2> QED BY <2>1, <2>2, <2>3, <2>4, <2>5, <2>6 DEF NodesInv
<1>10. \A g \in unregistered : life'[g] \in {"stopped", "down"}
  BY <1>1, <1>4, Names DEF UnlistedInv, Typed
<1>11. \A c \in stored' : conn'[c] = "up" /\ c \in reported' => Connected(c)
  BY <1>1, <1>2 DEF Connected, Typed
<1> QED BY <1>2, <1>6, <1>7, <1>8, <1>9, <1>10, <1>11, FewerParts
--------------------------------------------------------------------------------
(* Routes that are live all the while *)

LEMMA SteadyType ==
  ASSUME Typed', steady' = [h \in Handlers |-> Watch(h)]
  PROVE  steady' \in [Handlers -> Gateways \cup {None}]
<1>1. ASSUME NEW h \in Handlers, task'[h] # None
      PROVE  LiveRoute(route', info', task'[h].user) \in Gateways \cup {None}
  <2>1. task'[h] \in TaskType /\ route' \in [Users -> RouteType \cup {None}]
    BY <1>1 DEF Typed
  <2>2. task'[h].user \in Users \cup {None}
    BY <2>1 DEF TaskType
  <2> QED BY <2>1, <2>2 DEF LiveRoute, RouteType
<1>2. ASSUME NEW h \in Handlers
      PROVE  Watch(h) \in Gateways \cup {None}
  BY <1>1 DEF Watch
<1> QED BY <1>2

\* What LeasedInv asks of h's task after a step.
SteadyFinds(h) ==
  LET t == task'[h]
      g == Watch(h)
  IN  /\ t # None /\ t.ok
      /\ \/ t.todo \in {<< Cmd("lease", None) >>, << Cmd("exists", g), Cmd("info", g) >>}
         \/ t.todo \in {<< Cmd("info", g) >>, << >>} /\ t.found = g

LEMMA SteadyLeased ==
  ASSUME steady' = [h \in Handlers |-> Watch(h)],
         \A h \in Handlers : Watch(h) # None => SteadyFinds(h)
  PROVE  LeasedInv'
<1>1. SUFFICES ASSUME NEW h \in Handlers, steady'[h] # None
               PROVE  LET t == task'[h]
                          g == steady'[h]
                      IN  /\ t # None /\ t.ok /\ LiveRoute(route', info', t.user) = g
                          /\ \/ t.todo \in {<< Cmd("lease", None) >>,
                                            << Cmd("exists", g), Cmd("info", g) >>}
                             \/ t.todo \in {<< Cmd("info", g) >>, << >>} /\ t.found = g
  BY DEF LeasedInv, LeaseFinds
<1>2. steady'[h] = Watch(h)
  OBVIOUS
<1>3. LiveRoute(route', info', task'[h].user) = Watch(h)
  BY <1>1, <1>2 DEF Watch
<1> QED BY <1>1, <1>2, <1>3 DEF SteadyFinds

\* Whose steady route a step keeps: one that was leased, or is about to be.
LEMMA SteadyBefore ==
  ASSUME LeasedInv, NEW h \in Handlers, Watch(h) # None, task[h] # None
  PROVE  /\ LeaseFinds(task[h], Watch(h))
         /\ LiveRoute(route', info', task'[h].user) = Watch(h)
         /\ task'[h] # None /\ left'.faults = left.faults
<1>1. /\ steady[h] = Watch(h) /\ task'[h] # None /\ left'.faults = left.faults
      /\ LiveRoute(route', info', task'[h].user) = Watch(h)
  BY DEF Watch
<1> HIDE DEF Watch
<1>2. LeaseFinds(task[h], Watch(h))
  BY <1>1 DEF LeasedInv
<1> QED BY <1>1, <1>2

LEMMA SteadySame ==
  ASSUME LeasedInv, NEW h \in Handlers, Watch(h) # None, task[h] # None,
         task'[h].todo = task[h].todo, task'[h].ok = task[h].ok, task'[h].found = task[h].found
  PROVE  SteadyFinds(h)
BY SteadyBefore DEF LeaseFinds, SteadyFinds

LEMMA FewerLeased ==
  ASSUME LeasedInv, Fewer, steady' = [h \in Handlers |-> Watch(h)]
  PROVE  LeasedInv'
<1>1. ASSUME NEW h \in Handlers, Watch(h) # None
      PROVE  SteadyFinds(h)
  <2>1. task'[h] # None
    BY <1>1 DEF Watch
  <2> QED BY <1>1, <2>1, SteadySame DEF Fewer
<1> QED BY <1>1, SteadyLeased

LEMMA BeginsLeased ==
  ASSUME TypeOK, LeasedInv, NEW h \in Handlers, NEW t, Begins(h, t), t.ok,
         steady' = [k \in Handlers |-> Watch(k)]
  PROVE  LeasedInv'
<1>1. task[h] = None /\ \A k \in Handlers : task'[k] = IF k = h THEN t ELSE task[k]
  BY DEF Begins, TypeOK
<1>2. ASSUME NEW k \in Handlers, Watch(k) # None
      PROVE  SteadyFinds(k)
  <2>1. CASE k # h
    <3>1. task'[k] = task[k] /\ task'[k] # None
      BY <1>1, <1>2, <2>1 DEF Watch
    <3> QED BY <1>2, <3>1, SteadySame
  <2>2. CASE k = h
    <3>1. task'[h] = t /\ t # None
      BY <1>1, <1>2, <2>2 DEF Watch
    <3>2. steady[h] = None
      BY <1>1 DEF LeasedInv
    <3>3. Asks(h)
      BY <1>2, <2>2, <3>2 DEF Watch
    <3> QED BY <2>2, <3>1, <3>3 DEF SteadyFinds, Asks, GetAvailableGatewayForUser
  <2> QED BY <2>1, <2>2
<1> QED BY <1>2, SteadyLeased

\* The handlers of a lease that go on to find its gateway.
LEMMA LeaseHeads ==
  ASSUME NEW t, NEW g, LeaseFinds(t, g), t.todo # << >>
  PROVE  \/ t.todo = << Cmd("lease", None) >> /\ Head(t.todo).op = "lease"
         \/ /\ t.todo = << Cmd("exists", g), Cmd("info", g) >>
            /\ Head(t.todo).op = "exists" /\ Head(t.todo).inst = g
            /\ Tail(t.todo) = << Cmd("info", g) >>
         \/ /\ t.todo = << Cmd("info", g) >>
            /\ Head(t.todo).op = "info" /\ Head(t.todo).inst = g
            /\ Tail(t.todo) = << >>
<1>1. CASE t.todo = << Cmd("lease", None) >>
  BY <1>1, ScriptOne, CmdFields
<1>2. CASE t.todo = << Cmd("exists", g), Cmd("info", g) >>
  BY <1>2, ScriptTwo, CmdFields
<1>3. CASE t.todo = << Cmd("info", g) >>
  BY <1>3, ScriptOne, CmdFields
<1> QED BY <1>1, <1>2, <1>3 DEF LeaseFinds

\* A step of a handler keeps the steady routes of the others, and its own when it is one
\* of the reads of a lease and finds what it reads.
LEMMA MovesLeased ==
  ASSUME TypeOK, LeasedInv, NEW h \in Handlers, NEW t, Moves(h, t),
         steady' = [k \in Handlers |-> Watch(k)],
         Watch(h) # None => SteadyFinds(h)
  PROVE  LeasedInv'
<1>1. \A k \in Handlers : task'[k] = IF k = h THEN t ELSE task[k]
  BY DEF Moves, TypeOK
<1>2. ASSUME NEW k \in Handlers, Watch(k) # None, k # h
      PROVE  SteadyFinds(k)
  <2>1. task'[k] = task[k] /\ task'[k] # None
    BY <1>1, <1>2 DEF Watch
  <2> QED BY <1>2, <2>1, SteadySame
<1> QED BY <1>2, SteadyLeased

LEMMA OthersLeased ==
  ASSUME TypeOK, LeasedInv, NEW h \in Handlers, NEW t, Moves(h, t),
         steady' = [k \in Handlers |-> Watch(k)],
         Head(task[h].todo).op \notin {"lease", "exists", "info"}
  PROVE  LeasedInv'
<1>1. task[h] # None /\ task[h].todo # << >>
  BY DEF Moves
<1>2. Watch(h) # None => FALSE
  BY <1>1, SteadyBefore, LeaseHeads
<1> QED BY <1>2, MovesLeased

LEMMA FaultsSpent ==
  ASSUME Typed, Fault
  PROVE  left'.faults # left.faults
BY DEF Typed, Fault, Spend

LEMMA LeaseLeased ==
  ASSUME IInv, NEW h \in Handlers, Lease(h), steady' = [k \in Handlers |-> Watch(k)]
  PROVE  LeasedInv'
<1>1. TypeOK /\ Typed /\ TasksInv /\ LeasedInv
  BY TypeParts DEF IInv
<1>2. PICK t : Moves(h, t)
  BY <1>1, LeaseReading DEF Reading
<1>3. task[h] # None /\ task[h].todo # << >> /\ Head(task[h].todo).op = "lease" /\ route' = route
  BY DEF Lease, Executes, ReadOnly, redisVars
<1>4. ASSUME Watch(h) # None
      PROVE  SteadyFinds(h)
  <2> DEFINE g == Watch(h)
             r == route[task[h].user]
  <2>1. /\ LeaseFinds(task[h], g) /\ LiveRoute(route', info', task'[h].user) = g
        /\ task'[h] # None /\ left'.faults = left.faults
    BY <1>1, <1>3, <1>4, SteadyBefore
  <2>2. task'[h] = t /\ t.user = task[h].user
    BY <1>1, <1>2 DEF Moves, TypeOK
  <2>3. r # None /\ r.gateway = g
    BY <1>3, <1>4, <2>1, <2>2 DEF LiveRoute
  <2>4. Continue(h, << Cmd("exists", g), Cmd("info", g) >>)
    <3> HIDE DEF g
    <3>1. ~Fault
      BY <1>1, <2>1, FaultsSpent
    <3> QED BY <2>3, <3>1 DEF Lease, Reads
  <2>5. task'[h] = With(h, << Cmd("exists", g), Cmd("info", g) >>, task[h].ok, task[h].found)
    <3> HIDE DEF g
    <3>1. task' = [task EXCEPT ![h] = With(h, << Cmd("exists", g), Cmd("info", g) >>,
                                           task[h].ok, task[h].found)]
      BY <1>1, <1>3, <2>4, TaskUpdates
    <3> QED BY <1>1, <3>1 DEF TypeOK
  <2>6. /\ task'[h].todo = << Cmd("exists", g), Cmd("info", g) >>
        /\ task'[h].ok = task[h].ok
    <3> HIDE DEF g
    <3> QED BY <2>5, WithFields
  <2>7. task[h].ok
    BY <2>1 DEF LeaseFinds
  <2> QED BY <2>1, <2>6, <2>7 DEF SteadyFinds
<1> QED BY <1>1, <1>2, <1>4, MovesLeased

LEMMA ProbeLeased ==
  ASSUME IInv, NEW h \in Handlers, Probe(h), steady' = [k \in Handlers |-> Watch(k)]
  PROVE  LeasedInv'
<1>1. TypeOK /\ Typed /\ TasksInv /\ LeasedInv
  BY TypeParts DEF IInv
<1>2. PICK t : Moves(h, t)
  BY <1>1, ProbeReading DEF Reading
<1>3. /\ task[h] # None /\ task[h].todo # << >> /\ Head(task[h].todo).op \in {"exists", "info"}
      /\ info' = info
  BY DEF Probe, Executes, ReadOnly, redisVars
<1>4. ASSUME Watch(h) # None
      PROVE  SteadyFinds(h)
  <2> DEFINE g == Watch(h)
             s == task[h].todo
  <2>1. /\ LeaseFinds(task[h], g) /\ LiveRoute(route', info', task'[h].user) = g
        /\ task'[h] # None /\ left'.faults = left.faults
    BY <1>1, <1>3, <1>4, SteadyBefore
  <2>2. /\ Head(s).inst = g
        /\ Tail(s) \in {<< Cmd("info", g) >>, << >>}
    <3> HIDE DEF g
    <3> QED BY <1>3, <2>1, LeaseHeads
  <2>3. g \in info
    BY <1>3, <1>4, <2>1 DEF LiveRoute
  <2>4. Finds(h, Tail(s), g)
    <3> HIDE DEF g
    <3>1. ~Fault
      BY <1>1, <2>1, FaultsSpent
    <3> QED BY <2>2, <2>3, <3>1 DEF Probe, Reads, Current, Finds
  <2>5. task'[h] = With(h, Tail(s), task[h].ok, g)
    <3> HIDE DEF g
    <3>1. task' = [task EXCEPT ![h] = With(h, Tail(s), task[h].ok, g)]
      BY <1>1, <1>3, <2>4, FoundUpdate
    <3> QED BY <1>1, <3>1 DEF TypeOK
  <2>6. task'[h].todo = Tail(s) /\ task'[h].ok = task[h].ok /\ task'[h].found = g
    <3> HIDE DEF g
    <3> QED BY <2>5, WithFields
  <2>7. task[h].ok
    BY <2>1 DEF LeaseFinds
  <2> QED BY <2>1, <2>2, <2>6, <2>7 DEF SteadyFinds
<1> QED BY <1>1, <1>2, <1>4, MovesLeased
--------------------------------------------------------------------------------
(* The invariant *)

\* A step of a handler that has a task, and a new task.
LEMMA ReadSteps ==
  ASSUME IInv, NEW h \in Handlers,
         \/ Get(h) \/ Lease(h) \/ Probe(h) \/ GetLowestLoadGateway(h)
         \/ SRandMember(h) \/ SMembers(h) \/ CheckInstance(h) \/ GetRoute(h)
  PROVE  Parts'
<1>1. TypeOK /\ Typed /\ TasksInv
  BY TypeParts DEF IInv
<1>2. \E t : Reading(h, t)
  BY <1>1, GetReading, LeaseReading, ProbeReading, LowestReading, PickReading, CheckReading,
     RouteReading
<1>3. left' = left \/ Fault
  <2>1. CASE Get(h) \/ Lease(h) \/ Probe(h) \/ CheckInstance(h) \/ GetRoute(h)
    BY <2>1 DEF Get, Lease, Probe, CheckInstance, GetRoute, Reads
  <2>2. CASE GetLowestLoadGateway(h) \/ SRandMember(h) \/ SMembers(h)
    BY <2>2 DEF GetLowestLoadGateway, SRandMember, SMembers, Pick
  <2> QED BY <2>1, <2>2
<1>4. left' \in [instances : Nat, clients : Nat, faults : Nat]
  <2>1. CASE left' = left
    BY <1>1, <2>1 DEF Typed
  <2>2. CASE Fault
    BY <1>1, <2>2, SpendType DEF Fault
  <2> QED BY <1>3, <2>1, <2>2
<1> QED BY <1>2, <1>4, ReadingParts

LEMMA ReadLeased ==
  ASSUME IInv, NEW h \in Handlers, steady' = [k \in Handlers |-> Watch(k)],
         \/ Get(h) \/ Lease(h) \/ Probe(h) \/ GetLowestLoadGateway(h)
         \/ SRandMember(h) \/ SMembers(h) \/ CheckInstance(h) \/ GetRoute(h)
  PROVE  LeasedInv'
<1>1. TypeOK /\ TasksInv /\ LeasedInv
  BY DEF IInv
<1>2. CASE Lease(h) \/ Probe(h)
  BY <1>2, LeaseLeased, ProbeLeased
<1>3. CASE ~Lease(h) /\ ~Probe(h)
  <2>1. \E t : Reading(h, t)
    BY <1>1, <1>3, GetReading, LowestReading, PickReading, CheckReading, RouteReading
  <2>2. Executes(h, {"get", "lowest", "random", "members", "check", "getRoute"})
    BY <1>3 DEF Get, GetLowestLoadGateway, SRandMember, SMembers, Pick, CheckInstance, GetRoute,
                Executes
  <2>3. Head(task[h].todo).op \notin {"lease", "exists", "info"}
    BY <2>2 DEF Executes
  <2> QED BY <1>1, <2>1, <2>3, OthersLeased DEF Reading
<1> QED BY <1>2, <1>3

LEMMA HandlerSteps ==
  ASSUME IInv, NEW h \in Handlers, Step(h), steady' = [k \in Handlers |-> Watch(k)]
  PROVE  Parts' /\ LeasedInv'
<1>1. TypeOK /\ TasksInv /\ LeasedInv
  BY DEF IInv
<1>2. CASE Command(h) \/ CommandFails(h)
  <2>1. PICK t : WriteStep(h, t)
    BY <1>1, <1>2, CommandWrites
  <2>2. Moves(h, t) /\ Head(task[h].todo).op \in Writes
    BY <2>1 DEF WriteStep
  <2>3. LeasedInv'
    BY <1>1, <2>2, OthersLeased DEF Writes
  <2> QED BY <2>1, <2>3, WriteParts
<1>3. CASE \/ Get(h) \/ Lease(h) \/ Probe(h) \/ GetLowestLoadGateway(h)
           \/ SRandMember(h) \/ SMembers(h) \/ CheckInstance(h) \/ GetRoute(h)
  BY <1>3, ReadSteps, ReadLeased
<1>4. CASE WriteRoute(h)
  <2>1. \E t : Moves(h, t)
    BY <1>1, <1>4, WriteRouteMoves
  <2>2. Head(task[h].todo).op \notin {"lease", "exists", "info"}
    BY <1>4 DEF WriteRoute, Executes
  <2>3. LeasedInv'
    BY <1>1, <2>1, <2>2, OthersLeased
  <2> QED BY <1>4, <2>3, WriteRouteParts
<1>5. CASE NoAnswer(h)
  BY <1>1, <1>5, NoAnswerParts, FewerLeased
<1>6. CASE Finish(h)
  BY <1>1, <1>6, FinishParts, FewerLeased
<1>7. CASE Reply(h)
  BY <1>1, <1>7, ReplyParts, FewerLeased
<1>8. CASE List(h)
  <2>1. \E t : Begins(h, t) /\ t.ok
    BY <1>1, <1>8, ListBegins
  <2>2. LeasedInv'
    BY <1>1, <2>1, BeginsLeased
  <2> QED BY <1>8, <2>2, ListParts
<1> QED BY <1>2, <1>3, <1>4, <1>5, <1>6, <1>7, <1>8 DEF Step

LEMMA OtherSteps ==
  ASSUME IInv, Other
  PROVE  Parts' /\ Fewer
<1>1. CASE \E i \in Instances : Expire(i) \/ Start(i) \/ SendHeartbeat(i) \/ Die(i)
  BY <1>1, ExpireParts, StartParts, SendHeartbeatParts, DieParts
<1>2. CASE \E g \in Gateways : Stop(g)
  BY <1>2, StopParts
<1>3. CASE \E u \in Users : ExpireRoute(u)
  BY <1>3, ExpireRouteParts
<1>4. CASE \E p \in Callers : AttemptLost(p) \/ GiveUp(p)
  BY <1>4, AttemptLostParts, GiveUpParts
<1>5. CASE \E c \in Conns : Ask(c) \/ Join(c) \/ Leave(c)
  BY <1>5, AskParts, JoinParts, LeaveParts
<1>6. CASE RegistryCrash
  BY <1>6, RegistryCrashParts
<1> QED BY <1>1, <1>2, <1>3, <1>4, <1>5, <1>6 DEF Other

LEMMA StepInv ==
  ASSUME IInv, [Next]_vars
  PROVE  IInv'
<1>1. CASE Next
  <2>1. steady' = [h \in Handlers |-> Watch(h)]
    BY <1>1 DEF Next
  <2>2. TypeOK /\ TasksInv /\ NodesInv /\ LeasedInv
    BY DEF IInv
  <2>3. Parts' /\ LeasedInv'
    <3>1. CASE \E h \in Handlers : Step(h)
      BY <2>1, <3>1, HandlerSteps
    <3>2. ASSUME NEW h \in Handlers, NEW p \in Callers, Attempt(p, h)
          PROVE  Parts' /\ LeasedInv'
      <4> DEFINE t == [by |-> p, user |-> Subject(p), todo |-> Request(p), ok |-> TRUE,
                       found |-> None]
      <4>1. Begins(h, t) /\ t.ok
        BY <2>2, <3>2, AttemptBegins
      <4> HIDE DEF t
      <4>2. LeasedInv'
        BY <2>1, <2>2, <4>1, BeginsLeased
      <4> QED BY <3>2, <4>2, AttemptParts
    <3>3. CASE Other
      BY <2>1, <2>2, <3>3, OtherSteps, FewerLeased
    <3> QED BY <1>1, <3>1, <3>2, <3>3 DEF Next
  <2>4. TypeOK'
    BY <2>1, <2>3, SteadyType DEF Parts, Typed, TypeOK
  <2> QED BY <2>3, <2>4 DEF Parts, IInv
<1>2. CASE UNCHANGED vars
  <2>1. Parts'
    BY <1>2, StutterParts
  <2>2. route' = route /\ info' = info /\ task' = task /\ steady' = steady
    BY <1>2 DEF vars, redisVars, callVars
  <2>3. LeasedInv'
    BY <2>2 DEF IInv, LeasedInv, LeaseFinds
  <2>4. TypeOK'
    BY <2>1, <2>2 DEF Parts, Typed, TypeOK, IInv
  <2> QED BY <2>1, <2>3, <2>4 DEF Parts, IInv
<1> QED BY <1>1, <1>2

LEMMA InitInv ==
  ASSUME Init
  PROVE  IInv
<1>1. /\ ranking = info \cap Gateways /\ instances = info /\ info \subseteq Instances
      /\ life = [i \in Instances |-> IF i \in info THEN "up" ELSE "down"]
      /\ conn = [c \in Conns |-> IF gateway[c] = None THEN "out" ELSE "told"] /\ stored = {}
      /\ gateway \in [Conns -> (Gateways \cap info) \cup {None}]
      /\ calling = {} /\ task = [h \in Handlers |-> None] /\ left \in Budgets
      /\ reported = {} /\ unregistered = {} /\ hidden = {} /\ ghost = {} /\ disputed = {}
      /\ steady = [h \in Handlers |-> None] /\ latest = [u \in Users |-> None]
      /\ route = [u \in Users |-> None] /\ tries = [p \in Callers |-> 0]
  BY DEF Init
<1>2. TypeOK
  <2>1. left \in [instances : Nat, clients : Nat, faults : Nat]
    BY <1>1, RegistryAssumption
  <2>2. gateway \in [Conns -> Gateways \cup {None}]
    BY <1>1
  <2>3. conn \in [Conns -> {"out", "asking", "told", "joining", "up", "leaving"}]
    BY <1>1
  <2>4. life \in [Instances -> {"down", "starting", "up", "stopping", "stopped"}]
    BY <1>1
  <2>5. tries \in [Callers -> 0 .. Attempts]
    BY <1>1 DEF Attempts
  <2> QED BY <1>1, <2>1, <2>2, <2>3, <2>4, <2>5 DEF TypeOK
<1>3. TasksInv
  BY <1>1 DEF TasksInv
<1>4. NodesInv
  BY <1>1, Names DEF NodesInv
<1>5. VisibleInv
  BY <1>1 DEF VisibleInv, Listed, ListedIn
<1>6. UnlistedInv
  BY <1>1 DEF UnlistedInv, Unlisted
<1>7. RoutedInv
  BY <1>1 DEF RoutedInv
<1>8. LeasedInv
  BY <1>1 DEF LeasedInv
<1> QED BY <1>2, <1>3, <1>4, <1>5, <1>6, <1>7, <1>8 DEF IInv
--------------------------------------------------------------------------------
(* The inductive invariant of the registry holds in every state: what each request has *)
(* still to execute, for whom, and what that leaves of the lists, routes and records.  *)
THEOREM Invariant == Spec => []IInv
<1>1. Init => IInv
  BY InitInv
<1>2. IInv /\ [Next]_vars => IInv'
  BY StepInv
<1> QED BY <1>1, <1>2, PTL DEF Spec

(* Every variable keeps its type: a ranked instance is a gateway, and a connection in a *)
(* connStore has a gateway.                                                             *)
THEOREM TypeCorrect == Spec => []TypeOK
<1>1. IInv => TypeOK
  BY DEF IInv
<1> QED BY <1>1, Invariant, PTL

(* Whoever has a record is in the sets that are searched for it, or its registration is *)
(* still being executed, unless a registration was given up half way, a removal came    *)
(* after the record was written again, or a heartbeat wrote back a removed record.      *)
THEOREM InstancesVisible == Spec => []Visible
<1>1. IInv => Visible
  BY DEF IInv, VisibleInv, WillList, Visible
<1> QED BY <1>1, Invariant, PTL

(* When UnregisterGateway has been answered OK nothing of the gateway is left, in its   *)
(* record, the ranking or the instance set, unless a request of it was executed later.  *)
THEOREM ShutdownUnlisted == Spec => []Unlisted
<1>1. IInv => Unlisted
  BY DEF IInv, UnlistedInv
<1> QED BY <1>1, Invariant, PTL

(* While the newest connection of a user is up and was reported, the user's route is to *)
(* its gateway, unless the route expired or another report got in between.              *)
THEOREM NewestRouted == Spec => []Routed
<1>1. IInv => Routed
  BY DEF IInv, RoutedInv, Connected, Routed
<1> QED BY <1>1, Invariant, PTL

(* A lease whose user has a route to a gateway with a record from its first read on is  *)
(* answered with that gateway, whatever other requests write in between.                *)
THEOREM LeaseReturned == Spec => []Leased
<1>1. IInv => Leased
  <2>1. SUFFICES ASSUME IInv, NEW h \in Handlers, steady[h] # None, task[h].todo = << >>
                 PROVE  task[h].ok /\ task[h].found = steady[h]
    BY DEF Leased
  <2>2. LeaseFinds(task[h], steady[h])
    BY <2>1 DEF IInv, LeasedInv
  <2>3. << Cmd("lease", None) >> # << >>
        /\ << Cmd("exists", steady[h]), Cmd("info", steady[h]) >> # << >>
    BY ScriptOne, ScriptTwo
  <2> QED BY <2>1, <2>2, <2>3 DEF LeaseFinds
<1> QED BY <1>1, Invariant, PTL
================================================================================
