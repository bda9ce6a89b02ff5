--------------------------- MODULE GatewayConn_proofs ---------------------------
(* Proofs about GatewayConn: that its safety properties hold for every set of users,  *)
(* connections, messages and dispatch workers.                                        *)
EXTENDS GatewayConn, Counting_proofs

(* The inductive invariant. *)

\* A handler that has yet to register its connection, goroutines with a holder in hand,
\* and those that may have drained items in hand.
Arriving == {"connect", "load", "stop", "drain", "closeCh", "closeConn", "unstore", "store"}
WithOld == {"stop", "drain", "closeCh", "closeConn", "unstore", "send", "inc", "await",
            "rstop", "rdrain", "rcloseCh", "rback", "rdelete"}
Holding == {"drain", "closeCh", "closeConn", "unstore", "store", "rdrain", "rcloseCh", "rback"}
Draining == {"drain", "rdrain"}

\* The connection has been registered, or never will be.
Handler(c) == <<"handler", c>>
HeartbeatOf(c) == <<"beat", c>>
Born == {c \in Conns : proc[Handler(c)].pc \notin Arriving}

LocalOK(p) ==
  /\ proc[p].pc \in Arriving => p[1] = "handler"
  /\ proc[p].pc \in WithOld => proc[p].old # NoConn
  /\ proc[p].held # << >> => proc[p].pc \in Holding
  /\ proc[p].pc \in Arriving \cup {"greet"} => proc[p].n = 0
  /\ proc[p].pc = "send" => proc[p].n <= proc[p].fails
  /\ proc[p].pc \in {"inc", "await"} => proc[p].n <= 1 + proc[p].fails

ProcOK(p) ==
  /\ LocalOK(p)
  /\ proc[p].old # NoConn => UserOf[proc[p].old] = UserOfProc(p) /\ proc[p].old \in Born

ConnOK(c) ==
  /\ c \notin Born => conn[c].chan = << >> /\ writer[c].pc = "none"
  /\ writer[c].pc # "write" => writer[c].item = NoMsg
  /\ proc[Handler(c)].ret = "read" /\ proc[Handler(c)].pc \notin {"read", "end"} =>
       proc[HeartbeatOf(c)].pc = "end"

StoreOK(u) == store[u] # NoConn => UserOf[store[u]] = u /\ store[u] \in Born

JobOK(d) ==
  /\ job[d].old # NoConn => UserOf[job[d].old] = job[d].user /\ job[d].old \in Born
  /\ job[d].pc # "load" => /\ job[d].old # NoConn /\ job[d].user # NoUser
                           /\ job[d].msg # NoMsg /\ job[d].user \notin job[d].todo
  /\ job[d].pc = "send" => job[d].user \in Targets[job[d].msg]
  /\ job[d].msg # NoMsg => job[d].msg \in taken /\ job[d].todo \subseteq Targets[job[d].msg]
  /\ job[d].msg = NoMsg => job[d].todo = {}

Shape ==
  /\ \A p \in Procs : ProcOK(p)
  /\ \A c \in Conns : ConnOK(c)
  /\ \A u \in Users : StoreOK(u)
  /\ \A d \in Dispatchers : JobOK(d)

One(b) == IF b THEN 1 ELSE 0
Balance(m, u) ==
  Cardinality(ToEnqueue(m, u)) + Cardinality(InHand(m, u)) + CopiesAt(Chans, ConnsOf(u), m)
    + CopiesAt(Held, ProcsOf(u), m) + settled[m][u] = One(m \in taken /\ u \in Targets[m])
Balanced == \A m \in Msgs : \A u \in Users : Balance(m, u)

\* The messages of s, of s and t, were enqueued in this order.
Precedes(x, y, q) == \E k, l \in DOMAIN q : k < l /\ q[k] = x /\ q[l] = y
Enqueued(s, q) == \A i \in DOMAIN s : s[i] \in Msgs => \E k \in DOMAIN q : q[k] = s[i]
InRow(s, q) ==
  \A i, j \in DOMAIN s : i < j /\ s[i] \in Msgs /\ s[j] \in Msgs => Precedes(s[i], s[j], q)
Ahead(s, t, q) ==
  \A i \in DOMAIN s, j \in DOMAIN t :
    s[i] \in Msgs /\ t[j] \in Msgs => Precedes(s[i], t[j], q)

LineInRow(c) ==
  LET q == sent[UserOf[c]]
  IN  /\ Enqueued(conn[c].chan, q) /\ InRow(conn[c].chan, q)
      /\ Enqueued(<<writer[c].item>>, q) /\ Ahead(<<writer[c].item>>, conn[c].chan, q)
HeldInRow(p) ==
  LET q == sent[UserOfProc(p)]
  IN  /\ Enqueued(proc[p].held, q) /\ InRow(proc[p].held, q)
      /\ proc[p].pc \in Draining => Ahead(proc[p].held, conn[proc[p].old].chan, q)
Ordered == (\A c \in Conns : LineInRow(c)) /\ (\A p \in Procs : HeldInRow(p))

IInv == TypeOK /\ Shape /\ Balanced /\ Ordered /\ PendingExact
--------------------------------------------------------------------------------
(* Lists whose messages are in the order in which they were enqueued.  q is the list of *)
(* the messages enqueued, which only grows.                                             *)

Grows(q, r) == \A k \in DOMAIN q : k \in DOMAIN r /\ r[k] = q[k]

LEMMA LaterInRow ==
  ASSUME NEW q, NEW r, Grows(q, r), NEW s
  PROVE  /\ Enqueued(s, q) => Enqueued(s, r)
         /\ InRow(s, q) => InRow(s, r)
         /\ \A t : Ahead(s, t, q) => Ahead(s, t, r)
<1>1. \A x, y : Precedes(x, y, q) => Precedes(x, y, r)
  BY DEF Grows, Precedes
<1>2. Enqueued(s, q) => Enqueued(s, r)
  BY DEF Grows, Enqueued
<1>3. InRow(s, q) => InRow(s, r)
  BY <1>1 DEF InRow
<1>4. ASSUME NEW t, Ahead(s, t, q) PROVE Ahead(s, t, r)
  BY <1>1, <1>4 DEF Ahead
<1> QED BY <1>2, <1>3, <1>4

\* The empty list is in every order.
LEMMA EmptyInRow ==
  ASSUME NEW q, NEW s
  PROVE  /\ Enqueued(<< >>, q) /\ InRow(<< >>, q)
         /\ Ahead(<< >>, s, q) /\ Ahead(s, << >>, q)
BY DEF Enqueued, InRow, Ahead

\* One item that is not a message.
LEMMA OtherInRow ==
  ASSUME NEW q, NEW s, NEW e, e \notin Msgs
  PROVE  Enqueued(<<e>>, q) /\ Ahead(<<e>>, s, q)
<1>1. DOMAIN <<e>> = {1} /\ <<e>>[1] = e
  OBVIOUS
<1> QED BY <1>1 DEF Enqueued, Ahead

\* The head is taken off the list s, as the writer does ...
LEMMA TailInRow ==
  ASSUME NEW S, NEW s \in Seq(S), s # << >>, NEW q
  PROVE  /\ Enqueued(s, q) => Enqueued(Tail(s), q) /\ Enqueued(<<Head(s)>>, q)
         /\ InRow(s, q) => InRow(Tail(s), q) /\ Ahead(<<Head(s)>>, Tail(s), q)
         /\ \A h : Ahead(h, s, q) => Ahead(h, Tail(s), q)
<1> DEFINE n == Len(s)
           t == Tail(s)
           e == <<Head(s)>>
<1>1. /\ n \in Nat /\ n > 0 /\ DOMAIN s = 1 .. n
      /\ DOMAIN t = 1 .. n - 1
      /\ \A i \in 1 .. n - 1 : t[i] = s[i + 1]
  BY LenProperties, HeadTailProperties, EmptySeq
<1>2. DOMAIN e = {1} /\ e[1] = s[1]
  BY HeadTailProperties
<1> HIDE DEF n, t, e
<1>3. \A i \in DOMAIN t : i + 1 \in DOMAIN s /\ t[i] = s[i + 1] /\ 1 < i + 1
  BY <1>1
<1>4. 1 \in DOMAIN s
  BY <1>1
<1>5. Enqueued(s, q) => Enqueued(t, q) /\ Enqueued(e, q)
  BY <1>2, <1>3, <1>4 DEF Enqueued
<1>6. ASSUME InRow(s, q) PROVE InRow(t, q) /\ Ahead(e, t, q)
  <2>1. ASSUME NEW i \in DOMAIN t, NEW j \in DOMAIN t, i < j, t[i] \in Msgs, t[j] \in Msgs
        PROVE  Precedes(t[i], t[j], q)
    <3>1. i + 1 < j + 1
      BY <1>1, <2>1
    <3> QED BY <1>3, <1>6, <2>1, <3>1 DEF InRow
  <2>2. ASSUME NEW j \in DOMAIN t, e[1] \in Msgs, t[j] \in Msgs
        PROVE  Precedes(e[1], t[j], q)
    BY <1>2, <1>3, <1>4, <1>6, <2>2 DEF InRow
  <2> QED BY <1>2, <2>1, <2>2 DEF InRow, Ahead
<1>7. ASSUME NEW h, Ahead(h, s, q) PROVE Ahead(h, t, q)
  BY <1>3, <1>7 DEF Ahead
<1> QED BY <1>5, <1>6, <1>7 DEF t, e

\* ... and put on the list h, as a goroutine that drains the channel does.
LEMMA MovedInRow ==
  ASSUME NEW S, NEW s \in Seq(S), s # << >>, NEW h \in Seq(S), NEW q,
         Enqueued(h, q), InRow(h, q), Ahead(h, s, q), Enqueued(s, q), InRow(s, q)
  PROVE  /\ Enqueued(Append(h, Head(s)), q)
         /\ InRow(Append(h, Head(s)), q)
         /\ Ahead(Append(h, Head(s)), Tail(s), q)
<1> DEFINE n == Len(h)
           a == Append(h, Head(s))
           t == Tail(s)
<1>1. /\ n \in Nat /\ DOMAIN h = 1 .. n
      /\ DOMAIN a = 1 .. n + 1
      /\ \A i \in 1 .. n : a[i] = h[i]
      /\ a[n + 1] = s[1]
  BY LenProperties, AppendProperties, HeadTailProperties
<1>2. Ahead(h, t, q) /\ Ahead(<<s[1]>>, t, q)
  BY TailInRow, HeadTailProperties
<1>3. 1 \in DOMAIN s
  BY LenProperties, EmptySeq
<1>4. DOMAIN <<s[1]>> = {1} /\ <<s[1]>>[1] = s[1]
  OBVIOUS
<1> HIDE DEF n, a, t
<1>5. Enqueued(a, q)
  BY <1>1, <1>3 DEF Enqueued
<1>6. ASSUME NEW i \in DOMAIN a, NEW j \in DOMAIN a, i < j, a[i] \in Msgs, a[j] \in Msgs
      PROVE  Precedes(a[i], a[j], q)
  <2>1. i \in DOMAIN h /\ a[i] = h[i]
    BY <1>1, <1>6
  <2>2. CASE j \in DOMAIN h
    BY <1>1, <1>6, <2>1, <2>2 DEF InRow
  <2>3. CASE j = n + 1
    BY <1>1, <1>3, <1>6, <2>1, <2>3 DEF Ahead
  <2> QED BY <1>1, <2>2, <2>3
<1>7. ASSUME NEW i \in DOMAIN a, NEW j \in DOMAIN t, a[i] \in Msgs, t[j] \in Msgs
      PROVE  Precedes(a[i], t[j], q)
  <2>1. CASE i \in DOMAIN h
    BY <1>1, <1>2, <1>7, <2>1 DEF Ahead
  <2>2. CASE i = n + 1
    BY <1>1, <1>2, <1>4, <1>7, <2>2 DEF Ahead
  <2> QED BY <1>1, <2>1, <2>2
<1> QED BY <1>5, <1>6, <1>7 DEF InRow, Ahead, a, t

\* A message is enqueued: it goes at the end of the list s and of q.
LEMMA EnqueuedInRow ==
  ASSUME NEW S, NEW s \in Seq(S), NEW m \in S, NEW T, NEW q \in Seq(T), m \in T,
         Enqueued(s, q), InRow(s, q)
  PROVE  /\ Enqueued(Append(s, m), Append(q, m))
         /\ InRow(Append(s, m), Append(q, m))
         /\ \A h : Enqueued(h, q) /\ Ahead(h, s, q) => Ahead(h, Append(s, m), Append(q, m))
         /\ Grows(q, Append(q, m))
<1> DEFINE n == Len(s)
           a == Append(s, m)
           l == Len(q)
           r == Append(q, m)
<1>1. /\ n \in Nat /\ DOMAIN s = 1 .. n /\ DOMAIN a = 1 .. n + 1
      /\ \A i \in 1 .. n : a[i] = s[i]
      /\ a[n + 1] = m
  BY LenProperties, AppendProperties
<1>2. /\ l \in Nat /\ DOMAIN q = 1 .. l /\ DOMAIN r = 1 .. l + 1
      /\ \A i \in 1 .. l : r[i] = q[i]
      /\ r[l + 1] = m
  BY LenProperties, AppendProperties
<1> HIDE DEF n, a, l, r
<1>3. Grows(q, r)
  BY <1>2 DEF Grows
<1>4. Enqueued(s, r) /\ InRow(s, r)
  BY <1>3, LaterInRow
<1>5. Enqueued(a, r)
  BY <1>1, <1>2, <1>4 DEF Enqueued
<1>6. ASSUME NEW x, NEW k \in DOMAIN q, q[k] = x PROVE Precedes(x, m, r)
  BY <1>2, <1>6 DEF Precedes
<1>7. ASSUME NEW i \in DOMAIN a, NEW j \in DOMAIN a, i < j, a[i] \in Msgs, a[j] \in Msgs
      PROVE  Precedes(a[i], a[j], r)
  <2>1. i \in DOMAIN s /\ a[i] = s[i]
    BY <1>1, <1>7
  <2>2. CASE j \in DOMAIN s
    BY <1>1, <1>4, <1>7, <2>1, <2>2 DEF InRow
  <2>3. CASE j = n + 1
    BY <1>1, <1>6, <1>7, <2>1, <2>3 DEF Enqueued
  <2> QED BY <1>1, <2>2, <2>3
<1>8. ASSUME NEW h, Enqueued(h, q), Ahead(h, s, q),
             NEW i \in DOMAIN h, NEW j \in DOMAIN a, h[i] \in Msgs, a[j] \in Msgs
      PROVE  Precedes(h[i], a[j], r)
  <2>1. Ahead(h, s, r)
    BY <1>3, <1>8, LaterInRow
  <2>2. CASE j \in DOMAIN s
    BY <1>1, <1>8, <2>1, <2>2 DEF Ahead
  <2>3. CASE j = n + 1
    BY <1>1, <1>6, <1>8, <2>3 DEF Enqueued
  <2> QED BY <1>1, <2>2, <2>3
<1> QED BY <1>3, <1>5, <1>7, <1>8 DEF InRow, Ahead, a, r

\* A greeting or a ping goes at the end of the list s.
LEMMA GreetingInRow ==
  ASSUME NEW S, NEW s \in Seq(S), NEW e \in S, e \notin Msgs, NEW q
  PROVE  /\ Enqueued(s, q) => Enqueued(Append(s, e), q)
         /\ InRow(s, q) => InRow(Append(s, e), q)
         /\ \A h : Ahead(h, s, q) => Ahead(h, Append(s, e), q)
<1> DEFINE n == Len(s)
           a == Append(s, e)
<1>1. /\ n \in Nat /\ DOMAIN s = 1 .. n /\ DOMAIN a = 1 .. n + 1
      /\ \A i \in 1 .. n : a[i] = s[i]
      /\ a[n + 1] = e
  BY LenProperties, AppendProperties
<1> HIDE DEF n, a
<1>2. \A i \in DOMAIN a : a[i] \in Msgs => i \in DOMAIN s /\ a[i] = s[i]
  BY <1>1
<1>3. Enqueued(s, q) => Enqueued(a, q)
  BY <1>2 DEF Enqueued
<1>4. InRow(s, q) => InRow(a, q)
  BY <1>2 DEF InRow
<1>5. ASSUME NEW h, Ahead(h, s, q) PROVE Ahead(h, a, q)
  BY <1>2, <1>5 DEF Ahead
<1> QED BY <1>3, <1>4, <1>5 DEF a
--------------------------------------------------------------------------------
(* Counting. *)

LEMMA SetsDiffer ==
  ASSUME NEW K, IsFiniteSet(K), NEW A \in SUBSET K, NEW B \in SUBSET K, NEW x \in K,
         \A k \in K \ {x} : k \in A <=> k \in B
  PROVE  /\ Cardinality(A) \in Nat /\ Cardinality(B) \in Nat
         /\ Cardinality(B) = Cardinality(A) + One(x \in B) - One(x \in A)
<1> DEFINE C == A \ {x}
<1>1. IsFiniteSet(A) /\ IsFiniteSet(B) /\ IsFiniteSet(C)
  BY FS_Subset
<1>2. Cardinality(A) \in Nat /\ Cardinality(B) \in Nat /\ Cardinality(C) \in Nat
  BY <1>1, FS_CardinalityType
<1>3. x \notin C
  OBVIOUS
<1>4. A = IF x \in A THEN C \cup {x} ELSE C
  OBVIOUS
<1>5. B = IF x \in B THEN C \cup {x} ELSE C
  OBVIOUS
<1> HIDE DEF C
<1>6. Cardinality(C \cup {x}) = Cardinality(C) + 1
  BY <1>1, <1>3, FS_AddElement
<1>7. Cardinality(A) = Cardinality(C) + One(x \in A)
  <2>1. CASE x \in A
    BY <1>4, <1>6, <2>1 DEF One
  <2>2. CASE x \notin A
    BY <1>2, <1>4, <2>2 DEF One
  <2> QED BY <2>1, <2>2
<1>8. Cardinality(B) = Cardinality(C) + One(x \in B)
  <2>1. CASE x \in B
    BY <1>5, <1>6, <2>1 DEF One
  <2>2. CASE x \notin B
    BY <1>2, <1>5, <2>2 DEF One
  <2> QED BY <2>1, <2>2
<1> HIDE <1>4, <1>5
<1>9. One(x \in A) \in Nat /\ One(x \in B) \in Nat
  BY DEF One
<1> QED BY <1>2, <1>7, <1>8, <1>9

LEMMA FiniteSets ==
  /\ IsFiniteSet(Procs)
  /\ \A u : /\ IsFiniteSet(ConnsOf(u)) /\ ConnsOf(u) \subseteq Conns
            /\ IsFiniteSet(ProcsOf(u)) /\ ProcsOf(u) \subseteq Procs
<1>1. IsFiniteSet({"handler", "beat"})
  <2>1. IsFiniteSet({"handler"} \cup {"beat"})
    BY FS_Singleton, FS_Union
  <2>2. {"handler"} \cup {"beat"} = {"handler", "beat"}
    OBVIOUS
  <2> QED BY <2>1, <2>2
<1>2. IsFiniteSet(Procs)
  BY <1>1, GatewayAssumption, FS_Product DEF Procs
<1> QED BY <1>2, GatewayAssumption, FS_Subset DEF ConnsOf, ProcsOf

LEMMA Typed ==
  ASSUME TypeOK
  PROVE  /\ \A c \in Conns : conn[c] \in ConnType /\ conn[c].chan \in Seq(Items)
         /\ \A p \in Procs : proc[p] \in ProcType /\ proc[p].held \in Seq(Items)
         /\ Chans \in Lists(Conns, Items) /\ Held \in Lists(Procs, Items)
         /\ Drained \in Lists(Procs, Items)
<1>1. \A c \in Conns : conn[c] \in ConnType /\ conn[c].chan \in Seq(Items)
  BY DEF TypeOK, ConnType
<1>2. \A p \in Procs : proc[p] \in ProcType /\ proc[p].held \in Seq(Items)
  BY DEF TypeOK, ProcType
<1>3. << >> \in Seq(Items)
  OBVIOUS
<1> QED BY <1>1, <1>2, <1>3 DEF Chans, Held, Drained, Lists

\* The channel of c alone changes ...
LEMMA ChanDiffers ==
  ASSUME TypeOK, TypeOK', NEW c \in Conns,
         \A k \in Conns \ {c} : conn'[k].chan = conn[k].chan
  PROVE  /\ Total(Chans)' = Total(Chans) - Len(conn[c].chan) + Len(conn'[c].chan)
         /\ \A u \in Users : \A v :
              CopiesAt(Chans, ConnsOf(u), v)' =
                IF UserOf[c] = u
                THEN CopiesAt(Chans, ConnsOf(u), v) - Copies(conn[c].chan, v)
                       + Copies(conn'[c].chan, v)
                ELSE CopiesAt(Chans, ConnsOf(u), v)
<1>1. /\ Chans \in Lists(Conns, Items) /\ Chans' \in Lists(Conns, Items)
      /\ SameBut(Chans', Chans, Conns, c)
      /\ Chans[c] = conn[c].chan /\ Chans'[c] = conn'[c].chan
  BY Typed DEF SameBut, Chans, Lists, TypeOK, ConnType
<1>2. IsFiniteSet(Conns)
  BY GatewayAssumption
<1>3. Total(Chans') = Total(Chans) - Len(conn[c].chan) + Len(conn'[c].chan)
  BY <1>1, <1>2, TotalDiffer
<1>4. ASSUME NEW u \in Users, NEW v
      PROVE  CopiesAt(Chans', ConnsOf(u), v) =
               IF UserOf[c] = u
               THEN CopiesAt(Chans, ConnsOf(u), v) - Copies(conn[c].chan, v)
                      + Copies(conn'[c].chan, v)
               ELSE CopiesAt(Chans, ConnsOf(u), v)
  <2> DEFINE h == [k \in ConnsOf(u) |-> Chans[k]]
             g == [k \in ConnsOf(u) |-> Chans'[k]]
  <2>1. ConnsOf(u) \subseteq Conns /\ IsFiniteSet(ConnsOf(u))
    BY FiniteSets
  <2>2. h \in Lists(ConnsOf(u), Items) /\ g \in Lists(ConnsOf(u), Items)
    BY <1>1, <2>1 DEF Lists
  <2>3. CASE UserOf[c] = u
    <3>1. c \in ConnsOf(u)
      BY <2>3 DEF ConnsOf
    <3>2. SameBut(g, h, ConnsOf(u), c) /\ g[c] = Chans'[c] /\ h[c] = Chans[c]
      BY <1>1, <2>1, <3>1 DEF SameBut
    <3> HIDE DEF g, h
    <3>3. CopiesAmong(g, v) = CopiesAmong(h, v) - Copies(h[c], v) + Copies(g[c], v)
      BY <2>1, <2>2, <3>1, <3>2, CopiesAmongDiffer
    <3> QED BY <1>1, <2>3, <3>2, <3>3 DEF CopiesAt, g, h
  <2>4. CASE UserOf[c] # u
    <3>1. \A k \in ConnsOf(u) : k \in Conns \ {c}
      BY <2>4 DEF ConnsOf
    <3>2. g = h
      BY <1>1, <3>1 DEF SameBut
    <3> HIDE DEF g, h
    <3>3. CopiesAmong(g, v) = CopiesAmong(h, v)
      BY <3>2
    <3> QED BY <2>4, <3>3 DEF CopiesAt, g, h
  <2> QED BY <2>3, <2>4
<1> QED BY <1>3, <1>4

\* ... the drained list of p alone changes.
LEMMA HeldDiffers ==
  ASSUME TypeOK, TypeOK', NEW p \in Procs,
         \A k \in Procs \ {p} : proc'[k].held = proc[k].held
  PROVE  \A u \in Users : \A v :
              CopiesAt(Held, ProcsOf(u), v)' =
                IF UserOfProc(p) = u
                THEN CopiesAt(Held, ProcsOf(u), v) - Copies(proc[p].held, v)
                       + Copies(proc'[p].held, v)
                ELSE CopiesAt(Held, ProcsOf(u), v)
<1>1. /\ Held \in Lists(Procs, Items) /\ Held' \in Lists(Procs, Items)
      /\ SameBut(Held', Held, Procs, p)
      /\ Held[p] = proc[p].held /\ Held'[p] = proc'[p].held
  BY Typed DEF SameBut, Held, Lists, TypeOK, ProcType
<1>2. ASSUME NEW u \in Users, NEW v
      PROVE  CopiesAt(Held', ProcsOf(u), v) =
               IF UserOfProc(p) = u
               THEN CopiesAt(Held, ProcsOf(u), v) - Copies(proc[p].held, v)
                      + Copies(proc'[p].held, v)
               ELSE CopiesAt(Held, ProcsOf(u), v)
  <2> DEFINE h == [k \in ProcsOf(u) |-> Held[k]]
             g == [k \in ProcsOf(u) |-> Held'[k]]
  <2>1. ProcsOf(u) \subseteq Procs /\ IsFiniteSet(ProcsOf(u))
    BY FiniteSets
  <2>2. h \in Lists(ProcsOf(u), Items) /\ g \in Lists(ProcsOf(u), Items)
    BY <1>1, <2>1 DEF Lists
  <2>3. CASE UserOfProc(p) = u
    <3>1. p \in ProcsOf(u)
      BY <2>3 DEF ProcsOf
    <3>2. SameBut(g, h, ProcsOf(u), p) /\ g[p] = Held'[p] /\ h[p] = Held[p]
      BY <1>1, <2>1, <3>1 DEF SameBut
    <3> HIDE DEF g, h
    <3>3. CopiesAmong(g, v) = CopiesAmong(h, v) - Copies(h[p], v) + Copies(g[p], v)
      BY <2>1, <2>2, <3>1, <3>2, CopiesAmongDiffer
    <3> QED BY <1>1, <2>3, <3>2, <3>3 DEF CopiesAt, g, h
  <2>4. CASE UserOfProc(p) # u
    <3>1. \A k \in ProcsOf(u) : k \in Procs \ {p}
      BY <2>4 DEF ProcsOf
    <3>2. g = h
      BY <1>1, <3>1 DEF SameBut
    <3> HIDE DEF g, h
    <3>3. CopiesAmong(g, v) = CopiesAmong(h, v)
      BY <3>2
    <3> QED BY <2>4, <3>3 DEF CopiesAt, g, h
  <2> QED BY <2>3, <2>4
<1> QED BY <1>2

LEMMA DrainedDiffers ==
  ASSUME TypeOK, TypeOK', NEW p \in Procs,
         \A k \in Procs \ {p} : Drained'[k] = Drained[k]
  PROVE  Total(Drained)' = Total(Drained) - Len(Drained[p]) + Len(Drained'[p])
<1>1. \A q \in Procs : proc'[q].held \in Seq(Items) /\ << >> \in Seq(Items)
  BY DEF TypeOK, ProcType
<1>2. /\ Drained \in Lists(Procs, Items) /\ Drained' \in Lists(Procs, Items)
      /\ SameBut(Drained', Drained, Procs, p)
  BY <1>1, Typed DEF SameBut, Drained, Lists
<1>3. Total(Drained') = Total(Drained) - Len(Drained[p]) + Len(Drained'[p])
  BY <1>2, FiniteSets, TotalDiffer
<1> QED BY <1>3

\* The numbers of the balances are natural numbers.
LEMMA CountsAreNat ==
  ASSUME TypeOK
  PROVE  /\ Total(Chans) \in Nat /\ Total(Drained) \in Nat
         /\ \A u \in Users : \A v : /\ CopiesAt(Chans, ConnsOf(u), v) \in Nat
                                /\ CopiesAt(Held, ProcsOf(u), v) \in Nat
         /\ \A c \in Conns : \A v : Len(conn[c].chan) \in Nat /\ Copies(conn[c].chan, v) \in Nat
         /\ \A p \in Procs : \A v : Len(proc[p].held) \in Nat /\ Copies(proc[p].held, v) \in Nat
         /\ \A m, u : /\ Cardinality(ToEnqueue(m, u)) \in Nat
                      /\ Cardinality(InHand(m, u)) \in Nat
         /\ \A m \in Msgs, u \in Users : settled[m][u] \in Nat
         /\ Cardinality({p \in Procs : At(p, "inc")}) \in Nat
         /\ Cardinality({d \in Dispatchers : job[d].pc = "inc"}) \in Nat
<1>1. Total(Chans) \in Nat /\ Total(Drained) \in Nat
  BY Typed, FiniteSets, TotalType, GatewayAssumption
<1>2. ASSUME NEW u \in Users, NEW v
      PROVE  CopiesAt(Chans, ConnsOf(u), v) \in Nat /\ CopiesAt(Held, ProcsOf(u), v) \in Nat
  <2> DEFINE h == [k \in ConnsOf(u) |-> Chans[k]]
             g == [k \in ProcsOf(u) |-> Held[k]]
  <2>1. h \in Lists(ConnsOf(u), Items) /\ g \in Lists(ProcsOf(u), Items)
    BY Typed, FiniteSets DEF Lists
  <2> HIDE DEF h, g
  <2>2. CopiesAmong(h, v) \in Nat /\ CopiesAmong(g, v) \in Nat
    BY <2>1, FiniteSets, CopiesAmongType
  <2> QED BY <2>2 DEF CopiesAt, h, g
<1>3. \A c \in Conns : \A v : Len(conn[c].chan) \in Nat /\ Copies(conn[c].chan, v) \in Nat
  BY Typed, LenProperties, CopiesType
<1>4. \A p \in Procs : \A v : Len(proc[p].held) \in Nat /\ Copies(proc[p].held, v) \in Nat
  BY Typed, LenProperties, CopiesType
<1>5. \A m, u : IsFiniteSet(ToEnqueue(m, u)) /\ IsFiniteSet(InHand(m, u))
  BY GatewayAssumption, FS_Subset DEF ToEnqueue, InHand
<1>6. \A m \in Msgs, u \in Users : settled[m][u] \in Nat
  BY DEF TypeOK
<1>7. /\ IsFiniteSet({p \in Procs : At(p, "inc")})
      /\ IsFiniteSet({d \in Dispatchers : job[d].pc = "inc"})
  BY GatewayAssumption, FiniteSets, FS_Subset
<1> QED BY <1>1, <1>2, <1>3, <1>4, <1>5, <1>6, <1>7, FS_CardinalityType
--------------------------------------------------------------------------------
(* The steps of a handler or heartbeat p, as the invariant sees them. *)

\* The handler p starts its heartbeat q.
Woken(p, q) ==
  /\ q = HeartbeatOf(p[2]) /\ p[1] = "handler"
  /\ proc[q].pc = "end" /\ proc'[q] = [proc[q] EXCEPT !.pc = "tick"]
  /\ proc'[p].pc = "read"

\* p alone moves, to a connection that is the user's ...
Moves(p) ==
  /\ proc[p].pc # "end"
  /\ \A q \in Procs \ {p} : proc'[q] = proc[q] \/ Woken(p, q)
  /\ proc'[p].old \in {NoConn, proc[p].old, store[UserOfProc(p)]}
  /\ proc'[p].pc \in Arriving => proc[p].pc \in Arriving
  /\ proc'[p].ret = "read" /\ proc'[p].pc \notin {"read", "end"} =>
       proc[p].ret = "read" /\ proc[p].pc \notin {"read", "end"}
  /\ LocalOK(p)'
  /\ UNCHANGED <<job, taken>>
\* ... and changes the store, the channels and the writers no more than this.
Leaves(p) ==
  /\ \A u \in Users : store'[u] # NoConn =>
       store'[u] = store[u] \/ (store'[u] = p[2] /\ u = UserOfProc(p) /\ p[2] \in Born')
  /\ \A c \in Conns : c \notin Born' => conn'[c].chan = conn[c].chan /\ writer'[c] = writer[c]
  /\ \A c \in Conns : writer'[c].pc # "write" => writer'[c].item = NoMsg

LEMMA BornStays ==
  ASSUME TypeOK, NEW p \in Procs, Moves(p)
  PROVE  Born \subseteq Born'
<1> SUFFICES ASSUME NEW c \in Born PROVE c \in Born'
  OBVIOUS
<1>1. Handler(c) \in Procs
  BY DEF Handler, Procs, Born
<1>2. CASE Handler(c) = p
  BY <1>2 DEF Moves, Born
<1>3. CASE Handler(c) # p
  <2>1. ~Woken(p, Handler(c))
    BY DEF Woken, Handler, HeartbeatOf
  <2>2. proc'[Handler(c)] = proc[Handler(c)]
    BY <1>1, <1>3, <2>1 DEF Moves
  <2> QED BY <2>2 DEF Born
<1> QED BY <1>2, <1>3

\* Where the handlers and heartbeats are.
LEMMA Who ==
  ASSUME NEW p \in Procs
  PROVE  /\ p[1] \in {"handler", "beat"} /\ p[2] \in Conns /\ p = <<p[1], p[2]>>
         /\ UserOfProc(p) \in Users
BY GatewayAssumption DEF Procs, UserOfProc

LEMMA MovesShape ==
  ASSUME TypeOK, Shape, NEW p \in Procs, Moves(p), Leaves(p)
  PROVE  Shape'
<1>1. Born \subseteq Born'
  BY BornStays
<1>2. ASSUME NEW q \in Procs PROVE ProcOK(q)'
  <2>1. ProcOK(q)
    BY DEF Shape
  <2>2. CASE q = p
    <3>1. StoreOK(UserOfProc(p))
      BY Who DEF Shape
    <3>2. proc'[p].old # NoConn => UserOf[proc'[p].old] = UserOfProc(p) /\ proc'[p].old \in Born
      BY <2>1, <2>2, <3>1 DEF ProcOK, StoreOK, Moves
    <3> QED BY <1>1, <2>2, <3>2 DEF ProcOK, Moves, UserOfProc
  <2>3. CASE q # p /\ proc'[q] = proc[q]
    BY <1>1, <2>1, <2>3 DEF ProcOK, LocalOK, UserOfProc
  <2>4. CASE Woken(p, q)
    <3>1. proc[q] \in ProcType
      BY Typed
    <3>2. /\ proc'[q].pc = "tick" /\ proc'[q].old = proc[q].old /\ proc'[q].held = proc[q].held
          /\ proc[q].pc = "end"
      BY <2>4, <3>1 DEF Woken, ProcType
    <3>3. LocalOK(q)'
      BY <2>1, <3>2 DEF ProcOK, LocalOK, Arriving, WithOld, Holding
    <3> QED BY <1>1, <2>1, <3>2, <3>3 DEF ProcOK, UserOfProc
  <2> QED BY <2>2, <2>3, <2>4 DEF Moves
<1>3. ASSUME NEW c \in Conns PROVE ConnOK(c)'
  <2> DEFINE h == Handler(c)
             b == HeartbeatOf(c)
  <2>1. ConnOK(c)
    BY DEF Shape
  <2>2. h \in Procs /\ b \in Procs /\ h # b /\ ~Woken(p, h)
    BY DEF Handler, HeartbeatOf, Procs, Woken
  <2>3. ASSUME proc'[h].ret = "read", proc'[h].pc \notin {"read", "end"}
        PROVE  proc'[b].pc = "end"
    <3>1. proc[h].ret = "read" /\ proc[h].pc \notin {"read", "end"}
      <4>1. CASE p = h
        BY <2>3, <4>1 DEF Moves
      <4>2. CASE p # h
        BY <2>2, <2>3, <4>2 DEF Moves
      <4> QED BY <4>1, <4>2
    <3>2. proc[b].pc = "end"
      BY <2>1, <3>1 DEF ConnOK
    <3>3. p # b
      BY <3>2 DEF Moves
    <3>4. ~Woken(p, b)
      <4>1. ASSUME Woken(p, b) PROVE p = h
        BY <4>1, Who DEF Woken, Handler, HeartbeatOf
      <4> QED BY <2>3, <4>1 DEF Woken
    <3> QED BY <2>2, <3>2, <3>3, <3>4 DEF Moves
  <2>4. c \notin Born' => conn'[c].chan = << >> /\ writer'[c].pc = "none"
    BY <1>1, <2>1 DEF ConnOK, Leaves
  <2> QED BY <2>3, <2>4 DEF ConnOK, Leaves
<1>4. ASSUME NEW u \in Users PROVE StoreOK(u)'
  <2>1. StoreOK(u)
    BY DEF Shape
  <2> QED BY <1>1, <2>1 DEF StoreOK, Leaves, UserOfProc
<1>5. ASSUME NEW d \in Dispatchers PROVE JobOK(d)'
  <2>1. JobOK(d) /\ job' = job /\ taken' = taken
    BY DEF Shape, Moves
  <2> QED BY <1>1, <2>1 DEF JobOK
<1> QED BY <1>2, <1>3, <1>4, <1>5 DEF Shape
--------------------------------------------------------------------------------
(* Most of those steps move no item. *)

Walks(p) ==
  /\ Moves(p)
  /\ proc'[p].held = proc[p].held
  /\ proc'[p].pc \in Draining =>
       proc[p].held = << >> \/ (proc[p].pc \in Draining /\ proc'[p].old = proc[p].old)
  /\ \A c \in Conns : conn'[c].chan = conn[c].chan
  /\ \A u \in Users : store'[u] \in {store[u], NoConn}
  /\ UNCHANGED <<writer, history>>

\* The others hold what they held.
LEMMA OthersHold ==
  ASSUME TypeOK, NEW p \in Procs, Moves(p), NEW q \in Procs \ {p}
  PROVE  /\ proc'[q].held = proc[q].held /\ proc'[q].old = proc[q].old
         /\ proc'[q].pc = proc[q].pc \/ (proc[q].pc = "end" /\ proc'[q].pc = "tick")
<1>1. CASE proc'[q] = proc[q]
  BY <1>1
<1>2. CASE Woken(p, q)
  <2>1. proc[q] \in ProcType
    BY Typed
  <2> QED BY <1>2, <2>1 DEF Woken, ProcType
<1> QED BY <1>1, <1>2 DEF Moves

LEMMA WalksShape ==
  ASSUME TypeOK, Shape, NEW p \in Procs, Walks(p)
  PROVE  Shape'
<1>1. \A c \in Conns : writer'[c].pc # "write" => writer'[c].item = NoMsg
  BY DEF Shape, ConnOK, Walks
<1>2. Leaves(p)
  BY <1>1 DEF Leaves, Walks
<1> QED BY <1>2, MovesShape DEF Walks

LEMMA WalksBalanced ==
  ASSUME TypeOK, TypeOK', Balanced, NEW p \in Procs, Walks(p)
  PROVE  Balanced'
<1> SUFFICES ASSUME NEW m \in Msgs, NEW u \in Users PROVE Balance(m, u)'
  BY DEF Balanced
<1>1. Chans' = Chans
  BY DEF Chans, Walks
<1>2. \A q \in Procs : proc'[q].held = proc[q].held
  BY OthersHold DEF Walks
<1>3. Held' = Held
  BY <1>2 DEF Held
<1>4. job' = job /\ taken' = taken /\ writer' = writer /\ settled' = settled
  BY DEF Walks, Moves, history
<1>5. ToEnqueue(m, u)' = ToEnqueue(m, u) /\ InHand(m, u)' = InHand(m, u)
  BY <1>4 DEF ToEnqueue, InHand
<1>6. ConnsOf(u)' = ConnsOf(u) /\ ProcsOf(u)' = ProcsOf(u)
  BY DEF ConnsOf, ProcsOf, UserOfProc
<1>7. Balance(m, u)
  BY DEF Balanced
<1> QED BY <1>1, <1>3, <1>4, <1>5, <1>6, <1>7 DEF Balance, CopiesAt

LEMMA WalksOrdered ==
  ASSUME TypeOK, Shape, Ordered, NEW p \in Procs, Walks(p)
  PROVE  Ordered'
<1>1. sent' = sent /\ writer' = writer /\ \A c \in Conns : conn'[c].chan = conn[c].chan
  BY DEF Walks, history
<1>2. ASSUME NEW c \in Conns PROVE LineInRow(c)'
  BY <1>1 DEF Ordered, LineInRow
<1>3. ASSUME NEW q \in Procs PROVE HeldInRow(q)'
  <2>1. HeldInRow(q)
    BY DEF Ordered
  <2>2. proc'[q].held = proc[q].held
    BY OthersHold DEF Walks
  <2>3. proc'[q].pc \in Draining =>
          proc[q].held = << >> \/ (proc[q].pc \in Draining /\ proc'[q].old = proc[q].old)
    BY OthersHold DEF Walks, Draining
  <2> DEFINE r == sent[UserOfProc(q)]
  <2>4. ASSUME proc'[q].pc \in Draining
        PROVE  Ahead(proc[q].held, conn'[proc'[q].old].chan, r)
    <3>1. CASE proc[q].held = << >>
      BY <3>1, EmptyInRow
    <3>2. CASE proc[q].pc \in Draining /\ proc'[q].old = proc[q].old
      <4>1. Ahead(proc[q].held, conn[proc[q].old].chan, r)
        BY <2>1, <3>2 DEF HeldInRow
      <4>2. proc[q].old \in Conns
        BY <3>2, Typed DEF Shape, ProcOK, LocalOK, ProcType, Draining, WithOld
      <4> QED BY <1>1, <3>2, <4>1, <4>2
    <3> QED BY <2>3, <2>4, <3>1, <3>2
  <2> QED BY <1>1, <2>1, <2>2, <2>4 DEF HeldInRow, UserOfProc
<1> QED BY <1>2, <1>3 DEF Ordered

\* What p counts for in totalPending.
Weight(p) == Len(Drained[p]) - One(At(p, "inc"))

LEMMA MovesPending ==
  ASSUME TypeOK, TypeOK', PendingExact, NEW p \in Procs, Moves(p),
         totalPending' = totalPending + Total(Chans)' - Total(Chans) + Weight(p)' - Weight(p)
  PROVE  PendingExact'
<1> DEFINE A == {q \in Procs : At(q, "inc")}
           D == {d \in Dispatchers : job[d].pc = "inc"}
<1>1. \A q \in Procs \ {p} : Drained'[q] = Drained[q] /\ (At(q, "inc")' <=> At(q, "inc"))
  BY OthersHold DEF Drained, At
<1>2. Total(Drained)' = Total(Drained) - Len(Drained[p]) + Len(Drained'[p])
  BY <1>1, DrainedDiffers
<1>3. /\ Cardinality(A) \in Nat /\ Cardinality(A') \in Nat
      /\ Cardinality(A') = Cardinality(A) + One(p \in A') - One(p \in A)
  <2>1. A \in SUBSET Procs /\ A' \in SUBSET Procs /\ \A q \in Procs \ {p} : q \in A <=> q \in A'
    BY <1>1
  <2> HIDE DEF A
  <2> QED BY <2>1, FiniteSets, SetsDiffer
<1>4. D' = D
  BY DEF Moves
<1>5. totalPending = Total(Chans) + Total(Drained) - Cardinality(A) - Cardinality(D)
  BY DEF PendingExact
<1>6. /\ Total(Chans) \in Nat /\ Total(Drained) \in Nat /\ Cardinality(D) \in Nat
      /\ totalPending \in Int
  BY CountsAreNat DEF TypeOK
<1>7. Total(Chans)' \in Nat
  <2>1. \A c \in Conns : conn'[c].chan \in Seq(Items)
    BY DEF TypeOK, ConnType
  <2>2. Chans' \in Lists(Conns, Items)
    BY <2>1 DEF Chans, Lists
  <2>3. Total(Chans') \in Nat
    BY <2>2, GatewayAssumption, TotalType
  <2> QED BY <2>3
<1>8. Len(Drained[p]) \in Nat /\ Len(Drained'[p]) \in Nat
  <2>1. proc[p].held \in Seq(Items) /\ proc'[p].held \in Seq(Items) /\ << >> \in Seq(Items)
    BY DEF TypeOK, ProcType
  <2>2. Drained[p] \in Seq(Items) /\ Drained'[p] \in Seq(Items)
    BY <2>1 DEF Drained
  <2> QED BY <2>2, LenProperties
<1>9. p \in A <=> At(p, "inc")
  OBVIOUS
<1>10. p \in A' <=> At(p, "inc")'
  OBVIOUS
<1>11. /\ One(p \in A) \in Nat /\ One(p \in A') \in Nat
       /\ One(p \in A) = One(At(p, "inc")) /\ One(p \in A') = One(At(p, "inc"))'
  BY <1>9, <1>10 DEF One
<1>12. Weight(p) = Len(Drained[p]) - One(p \in A) /\ Weight(p)' = Len(Drained'[p]) - One(p \in A')
  BY <1>11 DEF Weight
<1>13. SUFFICES totalPending' = Total(Chans)' + Total(Drained)' - Cardinality(A')
                                - Cardinality(D')
  BY DEF PendingExact
<1> HIDE DEF A, D
<1>14. Total(Drained)' \in Int /\ Cardinality(D') = Cardinality(D)
  BY <1>2, <1>4, <1>6, <1>8
<1> DEFINE a == One(p \in A)
           b == One(p \in A')
           k == Len(Drained[p])
           l == Len(Drained'[p])
           n == Total(Drained)'
           o == Total(Drained)
<1>15. /\ a \in Nat /\ b \in Nat /\ k \in Nat /\ l \in Nat /\ n \in Int /\ o \in Nat
       /\ n = o - k + l
       /\ Cardinality(A') = Cardinality(A) + b - a
  BY <1>2, <1>3, <1>6, <1>8, <1>11, <1>14
<1>16. totalPending' = totalPending + Total(Chans)' - Total(Chans) + (l - b) - (k - a)
  BY <1>12
<1>17. totalPending = Total(Chans) + o - Cardinality(A) - Cardinality(D)
  BY <1>5
<1> HIDE DEF a, b, k, l, n, o
<1>18. totalPending' = Total(Chans)' + n - Cardinality(A') - Cardinality(D)
  BY <1>3, <1>6, <1>7, <1>15, <1>16, <1>17
<1> QED BY <1>14, <1>18 DEF n

\* The lengths and the weight that a step leaves alone.
LEMMA WalksPending ==
  ASSUME TypeOK, TypeOK', PendingExact, NEW p \in Procs, Walks(p),
         totalPending' = totalPending + Weight(p)' - Weight(p)
  PROVE  PendingExact'
<1>1. Chans' = Chans
  BY DEF Chans, Walks
<1>2. Total(Chans)' = Total(Chans) /\ Total(Chans) \in Nat
  BY <1>1, CountsAreNat
<1>3. totalPending \in Int /\ totalPending' \in Int
  BY DEF TypeOK
<1>4. Weight(p) \in Int /\ Weight(p)' \in Int
  <2>1. proc[p].held \in Seq(Items) /\ proc'[p].held \in Seq(Items) /\ << >> \in Seq(Items)
    BY DEF TypeOK, ProcType
  <2>2. Drained[p] \in Seq(Items) /\ Drained'[p] \in Seq(Items)
    BY <2>1 DEF Drained
  <2>3. Len(Drained[p]) \in Nat /\ Len(Drained'[p]) \in Nat
    BY <2>2, LenProperties
  <2> QED BY <2>3 DEF Weight, One
<1>5. totalPending' = totalPending + Total(Chans)' - Total(Chans) + Weight(p)' - Weight(p)
  BY <1>2, <1>3, <1>4
<1> QED BY <1>5, MovesPending DEF Walks

\* A step that also leaves totalPending alone, and what counts in it.
Quiet(p) ==
  /\ Walks(p) /\ totalPending' = totalPending
  /\ proc[p].pc \notin {"inc", "rback"} /\ proc'[p].pc # "inc"
  /\ proc'[p].pc = "rback" => proc[p].held = << >>

LEMMA QuietKeeps ==
  ASSUME IInv, TypeOK', NEW p \in Procs, Quiet(p)
  PROVE  IInv'
<1>1. TypeOK /\ Shape /\ Balanced /\ Ordered /\ PendingExact /\ Walks(p)
  BY DEF IInv, Quiet
<1>2. Shape' /\ Balanced' /\ Ordered'
  BY <1>1, WalksShape, WalksBalanced, WalksOrdered
<1>3. Drained'[p] = Drained[p]
  BY DEF Quiet, Walks, Drained, At
<1>4. ~At(p, "inc") /\ ~At(p, "inc")'
  BY DEF Quiet, At
<1>5. Weight(p)' = Weight(p)
  BY <1>3, <1>4 DEF Weight, One
<1>6. Weight(p) \in Int /\ totalPending \in Int
  <2>1. Drained[p] \in Seq(Items)
    BY <1>1, Typed DEF Lists
  <2>2. Len(Drained[p]) \in Nat
    BY <2>1, LenProperties
  <2> QED BY <1>1, <2>2 DEF Weight, One, TypeOK
<1>7. totalPending' = totalPending + Weight(p)' - Weight(p)
  BY <1>5, <1>6 DEF Quiet
<1>8. PendingExact'
  BY <1>1, <1>7, WalksPending
<1> QED BY <1>2, <1>8 DEF IInv
--------------------------------------------------------------------------------
(* What the assignments of the steps do. *)

LEMMA Went ==
  ASSUME TypeOK, NEW p \in Procs, NEW x \in ProcPC, Goto(p, x)
  PROVE  /\ proc' \in [Procs -> ProcType]
         /\ \A q \in Procs \ {p} : proc'[q] = proc[q]
         /\ proc'[p].pc = x /\ proc'[p].old = proc[p].old /\ proc'[p].held = proc[p].held
         /\ proc'[p].ret = proc[p].ret /\ proc'[p].fails = proc[p].fails
         /\ proc'[p].n = proc[p].n
BY DEF Goto, TypeOK, ProcType

\* p loads the connection of its user.
LEMMA Loaded ==
  ASSUME TypeOK, NEW p \in Procs, NEW x \in ProcPC, NEW f \in 0 .. 1,
         proc' = [proc EXCEPT ![p].old = store[UserOfProc(p)], ![p].fails = f, ![p].pc = x]
  PROVE  /\ proc' \in [Procs -> ProcType]
         /\ \A q \in Procs \ {p} : proc'[q] = proc[q]
         /\ proc'[p].pc = x /\ proc'[p].old = store[UserOfProc(p)]
         /\ proc'[p].held = proc[p].held /\ proc'[p].ret = proc[p].ret /\ proc'[p].fails = f
         /\ proc'[p].n = proc[p].n
<1> DEFINE o == store[UserOfProc(p)]
           r == [proc[p] EXCEPT !.old = o, !.fails = f, !.pc = x]
<1>1. o \in Conns \cup {NoConn}
  BY Who DEF TypeOK
<1>2. proc' = [proc EXCEPT ![p] = r]
  OBVIOUS
<1> HIDE DEF o
<1>3. r \in ProcType
  BY <1>1 DEF TypeOK, ProcType
<1>4. /\ r.pc = x /\ r.old = o /\ r.held = proc[p].held /\ r.ret = proc[p].ret
      /\ r.fails = f /\ r.n = proc[p].n
  BY DEF TypeOK, ProcType
<1> HIDE DEF r
<1>5. /\ proc' \in [Procs -> ProcType] /\ proc'[p] = r
      /\ \A q \in Procs \ {p} : proc'[q] = proc[q]
  BY <1>2, <1>3 DEF TypeOK
<1> QED BY <1>4, <1>5 DEF o

LEMMA FailedOnce ==
  ASSUME TypeOK, NEW p \in Procs, Failed(p)
  PROVE  /\ proc' \in [Procs -> ProcType]
         /\ \A q \in Procs \ {p} : proc'[q] = proc[q]
         /\ proc'[p].pc = IF proc[p].fails = 0 THEN "send" ELSE "rload"
         /\ proc'[p].old = proc[p].old /\ proc'[p].held = proc[p].held
         /\ proc'[p].ret = proc[p].ret /\ proc'[p].fails = 1 /\ proc'[p].n = proc[p].n
<1>1. (IF proc[p].fails = 0 THEN "send" ELSE "rload") \in ProcPC
  BY DEF ProcPC
<1>2. proc[p] \in ProcType /\ proc \in [Procs -> ProcType]
  BY Typed DEF TypeOK
<1>3. PICK x \in ProcPC : /\ x = IF proc[p].fails = 0 THEN "send" ELSE "rload"
                          /\ proc' = [proc EXCEPT ![p].fails = 1, ![p].pc = x]
  BY <1>1 DEF Failed
<1>4. PICK f \in 0 .. 1 : f = 1
  OBVIOUS
<1> HIDE <1>1
<1>5. proc' = [proc EXCEPT ![p].fails = f, ![p].pc = x]
  BY <1>3, <1>4
<1>6. proc' \in [Procs -> ProcType]
  BY <1>2, <1>5 DEF ProcType
<1>7. /\ \A q \in Procs \ {p} : proc'[q] = proc[q]
      /\ proc'[p].pc = x /\ proc'[p].fails = f
      /\ proc'[p].old = proc[p].old /\ proc'[p].held = proc[p].held
      /\ proc'[p].ret = proc[p].ret /\ proc'[p].n = proc[p].n
  BY <1>2, <1>5 DEF ProcType
<1> QED BY <1>3, <1>4, <1>6, <1>7

\* The call is over; a handler that goes on to read starts its heartbeat.
LEMMA Resumed ==
  ASSUME TypeOK, Shape, NEW p \in Procs, Resume(p), proc[p].pc \notin {"read", "end"}
  PROVE  /\ proc' \in [Procs -> ProcType]
         /\ \A q \in Procs \ {p} : proc'[q] = proc[q] \/ Woken(p, q)
         /\ proc'[p].pc = proc[p].ret /\ proc'[p].old = NoConn
         /\ proc'[p].held = proc[p].held /\ proc'[p].ret = proc[p].ret
<1>1. \A q \in Procs : proc[q] \in ProcType
  BY Typed
<1>2. ASSUME NEW q \in Procs PROVE proc'[q] \in ProcType
  <2>1. CASE q = p
    <3>1. proc[p].ret \in ProcPC
      BY <1>1 DEF ProcType, ProcPC
    <3>2. PICK f \in 0 .. 1 : f = 0
      OBVIOUS
    <3>3. proc'[p] = [proc[p] EXCEPT !.pc = proc[p].ret, !.old = NoConn, !.fails = f,
                                     !.answer = "none"]
      BY <3>2 DEF Resume
    <3> QED BY <1>1, <2>1, <3>1, <3>3 DEF ProcType
  <2>2. CASE q # p
    <3>1. proc'[q] = [proc[q] EXCEPT !.pc = "tick"] \/ proc'[q] = proc[q]
      BY <2>2 DEF Resume
    <3>2. "tick" \in ProcPC
      BY DEF ProcPC
    <3> QED BY <1>1, <3>1, <3>2 DEF ProcType
  <2> QED BY <2>1, <2>2
<1>3. proc'[p] = [proc[p] EXCEPT !.pc = proc[p].ret, !.old = NoConn, !.fails = 0,
                                 !.answer = "none"]
  BY DEF Resume
<1>4. /\ proc'[p].pc = proc[p].ret /\ proc'[p].old = NoConn
      /\ proc'[p].held = proc[p].held /\ proc'[p].ret = proc[p].ret
  BY <1>1, <1>3 DEF ProcType
<1>5. ASSUME NEW q \in Procs \ {p}, proc'[q] # proc[q] PROVE Woken(p, q)
  <2>1. q = HeartbeatOf(p[2]) /\ proc[p].ret = "read" /\ proc'[q] = [proc[q] EXCEPT !.pc = "tick"]
    BY <1>5 DEF Resume, HeartbeatOf
  <2>2. p[1] = "handler" /\ p = Handler(p[2])
    BY <2>1, Who DEF HeartbeatOf, Handler
  <2>3. ConnOK(p[2])
    BY Who DEF Shape
  <2>4. proc[q].pc = "end"
    BY <2>1, <2>2, <2>3 DEF ConnOK
  <2> QED BY <1>4, <2>1, <2>2, <2>4 DEF Woken
<1>6. proc' \in [Procs -> ProcType]
  BY <1>2 DEF Resume
<1> QED BY <1>4, <1>5, <1>6

\* A connection is closed in some way; its channel keeps what is on it.
LEMMA Closed ==
  ASSUME TypeOK, NEW c \in Conns,
         \/ conn' = [conn EXCEPT ![c].stopped = TRUE]
         \/ conn' = [conn EXCEPT ![c].closed = TRUE]
         \/ conn' = [conn EXCEPT ![c].sock = "open"]
         \/ conn' = [conn EXCEPT ![c].sock = "closed"]
         \/ conn' = conn
  PROVE  conn' \in [Conns -> ConnType] /\ \A k \in Conns : conn'[k].chan = conn[k].chan
<1>1. \A k \in Conns : conn[k] \in ConnType
  BY Typed
<1>2. DOMAIN conn = Conns /\ DOMAIN conn' = Conns
  BY DEF TypeOK
<1>3. conn' = [k \in Conns |-> conn'[k]]
  BY DEF TypeOK
<1>4. ASSUME NEW k \in Conns PROVE conn'[k] \in ConnType /\ conn'[k].chan = conn[k].chan
  <2>1. CASE conn' = [conn EXCEPT ![c].stopped = TRUE]
    BY <1>1, <1>2, <2>1 DEF ConnType
  <2>2. CASE conn' = [conn EXCEPT ![c].closed = TRUE]
    BY <1>1, <1>2, <2>2 DEF ConnType
  <2>3. CASE conn' = [conn EXCEPT ![c].sock = "open"]
    BY <1>1, <1>2, <2>3 DEF ConnType
  <2>4. CASE conn' = [conn EXCEPT ![c].sock = "closed"]
    BY <1>1, <1>2, <2>4 DEF ConnType
  <2>5. CASE conn' = conn
    BY <1>1, <2>5
  <2> QED BY <2>1, <2>2, <2>3, <2>4, <2>5
<1> QED BY <1>3, <1>4

\* A step that moves no item is of the right types.
Plain(p) ==
  /\ proc' \in [Procs -> ProcType]
  /\ conn' \in [Conns -> ConnType] /\ \A c \in Conns : conn'[c].chan = conn[c].chan
  /\ store' = store \/ store' = [store EXCEPT ![UserOfProc(p)] = NoConn]
  /\ connCount' \in Int /\ totalPending' \in Int /\ fatal' \in BOOLEAN
  /\ UNCHANGED <<writer, job, taken, history>>

LEMMA PlainType ==
  ASSUME TypeOK, NEW p \in Procs, Plain(p)
  PROVE  /\ TypeOK'
         /\ \A u \in Users : store'[u] \in {store[u], NoConn}
<1>1. UserOfProc(p) \in Users
  BY Who
<1>2. store' \in [Users -> Conns \cup {NoConn}] /\ \A u \in Users : store'[u] \in {store[u], NoConn}
  BY <1>1 DEF Plain, TypeOK
<1> QED BY <1>2 DEF Plain, TypeOK, history

LEMMA PlainKeeps ==
  ASSUME IInv, NEW p \in Procs, Plain(p), Moves(p), totalPending' = totalPending,
         proc'[p].held = proc[p].held,
         proc'[p].pc \in Draining =>
           proc[p].held = << >> \/ (proc[p].pc \in Draining /\ proc'[p].old = proc[p].old),
         proc[p].pc \notin {"inc", "rback"}, proc'[p].pc # "inc",
         proc'[p].pc = "rback" => proc[p].held = << >>
  PROVE  IInv'
<1>1. TypeOK
  BY DEF IInv
<1>2. TypeOK' /\ \A u \in Users : store'[u] \in {store[u], NoConn}
  BY <1>1, PlainType
<1>3. Walks(p)
  BY <1>2 DEF Walks, Plain
<1>4. Quiet(p)
  BY <1>3 DEF Quiet
<1> QED BY <1>2, <1>4, QuietKeeps
--------------------------------------------------------------------------------
(* RegisterConnection. *)

LEMMA Unfolded ==
  ASSUME IInv, NEW p \in Procs
  PROVE  /\ TypeOK /\ Shape /\ Balanced /\ Ordered /\ PendingExact /\ LocalOK(p)
         /\ proc[p] \in ProcType /\ p[2] \in Conns /\ UserOfProc(p) \in Users
         /\ proc[p].old # NoConn => /\ UserOf[proc[p].old] = UserOfProc(p)
                                    /\ proc[p].old \in Born /\ proc[p].old \in Conns
<1>1. TypeOK /\ Shape /\ Balanced /\ Ordered /\ PendingExact /\ ProcOK(p)
  BY DEF IInv, Shape
<1> QED BY <1>1, Typed, Who DEF ProcOK, Born

LEMMA ConnectKeeps ==
  ASSUME IInv, NEW p \in Procs, Connect(p)
  PROVE  IInv'
<1>1. TypeOK /\ LocalOK(p) /\ p[2] \in Conns /\ proc[p].pc = "connect"
  BY Unfolded DEF Connect, At
<1>2. PICK x \in ProcPC : Goto(p, x) /\ x \in {"end", "load"}
  BY DEF Connect, ProcPC
<1>3. conn' \in [Conns -> ConnType] /\ \A c \in Conns : conn'[c].chan = conn[c].chan
  <2>1. conn' = conn \/ conn' = [conn EXCEPT ![p[2]].sock = "open"]
    BY DEF Connect
  <2> QED BY <1>1, <2>1, Closed
<1>4. /\ proc' \in [Procs -> ProcType]
      /\ \A q \in Procs \ {p} : proc'[q] = proc[q]
      /\ proc'[p].pc = x /\ proc'[p].old = proc[p].old /\ proc'[p].held = proc[p].held
      /\ proc'[p].ret = proc[p].ret /\ proc'[p].n = proc[p].n
  BY <1>1, <1>2, Went
<1>5. Moves(p)
  BY <1>1, <1>2, <1>4 DEF Connect, Moves, LocalOK, Arriving, WithOld, Holding
<1>6. Plain(p)
  BY <1>1, <1>3, <1>4 DEF Connect, Plain, TypeOK
<1>7. proc'[p].pc \notin Draining \cup {"inc", "rback"}
  BY <1>2, <1>4 DEF Draining
<1> QED BY <1>1, <1>4, <1>5, <1>6, <1>7, PlainKeeps DEF Connect

LEMMA LoadOldKeeps ==
  ASSUME IInv, NEW p \in Procs, LoadOld(p)
  PROVE  IInv'
<1>1. TypeOK /\ LocalOK(p) /\ p[2] \in Conns /\ proc[p].pc = "load" /\ proc[p].held = << >>
  BY Unfolded DEF LoadOld, At, LocalOK, Holding
<1>2. proc[p].fails \in 0 .. 1
  BY Unfolded DEF ProcType
<1>3. /\ proc' \in [Procs -> ProcType]
      /\ \A q \in Procs \ {p} : proc'[q] = proc[q]
      /\ proc'[p].pc = IF store[UserOfProc(p)] = NoConn THEN "store" ELSE "stop"
      /\ proc'[p].old = store[UserOfProc(p)] /\ proc'[p].held = proc[p].held
      /\ proc'[p].ret = proc[p].ret /\ proc'[p].n = proc[p].n
  <2>1. PICK x \in ProcPC : x = IF store[UserOfProc(p)] = NoConn THEN "store" ELSE "stop"
    BY DEF ProcPC
  <2>2. proc' = [proc EXCEPT ![p].old = store[UserOfProc(p)], ![p].fails = proc[p].fails,
                             ![p].pc = x]
    <3> DEFINE o == store[UserOfProc(p)]
    <3>1. proc' = [proc EXCEPT ![p].old = o, ![p].pc = x]
      BY <2>1 DEF LoadOld
    <3> HIDE DEF o
    <3>2. proc[p] \in ProcType
      BY <1>1, Typed
    <3>3. [proc[p] EXCEPT !.old = o, !.pc = x]
            = [proc[p] EXCEPT !.old = o, !.fails = proc[p].fails, !.pc = x]
      BY <3>2 DEF ProcType
    <3> QED BY <3>1, <3>3 DEF o
  <2> QED BY <1>1, <1>2, <2>1, <2>2, Loaded
<1>4. Moves(p)
  BY <1>1, <1>3 DEF LoadOld, Moves, LocalOK, Arriving, WithOld, Holding
<1>5. Plain(p)
  BY <1>1, <1>3 DEF LoadOld, Plain, TypeOK
<1>6. proc'[p].pc \notin Draining \cup {"inc", "rback"}
  BY <1>3 DEF Draining
<1> QED BY <1>1, <1>3, <1>4, <1>5, <1>6, PlainKeeps DEF LoadOld

\* p goes on to x, and does no more than close a connection or unlist one.
LEMMA GoesOn ==
  ASSUME IInv, NEW p \in Procs, NEW x \in ProcPC, Goto(p, x),
         proc[p].pc \notin {"inc", "rback", "read", "end"},
         x \notin {"inc", "greet", "send", "await"},
         x \in WithOld => proc[p].old # NoConn,
         x \in Arriving => proc[p].pc \in Arriving,
         proc[p].held = << >> \/ (x \in Holding \ {"rback"} /\ (x \in Draining => proc[p].pc = x)),
         NEW c \in Conns,
         \/ conn' = [conn EXCEPT ![c].stopped = TRUE]
         \/ conn' = [conn EXCEPT ![c].closed = TRUE]
         \/ conn' = [conn EXCEPT ![c].sock = "closed"]
         \/ conn' = conn,
         store' = store \/ store' = [store EXCEPT ![UserOfProc(p)] = NoConn],
         connCount' \in Int, fatal' \in BOOLEAN,
         UNCHANGED <<totalPending, writer, job, taken, history>>
  PROVE  IInv'
<1>1. TypeOK /\ LocalOK(p)
  BY Unfolded
<1>2. conn' \in [Conns -> ConnType] /\ \A k \in Conns : conn'[k].chan = conn[k].chan
  BY <1>1, Closed
<1>3. /\ proc' \in [Procs -> ProcType]
      /\ \A q \in Procs \ {p} : proc'[q] = proc[q]
      /\ proc'[p].pc = x /\ proc'[p].old = proc[p].old /\ proc'[p].held = proc[p].held
      /\ proc'[p].ret = proc[p].ret /\ proc'[p].n = proc[p].n
  BY <1>1, Went
<1>4. LocalOK(p)'
  BY <1>1, <1>3 DEF LocalOK, Arriving
<1>5. Moves(p)
  BY <1>3, <1>4 DEF Moves
<1>6. Plain(p)
  BY <1>1, <1>2, <1>3 DEF Plain, TypeOK
<1> QED BY <1>3, <1>5, <1>6, PlainKeeps

LEMMA StopOldKeeps ==
  ASSUME IInv, NEW p \in Procs, StopOld(p)
  PROVE  IInv'
<1>1. TypeOK /\ proc[p].pc = "stop" /\ proc[p].old \in Conns \ {NoConn} /\ proc[p].held = << >>
  BY Unfolded DEF StopOld, At, LocalOK, Holding, WithOld
<1> QED BY <1>1, GoesOn DEF StopOld, TypeOK, ProcPC, Arriving, WithOld

LEMMA CloseOldChKeeps ==
  ASSUME IInv, NEW p \in Procs, CloseOldCh(p)
  PROVE  IInv'
<1>1. TypeOK /\ proc[p].pc = "closeCh" /\ proc[p].old \in Conns \ {NoConn}
  BY Unfolded, GatewayAssumption DEF CloseOldCh, At, LocalOK, WithOld
<1> QED BY <1>1, GoesOn DEF CloseOldCh, TypeOK, ProcPC, Arriving, WithOld, Holding, Draining

LEMMA CloseOldConnKeeps ==
  ASSUME IInv, NEW p \in Procs, CloseOldConn(p)
  PROVE  IInv'
<1>1. TypeOK /\ proc[p].pc = "closeConn" /\ proc[p].old \in Conns \ {NoConn}
  BY Unfolded, GatewayAssumption DEF CloseOldConn, At, LocalOK, WithOld
<1>2. connCount' \in Int
  BY <1>1 DEF CloseOldConn, TypeOK
<1> QED BY <1>1, <1>2, GoesOn DEF CloseOldConn, TypeOK, ProcPC, Arriving, WithOld, Holding, Draining

LEMMA UnstoreOldKeeps ==
  ASSUME IInv, NEW p \in Procs, UnstoreOld(p)
  PROVE  IInv'
<1>1. TypeOK /\ proc[p].pc = "unstore" /\ proc[p].old \in Conns \ {NoConn}
  BY Unfolded, GatewayAssumption DEF UnstoreOld, At, LocalOK, WithOld
<1> QED BY <1>1, GoesOn DEF UnstoreOld, TypeOK, ProcPC, Arriving, WithOld, Holding, Draining

\* The drain of the old channel, or of the holder's, finds the channel empty.
LEMMA DrainEndsKeeps ==
  ASSUME IInv, NEW p \in Procs, NEW from, NEW to, Drain(p, from, to),
         <<from, to>> \in {<<"drain", "closeCh">>, <<"rdrain", "rcloseCh">>},
         conn[proc[p].old].chan = << >>
  PROVE  IInv'
<1>1. TypeOK /\ proc[p].pc = from /\ proc[p].old \in Conns \ {NoConn}
  BY Unfolded, GatewayAssumption DEF Drain, At, LocalOK, WithOld
<1>2. Goto(p, to) /\ UNCHANGED <<conn, store, connCount, fatal, totalPending, writer, job, taken,
                                 history>>
  BY DEF Drain, history
<1>3. /\ to \in ProcPC /\ to \notin {"inc", "greet", "send", "await"}
      /\ from \notin {"inc", "rback", "read", "end"}
      /\ to \in Arriving => from \in Arriving
      /\ to \in Holding \ {"rback"} /\ to \notin Draining
  BY DEF ProcPC, Arriving, Holding, Draining
<1> QED BY <1>1, <1>2, <1>3, GoesOn DEF TypeOK
--------------------------------------------------------------------------------
(* WriteJSONSafe. *)

\* p goes back to what it was called from.
LEMMA ResumeKeeps ==
  ASSUME IInv, NEW p \in Procs, Resume(p),
         proc[p].pc \notin {"inc", "rback", "read", "end"}, proc[p].held = << >>,
         store' = store \/ store' = [store EXCEPT ![UserOfProc(p)] = NoConn],
         connCount' \in Int,
         UNCHANGED <<conn, totalPending, writer, job, taken, fatal, history>>
  PROVE  IInv'
<1>1. TypeOK /\ Shape /\ LocalOK(p) /\ proc[p].ret \in {"read", "end"}
  BY Unfolded DEF ProcType
<1>2. /\ proc' \in [Procs -> ProcType]
      /\ \A q \in Procs \ {p} : proc'[q] = proc[q] \/ Woken(p, q)
      /\ proc'[p].pc = proc[p].ret /\ proc'[p].old = NoConn
      /\ proc'[p].held = proc[p].held /\ proc'[p].ret = proc[p].ret
  BY <1>1, Resumed
<1>3. LocalOK(p)'
  BY <1>1, <1>2 DEF LocalOK, Arriving, WithOld
<1>4. Moves(p)
  BY <1>1, <1>2, <1>3 DEF Moves, Arriving
<1>5. Plain(p)
  BY <1>1, <1>2 DEF Plain, TypeOK
<1>6. proc'[p].pc \notin Draining \cup {"inc", "rback"}
  BY <1>1, <1>2 DEF Draining
<1> QED BY <1>1, <1>2, <1>4, <1>5, <1>6, PlainKeeps

\* p loads the connection of its user and goes on to x, which is to use it.
LEMMA LoadedKeeps ==
  ASSUME IInv, NEW p \in Procs, NEW x \in {"send", "rstop"}, NEW f \in 0 .. 1,
         proc' = [proc EXCEPT ![p].old = store[UserOfProc(p)], ![p].fails = f, ![p].pc = x],
         store[UserOfProc(p)] # NoConn, x = "send" => proc[p].n = 0,
         proc[p].pc \notin {"inc", "rback", "read", "end"}, proc[p].held = << >>,
         UNCHANGED <<store, conn, connCount, totalPending, writer, job, taken, fatal, history>>
  PROVE  IInv'
<1>1. TypeOK /\ LocalOK(p)
  BY Unfolded
<1>2. x \in ProcPC
  BY DEF ProcPC
<1>3. /\ proc' \in [Procs -> ProcType]
      /\ \A q \in Procs \ {p} : proc'[q] = proc[q]
      /\ proc'[p].pc = x /\ proc'[p].old = store[UserOfProc(p)]
      /\ proc'[p].held = proc[p].held /\ proc'[p].ret = proc[p].ret /\ proc'[p].fails = f
      /\ proc'[p].n = proc[p].n
  BY <1>1, <1>2, Loaded
<1>4. LocalOK(p)'
  BY <1>1, <1>3 DEF LocalOK, Arriving
<1>5. Moves(p)
  BY <1>1, <1>3, <1>4 DEF Moves, Arriving
<1>6. Plain(p)
  BY <1>1, <1>3 DEF Plain, TypeOK
<1> QED BY <1>3, <1>5, <1>6, PlainKeeps DEF Draining

\* The write of p has failed.
LEMMA FailedKeeps ==
  ASSUME IInv, NEW p \in Procs, Failed(p), proc[p].pc \in {"send", "await"},
         UNCHANGED <<store, conn, connCount, totalPending, writer, job, taken, fatal, history>>
  PROVE  IInv'
<1>1. /\ TypeOK /\ LocalOK(p) /\ proc[p].held = << >> /\ proc[p].old # NoConn
      /\ proc[p].n \in 0 .. 2 /\ proc[p].fails \in 0 .. 1
  BY Unfolded DEF LocalOK, Holding, WithOld, ProcType
<1>2. /\ proc' \in [Procs -> ProcType]
      /\ \A q \in Procs \ {p} : proc'[q] = proc[q]
      /\ proc'[p].pc = IF proc[p].fails = 0 THEN "send" ELSE "rload"
      /\ proc'[p].old = proc[p].old /\ proc'[p].held = proc[p].held
      /\ proc'[p].ret = proc[p].ret /\ proc'[p].fails = 1 /\ proc'[p].n = proc[p].n
  BY <1>1, FailedOnce
<1>3. proc[p].fails = 0 => proc[p].n <= 1
  BY <1>1 DEF LocalOK
<1>4. LocalOK(p)'
  BY <1>1, <1>2, <1>3 DEF LocalOK, Arriving, WithOld
<1>5. Moves(p)
  BY <1>1, <1>2, <1>4 DEF Moves, Arriving
<1>6. Plain(p)
  BY <1>1, <1>2 DEF Plain, TypeOK
<1>7. proc'[p].pc \notin Draining \cup {"inc", "rback"}
  BY <1>2 DEF Draining
<1> QED BY <1>1, <1>2, <1>5, <1>6, <1>7, PlainKeeps

LEMMA GreetKeeps ==
  ASSUME IInv, NEW p \in Procs, Greet(p)
  PROVE  IInv'
<1>1. /\ TypeOK /\ Shape /\ LocalOK(p) /\ proc[p].pc = "greet" /\ proc[p].held = << >>
      /\ proc[p].n = 0
  BY Unfolded DEF Greet, At, LocalOK, Holding
<1>2. CASE Resume(p)
  BY <1>1, <1>2, ResumeKeeps DEF Greet, TypeOK
<1>3. CASE ~Resume(p)
  <2>1. store[UserOfProc(p)] # NoConn
    BY <1>3 DEF Greet
  <2>2. PICK f \in 0 .. 1 : f = 1
    OBVIOUS
  <2>3. proc' = [proc EXCEPT ![p].old = store[UserOfProc(p)], ![p].fails = f, ![p].pc = "send"]
    BY <1>3, <2>2 DEF Greet
  <2> QED BY <1>1, <2>1, <2>2, <2>3, LoadedKeeps DEF Greet
<1> QED BY <1>2, <1>3

LEMMA TickKeeps ==
  ASSUME IInv, NEW p \in Procs, Tick(p)
  PROVE  IInv'
<1>1. PICK f \in 0 .. 1 : f = 0
  OBVIOUS
<1>2. proc' = [proc EXCEPT ![p].old = store[UserOfProc(p)], ![p].fails = f, ![p].pc = "send"]
  BY <1>1 DEF Tick
<1>3. proc[p].pc = "tick" /\ proc[p].held = << >> /\ proc[p].n = 0
  BY Unfolded DEF Tick, At, LocalOK, Holding
<1> QED BY <1>2, <1>3, LoadedKeeps DEF Tick

LEMMA SendPanicsKeeps ==
  ASSUME IInv, NEW p \in Procs, SendPanics(p)
  PROVE  IInv'
<1>1. /\ TypeOK /\ Shape /\ LocalOK(p) /\ proc[p].pc = "send" /\ proc[p].held = << >>
      /\ p[2] \in Conns
  BY Unfolded DEF SendPanics, At, LocalOK, Holding
<1>2. CASE Goto(p, "end") /\ UNCHANGED fatal
  <2>1. "end" \in ProcPC /\ "end" \notin WithOld \cup Arriving
    BY DEF ProcPC, WithOld, Arriving
  <2> QED BY <1>1, <1>2, <2>1, GoesOn DEF SendPanics, TypeOK
<1>3. CASE fatal' = TRUE /\ UNCHANGED proc
  <2>1. Moves(p)
    BY <1>1, <1>3 DEF Moves, LocalOK, SendPanics
  <2>2. Plain(p)
    BY <1>1, <1>3 DEF Plain, SendPanics, TypeOK
  <2> QED BY <1>1, <1>3, <2>1, <2>2, PlainKeeps DEF SendPanics
<1> QED BY <1>2, <1>3 DEF SendPanics

LEMMA AwaitKeeps ==
  ASSUME IInv, NEW p \in Procs, Await(p)
  PROVE  IInv'
<1>1. TypeOK /\ proc[p].pc = "await" /\ proc[p].held = << >> /\ p[2] \in Conns
  BY Unfolded DEF Await, At, LocalOK, Holding
<1>2. CASE Failed(p)
  BY <1>1, <1>2, FailedKeeps DEF Await
<1>3. CASE Resume(p)
  BY <1>1, <1>3, ResumeKeeps DEF Await, TypeOK
<1>4. CASE Goto(p, "tick")
  <2>1. "tick" \in ProcPC /\ "tick" \notin WithOld \cup Arriving
    BY DEF ProcPC, WithOld, Arriving
  <2> QED BY <1>1, <1>4, <2>1, GoesOn DEF Await, TypeOK
<1> QED BY <1>2, <1>3, <1>4 DEF Await

LEMMA SendTimeoutKeeps ==
  ASSUME IInv, NEW p \in Procs, SendTimeout(p)
  PROVE  IInv'
BY FailedKeeps DEF SendTimeout, At

LEMMA ReadErrorKeeps ==
  ASSUME IInv, NEW p \in Procs, ReadError(p)
  PROVE  IInv'
<1>1. TypeOK /\ Shape /\ LocalOK(p) /\ proc[p].pc = "read" /\ proc[p].held = << >>
  BY Unfolded DEF ReadError, At, LocalOK, Holding
<1>2. /\ proc' \in [Procs -> ProcType]
      /\ \A q \in Procs \ {p} : proc'[q] = proc[q]
      /\ proc'[p].pc = "rload" /\ proc'[p].ret = "end"
      /\ proc'[p].old = proc[p].old /\ proc'[p].held = proc[p].held
  <2>1. PICK x \in ProcPC, r \in {"read", "end"} : x = "rload" /\ r = "end"
    BY DEF ProcPC
  <2>2. proc' = [proc EXCEPT ![p].ret = r, ![p].pc = x]
    BY <2>1 DEF ReadError
  <2>3. /\ proc' \in [Procs -> ProcType]
        /\ \A q \in Procs \ {p} : proc'[q] = proc[q]
        /\ proc'[p].pc = x /\ proc'[p].ret = r
        /\ proc'[p].old = proc[p].old /\ proc'[p].held = proc[p].held
    <3> DEFINE t == [proc[p] EXCEPT !.ret = r, !.pc = x]
    <3>1. t \in ProcType
      BY <1>1 DEF TypeOK, ProcType
    <3>2. t.pc = x /\ t.ret = r /\ t.old = proc[p].old /\ t.held = proc[p].held
      BY <1>1 DEF TypeOK, ProcType
    <3>3. proc' = [proc EXCEPT ![p] = t]
      BY <2>2
    <3> HIDE DEF t
    <3> QED BY <1>1, <3>1, <3>2, <3>3 DEF TypeOK
  <2> QED BY <2>1, <2>3
<1>3. LocalOK(p)'
  BY <1>1, <1>2 DEF LocalOK, Arriving, WithOld
<1>4. Moves(p)
  BY <1>1, <1>2, <1>3 DEF Moves, Arriving, ReadError
<1>5. Plain(p)
  BY <1>1, <1>2 DEF Plain, TypeOK, ReadError
<1> QED BY <1>1, <1>2, <1>4, <1>5, PlainKeeps DEF Draining, ReadError

\* The items on the channels stay; one that has been sent is counted.
LEMMA IncProcKeeps ==
  ASSUME IInv, NEW p \in Procs, IncProc(p)
  PROVE  IInv'
<1>1. /\ TypeOK /\ Shape /\ Balanced /\ Ordered /\ PendingExact
      /\ LocalOK(p) /\ proc[p].pc = "inc" /\ proc[p].held = << >>
  BY Unfolded DEF IncProc, At, LocalOK, Holding
<1>2. "await" \in ProcPC
  BY DEF ProcPC
<1>3. /\ proc' \in [Procs -> ProcType]
      /\ \A q \in Procs \ {p} : proc'[q] = proc[q]
      /\ proc'[p].pc = "await" /\ proc'[p].old = proc[p].old /\ proc'[p].held = proc[p].held
      /\ proc'[p].ret = proc[p].ret /\ proc'[p].fails = proc[p].fails /\ proc'[p].n = proc[p].n
  BY <1>1, <1>2, Went DEF IncProc
<1>4. LocalOK(p)'
  BY <1>1, <1>3 DEF LocalOK, Arriving, WithOld
<1>5. Moves(p)
  BY <1>1, <1>3, <1>4 DEF Moves, Arriving, IncProc
<1>6. totalPending \in Int /\ totalPending' = totalPending + 1 /\ totalPending' \in Int
  BY <1>1 DEF IncProc, TypeOK
<1>7. Plain(p)
  BY <1>1, <1>3, <1>6 DEF Plain, TypeOK, IncProc
<1>8. TypeOK' /\ \A u \in Users : store'[u] \in {store[u], NoConn}
  BY <1>1, <1>7, PlainType
<1>9. Walks(p)
  BY <1>3, <1>5, <1>8 DEF Walks, IncProc, Draining
<1>10. Weight(p) = -1 /\ Weight(p)' = 0
  <2>1. Drained[p] = << >> /\ Drained'[p] = << >> /\ At(p, "inc") /\ ~At(p, "inc")'
    BY <1>1, <1>3 DEF Drained, At
  <2>2. Len(Drained[p]) = 0 /\ Len(Drained'[p]) = 0
    BY <2>1
  <2> QED BY <2>1, <2>2 DEF Weight, One
<1>11. totalPending' = totalPending + Weight(p)' - Weight(p)
  BY <1>6, <1>10
<1> QED BY <1>1, <1>8, <1>9, <1>11, WalksShape, WalksBalanced, WalksOrdered, WalksPending DEF IInv
--------------------------------------------------------------------------------
(* RemoveConnection. *)

LEMMA LoadHolderKeeps ==
  ASSUME IInv, NEW p \in Procs, LoadHolder(p)
  PROVE  IInv'
<1>1. TypeOK /\ proc[p].pc = "rload" /\ proc[p].held = << >> /\ proc[p].fails \in 0 .. 1
  BY Unfolded DEF LoadHolder, At, LocalOK, Holding, ProcType
<1>2. CASE Resume(p)
  BY <1>1, <1>2, ResumeKeeps DEF LoadHolder, TypeOK
<1>3. CASE ~Resume(p)
  <2>1. /\ store[UserOfProc(p)] # NoConn
        /\ proc' = [proc EXCEPT ![p].old = store[UserOfProc(p)], ![p].pc = "rstop"]
    BY <1>3 DEF LoadHolder
  <2>2. proc' = [proc EXCEPT ![p].old = store[UserOfProc(p)], ![p].fails = proc[p].fails,
                             ![p].pc = "rstop"]
    BY <1>1, <2>1 DEF TypeOK, ProcType
  <2> QED BY <1>1, <2>1, <2>2, LoadedKeeps DEF LoadHolder
<1> QED BY <1>2, <1>3

LEMMA StopHolderKeeps ==
  ASSUME IInv, NEW p \in Procs, StopHolder(p)
  PROVE  IInv'
<1>1. TypeOK /\ proc[p].pc = "rstop" /\ proc[p].old \in Conns \ {NoConn} /\ proc[p].held = << >>
  BY Unfolded DEF StopHolder, At, LocalOK, Holding, WithOld
<1>2. PICK x \in {"rback", "rdrain"} : Goto(p, x)
  BY DEF StopHolder
<1> QED BY <1>1, <1>2, GoesOn DEF StopHolder, TypeOK, ProcPC, Arriving, WithOld

LEMMA UnstoreHolderKeeps ==
  ASSUME IInv, NEW p \in Procs, UnstoreHolder(p)
  PROVE  IInv'
<1>1. TypeOK /\ proc[p].pc = "rdelete" /\ proc[p].held = << >>
  BY Unfolded DEF UnstoreHolder, At, LocalOK, Holding
<1>2. connCount' \in Int
  BY <1>1 DEF UnstoreHolder, TypeOK
<1> QED BY <1>1, <1>2, ResumeKeeps DEF UnstoreHolder

\* The drained items come off totalPending.
LEMMA CloseHolderChKeeps ==
  ASSUME IInv, NEW p \in Procs, CloseHolderCh(p)
  PROVE  IInv'
<1>1. /\ TypeOK /\ Shape /\ Balanced /\ Ordered /\ PendingExact
      /\ LocalOK(p) /\ proc[p].pc = "rcloseCh" /\ proc[p].old \in Conns \ {NoConn}
      /\ proc[p].held \in Seq(Items)
  BY Unfolded, GatewayAssumption DEF CloseHolderCh, At, LocalOK, WithOld, ProcType
<1>2. "rback" \in ProcPC
  BY DEF ProcPC
<1>3. /\ proc' \in [Procs -> ProcType]
      /\ \A q \in Procs \ {p} : proc'[q] = proc[q]
      /\ proc'[p].pc = "rback" /\ proc'[p].old = proc[p].old /\ proc'[p].held = proc[p].held
      /\ proc'[p].ret = proc[p].ret /\ proc'[p].fails = proc[p].fails /\ proc'[p].n = proc[p].n
  BY <1>1, <1>2, Went DEF CloseHolderCh
<1>4. conn' \in [Conns -> ConnType] /\ \A c \in Conns : conn'[c].chan = conn[c].chan
  BY <1>1, Closed DEF CloseHolderCh
<1>5. LocalOK(p)'
  BY <1>1, <1>3 DEF LocalOK, Arriving, Holding
<1>6. Moves(p)
  BY <1>1, <1>3, <1>5 DEF Moves, Arriving, CloseHolderCh
<1>7. /\ totalPending \in Int /\ Len(proc[p].held) \in Nat
      /\ totalPending' = totalPending - Len(proc[p].held)
  BY <1>1, LenProperties DEF CloseHolderCh, Uncounted, TypeOK
<1>8. totalPending' \in Int
  BY <1>7
<1>9. Plain(p)
  BY <1>1, <1>3, <1>4, <1>8 DEF Plain, TypeOK, CloseHolderCh
<1>10. TypeOK' /\ \A u \in Users : store'[u] \in {store[u], NoConn}
  BY <1>1, <1>9, PlainType
<1>11. Walks(p)
  BY <1>3, <1>4, <1>6, <1>10 DEF Walks, CloseHolderCh, Draining
<1>12. Weight(p) = Len(proc[p].held) /\ Weight(p)' = 0
  <2>1. /\ Drained[p] = proc[p].held /\ Drained'[p] = << >>
        /\ ~At(p, "inc") /\ ~At(p, "inc")'
    BY <1>1, <1>3 DEF Drained, At
  <2>2. Len(Drained'[p]) = 0
    BY <2>1
  <2> QED BY <1>7, <2>1, <2>2 DEF Weight, One
<1>13. totalPending' = totalPending + Weight(p)' - Weight(p)
  BY <1>7, <1>12
<1> QED BY <1>1, <1>10, <1>11, <1>13, WalksShape, WalksBalanced, WalksOrdered, WalksPending DEF IInv
--------------------------------------------------------------------------------
(* The steps of a handler or heartbeat that move items. *)

\* The balance stands when what leaves one place comes to another.
LEMMA BalanceMoved ==
  ASSUME TypeOK, Balanced, NEW m \in Msgs, NEW u \in Users, job' = job, taken' = taken,
         Cardinality(InHand(m, u))' = Cardinality(InHand(m, u)),
         CopiesAt(Chans, ConnsOf(u), m)' \in Int,
         CopiesAt(Held, ProcsOf(u), m)' \in Int,
         settled'[m][u] \in Int,
         CopiesAt(Chans, ConnsOf(u), m)' + CopiesAt(Held, ProcsOf(u), m)' + settled'[m][u]
           = CopiesAt(Chans, ConnsOf(u), m) + CopiesAt(Held, ProcsOf(u), m) + settled[m][u]
  PROVE  Balance(m, u)'
<1> DEFINE e == Cardinality(ToEnqueue(m, u))
           i == Cardinality(InHand(m, u))
           c == CopiesAt(Chans, ConnsOf(u), m)
           h == CopiesAt(Held, ProcsOf(u), m)
           t == m \in taken /\ u \in Targets[m]
<1>1. Cardinality(ToEnqueue(m, u))' = Cardinality(ToEnqueue(m, u))
  BY DEF ToEnqueue
<1>2. e \in Nat /\ i \in Nat /\ c \in Nat /\ h \in Nat /\ settled[m][u] \in Nat
  BY CountsAreNat
<1>3. e + i + c + h + settled[m][u] = One(t)
  BY DEF Balanced, Balance
<1>4. t' <=> t
  OBVIOUS
<1>5. One(t)' = One(t)
  BY <1>4 DEF One
<1>6. SUFFICES e' + i' + c' + h' + settled'[m][u] = One(t)'
  BY DEF Balance
<1>7. e' = e /\ i' = i
  BY <1>1
<1>8. /\ c' \in Int /\ h' \in Int /\ settled'[m][u] \in Int
      /\ c' + h' + settled'[m][u] = c + h + settled[m][u]
  OBVIOUS
<1> HIDE DEF e, i, c, h, t
<1> QED BY <1>2, <1>3, <1>5, <1>7, <1>8

\* One item moves from the channel to the drained ones.
LEMMA DrainsKeeps ==
  ASSUME IInv, NEW p \in Procs, NEW from \in Draining, NEW to, Drain(p, from, to),
         conn[proc[p].old].chan # << >>
  PROVE  IInv'
<1> DEFINE c == proc[p].old
           s == conn[c].chan
           h == proc[p].held
           x == Head(s)
<1>1. /\ TypeOK /\ Shape /\ Balanced /\ Ordered /\ PendingExact
      /\ LocalOK(p) /\ proc[p].pc = from
      /\ c \in Conns /\ UserOf[c] = UserOfProc(p) /\ c \in Born /\ UserOfProc(p) \in Users
  BY Unfolded DEF Drain, At, LocalOK, WithOld, Draining
<1>2. /\ proc[p] \in ProcType /\ conn[c] \in ConnType
      /\ s \in Seq(Items) /\ h \in Seq(Items) /\ s # << >>
  BY <1>1, Typed
<1>3. x \in Items /\ Tail(s) \in Seq(Items) /\ Append(h, x) \in Seq(Items)
  BY <1>2, HeadTailProperties, AppendProperties
<1>4. /\ proc' = [proc EXCEPT ![p].held = Append(h, x)]
      /\ conn' = [conn EXCEPT ![c].chan = Tail(s)]
      /\ UNCHANGED <<store, connCount, totalPending, writer, job, taken, fatal, history>>
  BY <1>2 DEF Drain, Collected
<1> HIDE DEF c, x, s, h
<1>5. /\ proc' \in [Procs -> ProcType]
      /\ \A q \in Procs \ {p} : proc'[q] = proc[q]
      /\ proc'[p].pc = from /\ proc'[p].old = c /\ proc'[p].held = Append(h, x)
      /\ proc'[p].ret = proc[p].ret /\ proc'[p].fails = proc[p].fails /\ proc'[p].n = proc[p].n
  <2>1. proc[p].old = c
    BY DEF c
  <2> QED BY <1>1, <1>3, <1>4, <2>1 DEF TypeOK, ProcType
<1>6. /\ conn' \in [Conns -> ConnType]
      /\ \A k \in Conns \ {c} : conn'[k] = conn[k]
      /\ conn'[c].chan = Tail(s)
  BY <1>1, <1>3, <1>4 DEF TypeOK, ConnType
<1>7. TypeOK'
  BY <1>1, <1>4, <1>5, <1>6 DEF TypeOK, history
<1>8. LocalOK(p)'
  BY <1>1, <1>5 DEF LocalOK, Draining, Arriving, Holding, c
<1>9. Moves(p)
  BY <1>1, <1>4, <1>5, <1>8 DEF Moves, Draining, c
<1>10. Leaves(p)
  <2>1. c \in Born'
    BY <1>1, <1>9, BornStays
  <2>2. \A k \in Conns : writer[k].pc # "write" => writer[k].item = NoMsg
    BY <1>1 DEF Shape, ConnOK
  <2> QED BY <1>4, <1>6, <2>1, <2>2 DEF Leaves
<1>11. Shape'
  BY <1>1, <1>9, <1>10, MovesShape
<1>12. /\ Len(h) \in Nat /\ Len(s) \in Nat
       /\ Len(Tail(s)) = Len(s) - 1 /\ Len(Append(h, x)) = Len(h) + 1
  BY <1>2, <1>3, LenProperties, HeadTailProperties, AppendProperties
<1>13. Balanced'
  <2> SUFFICES ASSUME NEW m \in Msgs, NEW u \in Users PROVE Balance(m, u)'
    BY DEF Balanced
  <2> DEFINE a == CopiesAt(Chans, ConnsOf(u), m)
             b == CopiesAt(Held, ProcsOf(u), m)
             i == IF x = m THEN 1 ELSE 0
             ks == Copies(s, m)
             kt == Copies(Tail(s), m)
             kh == Copies(h, m)
             ka == Copies(Append(h, x), m)
  <2>1. /\ ks = kt + i /\ ka = kh + i
        /\ ks \in Nat /\ kt \in Nat /\ kh \in Nat /\ i \in Nat
    <3>1. Copies(s, m) = Copies(Tail(s), m) + IF x = m THEN 1 ELSE 0
      BY <1>2, CopiesTail DEF x
    <3>2. Copies(Append(h, x), m) = Copies(h, m) + IF x = m THEN 1 ELSE 0
      BY <1>2, <1>3, CopiesAppend
    <3>3. Copies(s, m) \in Nat /\ Copies(Tail(s), m) \in Nat /\ Copies(h, m) \in Nat
      BY <1>2, <1>3, CopiesType
    <3> QED BY <3>1, <3>2, <3>3
  <2>2. a \in Nat /\ b \in Nat /\ settled[m][u] \in Nat /\ settled' = settled
    BY <1>1, <1>4, CountsAreNat DEF history
  <2>3. a' = IF UserOf[c] = u THEN a - ks + kt ELSE a
    BY <1>1, <1>6, <1>7, ChanDiffers DEF s
  <2>4. b' = IF UserOf[c] = u THEN b - kh + ka ELSE b
    BY <1>1, <1>5, <1>7, HeldDiffers DEF h
  <2>5. InHand(m, u)' = InHand(m, u)
    BY <1>4 DEF InHand
  <2>6. UserOf[c] = UserOfProc(p)
    BY <1>1
  <2> HIDE DEF a, b, i, ks, kt, kh, ka
  <2>7. a' \in Int /\ b' \in Int /\ a' + b' = a + b
    BY <2>1, <2>2, <2>3, <2>4, <2>6
  <2>8. a' + b' + settled'[m][u] = a + b + settled[m][u] /\ settled'[m][u] \in Int
    BY <2>2, <2>7
  <2> QED BY <1>1, <1>4, <2>5, <2>7, <2>8, BalanceMoved DEF a, b
<1>14. Ordered'
  <2> DEFINE q == sent[UserOfProc(p)]
  <2>1. /\ LineInRow(c) /\ HeldInRow(p) /\ sent' = sent /\ writer' = writer
    BY <1>1, <1>4 DEF Ordered, history
  <2>2. Enqueued(s, q) /\ InRow(s, q) /\ Enqueued(h, q) /\ InRow(h, q) /\ Ahead(h, s, q)
    BY <1>1, <2>1 DEF LineInRow, HeldInRow, s, h, c
  <2>3. /\ Enqueued(Append(h, x), q) /\ InRow(Append(h, x), q) /\ Ahead(Append(h, x), Tail(s), q)
    BY <1>2, <2>2, MovedInRow DEF x
  <2>4. /\ Enqueued(Tail(s), q) /\ InRow(Tail(s), q)
        /\ \A t : Ahead(t, s, q) => Ahead(t, Tail(s), q)
    BY <1>2, <2>2, TailInRow
  <2>5. ASSUME NEW k \in Conns PROVE LineInRow(k)'
    <3>1. LineInRow(k)
      BY <1>1 DEF Ordered
    <3>2. CASE k = c
      BY <1>1, <1>6, <2>1, <2>4, <3>1, <3>2 DEF LineInRow, s
    <3>3. CASE k # c
      BY <1>6, <2>1, <3>1, <3>3 DEF LineInRow
    <3> QED BY <3>2, <3>3
  <2>6. ASSUME NEW k \in Procs PROVE HeldInRow(k)'
    <3>1. HeldInRow(k)
      BY <1>1 DEF Ordered
    <3>2. CASE k = p
      BY <1>5, <1>6, <2>1, <2>3, <3>2 DEF HeldInRow, UserOfProc
    <3>3. CASE k # p
      <4>1. proc'[k] = proc[k] /\ ProcOK(k)
        BY <1>1, <1>5, <3>3 DEF Shape
      <4>2. CASE proc[k].pc \in Draining
        <5>1. proc[k].old \in Conns /\ UserOf[proc[k].old] = UserOfProc(k)
          BY <4>1, <4>2 DEF ProcOK, LocalOK, Born, Draining, WithOld
        <5>2. CASE proc[k].old = c
          BY <1>1, <1>6, <2>1, <2>4, <3>1, <4>1, <5>1, <5>2 DEF HeldInRow, UserOfProc, s
        <5>3. CASE proc[k].old # c
          BY <1>6, <2>1, <3>1, <4>1, <5>1, <5>3 DEF HeldInRow, UserOfProc
        <5> QED BY <5>2, <5>3
      <4>3. CASE proc[k].pc \notin Draining
        BY <2>1, <3>1, <4>1, <4>3 DEF HeldInRow, UserOfProc
      <4> QED BY <4>2, <4>3
    <3> QED BY <3>2, <3>3
  <2> QED BY <2>5, <2>6 DEF Ordered
<1>15. PendingExact'
  <2>1. Total(Chans)' = Total(Chans) - Len(s) + Len(Tail(s))
    BY <1>1, <1>6, <1>7, ChanDiffers DEF s
  <2>2. /\ Drained[p] = h /\ Drained'[p] = Append(h, x) /\ ~At(p, "inc") /\ ~At(p, "inc")'
    BY <1>1, <1>5 DEF Drained, At, Draining, h
  <2>3. Weight(p) = Len(h) /\ Weight(p)' = Len(h) + 1
    BY <1>12, <2>2 DEF Weight, One
  <2>4. Total(Chans) \in Nat /\ totalPending \in Int /\ totalPending' = totalPending
    BY <1>1, <1>4, CountsAreNat DEF TypeOK
  <2> DEFINE k == Len(s)
             l == Len(Tail(s))
  <2>5. Total(Chans)' = Total(Chans) - 1
    <3>1. Total(Chans)' = Total(Chans) - k + l /\ k \in Nat /\ l = k - 1
      BY <1>12, <2>1
    <3> HIDE DEF k, l
    <3> QED BY <2>4, <3>1
  <2>6. totalPending' = totalPending + Total(Chans)' - Total(Chans) + Weight(p)' - Weight(p)
    BY <1>12, <2>3, <2>4, <2>5
  <2> QED BY <1>1, <1>7, <1>9, <2>6, MovesPending
<1> QED BY <1>7, <1>11, <1>13, <1>14, <1>15 DEF IInv

\* A greeting or a ping goes on the channel.
LEMMA SendItemKeeps ==
  ASSUME IInv, NEW p \in Procs, SendItem(p)
  PROVE  IInv'
<1> DEFINE c == proc[p].old
           s == conn[c].chan
           x == <<p, proc[p].n + 1>>
<1>1. /\ TypeOK /\ Shape /\ Balanced /\ Ordered /\ PendingExact
      /\ LocalOK(p) /\ proc[p].pc = "send" /\ proc[p].held = << >>
      /\ c \in Conns \ {NoConn} /\ c \in Born
  BY Unfolded, GatewayAssumption DEF SendItem, At, LocalOK, WithOld, Holding
<1>2. /\ proc[p] \in ProcType /\ conn[c] \in ConnType /\ s \in Seq(Items)
      /\ proc[p].n \in 0 .. 2 /\ proc[p].fails \in 0 .. 1 /\ proc[p].n <= proc[p].fails
  BY <1>1, Typed DEF LocalOK, ProcType
<1>3. proc[p].n + 1 \in 0 .. 2 /\ proc[p].n + 1 \in 1 .. 2
  BY <1>2
<1>4. x \in Items /\ x \notin Msgs
  BY <1>3, GatewayAssumption DEF Items, Greetings
<1>5. Append(s, x) \in Seq(Items)
  BY <1>2, <1>4, AppendProperties
<1>6. /\ proc' = [proc EXCEPT ![p].n = proc[p].n + 1, ![p].answer = "none", ![p].pc = "inc"]
      /\ conn' = [conn EXCEPT ![c].chan = Append(s, x)]
      /\ UNCHANGED <<store, connCount, totalPending, writer, job, taken, fatal, history>>
  BY DEF SendItem
<1> HIDE DEF c, s, x
<1>7. /\ proc' \in [Procs -> ProcType]
      /\ \A q \in Procs \ {p} : proc'[q] = proc[q]
      /\ proc'[p].pc = "inc" /\ proc'[p].old = c /\ proc'[p].held = proc[p].held
      /\ proc'[p].ret = proc[p].ret /\ proc'[p].fails = proc[p].fails
      /\ proc'[p].n = proc[p].n + 1
  <2>1. proc[p].old = c /\ "inc" \in ProcPC
    BY DEF c, ProcPC
  <2>2. PICK k \in 0 .. 2, y \in ProcPC : k = proc[p].n + 1 /\ y = "inc"
    BY <1>3, <2>1
  <2>3. proc' = [proc EXCEPT ![p].n = k, ![p].answer = "none", ![p].pc = y]
    BY <1>6, <2>2
  <2>4. proc' \in [Procs -> ProcType]
    <3> DEFINE r == [proc[p] EXCEPT !.n = k, !.answer = "none", !.pc = y]
    <3>1. r \in ProcType
      BY <1>2 DEF ProcType
    <3>2. proc' = [proc EXCEPT ![p] = r]
      BY <2>3
    <3> HIDE DEF r
    <3> QED BY <1>1, <3>1, <3>2 DEF TypeOK
  <2>5. /\ \A q \in Procs \ {p} : proc'[q] = proc[q]
        /\ proc'[p].pc = y /\ proc'[p].old = proc[p].old /\ proc'[p].held = proc[p].held
        /\ proc'[p].ret = proc[p].ret /\ proc'[p].fails = proc[p].fails /\ proc'[p].n = k
    BY <1>1, <2>3 DEF TypeOK, ProcType
  <2> QED BY <2>1, <2>2, <2>4, <2>5
<1>8. /\ conn' \in [Conns -> ConnType]
      /\ \A k \in Conns \ {c} : conn'[k] = conn[k]
      /\ conn'[c].chan = Append(s, x)
  BY <1>1, <1>5, <1>6 DEF TypeOK, ConnType
<1>9. TypeOK'
  BY <1>1, <1>6, <1>7, <1>8 DEF TypeOK, history
<1>10. LocalOK(p)'
  BY <1>1, <1>2, <1>7 DEF LocalOK, Arriving
<1>11. Moves(p)
  BY <1>1, <1>6, <1>7, <1>10 DEF Moves, Arriving, c
<1>12. Leaves(p)
  <2>1. c \in Born'
    BY <1>1, <1>11, BornStays
  <2>2. \A k \in Conns : writer[k].pc # "write" => writer[k].item = NoMsg
    BY <1>1 DEF Shape, ConnOK
  <2> QED BY <1>6, <1>8, <2>1, <2>2 DEF Leaves
<1>13. Shape'
  BY <1>1, <1>11, <1>12, MovesShape
<1>14. Balanced'
  <2> SUFFICES ASSUME NEW m \in Msgs, NEW u \in Users PROVE Balance(m, u)'
    BY DEF Balanced
  <2> DEFINE a == CopiesAt(Chans, ConnsOf(u), m)
             ks == Copies(s, m)
             ka == Copies(Append(s, x), m)
  <2>1. ka = ks + IF x = m THEN 1 ELSE 0
    BY <1>2, <1>4, CopiesAppend
  <2>2. ks \in Nat /\ x # m
    BY <1>2, <1>4, CopiesType
  <2>3. a \in Nat /\ settled[m][u] \in Nat /\ settled' = settled
    BY <1>1, <1>6, CountsAreNat DEF history
  <2>4. a' = IF UserOf[c] = u THEN a - ks + ka ELSE a
    <3>1. c \in Conns /\ \A k \in Conns \ {c} : conn'[k].chan = conn[k].chan
      BY <1>1, <1>8
    <3>2. a' = IF UserOf[c] = u
               THEN a - Copies(conn[c].chan, m) + Copies(conn'[c].chan, m) ELSE a
      BY <1>1, <1>9, <3>1, ChanDiffers
    <3>3. conn[c].chan = s /\ conn'[c].chan = Append(s, x)
      BY <1>8 DEF s
    <3> QED BY <3>2, <3>3
  <2>5. InHand(m, u)' = InHand(m, u)
    BY <1>6 DEF InHand
  <2>6. Held' = Held /\ ProcsOf(u)' = ProcsOf(u)
    BY <1>7 DEF Held, ProcsOf, UserOfProc
  <2> DEFINE b == CopiesAt(Held, ProcsOf(u), m)
  <2>7. b' = b /\ b \in Nat
    BY <1>1, <2>6, CountsAreNat DEF CopiesAt
  <2> HIDE DEF a, b, ks, ka
  <2>8. a' = a
    BY <2>1, <2>2, <2>3, <2>4
  <2> QED BY <1>1, <1>6, <2>3, <2>5, <2>7, <2>8, BalanceMoved DEF a, b
<1>15. Ordered'
  <2> DEFINE q == sent[UserOf[c]]
  <2>1. sent' = sent /\ writer' = writer
    BY <1>6 DEF history
  <2>2. /\ Enqueued(s, q) => Enqueued(Append(s, x), q)
        /\ InRow(s, q) => InRow(Append(s, x), q)
        /\ \A h : Ahead(h, s, q) => Ahead(h, Append(s, x), q)
    BY <1>2, <1>4, GreetingInRow
  <2>3. ASSUME NEW k \in Conns PROVE LineInRow(k)'
    <3>1. LineInRow(k)
      BY <1>1 DEF Ordered
    <3>2. CASE k = c
      BY <1>8, <2>1, <2>2, <3>1, <3>2 DEF LineInRow, s
    <3>3. CASE k # c
      BY <1>8, <2>1, <3>1, <3>3 DEF LineInRow
    <3> QED BY <3>2, <3>3
  <2>4. ASSUME NEW k \in Procs PROVE HeldInRow(k)'
    <3>1. HeldInRow(k) /\ ProcOK(k)
      BY <1>1 DEF Ordered, Shape
    <3>2. /\ proc'[k].held = proc[k].held /\ proc'[k].old = proc[k].old
          /\ proc'[k].pc \in Draining => proc[k].pc \in Draining
      BY <1>7 DEF Draining, c
    <3>3. CASE proc[k].pc \in Draining
      <4>1. proc[k].old \in Conns /\ UserOf[proc[k].old] = UserOfProc(k)
        BY <3>1, <3>3 DEF ProcOK, LocalOK, Born, Draining, WithOld
      <4>2. CASE proc[k].old = c
        BY <1>8, <2>1, <2>2, <3>1, <3>2, <4>1, <4>2 DEF HeldInRow, UserOfProc, s
      <4>3. CASE proc[k].old # c
        BY <1>8, <2>1, <3>1, <3>2, <4>1, <4>3 DEF HeldInRow, UserOfProc
      <4> QED BY <4>2, <4>3
    <3>4. CASE proc[k].pc \notin Draining
      BY <2>1, <3>1, <3>2, <3>4 DEF HeldInRow, UserOfProc
    <3> QED BY <3>3, <3>4
  <2> QED BY <2>3, <2>4 DEF Ordered
<1>16. PendingExact'
  <2> DEFINE k == Len(s)
             l == Len(Append(s, x))
  <2>1. Total(Chans)' = Total(Chans) - k + l
    BY <1>1, <1>8, <1>9, ChanDiffers DEF s
  <2>2. k \in Nat /\ l = k + 1
    BY <1>2, <1>4, LenProperties, AppendProperties
  <2>3. Weight(p) = 0 /\ Weight(p)' = -1
    <3>1. Drained[p] = << >> /\ Drained'[p] = << >> /\ ~At(p, "inc") /\ At(p, "inc")'
      BY <1>1, <1>7 DEF Drained, At
    <3>2. Len(Drained[p]) = 0 /\ Len(Drained'[p]) = 0
      BY <3>1
    <3> QED BY <3>1, <3>2 DEF Weight, One
  <2>4. Total(Chans) \in Nat /\ totalPending \in Int /\ totalPending' = totalPending
    BY <1>1, <1>6, CountsAreNat DEF TypeOK
  <2> HIDE DEF k, l
  <2>5. Total(Chans)' = Total(Chans) + 1
    BY <2>1, <2>2, <2>4
  <2>6. totalPending' = totalPending + Total(Chans)' - Total(Chans) + Weight(p)' - Weight(p)
    BY <2>3, <2>4, <2>5
  <2> QED BY <1>1, <1>9, <1>11, <2>6, MovesPending
<1> QED BY <1>9, <1>13, <1>14, <1>15, <1>16 DEF IInv

\* The drained messages are posted back, or lost.
LEMMA BackDrainedKeeps ==
  ASSUME IInv, NEW p \in Procs, BackDrained(p)
  PROVE  IInv'
<1> DEFINE c == proc[p].old
           h == proc[p].held
           v == UserOfProc(p)
<1>1. /\ TypeOK /\ Shape /\ Balanced /\ Ordered /\ PendingExact
      /\ LocalOK(p) /\ proc[p].pc = "rback" /\ proc[p] \in ProcType /\ h \in Seq(Items)
      /\ c \in Conns \ {NoConn} /\ v \in Users
  BY Unfolded, GatewayAssumption DEF BackDrained, At, LocalOK, WithOld, ProcType
<1>2. /\ proc' = [proc EXCEPT ![p].held = << >>, ![p].pc = "rdelete"]
      /\ conn' = [conn EXCEPT ![c].sock = "closed"]
      /\ settled' = [m \in Msgs |-> [settled[m] EXCEPT ![v] = @ + Copies(h, m)]]
      /\ UNCHANGED <<store, connCount, totalPending, writer, job, taken, fatal, sent>>
  BY DEF BackDrained, Settle, PostedBack
<1> HIDE DEF h, v
<1>3. conn' \in [Conns -> ConnType] /\ \A k \in Conns : conn'[k].chan = conn[k].chan
  BY <1>1, <1>2, Closed
<1> HIDE DEF c
<1>4. /\ proc' \in [Procs -> ProcType]
      /\ \A q \in Procs \ {p} : proc'[q] = proc[q]
      /\ proc'[p].pc = "rdelete" /\ proc'[p].old = c /\ proc'[p].held = << >>
      /\ proc'[p].ret = proc[p].ret
  <2>1. << >> \in Seq(Items) /\ "rdelete" \in ProcPC /\ proc[p].old = c
    BY DEF ProcPC, c
  <2> QED BY <1>1, <1>2, <2>1 DEF TypeOK, ProcType
<1>5. ASSUME NEW m \in Msgs, NEW u \in Users
      PROVE  /\ settled'[m][u] = IF u = v THEN settled[m][u] + Copies(h, m) ELSE settled[m][u]
             /\ settled[m][u] \in Nat /\ Copies(h, m) \in Nat
  <2>1. settled[m] \in [Users -> Nat] /\ Copies(h, m) \in Nat
    BY <1>1, CopiesType DEF TypeOK
  <2>2. settled'[m] = [settled[m] EXCEPT ![v] = @ + Copies(h, m)]
    BY <1>2
  <2> QED BY <1>1, <2>1, <2>2
<1>6. settled' \in [Msgs -> [Users -> Nat]]
  <2>1. ASSUME NEW m \in Msgs PROVE settled'[m] \in [Users -> Nat]
    <3>1. settled[m] \in [Users -> Nat] /\ Copies(h, m) \in Nat
      BY <1>1, CopiesType DEF TypeOK
    <3>2. settled'[m] = [settled[m] EXCEPT ![v] = @ + Copies(h, m)]
      BY <1>2
    <3> QED BY <1>1, <3>1, <3>2
  <2> QED BY <1>2, <2>1
<1>7. TypeOK'
  BY <1>1, <1>2, <1>3, <1>4, <1>6 DEF TypeOK
<1>8. LocalOK(p)'
  BY <1>1, <1>4 DEF LocalOK, Arriving, WithOld
<1>9. Moves(p)
  BY <1>1, <1>2, <1>4, <1>8 DEF Moves, Arriving, c
<1>10. Leaves(p)
  <2>1. \A k \in Conns : writer[k].pc # "write" => writer[k].item = NoMsg
    BY <1>1 DEF Shape, ConnOK
  <2> QED BY <1>2, <1>3, <2>1 DEF Leaves
<1>11. Shape'
  BY <1>1, <1>9, <1>10, MovesShape
<1>12. Balanced'
  <2> SUFFICES ASSUME NEW m \in Msgs, NEW u \in Users PROVE Balance(m, u)'
    BY DEF Balanced
  <2> DEFINE b == CopiesAt(Held, ProcsOf(u), m)
             a == CopiesAt(Chans, ConnsOf(u), m)
             kh == Copies(h, m)
             ke == Copies(<< >>, m)
             o == settled[m][u]
  <2>1. b' = IF v = u THEN b - kh + ke ELSE b
    BY <1>1, <1>4, <1>7, HeldDiffers DEF h, v
  <2>2. ke = 0
    BY CopiesEmpty
  <2>3. o' = (IF u = v THEN o + kh ELSE o) /\ o \in Nat /\ kh \in Nat
    BY <1>5
  <2>4. Chans' = Chans /\ ConnsOf(u)' = ConnsOf(u)
    BY <1>3 DEF Chans, ConnsOf
  <2>5. a' = a /\ a \in Nat /\ b \in Nat
    BY <1>1, <2>4, CountsAreNat DEF CopiesAt
  <2>6. InHand(m, u)' = InHand(m, u)
    BY <1>2 DEF InHand
  <2> HIDE DEF a, b, kh, ke, o
  <2>7. a' + b' + o' = a + b + o /\ a' \in Int /\ b' \in Int /\ o' \in Int
    BY <2>1, <2>2, <2>3, <2>5
  <2> QED BY <1>1, <1>2, <2>6, <2>7, BalanceMoved DEF a, b, o
<1>13. Ordered'
  <2>1. ASSUME NEW k \in Conns PROVE LineInRow(k)'
    BY <1>1, <1>2, <1>3, <2>1 DEF Ordered, LineInRow
  <2>2. ASSUME NEW k \in Procs PROVE HeldInRow(k)'
    <3>1. HeldInRow(k) /\ ProcOK(k)
      BY <1>1 DEF Ordered, Shape
    <3>2. CASE k = p
      BY <1>4, <3>2, EmptyInRow DEF HeldInRow
    <3>3. CASE k # p /\ proc[k].pc \in Draining
      <4>1. proc[k].old \in Conns
        BY <3>1, <3>3 DEF ProcOK, LocalOK, Born, Draining, WithOld
      <4> QED BY <1>2, <1>3, <1>4, <3>1, <3>3, <4>1 DEF HeldInRow, UserOfProc
    <3>4. CASE k # p /\ proc[k].pc \notin Draining
      BY <1>2, <1>4, <3>1, <3>4 DEF HeldInRow, UserOfProc
    <3> QED BY <3>2, <3>3, <3>4
  <2> QED BY <2>1, <2>2 DEF Ordered
<1>14. PendingExact'
  <2>1. Chans' = Chans
    BY <1>3 DEF Chans
  <2>2. Weight(p) = 0 /\ Weight(p)' = 0
    <3>1. Drained[p] = << >> /\ Drained'[p] = << >> /\ ~At(p, "inc") /\ ~At(p, "inc")'
      BY <1>1, <1>4 DEF Drained, At
    <3>2. Len(Drained[p]) = 0 /\ Len(Drained'[p]) = 0
      BY <3>1
    <3> QED BY <3>1, <3>2 DEF Weight, One
  <2>3. /\ Total(Chans) \in Nat /\ Total(Chans)' = Total(Chans)
        /\ totalPending \in Int /\ totalPending' = totalPending
    BY <1>1, <1>2, <2>1, CountsAreNat DEF TypeOK
  <2>4. totalPending' = totalPending + Total(Chans)' - Total(Chans) + Weight(p)' - Weight(p)
    BY <2>2, <2>3
  <2> QED BY <1>1, <1>7, <1>9, <2>4, MovesPending
<1> QED BY <1>7, <1>11, <1>12, <1>13, <1>14 DEF IInv

\* The new connection takes over what was drained from the old one.
LEMMA StoreNewKeeps ==
  ASSUME IInv, NEW p \in Procs, StoreNew(p)
  PROVE  IInv'
<1> DEFINE c == p[2]
           h == proc[p].held
           v == UserOfProc(p)
<1>1. /\ TypeOK /\ Shape /\ Balanced /\ Ordered /\ PendingExact
      /\ LocalOK(p) /\ proc[p].pc = "store" /\ proc[p] \in ProcType /\ h \in Seq(Items)
      /\ c \in Conns /\ v \in Users /\ v = UserOf[c]
  BY Unfolded DEF StoreNew, At, ProcType, UserOfProc
<1>2. p = Handler(c) /\ proc[p].n = 0 /\ c \notin Born
  BY <1>1, Who DEF LocalOK, Arriving, Handler, Born
<1>3. conn[c].chan = << >> /\ writer[c].pc = "none" /\ writer[c].item = NoMsg
  BY <1>1, <1>2 DEF Shape, ConnOK
<1>4. conn[c] \in ConnType /\ writer[c] \in WriterType
  BY <1>1, Typed DEF TypeOK
<1>5. Len(h) \in Nat /\ SendCap \in Nat
  BY <1>1, LenProperties, GatewayAssumption
<1>6. /\ conn' = [conn EXCEPT ![c].chan = h, ![c].cap = SendCap + Len(h)]
      /\ store' = [store EXCEPT ![v] = c]
      /\ connCount' = connCount + 1
      /\ writer' = [writer EXCEPT ![c].pc = "select"]
      /\ proc' = [proc EXCEPT ![p].held = << >>, ![p].old = NoConn, ![p].pc = "greet"]
      /\ UNCHANGED <<totalPending, job, taken, fatal, history>>
  BY DEF StoreNew, Migrated
<1> HIDE DEF c, h, v
<1>7. /\ conn' \in [Conns -> ConnType]
      /\ \A k \in Conns \ {c} : conn'[k] = conn[k]
      /\ conn'[c].chan = h
  <2>1. PICK l \in Nat : l = SendCap + Len(h)
    BY <1>5
  <2>2. conn' = [conn EXCEPT ![c].chan = h, ![c].cap = l]
    BY <1>6, <2>1
  <2> QED BY <1>1, <1>3, <1>4, <2>2 DEF TypeOK, ConnType
<1>8. /\ writer' \in [Conns -> WriterType]
      /\ \A k \in Conns \ {c} : writer'[k] = writer[k]
      /\ writer'[c].pc = "select" /\ writer'[c].item = NoMsg
  BY <1>1, <1>3, <1>4, <1>6 DEF TypeOK, WriterType
<1>9. /\ proc' \in [Procs -> ProcType]
      /\ \A q \in Procs \ {p} : proc'[q] = proc[q]
      /\ proc'[p].pc = "greet" /\ proc'[p].old = NoConn /\ proc'[p].held = << >>
      /\ proc'[p].ret = proc[p].ret /\ proc'[p].n = proc[p].n
  <2> DEFINE r == [proc[p] EXCEPT !.held = << >>, !.old = NoConn, !.pc = "greet"]
  <2>1. << >> \in Seq(Items) /\ "greet" \in ProcPC
    BY DEF ProcPC
  <2>2. r \in ProcType
    BY <1>1, <2>1 DEF ProcType
  <2>3. proc' = [proc EXCEPT ![p] = r]
    BY <1>6
  <2>4. /\ r.pc = "greet" /\ r.old = NoConn /\ r.held = << >> /\ r.ret = proc[p].ret
        /\ r.n = proc[p].n
    BY <1>1 DEF ProcType
  <2> HIDE DEF r
  <2> QED BY <1>1, <2>2, <2>3, <2>4 DEF TypeOK
<1>10. store' \in [Users -> Conns \cup {NoConn}] /\ connCount' \in Int
  BY <1>1, <1>6 DEF TypeOK
<1>11. TypeOK'
  BY <1>1, <1>6, <1>7, <1>8, <1>9, <1>10 DEF TypeOK, history
<1>12. LocalOK(p)'
  BY <1>2, <1>9 DEF LocalOK, Arriving, WithOld
<1>13. Moves(p)
  BY <1>1, <1>6, <1>9, <1>12 DEF Moves, Arriving
<1>14. c \in Born'
  BY <1>1, <1>2, <1>9 DEF Born, Arriving
<1>15. Leaves(p)
  <2>1. \A k \in Conns : writer[k].pc # "write" => writer[k].item = NoMsg
    BY <1>1 DEF Shape, ConnOK
  <2>2. \A u \in Users : store'[u] = IF u = v THEN c ELSE store[u]
    BY <1>1, <1>6 DEF TypeOK
  <2>3. \A k \in Conns : k \notin Born' => conn'[k].chan = conn[k].chan /\ writer'[k] = writer[k]
    BY <1>7, <1>8, <1>14
  <2>4. \A k \in Conns : writer'[k].pc # "write" => writer'[k].item = NoMsg
    BY <1>8, <2>1
  <2> QED BY <1>14, <2>2, <2>3, <2>4 DEF Leaves, c, v
<1>16. Shape'
  BY <1>1, <1>13, <1>15, MovesShape
<1>17. Balanced'
  <2> SUFFICES ASSUME NEW m \in Msgs, NEW u \in Users PROVE Balance(m, u)'
    BY DEF Balanced
  <2> DEFINE a == CopiesAt(Chans, ConnsOf(u), m)
             b == CopiesAt(Held, ProcsOf(u), m)
             kh == Copies(h, m)
             ke == Copies(<< >>, m)
  <2>1. a' = IF v = u THEN a - ke + kh ELSE a
    <3>1. a' = IF UserOf[c] = u
               THEN a - Copies(conn[c].chan, m) + Copies(conn'[c].chan, m) ELSE a
      BY <1>1, <1>7, <1>11, ChanDiffers
    <3> QED BY <1>1, <1>3, <1>4, <1>7, <3>1
  <2>2. b' = IF v = u THEN b - kh + ke ELSE b
    BY <1>1, <1>9, <1>11, HeldDiffers DEF h, v
  <2>3. ke = 0 /\ kh \in Nat
    BY <1>1, CopiesEmpty, CopiesType
  <2>4. a \in Nat /\ b \in Nat /\ settled' = settled /\ settled[m][u] \in Nat
    BY <1>1, <1>6, CountsAreNat DEF history
  <2>5. InHand(m, u)' = InHand(m, u)
    <3>1. \A k \in Conns : writer'[k].item = writer[k].item
      BY <1>3, <1>4, <1>8
    <3> QED BY <3>1 DEF InHand
  <2> HIDE DEF a, b, kh, ke
  <2>6. a' + b' = a + b /\ a' \in Int /\ b' \in Int
    BY <2>1, <2>2, <2>3, <2>4
  <2>7. a' + b' + settled'[m][u] = a + b + settled[m][u] /\ settled'[m][u] \in Int
    BY <2>4, <2>6
  <2> QED BY <1>1, <1>6, <2>5, <2>6, <2>7, BalanceMoved DEF a, b
<1>18. Ordered'
  <2>1. sent' = sent
    BY <1>6 DEF history
  <2>2. ASSUME NEW k \in Conns PROVE LineInRow(k)'
    <3>1. CASE k = c
      <4>1. HeldInRow(p)
        BY <1>1 DEF Ordered
      <4>2. Enqueued(h, sent[v]) /\ InRow(h, sent[v])
        BY <4>1 DEF HeldInRow, h, v
      <4>3. Enqueued(<<NoMsg>>, sent[v]) /\ Ahead(<<NoMsg>>, h, sent[v])
        BY GatewayAssumption, OtherInRow
      <4> QED BY <1>1, <1>7, <1>8, <2>1, <3>1, <4>2, <4>3 DEF LineInRow
    <3>2. CASE k # c
      BY <1>1, <1>7, <1>8, <2>1, <3>2 DEF Ordered, LineInRow
    <3> QED BY <3>1, <3>2
  <2>3. ASSUME NEW k \in Procs PROVE HeldInRow(k)'
    <3>1. HeldInRow(k) /\ ProcOK(k)
      BY <1>1 DEF Ordered, Shape
    <3>2. CASE k = p
      BY <1>9, <3>2, EmptyInRow DEF HeldInRow, Draining
    <3>3. CASE k # p /\ proc[k].pc \in Draining
      <4>1. proc[k].old \in Conns /\ proc[k].old \in Born
        BY <3>1, <3>3 DEF ProcOK, LocalOK, Born, Draining, WithOld
      <4>2. proc[k].old # c
        BY <1>2, <4>1
      <4> QED BY <1>7, <1>9, <2>1, <3>1, <3>3, <4>1, <4>2 DEF HeldInRow, UserOfProc
    <3>4. CASE k # p /\ proc[k].pc \notin Draining
      BY <1>9, <2>1, <3>1, <3>4 DEF HeldInRow, UserOfProc
    <3> QED BY <3>2, <3>3, <3>4
  <2> QED BY <2>2, <2>3 DEF Ordered
<1>19. PendingExact'
  <2> DEFINE k == Len(h)
             l == Len(<< >>)
  <2>1. Total(Chans)' = Total(Chans) - l + k
    <3>1. Total(Chans)' = Total(Chans) - Len(conn[c].chan) + Len(conn'[c].chan)
      BY <1>1, <1>7, <1>11, ChanDiffers
    <3> QED BY <1>3, <1>4, <1>7, <3>1
  <2>2. l = 0 /\ k \in Nat
    BY <1>5
  <2>3. Weight(p) = k /\ Weight(p)' = 0
    <3>1. Drained[p] = h /\ Drained'[p] = << >> /\ ~At(p, "inc") /\ ~At(p, "inc")'
      BY <1>1, <1>9 DEF Drained, At, h
    <3>2. Len(Drained'[p]) = 0
      BY <3>1
    <3> QED BY <1>5, <3>1, <3>2 DEF Weight, One
  <2>4. Total(Chans) \in Nat /\ totalPending \in Int /\ totalPending' = totalPending
    BY <1>1, <1>6, CountsAreNat DEF TypeOK
  <2> HIDE DEF k, l
  <2>5. totalPending' = totalPending + Total(Chans)' - Total(Chans) + Weight(p)' - Weight(p)
    BY <2>1, <2>2, <2>3, <2>4
  <2> QED BY <1>1, <1>11, <1>13, <2>5, MovesPending
<1> QED BY <1>11, <1>16, <1>17, <1>18, <1>19 DEF IInv
--------------------------------------------------------------------------------
(* The steps of the writers and of the dispatch workers, which leave the handlers and *)
(* heartbeats where they are.                                                         *)

SameProcs ==
  \A q \in Procs : /\ proc'[q].pc = proc[q].pc /\ proc'[q].old = proc[q].old
                   /\ proc'[q].held = proc[q].held /\ proc'[q].ret = proc[q].ret
                   /\ proc'[q].fails = proc[q].fails /\ proc'[q].n = proc[q].n

LEMMA SameBorn ==
  ASSUME SameProcs
  PROVE  Born' = Born
<1>1. \A c \in Conns : Handler(c) \in Procs
  BY DEF Handler, Procs
<1> QED BY <1>1 DEF Born, SameProcs

LEMMA SameProcsShape ==
  ASSUME TypeOK, Shape, SameProcs, store' = store,
         \A k \in Conns : k \notin Born => conn'[k].chan = conn[k].chan /\ writer'[k] = writer[k],
         \A k \in Conns : writer'[k].pc # "write" => writer'[k].item = NoMsg,
         \A d \in Dispatchers : JobOK(d)'
  PROVE  Shape'
<1>1. Born' = Born
  BY SameBorn
<1>2. ASSUME NEW q \in Procs PROVE ProcOK(q)'
  <2>1. ProcOK(q)
    BY DEF Shape
  <2> QED BY <1>1, <2>1 DEF ProcOK, LocalOK, UserOfProc, SameProcs
<1>3. ASSUME NEW c \in Conns PROVE ConnOK(c)'
  <2>1. ConnOK(c) /\ Handler(c) \in Procs /\ HeartbeatOf(c) \in Procs
    BY DEF Shape, Handler, HeartbeatOf, Procs
  <2> QED BY <1>1, <2>1 DEF ConnOK, SameProcs
<1>4. ASSUME NEW u \in Users PROVE StoreOK(u)'
  BY <1>1 DEF Shape, StoreOK
<1> QED BY <1>2, <1>3, <1>4 DEF Shape

\* The workers that go on as before.
LEMMA JobStays ==
  ASSUME Shape, SameProcs, NEW d \in Dispatchers, job'[d] = job[d], taken \subseteq taken'
  PROVE  JobOK(d)'
<1>1. JobOK(d) /\ Born' = Born
  BY SameBorn DEF Shape
<1> QED BY <1>1 DEF JobOK

LEMMA SameProcsPending ==
  ASSUME TypeOK, TypeOK', PendingExact, SameProcs,
         NEW i \in Int, NEW j \in Int,
         i = Cardinality({d \in Dispatchers : job[d].pc = "inc"}),
         j = Cardinality({d \in Dispatchers : job[d].pc = "inc"})',
         totalPending' = totalPending + Total(Chans)' - Total(Chans) + i - j
  PROVE  PendingExact'
<1> DEFINE k == Cardinality({q \in Procs : At(q, "inc")})
           l == Total(Drained)
           n == Total(Chans)
           o == Total(Chans)'
<1>1. Drained' = Drained
  BY DEF Drained, At, SameProcs
<1>2. {q \in Procs : At(q, "inc")}' = {q \in Procs : At(q, "inc")}
  BY DEF At, SameProcs
<1>3. k' = k /\ l' = l
  BY <1>1, <1>2
<1>4. k \in Nat /\ l \in Nat /\ n \in Nat /\ totalPending \in Int
  BY CountsAreNat DEF TypeOK
<1>5. o \in Nat
  <2>1. \A c \in Conns : conn'[c].chan \in Seq(Items)
    BY DEF TypeOK, ConnType
  <2>2. Chans' \in Lists(Conns, Items)
    BY <2>1 DEF Chans, Lists
  <2>3. Total(Chans') \in Nat
    BY <2>2, GatewayAssumption, TotalType
  <2> QED BY <2>3
<1>6. totalPending = n + l - k - i
  BY DEF PendingExact
<1>7. totalPending' = totalPending + o - n + i - j
  OBVIOUS
<1>8. SUFFICES totalPending' = o + l' - k' - j
  BY DEF PendingExact
<1> HIDE DEF k, l, n, o
<1> QED BY <1>3, <1>4, <1>5, <1>6, <1>7

LEMMA BalanceSum ==
  ASSUME TypeOK, Balanced, SameProcs, NEW m \in Msgs, NEW u \in Users, taken' = taken,
         Cardinality(ToEnqueue(m, u))' \in Int, Cardinality(InHand(m, u))' \in Int,
         CopiesAt(Chans, ConnsOf(u), m)' \in Int, settled'[m][u] \in Int,
         Cardinality(ToEnqueue(m, u))' + Cardinality(InHand(m, u))'
           + CopiesAt(Chans, ConnsOf(u), m)' + settled'[m][u]
           = Cardinality(ToEnqueue(m, u)) + Cardinality(InHand(m, u))
               + CopiesAt(Chans, ConnsOf(u), m) + settled[m][u]
  PROVE  Balance(m, u)'
<1> DEFINE e == Cardinality(ToEnqueue(m, u))
           i == Cardinality(InHand(m, u))
           c == CopiesAt(Chans, ConnsOf(u), m)
           h == CopiesAt(Held, ProcsOf(u), m)
           w == One(m \in taken /\ u \in Targets[m])
           o == settled[m][u]
<1>1. Held' = Held /\ ProcsOf(u)' = ProcsOf(u)
  BY DEF Held, ProcsOf, UserOfProc, SameProcs
<1>2. e \in Nat /\ i \in Nat /\ c \in Nat /\ h \in Nat /\ o \in Nat
  BY CountsAreNat
<1>3. e + i + c + h + o = w
  BY DEF Balanced, Balance
<1>4. w' = w /\ w \in Nat
  BY DEF One
<1>5. h' = h
  BY <1>1 DEF CopiesAt
<1>6. SUFFICES e' + i' + c' + h' + o' = w'
  BY DEF Balance
<1>7. /\ e' \in Int /\ i' \in Int /\ c' \in Int /\ o' \in Int
      /\ e' + i' + c' + o' = e + i + c + o
  OBVIOUS
<1> HIDE DEF e, i, c, h, w, o
<1>8. e' + i' + c' + h' + o' = (e' + i' + c' + o') + h
  BY <1>2, <1>5, <1>7
<1>9. w = (e + i + c + o) + h
  BY <1>2, <1>3
<1> QED BY <1>4, <1>7, <1>8, <1>9

\* The item in the hand of c alone changes ...
LEMMA HandDiffers ==
  ASSUME NEW c \in Conns, \A k \in Conns \ {c} : writer'[k].item = writer[k].item,
         NEW m, NEW u
  PROVE  Cardinality(InHand(m, u))' =
           Cardinality(InHand(m, u))
             + (IF UserOf[c] = u /\ writer'[c].item = m THEN 1 ELSE 0)
             - (IF UserOf[c] = u /\ writer[c].item = m THEN 1 ELSE 0)
<1> DEFINE A == InHand(m, u)
           B == InHand(m, u)'
<1>1. A \in SUBSET Conns /\ B \in SUBSET Conns /\ \A k \in Conns \ {c} : k \in A <=> k \in B
  BY DEF InHand
<1>2. /\ c \in A <=> UserOf[c] = u /\ writer[c].item = m
      /\ c \in B <=> UserOf[c] = u /\ writer'[c].item = m
  BY DEF InHand
<1> HIDE DEF A, B
<1>3. Cardinality(B) = Cardinality(A) + One(c \in B) - One(c \in A)
  BY <1>1, GatewayAssumption, SetsDiffer
<1>4. /\ One(c \in B) = IF UserOf[c] = u /\ writer'[c].item = m THEN 1 ELSE 0
      /\ One(c \in A) = IF UserOf[c] = u /\ writer[c].item = m THEN 1 ELSE 0
  BY <1>2 DEF One
<1>5. Cardinality(B) = Cardinality(InHand(m, u))' /\ Cardinality(A) = Cardinality(InHand(m, u))
  BY DEF A, B
<1> QED BY <1>3, <1>4, <1>5

\* ... the job of d alone changes.
LEMMA JobsDiffer ==
  ASSUME NEW d \in Dispatchers, \A k \in Dispatchers \ {d} : job'[k] = job[k]
  PROVE  /\ \A m, u : Cardinality(ToEnqueue(m, u))' =
              Cardinality(ToEnqueue(m, u))
                + (IF d \in ToEnqueue(m, u)' THEN 1 ELSE 0)
                - (IF d \in ToEnqueue(m, u) THEN 1 ELSE 0)
         /\ Cardinality({k \in Dispatchers : job[k].pc = "inc"})' =
              Cardinality({k \in Dispatchers : job[k].pc = "inc"})
                + (IF job'[d].pc = "inc" THEN 1 ELSE 0) - (IF job[d].pc = "inc" THEN 1 ELSE 0)
<1>1. ASSUME NEW m, NEW u
      PROVE  Cardinality(ToEnqueue(m, u))' =
               Cardinality(ToEnqueue(m, u))
                 + (IF d \in ToEnqueue(m, u)' THEN 1 ELSE 0)
                 - (IF d \in ToEnqueue(m, u) THEN 1 ELSE 0)
  <2> DEFINE A == ToEnqueue(m, u)
             B == ToEnqueue(m, u)'
  <2>1. /\ A \in SUBSET Dispatchers /\ B \in SUBSET Dispatchers
        /\ \A k \in Dispatchers \ {d} : k \in A <=> k \in B
    BY DEF ToEnqueue
  <2> HIDE DEF A, B
  <2>2. Cardinality(B) = Cardinality(A) + One(d \in B) - One(d \in A)
    BY <2>1, GatewayAssumption, SetsDiffer
  <2>3. Cardinality(B) = Cardinality(A) + (IF d \in B THEN 1 ELSE 0) - (IF d \in A THEN 1 ELSE 0)
    BY <2>2 DEF One
  <2> QED BY <2>3 DEF A, B
<1>2. Cardinality({k \in Dispatchers : job[k].pc = "inc"})' =
        Cardinality({k \in Dispatchers : job[k].pc = "inc"})
          + (IF job'[d].pc = "inc" THEN 1 ELSE 0) - (IF job[d].pc = "inc" THEN 1 ELSE 0)
  <2> DEFINE A == {k \in Dispatchers : job[k].pc = "inc"}
             B == {k \in Dispatchers : job'[k].pc = "inc"}
  <2>1. /\ A \in SUBSET Dispatchers /\ B \in SUBSET Dispatchers
        /\ \A k \in Dispatchers \ {d} : k \in A <=> k \in B
    OBVIOUS
  <2>2. (d \in B <=> job'[d].pc = "inc") /\ (d \in A <=> job[d].pc = "inc")
    OBVIOUS
  <2> HIDE DEF A, B
  <2>3. Cardinality(B) = Cardinality(A) + One(d \in B) - One(d \in A)
    BY <2>1, GatewayAssumption, SetsDiffer
  <2>4. Cardinality(B) = Cardinality(A) + (IF job'[d].pc = "inc" THEN 1 ELSE 0)
                                        - (IF job[d].pc = "inc" THEN 1 ELSE 0)
    BY <2>2, <2>3 DEF One
  <2> QED BY <2>4 DEF A, B
<1> QED BY <1>1, <1>2

\* The drained items stay in order while the channel of c changes.
LEMMA HeldStays ==
  ASSUME TypeOK, Shape, Ordered, SameProcs, NEW c \in Conns,
         \A k \in Conns \ {c} : conn'[k].chan = conn[k].chan,
         \A u \in Users \ {UserOf[c]} : sent'[u] = sent[u],
         Grows(sent[UserOf[c]], sent'[UserOf[c]]),
         \A t : Enqueued(t, sent[UserOf[c]]) /\ Ahead(t, conn[c].chan, sent[UserOf[c]])
                  => Ahead(t, conn'[c].chan, sent'[UserOf[c]]),
         NEW p \in Procs
  PROVE  HeldInRow(p)'
<1> DEFINE q == sent[UserOfProc(p)]
           r == sent'[UserOfProc(p)]
           h == proc[p].held
<1>1. HeldInRow(p) /\ ProcOK(p) /\ UserOfProc(p) \in Users
  BY Who DEF Ordered, Shape
<1>2. proc'[p].pc = proc[p].pc /\ proc'[p].old = proc[p].old /\ proc'[p].held = h
  BY DEF SameProcs
<1>3. Grows(q, r)
  <2>1. CASE UserOfProc(p) = UserOf[c]
    BY <2>1
  <2>2. CASE UserOfProc(p) # UserOf[c]
    BY <1>1, <2>2 DEF Grows
  <2> QED BY <2>1, <2>2
<1>4. Enqueued(h, q) /\ InRow(h, q)
  BY <1>1 DEF HeldInRow
<1>5. Enqueued(h, r) /\ InRow(h, r)
  BY <1>3, <1>4, LaterInRow
<1>6. ASSUME proc[p].pc \in Draining
      PROVE  Ahead(h, conn'[proc[p].old].chan, r)
  <2>1. /\ proc[p].old \in Conns /\ UserOf[proc[p].old] = UserOfProc(p)
        /\ Ahead(h, conn[proc[p].old].chan, q)
    BY <1>1, <1>6 DEF ProcOK, LocalOK, Born, Draining, WithOld, HeldInRow
  <2>2. CASE proc[p].old = c
    BY <1>4, <2>1, <2>2
  <2>3. CASE proc[p].old # c
    BY <1>3, <2>1, <2>3, LaterInRow
  <2> QED BY <2>2, <2>3
<1> QED BY <1>2, <1>5, <1>6 DEF HeldInRow, UserOfProc

\* The goroutine that waits for the item gets an answer, and nothing else.
LEMMA Answered ==
  ASSUME TypeOK, NEW x, NEW r \in {"ok", "err"}, Answer(x, r)
  PROVE  proc' \in [Procs -> ProcType] /\ SameProcs
<1>1. CASE UNCHANGED proc
  BY <1>1 DEF TypeOK, SameProcs
<1>2. CASE ~UNCHANGED proc
  <2> DEFINE p == x[1]
             awaits == proc[p].n = x[2] /\ proc[p].pc \in {"inc", "await"}
  <2>1. proc' = [proc EXCEPT ![p].answer = IF awaits THEN r ELSE @]
    BY <1>2 DEF Answer
  <2> HIDE DEF awaits
  <2>2. ASSUME NEW q \in Procs
        PROVE  proc'[q] = proc[q] \/ proc'[q] = [proc[q] EXCEPT !.answer = r]
    BY <2>1 DEF TypeOK, ProcType
  <2>3. ASSUME NEW q \in Procs
        PROVE  /\ proc'[q] \in ProcType
               /\ proc'[q].pc = proc[q].pc /\ proc'[q].old = proc[q].old
               /\ proc'[q].held = proc[q].held /\ proc'[q].ret = proc[q].ret
               /\ proc'[q].fails = proc[q].fails /\ proc'[q].n = proc[q].n
    <3>1. proc[q] \in ProcType
      BY Typed
    <3>2. CASE proc'[q] = proc[q]
      BY <3>1, <3>2
    <3>3. CASE proc'[q] = [proc[q] EXCEPT !.answer = r]
      BY <3>1, <3>3 DEF ProcType
    <3> QED BY <2>2, <3>2, <3>3
  <2>4. proc' = [q \in Procs |-> proc'[q]]
    BY <2>1 DEF TypeOK
  <2> QED BY <2>3, <2>4 DEF SameProcs
<1> QED BY <1>1, <1>2
--------------------------------------------------------------------------------
(* writerLoop. *)

LEMMA ReceiveKeeps ==
  ASSUME IInv, NEW c \in Conns, Receive(c)
  PROVE  IInv'
<1> DEFINE s == conn[c].chan
           x == Head(s)
           D == {d \in Dispatchers : job[d].pc = "inc"}
<1>1. /\ TypeOK /\ Shape /\ Balanced /\ Ordered /\ PendingExact /\ ConnOK(c)
      /\ s \in Seq(Items) /\ s # << >> /\ conn[c] \in ConnType
  BY Typed DEF IInv, Shape, Receive
<1>2. writer[c].pc = "select" /\ writer[c].item = NoMsg
  BY <1>1 DEF Receive, ConnOK
<1>3. x \in Items /\ Tail(s) \in Seq(Items)
  BY <1>1, HeadTailProperties
<1>4. /\ writer' = [writer EXCEPT ![c] = [pc |-> "write", item |-> x]]
      /\ conn' = [conn EXCEPT ![c].chan = Tail(s)]
      /\ totalPending' = totalPending - 1
      /\ UNCHANGED <<store, connCount, proc, job, taken, fatal, sent, settled>>
  BY DEF Receive, history
<1> HIDE DEF s, x
<1>5. /\ writer' \in [Conns -> WriterType]
      /\ \A k \in Conns \ {c} : writer'[k] = writer[k]
      /\ writer'[c].pc = "write" /\ writer'[c].item = x
  BY <1>1, <1>3, <1>4 DEF TypeOK, WriterType
<1>6. /\ conn' \in [Conns -> ConnType]
      /\ \A k \in Conns \ {c} : conn'[k] = conn[k]
      /\ conn'[c].chan = Tail(s)
  BY <1>1, <1>3, <1>4 DEF TypeOK, ConnType
<1>7. totalPending \in Int /\ totalPending' \in Int
  BY <1>1, <1>4 DEF TypeOK
<1>8. TypeOK'
  BY <1>1, <1>4, <1>5, <1>6, <1>7 DEF TypeOK
<1>9. SameProcs
  BY <1>4 DEF SameProcs
<1>10. Shape'
  <2>1. c \in Born
    BY <1>1, <1>2 DEF ConnOK
  <2>2. \A k \in Conns : writer[k].pc # "write" => writer[k].item = NoMsg
    BY <1>1 DEF Shape, ConnOK
  <2>3. \A k \in Conns : writer'[k].pc # "write" => writer'[k].item = NoMsg
    BY <1>5, <2>2
  <2>4. \A k \in Conns : k \notin Born => conn'[k].chan = conn[k].chan /\ writer'[k] = writer[k]
    BY <1>5, <1>6, <2>1
  <2>5. \A d \in Dispatchers : JobOK(d)'
    BY <1>1, <1>4, <1>9, JobStays
  <2> QED BY <1>1, <1>4, <1>9, <2>3, <2>4, <2>5, SameProcsShape
<1>11. Balanced'
  <2> SUFFICES ASSUME NEW m \in Msgs, NEW u \in Users PROVE Balance(m, u)'
    BY DEF Balanced
  <2> DEFINE e == Cardinality(ToEnqueue(m, u))
             i == Cardinality(InHand(m, u))
             a == CopiesAt(Chans, ConnsOf(u), m)
             o == settled[m][u]
             ks == Copies(s, m)
             kt == Copies(Tail(s), m)
  <2>1. ks = kt + IF x = m THEN 1 ELSE 0
    BY <1>1, CopiesTail DEF x
  <2>2. ks \in Nat /\ kt \in Nat
    BY <1>1, <1>3, CopiesType
  <2>3. a' = IF UserOf[c] = u THEN a - ks + kt ELSE a
    <3>1. \A k \in Conns \ {c} : conn'[k].chan = conn[k].chan
      BY <1>6
    <3>2. a' = IF UserOf[c] = u
               THEN a - Copies(conn[c].chan, m) + Copies(conn'[c].chan, m) ELSE a
      BY <1>1, <1>8, <3>1, ChanDiffers
    <3> QED BY <1>6, <3>2 DEF s
  <2>4. i' = i + IF UserOf[c] = u /\ x = m THEN 1 ELSE 0
    <3>1. i' = i + (IF UserOf[c] = u /\ writer'[c].item = m THEN 1 ELSE 0)
                 - (IF UserOf[c] = u /\ writer[c].item = m THEN 1 ELSE 0)
      BY <1>5, HandDiffers
    <3>2. writer[c].item # m /\ i \in Nat
      BY <1>1, <1>2, GatewayAssumption, CountsAreNat
    <3> HIDE DEF i
    <3> QED BY <1>5, <3>1, <3>2
  <2>5. e \in Nat /\ i \in Nat /\ a \in Nat /\ o \in Nat
    BY <1>1, CountsAreNat
  <2>6. e' = e /\ o' = o
    BY <1>4 DEF ToEnqueue
  <2> HIDE DEF e, i, a, o, ks, kt
  <2>7. /\ e' \in Int /\ i' \in Int /\ a' \in Int /\ o' \in Int
        /\ e' + i' + a' + o' = e + i + a + o
    BY <2>1, <2>2, <2>3, <2>4, <2>5, <2>6
  <2> QED BY <1>1, <1>4, <1>9, <2>7, BalanceSum DEF e, i, a, o
<1>12. Ordered'
  <2> DEFINE q == sent[UserOf[c]]
  <2>1. LineInRow(c)
    BY <1>1 DEF Ordered
  <2>2. /\ Enqueued(Tail(s), q) /\ InRow(Tail(s), q)
        /\ Enqueued(<<x>>, q) /\ Ahead(<<x>>, Tail(s), q)
        /\ \A h : Ahead(h, s, q) => Ahead(h, Tail(s), q)
    BY <1>1, <2>1, TailInRow DEF LineInRow, s, x
  <2>3. ASSUME NEW k \in Conns PROVE LineInRow(k)'
    <3>1. CASE k = c
      BY <1>4, <1>5, <1>6, <2>2, <3>1 DEF LineInRow
    <3>2. CASE k # c
      BY <1>1, <1>4, <1>5, <1>6, <3>2 DEF Ordered, LineInRow
    <3> QED BY <3>1, <3>2
  <2>4. Grows(q, q)
    BY DEF Grows
  <2>5. \A p \in Procs : HeldInRow(p)'
    BY <1>1, <1>4, <1>6, <1>9, <2>2, <2>4, HeldStays DEF s
  <2> QED BY <2>3, <2>5 DEF Ordered
<1>13. PendingExact'
  <2> DEFINE k == Len(s)
             l == Len(Tail(s))
             n == Cardinality(D)
  <2>1. Total(Chans)' = Total(Chans) - k + l
    <3>1. Total(Chans)' = Total(Chans) - Len(conn[c].chan) + Len(conn'[c].chan)
      BY <1>1, <1>6, <1>8, ChanDiffers
    <3> QED BY <1>6, <3>1 DEF s
  <2>2. k \in Nat /\ l = k - 1
    BY <1>1, LenProperties, HeadTailProperties
  <2>3. n' = n /\ n \in Nat /\ Total(Chans) \in Nat
    BY <1>1, <1>4, CountsAreNat
  <2> HIDE DEF k, l, n
  <2>4. totalPending' = totalPending + Total(Chans)' - Total(Chans) + n - n'
    BY <1>4, <1>7, <2>1, <2>2, <2>3
  <2> QED BY <1>1, <1>8, <1>9, <2>3, <2>4, SameProcsPending DEF n
<1> QED BY <1>8, <1>10, <1>11, <1>12, <1>13 DEF IInv

LEMMA WriterEndsKeeps ==
  ASSUME IInv, NEW c \in Conns, WriterEnds(c)
  PROVE  IInv'
<1>1. /\ TypeOK /\ Shape /\ Balanced /\ Ordered /\ PendingExact /\ ConnOK(c)
      /\ writer[c].pc = "select" /\ writer[c] \in WriterType
  BY DEF IInv, Shape, WriterEnds, TypeOK
<1>2. UNCHANGED <<store, conn, connCount, totalPending, proc, job, taken, fatal, sent, settled>>
  BY DEF WriterEnds, history
<1>3. /\ writer' \in [Conns -> WriterType]
      /\ \A k \in Conns \ {c} : writer'[k] = writer[k]
      /\ writer'[c].pc = "ended" /\ writer'[c].item = writer[c].item
  BY <1>1 DEF WriterEnds, TypeOK, WriterType
<1>4. TypeOK'
  BY <1>1, <1>2, <1>3 DEF TypeOK
<1>5. SameProcs
  BY <1>2 DEF SameProcs
<1>6. Shape'
  <2>1. c \in Born /\ writer[c].item = NoMsg
    BY <1>1 DEF ConnOK
  <2>2. \A k \in Conns : writer[k].pc # "write" => writer[k].item = NoMsg
    BY <1>1 DEF Shape, ConnOK
  <2>3. \A k \in Conns : writer'[k].pc # "write" => writer'[k].item = NoMsg
    BY <1>3, <2>1, <2>2
  <2>4. \A k \in Conns : k \notin Born => conn'[k].chan = conn[k].chan /\ writer'[k] = writer[k]
    BY <1>2, <1>3, <2>1
  <2>5. \A d \in Dispatchers : JobOK(d)'
    BY <1>1, <1>2, <1>5, JobStays
  <2> QED BY <1>1, <1>2, <1>5, <2>3, <2>4, <2>5, SameProcsShape
<1>7. \A k \in Conns : writer'[k].item = writer[k].item
  BY <1>3
<1>8. Balanced'
  BY <1>1, <1>2, <1>7 DEF Balanced, Balance, ToEnqueue, InHand, Chans, Held, ConnsOf, ProcsOf,
     UserOfProc
<1>9. Ordered'
  BY <1>1, <1>2, <1>7 DEF Ordered, LineInRow, HeldInRow, UserOfProc
<1>10. PendingExact'
  BY <1>1, <1>2 DEF PendingExact, Chans, Drained, At
<1> QED BY <1>4, <1>6, <1>8, <1>9, <1>10 DEF IInv

\* One item is settled for v.
LEMMA SettledOne ==
  ASSUME TypeOK, NEW v \in Users, NEW x, Settle(<<x>>, v)
  PROVE  /\ settled' \in [Msgs -> [Users -> Nat]] /\ sent' = sent
         /\ \A m \in Msgs, u \in Users :
              settled'[m][u] = settled[m][u] + IF u = v /\ x = m THEN 1 ELSE 0
<1>1. ASSUME NEW m \in Msgs
      PROVE  /\ settled'[m] \in [Users -> Nat]
             /\ \A u \in Users :
                  settled'[m][u] = settled[m][u] + IF u = v /\ x = m THEN 1 ELSE 0
  <2> DEFINE k == Copies(<<x>>, m)
  <2>1. k = IF x = m THEN 1 ELSE 0
    BY CopiesOne
  <2>2. settled'[m] = [settled[m] EXCEPT ![v] = @ + k] /\ settled[m] \in [Users -> Nat]
    BY DEF Settle, TypeOK
  <2> HIDE DEF k
  <2> QED BY <2>1, <2>2
<1>2. settled' = [m \in Msgs |-> settled'[m]] /\ sent' = sent
  BY DEF Settle
<1> QED BY <1>1, <1>2

\* A write is over, well or not: the message is settled.
LEMMA WroteKeeps ==
  ASSUME IInv, NEW c \in Conns, NEW y \in {"select", "ended"}, NEW r \in {"ok", "err"},
         writer[c].pc = "write", Answer(writer[c].item, r), Settle(<<writer[c].item>>, UserOf[c]),
         writer' = [writer EXCEPT ![c] = [pc |-> y, item |-> NoMsg]],
         conn' = conn \/ conn' = [conn EXCEPT ![c].sock = "closed"],
         UNCHANGED <<store, connCount, totalPending, job, taken, fatal>>
  PROVE  IInv'
<1> DEFINE x == writer[c].item
           D == {d \in Dispatchers : job[d].pc = "inc"}
<1>1. /\ TypeOK /\ Shape /\ Balanced /\ Ordered /\ PendingExact /\ ConnOK(c)
      /\ UserOf[c] \in Users
  BY GatewayAssumption DEF IInv, Shape
<1>2. proc' \in [Procs -> ProcType] /\ SameProcs
  BY <1>1, Answered
<1>3. /\ settled' \in [Msgs -> [Users -> Nat]] /\ sent' = sent
      /\ \A m \in Msgs, u \in Users :
           settled'[m][u] = settled[m][u] + IF u = UserOf[c] /\ x = m THEN 1 ELSE 0
  BY <1>1, SettledOne
<1>4. conn' \in [Conns -> ConnType] /\ \A k \in Conns : conn'[k].chan = conn[k].chan
  BY <1>1, Closed
<1>5. /\ writer' \in [Conns -> WriterType]
      /\ \A k \in Conns \ {c} : writer'[k] = writer[k]
      /\ writer'[c].pc = y /\ writer'[c].item = NoMsg
  BY <1>1 DEF TypeOK, WriterType
<1>6. TypeOK'
  BY <1>1, <1>2, <1>3, <1>4, <1>5 DEF TypeOK
<1>7. Shape'
  <2>1. c \in Born
    BY <1>1 DEF ConnOK
  <2>2. \A k \in Conns : writer[k].pc # "write" => writer[k].item = NoMsg
    BY <1>1 DEF Shape, ConnOK
  <2>3. \A k \in Conns : writer'[k].pc # "write" => writer'[k].item = NoMsg
    BY <1>5, <2>2
  <2>4. \A k \in Conns : k \notin Born => conn'[k].chan = conn[k].chan /\ writer'[k] = writer[k]
    BY <1>4, <1>5, <2>1
  <2>5. \A d \in Dispatchers : JobOK(d)'
    BY <1>1, <1>2, JobStays
  <2> QED BY <1>1, <1>2, <2>3, <2>4, <2>5, SameProcsShape
<1>8. Chans' = Chans
  BY <1>4 DEF Chans
<1>9. Balanced'
  <2> SUFFICES ASSUME NEW m \in Msgs, NEW u \in Users PROVE Balance(m, u)'
    BY DEF Balanced
  <2> DEFINE e == Cardinality(ToEnqueue(m, u))
             i == Cardinality(InHand(m, u))
             a == CopiesAt(Chans, ConnsOf(u), m)
             o == settled[m][u]
             w == IF UserOf[c] = u /\ x = m THEN 1 ELSE 0
  <2>1. e \in Nat /\ i \in Nat /\ a \in Nat /\ o \in Nat /\ w \in Nat
    BY <1>1, CountsAreNat
  <2>2. i' = i - w
    <3>1. i' = i + (IF UserOf[c] = u /\ writer'[c].item = m THEN 1 ELSE 0)
                 - (IF UserOf[c] = u /\ writer[c].item = m THEN 1 ELSE 0)
      BY <1>5, HandDiffers
    <3>2. NoMsg # m
      BY GatewayAssumption
    <3> HIDE DEF i
    <3> QED BY <1>5, <2>1, <3>1, <3>2
  <2>3. o' = o + w
    BY <1>3
  <2>4. e' = e /\ a' = a
    BY <1>8 DEF ToEnqueue, ConnsOf
  <2> HIDE DEF e, i, a, o, w
  <2>5. /\ e' \in Int /\ i' \in Int /\ a' \in Int /\ o' \in Int
        /\ e' + i' + a' + o' = e + i + a + o
    BY <2>1, <2>2, <2>3, <2>4
  <2> QED BY <1>1, <1>2, <2>5, BalanceSum DEF e, i, a, o
<1>10. Ordered'
  <2>1. ASSUME NEW k \in Conns PROVE LineInRow(k)'
    <3>1. LineInRow(k)
      BY <1>1 DEF Ordered
    <3>2. CASE k = c
      <4>1. \A q, s : Enqueued(<<NoMsg>>, q) /\ Ahead(<<NoMsg>>, s, q)
        BY GatewayAssumption, OtherInRow
      <4> QED BY <1>3, <1>4, <1>5, <3>1, <3>2, <4>1 DEF LineInRow
    <3>3. CASE k # c
      BY <1>3, <1>4, <1>5, <3>1, <3>3 DEF LineInRow
    <3> QED BY <3>2, <3>3
  <2>2. \A q : Grows(q, q)
    BY DEF Grows
  <2>3. \A p \in Procs : HeldInRow(p)'
    BY <1>1, <1>2, <1>3, <1>4, <2>2, HeldStays
  <2> QED BY <2>1, <2>3 DEF Ordered
<1>11. PendingExact'
  <2> DEFINE n == Cardinality(D)
  <2>1. n' = n /\ n \in Nat /\ Total(Chans) \in Nat /\ totalPending \in Int
    BY <1>1, CountsAreNat DEF TypeOK
  <2> HIDE DEF n
  <2>2. totalPending' = totalPending + Total(Chans)' - Total(Chans) + n - n'
    BY <1>8, <2>1
  <2> QED BY <1>1, <1>2, <1>6, <2>1, <2>2, SameProcsPending DEF n
<1> QED BY <1>6, <1>7, <1>9, <1>10, <1>11 DEF IInv

LEMMA WriteOkKeeps ==
  ASSUME IInv, NEW c \in Conns, WriteOk(c)
  PROVE  IInv'
BY WroteKeeps DEF WriteOk

LEMMA WriteFailsKeeps ==
  ASSUME IInv, NEW c \in Conns, WriteFails(c)
  PROVE  IInv'
BY WroteKeeps DEF WriteFails
--------------------------------------------------------------------------------
(* dispatchWorker. *)

\* What worker d no longer has to enqueue is settled, and it adds one to totalPending
\* when it is due to.
SettlesItsOwn(d) ==
  \A m \in Msgs, u \in Users :
    settled'[m][u] + (IF d \in ToEnqueue(m, u)' THEN 1 ELSE 0)
      = settled[m][u] + (IF d \in ToEnqueue(m, u) THEN 1 ELSE 0)
CountsItsOwn(d) ==
  totalPending' = totalPending + (IF job[d].pc = "inc" THEN 1 ELSE 0)
                               - (IF job'[d].pc = "inc" THEN 1 ELSE 0)

LEMMA PairSum ==
  ASSUME NEW p \in Int, NEW q \in Int, NEW r \in Int, NEW s \in Int, NEW t \in Int,
         NEW v \in Int, r = p + v - q, s + v = t + q
  PROVE  r \in Int /\ r + s = p + t
OBVIOUS

\* A step of worker d that leaves the channels alone.
LEMMA JobKeeps ==
  ASSUME IInv, NEW d \in Dispatchers, job' \in [Dispatchers -> JobType],
         \A k \in Dispatchers \ {d} : job'[k] = job[k], JobOK(d)',
         settled' \in [Msgs -> [Users -> Nat]],
         SettlesItsOwn(d), CountsItsOwn(d), totalPending' \in Int, fatal' \in BOOLEAN,
         UNCHANGED <<store, conn, connCount, writer, proc, taken, sent>>
  PROVE  IInv'
<1> DEFINE D == {k \in Dispatchers : job[k].pc = "inc"}
<1>1. /\ TypeOK /\ Shape /\ Balanced /\ Ordered /\ PendingExact /\ totalPending \in Int
  BY DEF IInv, TypeOK
<1>3. TypeOK'
  BY <1>1 DEF TypeOK
<1>4. SameProcs
  BY DEF SameProcs
<1>5. Shape'
  <2>1. \A k \in Conns : writer[k].pc # "write" => writer[k].item = NoMsg
    BY <1>1 DEF Shape, ConnOK
  <2>2. ASSUME NEW k \in Dispatchers PROVE JobOK(k)'
    <3>1. CASE k = d
      BY <3>1
    <3>2. CASE k # d
      BY <1>1, <1>4, <3>2, JobStays
    <3> QED BY <3>1, <3>2
  <2> QED BY <1>1, <1>4, <2>1, <2>2, SameProcsShape
<1>6. Chans' = Chans
  BY DEF Chans
<1>7. Balanced'
  <2> SUFFICES ASSUME NEW m \in Msgs, NEW u \in Users PROVE Balance(m, u)'
    BY DEF Balanced
  <2> DEFINE e == Cardinality(ToEnqueue(m, u))
             x == Cardinality(ToEnqueue(m, u)')
             o == settled[m][u]
             y == settled'[m][u]
             w == IF d \in ToEnqueue(m, u) THEN 1 ELSE 0
             z == IF d \in ToEnqueue(m, u)' THEN 1 ELSE 0
  <2>1. e \in Nat /\ o \in Nat /\ Cardinality(InHand(m, u)) \in Nat
        /\ CopiesAt(Chans, ConnsOf(u), m) \in Nat
    BY <1>1, CountsAreNat
  <2>2. x = e + z - w
    BY JobsDiffer
  <2>3. w \in Nat /\ z \in Nat /\ y \in Nat
    BY <1>3 DEF TypeOK
  <2>4. y + z = o + w
    BY DEF SettlesItsOwn
  <2>5. /\ InHand(m, u)' = InHand(m, u)
        /\ CopiesAt(Chans, ConnsOf(u), m)' = CopiesAt(Chans, ConnsOf(u), m)
    BY <1>6 DEF InHand, ConnsOf
  <2>6. x \in Int /\ x + y = e + o
    <3> HIDE DEF e, x, o, y, w, z
    <3> QED BY <2>1, <2>2, <2>3, <2>4, PairSum
  <2> DEFINE i == Cardinality(InHand(m, u))
             a == CopiesAt(Chans, ConnsOf(u), m)
  <2>7. x \in Int /\ i \in Int /\ a \in Int /\ y \in Int
        /\ x + i + a + y = e + i + a + o
    <3> HIDE DEF e, x, o, y, w, z, i, a
    <3> QED BY <2>1, <2>3, <2>6 DEF i, a
  <2> QED BY <1>1, <1>4, <2>5, <2>7, BalanceSum
<1>8. Ordered'
  BY <1>1 DEF Ordered, LineInRow, HeldInRow, UserOfProc
<1>9. PendingExact'
  <2> DEFINE n == Cardinality(D)
             v == IF job[d].pc = "inc" THEN 1 ELSE 0
  <2>1. n \in Nat /\ Total(Chans) \in Nat /\ v \in Nat /\ v' \in Nat
    BY <1>1, CountsAreNat
  <2>2. n' = n + v' - v
    BY JobsDiffer
  <2>3. totalPending' = totalPending + v - v'
    BY DEF CountsItsOwn
  <2> HIDE DEF n, v
  <2>4. n' \in Int /\ totalPending' = totalPending + Total(Chans)' - Total(Chans) + n - n'
    BY <1>1, <1>6, <2>1, <2>2, <2>3
  <2> QED BY <1>1, <1>3, <1>4, <2>1, <2>4, SameProcsPending DEF n
<1> QED BY <1>3, <1>5, <1>7, <1>8, <1>9 DEF IInv

LEMMA JobUnfolded ==
  ASSUME IInv, NEW d \in Dispatchers
  PROVE  /\ TypeOK /\ Shape /\ Balanced /\ Ordered /\ PendingExact
         /\ JobOK(d) /\ job[d] \in JobType /\ job \in [Dispatchers -> JobType]
         /\ totalPending \in Int /\ settled \in [Msgs -> [Users -> Nat]] /\ fatal \in BOOLEAN
BY DEF IInv, Shape, TypeOK

\* The worker turns to its next target.
LEMMA Turned ==
  ASSUME IInv, NEW d \in Dispatchers, Turn(d), UNCHANGED <<proc, taken>>
  PROVE  /\ job' \in [Dispatchers -> JobType]
         /\ \A k \in Dispatchers \ {d} : job'[k] = job[k]
         /\ job'[d].pc = "load" /\ job'[d].msg = job[d].msg /\ job'[d].todo = job[d].todo
         /\ JobOK(d)'
<1>1. JobOK(d) /\ job[d] \in JobType /\ job \in [Dispatchers -> JobType] /\ Shape
  BY JobUnfolded
<1>2. /\ job' \in [Dispatchers -> JobType]
      /\ \A k \in Dispatchers \ {d} : job'[k] = job[k]
      /\ job'[d].pc = "load" /\ job'[d].msg = job[d].msg /\ job'[d].todo = job[d].todo
      /\ job'[d].old = NoConn
  BY <1>1 DEF Turn, JobType
<1> QED BY <1>1, <1>2 DEF JobOK

LEMMA PushBackKeeps ==
  ASSUME IInv, NEW d \in Dispatchers, NEW v \in Users, PushBack(d, v)
  PROVE  IInv'
<1> DEFINE x == job[d].msg
<1>1. /\ TypeOK /\ Shape /\ JobOK(d) /\ job[d] \in JobType /\ job \in [Dispatchers -> JobType]
      /\ totalPending \in Int /\ fatal \in BOOLEAN /\ settled \in [Msgs -> [Users -> Nat]]
  BY JobUnfolded
<1>2. job[d].pc = "load" /\ v \in job[d].todo
  BY DEF PushBack
<1>3. /\ settled' \in [Msgs -> [Users -> Nat]] /\ sent' = sent
      /\ \A m \in Msgs, u \in Users :
           settled'[m][u] = settled[m][u] + IF u = v /\ x = m THEN 1 ELSE 0
  BY <1>1, SettledOne DEF PushBack
<1>4. /\ job' \in [Dispatchers -> JobType]
      /\ \A k \in Dispatchers \ {d} : job'[k] = job[k]
      /\ job'[d].pc = "load" /\ job'[d].msg = x /\ job'[d].todo = job[d].todo \ {v}
      /\ job'[d].user = job[d].user /\ job'[d].old = job[d].old
  BY <1>1, <1>2 DEF PushBack, JobType
<1>5. UNCHANGED <<store, conn, connCount, totalPending, writer, proc, taken, fatal>>
  BY DEF PushBack
<1>6. SameProcs
  BY <1>5 DEF SameProcs
<1>7. JobOK(d)'
  BY <1>1, <1>2, <1>4, <1>5, <1>6, SameBorn DEF JobOK
<1>8. ASSUME NEW m \in Msgs, NEW u \in Users
      PROVE  settled'[m][u] + (IF d \in ToEnqueue(m, u)' THEN 1 ELSE 0)
               = settled[m][u] + (IF d \in ToEnqueue(m, u) THEN 1 ELSE 0)
  <2>1. d \in ToEnqueue(m, u) <=> x = m /\ u \in job[d].todo
    BY <1>2 DEF ToEnqueue
  <2>2. d \in ToEnqueue(m, u)' <=> x = m /\ u \in job[d].todo \ {v}
    BY <1>4 DEF ToEnqueue
  <2>3. settled[m][u] \in Nat
    BY <1>1
  <2> QED BY <1>2, <1>3, <2>1, <2>2, <2>3
<1> QED BY <1>1, <1>2, <1>3, <1>4, <1>5, <1>7, <1>8, JobKeeps DEF SettlesItsOwn, CountsItsOwn

LEMMA LoadTargetKeeps ==
  ASSUME IInv, NEW d \in Dispatchers, NEW v \in Users, LoadTarget(d, v)
  PROVE  IInv'
<1> DEFINE x == job[d].msg
<1>1. /\ TypeOK /\ Shape /\ JobOK(d) /\ job[d] \in JobType /\ job \in [Dispatchers -> JobType]
      /\ totalPending \in Int /\ fatal \in BOOLEAN /\ settled \in [Msgs -> [Users -> Nat]]
  BY JobUnfolded
<1>2. /\ job[d].pc = "load" /\ v \in job[d].todo
      /\ store[v] # NoConn /\ StoreOK(v) /\ store[v] \in Conns
  BY <1>1 DEF LoadTarget, Shape, TypeOK
<1>3. /\ job' \in [Dispatchers -> JobType]
      /\ \A k \in Dispatchers \ {d} : job'[k] = job[k]
      /\ job'[d].pc = "send" /\ job'[d].msg = x /\ job'[d].todo = job[d].todo \ {v}
      /\ job'[d].user = v /\ job'[d].old = store[v]
  BY <1>1, <1>2 DEF LoadTarget, JobType
<1>4. UNCHANGED <<store, conn, connCount, totalPending, writer, proc, taken, fatal, sent, settled>>
  BY DEF LoadTarget, history
<1>5. SameProcs
  BY <1>4 DEF SameProcs
<1>6. JobOK(d)'
  BY <1>1, <1>2, <1>3, <1>4, <1>5, SameBorn, GatewayAssumption DEF JobOK, StoreOK
<1>7. ASSUME NEW m \in Msgs, NEW u \in Users
      PROVE  d \in ToEnqueue(m, u)' <=> d \in ToEnqueue(m, u)
  <2>1. d \in ToEnqueue(m, u) <=> x = m /\ u \in job[d].todo
    BY <1>2 DEF ToEnqueue
  <2>2. d \in ToEnqueue(m, u)' <=> x = m /\ (u \in job[d].todo \ {v} \/ v = u)
    BY <1>3 DEF ToEnqueue
  <2> QED BY <1>2, <2>1, <2>2
<1>8. ASSUME NEW m \in Msgs, NEW u \in Users
      PROVE  settled'[m][u] + (IF d \in ToEnqueue(m, u)' THEN 1 ELSE 0)
               = settled[m][u] + (IF d \in ToEnqueue(m, u) THEN 1 ELSE 0)
  BY <1>4, <1>7
<1> QED BY <1>1, <1>2, <1>3, <1>4, <1>6, <1>8, JobKeeps DEF SettlesItsOwn, CountsItsOwn

LEMMA EnqueueTimeoutKeeps ==
  ASSUME IInv, NEW d \in Dispatchers, EnqueueTimeout(d)
  PROVE  IInv'
<1> DEFINE x == job[d].msg
           v == job[d].user
<1>1. /\ TypeOK /\ Shape /\ JobOK(d) /\ job[d] \in JobType
      /\ totalPending \in Int /\ fatal \in BOOLEAN /\ settled \in [Msgs -> [Users -> Nat]]
  BY JobUnfolded
<1>2. job[d].pc = "send" /\ v \notin job[d].todo /\ v \in Users
  BY <1>1 DEF EnqueueTimeout, JobOK, JobType
<1>3. UNCHANGED <<store, conn, connCount, totalPending, writer, proc, taken, fatal>>
  BY DEF EnqueueTimeout
<1>4. /\ settled' \in [Msgs -> [Users -> Nat]] /\ sent' = sent
      /\ \A m \in Msgs, u \in Users :
           settled'[m][u] = settled[m][u] + IF u = v /\ x = m THEN 1 ELSE 0
  BY <1>1, <1>2, SettledOne DEF EnqueueTimeout
<1>5. /\ job' \in [Dispatchers -> JobType]
      /\ \A k \in Dispatchers \ {d} : job'[k] = job[k]
      /\ job'[d].pc = "load" /\ job'[d].msg = x /\ job'[d].todo = job[d].todo
      /\ JobOK(d)'
  BY <1>3, Turned DEF EnqueueTimeout
<1>6. ASSUME NEW m \in Msgs, NEW u \in Users
      PROVE  settled'[m][u] + (IF d \in ToEnqueue(m, u)' THEN 1 ELSE 0)
               = settled[m][u] + (IF d \in ToEnqueue(m, u) THEN 1 ELSE 0)
  <2>1. d \in ToEnqueue(m, u) <=> x = m /\ (u \in job[d].todo \/ v = u)
    BY <1>2 DEF ToEnqueue
  <2>2. d \in ToEnqueue(m, u)' <=> x = m /\ u \in job[d].todo
    BY <1>5 DEF ToEnqueue
  <2>3. settled[m][u] \in Nat
    BY <1>1
  <2> QED BY <1>2, <1>4, <2>1, <2>2, <2>3
<1> QED BY <1>1, <1>2, <1>3, <1>4, <1>5, <1>6, JobKeeps DEF SettlesItsOwn, CountsItsOwn

LEMMA IncDispatchKeeps ==
  ASSUME IInv, NEW d \in Dispatchers, IncDispatch(d)
  PROVE  IInv'
<1>1. totalPending \in Int /\ fatal \in BOOLEAN /\ settled \in [Msgs -> [Users -> Nat]]
  BY JobUnfolded
<1>2. job[d].pc = "inc" /\ totalPending' = totalPending + 1
  BY DEF IncDispatch
<1>3. UNCHANGED <<store, conn, connCount, writer, proc, taken, fatal, sent, settled>>
  BY DEF IncDispatch, history
<1>4. /\ job' \in [Dispatchers -> JobType]
      /\ \A k \in Dispatchers \ {d} : job'[k] = job[k]
      /\ job'[d].pc = "load" /\ job'[d].msg = job[d].msg /\ job'[d].todo = job[d].todo
      /\ JobOK(d)'
  BY <1>3, Turned DEF IncDispatch
<1>5. ASSUME NEW m \in Msgs, NEW u \in Users
      PROVE  d \in ToEnqueue(m, u)' <=> d \in ToEnqueue(m, u)
  BY <1>2, <1>4 DEF ToEnqueue
<1>6. ASSUME NEW m \in Msgs, NEW u \in Users
      PROVE  settled'[m][u] + (IF d \in ToEnqueue(m, u)' THEN 1 ELSE 0)
               = settled[m][u] + (IF d \in ToEnqueue(m, u) THEN 1 ELSE 0)
  BY <1>3, <1>5
<1>7. totalPending' \in Int /\ CountsItsOwn(d)
  BY <1>1, <1>2, <1>4 DEF CountsItsOwn
<1> QED BY <1>1, <1>3, <1>4, <1>6, <1>7, JobKeeps DEF SettlesItsOwn

LEMMA EnqueuePanicsKeeps ==
  ASSUME IInv, NEW d \in Dispatchers, EnqueuePanics(d)
  PROVE  IInv'
<1>1. /\ job[d].pc = "send" /\ JobOK(d) /\ totalPending \in Int
      /\ settled \in [Msgs -> [Users -> Nat]] /\ job \in [Dispatchers -> JobType] /\ Shape
  BY JobUnfolded DEF EnqueuePanics
<1>2. UNCHANGED <<store, conn, connCount, totalPending, writer, proc, job, taken, sent, settled>>
  BY DEF EnqueuePanics, history
<1>3. JobOK(d)'
  BY <1>1, <1>2, JobStays DEF SameProcs
<1>4. ASSUME NEW m \in Msgs, NEW u \in Users
      PROVE  settled'[m][u] + (IF d \in ToEnqueue(m, u)' THEN 1 ELSE 0)
               = settled[m][u] + (IF d \in ToEnqueue(m, u) THEN 1 ELSE 0)
  BY <1>2 DEF ToEnqueue
<1>5. fatal' \in BOOLEAN
  BY DEF EnqueuePanics
<1> QED BY <1>1, <1>2, <1>3, <1>4, <1>5, JobKeeps DEF SettlesItsOwn, CountsItsOwn

LEMMA EnqueueKeeps ==
  ASSUME IInv, NEW d \in Dispatchers, Enqueue(d)
  PROVE  IInv'
<1> DEFINE c == job[d].old
           v == job[d].user
           x == job[d].msg
           s == conn[c].chan
           q == sent[v]
           D == {k \in Dispatchers : job[k].pc = "inc"}
<1>1. /\ TypeOK /\ Shape /\ Balanced /\ Ordered /\ PendingExact /\ JobOK(d)
      /\ job[d] \in JobType /\ job \in [Dispatchers -> JobType] /\ totalPending \in Int
  BY JobUnfolded
<1>2. /\ job[d].pc = "send" /\ c \in Conns \ {NoConn} /\ v \in Users /\ x \in Msgs
      /\ UserOf[c] = v /\ c \in Born /\ v \notin job[d].todo
  BY <1>1 DEF Enqueue, JobOK, JobType
<1>3. /\ s \in Seq(Items) /\ x \in Items /\ q \in Seq(Msgs) /\ conn[c] \in ConnType
  BY <1>1, <1>2, Typed DEF Items, TypeOK
<1>4. Append(s, x) \in Seq(Items) /\ Append(q, x) \in Seq(Msgs)
  BY <1>2, <1>3, AppendProperties
<1>5. /\ conn' = [conn EXCEPT ![c].chan = Append(s, x)]
      /\ sent' = [sent EXCEPT ![v] = Append(q, x)]
      /\ job' = [job EXCEPT ![d].pc = "inc"]
      /\ UNCHANGED <<store, connCount, totalPending, writer, proc, taken, fatal, settled>>
  BY DEF Enqueue
<1>6. /\ job' \in [Dispatchers -> JobType]
      /\ \A k \in Dispatchers \ {d} : job'[k] = job[k]
      /\ job'[d].pc = "inc" /\ job'[d].msg = x /\ job'[d].todo = job[d].todo
      /\ job'[d].user = v /\ job'[d].old = c
  BY <1>1, <1>5 DEF JobType
<1> HIDE DEF c, v, x, s, q
<1>7. /\ conn' \in [Conns -> ConnType]
      /\ \A k \in Conns \ {c} : conn'[k] = conn[k]
      /\ conn'[c].chan = Append(s, x)
  BY <1>1, <1>2, <1>4, <1>5 DEF TypeOK, ConnType
<1>8. /\ sent' \in [Users -> Seq(Msgs)]
      /\ \A u \in Users \ {v} : sent'[u] = sent[u]
      /\ sent'[v] = Append(q, x)
  BY <1>1, <1>2, <1>4, <1>5 DEF TypeOK
<1>9. TypeOK'
  BY <1>1, <1>5, <1>6, <1>7, <1>8 DEF TypeOK
<1>10. SameProcs
  BY <1>5 DEF SameProcs
<1>11. Shape'
  <2>1. \A k \in Conns : writer[k].pc # "write" => writer[k].item = NoMsg
    BY <1>1 DEF Shape, ConnOK
  <2>2. ASSUME NEW k \in Dispatchers PROVE JobOK(k)'
    <3>1. CASE k = d
      BY <1>1, <1>2, <1>5, <1>6, <1>10, <3>1, SameBorn DEF JobOK, c, v, x
    <3>2. CASE k # d
      BY <1>1, <1>5, <1>6, <1>10, <3>2, JobStays
    <3> QED BY <3>1, <3>2
  <2>3. \A k \in Conns : k \notin Born => conn'[k].chan = conn[k].chan /\ writer'[k] = writer[k]
    BY <1>2, <1>5, <1>7
  <2> QED BY <1>1, <1>5, <1>10, <2>1, <2>2, <2>3, SameProcsShape
<1>12. Balanced'
  <2> SUFFICES ASSUME NEW m \in Msgs, NEW u \in Users PROVE Balance(m, u)'
    BY DEF Balanced
  <2> DEFINE e == Cardinality(ToEnqueue(m, u))
             y == Cardinality(ToEnqueue(m, u)')
             a == CopiesAt(Chans, ConnsOf(u), m)
             i == Cardinality(InHand(m, u))
             o == settled[m][u]
             ks == Copies(s, m)
             ka == Copies(Append(s, x), m)
             w == IF v = u /\ x = m THEN 1 ELSE 0
  <2>1. e \in Nat /\ i \in Nat /\ a \in Nat /\ o \in Nat /\ ks \in Nat /\ w \in Nat
    BY <1>1, <1>3, CountsAreNat, CopiesType
  <2>2. y = e - w
    <3>1. y = e + (IF d \in ToEnqueue(m, u)' THEN 1 ELSE 0)
                - (IF d \in ToEnqueue(m, u) THEN 1 ELSE 0)
      BY <1>6, JobsDiffer
    <3>2. d \in ToEnqueue(m, u) <=> x = m /\ (u \in job[d].todo \/ v = u)
      BY <1>2 DEF ToEnqueue, x, v
    <3>3. d \in ToEnqueue(m, u)' <=> x = m /\ u \in job[d].todo
      BY <1>6 DEF ToEnqueue
    <3> HIDE DEF e, y
    <3> QED BY <1>2, <2>1, <3>1, <3>2, <3>3
  <2>3. ka = ks + IF x = m THEN 1 ELSE 0
    BY <1>3, CopiesAppend
  <2>4. a' = IF v = u THEN a - ks + ka ELSE a
    <3>1. c \in Conns /\ \A k \in Conns \ {c} : conn'[k].chan = conn[k].chan
      BY <1>2, <1>7
    <3>2. a' = IF UserOf[c] = u
               THEN a - Copies(conn[c].chan, m) + Copies(conn'[c].chan, m) ELSE a
      BY <1>1, <1>9, <3>1, ChanDiffers
    <3>3. conn[c].chan = s /\ conn'[c].chan = Append(s, x)
      BY <1>7 DEF s
    <3> QED BY <1>2, <3>2, <3>3
  <2>5. InHand(m, u)' = InHand(m, u) /\ settled' = settled
    BY <1>5 DEF InHand
  <2> HIDE DEF e, y, a, i, o, ks, ka, w
  <2>6. a' = a + w
    BY <2>1, <2>3, <2>4 DEF w
  <2>7. /\ y \in Int /\ a' \in Int /\ i \in Int /\ o \in Int
        /\ y + i + a' + o = e + i + a + o
    BY <2>1, <2>2, <2>6
  <2> QED BY <1>1, <1>5, <1>10, <2>5, <2>7, BalanceSum DEF e, y, a, i, o
<1>13. Ordered'
  <2> DEFINE r == Append(q, x)
  <2>1. sent[UserOf[c]] = q /\ sent'[UserOf[c]] = r /\ conn[c].chan = s /\ writer' = writer
    BY <1>2, <1>5, <1>8 DEF q, s
  <2>2. LineInRow(c)
    BY <1>1, <1>2 DEF Ordered
  <2>3. Enqueued(s, q) /\ InRow(s, q)
    BY <2>1, <2>2 DEF LineInRow
  <2>4. /\ Enqueued(Append(s, x), r) /\ InRow(Append(s, x), r)
        /\ \A h : Enqueued(h, q) /\ Ahead(h, s, q) => Ahead(h, Append(s, x), r)
        /\ Grows(q, r)
    BY <1>2, <1>3, <2>3, EnqueuedInRow
  <2> HIDE DEF r
  <2>5. ASSUME NEW k \in Conns PROVE LineInRow(k)'
    <3>1. LineInRow(k)
      BY <1>1 DEF Ordered
    <3>2. CASE k = c
      <4>1. Enqueued(<<writer[c].item>>, r)
        BY <2>1, <2>2, <2>4, LaterInRow DEF LineInRow
      <4>2. Ahead(<<writer[c].item>>, Append(s, x), r)
        BY <2>1, <2>2, <2>4 DEF LineInRow
      <4> QED BY <1>7, <2>1, <2>4, <3>2, <4>1, <4>2 DEF LineInRow
    <3>3. CASE k # c /\ UserOf[k] = v
      <4>1. sent[UserOf[k]] = q /\ sent'[UserOf[k]] = r /\ conn'[k].chan = conn[k].chan
        BY <1>2, <1>7, <2>1, <3>3
      <4>2. /\ Enqueued(conn[k].chan, r) /\ InRow(conn[k].chan, r)
            /\ Enqueued(<<writer[k].item>>, r) /\ Ahead(<<writer[k].item>>, conn[k].chan, r)
        BY <2>4, <3>1, <4>1, LaterInRow DEF LineInRow
      <4> QED BY <2>1, <4>1, <4>2 DEF LineInRow
    <3>4. CASE k # c /\ UserOf[k] # v
      <4>1. sent'[UserOf[k]] = sent[UserOf[k]] /\ conn'[k].chan = conn[k].chan
        BY <1>7, <1>8, <3>4, GatewayAssumption
      <4> QED BY <2>1, <3>1, <4>1 DEF LineInRow
    <3> QED BY <3>2, <3>3, <3>4
  <2>6. ASSUME NEW p \in Procs PROVE HeldInRow(p)'
    <3>1. \A k \in Conns \ {c} : conn'[k].chan = conn[k].chan
      BY <1>7
    <3>2. \A u \in Users \ {UserOf[c]} : sent'[u] = sent[u]
      BY <1>2, <1>8
    <3>3. /\ Grows(sent[UserOf[c]], sent'[UserOf[c]])
          /\ \A t : Enqueued(t, sent[UserOf[c]]) /\ Ahead(t, conn[c].chan, sent[UserOf[c]])
                      => Ahead(t, conn'[c].chan, sent'[UserOf[c]])
      BY <1>7, <2>1, <2>4
    <3> QED BY <1>1, <1>2, <1>10, <3>1, <3>2, <3>3, HeldStays
  <2> QED BY <2>5, <2>6 DEF Ordered
<1>14. PendingExact'
  <2> DEFINE n == Cardinality(D)
             k == Len(s)
             l == Len(Append(s, x))
             t == Total(Chans)
  <2>1. n \in Nat /\ t \in Nat
    BY <1>1, CountsAreNat
  <2>2. n' = n + 1
    BY <1>2, <1>6, <2>1, JobsDiffer
  <2>3. t' = t - k + l
    <3>1. c \in Conns /\ \A j \in Conns \ {c} : conn'[j].chan = conn[j].chan
      BY <1>2, <1>7
    <3>2. t' = t - Len(conn[c].chan) + Len(conn'[c].chan)
      BY <1>1, <1>9, <3>1, ChanDiffers
    <3>3. conn[c].chan = s /\ conn'[c].chan = Append(s, x)
      BY <1>7 DEF s
    <3> QED BY <3>2, <3>3
  <2>4. k \in Nat /\ l = k + 1
    BY <1>3, LenProperties, AppendProperties
  <2> HIDE DEF n, k, l, t
  <2>5. t' = t + 1
    BY <2>1, <2>3, <2>4
  <2>6. totalPending' = totalPending + t' - t + n - n' /\ n' \in Int
    BY <1>1, <1>5, <2>1, <2>2, <2>5
  <2> QED BY <1>1, <1>9, <1>10, <2>1, <2>6, SameProcsPending DEF n, t
<1> QED BY <1>9, <1>11, <1>12, <1>13, <1>14 DEF IInv

LEMMA DispatchKeeps ==
  ASSUME IInv, NEW d \in Dispatchers, NEW x \in Msgs, Dispatch(d, x)
  PROVE  IInv'
<1> DEFINE D == {k \in Dispatchers : job[k].pc = "inc"}
<1>1. /\ TypeOK /\ Shape /\ Balanced /\ Ordered /\ PendingExact /\ JobOK(d)
      /\ job[d] \in JobType /\ job \in [Dispatchers -> JobType] /\ totalPending \in Int
  BY JobUnfolded
<1>2. /\ job[d].pc = "load" /\ job[d].todo = {} /\ x \notin taken
      /\ taken' = taken \cup {x}
      /\ job' = [job EXCEPT ![d].msg = x, ![d].todo = Targets[x]]
      /\ UNCHANGED <<store, conn, connCount, totalPending, writer, proc, fatal, sent, settled>>
  BY DEF Dispatch, history
<1>3. Targets[x] \in SUBSET Users /\ x # NoMsg
  BY GatewayAssumption
<1>4. /\ job' \in [Dispatchers -> JobType]
      /\ \A k \in Dispatchers \ {d} : job'[k] = job[k]
      /\ job'[d].pc = "load" /\ job'[d].msg = x /\ job'[d].todo = Targets[x]
      /\ job'[d].user = job[d].user /\ job'[d].old = job[d].old
  BY <1>1, <1>2, <1>3 DEF JobType
<1>5. TypeOK'
  BY <1>1, <1>2, <1>4 DEF TypeOK
<1>6. SameProcs
  BY <1>2 DEF SameProcs
<1>7. Shape'
  <2>1. \A k \in Conns : writer[k].pc # "write" => writer[k].item = NoMsg
    BY <1>1 DEF Shape, ConnOK
  <2>2. ASSUME NEW k \in Dispatchers PROVE JobOK(k)'
    <3>1. CASE k = d
      BY <1>1, <1>2, <1>3, <1>4, <1>6, <3>1, SameBorn DEF JobOK
    <3>2. CASE k # d
      BY <1>1, <1>2, <1>4, <1>6, <3>2, JobStays
    <3> QED BY <3>1, <3>2
  <2> QED BY <1>1, <1>2, <1>6, <2>1, <2>2, SameProcsShape
<1>8. Chans' = Chans /\ Held' = Held
  BY <1>2 DEF Chans, Held
<1>9. Balanced'
  <2> SUFFICES ASSUME NEW m \in Msgs, NEW u \in Users PROVE Balance(m, u)'
    BY DEF Balanced
  <2> DEFINE e == Cardinality(ToEnqueue(m, u))
             i == Cardinality(InHand(m, u))
             a == CopiesAt(Chans, ConnsOf(u), m)
             h == CopiesAt(Held, ProcsOf(u), m)
             o == settled[m][u]
             w == One(m \in taken /\ u \in Targets[m])
             z == IF m = x /\ u \in Targets[x] THEN 1 ELSE 0
  <2>1. e \in Nat /\ i \in Nat /\ a \in Nat /\ h \in Nat /\ o \in Nat /\ w \in Nat /\ z \in Nat
    BY <1>1, CountsAreNat DEF One
  <2>2. e + i + a + h + o = w
    BY <1>1 DEF Balanced, Balance
  <2>3. e' = e + z
    <3>1. e' = e + (IF d \in ToEnqueue(m, u)' THEN 1 ELSE 0)
                 - (IF d \in ToEnqueue(m, u) THEN 1 ELSE 0)
      BY <1>4, JobsDiffer
    <3>2. d \notin ToEnqueue(m, u)
      BY <1>2 DEF ToEnqueue
    <3>3. d \in ToEnqueue(m, u)' <=> m = x /\ u \in Targets[x]
      BY <1>4 DEF ToEnqueue
    <3> HIDE DEF e
    <3> QED BY <2>1, <3>1, <3>2, <3>3
  <2>4. w' = w + z
    BY <1>2 DEF One
  <2>5. i' = i /\ a' = a /\ h' = h /\ o' = o
    BY <1>2, <1>8 DEF InHand, ConnsOf, ProcsOf, UserOfProc
  <2>6. SUFFICES e' + i' + a' + h' + o' = w'
    BY DEF Balance
  <2> HIDE DEF e, i, a, h, o, w, z
  <2>7. e' + i + a + h + o = (e + i + a + h + o) + z
    BY <2>1, <2>3
  <2> QED BY <2>2, <2>4, <2>5, <2>7
<1>10. Ordered'
  BY <1>1, <1>2 DEF Ordered, LineInRow, HeldInRow, UserOfProc
<1>11. PendingExact'
  <2> DEFINE n == Cardinality(D)
             t == Total(Chans)
  <2>1. n \in Nat /\ t \in Nat
    BY <1>1, CountsAreNat
  <2>2. n' = n /\ t' = t
    <3>1. D' = D
      BY <1>2, <1>4
    <3> QED BY <1>8, <3>1
  <2> HIDE DEF n, t
  <2>3. totalPending' = totalPending + t' - t + n - n' /\ n' \in Int
    BY <1>1, <1>2, <2>1, <2>2
  <2> QED BY <1>1, <1>5, <1>6, <2>1, <2>3, SameProcsPending DEF n, t
<1> QED BY <1>5, <1>7, <1>9, <1>10, <1>11 DEF IInv
--------------------------------------------------------------------------------
(* The invariant holds of every state that is reached. *)

LEMMA InitIInv ==
  ASSUME Init
  PROVE  IInv
<1>1. /\ \A c \in Conns : /\ conn[c].chan = << >> /\ conn[c].cap = 0 /\ ~conn[c].closed
                          /\ ~conn[c].stopped /\ conn[c].sock = "none"
                          /\ writer[c].pc = "none" /\ writer[c].item = NoMsg
      /\ \A p \in Procs : /\ proc[p].pc = IF p[1] = "handler" THEN "connect" ELSE "end"
                          /\ proc[p].old = NoConn /\ proc[p].held = << >> /\ proc[p].n = 0
      /\ \A d \in Dispatchers : /\ job[d].pc = "load" /\ job[d].msg = NoMsg /\ job[d].todo = {}
                                /\ job[d].old = NoConn
      /\ \A u \in Users : store[u] = NoConn /\ sent[u] = << >>
      /\ \A m \in Msgs, u \in Users : settled[m][u] = 0
      /\ totalPending = 0 /\ taken = {}
  BY DEF Init
<1>2. << >> \in Seq(Items) /\ << >> \in Seq(Msgs)
  OBVIOUS
<1>3. TypeOK
  <2>1. conn \in [Conns -> ConnType]
    BY <1>2 DEF Init, ConnType
  <2>2. writer \in [Conns -> WriterType]
    BY DEF Init, WriterType
  <2>3. proc \in [Procs -> ProcType]
    BY <1>2 DEF Init, ProcType, ProcPC
  <2>4. job \in [Dispatchers -> JobType]
    BY DEF Init, JobType
  <2>5. settled \in [Msgs -> [Users -> Nat]]
    BY DEF Init
  <2>6. sent \in [Users -> Seq(Msgs)] /\ store \in [Users -> Conns \cup {NoConn}]
    BY <1>2 DEF Init
  <2>7. connCount \in Int /\ totalPending \in Int /\ taken \subseteq Msgs
    BY DEF Init
  <2>8. fatal \in BOOLEAN
    BY DEF Init
  <2> QED BY <2>1, <2>2, <2>3, <2>4, <2>5, <2>6, <2>7, <2>8 DEF TypeOK
<1>4. Shape
  <2>1. ASSUME NEW p \in Procs PROVE ProcOK(p)
    BY <1>1 DEF ProcOK, LocalOK, Arriving, WithOld, Holding
  <2>2. ASSUME NEW c \in Conns PROVE ConnOK(c)
    <3>1. HeartbeatOf(c) \in Procs /\ HeartbeatOf(c)[1] = "beat"
      BY DEF HeartbeatOf, Procs
    <3> QED BY <1>1, <3>1 DEF ConnOK
  <2> QED BY <1>1, <2>1, <2>2 DEF Shape, StoreOK, JobOK
<1>5. Balanced
  <2> SUFFICES ASSUME NEW m \in Msgs, NEW u \in Users PROVE Balance(m, u)
    BY DEF Balanced
  <2>1. ToEnqueue(m, u) = {} /\ InHand(m, u) = {}
    BY <1>1, GatewayAssumption DEF ToEnqueue, InHand
  <2>2. CopiesAt(Chans, ConnsOf(u), m) = 0
    <3>1. [k \in ConnsOf(u) |-> Chans[k]] = [k \in ConnsOf(u) |-> << >>]
      BY <1>1 DEF Chans, ConnsOf
    <3> QED BY <3>1, CopiesAmongEmpty DEF CopiesAt
  <2>3. CopiesAt(Held, ProcsOf(u), m) = 0
    <3>1. [k \in ProcsOf(u) |-> Held[k]] = [k \in ProcsOf(u) |-> << >>]
      BY <1>1 DEF Held, ProcsOf
    <3> QED BY <3>1, CopiesAmongEmpty DEF CopiesAt
  <2>4. ~(m \in taken /\ u \in Targets[m]) /\ settled[m][u] = 0
    BY <1>1
  <2> QED BY <2>1, <2>2, <2>3, <2>4, FS_EmptySet DEF Balance, One
<1>6. Ordered
  <2>1. \A q, s : Enqueued(<< >>, q) /\ InRow(<< >>, q) /\ Ahead(<< >>, s, q)
    BY EmptyInRow
  <2>2. \A q, s : Enqueued(<<NoMsg>>, q) /\ Ahead(<<NoMsg>>, s, q)
    BY OtherInRow, GatewayAssumption
  <2> QED BY <1>1, <2>1, <2>2 DEF Ordered, LineInRow, HeldInRow
<1>7. PendingExact
  <2>1. Chans = [c \in Conns |-> << >>] /\ Drained = [p \in Procs |-> << >>]
    BY <1>1 DEF Chans, Drained, At
  <2>2. /\ {p \in Procs : At(p, "inc")} = {}
        /\ {d \in Dispatchers : job[d].pc = "inc"} = {}
    BY <1>1 DEF At
  <2>3. Total(Chans) = 0 /\ Total(Drained) = 0
    BY <2>1, TotalEmpty
  <2>4. /\ Cardinality({p \in Procs : At(p, "inc")}) = 0
        /\ Cardinality({d \in Dispatchers : job[d].pc = "inc"}) = 0
    BY <2>2, FS_EmptySet
  <2>5. 0 = 0 + 0 - 0 - 0
    OBVIOUS
  <2> QED BY <1>1, <2>3, <2>4, <2>5 DEF PendingExact
<1> QED BY <1>3, <1>4, <1>5, <1>6, <1>7 DEF IInv

LEMMA StutterKeeps ==
  ASSUME IInv, UNCHANGED vars
  PROVE  IInv'
<1>1. UNCHANGED <<store, conn, connCount, totalPending, writer, proc, job, taken, fatal, sent,
                  settled>>
  BY DEF vars, history
<1>2. TypeOK'
  BY <1>1 DEF IInv, TypeOK
<1>3. Shape'
  BY <1>1 DEF IInv, Shape, ProcOK, LocalOK, ConnOK, StoreOK, JobOK, Born, UserOfProc
<1>4. Balanced'
  BY <1>1 DEF IInv, Balanced, Balance, ToEnqueue, InHand, Chans, Held, ConnsOf, ProcsOf, UserOfProc
<1>5. Ordered'
  BY <1>1 DEF IInv, Ordered, LineInRow, HeldInRow, UserOfProc
<1>6. PendingExact'
  BY <1>1 DEF IInv, PendingExact, Chans, Drained, At
<1> QED BY <1>2, <1>3, <1>4, <1>5, <1>6 DEF IInv

LEMMA RegisterKeeps ==
  ASSUME IInv, NEW p \in Procs, Register(p)
  PROVE  IInv'
<1>1. ASSUME Drain(p, "drain", "closeCh") PROVE IInv'
  <2>1. CASE conn[proc[p].old].chan # << >>
    BY <1>1, <2>1, DrainsKeeps DEF Draining
  <2>2. CASE conn[proc[p].old].chan = << >>
    BY <1>1, <2>2, DrainEndsKeeps
  <2> QED BY <2>1, <2>2
<1> QED BY <1>1, ConnectKeeps, LoadOldKeeps, StopOldKeeps, CloseOldChKeeps, CloseOldConnKeeps,
           UnstoreOldKeeps, StoreNewKeeps DEF Register

LEMMA WriteKeeps ==
  ASSUME IInv, NEW p \in Procs, Write(p)
  PROVE  IInv'
BY GreetKeeps, SendItemKeeps, SendPanicsKeeps, SendTimeoutKeeps, IncProcKeeps, AwaitKeeps DEF Write

LEMMA RemoveKeeps ==
  ASSUME IInv, NEW p \in Procs, Remove(p)
  PROVE  IInv'
<1>1. ASSUME Drain(p, "rdrain", "rcloseCh") PROVE IInv'
  <2>1. CASE conn[proc[p].old].chan # << >>
    BY <1>1, <2>1, DrainsKeeps DEF Draining
  <2>2. CASE conn[proc[p].old].chan = << >>
    BY <1>1, <2>2, DrainEndsKeeps
  <2> QED BY <2>1, <2>2
<1> QED BY <1>1, LoadHolderKeeps, StopHolderKeeps, CloseHolderChKeeps, BackDrainedKeeps,
           UnstoreHolderKeeps DEF Remove

LEMMA DispatchStepKeeps ==
  ASSUME IInv, NEW d \in Dispatchers, DispatchStep(d)
  PROVE  IInv'
BY DispatchKeeps, PushBackKeeps, LoadTargetKeeps, EnqueueKeeps, EnqueuePanicsKeeps,
   EnqueueTimeoutKeeps, IncDispatchKeeps DEF DispatchStep

LEMMA NextKeeps ==
  ASSUME IInv, [Next]_vars
  PROVE  IInv'
<1>1. ASSUME NEW p \in Procs, ProcStep(p) PROVE IInv'
  BY <1>1, RegisterKeeps, WriteKeeps, RemoveKeeps DEF ProcStep
<1>2. ASSUME NEW p \in Procs, Tick(p) \/ ReadError(p) PROVE IInv'
  BY <1>2, TickKeeps, ReadErrorKeeps
<1>3. ASSUME NEW c \in Conns, WriterStep(c) PROVE IInv'
  BY <1>3, ReceiveKeeps, WriterEndsKeeps, WriteOkKeeps, WriteFailsKeeps DEF WriterStep
<1>4. ASSUME NEW d \in Dispatchers, DispatchStep(d) PROVE IInv'
  BY <1>4, DispatchStepKeeps
<1>5. CASE UNCHANGED vars
  BY <1>5, StutterKeeps
<1> QED BY <1>1, <1>2, <1>3, <1>4, <1>5 DEF Next

\* The inductive invariant: goroutines work on connections of their own user that have
\* been registered, what they have drained is in order, and nothing is lost count of.
THEOREM Invariant == Spec => []IInv
<1>1. Init => IInv
  BY InitIInv
<1>2. IInv /\ [Next]_vars => IInv'
  BY NextKeeps
<1> QED BY <1>1, <1>2, PTL DEF Spec

\* Type correctness of every step of the handlers, heartbeats, writers and workers.
THEOREM TypeCorrect == Spec => []TypeOK
<1>1. IInv => TypeOK
  BY DEF IInv
<1> QED BY <1>1, Invariant, PTL

\* A message a dispatch worker has taken is, for each of its targets, in exactly one
\* place, or settled once: whatever handlers, heartbeats and writers drain, close,
\* migrate or post back at the same time, it is neither lost track of nor doubled.
THEOREM NothingLost == Spec => []Accounted
<1>1. ASSUME IInv PROVE Accounted
  <2> SUFFICES ASSUME NEW m \in taken, NEW u \in Targets[m]
               PROVE  Cardinality(ToEnqueue(m, u)) + Cardinality(InHand(m, u))
                        + CopiesAt(Chans, ConnsOf(u), m) + CopiesAt(Held, ProcsOf(u), m)
                        + settled[m][u] = 1
    BY DEF Accounted
  <2>1. m \in Msgs /\ u \in Users
    BY <1>1, GatewayAssumption DEF IInv, TypeOK
  <2>2. Balance(m, u)
    BY <1>1, <2>1 DEF IInv, Balanced
  <2> QED BY <2>2 DEF Balance, One
<1> QED BY <1>1, Invariant, PTL

\* The item a writer has in hand and its channel after it hold a user's messages in the
\* order in which workers enqueued them, on whichever connection they were enqueued and
\* through however many connections they have migrated.
THEOREM WrittenInOrder == Spec => []InOrder
<1>1. ASSUME IInv PROVE InOrder
  <2> SUFFICES ASSUME NEW c \in Conns,
                      NEW i \in DOMAIN (<<writer[c].item>> \o conn[c].chan),
                      NEW j \in DOMAIN (<<writer[c].item>> \o conn[c].chan), i < j,
                      (<<writer[c].item>> \o conn[c].chan)[i] \in Msgs,
                      (<<writer[c].item>> \o conn[c].chan)[j] \in Msgs
               PROVE  Precedes((<<writer[c].item>> \o conn[c].chan)[i],
                               (<<writer[c].item>> \o conn[c].chan)[j], sent[UserOf[c]])
    BY DEF InOrder, Precedes
  <2> DEFINE x == writer[c].item
             s == conn[c].chan
             n == Len(s)
             line == <<x>> \o s
             q == sent[UserOf[c]]
  <2>1. s \in Seq(Items) /\ x \in Items \cup {NoMsg} /\ LineInRow(c)
    BY <1>1, Typed DEF IInv, TypeOK, WriterType, Ordered
  <2>2. n \in Nat /\ DOMAIN s = 1 .. n
    BY <2>1, LenProperties
  <2>3. /\ DOMAIN line = 1 .. n + 1
        /\ line[1] = x /\ \A k \in 2 .. n + 1 : line[k] = s[k - 1]
    <3>1. <<x>> \in Seq(Items \cup {NoMsg}) /\ s \in Seq(Items \cup {NoMsg})
          /\ Len(<<x>>) = 1 /\ <<x>>[1] = x
      BY <2>1
    <3> QED BY <2>2, <3>1, ConcatProperties, LenProperties
  <2>4. DOMAIN <<x>> = {1} /\ <<x>>[1] = x
    OBVIOUS
  <2>5. InRow(s, q) /\ Ahead(<<x>>, s, q)
    BY <2>1 DEF LineInRow
  <2>6. line[i] \in Msgs /\ line[j] \in Msgs /\ i \in DOMAIN line /\ j \in DOMAIN line
    OBVIOUS
  <2>7. SUFFICES Precedes(line[i], line[j], q)
    OBVIOUS
  <2> HIDE DEF x, s, n, line, q
  <2>8. j - 1 \in DOMAIN s /\ line[j] = s[j - 1]
    BY <2>2, <2>3, <2>6
  <2>9. CASE i = 1
    BY <2>3, <2>4, <2>5, <2>6, <2>8, <2>9 DEF Ahead
  <2>10. CASE i # 1
    <3>1. i - 1 \in DOMAIN s /\ line[i] = s[i - 1] /\ i - 1 < j - 1
      BY <2>2, <2>3, <2>6, <2>10
    <3> QED BY <2>5, <2>6, <2>8, <3>1 DEF InRow
  <2> QED BY <2>9, <2>10
<1> QED BY <1>1, Invariant, PTL

\* totalPending, on which PullTask's throttle relies, is what is on channels and in
\* drained lists, less the increments that are still to come: no interleaving of sends,
\* drains and removals leaves it off for good.
THEOREM PendingIsExact == Spec => []PendingExact
<1>1. IInv => PendingExact
  BY DEF IInv
<1> QED BY <1>1, Invariant, PTL
================================================================================
