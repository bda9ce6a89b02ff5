--------------------------- MODULE StreamFlow_proofs ---------------------------
(* Proofs about StreamFlow. *)
EXTENDS StreamFlow, Counting_proofs

\* What user u's connection may carry.
ItemsOf(u) == {e \in Entries : u \in Targets[e]} \cup {Ping}

LoopOK(x) == x.pc = "put" <=> x.batch # << >>
WorkerOK(x) ==
  IF x.entry = NoEntry THEN x.todo = {} /\ ~ x.inc
  ELSE x.todo \subseteq Targets[x.entry]
WriterOK(u, x) ==
  x.entry \in ItemsOf(u) \cup {NoEntry} /\ (x.pc = "select" <=> x.entry = NoEntry)

TypeInv ==
  /\ TypeOK
  /\ \A l \in Loops : LoopOK(loop[l])
  /\ \A w \in Workers : WorkerOK(worker[w])
  /\ \A u \in Users : channel[u] \in Seq(ItemsOf(u)) /\ WriterOK(u, writer[u])

\* Every entry is for each of its targets in one place once it is read, and nowhere
\* before.
Balance(e, u) ==
  Held(e, u) + delivered[e][u] + posted[e][u] + One(<<e, u>> \in gone) = One(e <= lastRead)
Balanced == \A e \in Entries : \A u \in Targets[e] : Balance(e, u)

\* Goroutines about to count down a count that was made for message id i; each comes
\* with a target that is settled.
Calling(i) == {c \in Callers : call[c] # NoEntry /\ MsgId[call[c]] = i}
Backed(i) == Cardinality(Calling(i)) <= Cardinality(SettledFor(i))

\* The count of an entry is in use: the table has it, or a goroutine does.  It has gone
\* down at most once for every settled target of its id that is not still to be counted.
Live(e) == table[MsgId[e]] = e \/ \E c \in Callers : call[c] = e
Counted(e) ==
  Live(e) =>
    /\ e <= lastRead
    /\ Cardinality(Targets[e]) + Cardinality(Calling(MsgId[e]))
         <= pending[e] + Cardinality(SettledFor(MsgId[e]))

\* The table has the counts of an id under that id.
Named(i) == table[i] # NoEntry => MsgId[table[i]] = i

\* An id in the ack cache has as many settled targets as some entry of that id.
Acked(i) ==
  MessageId(i) \in ackIds =>
    \E e \in 1 .. lastRead : /\ MsgId[e] = i
                             /\ Cardinality(SettledFor(i)) >= Cardinality(Targets[e])

Counts ==
  /\ \A e \in Entries : Counted(e)
  /\ \A i \in Ids : Backed(i) /\ Named(i) /\ Acked(i)

IInv == TypeInv /\ Balanced /\ Counts

--------------------------------------------------------------------------------
(* The constants, and the numbers the invariant adds up *)

LEMMA Constants ==
  /\ Size \in Nat /\ PullBatch \in Nat \ {0} /\ ChanCap \in Nat \ {0}
  /\ IsFiniteSet(Loops) /\ IsFiniteSet(Workers)
  /\ NoEntry \notin Entries /\ Ping \notin Entries /\ Ping # NoEntry
BY StreamAssumption

LEMMA TargetsType ==
  ASSUME NEW e \in Entries
  PROVE  Targets[e] \subseteq Users /\ Targets[e] # {} /\ IsFiniteSet(Targets[e])
<1>1. Targets[e] \in SUBSET Users /\ Targets[e] # {} /\ IsFiniteSet(Users)
  BY StreamAssumption
<1> QED BY <1>1, FS_Subset

LEMMA Items ==
  ASSUME NEW u \in Users
  PROVE  /\ ItemsOf(u) \subseteq Entries \cup {Ping} /\ NoEntry \notin ItemsOf(u)
         /\ \A e \in Entries : e \in ItemsOf(u) <=> u \in Targets[e]
BY Constants DEF ItemsOf

LEMMA OneType ==
  ASSUME NEW b
  PROVE  One(b) \in {0, 1} /\ One(b) \in Nat
BY DEF One

LEMMA BatchesType ==
  ASSUME loop \in [Loops -> LoopType]
  PROVE  Batches \in Lists(Loops, Entries)
BY DEF LoopType, Batches, Lists

\* The parts of Held are numbers.
LEMMA HeldType ==
  ASSUME TypeOK, NEW e, NEW u \in Users
  PROVE  /\ CopiesAmong(Batches, e) \in Nat
         /\ Copies(taskChan, e) \in Nat
         /\ IsFiniteSet(Dealing(e, u)) /\ Cardinality(Dealing(e, u)) \in Nat
         /\ Copies(channel[u], e) \in Nat
         /\ One(writer[u].entry = e) \in Nat
         /\ Held(e, u) \in Nat
<1>1. CopiesAmong(Batches, e) \in Nat
  BY BatchesType, CopiesAmongType, Constants DEF TypeOK
<1>2. Copies(taskChan, e) \in Nat
  BY CopiesType DEF TypeOK
<1>3. IsFiniteSet(Dealing(e, u))
  BY Constants, FS_Subset DEF Dealing
<1>4. Cardinality(Dealing(e, u)) \in Nat
  BY <1>3, FS_CardinalityType
<1>5. channel[u] \in Seq(Entries \cup {Ping})
  BY DEF TypeOK
<1>6. Copies(channel[u], e) \in Nat
  BY <1>5, CopiesType
<1>7. One(writer[u].entry = e) \in Nat
  BY OneType
<1>8. Held(e, u) \in Nat
  BY <1>1, <1>2, <1>4, <1>6, <1>7 DEF Held
<1> QED BY <1>1, <1>2, <1>3, <1>4, <1>6, <1>7, <1>8

\* The changed loop is l.
LEMMA LoopMoves ==
  ASSUME TypeOK, NEW l \in Loops, NEW x \in LoopType, loop' = [loop EXCEPT ![l] = x], NEW e
  PROVE  /\ loop' \in [Loops -> LoopType]
         /\ Copies(loop[l].batch, e) \in Nat /\ Copies(x.batch, e) \in Nat
         /\ CopiesAmong(Batches, e)'
              = CopiesAmong(Batches, e) - Copies(loop[l].batch, e) + Copies(x.batch, e)
<1>1. loop \in [Loops -> LoopType] /\ loop' \in [Loops -> LoopType] /\ loop'[l] = x
  BY DEF TypeOK
<1>2. Batches \in Lists(Loops, Entries)
  BY <1>1, BatchesType
<1>3. Batches' \in Lists(Loops, Entries)
  BY <1>1 DEF LoopType, Batches, Lists
<1>4. SameBut(Batches', Batches, Loops, l)
  BY <1>1 DEF SameBut, Batches
<1>5. Batches[l] = loop[l].batch /\ Batches'[l] = x.batch
  BY <1>1 DEF Batches
<1>6. CopiesAmong(Batches', e)
        = CopiesAmong(Batches, e) - Copies(Batches[l], e) + Copies(Batches'[l], e)
  BY <1>2, <1>3, <1>4, Constants, CopiesAmongDiffer
<1>7. loop[l].batch \in Seq(Entries) /\ x.batch \in Seq(Entries)
  BY <1>1 DEF LoopType
<1>8. Copies(loop[l].batch, e) \in Nat /\ Copies(x.batch, e) \in Nat
  BY <1>7, CopiesType
<1>9. CopiesAmong(Batches, e)' = CopiesAmong(Batches', e)
  BY DEF CopiesAmong, Spots, Batches
<1> QED BY <1>1, <1>5, <1>6, <1>8, <1>9

\* A loop that keeps its batch.
LEMMA LoopKeeps ==
  ASSUME TypeOK, NEW l \in Loops, NEW x \in LoopType, loop' = [loop EXCEPT ![l] = x],
         x.batch = loop[l].batch, NEW e
  PROVE  CopiesAmong(Batches, e)' = CopiesAmong(Batches, e)
<1>1. loop \in [Loops -> LoopType]
  BY DEF TypeOK
<1>2. Batches' = Batches
  BY <1>1 DEF Batches
<1> QED BY <1>2 DEF CopiesAmong, Spots, Batches

\* A worker in state x has yet to turn to u with e.
Turning(x, e, u) == One(x.entry = e /\ u \in x.todo)

\* The changed worker is w.
LEMMA WorkerMoves ==
  ASSUME TypeOK, NEW w \in Workers, NEW x \in WorkerType, worker' = [worker EXCEPT ![w] = x],
         NEW e \in Entries, NEW u \in Users
  PROVE  /\ worker' \in [Workers -> WorkerType]
         /\ Cardinality(Dealing(e, u))'
              = Cardinality(Dealing(e, u)) - Turning(worker[w], e, u) + Turning(x, e, u)
<1> DEFINE R == Dealing(e, u) \ {w}
           p == worker[w].entry = e /\ u \in worker[w].todo
           q == x.entry = e /\ u \in x.todo
<1>1. worker \in [Workers -> WorkerType] /\ worker' \in [Workers -> WorkerType]
  BY DEF TypeOK
<1>2. worker'[w] = x /\ \A v \in Workers \ {w} : worker'[v] = worker[v]
  BY <1>1
<1>3. IsFiniteSet(R) /\ w \notin R
  BY HeldType, FS_Subset
<1>4. Cardinality(R) \in Nat /\ Cardinality(R \cup {w}) = Cardinality(R) + 1
  BY <1>3, FS_CardinalityType, FS_AddElement
<1>5. Dealing(e, u) = IF p THEN R \cup {w} ELSE R
  BY DEF Dealing
<1>6. Dealing(e, u)' = IF q THEN R \cup {w} ELSE R
  BY <1>2 DEF Dealing
<1> HIDE DEF R
<1>7. Cardinality(Dealing(e, u)) = Cardinality(R) + One(p)
  BY <1>4, <1>5 DEF One
<1>8. Cardinality(Dealing(e, u))' = Cardinality(R) + One(q)
  BY <1>4, <1>6 DEF One
<1>9. One(p) \in Nat /\ One(q) \in Nat
  BY OneType
<1> QED BY <1>1, <1>4, <1>7, <1>8, <1>9 DEF Turning
--------------------------------------------------------------------------------
(* Steps that settle nothing, and steps that settle one target *)

LEMMA SettledForType ==
  ASSUME NEW i
  PROVE  IsFiniteSet(SettledFor(i)) /\ Cardinality(SettledFor(i)) \in Nat
<1>1. IsFiniteSet(Entries) /\ IsFiniteSet(Users)
  BY StreamAssumption, FS_Interval, Constants DEF Entries
<1>2. IsFiniteSet(Entries \X Users)
  BY <1>1, FS_Product
<1>3. SettledFor(i) \subseteq Entries \X Users
  BY DEF SettledFor, Pairs
<1> QED BY <1>2, <1>3, FS_Subset, FS_CardinalityType

LEMMA CallingType ==
  ASSUME NEW i
  PROVE  IsFiniteSet(Calling(i)) /\ Cardinality(Calling(i)) \in Nat
<1>1. IsFiniteSet(Workers) /\ IsFiniteSet(Users)
  BY StreamAssumption
<1>2. IsFiniteSet(Callers)
  BY <1>1, FS_Union DEF Callers
<1>3. Calling(i) \subseteq Callers
  BY DEF Calling
<1> QED BY <1>2, <1>3, FS_Subset, FS_CardinalityType

LEMMA IdsType ==
  /\ \A e \in Entries : MsgId[e] \in Ids
  /\ Workers \subseteq Callers /\ Users \subseteq Callers
BY DEF Ids, Callers

\* No target is settled and no count changes.
LEMMA CountsKept ==
  ASSUME IInv, lastRead' \in Int, lastRead <= lastRead',
         UNCHANGED <<pending, table, call, delivered, posted>>, ackIds' \subseteq ackIds
  PROVE  Counts'
<1>1. /\ lastRead \in Int /\ Counts
      /\ \A e \in Entries : e \in Int
  BY Constants DEF IInv, TypeInv, TypeOK, Entries
<1>2. \A i : SettledFor(i)' = SettledFor(i) /\ Calling(i)' = Calling(i)
  BY DEF SettledFor, Settled, Calling
<1>3. ASSUME NEW e \in Entries PROVE Counted(e)'
  <2>1. Live(e)' <=> Live(e)
    BY DEF Live
  <2>2. Counted(e)
    BY <1>1 DEF Counts
  <2> QED BY <1>1, <1>2, <2>1, <2>2 DEF Counted
<1>4. ASSUME NEW i \in Ids PROVE Backed(i)' /\ Named(i)' /\ Acked(i)'
  <2>1. Backed(i) /\ Named(i) /\ Acked(i)
    BY <1>1 DEF Counts
  <2>2. Backed(i)' /\ Named(i)'
    BY <1>2, <2>1 DEF Backed, Named
  <2>3. Acked(i)'
    <3>1. SUFFICES ASSUME MessageId(i) \in ackIds'
                   PROVE  \E e \in 1 .. lastRead' :
                            /\ MsgId[e] = i
                            /\ Cardinality(SettledFor(i)') >= Cardinality(Targets[e])
      BY DEF Acked, MessageId
    <3>2. PICK e \in 1 .. lastRead : /\ MsgId[e] = i
                                     /\ Cardinality(SettledFor(i)) >= Cardinality(Targets[e])
      BY <2>1, <3>1 DEF Acked
    <3>3. e \in 1 .. lastRead'
      BY <1>1
    <3> QED BY <1>2, <3>2, <3>3
  <2> QED BY <2>2, <2>3
<1> QED BY <1>3, <1>4 DEF Counts

\* An entry stays where it is or moves on inside the gateway.
LEMMA KeepsInv ==
  ASSUME IInv, TypeInv', UNCHANGED <<lastRead, pending, table, call, delivered, posted, gone>>,
         ackIds' \subseteq ackIds,
         \A e \in Entries : \A u \in Targets[e] : Held(e, u)' = Held(e, u)
  PROVE  IInv'
<1>1. Balanced'
  BY DEF IInv, Balanced, Balance
<1>2. lastRead' \in Int /\ lastRead <= lastRead'
  BY Constants DEF IInv, TypeInv, TypeOK
<1> QED BY <1>1, <1>2, CountsKept DEF IInv

\* Entry e is settled for u, it is written or posted back, and goroutine c, which comes
\* to know of it, has looked its id up in the table or goes on without that.
LEMMA SettlesCounts ==
  ASSUME IInv, NEW e \in Entries, NEW u \in Targets[e], ~ Settled(e, u),
         NEW c \in Callers, Free(c), Done(c, e) \/ UNCHANGED countVars, lastRead' = lastRead,
         \A f \in Entries, v \in Users : Settled(f, v)' <=> Settled(f, v) \/ <<f, v>> = <<e, u>>
  PROVE  /\ Counts' /\ UNCHANGED <<pending, table, ackIds>>
         /\ call' \in [Callers -> Entries \cup {NoEntry}]
<1>1. /\ call \in [Callers -> Entries \cup {NoEntry}]
      /\ table \in [Ids -> Entries \cup {NoEntry}] /\ pending \in [Entries -> Int]
      /\ lastRead \in Int /\ Counts /\ call[c] = NoEntry
  BY Constants DEF IInv, TypeInv, TypeOK, Free
<1>2. PICK i \in Ids : i = MsgId[e] /\ u \in Users
  BY IdsType, TargetsType
<1>3. Named(i)
  BY <1>1, <1>2 DEF Counts
<1>4. PICK x \in Entries \cup {NoEntry} :
        /\ call' = [call EXCEPT ![c] = x]
        /\ x # NoEntry => x = table[i] /\ MsgId[x] = i
  <2>1. CASE Done(c, e)
    BY <1>1, <1>2, <1>3, <2>1 DEF Done, Named
  <2>2. CASE UNCHANGED countVars
    BY <1>1, <2>2 DEF countVars
  <2> QED BY <2>1, <2>2
<1>5. UNCHANGED <<pending, table, ackIds>>
  BY DEF Done, countVars
<1>6. call' \in [Callers -> Entries \cup {NoEntry}]
  BY <1>1, <1>4
<1>7. /\ <<e, u>> \notin SettledFor(i) /\ SettledFor(i)' = SettledFor(i) \cup {<<e, u>>}
      /\ \A j : j # i => SettledFor(j)' = SettledFor(j)
  <2>1. ASSUME NEW p PROVE p \in Pairs(Entries) => p[1] \in Entries /\ p[2] \in Users
    BY DEF Pairs
  <2>2. <<e, u>> \in Pairs(Entries)
    BY <1>2 DEF Pairs
  <2>3. \A p \in Pairs(Entries) : p = <<p[1], p[2]>>
    BY DEF Pairs
  <2>4. \A p \in Pairs(Entries) : Settled(p[1], p[2])' <=> Settled(p[1], p[2]) \/ p = <<e, u>>
    BY <2>1, <2>3
  <2>5. \A j : SettledFor(j)' = {p \in Pairs(Entries) : MsgId[p[1]] = j /\ Settled(p[1], p[2])'}
    BY DEF SettledFor, Pairs
  <2> QED BY <1>2, <2>2, <2>4, <2>5 DEF SettledFor
<1>8. /\ Cardinality(SettledFor(i)) \in Nat
      /\ Cardinality(SettledFor(i)') = Cardinality(SettledFor(i)) + 1
  <2>1. IsFiniteSet(SettledFor(i)) /\ Cardinality(SettledFor(i)) \in Nat
    BY SettledForType
  <2>2. Cardinality(SettledFor(i) \cup {<<e, u>>}) = Cardinality(SettledFor(i)) + 1
    BY <1>7, <2>1, FS_AddElement
  <2> QED BY <1>7, <2>1, <2>2
<1>9. \A j : j # i => Calling(j)' = Calling(j)
  BY <1>1, <1>4 DEF Calling
<1>10. /\ Cardinality(Calling(i)) \in Nat /\ Cardinality(Calling(i)') \in Nat
       /\ Cardinality(Calling(i)') <= Cardinality(Calling(i)) + 1
  <2>1. Calling(i)' \in {Calling(i), Calling(i) \cup {c}} /\ c \notin Calling(i)
    <3>1. call'[c] = x /\ \A d \in Callers \ {c} : call'[d] = call[d]
      BY <1>1, <1>4
    <3>2. c \notin Calling(i)
      BY <1>1 DEF Calling
    <3>3. CASE x = NoEntry
      BY <3>1, <3>2, <3>3 DEF Calling
    <3>4. CASE x # NoEntry
      <4>1. MsgId[call'[c]] = i /\ call'[c] # NoEntry
        BY <1>4, <3>1, <3>4
      <4>2. c \in Calling(i)'
        BY <4>1 DEF Calling
      <4>3. \A d \in Callers \ {c} : d \in Calling(i)' <=> d \in Calling(i)
        BY <3>1 DEF Calling
      <4>4. Calling(i) \subseteq Callers /\ Calling(i)' \subseteq Callers
        BY DEF Calling
      <4> QED BY <3>2, <4>2, <4>3, <4>4
    <3> QED BY <3>2, <3>3, <3>4
  <2>2. Cardinality(Calling(i) \cup {c}) = Cardinality(Calling(i)) + 1
    BY <2>1, CallingType, FS_AddElement
  <2>3. PICK a \in Nat : a = Cardinality(Calling(i))
    BY CallingType
  <2>4. Cardinality(Calling(i)') \in {a, a + 1}
    BY <2>1, <2>2, <2>3
  <2> QED BY <2>3, <2>4
<1>11. ASSUME NEW f \in Entries, Live(f)' PROVE Live(f)
  BY <1>1, <1>4, <1>5, <1>11, Constants DEF Live
<1>12. ASSUME NEW f \in Entries PROVE Counted(f)'
  <2>1. SUFFICES ASSUME Live(f)'
                 PROVE  /\ f <= lastRead'
                        /\ Cardinality(Targets[f]) + Cardinality(Calling(MsgId[f])')
                             <= pending'[f] + Cardinality(SettledFor(MsgId[f])')
    BY DEF Counted
  <2>2. /\ f <= lastRead
        /\ Cardinality(Targets[f]) + Cardinality(Calling(MsgId[f]))
             <= pending[f] + Cardinality(SettledFor(MsgId[f]))
    BY <1>1, <1>11, <2>1 DEF Counts, Counted
  <2>3. PICK t \in Nat, p \in Int : t = Cardinality(Targets[f]) /\ p = pending[f]
    BY <1>1, TargetsType, FS_CardinalityType
  <2>4. CASE MsgId[f] = i
    <3>1. PICK a \in Nat, a2 \in Nat, b \in Nat :
            /\ a = Cardinality(Calling(i)) /\ a2 = Cardinality(Calling(i)')
            /\ b = Cardinality(SettledFor(i)) /\ Cardinality(SettledFor(i)') = b + 1
      BY <1>8, <1>10
    <3>2. t + a <= p + b /\ a2 <= a + 1
      BY <1>10, <2>2, <2>3, <2>4, <3>1
    <3>3. t + a2 <= p + (b + 1)
      BY <3>2
    <3> QED BY <1>5, <2>2, <2>3, <2>4, <3>1, <3>3
  <2>5. CASE MsgId[f] # i
    BY <1>5, <1>7, <1>9, <2>2, <2>5
  <2> QED BY <2>4, <2>5
<1>13. ASSUME NEW j \in Ids PROVE Backed(j)' /\ Named(j)' /\ Acked(j)'
  <2>1. Backed(j) /\ Named(j) /\ Acked(j)
    BY <1>1 DEF Counts
  <2>2. Backed(j)'
    <3>1. CASE j = i
      BY <1>8, <1>10, <2>1, <3>1 DEF Backed
    <3>2. CASE j # i
      BY <1>7, <1>9, <2>1, <3>2 DEF Backed
    <3> QED BY <3>1, <3>2
  <2>3. Acked(j)'
    <3>1. SUFFICES ASSUME MessageId(j) \in ackIds'
                   PROVE  \E f \in 1 .. lastRead' :
                            /\ MsgId[f] = j
                            /\ Cardinality(SettledFor(j)') >= Cardinality(Targets[f])
      BY DEF Acked, MessageId
    <3>2. PICK f \in 1 .. lastRead : /\ MsgId[f] = j
                                     /\ Cardinality(SettledFor(j)) >= Cardinality(Targets[f])
      BY <1>5, <2>1, <3>1 DEF Acked
    <3>3. f \in Entries
      BY <1>1, <3>2, Constants DEF IInv, TypeInv, TypeOK, Entries
    <3>4. PICK t \in Nat : t = Cardinality(Targets[f])
      BY <3>3, TargetsType, FS_CardinalityType
    <3>5. PICK b \in Nat : b = Cardinality(SettledFor(j))
      BY SettledForType
    <3>6. Cardinality(SettledFor(j)') \in {b, b + 1} /\ b >= t
      BY <1>7, <1>8, <3>2, <3>4, <3>5
    <3>7. Cardinality(SettledFor(j)') >= t
      BY <3>6
    <3> QED BY <3>2, <3>4, <3>7
  <2>4. Named(j)'
    BY <1>5, <2>1 DEF Named
  <2> QED BY <2>2, <2>3, <2>4
<1> QED BY <1>5, <1>6, <1>12, <1>13 DEF Counts
--------------------------------------------------------------------------------
(* The stream and the reclaimer *)

LEMMA HeldKept ==
  ASSUME UNCHANGED <<taskChan, worker, channel, writer>>, Batches' = Batches
  PROVE  \A e \in Entries : \A u \in Targets[e] : Held(e, u)' = Held(e, u)
<1>1. \A e : CopiesAmong(Batches, e)' = CopiesAmong(Batches, e)
  BY DEF CopiesAmong, Spots
<1>2. \A e, u : Dealing(e, u)' = Dealing(e, u)
  BY DEF Dealing
<1> QED BY <1>1, <1>2 DEF Held, Copies, Where

\* No entry moves.
LEMMA StillInv ==
  ASSUME IInv, TypeInv', UNCHANGED <<lastRead, loop, taskChan, workVars, history>>
  PROVE  IInv'
<1>1. Batches' = Batches
  BY DEF workVars, countVars, Batches
<1> QED BY <1>1, HeldKept, KeepsInv DEF workVars, countVars, history

LEMMA AddInv ==
  ASSUME IInv, Add
  PROVE  IInv'
<1>1. added' \in 0 .. Size /\ lastRead \in 0 .. added'
  BY Constants DEF IInv, TypeInv, TypeOK, Add
<1>2. TypeInv'
  BY <1>1 DEF IInv, TypeInv, TypeOK, Add, pullVars, workVars, countVars, history
<1> QED BY <1>2, StillInv DEF Add, pullVars

LEMMA AgeInv ==
  ASSUME IInv, NEW e \in Entries, Age(e)
  PROVE  IInv'
<1>1. TypeInv'
  BY DEF IInv, TypeInv, TypeOK, Age, pullVars, workVars, countVars, history
<1> QED BY <1>1, StillInv DEF Age, pullVars

LEMMA FlushInv ==
  ASSUME IInv, Flush
  PROVE  IInv'
<1>1. TypeInv'
  BY DEF IInv, TypeInv, TypeOK, Flush, pullVars, history
<1>2. Batches' = Batches
  BY DEF Flush, pullVars, Batches
<1>3. UNCHANGED <<taskChan, worker, channel, writer, lastRead, pending, table, call, history>>
  BY DEF Flush, pullVars
<1>4. ackIds' = {}
  BY DEF Flush
<1> QED BY <1>1, <1>2, <1>3, <1>4, HeldKept, KeepsInv DEF history

LEMMA RestartInv ==
  ASSUME IInv, Restart
  PROVE  IInv'
<1>1. TypeInv'
  BY DEF IInv, TypeInv, TypeOK, Restart, streamVars, pullVars, workVars, countVars, history
<1> QED BY <1>1, StillInv DEF Restart, streamVars, pullVars

\* The reclaimer's next state.
LEMMA RecKeeps ==
  ASSUME IInv, rec' \in RecType, pel' \subseteq Entries, idle' \subseteq pel',
         UNCHANGED <<added, lastRead, up, crashes, pullVars, workVars, history>>
  PROVE  IInv'
<1>1. TypeInv'
  BY DEF IInv, TypeInv, TypeOK, pullVars, workVars, countVars, history
<1> QED BY <1>1, StillInv DEF pullVars

LEMMA NextEntryType ==
  ASSUME rec \in RecType, NEW e \in Entries, NextEntry(e)
  PROVE  rec' \in RecType
<1>1. e + 1 \in Nat
  BY Constants DEF Entries
<1> QED BY <1>1 DEF NextEntry, RecType, Waiting

LEMMA ReclaimInv ==
  ASSUME IInv, Reclaim
  PROVE  IInv'
<1>1. rec \in RecType /\ pel \subseteq Entries /\ idle \subseteq pel /\ Waiting \in RecType
  BY DEF IInv, TypeInv, TypeOK, RecType, Waiting
<1>2. CASE RunOnce
  <2>1. rec' \in RecType
    BY <1>1, <1>2 DEF RunOnce, RecType
  <2> QED BY <1>1, <1>2, <2>1, RecKeeps DEF RunOnce, streamVars
<1>3. CASE Claim
  <2>1. Claimed \subseteq Entries
    BY <1>1 DEF Claimed, Claimable
  <2>2. rec' \in RecType
    BY <1>1, <1>3, <2>1 DEF Claim, RecType
  <2> QED BY <1>1, <1>3, <2>2, RecKeeps DEF Claim
<1>4. CASE Forward
  <2>1. PICK e \in Entries :
          /\ posted' = [posted EXCEPT ![e] = [u \in Users |-> posted[e][u]]]
          /\ rec' = [rec EXCEPT !.pc = "ack"] \/ NextEntry(e)
    BY <1>4 DEF Forward, DecodedTargets
  <2>2. posted' = posted
    <3>1. posted \in [Entries -> [Users -> Nat]]
      BY DEF IInv, TypeInv, TypeOK
    <3>2. [u \in Users |-> posted[e][u]] = posted[e]
      BY <3>1
    <3> QED BY <2>1, <3>1, <3>2
  <2>3. rec' \in RecType
    BY <1>1, <2>1, NextEntryType DEF RecType
  <2> QED BY <1>1, <1>4, <2>2, <2>3, RecKeeps DEF Forward, streamVars, history
<1>5. CASE Ack
  <2>1. PICK e \in Entries : pel' \in {pel \ {e}, pel} /\ NextEntry(e)
    BY <1>5 DEF Ack
  <2>2. rec' \in RecType
    BY <1>1, <2>1, NextEntryType
  <2>3. pel' \subseteq Entries /\ idle' \subseteq pel'
    BY <1>1, <1>5, <2>1 DEF Ack
  <2> QED BY <1>5, <2>2, <2>3, RecKeeps DEF Ack
<1>6. CASE Abandon
  BY <1>1, <1>6, RecKeeps DEF Abandon, streamVars
<1> QED BY <1>2, <1>3, <1>4, <1>5, <1>6 DEF Reclaim
--------------------------------------------------------------------------------
(* The pull loops *)

\* A loop goes on with the batch it has.
LEMMA LoopGoesInv ==
  ASSUME IInv, NEW l \in Loops, NEW x \in LoopType, loop' = [loop EXCEPT ![l] = x],
         x.batch = loop[l].batch, LoopOK(x), isPulling' \in BOOLEAN,
         UNCHANGED <<streamVars, up, crashes, taskChan, workVars, rec, history>>
  PROVE  IInv'
<1>1. loop \in [Loops -> LoopType] /\ \A k \in Loops : LoopOK(loop[k])
  BY DEF IInv, TypeInv, TypeOK
<1>2. loop' \in [Loops -> LoopType] /\ \A k \in Loops : LoopOK(loop'[k])
  BY <1>1
<1>3. TypeInv'
  BY <1>2 DEF IInv, TypeInv, TypeOK, streamVars, workVars, countVars, history
<1>4. Batches' = Batches
  BY <1>1 DEF Batches
<1> QED BY <1>3, <1>4, HeldKept, KeepsInv DEF streamVars, workVars, countVars, history

LEMMA LoopStartInv ==
  ASSUME IInv, NEW l \in Loops, LoopStart(l)
  PROVE  IInv'
<1> DEFINE x == [loop[l] EXCEPT !.pc = "check"]
<1>1. loop[l] \in LoopType /\ LoopOK(loop[l]) /\ loop[l].pc = "start"
  BY DEF IInv, TypeInv, TypeOK, LoopStart
<1>2. x \in LoopType /\ x.batch = loop[l].batch /\ LoopOK(x) /\ loop' = [loop EXCEPT ![l] = x]
  BY <1>1 DEF LoopType, LoopOK, LoopStart
<1> HIDE DEF x
<1> QED BY <1>2, LoopGoesInv DEF LoopStart

LEMMA CheckInv ==
  ASSUME IInv, NEW l \in Loops, Check(l)
  PROVE  IInv'
<1> DEFINE x == [loop[l] EXCEPT !.pc = IF Overloaded THEN "return" ELSE "read"]
<1>1. loop[l] \in LoopType /\ LoopOK(loop[l]) /\ loop[l].pc = "check"
  BY DEF IInv, TypeInv, TypeOK, Check
<1>2. x \in LoopType /\ x.batch = loop[l].batch /\ LoopOK(x) /\ loop' = [loop EXCEPT ![l] = x]
  BY <1>1 DEF LoopType, LoopOK, Check
<1> HIDE DEF x
<1> QED BY <1>2, LoopGoesInv DEF Check, IInv, TypeInv, TypeOK

LEMMA ReadNothingInv ==
  ASSUME IInv, NEW l \in Loops, ReadNothing(l)
  PROVE  IInv'
<1> DEFINE x == [loop[l] EXCEPT !.pc = "check"]
<1>1. loop[l] \in LoopType /\ LoopOK(loop[l]) /\ loop[l].pc = "read"
  BY DEF IInv, TypeInv, TypeOK, ReadNothing
<1>2. x \in LoopType /\ x.batch = loop[l].batch /\ LoopOK(x) /\ loop' = [loop EXCEPT ![l] = x]
  BY <1>1 DEF LoopType, LoopOK, ReadNothing
<1> HIDE DEF x
<1> QED BY <1>2, LoopGoesInv DEF ReadNothing, IInv, TypeInv, TypeOK

LEMMA ReturnInv ==
  ASSUME IInv, NEW l \in Loops, Return(l)
  PROVE  IInv'
<1> DEFINE x == [loop[l] EXCEPT !.pc = "off"]
<1>1. loop[l] \in LoopType /\ LoopOK(loop[l]) /\ loop[l].pc = "return"
  BY DEF IInv, TypeInv, TypeOK, Return
<1>2. x \in LoopType /\ x.batch = loop[l].batch /\ LoopOK(x) /\ loop' = [loop EXCEPT ![l] = x]
  BY <1>1 DEF LoopType, LoopOK, Return
<1> HIDE DEF x
<1> QED BY <1>2, LoopGoesInv DEF Return, PullingAfter

\* An entry moves from a batch to taskChan.
LEMMA PutInv ==
  ASSUME IInv, NEW l \in Loops, Put(l)
  PROVE  IInv'
<1> DEFINE b == loop[l].batch
           x == [pc |-> IF Len(b) = 1 THEN "check" ELSE "put", batch |-> Tail(b)]
<1>1. /\ loop \in [Loops -> LoopType] /\ \A k \in Loops : LoopOK(loop[k])
      /\ taskChan \in Seq(Entries) /\ TypeOK
  BY DEF IInv, TypeInv, TypeOK
<1>2. loop[l] \in LoopType /\ b \in Seq(Entries) /\ b # << >>
  BY <1>1 DEF LoopType, LoopOK, Put
<1>3. /\ Tail(b) \in Seq(Entries) /\ Head(b) \in Entries
      /\ Tail(b) = << >> <=> Len(b) = 1
  <2>1. Tail(b) \in Seq(Entries) /\ Head(b) \in Entries /\ Len(Tail(b)) = Len(b) - 1
    BY <1>2, HeadTailProperties
  <2>2. Tail(b) = << >> <=> Len(Tail(b)) = 0
    BY <2>1, EmptySeq
  <2>3. Len(b) \in Nat
    BY <1>2, LenProperties
  <2> QED BY <2>1, <2>2, <2>3
<1>4. x \in LoopType /\ LoopOK(x) /\ loop' = [loop EXCEPT ![l] = x]
  BY <1>1, <1>2, <1>3 DEF LoopType, LoopOK, Put
<1>5. loop' \in [Loops -> LoopType] /\ \A k \in Loops : LoopOK(loop'[k])
  BY <1>1, <1>4
<1>6. /\ taskChan' = Append(taskChan, Head(b)) /\ taskChan' \in Seq(Entries)
      /\ Len(taskChan') <= ChanCap
  BY <1>1, <1>3, Constants, AppendProperties, LenProperties DEF Put, TaskRoom
<1>7. TypeInv'
  BY <1>5, <1>6 DEF IInv, TypeInv, TypeOK, Put, streamVars, workVars, countVars, history
<1>8. ASSUME NEW e \in Entries, NEW u \in Targets[e] PROVE Held(e, u)' = Held(e, u)
  <2> DEFINE k == IF Head(b) = e THEN 1 ELSE 0
  <2>1. u \in Users
    BY TargetsType
  <2>2. Copies(b, e) = Copies(Tail(b), e) + k
    BY <1>2, CopiesTail
  <2>3. Copies(taskChan', e) = Copies(taskChan, e) + k
    BY <1>1, <1>3, <1>6, CopiesAppend
  <2>4. /\ CopiesAmong(Batches, e)'
             = CopiesAmong(Batches, e) - Copies(b, e) + Copies(x.batch, e)
        /\ Copies(b, e) \in Nat /\ Copies(x.batch, e) \in Nat
    BY <1>1, <1>4, LoopMoves
  <2>5. x.batch = Tail(b)
    OBVIOUS
  <2>6. CopiesAmong(Batches, e) \in Nat /\ Copies(taskChan, e) \in Nat
    BY <1>1, <2>1, HeldType
  <2>7. /\ Dealing(e, u)' = Dealing(e, u) /\ Copies(channel[u], e)' = Copies(channel[u], e)
        /\ One(writer[u].entry = e)' = One(writer[u].entry = e)
        /\ Copies(taskChan, e)' = Copies(taskChan', e)
    BY DEF Put, workVars, countVars, Dealing, Copies, Where
  <2>8. k \in Nat
    OBVIOUS
  <2> HIDE DEF b, x, k
  <2>9. CopiesAmong(Batches, e)' + Copies(taskChan', e)
          = CopiesAmong(Batches, e) + Copies(taskChan, e)
    BY <2>2, <2>3, <2>4, <2>5, <2>6, <2>8
  <2> QED BY <2>7, <2>9 DEF Held
<1> QED BY <1>7, <1>8, KeepsInv DEF Put, streamVars, workVars, countVars, history

LEMMA LastOfType ==
  ASSUME TypeOK, lastRead < added
  PROVE  LastOf \in Nat /\ lastRead < LastOf /\ LastOf <= added
<1> DEFINE p == lastRead + PullBatch
<1>1. /\ lastRead \in Nat /\ added \in Nat /\ p \in Nat /\ lastRead < p
  BY Constants DEF TypeOK
<1> HIDE DEF p
<1>2. \E a \in {added, p} : \A c \in {added, p} : a <= c
  <2>1. CASE added <= p
    BY <1>1, <2>1
  <2>2. CASE p <= added
    BY <1>1, <2>2
  <2> QED BY <1>1, <2>1, <2>2
<1>3. Min({added, p}) \in {added, p} /\ \A c \in {added, p} : Min({added, p}) <= c
  BY <1>2 DEF Min
<1>4. LastOf = Min({added, p})
  BY DEF LastOf, p
<1> QED BY <1>1, <1>3, <1>4

\* The entries of a read, as a batch.
LEMMA BatchType ==
  ASSUME TypeOK, lastRead < added,
         NEW b, b = [i \in 1 .. LastOf - lastRead |-> lastRead + i]
  PROVE  /\ NextBatch \subseteq Entries /\ b \in Seq(Entries) /\ b # << >>
         /\ \A e \in Entries : Copies(b, e) = One(e \in NextBatch)
         /\ \A e \in Entries : One(e <= LastOf) = One(e <= lastRead) + One(e \in NextBatch)
<1> DEFINE n == LastOf - lastRead
<1>1. /\ Size \in Nat /\ added \in Nat /\ added <= Size /\ lastRead \in Nat
      /\ LastOf \in Nat /\ lastRead < LastOf /\ LastOf <= added
  BY Constants, LastOfType DEF TypeOK
<1>2. n \in Nat /\ n > 0 /\ lastRead + n = LastOf
  BY <1>1
<1> HIDE DEF n
<1>3. b = [i \in 1 .. n |-> lastRead + i] /\ DOMAIN b = 1 .. n
  BY DEF n
<1>4. \A i \in 1 .. n : lastRead + i \in Entries
  BY <1>1, <1>2 DEF Entries
<1>5. b \in Seq(Entries)
  <2>1. b \in [1 .. n -> Entries]
    BY <1>3, <1>4
  <2> QED BY <1>2, <2>1, SeqDef
<1>6. b # << >>
  <2>1. 1 \in 1 .. n
    BY <1>2
  <2>2. DOMAIN b = 1 .. n
    BY <1>3
  <2>3. 1 \notin DOMAIN << >>
    OBVIOUS
  <2> QED BY <2>1, <2>2, <2>3
<1>7. NextBatch \subseteq Entries
  BY <1>1 DEF NextBatch, Entries
<1>8. ASSUME NEW e \in Entries PROVE Copies(b, e) = One(e \in NextBatch)
  <2>1. CASE e \in NextBatch
    <3>1. e - lastRead \in 1 .. n /\ lastRead + (e - lastRead) = e
      BY <1>1, <1>2, <2>1 DEF NextBatch
    <3>2. \A i \in 1 .. n : b[i] = e <=> i = e - lastRead
      BY <1>1, <1>2, <1>3, <3>1
    <3>3. Where(b, e) = {e - lastRead}
      BY <1>3, <3>1, <3>2 DEF Where
    <3> QED BY <2>1, <3>3, FS_Singleton DEF Copies, One
  <2>2. CASE e \notin NextBatch
    <3>1. \A i \in 1 .. n : b[i] # e
      BY <1>1, <1>2, <1>3, <2>2 DEF NextBatch
    <3>2. Where(b, e) = {}
      BY <1>3, <3>1 DEF Where
    <3> QED BY <2>2, <3>2, FS_EmptySet DEF Copies, One
  <2> QED BY <2>1, <2>2
<1>9. ASSUME NEW e \in Entries
      PROVE  One(e <= LastOf) = One(e <= lastRead) + One(e \in NextBatch)
  <2>1. e \in Nat
    BY DEF Entries
  <2> QED BY <1>1, <2>1 DEF One, NextBatch, Entries
<1> QED BY <1>5, <1>6, <1>7, <1>8, <1>9

LEMMA ReadInv ==
  ASSUME IInv, NEW l \in Loops, Read(l)
  PROVE  IInv'
<1> DEFINE b == [i \in 1 .. LastOf - lastRead |-> lastRead + i]
<1>1. /\ TypeOK /\ lastRead < added /\ lastRead' = LastOf
      /\ loop[l] \in LoopType /\ LoopOK(loop[l]) /\ loop[l].pc = "read"
  BY DEF IInv, TypeInv, TypeOK, Read
<1>2. /\ NextBatch \subseteq Entries /\ b \in Seq(Entries) /\ b # << >>
      /\ \A e \in Entries : Copies(b, e) = One(e \in NextBatch)
      /\ \A e \in Entries : One(e <= LastOf) = One(e <= lastRead) + One(e \in NextBatch)
  BY <1>1, BatchType
<1> HIDE DEF b
<1>3. loop[l].batch = << >>
  BY <1>1 DEF LoopOK
\* Either the loop has the entries, or they are lost.
<1>4. PICK x \in LoopType :
        /\ loop' = [loop EXCEPT ![l] = x] /\ LoopOK(x)
        /\ \/ x.batch = b /\ gone' = gone
           \/ x.batch = << >> /\ gone' = gone \cup Pairs(NextBatch)
  <2>1. CASE loop' = [loop EXCEPT ![l] = [pc |-> "put", batch |-> b]] /\ gone' = gone
    <3>1. [pc |-> "put", batch |-> b] \in LoopType /\ LoopOK([pc |-> "put", batch |-> b])
      BY <1>2 DEF LoopType, LoopOK
    <3> QED BY <2>1, <3>1
  <2>2. CASE /\ loop' = [loop EXCEPT ![l].pc = "check"]
             /\ gone' = gone \cup Pairs(NextBatch)
    <3> DEFINE x == [loop[l] EXCEPT !.pc = "check"]
    <3>1. x \in LoopType /\ LoopOK(x) /\ x.batch = << >>
      BY <1>1, <1>3 DEF LoopType, LoopOK
    <3>2. loop' = [loop EXCEPT ![l] = x]
      BY <2>2
    <3> QED BY <2>2, <3>1, <3>2
  <2> QED BY <2>1, <2>2 DEF Read, b
<1>5. /\ LastOf \in 0 .. added /\ pel' \subseteq Entries /\ pel \subseteq pel'
  <2>1. LastOf \in Nat /\ LastOf <= added
    BY <1>1, LastOfType
  <2>2. added \in Nat
    BY <1>1, Constants DEF TypeOK
  <2> QED BY <1>1, <1>2, <2>1, <2>2 DEF TypeOK, Read
<1>6. gone' \subseteq Entries \X Users
  BY <1>1, <1>2, <1>4 DEF TypeOK, Pairs
<1>7. loop' \in [Loops -> LoopType] /\ \A k \in Loops : LoopOK(loop'[k])
  BY <1>4 DEF IInv, TypeInv, TypeOK
<1>8. TypeInv'
  BY <1>1, <1>5, <1>6, <1>7 DEF IInv, TypeInv, TypeOK, Read, workVars, countVars
<1>9. ASSUME NEW e \in Entries, NEW u \in Targets[e] PROVE Balance(e, u)'
  <2> DEFINE k == One(e \in NextBatch)
             r == delivered[e][u] + posted[e][u]
  <2>1. u \in Users /\ Balance(e, u)
    BY TargetsType DEF IInv, Balanced
  <2>2. k \in Nat
    BY OneType
  <2>3. CopiesAmong(Batches, e)'
          = CopiesAmong(Batches, e) - Copies(loop[l].batch, e) + Copies(x.batch, e)
    BY <1>1, <1>4, LoopMoves
  <2>4. Copies(loop[l].batch, e) = 0
    BY <1>3, CopiesEmpty
  <2>5. /\ Dealing(e, u)' = Dealing(e, u) /\ Copies(channel[u], e)' = Copies(channel[u], e)
        /\ One(writer[u].entry = e)' = One(writer[u].entry = e)
        /\ Copies(taskChan, e)' = Copies(taskChan, e)
        /\ delivered'[e][u] = delivered[e][u]
    BY DEF Read, workVars, countVars, Dealing, Copies, Where
  <2>6. /\ CopiesAmong(Batches, e) \in Nat
        /\ Copies(taskChan, e) \in Nat /\ Cardinality(Dealing(e, u)) \in Nat
        /\ Copies(channel[u], e) \in Nat /\ One(writer[u].entry = e) \in Nat
        /\ Held(e, u) \in Nat
    BY <1>1, <2>1, HeldType
  <2>14. posted'[e][u] = posted[e][u]
    BY DEF Read
  <2>12. delivered[e] \in [Users -> Nat] /\ posted[e] \in [Users -> Nat]
    BY <1>1 DEF TypeOK
  <2>13. delivered[e][u] \in Nat /\ posted[e][u] \in Nat
    BY <2>1, <2>12
  <2>7. r \in Nat /\ Held(e, u) + r + One(<<e, u>> \in gone) = One(e <= lastRead)
    BY <2>1, <2>6, <2>13, OneType DEF Balance
  <2> HIDE DEF r, k
  <2>8. One(<<e, u>> \in gone) \in Nat /\ One(e <= lastRead) \in Nat
    BY OneType
  <2>9. One(e <= lastRead') = One(e <= lastRead) + k
    BY <1>1, <1>2 DEF k
  <2>10. CASE x.batch = b /\ gone' = gone
    <3>1. Copies(x.batch, e) = k
      BY <1>2, <2>10 DEF k
    <3>2. CopiesAmong(Batches, e)' = CopiesAmong(Batches, e) + k
      BY <2>2, <2>3, <2>4, <2>6, <3>1
    <3>3. Held(e, u)' = Held(e, u) + k
      BY <2>2, <2>3, <2>5, <2>6, <3>2 DEF Held
    <3>4. Held(e, u)' + r + One(<<e, u>> \in gone') = One(e <= lastRead')
      BY <2>2, <2>6, <2>7, <2>8, <2>9, <2>10, <3>3
    <3>5. Held(e, u)' \in Nat
      BY <2>2, <2>6, <3>3
    <3>6. Held(e, u)' + delivered[e][u] + posted[e][u] + One(<<e, u>> \in gone')
            = One(e <= lastRead')
      BY <2>13, <3>4, <3>5, OneType DEF r
    <3> QED BY <2>5, <2>14, <3>6 DEF Balance, One
  <2>11. CASE x.batch = << >> /\ gone' = gone \cup Pairs(NextBatch)
    <3>1. Copies(x.batch, e) = 0
      BY <2>11, CopiesEmpty
    <3>2. CopiesAmong(Batches, e)' = CopiesAmong(Batches, e)
      BY <2>3, <2>4, <2>6, <3>1
    <3>3. Held(e, u)' = Held(e, u)
      BY <2>5, <3>2 DEF Held
    <3>4. <<e, u>> \in gone' <=> <<e, u>> \in gone \/ e \in NextBatch
      BY <2>1, <2>11 DEF Pairs
    <3>5. e \in NextBatch => <<e, u>> \notin gone
      <4>1. e \in NextBatch => One(e <= lastRead) = 0
        BY <1>1 DEF NextBatch, One, TypeOK, Entries
      <4>2. One(e <= lastRead) = 0 => One(<<e, u>> \in gone) = 0
        BY <2>6, <2>7, <2>8
      <4> QED BY <4>1, <4>2 DEF One
    <3>6. One(<<e, u>> \in gone') = One(<<e, u>> \in gone) + k
      BY <3>4, <3>5 DEF One, k
    <3>7. Held(e, u)' + r + One(<<e, u>> \in gone') = One(e <= lastRead')
      BY <2>2, <2>6, <2>7, <2>8, <2>9, <3>3, <3>6
    <3>8. Held(e, u)' \in Nat
      BY <2>6, <3>3
    <3>9. Held(e, u)' + delivered[e][u] + posted[e][u] + One(<<e, u>> \in gone')
            = One(e <= lastRead')
      BY <2>13, <3>7, <3>8, OneType DEF r
    <3> QED BY <2>5, <2>14, <3>9 DEF Balance, One
  <2> QED BY <1>4, <2>10, <2>11
<1>10. Counts'
  <2>1. /\ UNCHANGED <<pending, table, call, delivered, posted>>
        /\ ackIds' \subseteq ackIds
    BY DEF Read, workVars, countVars
  <2>2. lastRead' \in Int /\ lastRead <= lastRead'
    BY <1>1, LastOfType, Constants DEF TypeOK
  <2> QED BY <2>1, <2>2, CountsKept
<1> QED BY <1>8, <1>9, <1>10 DEF IInv, Balanced
--------------------------------------------------------------------------------
(* The dispatch workers *)

\* What the gateway holds is not settled, and held once.
LEMMA HeldOnce ==
  ASSUME IInv, NEW e \in Entries, NEW u \in Targets[e], Held(e, u) > 0
  PROVE  /\ u \in Users /\ Held(e, u) = 1
         /\ delivered[e][u] = 0 /\ posted[e][u] = 0 /\ <<e, u>> \notin gone
         /\ e <= lastRead /\ ~ Settled(e, u)
<1>1. u \in Users /\ TypeOK /\ Balance(e, u)
  BY TargetsType DEF IInv, TypeInv, Balanced
<1>2. PICK h \in Nat : h = Held(e, u)
  BY <1>1, HeldType
<1>3. delivered[e] \in [Users -> Nat] /\ posted[e] \in [Users -> Nat]
  BY <1>1 DEF TypeOK
<1>4. PICK d \in Nat, p \in Nat : d = delivered[e][u] /\ p = posted[e][u]
  BY <1>1, <1>3
<1>5. PICK n \in {0, 1} : n = One(<<e, u>> \in gone)
  BY OneType
<1>6. PICK r \in {0, 1} : r = One(e <= lastRead)
  BY OneType
<1>7. h + d + p + n = r /\ h > 0
  BY <1>1, <1>2, <1>4, <1>5, <1>6 DEF Balance
<1>8. h = 1 /\ d = 0 /\ p = 0 /\ n = 0 /\ r = 1
  BY <1>7
<1> QED BY <1>1, <1>2, <1>4, <1>5, <1>6, <1>8 DEF One, Settled

LEMMA WorkerFacts ==
  ASSUME IInv, NEW w \in Workers
  PROVE  /\ TypeOK /\ worker[w] \in WorkerType /\ WorkerOK(worker[w])
         /\ worker[w].entry \in Entries \cup {NoEntry}
         /\ worker[w].todo # {} => /\ worker[w].entry \in Entries
                                   /\ worker[w].todo \subseteq Targets[worker[w].entry]
BY DEF IInv, TypeInv, TypeOK, WorkerType, WorkerOK

\* What a worker turns to, the gateway holds.
LEMMA DealingHeld ==
  ASSUME IInv, NEW w \in Workers, NEW u \in worker[w].todo
  PROVE  LET e == worker[w].entry
         IN  e \in Entries /\ u \in Targets[e] /\ u \in Users /\ Held(e, u) > 0
<1> DEFINE e == worker[w].entry
<1>1. e \in Entries /\ u \in Targets[e] /\ TypeOK
  BY WorkerFacts
<1> HIDE DEF e
<1>2. u \in Users
  BY <1>1, TargetsType
<1>3. w \in Dealing(e, u)
  BY DEF Dealing, e
<1>4. PICK c \in Nat : c = Cardinality(Dealing(e, u)) /\ c > 0
  <2>1. IsFiniteSet(Dealing(e, u)) /\ Cardinality(Dealing(e, u)) \in Nat
    BY <1>1, <1>2, HeldType
  <2>2. Cardinality(Dealing(e, u)) # 0
    BY <1>3, <2>1, FS_EmptySet
  <2> QED BY <2>1, <2>2
<1>5. PICK a \in Nat, b \in Nat, d \in Nat, g \in Nat :
        /\ a = CopiesAmong(Batches, e) /\ b = Copies(taskChan, e)
        /\ d = Copies(channel[u], e) /\ g = One(writer[u].entry = e)
  BY <1>1, <1>2, HeldType
<1>6. a + b + c + d + g > 0
  BY <1>4
<1>7. Held(e, u) > 0
  BY <1>4, <1>5, <1>6 DEF Held
<1> QED BY <1>1, <1>2, <1>7 DEF e

LEMMA TakeTaskInv ==
  ASSUME IInv, NEW w \in Workers, TakeTask(w)
  PROVE  IInv'
<1> DEFINE e == Head(taskChan)
           x == [entry |-> e, todo |-> Targets[e], inc |-> FALSE]
<1>1. taskChan \in Seq(Entries) /\ taskChan # << >> /\ Len(taskChan) <= ChanCap /\ TypeOK
  BY DEF IInv, TypeInv, TypeOK, TakeTask
<1>2. /\ e \in Entries /\ Tail(taskChan) \in Seq(Entries)
      /\ Len(Tail(taskChan)) = Len(taskChan) - 1 /\ Len(taskChan) \in Nat
  BY <1>1, HeadTailProperties, LenProperties
<1>3. \A f : Copies(taskChan, f) = Copies(Tail(taskChan), f) + One(e = f)
  BY <1>1, CopiesTail DEF One
<1>4. /\ worker[w] = NoWork /\ worker' = [worker EXCEPT ![w] = x]
      /\ pending' = [pending EXCEPT ![e] = Cardinality(Targets[e])]
      /\ table' = [table EXCEPT ![MsgId[e]] = e]
      /\ taskChan' = Tail(taskChan)
  BY DEF TakeTask
<1> HIDE DEF e
<1>5. Targets[e] \subseteq Users /\ Targets[e] # {} /\ Cardinality(Targets[e]) \in Nat
  BY <1>2, TargetsType, FS_CardinalityType
<1>6. x \in WorkerType /\ WorkerOK(x)
  BY <1>2, <1>5, Constants DEF WorkerType, WorkerOK
<1>7. worker' \in [Workers -> WorkerType] /\ \A v \in Workers : WorkerOK(worker'[v])
  BY <1>4, <1>6 DEF IInv, TypeInv, TypeOK
<1>8. Len(taskChan') <= ChanCap
  BY <1>1, <1>2, <1>4, Constants
<1>9. /\ pending' \in [Entries -> Int] /\ table' \in [Ids -> Entries \cup {NoEntry}]
      /\ UNCHANGED <<call, ackIds>>
  <2>1. UNCHANGED <<call, ackIds>>
    BY DEF TakeTask
  <2>2. pending' \in [Entries -> Int]
    <3>1. pending \in [Entries -> Int] /\ Cardinality(Targets[e]) \in Int
      BY <1>1, <1>5 DEF TypeOK
    <3> QED BY <1>4, <3>1
  <2>3. table' \in [Ids -> Entries \cup {NoEntry}]
    BY <1>1, <1>2, <1>4, IdsType DEF TypeOK
  <2> QED BY <2>1, <2>2, <2>3
<1>10. TypeInv'
  BY <1>2, <1>4, <1>7, <1>8, <1>9
  DEF IInv, TypeInv, TypeOK, TakeTask, streamVars, history
<1>11. ASSUME NEW f \in Entries, NEW u \in Targets[f] PROVE Held(f, u)' = Held(f, u)
  <2>1. u \in Users
    BY TargetsType
  <2> HIDE DEF x
  <2>2. Cardinality(Dealing(f, u))'
          = Cardinality(Dealing(f, u)) - Turning(worker[w], f, u) + Turning(x, f, u)
    <3>1. TypeOK
      BY <1>1
    <3>2. worker' = [worker EXCEPT ![w] = x]
      BY <1>4
    <3>3. x \in WorkerType
      BY <1>6
    <3> QED BY <2>1, <3>1, <3>2, <3>3, WorkerMoves
  <2>3. Turning(worker[w], f, u) = 0
    BY <1>4 DEF NoWork, Turning, One
  <2>4. Turning(x, f, u) = One(e = f)
    BY DEF Turning, One, x
  <2>5. /\ Copies(taskChan, f)' = Copies(Tail(taskChan), f)
        /\ CopiesAmong(Batches, f)' = CopiesAmong(Batches, f)
        /\ Copies(channel[u], f)' = Copies(channel[u], f)
        /\ One(writer[u].entry = f)' = One(writer[u].entry = f)
    BY <1>4 DEF TakeTask, Copies, Where, CopiesAmong, Spots, Batches
  <2>6. /\ Copies(taskChan, f) \in Nat /\ Cardinality(Dealing(f, u)) \in Nat
        /\ CopiesAmong(Batches, f) \in Nat /\ Copies(Tail(taskChan), f) \in Nat
    BY <1>1, <1>2, <2>1, HeldType, CopiesType
  <2>7. PICK n \in Nat : n = One(e = f)
    BY OneType
  <2>8. Copies(taskChan, f) = Copies(Tail(taskChan), f) + n
    BY <1>3, <2>7
  <2>9. Cardinality(Dealing(f, u))' = Cardinality(Dealing(f, u)) + n
    BY <2>2, <2>3, <2>4, <2>6, <2>7
  <2>10. Copies(taskChan, f)' + Cardinality(Dealing(f, u))'
           = Copies(taskChan, f) + Cardinality(Dealing(f, u))
    BY <2>5, <2>6, <2>8, <2>9
  <2>11. Copies(taskChan, f)' \in Nat /\ Cardinality(Dealing(f, u))' \in Nat
    BY <2>5, <2>6, <2>9
  <2>12. CopiesAmong(Batches, f)' + Copies(taskChan, f)' + Cardinality(Dealing(f, u))'
           = CopiesAmong(Batches, f) + Copies(taskChan, f) + Cardinality(Dealing(f, u))
    BY <2>5, <2>6, <2>10, <2>11
  <2> QED BY <2>5, <2>12 DEF Held
<1>12. UNCHANGED <<delivered, posted, gone, lastRead, ackIds>>
  BY DEF TakeTask, history, streamVars
<1>13. Balanced'
  BY <1>11, <1>12 DEF IInv, Balanced, Balance
<1>14. \A i : SettledFor(i)' = SettledFor(i) /\ Calling(i)' = Calling(i)
  BY <1>9, <1>12 DEF SettledFor, Settled, Calling
<1>15. e <= lastRead
  <2>1. PICK u \in Targets[e] : u \in Users
    BY <1>5
  <2>2. PICK b \in Nat : b = Copies(taskChan, e) /\ b > 0
    <3>1. Copies(Tail(taskChan), e) \in Nat
      BY <1>2, CopiesType
    <3> QED BY <1>3, <3>1 DEF One
  <2>3. PICK a \in Nat, c \in Nat, d \in Nat, g \in Nat :
          /\ a = CopiesAmong(Batches, e) /\ c = Cardinality(Dealing(e, u))
          /\ d = Copies(channel[u], e) /\ g = One(writer[u].entry = e)
    BY <1>1, <2>1, HeldType
  <2>4. a + b + c + d + g > 0
    BY <2>2
  <2>5. Held(e, u) > 0
    BY <2>2, <2>3, <2>4 DEF Held
  <2> QED BY <1>2, <2>5, HeldOnce
<1>16. /\ Counts /\ table \in [Ids -> Entries \cup {NoEntry}] /\ pending \in [Entries -> Int]
       /\ MsgId[e] \in Ids
  BY <1>1, <1>2, IdsType DEF IInv, TypeOK
<1>17. ASSUME NEW f \in Entries PROVE Counted(f)'
  <2>1. CASE f = e
    <3>1. Backed(MsgId[e])
      BY <1>16 DEF Counts
    <3>2. PICK a \in Nat, b \in Nat, t \in Nat :
            /\ a = Cardinality(Calling(MsgId[e])) /\ b = Cardinality(SettledFor(MsgId[e]))
            /\ t = Cardinality(Targets[e])
      BY <1>5, CallingType, SettledForType
    <3>3. pending'[e] = t /\ t + a <= t + b
      BY <1>2, <1>4, <1>16, <3>1, <3>2 DEF Backed
    <3> QED BY <1>12, <1>14, <1>15, <2>1, <3>2, <3>3 DEF Counted
  <2>2. CASE f # e
    <3>1. Live(f)' => Live(f)
      BY <1>4, <1>9, <1>16, <2>2 DEF Live
    <3>2. pending'[f] = pending[f]
      BY <1>4, <1>16, <2>2
    <3>3. Counted(f)
      BY <1>16 DEF Counts
    <3> QED BY <1>12, <1>14, <3>1, <3>2, <3>3 DEF Counted
  <2> QED BY <2>1, <2>2
<1>18. ASSUME NEW i \in Ids PROVE Backed(i)' /\ Named(i)' /\ Acked(i)'
  <2>1. Backed(i) /\ Named(i) /\ Acked(i)
    BY <1>16 DEF Counts
  <2>2. Backed(i)'
    BY <1>14, <2>1 DEF Backed
  <2>3. Named(i)'
    BY <1>4, <1>16, <2>1 DEF Named
  <2>4. Acked(i)'
    BY <1>12, <1>14, <2>1 DEF Acked, MessageId
  <2> QED BY <2>2, <2>3, <2>4
<1> QED BY <1>10, <1>13, <1>17, <1>18 DEF IInv, Counts

\* A goroutine counts down what it has found.
LEMMA CountDownInv ==
  ASSUME IInv, NEW c \in Callers, CountDown(c)
  PROVE  IInv'
<1>1. /\ TypeOK /\ Counts /\ call \in [Callers -> Entries \cup {NoEntry}]
      /\ table \in [Ids -> Entries \cup {NoEntry}] /\ pending \in [Entries -> Int]
      /\ lastRead \in Int
  BY Constants DEF IInv, TypeInv, TypeOK
<1>2. PICK e \in Entries, i \in Ids : e = call[c] /\ e # NoEntry /\ i = MsgId[e]
  <2>1. call[c] \in Entries /\ call[c] # NoEntry
    BY <1>1, Constants DEF CountDown, Free
  <2> QED BY <2>1, IdsType
<1>3. /\ pending' = [pending EXCEPT ![e] = pending[e] - 1]
      /\ call' = [call EXCEPT ![c] = NoEntry]
      /\ \/ table' = table /\ ackIds' = ackIds
         \/ /\ pending'[e] <= 0 /\ table' = [table EXCEPT ![i] = NoEntry]
            /\ ackIds' \subseteq ackIds \cup {MessageId(i)}
  BY <1>2 DEF CountDown, NothingLeft
<1>4. UNCHANGED <<loop, taskChan, worker, channel, writer, lastRead, history>>
  BY DEF CountDown, streamVars, pullVars
<1>5. /\ pending' \in [Entries -> Int] /\ pending'[e] = pending[e] - 1
      /\ call' \in [Callers -> Entries \cup {NoEntry}]
      /\ table' \in [Ids -> Entries \cup {NoEntry}]
      /\ \A f \in Entries \ {e} : pending'[f] = pending[f]
  BY <1>1, <1>2, <1>3
<1>6. TypeInv'
  BY <1>5
  DEF IInv, TypeInv, TypeOK, CountDown, streamVars, pullVars, history, ItemsOf, WriterOK
<1>7. Balanced'
  <2>1. Batches' = Batches
    BY <1>4 DEF Batches
  <2> QED BY <1>4, <2>1, HeldKept DEF IInv, Balanced, Balance, history
<1>8. \A j : SettledFor(j)' = SettledFor(j)
  BY <1>4 DEF SettledFor, Settled, history
<1>9. \A j : j # i => Calling(j)' = Calling(j)
  BY <1>1, <1>2, <1>3 DEF Calling
<1>10. /\ Cardinality(Calling(i)) \in Nat /\ Cardinality(Calling(i)) > 0
       /\ Cardinality(Calling(i)') = Cardinality(Calling(i)) - 1
  <2>1. c \in Calling(i) /\ Calling(i)' = Calling(i) \ {c}
    <3>1. c \in Calling(i)
      BY <1>2 DEF Calling
    <3>2. call'[c] = NoEntry /\ \A d \in Callers \ {c} : call'[d] = call[d]
      BY <1>1, <1>3
    <3> QED BY <3>1, <3>2 DEF Calling
  <2>2. /\ IsFiniteSet(Calling(i)) /\ Cardinality(Calling(i)) \in Nat
        /\ IsFiniteSet(Calling(i) \ {c}) /\ Cardinality(Calling(i) \ {c}) \in Nat
    BY CallingType, FS_RemoveElement, FS_CardinalityType
  <2>3. Cardinality(Calling(i) \ {c}) = Cardinality(Calling(i)) - 1
    BY <2>1, <2>2, FS_RemoveElement
  <2> QED BY <2>1, <2>2, <2>3
<1>11. ASSUME NEW f \in Entries, Live(f)' PROVE Live(f)
  BY <1>1, <1>2, <1>3, <1>11, IdsType, Constants DEF Live
<1>12. /\ e <= lastRead
       /\ Cardinality(Targets[e]) + Cardinality(Calling(i))
            <= pending[e] + Cardinality(SettledFor(i))
  BY <1>1, <1>2 DEF Counts, Counted, Live
<1>13. ASSUME NEW f \in Entries PROVE Counted(f)'
  <2>1. SUFFICES ASSUME Live(f)'
                 PROVE  /\ f <= lastRead
                        /\ Cardinality(Targets[f]) + Cardinality(Calling(MsgId[f])')
                             <= pending'[f] + Cardinality(SettledFor(MsgId[f]))
    BY <1>4, <1>8 DEF Counted
  <2>2. /\ f <= lastRead
        /\ Cardinality(Targets[f]) + Cardinality(Calling(MsgId[f]))
             <= pending[f] + Cardinality(SettledFor(MsgId[f]))
    BY <1>1, <1>11, <2>1 DEF Counts, Counted
  <2>3. PICK t \in Nat, p \in Int, b \in Nat :
          /\ t = Cardinality(Targets[f]) /\ p = pending[f]
          /\ b = Cardinality(SettledFor(MsgId[f]))
    BY <1>1, TargetsType, SettledForType, FS_CardinalityType
  <2>4. CASE MsgId[f] = i
    <3>1. PICK a \in Nat : a = Cardinality(Calling(i)) /\ Cardinality(Calling(i)') = a - 1
      BY <1>10
    <3>2. t + (a - 1) <= (p - 1) + b /\ t + (a - 1) <= p + b
      BY <2>2, <2>3, <2>4, <3>1
    <3>3. pending'[f] \in {p - 1, p}
      BY <1>5, <2>3
    <3>4. t + (a - 1) <= pending'[f] + b
      BY <3>2, <3>3
    <3> QED BY <2>2, <2>3, <2>4, <3>1, <3>4
  <2>5. CASE MsgId[f] # i
    BY <1>2, <1>5, <1>9, <2>2, <2>5
  <2> QED BY <2>4, <2>5
<1>14. ASSUME NEW j \in Ids PROVE Backed(j)' /\ Named(j)' /\ Acked(j)'
  <2>1. Backed(j) /\ Named(j) /\ Acked(j)
    BY <1>1 DEF Counts
  <2>2. Backed(j)'
    <3>1. CASE j = i
      <4>1. PICK a \in Nat, b \in Nat :
              /\ a = Cardinality(Calling(i)) /\ Cardinality(Calling(i)') = a - 1
              /\ b = Cardinality(SettledFor(i)) /\ Cardinality(SettledFor(i)') = b
        BY <1>8, <1>10, SettledForType
      <4>2. a <= b
        BY <2>1, <3>1, <4>1 DEF Backed
      <4>3. a - 1 <= b
        BY <4>2
      <4> QED BY <3>1, <4>1, <4>3 DEF Backed
    <3>2. CASE j # i
      BY <1>8, <1>9, <2>1, <3>2 DEF Backed
    <3> QED BY <3>1, <3>2
  <2>3. Named(j)'
    BY <1>1, <1>2, <1>3, <2>1 DEF Named
  <2>4. Acked(j)'
    <3>1. CASE MessageId(j) \in ackIds
      BY <1>4, <1>8, <2>1, <3>1 DEF Acked, MessageId
    <3>2. CASE MessageId(j) \in ackIds' \ ackIds
      <4>1. j = i /\ pending'[e] <= 0
        BY <1>3, <3>2 DEF MessageId
      <4>2. PICK t \in Nat, p \in Int, a \in Nat, b \in Nat :
              /\ t = Cardinality(Targets[e]) /\ p = pending[e] /\ a = Cardinality(Calling(i))
              /\ b = Cardinality(SettledFor(i))
        BY <1>1, <1>2, TargetsType, CallingType, SettledForType, FS_CardinalityType
      <4>3. t + a <= p + b /\ a > 0 /\ p - 1 <= 0
        BY <1>5, <1>10, <1>12, <4>1, <4>2
      <4>4. b >= t
        BY <4>3
      <4>5. e \in 1 .. lastRead
        BY <1>1, <1>2, <1>12 DEF Entries
      <4> QED BY <1>2, <1>4, <1>8, <4>1, <4>2, <4>4, <4>5 DEF Acked
    <3>3. CASE MessageId(j) \notin ackIds'
      BY <3>3 DEF Acked, MessageId
    <3> QED BY <3>1, <3>2, <3>3
  <2> QED BY <2>2, <2>3, <2>4
<1> QED BY <1>6, <1>7, <1>13, <1>14 DEF IInv, Counts

\* 1 for target v of entry f if that is target u of entry e.
Same(f, v, e, u) == One(f = e /\ v = u)

\* Worker w has dealt with target u of its entry and goes on as x.
LEMMA WorkerTurns ==
  ASSUME IInv, NEW w \in Workers, NEW u \in worker[w].todo, NEW x \in WorkerType,
         worker' = [worker EXCEPT ![w] = x], x.todo = worker[w].todo \ {u},
         x.entry \in {worker[w].entry, NoEntry}, WorkerOK(x)
  PROVE  /\ worker' \in [Workers -> WorkerType] /\ \A k \in Workers : WorkerOK(worker'[k])
         /\ \A v \in Workers : worker'[v].entry \in {worker[v].entry, NoEntry}
         /\ \A f \in Entries, v \in Users :
              /\ Cardinality(Dealing(f, v))' \in Nat
              /\ Cardinality(Dealing(f, v))
                   = Cardinality(Dealing(f, v))' + Same(f, v, worker[w].entry, u)
<1>1. TypeOK /\ worker \in [Workers -> WorkerType] /\ \A k \in Workers : WorkerOK(worker[k])
  BY DEF IInv, TypeInv, TypeOK
<1>2. worker' \in [Workers -> WorkerType] /\ \A k \in Workers : WorkerOK(worker'[k])
  BY <1>1
<1>3. \A v \in Workers : worker'[v].entry \in {worker[v].entry, NoEntry}
  BY <1>1
<1>4. ASSUME NEW f \in Entries, NEW v \in Users
      PROVE  /\ Cardinality(Dealing(f, v))' \in Nat
             /\ Cardinality(Dealing(f, v))
                  = Cardinality(Dealing(f, v))' + Same(f, v, worker[w].entry, u)
  <2>1. TypeOK
    BY <1>1
  <2>2. Cardinality(Dealing(f, v))'
          = Cardinality(Dealing(f, v)) - Turning(worker[w], f, v) + Turning(x, f, v)
    BY <2>1, WorkerMoves
  <2>3. Turning(worker[w], f, v) = Turning(x, f, v) + Same(f, v, worker[w].entry, u)
    <3>1. WorkerOK(x) /\ f # NoEntry
      BY Constants
    <3>2. x.todo # {} => x.entry = worker[w].entry
      BY <3>1 DEF WorkerOK
    <3> QED BY <3>2 DEF Turning, Same, One
  <2>4. /\ Cardinality(Dealing(f, v)) \in Nat /\ IsFiniteSet(Dealing(f, v))
        /\ Turning(x, f, v) \in Nat /\ Turning(worker[w], f, v) \in Nat
        /\ Same(f, v, worker[w].entry, u) \in Nat
    BY <2>1, HeldType, OneType DEF Turning, Same
  <2>5. Cardinality(Dealing(f, v))' \in Nat
    <3>1. Dealing(f, v)' \subseteq Workers
      BY DEF Dealing
    <3>2. IsFiniteSet(Dealing(f, v)')
      BY <3>1, Constants, FS_Subset
    <3> QED BY <3>2, FS_CardinalityType
  <2> QED BY <2>2, <2>3, <2>4, <2>5
<1> QED BY <1>2, <1>3, <1>4

LEMMA ChannelTypes ==
  ASSUME IInv, NEW u \in Users
  PROVE  channel[u] \in Seq(ItemsOf(u)) /\ WriterOK(u, writer[u]) /\ writer[u] \in WriterType
BY DEF IInv, TypeInv, TypeOK

LEMMA EnqueueInv ==
  ASSUME IInv, NEW w \in Workers, NEW u \in Users, Enqueue(w, u)
  PROVE  IInv'
<1> DEFINE e == worker[w].entry
           x == [entry |-> e, todo |-> worker[w].todo \ {u}, inc |-> TRUE]
<1>1. u \in worker[w].todo
  BY DEF Enqueue, Turns
<1>2. e \in Entries /\ u \in Targets[e] /\ worker[w] \in WorkerType /\ WorkerOK(worker[w])
  BY <1>1, WorkerFacts, DealingHeld
<1>3. x \in WorkerType /\ WorkerOK(x)
  BY <1>2, Constants DEF WorkerType, WorkerOK
<1>4. worker' = [worker EXCEPT ![w] = x]
  BY DEF Enqueue
<1>5. x.todo = worker[w].todo \ {u} /\ x.entry \in {worker[w].entry, NoEntry}
  OBVIOUS
<1>6. channel' = [channel EXCEPT ![u] = Append(channel[u], e)]
  BY DEF Enqueue
<1> HIDE DEF x
<1>7. /\ worker' \in [Workers -> WorkerType] /\ \A k \in Workers : WorkerOK(worker'[k])
      /\ \A v \in Workers : worker'[v].entry \in {worker[v].entry, NoEntry}
  BY <1>1, <1>3, <1>4, <1>5, WorkerTurns
<1>8. \A f \in Entries, v \in Users :
        /\ Cardinality(Dealing(f, v))' \in Nat
        /\ Cardinality(Dealing(f, v)) = Cardinality(Dealing(f, v))' + Same(f, v, e, u)
  BY <1>1, <1>3, <1>4, <1>5, WorkerTurns
<1> HIDE DEF e
<1>9. /\ channel \in [Users -> Seq(Entries \cup {Ping})]
      /\ e \in ItemsOf(u) /\ e \in Entries \cup {Ping}
  BY <1>2 DEF IInv, TypeInv, TypeOK, ItemsOf
<1>10. /\ channel[u] \in Seq(ItemsOf(u)) /\ channel[u] \in Seq(Entries \cup {Ping})
  BY <1>9, ChannelTypes
<1>11. /\ Append(channel[u], e) \in Seq(ItemsOf(u))
       /\ Append(channel[u], e) \in Seq(Entries \cup {Ping})
  BY <1>9, <1>10, AppendProperties
<1>12. /\ channel' \in [Users -> Seq(Entries \cup {Ping})]
       /\ \A v \in Users : channel'[v] \in Seq(ItemsOf(v))
  BY <1>6, <1>9, <1>11, ChannelTypes
<1>13. TypeInv'
  BY <1>7, <1>12
  DEF IInv, TypeInv, TypeOK, Enqueue, streamVars, pullVars, countVars, history, ItemsOf, WriterOK
<1>14. ASSUME NEW f \in Entries, NEW v \in Targets[f] PROVE Held(f, v)' = Held(f, v)
  <2>1. v \in Users /\ TypeOK
    BY TargetsType DEF IInv, TypeInv
  <2>2. PICK n \in Nat : n = Same(f, v, e, u)
    BY OneType DEF Same
  <2>3. Copies(channel[v], f)' = Copies(channel[v], f) + n
    <3>1. CASE v = u
      <4>1. Copies(Append(channel[u], e), f) = Copies(channel[u], f) + IF e = f THEN 1 ELSE 0
        BY <1>9, <1>10, CopiesAppend
      <4>2. channel'[v] = Append(channel[u], e)
        BY <1>6, <1>9, <3>1
      <4>3. Copies(channel[v], f)' = Copies(channel'[v], f)
        BY DEF Copies, Where
      <4> QED BY <2>2, <3>1, <4>1, <4>2, <4>3 DEF Same, One
    <3>2. CASE v # u
      <4>1. channel'[v] = channel[v]
        BY <1>6, <1>9, <2>1, <3>2
      <4>2. Copies(channel[v], f)' = Copies(channel'[v], f)
        BY DEF Copies, Where
      <4>3. Copies(channel[v], f) \in Nat
        BY <2>1, HeldType
      <4> QED BY <2>2, <3>2, <4>1, <4>2, <4>3 DEF Same, One
    <3> QED BY <3>1, <3>2
  <2>4. PICK c \in Nat, c2 \in Nat :
          c = Cardinality(Dealing(f, v)) /\ c2 = Cardinality(Dealing(f, v))' /\ c = c2 + n
    BY <1>8, <2>1, <2>2, HeldType
  <2>5. PICK a \in Nat, b \in Nat, d \in Nat, g \in Nat :
          /\ a = CopiesAmong(Batches, f) /\ b = Copies(taskChan, f)
          /\ d = Copies(channel[v], f) /\ g = One(writer[v].entry = f)
    BY <2>1, HeldType
  <2>6. /\ CopiesAmong(Batches, f)' = a /\ Copies(taskChan, f)' = b
        /\ One(writer[v].entry = f)' = g
    BY <2>5 DEF Enqueue, pullVars, Copies, Where, CopiesAmong, Spots, Batches
  <2>7. a + b + c + d + g = a + b + c2 + (d + n) + g
    BY <2>4
  <2> QED BY <2>3, <2>4, <2>5, <2>6, <2>7 DEF Held
<1> QED BY <1>13, <1>14, KeepsInv DEF Enqueue, streamVars, countVars, history

LEMMA IncInv ==
  ASSUME IInv, NEW w \in Workers, Inc(w)
  PROVE  IInv'
<1> DEFINE x == IF worker[w].todo = {} THEN NoWork ELSE [worker[w] EXCEPT !.inc = FALSE]
<1>1. worker[w] \in WorkerType /\ WorkerOK(worker[w]) /\ TypeOK
  BY WorkerFacts
<1>2. x \in WorkerType /\ WorkerOK(x)
  BY <1>1, Constants DEF WorkerType, WorkerOK, NoWork
<1>3. worker' = [worker EXCEPT ![w] = x]
  BY DEF Inc
<1>4. \A f \in Entries, v \in Users : Turning(x, f, v) = Turning(worker[w], f, v)
  BY <1>1 DEF Turning, NoWork, WorkerType
<1>5. x.entry \in {worker[w].entry, NoEntry}
  BY <1>1 DEF NoWork, WorkerType
<1> HIDE DEF x
<1>6. /\ worker' \in [Workers -> WorkerType] /\ \A k \in Workers : WorkerOK(worker'[k])
      /\ \A v \in Workers : worker'[v].entry \in {worker[v].entry, NoEntry}
  BY <1>2, <1>3, <1>5 DEF IInv, TypeInv, TypeOK
<1>7. totalPending' \in Int
  BY <1>1 DEF TypeOK, Inc
<1>8. TypeInv'
  BY <1>6, <1>7
  DEF IInv, TypeInv, TypeOK, Inc, streamVars, pullVars, countVars, history, ItemsOf, WriterOK
<1>9. ASSUME NEW f \in Entries, NEW v \in Targets[f] PROVE Held(f, v)' = Held(f, v)
  <2>1. v \in Users
    BY TargetsType
  <2>2. Cardinality(Dealing(f, v))'
          = Cardinality(Dealing(f, v)) - Turning(worker[w], f, v) + Turning(x, f, v)
    BY <1>1, <1>2, <1>3, <2>1, WorkerMoves
  <2>3. Turning(x, f, v) = Turning(worker[w], f, v) /\ Turning(x, f, v) \in Nat
    BY <1>4, <2>1, OneType DEF Turning
  <2>4. Cardinality(Dealing(f, v)) \in Nat
    BY <1>1, <2>1, HeldType
  <2>5. Cardinality(Dealing(f, v))' = Cardinality(Dealing(f, v))
    BY <2>2, <2>3, <2>4
  <2> QED BY <2>5 DEF Held, Inc, pullVars, Copies, Where, CopiesAmong, Spots, Batches
<1> QED BY <1>8, <1>9, KeepsInv DEF Inc, streamVars, countVars, history

LEMMA HistoryAdds ==
  ASSUME NEW h \in [Entries -> [Users -> Nat]], NEW e \in Entries, NEW u \in Users,
         NEW h2, h2 = OnceMore(h, e, u)
  PROVE  /\ h2 \in [Entries -> [Users -> Nat]]
         /\ \A f \in Entries, v \in Users : h2[f][v] = h[f][v] + Same(f, v, e, u)
<1>1. h[e] \in [Users -> Nat]
  OBVIOUS
<1>2. h[e][u] \in Nat
  BY <1>1
<1>3. h2 = [h EXCEPT ![e] = [h[e] EXCEPT ![u] = h[e][u] + 1]]
  BY DEF OnceMore
<1>4. [h[e] EXCEPT ![u] = h[e][u] + 1] \in [Users -> Nat]
  BY <1>1, <1>2
<1>5. h2 \in [Entries -> [Users -> Nat]]
  BY <1>3, <1>4
<1>6. ASSUME NEW f \in Entries, NEW v \in Users
      PROVE  h2[f][v] = h[f][v] + Same(f, v, e, u)
  <2>1. h[f] \in [Users -> Nat]
    OBVIOUS
  <2>2. h[f][v] \in Nat
    BY <2>1
  <2>3. CASE f = e
    <3>1. h2[f] = [h[e] EXCEPT ![u] = h[e][u] + 1]
      BY <1>3, <2>3
    <3>2. h2[f][v] = IF v = u THEN h[e][u] + 1 ELSE h[e][v]
      BY <1>1, <3>1
    <3> QED BY <2>2, <2>3, <3>2 DEF Same, One
  <2>4. CASE f # e
    <3>1. h2[f] = h[f]
      BY <1>3, <2>4
    <3> QED BY <2>2, <2>4, <3>1 DEF Same, One
  <2> QED BY <2>3, <2>4
<1> QED BY <1>5, <1>6

\* Worker w turns to target u of its entry, which is posted back or gone.
LEMMA TurnInv ==
  ASSUME IInv, NEW w \in Workers, NEW u \in Users, Turns(w, u), Turn(w, u),
         UNCHANGED <<streamVars, up, crashes, pullVars, beat, channel, writer, totalPending,
                     pending, table, ackIds, rec, delivered>>,
         call' \in [Callers -> Entries \cup {NoEntry}], Counts',
         posted' \in [Entries -> [Users -> Nat]], gone' \subseteq Entries \X Users,
         \A f \in Entries, v \in Users :
           posted'[f][v] + One(<<f, v>> \in gone')
             = posted[f][v] + One(<<f, v>> \in gone) + Same(f, v, worker[w].entry, u)
  PROVE  IInv'
<1> DEFINE e == worker[w].entry
           x == IF worker[w].todo = {u} THEN NoWork
                ELSE [worker[w] EXCEPT !.todo = worker[w].todo \ {u}]
<1>1. u \in worker[w].todo
  BY DEF Turns
<1>2. /\ e \in Entries /\ u \in Targets[e] /\ worker[w] \in WorkerType /\ WorkerOK(worker[w])
      /\ TypeOK
  BY <1>1, WorkerFacts, DealingHeld
<1>3. x \in WorkerType /\ WorkerOK(x)
  BY <1>2, Constants DEF WorkerType, WorkerOK, NoWork
<1>4. worker' = [worker EXCEPT ![w] = x]
  BY DEF Turn
<1>5. x.todo = worker[w].todo \ {u} /\ x.entry \in {worker[w].entry, NoEntry}
  BY <1>1, <1>2 DEF NoWork, WorkerType
<1> HIDE DEF x
<1>6. worker' \in [Workers -> WorkerType] /\ \A k \in Workers : WorkerOK(worker'[k])
  BY <1>1, <1>3, <1>4, <1>5, WorkerTurns
<1>7. \A f \in Entries, v \in Users :
        /\ Cardinality(Dealing(f, v))' \in Nat
        /\ Cardinality(Dealing(f, v)) = Cardinality(Dealing(f, v))' + Same(f, v, e, u)
  BY <1>1, <1>3, <1>4, <1>5, WorkerTurns
<1>8. \A f \in Entries, v \in Users :
        posted'[f][v] + One(<<f, v>> \in gone')
          = posted[f][v] + One(<<f, v>> \in gone) + Same(f, v, e, u)
  OBVIOUS
<1> HIDE DEF e
<1>9. TypeInv'
  BY <1>6
  DEF IInv, TypeInv, TypeOK, streamVars, pullVars, ItemsOf, WriterOK
<1>10. /\ delivered \in [Entries -> [Users -> Nat]] /\ posted \in [Entries -> [Users -> Nat]]
       /\ posted' \in [Entries -> [Users -> Nat]]
  BY <1>2 DEF TypeOK
<1>11. ASSUME NEW f \in Entries, NEW v \in Targets[f] PROVE Balance(f, v)'
  <2>1. v \in Users
    BY TargetsType
  <2>2. PICK n \in Nat : n = Same(f, v, e, u)
    BY OneType DEF Same
  <2>3. PICK c \in Nat, c2 \in Nat :
          c = Cardinality(Dealing(f, v)) /\ c2 = Cardinality(Dealing(f, v))' /\ c = c2 + n
    BY <1>2, <1>7, <2>1, <2>2, HeldType
  <2>4. PICK a \in Nat, b \in Nat, d \in Nat, g \in Nat :
          /\ a = CopiesAmong(Batches, f) /\ b = Copies(taskChan, f)
          /\ d = Copies(channel[v], f) /\ g = One(writer[v].entry = f)
    BY <1>2, <2>1, HeldType
  <2>5. /\ CopiesAmong(Batches, f)' = a /\ Copies(taskChan, f)' = b
        /\ Copies(channel[v], f)' = d /\ One(writer[v].entry = f)' = g
    BY <2>4 DEF pullVars, Copies, Where, CopiesAmong, Spots, Batches
  <2>6. Held(f, v) = a + b + c + d + g /\ Held(f, v)' = a + b + c2 + d + g
    BY <2>3, <2>4, <2>5 DEF Held
  <2>7. delivered'[f][v] = delivered[f][v] /\ One(f <= lastRead)' = One(f <= lastRead)
    BY DEF streamVars, One
  <2>8. PICK y \in Nat, p \in Nat, p2 \in Nat :
          y = delivered[f][v] /\ p = posted[f][v] /\ p2 = posted'[f][v]
    <3>1. /\ delivered[f] \in [Users -> Nat] /\ posted[f] \in [Users -> Nat]
          /\ posted'[f] \in [Users -> Nat]
      BY <1>10
    <3> QED BY <2>1, <3>1
  <2>9. PICK k \in Nat, k2 \in Nat :
          k = One(<<f, v>> \in gone) /\ k2 = One(<<f, v>> \in gone')
    BY OneType
  <2>10. p2 + k2 = p + k + n
    BY <1>8, <2>1, <2>2, <2>8, <2>9
  <2>11. a + b + c2 + d + g + y + p2 + k2 = a + b + c + d + g + y + p + k
    <3>1. c = c2 + n
      BY <2>3
    <3> QED BY <2>10, <3>1
  <2>12. a + b + c + d + g + y + p + k = One(f <= lastRead)
    BY <2>6, <2>8, <2>9 DEF IInv, Balanced, Balance
  <2>13. One(<<f, v>> \in gone)' = k2
    BY <2>9 DEF One
  <2> QED BY <2>6, <2>7, <2>8, <2>11, <2>12, <2>13 DEF Balance
<1> QED BY <1>9, <1>11 DEF IInv, Balanced

LEMMA TurnFacts ==
  ASSUME IInv, NEW w \in Workers, NEW u \in Users, Turns(w, u)
  PROVE  LET e == worker[w].entry
         IN  /\ e \in Entries /\ u \in Targets[e] /\ ~ Settled(e, u) /\ <<e, u>> \notin gone
             /\ TypeOK /\ w \in Callers /\ Free(w)
<1>1. u \in worker[w].todo /\ Free(w)
  BY DEF Turns
<1> DEFINE e == worker[w].entry
<1>2. e \in Entries /\ u \in Targets[e] /\ Held(e, u) > 0 /\ TypeOK
  BY <1>1, WorkerFacts, DealingHeld
<1> HIDE DEF e
<1>3. ~ Settled(e, u) /\ <<e, u>> \notin gone
  BY <1>2, HeldOnce
<1> QED BY <1>1, <1>2, <1>3, IdsType DEF e

\* The target is gone, and none of the counts hears of it.
LEMMA TurnGoneInv ==
  ASSUME IInv, NEW w \in Workers, NEW u \in Users, Turns(w, u), Turn(w, u),
         UNCHANGED <<streamVars, up, crashes, pullVars, beat, channel, writer, totalPending,
                     countVars, rec, delivered, posted>>,
         gone' = gone \cup {<<worker[w].entry, u>>}
  PROVE  IInv'
<1> DEFINE e == worker[w].entry
<1>1. /\ e \in Entries /\ u \in Targets[e] /\ <<e, u>> \notin gone /\ TypeOK
      /\ gone' = gone \cup {<<e, u>>}
  BY TurnFacts
<1> HIDE DEF e
<1>2. /\ posted \in [Entries -> [Users -> Nat]] /\ gone \subseteq Entries \X Users
      /\ call \in [Callers -> Entries \cup {NoEntry}] /\ lastRead \in Int
  BY <1>1, Constants DEF TypeOK
<1>3. Counts'
  BY <1>2, CountsKept DEF countVars, streamVars
<1>4. ASSUME NEW f \in Entries, NEW v \in Users
      PROVE  posted'[f][v] + One(<<f, v>> \in gone')
               = posted[f][v] + One(<<f, v>> \in gone) + Same(f, v, e, u)
  <2>1. PICK p \in Nat : p = posted[f][v]
    <3>1. posted[f] \in [Users -> Nat]
      BY <1>2
    <3> QED BY <3>1
  <2>2. One(<<f, v>> \in gone') = One(<<f, v>> \in gone) + Same(f, v, e, u)
    BY <1>1 DEF One, Same
  <2>3. PICK k \in Nat, n \in Nat : k = One(<<f, v>> \in gone) /\ n = Same(f, v, e, u)
    BY OneType DEF Same
  <2>4. p + (k + n) = p + k + n
    OBVIOUS
  <2> QED BY <2>1, <2>2, <2>3, <2>4
<1>5. /\ call' \in [Callers -> Entries \cup {NoEntry}]
      /\ posted' \in [Entries -> [Users -> Nat]] /\ gone' \subseteq Entries \X Users
      /\ UNCHANGED <<streamVars, up, crashes, pullVars, beat, channel, writer, totalPending,
                     pending, table, ackIds, rec, delivered>>
  BY <1>1, <1>2 DEF countVars
<1> QED BY <1>3, <1>4, <1>5, TurnInv DEF e

LEMMA OverflowInv ==
  ASSUME IInv, NEW w \in Workers, NEW u \in Users, Overflow(w, u)
  PROVE  IInv'
BY TurnGoneInv DEF Overflow

LEMMA PostBackInv ==
  ASSUME IInv, NEW w \in Workers, NEW u \in Users, PostBack(w, u)
  PROVE  IInv'
<1> DEFINE e == worker[w].entry
<1>1. /\ e \in Entries /\ u \in Targets[e] /\ ~ Settled(e, u) /\ TypeOK /\ w \in Callers
      /\ Free(w)
  BY TurnFacts DEF PostBack
<1>2. CASE UNCHANGED <<countVars, posted>> /\ gone' = gone \cup {<<e, u>>}
  BY <1>2, TurnGoneInv DEF PostBack
<1>3. CASE /\ posted' = OnceMore(posted, e, u) /\ gone' = gone
           /\ Done(w, e) \/ UNCHANGED countVars
  <2> HIDE DEF e
  <2>1. /\ delivered \in [Entries -> [Users -> Nat]] /\ posted \in [Entries -> [Users -> Nat]]
        /\ gone' \subseteq Entries \X Users
    BY <1>1, <1>3 DEF TypeOK
  <2>2. /\ posted' \in [Entries -> [Users -> Nat]]
        /\ \A f \in Entries, v \in Users : posted'[f][v] = posted[f][v] + Same(f, v, e, u)
    <3>1. posted' = OnceMore(posted, e, u)
      BY <1>3
    <3> QED BY <1>1, <2>1, <3>1, HistoryAdds
  <2>3. ASSUME NEW f \in Entries, NEW v \in Users
        PROVE  /\ Settled(f, v)' <=> Settled(f, v) \/ <<f, v>> = <<e, u>>
               /\ posted'[f][v] + One(<<f, v>> \in gone')
                    = posted[f][v] + One(<<f, v>> \in gone) + Same(f, v, e, u)
    <3>1. delivered'[f][v] = delivered[f][v]
      BY DEF PostBack
    <3>2. PICK d \in Nat, p \in Nat : d = delivered[f][v] /\ p = posted[f][v]
      <4>1. delivered[f] \in [Users -> Nat] /\ posted[f] \in [Users -> Nat]
        BY <2>1
      <4> QED BY <4>1
    <3>3. PICK n \in {0, 1} : n = Same(f, v, e, u) /\ (n = 1 <=> <<f, v>> = <<e, u>>)
      BY DEF Same, One
    <3>4. posted'[f][v] = p + n
      BY <2>2, <3>2, <3>3
    <3>5. Settled(f, v) <=> d + p > 0
      BY <3>2 DEF Settled
    <3>6. Settled(f, v)' <=> d + (p + n) > 0
      BY <3>1, <3>2, <3>4 DEF Settled
    <3>7. d + (p + n) > 0 <=> d + p > 0 \/ n = 1
      OBVIOUS
    <3>8. PICK k \in Nat : k = One(<<f, v>> \in gone) /\ k = One(<<f, v>> \in gone')
      BY <1>3, OneType
    <3>9. (p + n) + k = p + k + n
      OBVIOUS
    <3> QED BY <3>2, <3>3, <3>4, <3>5, <3>6, <3>7, <3>8, <3>9
  <2>4. lastRead' = lastRead
    BY DEF PostBack, streamVars
  <2>5. Done(w, e) \/ UNCHANGED countVars
    BY <1>3
  <2>6. /\ Counts' /\ UNCHANGED <<pending, table, ackIds>>
        /\ call' \in [Callers -> Entries \cup {NoEntry}]
    BY <1>1, <2>3, <2>4, <2>5, SettlesCounts
  <2> QED BY <2>1, <2>2, <2>3, <2>6, TurnInv DEF PostBack, e
<1> QED BY <1>2, <1>3 DEF PostBack, NotPosted
--------------------------------------------------------------------------------
(* The writers and the heartbeats *)

\* The changed writer is u's.
LEMMA WriterMoves ==
  ASSUME IInv, NEW u \in Users, NEW x \in WriterType, writer' = [writer EXCEPT ![u] = x],
         WriterOK(u, x)
  PROVE  /\ writer' \in [Users -> WriterType] /\ \A v \in Users : WriterOK(v, writer'[v])
         /\ writer'[u] = x /\ \A v \in Users \ {u} : writer'[v] = writer[v]
BY DEF IInv, TypeInv, TypeOK

\* A writer goes on with the item it has.
LEMMA WriterGoesInv ==
  ASSUME IInv, NEW u \in Users, NEW x \in WriterType, writer' = [writer EXCEPT ![u] = x],
         WriterOK(u, x), x.entry = writer[u].entry, loop' \in [Loops -> LoopType],
         \A l \in Loops : LoopOK(loop'[l]), Batches' = Batches,
         UNCHANGED <<streamVars, up, crashes, isPulling, taskChan, worker, beat, channel,
                     totalPending, countVars, rec, history>>
  PROVE  IInv'
<1>1. /\ writer' \in [Users -> WriterType] /\ \A v \in Users : WriterOK(v, writer'[v])
      /\ writer'[u] = x /\ \A v \in Users \ {u} : writer'[v] = writer[v]
  BY WriterMoves
<1>2. TypeInv'
  BY <1>1
  DEF IInv, TypeInv, TypeOK, streamVars, countVars, history, ItemsOf, WriterOK
<1>3. \A v \in Users : writer'[v].entry = writer[v].entry
  BY <1>1
<1>4. ASSUME NEW f \in Entries, NEW v \in Targets[f] PROVE Held(f, v)' = Held(f, v)
  <2>1. v \in Users
    BY TargetsType
  <2>2. One(writer[v].entry = f)' = One(writer[v].entry = f)
    BY <1>3, <2>1 DEF One
  <2>3. CopiesAmong(Batches, f)' = CopiesAmong(Batches, f)
    BY DEF CopiesAmong, Spots
  <2> QED BY <2>2, <2>3 DEF Held, Copies, Where, Dealing
<1> QED BY <1>2, <1>4, KeepsInv DEF streamVars, countVars, history

LEMMA LoopsKept ==
  ASSUME IInv, loop' = loop
  PROVE  /\ loop' \in [Loops -> LoopType] /\ \A l \in Loops : LoopOK(loop'[l])
         /\ Batches' = Batches
BY DEF IInv, TypeInv, TypeOK, Batches

LEMMA AskInv ==
  ASSUME IInv, NEW u \in Users, AskPulling(u) \/ AskRoom(u)
  PROVE  IInv'
<1>1. writer[u] \in WriterType /\ WriterOK(u, writer[u]) /\ writer[u].pc # "select"
  BY ChannelTypes DEF AskPulling, AskRoom, WriterAt
<1>2. PICK p \in {"room", "load", "write"} : writer' = [writer EXCEPT ![u].pc = p]
  BY DEF AskPulling, AskRoom, WriterTo
<1> DEFINE x == [writer[u] EXCEPT !.pc = p]
<1>3. /\ x \in WriterType /\ WriterOK(u, x) /\ x.entry = writer[u].entry
      /\ writer' = [writer EXCEPT ![u] = x]
  BY <1>1, <1>2 DEF WriterType, WriterOK
<1> HIDE DEF x
<1>4. /\ loop' \in [Loops -> LoopType] /\ \A l \in Loops : LoopOK(loop'[l])
      /\ Batches' = Batches
  BY LoopsKept DEF AskPulling, AskRoom, pullVars
<1> QED BY <1>3, <1>4, WriterGoesInv DEF AskPulling, AskRoom, pullVars

LEMMA AskLoadInv ==
  ASSUME IInv, NEW u \in Users, AskLoad(u)
  PROVE  IInv'
<1>1. writer[u] \in WriterType /\ WriterOK(u, writer[u]) /\ writer[u].pc # "select"
  BY ChannelTypes DEF AskLoad, WriterAt
<1> DEFINE x == [writer[u] EXCEPT !.pc = "write"]
<1>2. /\ x \in WriterType /\ WriterOK(u, x) /\ x.entry = writer[u].entry
      /\ writer' = [writer EXCEPT ![u] = x]
  BY <1>1 DEF AskLoad, WriterTo, WriterType, WriterOK
<1> HIDE DEF x
<1>3. /\ loop' \in [Loops -> LoopType] /\ \A l \in Loops : LoopOK(loop'[l])
      /\ Batches' = Batches
  <2>1. CASE loop' = loop
    BY <2>1, LoopsKept
  <2>2. ASSUME NEW l \in Loops, loop[l].pc = "off", loop' = [loop EXCEPT ![l].pc = "start"]
        PROVE  /\ loop' \in [Loops -> LoopType] /\ \A k \in Loops : LoopOK(loop'[k])
               /\ Batches' = Batches
    <3> DEFINE y == [loop[l] EXCEPT !.pc = "start"]
    <3>1. loop \in [Loops -> LoopType] /\ \A k \in Loops : LoopOK(loop[k])
      BY DEF IInv, TypeInv, TypeOK
    <3>2. /\ y \in LoopType /\ y.batch = loop[l].batch /\ LoopOK(y)
          /\ loop' = [loop EXCEPT ![l] = y]
      BY <2>2, <3>1 DEF LoopType, LoopOK
    <3> HIDE DEF y
    <3> QED BY <3>1, <3>2 DEF Batches
  <2> QED BY <2>1, <2>2 DEF AskLoad
<1> QED BY <1>2, <1>3, WriterGoesInv DEF AskLoad

\* An item moves from the channel to the writer.
LEMMA ReceiveInv ==
  ASSUME IInv, NEW u \in Users, Receive(u)
  PROVE  IInv'
<1> DEFINE c == channel[u]
           i == Head(c)
           x == [pc |-> "pulling", entry |-> i]
<1>1. /\ TypeOK /\ channel \in [Users -> Seq(Entries \cup {Ping})]
      /\ c \in Seq(ItemsOf(u)) /\ c \in Seq(Entries \cup {Ping}) /\ c # << >>
      /\ writer[u].pc = "select" /\ WriterOK(u, writer[u])
  BY ChannelTypes DEF IInv, TypeInv, TypeOK, Receive, WriterAt
<1>2. /\ Tail(c) \in Seq(ItemsOf(u)) /\ i \in ItemsOf(u) /\ Tail(c) \in Seq(Entries \cup {Ping})
      /\ i \in Entries \cup {Ping}
  BY <1>1, HeadTailProperties
<1>3. writer' = [writer EXCEPT ![u] = x] /\ channel' = [channel EXCEPT ![u] = Tail(c)]
  BY DEF Receive
<1> HIDE DEF c, i
<1>4. x \in WriterType /\ WriterOK(u, x) /\ x.entry = i
  BY <1>2, Items DEF WriterType, WriterOK
<1> HIDE DEF x
<1>5. /\ writer' \in [Users -> WriterType] /\ \A v \in Users : WriterOK(v, writer'[v])
      /\ writer'[u] = x /\ \A v \in Users \ {u} : writer'[v] = writer[v]
  BY <1>3, <1>4, WriterMoves
<1>6. /\ channel' \in [Users -> Seq(Entries \cup {Ping})]
      /\ \A v \in Users : channel'[v] \in Seq(ItemsOf(v))
      /\ channel'[u] = Tail(c) /\ \A v \in Users \ {u} : channel'[v] = channel[v]
  BY <1>1, <1>2, <1>3, ChannelTypes
<1>7. totalPending' \in Int
  BY <1>1 DEF TypeOK, Receive
<1>8. TypeInv'
  BY <1>5, <1>6, <1>7
  DEF IInv, TypeInv, TypeOK, Receive, streamVars, pullVars, countVars, history, ItemsOf, WriterOK
<1>9. ASSUME NEW f \in Entries, NEW v \in Targets[f] PROVE Held(f, v)' = Held(f, v)
  <2>1. v \in Users
    BY TargetsType
  <2>2. /\ CopiesAmong(Batches, f)' = CopiesAmong(Batches, f)
        /\ Copies(taskChan, f)' = Copies(taskChan, f)
        /\ Dealing(f, v)' = Dealing(f, v)
        /\ Copies(channel[v], f)' = Copies(channel'[v], f)
        /\ One(writer[v].entry = f)' = One(writer'[v].entry = f)
    BY DEF Receive, pullVars, Copies, Where, CopiesAmong, Spots, Batches, Dealing, One
  <2>3. CASE v # u
    BY <1>5, <1>6, <2>1, <2>2, <2>3 DEF Held
  <2>4. CASE v = u
    <3>1. Copies(c, f) = Copies(Tail(c), f) + IF i = f THEN 1 ELSE 0
      BY <1>1, CopiesTail DEF i
    <3>2. One(writer[u].entry = f) = 0
      BY <1>1, Constants DEF WriterOK, One
    <3>3. One(writer'[u].entry = f) = IF i = f THEN 1 ELSE 0
      BY <1>4, <1>5 DEF One
    <3>4. Copies(Tail(c), f) \in Nat
      BY <1>2, CopiesType
    <3>5. PICK a \in Nat, b \in Nat, e \in Nat, d \in Nat, n \in Nat :
            /\ a = CopiesAmong(Batches, f) /\ b = Copies(taskChan, f)
            /\ e = Cardinality(Dealing(f, u)) /\ d = Copies(Tail(c), f)
            /\ n = IF i = f THEN 1 ELSE 0
      BY <1>1, <2>1, <3>4, HeldType
    <3>6. Held(f, u) = a + b + e + (d + n) + 0
      BY <3>1, <3>2, <3>5 DEF Held, c
    <3>7. Held(f, u)' = a + b + e + d + n
      BY <1>6, <2>2, <2>4, <3>3, <3>5 DEF Held
    <3>8. a + b + e + (d + n) + 0 = a + b + e + d + n
      OBVIOUS
    <3> QED BY <2>4, <3>6, <3>7, <3>8
  <2> QED BY <2>3, <2>4
<1> QED BY <1>8, <1>9, KeepsInv DEF Receive, streamVars, countVars, history

LEMMA WriteInv ==
  ASSUME IInv, NEW u \in Users, Write(u)
  PROVE  IInv'
<1> DEFINE e == writer[u].entry
<1>1. /\ TypeOK /\ WriterOK(u, writer[u]) /\ writer[u].pc = "write" /\ e # Ping
  BY ChannelTypes DEF IInv, TypeInv, Write, WriterAt
<1>2. e \in Entries /\ u \in Targets[e]
  BY <1>1, Items DEF WriterOK, ItemsOf
<1>3. Reading \in WriterType /\ WriterOK(u, Reading) /\ Reading.entry = NoEntry
  BY DEF Reading, WriterType, WriterOK
<1>4. writer' = [writer EXCEPT ![u] = Reading]
  BY DEF Write
<1>5. delivered' = OnceMore(delivered, e, u) /\ Done(u, e)
  BY DEF Write
<1>6. /\ writer' \in [Users -> WriterType] /\ \A v \in Users : WriterOK(v, writer'[v])
      /\ writer'[u] = Reading /\ \A v \in Users \ {u} : writer'[v] = writer[v]
  BY <1>3, <1>4, WriterMoves
<1>8. \A f \in Entries, v \in Users :
        One(writer[v].entry = f) = One(writer'[v].entry = f) + Same(f, v, e, u)
  BY <1>3, <1>6, Constants DEF One, Same
<1> HIDE DEF e
<1>9. Held(e, u) > 0
  <2>1. One(writer[u].entry = e) = 1
    BY DEF One, e
  <2>2. PICK a \in Nat, b \in Nat, c \in Nat, d \in Nat :
          /\ a = CopiesAmong(Batches, e) /\ b = Copies(taskChan, e)
          /\ c = Cardinality(Dealing(e, u)) /\ d = Copies(channel[u], e)
    BY <1>1, HeldType
  <2>3. a + b + c + d + 1 > 0
    OBVIOUS
  <2> QED BY <2>1, <2>2, <2>3 DEF Held
<1>10. ~ Settled(e, u)
  BY <1>2, <1>9, HeldOnce
<1>11. /\ delivered \in [Entries -> [Users -> Nat]] /\ posted \in [Entries -> [Users -> Nat]]
  BY <1>1 DEF TypeOK
<1>12. /\ delivered' \in [Entries -> [Users -> Nat]]
       /\ \A f \in Entries, v \in Users : delivered'[f][v] = delivered[f][v] + Same(f, v, e, u)
  BY <1>2, <1>5, <1>11, HistoryAdds
<1>13. ASSUME NEW f \in Entries, NEW v \in Users
       PROVE  Settled(f, v)' <=> Settled(f, v) \/ <<f, v>> = <<e, u>>
  <2>1. posted'[f][v] = posted[f][v]
    BY DEF Write
  <2>2. PICK d \in Nat, p \in Nat : d = delivered[f][v] /\ p = posted[f][v]
    <3>1. delivered[f] \in [Users -> Nat] /\ posted[f] \in [Users -> Nat]
      BY <1>11
    <3> QED BY <3>1
  <2>3. PICK n \in {0, 1} : n = Same(f, v, e, u) /\ (n = 1 <=> <<f, v>> = <<e, u>>)
    BY DEF Same, One
  <2>4. delivered'[f][v] = d + n
    BY <1>12, <2>2, <2>3
  <2>5. Settled(f, v) <=> d + p > 0
    BY <2>2 DEF Settled
  <2>6. Settled(f, v)' <=> (d + n) + p > 0
    BY <2>1, <2>2, <2>4 DEF Settled
  <2>7. (d + n) + p > 0 <=> d + p > 0 \/ n = 1
    OBVIOUS
  <2> QED BY <2>3, <2>5, <2>6, <2>7
<1>14. Free(u) /\ u \in Callers /\ lastRead' = lastRead
  BY IdsType DEF Write, WriterAt, streamVars
<1>15. /\ Counts' /\ UNCHANGED <<pending, table, ackIds>>
       /\ call' \in [Callers -> Entries \cup {NoEntry}]
  BY <1>2, <1>5, <1>10, <1>13, <1>14, SettlesCounts
<1>16. TypeInv'
  BY <1>6, <1>12, <1>15
  DEF IInv, TypeInv, TypeOK, Write, streamVars, pullVars, ItemsOf, WriterOK
<1>17. ASSUME NEW f \in Entries, NEW v \in Targets[f] PROVE Balance(f, v)'
  <2>1. v \in Users
    BY TargetsType
  <2>2. PICK n \in Nat, g \in Nat, g2 \in Nat :
          /\ n = Same(f, v, e, u) /\ g = One(writer[v].entry = f)
          /\ g2 = One(writer'[v].entry = f) /\ g = g2 + n
    BY <1>8, <2>1, OneType DEF Same
  <2>3. PICK a \in Nat, b \in Nat, c \in Nat, d \in Nat :
          /\ a = CopiesAmong(Batches, f) /\ b = Copies(taskChan, f)
          /\ c = Cardinality(Dealing(f, v)) /\ d = Copies(channel[v], f)
    BY <1>1, <2>1, HeldType
  <2>4. /\ CopiesAmong(Batches, f)' = a /\ Copies(taskChan, f)' = b
        /\ Cardinality(Dealing(f, v))' = c /\ Copies(channel[v], f)' = d
        /\ One(writer[v].entry = f)' = g2
    BY <2>2, <2>3 DEF Write, pullVars, Copies, Where, CopiesAmong, Spots, Batches, Dealing, One
  <2>5. Held(f, v) = a + b + c + d + g /\ Held(f, v)' = a + b + c + d + g2
    BY <2>2, <2>3, <2>4 DEF Held
  <2>6. /\ posted'[f][v] = posted[f][v] /\ One(f <= lastRead)' = One(f <= lastRead)
        /\ One(<<f, v>> \in gone)' = One(<<f, v>> \in gone)
    BY DEF Write, streamVars, One
  <2>7. PICK y \in Nat, p \in Nat : y = delivered[f][v] /\ p = posted[f][v]
    <3>1. delivered[f] \in [Users -> Nat] /\ posted[f] \in [Users -> Nat]
      BY <1>11
    <3> QED BY <2>1, <3>1
  <2>8. PICK k \in Nat : k = One(<<f, v>> \in gone)
    BY OneType
  <2>9. delivered'[f][v] = y + n
    BY <1>12, <2>1, <2>2, <2>7
  <2>10. a + b + c + d + g2 + (y + n) + p + k = a + b + c + d + g + y + p + k
    BY <2>2
  <2>11. a + b + c + d + g + y + p + k = One(f <= lastRead)
    BY <2>5, <2>7, <2>8 DEF IInv, Balanced, Balance
  <2> QED BY <2>5, <2>6, <2>7, <2>8, <2>9, <2>10, <2>11 DEF Balance
<1> QED BY <1>15, <1>16, <1>17 DEF IInv, Balanced

LEMMA WritePingInv ==
  ASSUME IInv, NEW u \in Users, WritePing(u)
  PROVE  IInv'
<1>1. Reading \in WriterType /\ WriterOK(u, Reading) /\ Reading.entry = NoEntry
  BY DEF Reading, WriterType, WriterOK
<1>2. writer' = [writer EXCEPT ![u] = Reading] /\ writer[u].entry = Ping
  BY DEF WritePing
<1>3. /\ writer' \in [Users -> WriterType] /\ \A v \in Users : WriterOK(v, writer'[v])
      /\ writer'[u] = Reading /\ \A v \in Users \ {u} : writer'[v] = writer[v]
  BY <1>1, <1>2, WriterMoves
<1>4. TypeInv'
  BY <1>3
  DEF IInv, TypeInv, TypeOK, WritePing, streamVars, pullVars, countVars, history, ItemsOf, WriterOK
<1>5. \A f \in Entries, v \in Users : writer'[v].entry = f <=> writer[v].entry = f
  BY <1>1, <1>2, <1>3, Constants
<1>6. ASSUME NEW f \in Entries, NEW v \in Targets[f] PROVE Held(f, v)' = Held(f, v)
  <2>1. v \in Users
    BY TargetsType
  <2>2. One(writer[v].entry = f)' = One(writer[v].entry = f)
    BY <1>5, <2>1 DEF One
  <2> QED BY <2>2
      DEF WritePing, pullVars, Held, Copies, Where, CopiesAmong, Spots, Batches, Dealing
<1> QED BY <1>4, <1>6, KeepsInv DEF WritePing, streamVars, countVars, history

LEMMA BeatInv ==
  ASSUME IInv, NEW u \in Users, Beat(u)
  PROVE  IInv'
<1>1. /\ TypeOK /\ channel \in [Users -> Seq(Entries \cup {Ping})]
      /\ channel[u] \in Seq(ItemsOf(u)) /\ channel[u] \in Seq(Entries \cup {Ping})
  BY ChannelTypes DEF IInv, TypeInv, TypeOK
<1>2. Ping \in ItemsOf(u) /\ channel' = [channel EXCEPT ![u] = Append(channel[u], Ping)]
  BY DEF ItemsOf, Beat
<1>3. /\ Append(channel[u], Ping) \in Seq(ItemsOf(u))
      /\ Append(channel[u], Ping) \in Seq(Entries \cup {Ping})
  BY <1>1, <1>2, AppendProperties
<1>4. /\ channel' \in [Users -> Seq(Entries \cup {Ping})]
      /\ \A v \in Users : channel'[v] \in Seq(ItemsOf(v))
      /\ channel'[u] = Append(channel[u], Ping) /\ \A v \in Users \ {u} : channel'[v] = channel[v]
  BY <1>1, <1>2, <1>3, ChannelTypes
<1>5. TypeInv'
  BY <1>4
  DEF IInv, TypeInv, TypeOK, Beat, streamVars, pullVars, countVars, history, ItemsOf, WriterOK
<1>6. ASSUME NEW f \in Entries, NEW v \in Users
      PROVE  Copies(channel'[v], f) = Copies(channel[v], f)
  <2>1. CASE v = u
    <3>1. Copies(Append(channel[u], Ping), f) = Copies(channel[u], f) + IF Ping = f THEN 1 ELSE 0
      BY <1>1, CopiesAppend
    <3>2. Copies(channel[u], f) \in Nat
      BY <1>1, CopiesType
    <3>3. Ping # f
      BY Constants
    <3>4. Copies(Append(channel[u], Ping), f) = Copies(channel[u], f)
      BY <3>1, <3>2, <3>3
    <3>5. channel'[v] = Append(channel[u], Ping)
      BY <1>4, <2>1
    <3> QED BY <2>1, <3>4, <3>5
  <2>2. CASE v # u
    BY <1>4, <2>2
  <2> QED BY <2>1, <2>2
<1>7. ASSUME NEW f \in Entries, NEW v \in Targets[f] PROVE Held(f, v)' = Held(f, v)
  <2>1. v \in Users
    BY TargetsType
  <2>2. Copies(channel[v], f)' = Copies(channel'[v], f)
    BY DEF Copies, Where
  <2>3. Copies(channel[v], f)' = Copies(channel[v], f)
    BY <1>6, <2>1, <2>2
  <2>4. /\ CopiesAmong(Batches, f)' = CopiesAmong(Batches, f)
        /\ Copies(taskChan, f)' = Copies(taskChan, f)
        /\ Dealing(f, v)' = Dealing(f, v)
        /\ One(writer[v].entry = f)' = One(writer[v].entry = f)
    BY DEF Beat, pullVars, Copies, Where, CopiesAmong, Spots, Batches, Dealing, One
  <2> QED BY <2>3, <2>4 DEF Held
<1> QED BY <1>5, <1>7, KeepsInv DEF Beat, streamVars, countVars, history

LEMMA BeatIncInv ==
  ASSUME IInv, NEW u \in Users, BeatInc(u)
  PROVE  IInv'
<1>3. totalPending' \in Int /\ beat' \in [Users -> BOOLEAN]
  BY DEF IInv, TypeInv, TypeOK, BeatInc
<1>1. TypeInv'
  BY <1>3
  DEF IInv, TypeInv, TypeOK, BeatInc, streamVars, pullVars, countVars, history, ItemsOf, WriterOK
<1>2. UNCHANGED <<taskChan, worker, channel, writer>> /\ Batches' = Batches
  BY DEF BeatInc, pullVars, Batches
<1> QED BY <1>1, <1>2, HeldKept, KeepsInv DEF BeatInc, streamVars, countVars, history
--------------------------------------------------------------------------------
(* A gateway that starts, and one that ends *)

Fresh ==
  /\ loop = FirstLoops /\ taskChan = << >>
  /\ worker = [w \in Workers |-> NoWork]
  /\ channel = [u \in Users |-> << >>]
  /\ writer = [u \in Users |-> Reading]
  /\ call = [c \in Callers |-> NoEntry] /\ table = [i \in Ids |-> NoEntry] /\ ackIds = {}

\* A fresh gateway holds nothing.
Blank ==
  /\ loop \in [Loops -> LoopType] /\ \A l \in Loops : LoopOK(loop[l])
  /\ worker \in [Workers -> WorkerType] /\ \A w \in Workers : WorkerOK(worker[w])
  /\ channel \in [Users -> Seq(Entries \cup {Ping})]
  /\ writer \in [Users -> WriterType]
  /\ \A u \in Users : channel[u] \in Seq(ItemsOf(u)) /\ WriterOK(u, writer[u])
  /\ \A e \in Entries, u \in Users : Held(e, u) = 0
  /\ call \in [Callers -> Entries \cup {NoEntry}] /\ table \in [Ids -> Entries \cup {NoEntry}]
  /\ Counts

LEMMA FreshIsBlank == Fresh => Blank
<1> SUFFICES ASSUME Fresh PROVE Blank
  OBVIOUS
<1>1. ASSUME NEW l \in Loops
      PROVE  loop[l] \in LoopType /\ LoopOK(loop[l]) /\ loop[l].batch = << >>
  <2>1. NoLoop \in LoopType /\ LoopOK(NoLoop) /\ NoLoop.batch = << >>
    BY DEF NoLoop, LoopType, LoopOK
  <2>2. [NoLoop EXCEPT !.pc = "start"] = [pc |-> "start", batch |-> << >>]
    BY DEF NoLoop
  <2>3. LET x == [pc |-> "start", batch |-> << >>]
        IN  x \in LoopType /\ LoopOK(x) /\ x.batch = << >>
    BY DEF LoopType, LoopOK
  <2>4. loop[l] = NoLoop \/ loop[l] = [pc |-> "start", batch |-> << >>]
    BY <2>2 DEF Fresh, FirstLoops
  <2> QED BY <2>1, <2>3, <2>4
<1>2. loop \in [Loops -> LoopType]
  BY <1>1 DEF Fresh, FirstLoops
<1>3. /\ worker \in [Workers -> WorkerType]
      /\ \A w \in Workers : WorkerOK(worker[w]) /\ worker[w].entry = NoEntry
  BY DEF Fresh, NoWork, WorkerType, WorkerOK
<1>4. /\ channel \in [Users -> Seq(Entries \cup {Ping})]
      /\ \A u \in Users : channel[u] = << >> /\ channel[u] \in Seq(ItemsOf(u))
  BY DEF Fresh
<1>5. /\ writer \in [Users -> WriterType]
      /\ \A u \in Users : writer[u].entry = NoEntry /\ WriterOK(u, writer[u])
  BY DEF Fresh, Reading, WriterType, WriterOK
<1>6. ASSUME NEW e \in Entries, NEW u \in Users PROVE Held(e, u) = 0
  <2>1. \A l \in DOMAIN Batches : Batches[l] = << >>
    BY <1>1 DEF Batches
  <2>2. CopiesAmong(Batches, e) = 0
    BY <2>1, CopiesAmongEmpty
  <2>3. Copies(taskChan, e) = 0 /\ Copies(channel[u], e) = 0
    BY <1>4, CopiesEmpty DEF Fresh
  <2>4. Dealing(e, u) = {}
    BY <1>3, Constants DEF Dealing
  <2>5. Cardinality(Dealing(e, u)) = 0
    BY <2>4, FS_EmptySet
  <2>6. One(writer[u].entry = e) = 0
    BY <1>5, Constants DEF One
  <2> QED BY <2>2, <2>3, <2>5, <2>6 DEF Held
<1>7. /\ call \in [Callers -> Entries \cup {NoEntry}]
      /\ table \in [Ids -> Entries \cup {NoEntry}]
  BY DEF Fresh
<1>8. ASSUME NEW e \in Entries PROVE Counted(e)
  BY IdsType, Constants DEF Fresh, Counted, Live
<1>9. ASSUME NEW i \in Ids PROVE Backed(i) /\ Named(i) /\ Acked(i)
  <2>1. Calling(i) = {}
    BY DEF Fresh, Calling
  <2>2. Cardinality(Calling(i)) = 0 /\ Cardinality(SettledFor(i)) \in Nat
    BY <2>1, FS_EmptySet, SettledForType
  <2> QED BY <2>2 DEF Fresh, Backed, Named, Acked
<1> QED BY <1>1, <1>2, <1>3, <1>4, <1>5, <1>6, <1>7, <1>8, <1>9 DEF Blank, Counts

LEMMA InitInv == Init => IInv
<1> SUFFICES ASSUME Init PROVE IInv
  OBVIOUS
<1>1. Blank
  BY FreshIsBlank DEF Init, Fresh
<1>2. /\ \A e \in Entries : delivered[e] \in [Users -> Nat] /\ posted[e] \in [Users -> Nat]
      /\ \A e \in Entries, u \in Users : delivered[e][u] = 0 /\ posted[e][u] = 0
  BY DEF Init, NoneYet
<1>3. /\ delivered \in [Entries -> [Users -> Nat]] /\ posted \in [Entries -> [Users -> Nat]]
  BY <1>2 DEF Init
<1>4. /\ added \in 0 .. Size /\ lastRead \in 0 .. added /\ crashes \in 0 .. MaxCrashes
      /\ rec \in RecType /\ pending \in [Entries -> Int] /\ beat \in [Users -> BOOLEAN]
      /\ taskChan \in Seq(Entries) /\ Len(taskChan) <= ChanCap
  <2>1. MaxCrashes \in Nat
    BY StreamAssumption
  <2> QED BY <2>1, Constants DEF Init, Waiting, RecType
<1>5. TypeInv
  <2>1. /\ pel \subseteq Entries /\ idle \subseteq pel /\ totalPending \in Int
        /\ gone \subseteq Entries \X Users
    BY SMT DEF Init
  <2>4. up \in BOOLEAN /\ isPulling \in BOOLEAN
    BY Zenon DEF Init
  <2>2. /\ loop \in [Loops -> LoopType] /\ worker \in [Workers -> WorkerType]
        /\ channel \in [Users -> Seq(Entries \cup {Ping})]
        /\ writer \in [Users -> WriterType]
        /\ call \in [Callers -> Entries \cup {NoEntry}]
        /\ table \in [Ids -> Entries \cup {NoEntry}]
    BY <1>1 DEF Blank
  <2>3. TypeOK
    BY <1>3, <1>4, <2>1, <2>2, <2>4 DEF TypeOK
  <2> QED BY <1>1, <2>3 DEF Blank, TypeInv
<1>6. ASSUME NEW e \in Entries, NEW u \in Targets[e] PROVE Balance(e, u)
  <2>1. u \in Users
    BY TargetsType
  <2>2. Held(e, u) = 0 /\ delivered[e][u] = 0 /\ posted[e][u] = 0
    BY <1>1, <1>2, <2>1 DEF Blank
  <2>3. One(<<e, u>> \in gone) = 0
    BY DEF Init, One
  <2>4. One(e <= lastRead) = 0
    BY Constants DEF Init, One, Entries
  <2> QED BY <2>2, <2>3, <2>4 DEF Balance
<1>7. Counts
  BY <1>1 DEF Blank
<1> QED BY <1>5, <1>6, <1>7 DEF IInv, Balanced

LEMMA CrashInv ==
  ASSUME IInv, Crash
  PROVE  IInv'
<1>1. Blank'
  <2>1. (Fresh => Blank)'
    BY FreshIsBlank, PTL
  <2>2. Fresh'
    BY DEF Crash, Fresh
  <2> QED BY <2>1, <2>2
<1>2. TypeOK
  BY DEF IInv, TypeInv
<1>3. crashes' \in 0 .. MaxCrashes
  <2>1. MaxCrashes \in Nat
    BY StreamAssumption
  <2> QED BY <1>2, <2>1 DEF TypeOK, Crash
<1>4. gone' = gone \cup {p \in Pairs(1 .. lastRead) : ~ Settled(p[1], p[2])}
  BY DEF Crash
<1>5. gone' \subseteq Entries \X Users
  <2>1. 1 .. lastRead \subseteq Entries
    BY <1>2, Constants DEF TypeOK, Entries
  <2> QED BY <1>2, <1>4, <2>1 DEF TypeOK, Pairs
<1>6. /\ taskChan' \in Seq(Entries) /\ Len(taskChan') <= ChanCap
      /\ beat' \in [Users -> BOOLEAN] /\ pending' \in [Entries -> Int]
  BY Constants DEF Crash
<1>7. TypeInv'
  <2>1. /\ added' \in 0 .. Size /\ lastRead' \in 0 .. added' /\ pel' \subseteq Entries
        /\ idle' \subseteq pel' /\ rec' \in RecType
        /\ delivered' \in [Entries -> [Users -> Nat]]
        /\ posted' \in [Entries -> [Users -> Nat]]
    BY <1>2 DEF TypeOK, Crash, streamVars
  <2>2. up' \in BOOLEAN /\ isPulling' \in BOOLEAN
    BY Zenon DEF Crash
  <2>5. totalPending' \in Int
    BY SMT DEF Crash
  <2>3. /\ loop' \in [Loops -> LoopType] /\ worker' \in [Workers -> WorkerType]
        /\ channel' \in [Users -> Seq(Entries \cup {Ping})]
        /\ writer' \in [Users -> WriterType]
        /\ call' \in [Callers -> Entries \cup {NoEntry}]
        /\ table' \in [Ids -> Entries \cup {NoEntry}]
    BY <1>1 DEF Blank
  <2>4. TypeOK'
    BY <1>3, <1>5, <1>6, <2>1, <2>2, <2>3, <2>5 DEF TypeOK
  <2> QED BY <1>1, <2>4 DEF Blank, TypeInv, ItemsOf, WriterOK
<1>8. ASSUME NEW e \in Entries, NEW u \in Targets[e] PROVE Balance(e, u)'
  <2>1. u \in Users
    BY TargetsType
  <2>2. Held(e, u)' = 0
    BY <1>1, <2>1 DEF Blank
  <2>3. /\ delivered'[e][u] = delivered[e][u] /\ posted'[e][u] = posted[e][u]
        /\ lastRead' = lastRead
    BY DEF Crash, streamVars
  <2>4. PICK d \in Nat, p \in Nat : d = delivered[e][u] /\ p = posted[e][u]
    <3>1. delivered[e] \in [Users -> Nat] /\ posted[e] \in [Users -> Nat]
      BY <1>2 DEF TypeOK
    <3> QED BY <2>1, <3>1
  <2>5. PICK h \in Nat, n \in {0, 1}, r \in {0, 1} :
          /\ h = Held(e, u)
          /\ n = One(<<e, u>> \in gone) /\ (n = 1 <=> <<e, u>> \in gone)
          /\ r = One(e <= lastRead) /\ (r = 1 <=> e <= lastRead)
    BY <1>2, <2>1, HeldType DEF One
  <2>6. h + d + p + n = r
    BY <2>4, <2>5 DEF IInv, Balanced, Balance
  <2>7. Settled(e, u) <=> d + p > 0
    BY <2>4 DEF Settled
  <2>8. <<e, u>> \in Pairs(1 .. lastRead) <=> e <= lastRead
    BY <1>2, <2>1, Constants DEF TypeOK, Pairs, Entries
  <2>9. <<e, u>> \in gone' <=> n = 1 \/ (r = 1 /\ ~ (d + p > 0))
    BY <1>4, <2>5, <2>7, <2>8
  <2>10. PICK n2 \in {0, 1} : n2 = One(<<e, u>> \in gone') /\ (n2 = 1 <=> <<e, u>> \in gone')
    BY DEF One
  <2>11. 0 + d + p + n2 = r
    <3>1. CASE r = 0
      BY <2>6, <2>9, <2>10, <3>1
    <3>2. CASE r = 1
      BY <2>6, <2>9, <2>10, <3>2
    <3> QED BY <3>1, <3>2
  <2>12. One(<<e, u>> \in gone)' = n2 /\ One(e <= lastRead)' = r
    BY <2>3, <2>5, <2>10 DEF One
  <2> QED BY <2>2, <2>3, <2>4, <2>11, <2>12 DEF Balance
<1>9. Counts'
  BY <1>1 DEF Blank
<1> QED BY <1>7, <1>8, <1>9 DEF IInv, Balanced
--------------------------------------------------------------------------------
(* The theorems *)

LEMMA StepInv == IInv /\ [Next]_vars => IInv'
<1> SUFFICES ASSUME IInv, [Next]_vars PROVE IInv'
  OBVIOUS
<1>1. CASE Add
  BY <1>1, AddInv
<1>2. ASSUME NEW e \in Entries, Age(e) PROVE IInv'
  BY <1>2, AgeInv
<1>3. ASSUME NEW l \in Loops, LoopStep(l) PROVE IInv'
  BY <1>3, LoopStartInv, CheckInv, ReadInv, ReadNothingInv, PutInv, ReturnInv DEF LoopStep
<1>4. ASSUME NEW w \in Workers, WorkerStep(w) PROVE IInv'
  BY <1>4, TakeTaskInv, IncInv, CountDownInv, EnqueueInv, OverflowInv, PostBackInv, IdsType
  DEF WorkerStep
<1>5. ASSUME NEW u \in Users, WriterStep(u) PROVE IInv'
  BY <1>5, ReceiveInv, AskInv, AskLoadInv, WriteInv, WritePingInv, CountDownInv, IdsType
  DEF WriterStep
<1>6. ASSUME NEW u \in Users, BeatStep(u) PROVE IInv'
  BY <1>6, BeatInv, BeatIncInv DEF BeatStep
<1>7. CASE Flush
  BY <1>7, FlushInv
<1>8. CASE Crash
  BY <1>8, CrashInv
<1>9. CASE Restart
  BY <1>9, RestartInv
<1>10. CASE Reclaim
  BY <1>10, ReclaimInv
<1>11. CASE UNCHANGED vars
  <2>1. UNCHANGED <<streamVars, up, crashes, pullVars, workVars, rec, history>>
    BY <1>11 DEF vars
  <2>2. TypeInv'
    BY <2>1
    DEF IInv, TypeInv, TypeOK, streamVars, pullVars, workVars, countVars, history, ItemsOf, WriterOK
  <2> QED BY <2>1, <2>2, StillInv DEF streamVars, pullVars
<1> QED BY <1>1, <1>2, <1>3, <1>4, <1>5, <1>6, <1>7, <1>8, <1>9, <1>10, <1>11 DEF Next

\* The inductive invariant: types, one place for every target of an entry that was
\* read, and counts that have gone down at most once for each settled target of the
\* message id, however many entries share the id and whichever count a call found.
THEOREM Invariant == Spec => []IInv
<1>1. Init => IInv
  BY InitInv
<1>2. IInv /\ [Next]_vars => IInv'
  BY StepInv
<1> QED BY <1>1, <1>2, PTL DEF Spec

\* For any number of users, loops and workers: taskChan keeps its bound, and the table
\* and the calls of DoneN know only counts that some Init made.
THEOREM TypeCorrect == Spec => []TypeOK
<1>1. IInv => TypeOK
  BY DEF IInv, TypeInv
<1> QED BY <1>1, Invariant, PTL

\* Nothing that was read is forgotten or in two places, whatever loops run at a time
\* and wherever the gateway crashes.
THEOREM NothingLost == Spec => []Accounted
<1>1. IInv => Accounted
  <2> SUFFICES ASSUME IInv, NEW e \in 1 .. lastRead, NEW u \in Targets[e]
               PROVE  Held(e, u) + delivered[e][u] + posted[e][u] + One(<<e, u>> \in gone) = 1
    BY DEF Accounted
  <2>1. e \in Entries /\ One(e <= lastRead) = 1
    BY Constants DEF IInv, TypeInv, TypeOK, Entries, One
  <2> QED BY <2>1 DEF IInv, Balanced, Balance
<1> QED BY <1>1, Invariant, PTL

\* An id reaches the ack cache only when as many targets as an entry with that id has
\* have the message or had it posted back: all of them, if no other entry has the id.
THEOREM AcksAreSound == Spec => []AckCached
<1>1. IInv => AckCached
  BY DEF IInv, Counts, Acked, AckCached
<1> QED BY <1>1, Invariant, PTL
================================================================================
