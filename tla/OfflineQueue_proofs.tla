-------------------------- MODULE OfflineQueue_proofs --------------------------
(* Proofs about OfflineQueue. *)
EXTENDS OfflineQueue, Counting_proofs

\* The worker of Send: it adds to a gateway's stream, and is done with what it has put
\* in the local channel.
SndOK(m) ==
  /\ snd[m].pc = "xadd" => snd[m].to \in Gateways
  /\ m \in local => snd[m].pc = "done"

\* A replay has nothing in hand before it pops, has pops left exactly while it pops,
\* and adds to a gateway's stream.
RepOK(w) ==
  /\ w.pc \in {"off", "len"} => w.acc = << >>
  /\ w.pc = "pop" <=> w.left # 0
  /\ w.pc = "xadd" => w.to \in Gateways

TypeInv == TypeOK /\ (\A m \in Msgs : SndOK(m)) /\ \A r \in Replays : RepOK(rep[r])

\* The copies at each place, of which InHands adds up three.
AtSend(m) == IF snd[m].pc = "done" THEN 0 ELSE 1
Posted == [g \in Gateways |-> gwk[g].msgs]
Read == [r \in Replays |-> rep[r].acc]
AtGateways(m) == CopiesAmong(Posted, m)
AtReplays(m) == CopiesAmong(Read, m)

Balance(m) ==
  AtSend(m) + AtGateways(m) + AtReplays(m) + OnList(m) + OnStreams(m) + Parked(m)
    + delivered[m] + gone[m] = 1 + dup[m]

IInv == TypeInv /\ \A m \in Msgs : Balance(m)

MsgsOf(q) == [i \in DOMAIN q |-> q[i].msgs]
--------------------------------------------------------------------------------
(* What is counted are numbers. *)

LEMMA EntryMsgs ==
  ASSUME NEW q \in Seq(ListEntry)
  PROVE  /\ MsgsOf(q) \in Seq(Seq(Msgs)) /\ Len(MsgsOf(q)) = Len(q)
         /\ \A e \in ListEntry : MsgsOf(Append(q, e)) = Append(MsgsOf(q), e.msgs)
         /\ q # << >> => /\ MsgsOf(q) # << >> /\ Head(q) \in ListEntry
                         /\ Head(MsgsOf(q)) = Head(q).msgs
                         /\ Tail(MsgsOf(q)) = MsgsOf(Tail(q))
<1> DEFINE ms == MsgsOf(q)
<1>1. Len(q) \in Nat /\ DOMAIN q = 1 .. Len(q) /\ \A i \in 1 .. Len(q) : q[i] \in ListEntry
  BY LenProperties
<1>2. ms \in Seq(Seq(Msgs)) /\ Len(ms) = Len(q) /\ \A i \in 1 .. Len(q) : ms[i] = q[i].msgs
  BY <1>1 DEF MsgsOf, ListEntry
<1>3. ASSUME NEW e \in ListEntry PROVE MsgsOf(Append(q, e)) = Append(ms, e.msgs)
  BY <1>1, <1>2 DEF MsgsOf, ListEntry
<1>4. ASSUME q # << >>
      PROVE  /\ ms # << >> /\ Head(q) \in ListEntry /\ Head(ms) = Head(q).msgs
             /\ Tail(ms) = MsgsOf(Tail(q))
  <2>1. Len(q) > 0 /\ Len(q) # 0
    BY <1>1, <1>4, EmptySeq
  <2>2. ms # << >> /\ Head(q) \in ListEntry /\ Head(ms) = Head(q).msgs
    BY <1>1, <1>2, <2>1
  <2>3. Tail(ms) = MsgsOf(Tail(q))
    BY <1>1, <1>2, <2>1 DEF MsgsOf
  <2> QED BY <2>2, <2>3
<1> QED BY <1>2, <1>3, <1>4

LEMMA OnListOfMsgs == \A m : OnList(m) = CopiesAmong(MsgsOf(list), m)
BY DEF OnList, MsgsOf

LEMMA Numbers ==
  ASSUME TypeOK, NEW m \in Msgs
  PROVE  /\ AtSend(m) \in Nat /\ AtGateways(m) \in Nat /\ AtReplays(m) \in Nat
         /\ OnList(m) \in Nat /\ OnStreams(m) \in Nat /\ Parked(m) \in Nat
         /\ delivered[m] \in Nat /\ gone[m] \in Nat /\ dup[m] \in Nat
<1>1. Posted \in Lists(Gateways, Msgs) /\ Read \in Lists(Replays, Msgs)
  BY DEF Posted, Read, Lists, TypeOK, RepType, PostType
<1>2. AtGateways(m) \in Nat /\ AtReplays(m) \in Nat
  BY <1>1, OfflineAssumption, CopiesAmongType DEF AtGateways, AtReplays
<1>3. OnList(m) \in Nat
  <2>1. MsgsOf(list) \in Seq(Seq(Msgs))
    BY EntryMsgs DEF TypeOK
  <2> QED BY <2>1, ListsOfSeq, OnListOfMsgs
<1>4. OnStreams(m) \in Nat
  <2> DEFINE f == [g \in Gateways |-> Spots(stream[g], m)]
  <2>1. FiniteSetsOf(Gateways, f)
    BY ListsOfSeq DEF FiniteSetsOf, TypeOK
  <2> HIDE DEF f
  <2>2. SizeAmong(f) \in Nat
    BY <2>1, OfflineAssumption, SizeType
  <2> QED BY <2>2 DEF OnStreams, f
<1> QED BY <1>2, <1>3, <1>4 DEF AtSend, Parked, TypeOK
--------------------------------------------------------------------------------
(* What a change of one place does to the types and to the copies there. *)

LEMMA SendMoves ==
  ASSUME TypeInv, NEW m \in Msgs, NEW w \in SndType, w.pc = "xadd" => w.to \in Gateways,
         snd' = [snd EXCEPT ![m] = w], local' = local, m \notin local \/ w.pc = "done"
  PROVE  /\ snd' \in [Msgs -> SndType]
         /\ \A n \in Msgs : SndOK(n)'
         /\ \A n \in Msgs \ {m} : AtSend(n)' = AtSend(n)
         /\ AtSend(m)' = IF w.pc = "done" THEN 0 ELSE 1
BY DEF TypeInv, TypeOK, SndOK, AtSend

LEMMA PostMoves ==
  ASSUME TypeOK, NEW g \in Gateways, NEW w \in PostType, gwk' = [gwk EXCEPT ![g] = w]
  PROVE  /\ gwk' \in [Gateways -> PostType]
         /\ \A m \in Msgs :
              AtGateways(m)' = AtGateways(m) - Copies(gwk[g].msgs, m) + Copies(w.msgs, m)
<1>1. gwk \in [Gateways -> PostType] /\ gwk' \in [Gateways -> PostType]
  BY DEF TypeOK, PostType
<1>2. Posted \in Lists(Gateways, Msgs) /\ Posted' \in Lists(Gateways, Msgs)
  BY <1>1 DEF Posted, Lists, PostType
<1>3. SameBut(Posted', Posted, Gateways, g) /\ Posted[g] = gwk[g].msgs /\ Posted'[g] = w.msgs
  BY <1>1 DEF SameBut, Posted
<1>4. ASSUME NEW m \in Msgs
      PROVE  AtGateways(m)' = AtGateways(m) - Copies(gwk[g].msgs, m) + Copies(w.msgs, m)
  <2>1. CopiesAmong(Posted', m)
          = CopiesAmong(Posted, m) - Copies(Posted[g], m) + Copies(Posted'[g], m)
    BY <1>2, <1>3, OfflineAssumption, CopiesAmongDiffer
  <2> QED BY <1>3, <2>1 DEF AtGateways
<1> QED BY <1>1, <1>4

LEMMA ReplayMoves ==
  ASSUME TypeInv, NEW r \in Replays, NEW w \in RepType, RepOK(w),
         rep' = [rep EXCEPT ![r] = w]
  PROVE  /\ rep' \in [Replays -> RepType]
         /\ \A s \in Replays : RepOK(rep'[s])
         /\ \A m \in Msgs :
              AtReplays(m)' = AtReplays(m) - Copies(rep[r].acc, m) + Copies(w.acc, m)
<1>1. rep \in [Replays -> RepType] /\ rep' \in [Replays -> RepType]
  BY DEF TypeInv, TypeOK
<1>2. Read \in Lists(Replays, Msgs) /\ Read' \in Lists(Replays, Msgs)
  BY <1>1 DEF Read, Lists, RepType
<1>3. SameBut(Read', Read, Replays, r) /\ Read[r] = rep[r].acc /\ Read'[r] = w.acc
  BY <1>1 DEF SameBut, Read
<1>4. ASSUME NEW m \in Msgs
      PROVE  AtReplays(m)' = AtReplays(m) - Copies(rep[r].acc, m) + Copies(w.acc, m)
  <2>1. CopiesAmong(Read', m)
          = CopiesAmong(Read, m) - Copies(Read[r], m) + Copies(Read'[r], m)
    BY <1>2, <1>3, OfflineAssumption, CopiesAmongDiffer
  <2> QED BY <1>3, <2>1 DEF AtReplays
<1>5. \A s \in Replays : RepOK(rep'[s])
  BY <1>1 DEF TypeInv
<1> QED BY <1>1, <1>4, <1>5

LEMMA ListGrows ==
  ASSUME TypeOK, NEW e \in ListEntry, NEW o, list' = Pushed(list, e, o)
  PROVE  /\ list' \in Seq(ListEntry)
         /\ \A m \in Msgs :
              OnList(m)' = OnList(m) + IF o = "failed" THEN 0 ELSE Copies(e.msgs, m)
<1>1. list \in Seq(ListEntry)
  BY DEF TypeOK
<1>2. CASE o = "failed"
  BY <1>1, <1>2, Numbers DEF Pushed, OnList
<1>3. CASE o # "failed"
  <2>1. list' = Append(list, e)
    BY <1>3 DEF Pushed
  <2>2. list' \in Seq(ListEntry)
    BY <1>1, <2>1
  <2>3. MsgsOf(list') = Append(MsgsOf(list), e.msgs) /\ MsgsOf(list) \in Seq(Seq(Msgs))
    BY <1>1, <2>1, EntryMsgs
  <2>4. e.msgs \in Seq(Msgs)
    BY DEF ListEntry
  <2>5. \A m : CopiesAmong(MsgsOf(list'), m) = CopiesAmong(MsgsOf(list), m) + Copies(e.msgs, m)
    BY <2>3, <2>4, CopiesAmongAppend
  <2>6. \A m : /\ OnList(m) = CopiesAmong(MsgsOf(list), m)
              /\ OnList(m)' = CopiesAmong(MsgsOf(list'), m)
    BY DEF OnList, MsgsOf
  <2> QED BY <1>3, <2>2, <2>5, <2>6
<1> QED BY <1>2, <1>3

LEMMA ListShrinks ==
  ASSUME TypeOK, NEW o, list' = Popped(list, o)
  PROVE  /\ list' \in Seq(ListEntry)
         /\ \A m \in Msgs :
              OnList(m) = OnList(m)' + IF o = "failed" \/ list = << >> THEN 0
                                       ELSE Copies(Head(list).msgs, m)
<1>1. list \in Seq(ListEntry)
  BY DEF TypeOK
<1>2. CASE o = "failed" \/ list = << >>
  <2>1. list' = list
    BY <1>2 DEF Popped
  <2>2. \A m \in Msgs : OnList(m)' = OnList(m) /\ OnList(m) \in Nat
    BY <2>1, Numbers DEF OnList
  <2> QED BY <1>1, <1>2, <2>1, <2>2
<1>3. CASE ~ (o = "failed" \/ list = << >>)
  <2>1. list' = Tail(list) /\ list # << >>
    BY <1>3 DEF Popped
  <2>2. list' \in Seq(ListEntry)
    BY <1>1, <2>1
  <2>3. /\ MsgsOf(list') = Tail(MsgsOf(list)) /\ MsgsOf(list) \in Seq(Seq(Msgs))
        /\ MsgsOf(list) # << >> /\ Head(MsgsOf(list)) = Head(list).msgs
    BY <1>1, <2>1, EntryMsgs
  <2>4. \A m : CopiesAmong(MsgsOf(list), m)
                 = CopiesAmong(MsgsOf(list'), m) + Copies(Head(list).msgs, m)
    BY <2>3, CopiesAmongTail
  <2>5. \A m : /\ OnList(m) = CopiesAmong(MsgsOf(list), m)
              /\ OnList(m)' = CopiesAmong(MsgsOf(list'), m)
    BY DEF OnList, MsgsOf
  <2> QED BY <1>3, <2>2, <2>4, <2>5
<1> QED BY <1>2, <1>3

\* A stream is replaced by q.
LEMMA StreamMoves ==
  ASSUME TypeOK, NEW g \in Gateways, NEW q \in Seq(Seq(Msgs)),
         stream' = [stream EXCEPT ![g] = q]
  PROVE  /\ stream' \in [Gateways -> Seq(Seq(Msgs))]
         /\ \A m \in Msgs :
              OnStreams(m)' = OnStreams(m) - CopiesAmong(stream[g], m) + CopiesAmong(q, m)
<1>1. /\ stream \in [Gateways -> Seq(Seq(Msgs))] /\ stream' \in [Gateways -> Seq(Seq(Msgs))]
      /\ stream'[g] = q
  BY DEF TypeOK
<1>2. ASSUME NEW m \in Msgs
      PROVE  OnStreams(m)' = OnStreams(m) - CopiesAmong(stream[g], m) + CopiesAmong(q, m)
  <2> DEFINE a == [k \in Gateways |-> Spots(stream[k], m)]
             b == [k \in Gateways |-> Spots(stream'[k], m)]
  <2>1. FiniteSetsOf(Gateways, a) /\ FiniteSetsOf(Gateways, b)
    BY <1>1, ListsOfSeq DEF FiniteSetsOf
  <2>2. SameBut(b, a, Gateways, g)
    BY <1>1 DEF SameBut
  <2>3. a[g] = Spots(stream[g], m) /\ b[g] = Spots(q, m)
    BY <1>1
  <2>4. OnStreams(m) = SizeAmong(a) /\ OnStreams(m)' = SizeAmong(b)
    BY DEF OnStreams
  <2> HIDE DEF a, b
  <2>5. SizeAmong(b) = SizeAmong(a) - Cardinality(a[g]) + Cardinality(b[g])
    BY <2>1, <2>2, OfflineAssumption, SizeDiffer
  <2> QED BY <2>3, <2>4, <2>5 DEF CopiesAmong
<1> QED BY <1>1, <1>2

LEMMA StreamGrows ==
  ASSUME TypeOK, NEW g \in Gateways, NEW ms \in Seq(Msgs), NEW o,
         stream' = [stream EXCEPT ![g] = Pushed(@, ms, o)]
  PROVE  /\ stream' \in [Gateways -> Seq(Seq(Msgs))]
         /\ \A m \in Msgs :
              OnStreams(m)' = OnStreams(m) + IF o = "failed" THEN 0 ELSE Copies(ms, m)
<1> DEFINE q == Pushed(stream[g], ms, o)
<1>1. stream[g] \in Seq(Seq(Msgs)) /\ q \in Seq(Seq(Msgs))
  BY DEF TypeOK, Pushed
<1>2. stream' = [stream EXCEPT ![g] = q]
  OBVIOUS
<1>3. ASSUME NEW m \in Msgs
      PROVE  CopiesAmong(q, m) = CopiesAmong(stream[g], m)
                                 + IF o = "failed" THEN 0 ELSE Copies(ms, m)
  <2>1. CopiesAmong(stream[g], m) \in Nat
    BY <1>1, ListsOfSeq
  <2>2. CopiesAmong(Append(stream[g], ms), m) = CopiesAmong(stream[g], m) + Copies(ms, m)
    BY <1>1, CopiesAmongAppend
  <2> QED BY <2>1, <2>2 DEF Pushed
<1> HIDE DEF q
<1>4. /\ stream' \in [Gateways -> Seq(Seq(Msgs))]
      /\ \A m \in Msgs :
           OnStreams(m)' = OnStreams(m) - CopiesAmong(stream[g], m) + CopiesAmong(q, m)
  BY <1>1, <1>2, StreamMoves
<1>5. ASSUME NEW m \in Msgs
      PROVE  OnStreams(m)' = OnStreams(m) + IF o = "failed" THEN 0 ELSE Copies(ms, m)
  <2>1. /\ OnStreams(m) \in Nat /\ CopiesAmong(stream[g], m) \in Nat
        /\ Copies(ms, m) \in Nat
    BY <1>1, Numbers, ListsOfSeq, CopiesType
  <2> QED BY <1>3, <1>4, <2>1
<1> QED BY <1>4, <1>5

LEMMA StreamShrinks ==
  ASSUME TypeOK, NEW g \in Gateways, stream[g] # << >>,
         stream' = [stream EXCEPT ![g] = Tail(@)]
  PROVE  /\ stream' \in [Gateways -> Seq(Seq(Msgs))]
         /\ Head(stream[g]) \in Seq(Msgs)
         /\ \A m \in Msgs : OnStreams(m)' = OnStreams(m) - Copies(Head(stream[g]), m)
<1> DEFINE q == Tail(stream[g])
<1>1. stream[g] \in Seq(Seq(Msgs)) /\ q \in Seq(Seq(Msgs)) /\ Head(stream[g]) \in Seq(Msgs)
  BY HeadTailProperties DEF TypeOK
<1>2. \A m \in Msgs :
        CopiesAmong(stream[g], m) = CopiesAmong(q, m) + Copies(Head(stream[g]), m)
  BY <1>1, CopiesAmongTail
<1>3. stream' = [stream EXCEPT ![g] = q]
  OBVIOUS
<1> HIDE DEF q
<1>4. /\ stream' \in [Gateways -> Seq(Seq(Msgs))]
      /\ \A m \in Msgs :
           OnStreams(m)' = OnStreams(m) - CopiesAmong(stream[g], m) + CopiesAmong(q, m)
  BY <1>1, <1>3, StreamMoves
<1>5. ASSUME NEW m \in Msgs PROVE OnStreams(m)' = OnStreams(m) - Copies(Head(stream[g]), m)
  <2>1. /\ OnStreams(m) \in Nat /\ CopiesAmong(q, m) \in Nat
        /\ Copies(Head(stream[g]), m) \in Nat
    BY <1>1, Numbers, ListsOfSeq, CopiesType
  <2> QED BY <1>2, <1>4, <2>1
<1> QED BY <1>1, <1>4, <1>5

\* The histories.
LEMMA CountMoves ==
  ASSUME NEW count \in [Msgs -> Nat], NEW ms \in Seq(Msgs)
  PROVE  /\ Plus(count, ms) \in [Msgs -> Nat]
         /\ \A m \in Msgs : Plus(count, ms)[m] = count[m] + Copies(ms, m)
<1>1. \A m \in Msgs : Copies(ms, m) \in Nat
  BY CopiesType
<1> QED BY <1>1 DEF Plus

LEMMA DupMoves ==
  ASSUME TypeOK, NEW ms \in Seq(Msgs), NEW o, dup' = Doubled(ms, o)
  PROVE  /\ dup' \in [Msgs -> Nat]
         /\ \A m \in Msgs : dup'[m] = dup[m] + IF o = "lost" THEN Copies(ms, m) ELSE 0
<1>1. dup \in [Msgs -> Nat]
  BY DEF TypeOK
<1>2. CASE o = "lost"
  BY <1>1, <1>2, CountMoves DEF Doubled
<1>3. CASE o # "lost"
  BY <1>1, <1>3 DEF Doubled
<1> QED BY <1>2, <1>3

LEMMA AttemptType ==
  ASSUME TypeOK, NEW o, Attempt(o)
  PROVE  troubles' \in 0 .. MaxTroubles
BY OfflineAssumption DEF TypeOK, Attempt, Trouble
--------------------------------------------------------------------------------
(* Every step keeps the types and the balance of copies. *)

LEMMA BalanceIsConserved == Conserved <=> \A m \in Msgs : Balance(m)
<1>1. ASSUME TRUE
      PROVE  \A m \in Msgs : InHands(m) = AtSend(m) + AtGateways(m) + AtReplays(m)
  BY DEF InHands, AtSend, AtGateways, AtReplays, Posted, Read
<1> QED BY <1>1 DEF Conserved, Balance

LEMMA Constants ==
  /\ Conns \in Nat /\ MaxTroubles \in Nat
  /\ Retry \in Nat /\ Retry > 0 /\ Posts \in Nat /\ Posts > 0
  /\ Notes \in Nat /\ Notes > 0 /\ Reports \in Nat /\ Reports > 0
BY OfflineAssumption

LEMMA Stages ==
  /\ NoReplay \in RepType /\ RepOK(NoReplay) /\ NoReplay.acc = << >>
  /\ Started \in RepType /\ RepOK(Started) /\ Started.acc = << >> /\ Started.pc = "len"
  /\ NoPost \in PostType /\ NoPost.msgs = << >>
  /\ \A ms \in Seq(Msgs), k \in 1 .. Posts :
       Posting(ms, k) \in PostType /\ Posting(ms, k).msgs = ms
  /\ Sending("done") \in SndType /\ Sending("done").pc = "done"
<1>1. NoReplay \in RepType /\ RepOK(NoReplay) /\ NoReplay.acc = << >>
  <2>1. << >> \in Seq(Msgs) /\ Nowhere \in Places
    BY DEF Places
  <2> QED BY <2>1 DEF NoReplay, RepType, RepOK
<1>2. 2 * Retry \in Nat
  BY Constants
<1>3. Started \in RepType
  BY <1>1, <1>2 DEF Started, RepType
<1>4. /\ Started.pc = "len" /\ Started.acc = NoReplay.acc /\ Started.left = NoReplay.left
      /\ NoReplay.left = 0
  BY <1>1 DEF Started, RepType, NoReplay
<1>5. NoPost \in PostType /\ NoPost.msgs = << >>
  BY Constants DEF NoPost, PostType
<1>6. \A ms \in Seq(Msgs), k \in 1 .. Posts :
        Posting(ms, k) \in PostType /\ Posting(ms, k).msgs = ms
  BY Constants DEF Posting, PostType
<1>7. Sending("done") \in SndType /\ Sending("done").pc = "done"
  BY DEF Sending, SndType, Places
<1> QED BY <1>1, <1>3, <1>4, <1>5, <1>6, <1>7 DEF RepOK

LEMMA InitInv == Init => IInv
<1> SUFFICES ASSUME Init PROVE IInv
  OBVIOUS
<1>1. TypeOK
  <2>1. link \in [1 .. Conns -> [gw : Places, tries : 0 .. Reports]]
    BY Constants DEF Init, Reported, Places
  <2>2. notes \in [1 .. Notes -> Nat]
    BY DEF Init
  <2>3. snd \in [Msgs -> SndType]
    BY DEF Init, Sending, SndType, Places
  <2>4. stream \in [Gateways -> Seq(Seq(Msgs))] /\ list \in Seq(ListEntry) /\ local \subseteq Msgs
    BY DEF Init
  <2>5. gwk \in [Gateways -> PostType] /\ rep \in [Replays -> RepType]
    BY Stages DEF Init
  <2>6. /\ at \in Places /\ conns \in 0 .. Conns /\ route \in Places /\ cache \in Places
        /\ troubles \in 0 .. MaxTroubles
    BY Constants DEF Init, Places
  <2>7. delivered \in [Msgs -> Nat] /\ gone \in [Msgs -> Nat] /\ dup \in [Msgs -> Nat]
    BY DEF Init
  <2> QED BY <2>1, <2>2, <2>3, <2>4, <2>5, <2>6, <2>7 DEF TypeOK, PostType
<1>2. /\ \A m \in Msgs : SndOK(m)
      /\ \A r \in Replays : RepOK(rep[r])
  BY Stages DEF Init, SndOK, Sending
<1>3. ASSUME NEW m \in Msgs PROVE Balance(m)
  <2>1. AtGateways(m) = 0 /\ AtReplays(m) = 0
    <3>1. \A g \in DOMAIN Posted : Posted[g] = << >>
      BY Stages DEF Init, Posted
    <3>2. \A r \in DOMAIN Read : Read[r] = << >>
      BY Stages DEF Init, Read
    <3> QED BY <3>1, <3>2, CopiesAmongEmpty DEF AtGateways, AtReplays
  <2>2. OnList(m) = 0
    <3> DEFINE q == [i \in DOMAIN list |-> list[i].msgs]
    <3>1. \A i \in DOMAIN q : q[i] = << >>
      BY DEF Init
    <3> HIDE DEF q
    <3>2. CopiesAmong(q, m) = 0
      BY <3>1, CopiesAmongEmpty
    <3> QED BY <3>2 DEF OnList, q
  <2>3. OnStreams(m) = 0
    <3> DEFINE f == [g \in Gateways |-> Spots(stream[g], m)]
    <3>1. \A g \in DOMAIN f : f[g] = {}
      BY DEF Init, Spots
    <3> HIDE DEF f
    <3>2. SizeAmong(f) = 0
      BY <3>1, SizeEmpty
    <3> QED BY <3>2 DEF OnStreams, f
  <2>4. AtSend(m) = 1 /\ Parked(m) = 0 /\ delivered[m] = 0 /\ gone[m] = 0 /\ dup[m] = 0
    BY DEF Init, AtSend, Sending, Parked
  <2> QED BY <2>1, <2>2, <2>3, <2>4 DEF Balance
<1> QED BY <1>1, <1>2, <1>3 DEF IInv, TypeInv

\* The steps that have no message in hand.
LEMMA Unmoved ==
  ASSUME IInv, UNCHANGED <<snd, stream, gwk, list, local, rep, history>>
  PROVE  /\ \A m \in Msgs : SndOK(m)'
         /\ \A r \in Replays : RepOK(rep'[r])
         /\ \A m \in Msgs : Balance(m)'
BY DEF IInv, TypeInv, SndOK, Balance, AtSend, AtGateways, AtReplays, Posted, Read, OnList,
       OnStreams, Parked, history

LEMMA UserInv ==
  ASSUME IInv, (\E g \in Gateways : Connect(g)) \/ Disconnect \/ RouteExpires \/ CacheExpires
  PROVE  IInv'
<1>1. UNCHANGED <<snd, stream, gwk, list, local, rep, history>>
  BY DEF Connect, Disconnect, RouteExpires, CacheExpires, history
<1>2. TypeOK
  BY DEF IInv, TypeInv
<1>3. TypeOK'
  <2>1. ASSUME NEW g \in Gateways, Connect(g) PROVE TypeOK'
    <3>1. /\ at' \in Places /\ conns' \in 0 .. Conns
          /\ link' \in [1 .. Conns -> [gw : Places, tries : 0 .. Reports]]
      <4> DEFINE w == [gw |-> g, tries |-> Reports]
      <4>1. w \in [gw : Places, tries : 0 .. Reports]
        BY Constants DEF Places
      <4>2. conns + 1 \in 1 .. Conns /\ link' = [link EXCEPT ![conns + 1] = w]
        BY <1>2, <2>1, Constants DEF Connect, TypeOK
      <4>3. at' \in Places /\ conns' = conns + 1
        BY <2>1 DEF Connect, Places
      <4> HIDE DEF w
      <4> QED BY <1>2, <4>1, <4>2, <4>3, Constants DEF TypeOK
    <3>2. UNCHANGED <<notes, route, cache, troubles>>
      BY <2>1 DEF Connect
    <3> QED BY <1>1, <1>2, <3>1, <3>2 DEF TypeOK, history
  <2>2. ASSUME Disconnect \/ RouteExpires \/ CacheExpires PROVE TypeOK'
    <3>1. at' \in Places /\ route' \in Places /\ cache' \in Places
      BY <1>2, <2>2 DEF Disconnect, RouteExpires, CacheExpires, TypeOK, Places, regVars
    <3>2. UNCHANGED <<conns, link, notes, troubles>>
      BY <2>2 DEF Disconnect, RouteExpires, CacheExpires, regVars
    <3> QED BY <1>1, <1>2, <3>1, <3>2 DEF TypeOK, history
  <2> QED BY <2>1, <2>2
<1> QED BY <1>1, <1>3, Unmoved DEF IInv, TypeInv

LEMMA ReportInv ==
  ASSUME IInv, NEW c \in 1 .. Conns, NEW o \in Outcomes, Report(c, o)
  PROVE  IInv'
<1>1. UNCHANGED <<snd, stream, gwk, list, local, rep, history>>
  BY DEF Report, history
<1>2. TypeOK
  BY DEF IInv, TypeInv
<1>3. troubles' \in 0 .. MaxTroubles
  BY <1>2, AttemptType DEF Report
<1>4. link' \in [1 .. Conns -> [gw : Places, tries : 0 .. Reports]]
  <2> DEFINE w == IF TriesAgain(o, link[c].tries) THEN Again(link[c]) ELSE Reported
  <2>1. link[c] \in [gw : Places, tries : 0 .. Reports] /\ link[c].tries > 0
    BY <1>2 DEF TypeOK, Report
  <2>2. w \in [gw : Places, tries : 0 .. Reports]
    BY <2>1, Constants DEF TriesAgain, Again, Reported, Places
  <2>3. link' = [link EXCEPT ![c] = w]
    BY DEF Report
  <2> HIDE DEF w
  <2> QED BY <1>2, <2>2, <2>3 DEF TypeOK
<1>5. route' \in Places /\ notes' \in [1 .. Notes -> Nat]
  <2>1. link[c].gw \in Places /\ notes \in [1 .. Notes -> Nat]
    BY <1>2 DEF TypeOK
  <2>2. Told \in [1 .. Notes -> Nat]
    BY <2>1, Constants DEF Told
  <2> QED BY <1>2, <2>1, <2>2 DEF Report, TypeOK
<1>6. UNCHANGED <<at, conns, cache>>
  BY DEF Report
<1>7. TypeOK'
  BY <1>1, <1>2, <1>3, <1>4, <1>5, <1>6 DEF TypeOK, history
<1> QED BY <1>1, <1>7, Unmoved DEF IInv, TypeInv

LEMMA ReportRefusedInv ==
  ASSUME IInv, NEW c \in 1 .. Conns, ReportRefused(c)
  PROVE  IInv'
<1>1. UNCHANGED <<snd, stream, gwk, list, local, rep, history>>
  BY DEF ReportRefused, history
<1>2. TypeOK
  BY DEF IInv, TypeInv
<1>3. troubles' \in 0 .. MaxTroubles
  BY <1>2, Constants DEF ReportRefused, Trouble, TypeOK
<1>4. link' \in [1 .. Conns -> [gw : Places, tries : 0 .. Reports]]
  <2> DEFINE w == IF link[c].tries > 1 THEN Again(link[c]) ELSE Reported
  <2>1. link[c] \in [gw : Places, tries : 0 .. Reports] /\ link[c].tries > 0
    BY <1>2 DEF TypeOK, ReportRefused
  <2>2. w \in [gw : Places, tries : 0 .. Reports]
    BY <2>1, Constants DEF Again, Reported, Places
  <2>3. link' = [link EXCEPT ![c] = w]
    BY DEF ReportRefused
  <2> HIDE DEF w
  <2> QED BY <1>2, <2>2, <2>3 DEF TypeOK
<1>5. route' \in Places
  BY <1>2 DEF TypeOK, ReportRefused
<1>6. UNCHANGED <<at, conns, notes, cache>>
  BY DEF ReportRefused
<1>7. TypeOK'
  BY <1>1, <1>2, <1>3, <1>4, <1>5, <1>6 DEF TypeOK, history
<1> QED BY <1>1, <1>7, Unmoved DEF IInv, TypeInv

LEMMA NotifyNobodyInv ==
  ASSUME IInv, NEW t \in 1 .. Notes, NotifyNobody(t)
  PROVE  IInv'
<1>1. UNCHANGED <<snd, stream, gwk, list, local, rep, history>>
  BY DEF NotifyNobody, history
<1>2. TypeOK
  BY DEF IInv, TypeInv
<1>3. troubles' \in 0 .. MaxTroubles /\ notes' \in [1 .. Notes -> Nat]
  BY <1>2, Constants DEF NotifyNobody, Trouble, TypeOK
<1>4. UNCHANGED <<at, conns, link, route, cache>>
  BY DEF NotifyNobody
<1>5. TypeOK'
  BY <1>1, <1>2, <1>3, <1>4 DEF TypeOK, history
<1> QED BY <1>1, <1>5, Unmoved DEF IInv, TypeInv

\* A step of one replay that leaves the messages in its hands there.
LEMMA ReplayKeeps ==
  ASSUME IInv, NEW r \in Replays, NEW w \in RepType, RepOK(w),
         rep' = [rep EXCEPT ![r] = w], w.acc = rep[r].acc,
         UNCHANGED <<snd, stream, gwk, list, local, history>>
  PROVE  /\ rep' \in [Replays -> RepType]
         /\ \A m \in Msgs : SndOK(m)'
         /\ \A s \in Replays : RepOK(rep'[s])
         /\ \A m \in Msgs : Balance(m)'
<1>1. TypeInv
  BY DEF IInv
<1>2. /\ rep' \in [Replays -> RepType]
      /\ \A s \in Replays : RepOK(rep'[s])
      /\ \A m \in Msgs :
           AtReplays(m)' = AtReplays(m) - Copies(rep[r].acc, m) + Copies(w.acc, m)
  BY <1>1, ReplayMoves
<1>3. ASSUME NEW m \in Msgs PROVE Balance(m)'
  <2>1. AtReplays(m) \in Nat /\ Copies(rep[r].acc, m) \in Nat
    <3>1. rep[r].acc \in Seq(Msgs)
      BY <1>1 DEF TypeInv, TypeOK, RepType
    <3> QED BY <1>1, <3>1, Numbers, CopiesType DEF TypeInv
  <2>2. AtReplays(m)' = AtReplays(m)
    BY <1>2, <2>1
  <2>3. /\ AtSend(m)' = AtSend(m) /\ AtGateways(m)' = AtGateways(m)
        /\ OnList(m)' = OnList(m) /\ OnStreams(m)' = OnStreams(m) /\ Parked(m)' = Parked(m)
        /\ UNCHANGED <<delivered, gone, dup>>
    BY DEF AtSend, AtGateways, Posted, OnList, OnStreams, Parked, history
  <2> QED BY <2>2, <2>3 DEF IInv, Balance
<1>4. \A m \in Msgs : SndOK(m)'
  BY <1>1 DEF TypeInv, SndOK
<1> QED BY <1>2, <1>3, <1>4

LEMMA NotifyInv ==
  ASSUME IInv, NEW t \in 1 .. Notes, NEW o \in Outcomes, Notify(t, o)
  PROVE  IInv'
<1>1. UNCHANGED <<snd, stream, gwk, list, local, history>>
  BY DEF Notify, history
<1>2. TypeOK
  BY DEF IInv, TypeInv
<1>3. troubles' \in 0 .. MaxTroubles
  BY <1>2, AttemptType DEF Notify
<1>4. notes' \in [1 .. Notes -> Nat]
  BY <1>2 DEF Notify, TypeOK, TriesAgain
<1>5. UNCHANGED <<at, conns, link, route, cache>>
  BY DEF Notify
<1>6. CASE o = "failed"
  <2>1. rep' = rep
    BY <1>6 DEF Notify
  <2>2. TypeOK'
    BY <1>1, <1>2, <1>3, <1>4, <1>5, <2>1 DEF TypeOK, history
  <2> QED BY <1>1, <2>1, <2>2, Unmoved DEF IInv, TypeInv
<1>7. CASE o # "failed"
  <2>1. PICK r \in FreeReplays : rep' = [rep EXCEPT ![r] = Started]
    BY <1>7 DEF Notify
  <2>2. r \in Replays /\ rep[r].acc = << >>
    BY DEF FreeReplays, IInv, TypeInv, RepOK
  <2>3. /\ rep' \in [Replays -> RepType]
        /\ \A m \in Msgs : SndOK(m)'
        /\ \A s \in Replays : RepOK(rep'[s])
        /\ \A m \in Msgs : Balance(m)'
    BY <1>1, <2>1, <2>2, Stages, ReplayKeeps
  <2>4. TypeOK'
    BY <1>1, <1>2, <1>3, <1>4, <1>5, <2>3 DEF TypeOK, history
  <2> QED BY <2>3, <2>4 DEF IInv, TypeInv
<1> QED BY <1>6, <1>7

LEMMA LookupType ==
  ASSUME TypeOK, NEW g \in Places, Lookup(g) \/ LookupFails(g) \/ BatchLookupFails(g)
  PROVE  cache' \in Places /\ troubles' \in 0 .. MaxTroubles
BY Constants DEF Lookup, LookupFails, BatchLookupFails, Trouble, TypeOK

LEMMA OneCopy ==
  \A m, n : Copies(<<m>>, n) = IF m = n THEN 1 ELSE 0
BY CopiesOne

LEMMA LookInv ==
  ASSUME IInv, NEW m \in Msgs, Look(m)
  PROVE  IInv'
<1>1. TypeInv /\ TypeOK
  BY DEF IInv, TypeInv
<1>2. PICK g \in Places :
        /\ Lookup(g) \/ BatchLookupFails(g)
        /\ snd' = [snd EXCEPT ![m] = [pc |-> IF g = Nowhere THEN "rpush" ELSE "xadd",
                                      to |-> g, tries |-> Retry]]
  BY DEF Look
<1> DEFINE w == [pc |-> IF g = Nowhere THEN "rpush" ELSE "xadd", to |-> g, tries |-> Retry]
<1>3. w \in SndType /\ (w.pc = "xadd" => w.to \in Gateways) /\ w.pc # "done"
  BY Constants DEF SndType, Places
<1>4. snd' = [snd EXCEPT ![m] = w]
  BY <1>2
<1> HIDE DEF w
<1>5. UNCHANGED <<regVars, stream, gwk, list, local, rep, history>> /\ snd[m].pc = "new"
  BY DEF Look
<1>6. m \notin local
  BY <1>1, <1>5 DEF TypeInv, SndOK
<1>7. /\ snd' \in [Msgs -> SndType] /\ \A n \in Msgs : SndOK(n)'
      /\ \A n \in Msgs \ {m} : AtSend(n)' = AtSend(n)
      /\ AtSend(m)' = 1
  BY <1>1, <1>3, <1>4, <1>5, <1>6, SendMoves
<1>8. cache' \in Places /\ troubles' \in 0 .. MaxTroubles
  BY <1>1, <1>2, LookupType
<1>9. TypeInv'
  BY <1>1, <1>5, <1>7, <1>8 DEF TypeInv, TypeOK, regVars, history
<1>10. ASSUME NEW n \in Msgs PROVE Balance(n)'
  <2>1. AtSend(n)' = AtSend(n)
    BY <1>5, <1>7 DEF AtSend
  <2>2. /\ AtGateways(n)' = AtGateways(n) /\ AtReplays(n)' = AtReplays(n)
        /\ OnList(n)' = OnList(n) /\ OnStreams(n)' = OnStreams(n) /\ Parked(n)' = Parked(n)
        /\ UNCHANGED <<delivered, gone, dup>>
    BY <1>5 DEF AtGateways, Posted, AtReplays, Read, OnList, OnStreams, Parked, history
  <2> QED BY <2>1, <2>2 DEF IInv, Balance
<1> QED BY <1>9, <1>10 DEF IInv

LEMMA XAddInv ==
  ASSUME IInv, NEW m \in Msgs, NEW o \in Outcomes, XAdd(m, o)
  PROVE  IInv'
<1>1. TypeInv /\ TypeOK
  BY DEF IInv, TypeInv
<1> DEFINE w == IF TriesAgain(o, snd[m].tries) THEN Again(snd[m])
                ELSE IF Answers(o) THEN Sending("done")
                ELSE [pc |-> "fallback", to |-> Nowhere, tries |-> Retry]
<1>2. /\ snd[m] \in SndType /\ snd[m].pc = "xadd" /\ snd[m].to \in Gateways
      /\ snd' = [snd EXCEPT ![m] = w]
      /\ UNCHANGED <<regVars, cache, gwk, list, local, rep, delivered, gone>>
  BY <1>1 DEF XAdd, TypeInv, TypeOK, SndOK
<1>3. w \in SndType /\ (w.pc = "xadd" => w.to \in Gateways) /\ (w.pc = "done" <=> o = "ok")
  <2>1. CASE TriesAgain(o, snd[m].tries)
    BY <1>2, <2>1 DEF TriesAgain, Again, SndType
  <2>2. CASE o = "ok"
    BY <2>2, Stages DEF TriesAgain, Answers
  <2>3. CASE ~ TriesAgain(o, snd[m].tries) /\ o # "ok"
    BY <2>3, Constants DEF Answers, SndType, Places
  <2> QED BY <2>1, <2>2, <2>3
<1>4. m \notin local
  BY <1>1, <1>2 DEF TypeInv, SndOK
<1> HIDE DEF w
<1>5. /\ snd' \in [Msgs -> SndType] /\ \A n \in Msgs : SndOK(n)'
      /\ \A n \in Msgs \ {m} : AtSend(n)' = AtSend(n)
      /\ AtSend(m)' = IF o = "ok" THEN 0 ELSE 1
  BY <1>1, <1>2, <1>3, <1>4, SendMoves
<1>6. troubles' \in 0 .. MaxTroubles
  BY <1>1, AttemptType DEF XAdd
<1>7. /\ stream' \in [Gateways -> Seq(Seq(Msgs))]
      /\ \A n \in Msgs : OnStreams(n)' = OnStreams(n)
                                         + IF o = "failed" THEN 0 ELSE Copies(<<m>>, n)
  <2> DEFINE ms == <<m>>
             g == snd[m].to
  <2>1. ms \in Seq(Msgs) /\ g \in Gateways /\ stream' = [stream EXCEPT ![g] = Pushed(@, ms, o)]
    BY <1>2 DEF XAdd
  <2> HIDE DEF ms, g
  <2>2. /\ stream' \in [Gateways -> Seq(Seq(Msgs))]
        /\ \A n \in Msgs : OnStreams(n)' = OnStreams(n) + IF o = "failed" THEN 0 ELSE Copies(ms, n)
    BY <1>1, <2>1, StreamGrows
  <2> QED BY <2>2 DEF ms
<1>8. /\ dup' \in [Msgs -> Nat]
      /\ \A n \in Msgs : dup'[n] = dup[n] + IF o = "lost" THEN Copies(<<m>>, n) ELSE 0
  <2> DEFINE ms == <<m>>
  <2>1. ms \in Seq(Msgs) /\ dup' = Doubled(ms, o)
    BY DEF XAdd
  <2> HIDE DEF ms
  <2>2. /\ dup' \in [Msgs -> Nat]
        /\ \A n \in Msgs : dup'[n] = dup[n] + IF o = "lost" THEN Copies(ms, n) ELSE 0
    BY <1>1, <2>1, DupMoves
  <2> QED BY <2>2 DEF ms
<1>9. TypeInv'
  BY <1>1, <1>2, <1>5, <1>6, <1>7, <1>8 DEF TypeInv, TypeOK, regVars
<1>10. ASSUME NEW n \in Msgs PROVE Balance(n)'
  <2>1. /\ AtGateways(n)' = AtGateways(n) /\ AtReplays(n)' = AtReplays(n)
        /\ OnList(n)' = OnList(n) /\ Parked(n)' = Parked(n)
        /\ delivered'[n] = delivered[n] /\ gone'[n] = gone[n]
    BY <1>2 DEF AtGateways, Posted, AtReplays, Read, OnList, Parked
  <2>2. /\ AtSend(n) \in Nat /\ OnStreams(n) \in Nat /\ dup[n] \in Nat
        /\ AtGateways(n) \in Nat /\ AtReplays(n) \in Nat /\ OnList(n) \in Nat
        /\ Parked(n) \in Nat /\ delivered[n] \in Nat /\ gone[n] \in Nat
    BY <1>1, Numbers
  <2>3. Balance(n)
    BY DEF IInv
  <2>4. CASE n = m
    <3>1. AtSend(n) = 1
      BY <1>2, <2>4 DEF AtSend
    <3>2. /\ AtSend(n)' = IF o = "ok" THEN 0 ELSE 1
          /\ OnStreams(n)' = OnStreams(n) + IF o = "failed" THEN 0 ELSE 1
          /\ dup'[n] = dup[n] + IF o = "lost" THEN 1 ELSE 0
      <4>1. Copies(<<m>>, n) = 1
        BY <2>4, OneCopy
      <4> QED BY <1>5, <1>7, <1>8, <2>4, <4>1
    <3> QED BY <2>1, <2>2, <2>3, <3>1, <3>2 DEF Balance, Outcomes
  <2>5. CASE n # m
    <3>1. /\ AtSend(n)' = AtSend(n) /\ OnStreams(n)' = OnStreams(n) /\ dup'[n] = dup[n]
      BY <1>5, <1>7, <1>8, <2>2, <2>5, OneCopy
    <3> QED BY <2>1, <2>3, <3>1 DEF Balance
  <2> QED BY <2>4, <2>5
<1> QED BY <1>9, <1>10 DEF IInv

LEMMA StoreInv ==
  ASSUME IInv, NEW m \in Msgs, NEW o \in Outcomes, Store(m, o)
  PROVE  IInv'
<1>1. TypeInv /\ TypeOK
  BY DEF IInv, TypeInv
<1> DEFINE w == IF TriesAgain(o, snd[m].tries) THEN Again(snd[m]) ELSE Sending("done")
           again == o = "lost" /\ snd[m].tries > 1
<1>2. /\ snd[m] \in SndType /\ snd[m].pc \notin {"xadd", "done"}
      /\ snd[m].tries \in Nat
      /\ snd' = [snd EXCEPT ![m] = w]
      /\ UNCHANGED <<regVars, cache, stream, gwk, rep, delivered>>
  BY <1>1 DEF Store, TypeOK, SndType
<1>3. w \in SndType /\ w.pc # "xadd" /\ (w.pc = "done" <=> ~ again)
  <2>1. CASE again
    BY <1>2, <2>1 DEF TriesAgain, Again, SndType
  <2>2. CASE ~ again
    BY <2>2, Stages DEF TriesAgain
  <2> QED BY <2>1, <2>2
<1>4. m \notin local
  BY <1>1, <1>2 DEF TypeInv, SndOK
<1>5. PICK p \in {0, 1}, x \in {0, 1} :
        /\ p + x = IF o = "ok" \/ again THEN 0 ELSE 1
        /\ local' = IF p = 1 THEN local \cup {m} ELSE local
        /\ gone' = IF x = 1 THEN Plus(gone, <<m>>) ELSE gone
  <2>1. GivesUp(o, snd[m].tries) <=> ~ (o = "ok" \/ again)
    BY <1>2 DEF GivesUp, Outcomes
  <2>2. CASE GivesUp(o, snd[m].tries) /\ snd[m].pc = "rpush"
    BY <2>1, <2>2 DEF Store
  <2>3. CASE GivesUp(o, snd[m].tries) /\ snd[m].pc = "fallback"
    BY <2>1, <2>3 DEF Store
  <2>4. CASE ~ GivesUp(o, snd[m].tries)
    BY <2>1, <2>4 DEF Store
  <2> QED BY <2>2, <2>3, <2>4 DEF Store
<1> HIDE DEF w, again
<1>6. /\ snd' \in [Msgs -> SndType] /\ \A n \in Msgs : SndOK(n)'
      /\ \A n \in Msgs \ {m} : AtSend(n)' = AtSend(n)
      /\ AtSend(m)' = IF again THEN 1 ELSE 0
  BY <1>1, <1>2, <1>3, <1>5 DEF TypeInv, TypeOK, SndOK, AtSend
<1>7. troubles' \in 0 .. MaxTroubles
  BY <1>1, AttemptType DEF Store
<1>8. /\ list' \in Seq(ListEntry)
      /\ \A n \in Msgs : OnList(n)' = OnList(n)
                                      + IF o = "failed" THEN 0 ELSE Copies(<<m>>, n)
  <2>1. Readable(<<m>>) \in ListEntry /\ Readable(<<m>>).msgs = <<m>>
    BY DEF Readable, ListEntry
  <2>2. list' = Pushed(list, Readable(<<m>>), o)
    BY DEF Store
  <2> QED BY <1>1, <2>1, <2>2, ListGrows
<1>9. /\ dup' \in [Msgs -> Nat]
      /\ \A n \in Msgs : dup'[n] = dup[n] + IF o = "lost" THEN Copies(<<m>>, n) ELSE 0
  <2> DEFINE ms == <<m>>
  <2>1. ms \in Seq(Msgs) /\ dup' = Doubled(ms, o)
    BY DEF Store
  <2> HIDE DEF ms
  <2>2. /\ dup' \in [Msgs -> Nat]
        /\ \A n \in Msgs : dup'[n] = dup[n] + IF o = "lost" THEN Copies(ms, n) ELSE 0
    BY <1>1, <2>1, DupMoves
  <2> QED BY <2>2 DEF ms
<1>10. /\ gone' \in [Msgs -> Nat]
       /\ \A n \in Msgs : gone'[n] = gone[n] + IF x = 1 THEN Copies(<<m>>, n) ELSE 0
  <2> DEFINE ms == <<m>>
  <2>1. ms \in Seq(Msgs) /\ gone \in [Msgs -> Nat] /\ gone' = IF x = 1 THEN Plus(gone, ms) ELSE gone
    BY <1>1, <1>5 DEF TypeOK
  <2> HIDE DEF ms
  <2>2. /\ gone' \in [Msgs -> Nat]
        /\ \A n \in Msgs : gone'[n] = gone[n] + IF x = 1 THEN Copies(ms, n) ELSE 0
    BY <2>1, CountMoves
  <2> QED BY <2>2 DEF ms
<1>11. TypeInv'
  BY <1>1, <1>2, <1>5, <1>6, <1>7, <1>8, <1>9, <1>10 DEF TypeInv, TypeOK, regVars
<1>12. ASSUME NEW n \in Msgs PROVE Balance(n)'
  <2>1. /\ AtGateways(n)' = AtGateways(n) /\ AtReplays(n)' = AtReplays(n)
        /\ OnStreams(n)' = OnStreams(n)
        /\ delivered'[n] = delivered[n]
    BY <1>2 DEF AtGateways, Posted, AtReplays, Read, OnStreams
  <2>2. /\ AtSend(n) \in Nat /\ OnStreams(n) \in Nat /\ dup[n] \in Nat
        /\ AtGateways(n) \in Nat /\ AtReplays(n) \in Nat /\ OnList(n) \in Nat
        /\ Parked(n) \in Nat /\ delivered[n] \in Nat /\ gone[n] \in Nat
    BY <1>1, Numbers
  <2>3. Balance(n)
    BY DEF IInv
  <2>4. CASE n = m
    <3>1. AtSend(n) = 1 /\ Parked(n) = 0
      BY <1>2, <1>4, <2>4 DEF AtSend, Parked
    <3>2. /\ AtSend(n)' = IF again THEN 1 ELSE 0
          /\ Parked(n)' = p
      BY <1>4, <1>5, <1>6, <2>4 DEF Parked
    <3>4. Copies(<<m>>, n) = 1
      BY <2>4, OneCopy
    <3>5. /\ gone'[n] = gone[n] + x
          /\ OnList(n)' = OnList(n) + IF o = "failed" THEN 0 ELSE 1
          /\ dup'[n] = dup[n] + IF o = "lost" THEN 1 ELSE 0
      BY <1>8, <1>9, <1>10, <2>2, <3>4
    <3>3. again => o = "lost"
      BY DEF again
    <3> QED BY <1>5, <2>1, <2>2, <2>3, <3>1, <3>2, <3>3, <3>5 DEF Balance, Outcomes
  <2>5. CASE n # m
    <3>1. Copies(<<m>>, n) = 0
      BY <2>5, OneCopy
    <3>2. AtSend(n)' = AtSend(n) /\ OnList(n)' = OnList(n) /\ dup'[n] = dup[n]
      BY <1>6, <1>8, <1>9, <2>2, <2>5, <3>1
    <3>4. gone'[n] = gone[n]
      BY <1>10, <2>2, <3>1
    <3>3. Parked(n)' = Parked(n)
      BY <1>5, <2>5 DEF Parked
    <3> QED BY <2>1, <2>3, <3>2, <3>3, <3>4 DEF Balance
  <2> QED BY <2>4, <2>5
<1> QED BY <1>11, <1>12 DEF IInv

LEMMA HandleInv ==
  ASSUME IInv, NEW g \in Gateways, Handle(g)
  PROVE  IInv'
<1>1. TypeInv /\ TypeOK
  BY DEF IInv, TypeInv
<1> DEFINE ms == Head(stream[g])
<1>2. /\ stream[g] # << >> /\ stream' = [stream EXCEPT ![g] = Tail(@)] /\ gwk[g].msgs = << >>
      /\ UNCHANGED <<regVars, cache, snd, list, local, rep, troubles, gone, dup>>
  BY Stages DEF Handle
<1>3. /\ stream' \in [Gateways -> Seq(Seq(Msgs))] /\ ms \in Seq(Msgs)
      /\ \A m \in Msgs : OnStreams(m)' = OnStreams(m) - Copies(ms, m)
  BY <1>1, <1>2, StreamShrinks
<1>4. \/ gwk' = gwk /\ delivered' = Plus(delivered, ms)
      \/ gwk' = [gwk EXCEPT ![g] = Posting(ms, Posts)] /\ delivered' = delivered
  BY DEF Handle
<1> HIDE DEF ms
<1>5. /\ gwk' \in [Gateways -> PostType] /\ delivered' \in [Msgs -> Nat]
      /\ \A m \in Msgs : AtGateways(m)' + delivered'[m]
                           = AtGateways(m) + delivered[m] + Copies(ms, m)
  <2>1. CASE gwk' = gwk /\ delivered' = Plus(delivered, ms)
    <3>1. gwk \in [Gateways -> PostType] /\ delivered \in [Msgs -> Nat]
      BY <1>1 DEF TypeOK, PostType
    <3>2. /\ delivered' \in [Msgs -> Nat]
          /\ \A m \in Msgs : delivered'[m] = delivered[m] + Copies(ms, m)
      BY <1>3, <2>1, <3>1, CountMoves
    <3>3. \A m : AtGateways(m)' = AtGateways(m)
      BY <2>1 DEF AtGateways, Posted
    <3>4. \A m \in Msgs : /\ AtGateways(m) \in Nat /\ delivered[m] \in Nat
                          /\ Copies(ms, m) \in Nat
      BY <1>1, <1>3, Numbers, CopiesType
    <3>5. ASSUME NEW m \in Msgs
          PROVE  AtGateways(m)' + delivered'[m] = AtGateways(m) + delivered[m] + Copies(ms, m)
      <4>1. AtGateways(m)' = AtGateways(m) /\ delivered'[m] = delivered[m] + Copies(ms, m)
        BY <3>2, <3>3
      <4> QED BY <3>4, <4>1
    <3> QED BY <2>1, <3>1, <3>2, <3>5
  <2>2. CASE gwk' = [gwk EXCEPT ![g] = Posting(ms, Posts)] /\ delivered' = delivered
    <3> DEFINE w == Posting(ms, Posts)
    <3>1. w \in PostType /\ w.msgs = ms
      BY <1>3, Constants, Stages
    <3>2. gwk' = [gwk EXCEPT ![g] = w]
      BY <2>2
    <3> HIDE DEF w
    <3>3. /\ gwk' \in [Gateways -> PostType]
          /\ \A m \in Msgs :
               AtGateways(m)' = AtGateways(m) - Copies(gwk[g].msgs, m) + Copies(w.msgs, m)
      BY <1>1, <3>1, <3>2, PostMoves
    <3>4. \A m \in Msgs : /\ AtGateways(m) \in Nat /\ delivered[m] \in Nat
                          /\ Copies(ms, m) \in Nat /\ Copies(gwk[g].msgs, m) = 0
      BY <1>1, <1>2, <1>3, Numbers, CopiesType, CopiesEmpty
    <3>5. \A m \in Msgs : AtGateways(m)' = AtGateways(m) + Copies(ms, m)
      BY <3>1, <3>3, <3>4
    <3> QED BY <1>1, <2>2, <3>3, <3>4, <3>5 DEF TypeOK
  <2> QED BY <1>4, <2>1, <2>2
<1>6. TypeInv'
  BY <1>1, <1>2, <1>3, <1>5 DEF TypeInv, TypeOK, SndOK, regVars, PostType
<1>7. ASSUME NEW m \in Msgs PROVE Balance(m)'
  <2>1. /\ AtSend(m)' = AtSend(m) /\ AtReplays(m)' = AtReplays(m)
        /\ OnList(m)' = OnList(m) /\ Parked(m)' = Parked(m)
        /\ gone'[m] = gone[m] /\ dup'[m] = dup[m]
    BY <1>2 DEF AtSend, AtReplays, Read, OnList, Parked
  <2>2. /\ AtSend(m) \in Nat /\ OnStreams(m) \in Nat /\ dup[m] \in Nat
        /\ AtGateways(m) \in Nat /\ AtReplays(m) \in Nat /\ OnList(m) \in Nat
        /\ Parked(m) \in Nat /\ delivered[m] \in Nat /\ gone[m] \in Nat
        /\ Copies(ms, m) \in Nat
    BY <1>1, <1>3, Numbers, CopiesType
  <2>3. Balance(m)
    BY DEF IInv
  <2>4. AtGateways(m)' \in Nat /\ delivered'[m] \in Nat
    <3>1. Posted' \in Lists(Gateways, Msgs)
      BY <1>5 DEF Posted, Lists, PostType
    <3>2. AtGateways(m)' \in Nat
      BY <3>1, OfflineAssumption, CopiesAmongType DEF AtGateways
    <3> QED BY <1>5, <3>2
  <2>5. /\ AtGateways(m)' + delivered'[m] = AtGateways(m) + delivered[m] + Copies(ms, m)
        /\ OnStreams(m)' = OnStreams(m) - Copies(ms, m)
    BY <1>3, <1>5
  <2> QED BY <2>1, <2>2, <2>3, <2>4, <2>5 DEF Balance
<1> QED BY <1>6, <1>7 DEF IInv

LEMMA GivesUpOrTries ==
  ASSUME NEW n \in Nat, NEW o \in Outcomes
  PROVE  /\ TriesAgain(o, n) => o = "lost" /\ n > 1
         /\ GivesUp(o, n) <=> o # "ok" /\ ~ TriesAgain(o, n)
BY DEF TriesAgain, GivesUp, Outcomes

\* What becomes of the messages a gateway has in hand: they stay there (h = 1), are
\* pushed (l = 1), or gone (x = 1), and one of these is one too many if they count as
\* doubled (d = 1).
PostMoved(g, w, h, l, x, d) ==
  /\ gwk' = [gwk EXCEPT ![g] = w]
  /\ w.msgs = IF h = 1 THEN gwk[g].msgs ELSE << >>
  /\ list' = IF l = 1 THEN Append(list, Readable(gwk[g].msgs)) ELSE list
  /\ gone' = IF x = 1 THEN Plus(gone, gwk[g].msgs) ELSE gone
  /\ dup' = IF d = 1 THEN Plus(dup, gwk[g].msgs) ELSE dup
  /\ h + l + x = 1 + d

LEMMA PostKeeps ==
  ASSUME IInv, NEW g \in Gateways, NEW w \in PostType,
         NEW h \in {0, 1}, NEW l \in {0, 1}, NEW x \in {0, 1}, NEW d \in {0, 1},
         PostMoved(g, w, h, l, x, d), troubles' \in 0 .. MaxTroubles,
         UNCHANGED <<regVars, cache, snd, stream, local, rep, delivered>>
  PROVE  IInv'
<1>1. TypeInv /\ TypeOK
  BY DEF IInv, TypeInv
<1> DEFINE ms == gwk[g].msgs
<1>2. /\ ms \in Seq(Msgs) /\ gwk' = [gwk EXCEPT ![g] = w]
      /\ w.msgs = IF h = 1 THEN ms ELSE << >>
      /\ list' = IF l = 1 THEN Append(list, Readable(ms)) ELSE list
      /\ gone' = IF x = 1 THEN Plus(gone, ms) ELSE gone
      /\ dup' = IF d = 1 THEN Plus(dup, ms) ELSE dup
      /\ h + l + x = 1 + d
  BY <1>1 DEF PostMoved, TypeOK, PostType
<1>3. /\ gwk' \in [Gateways -> PostType]
      /\ \A m \in Msgs : AtGateways(m)' = AtGateways(m) - Copies(ms, m) + Copies(w.msgs, m)
  BY <1>1, <1>2, PostMoves
<1> HIDE DEF ms
<1>4. /\ list' \in Seq(ListEntry)
      /\ \A m \in Msgs : OnList(m)' = OnList(m) + IF l = 1 THEN Copies(ms, m) ELSE 0
  <2>1. Readable(ms) \in ListEntry /\ Readable(ms).msgs = ms
    BY <1>2 DEF Readable, ListEntry
  <2>2. CASE l = 1
    <3>1. list' = Pushed(list, Readable(ms), "ok")
      BY <1>2, <2>2 DEF Pushed
    <3> QED BY <1>1, <2>1, <2>2, <3>1, ListGrows
  <2>3. CASE l = 0
    <3>1. list' = Pushed(list, Readable(ms), "failed")
      BY <1>2, <2>3 DEF Pushed
    <3>2. /\ list' \in Seq(ListEntry)
          /\ \A m \in Msgs : OnList(m)' = OnList(m) + 0
      BY <1>1, <2>1, <3>1, ListGrows
    <3> QED BY <2>3, <3>2
  <2> QED BY <2>2, <2>3
<1>5. /\ gone' \in [Msgs -> Nat] /\ dup' \in [Msgs -> Nat]
      /\ \A m \in Msgs : /\ gone'[m] = gone[m] + IF x = 1 THEN Copies(ms, m) ELSE 0
                         /\ dup'[m] = dup[m] + IF d = 1 THEN Copies(ms, m) ELSE 0
  <2>1. gone \in [Msgs -> Nat] /\ dup \in [Msgs -> Nat]
    BY <1>1 DEF TypeOK
  <2>2. ASSUME NEW count \in [Msgs -> Nat], NEW y \in {0, 1}, NEW other,
               other = IF y = 1 THEN Plus(count, ms) ELSE count
        PROVE  /\ other \in [Msgs -> Nat]
               /\ \A m \in Msgs : other[m] = count[m] + IF y = 1 THEN Copies(ms, m) ELSE 0
    BY <1>2, <2>2, CountMoves
  <2> QED BY <1>2, <2>1, <2>2
<1>6. TypeInv'
  BY <1>1, <1>3, <1>4, <1>5 DEF TypeInv, TypeOK, SndOK, regVars
<1>7. ASSUME NEW m \in Msgs PROVE Balance(m)'
  <2>1. /\ AtSend(m)' = AtSend(m) /\ AtReplays(m)' = AtReplays(m)
        /\ OnStreams(m)' = OnStreams(m) /\ Parked(m)' = Parked(m)
        /\ delivered'[m] = delivered[m]
    BY DEF AtSend, AtReplays, Read, OnStreams, Parked
  <2>2. PICK c \in Nat : c = Copies(ms, m)
    BY <1>2, CopiesType
  <2>3. /\ AtSend(m) \in Nat /\ OnStreams(m) \in Nat /\ dup[m] \in Nat
        /\ AtGateways(m) \in Nat /\ AtReplays(m) \in Nat /\ OnList(m) \in Nat
        /\ Parked(m) \in Nat /\ delivered[m] \in Nat /\ gone[m] \in Nat
    BY <1>1, Numbers
  <2>4. PICK n \in Int : n = AtSend(m) + AtReplays(m) + OnStreams(m) + Parked(m) + delivered[m]
    BY <2>3
  <2>5. n + AtGateways(m) + OnList(m) + gone[m] = 1 + dup[m]
    BY <2>3, <2>4 DEF IInv, Balance
  <2>6. Copies(w.msgs, m) = IF h = 1 THEN c ELSE 0
    BY <1>2, <2>2, CopiesEmpty
  <2>7. /\ AtGateways(m)' = AtGateways(m) - c + IF h = 1 THEN c ELSE 0
        /\ OnList(m)' = OnList(m) + IF l = 1 THEN c ELSE 0
        /\ gone'[m] = gone[m] + IF x = 1 THEN c ELSE 0
        /\ dup'[m] = dup[m] + IF d = 1 THEN c ELSE 0
    <3>1. AtGateways(m)' = AtGateways(m) - c + IF h = 1 THEN c ELSE 0
      BY <1>3, <2>2, <2>6
    <3>2. OnList(m)' = OnList(m) + IF l = 1 THEN c ELSE 0
      BY <1>4, <2>2
    <3>3. /\ gone'[m] = gone[m] + IF x = 1 THEN c ELSE 0
          /\ dup'[m] = dup[m] + IF d = 1 THEN c ELSE 0
      BY <1>5, <2>2
    <3> QED BY <3>1, <3>2, <3>3
  <2>8. PICK gm \in Int, lm \in Int, xm \in Int, dm \in Int :
          gm = AtGateways(m)' /\ lm = OnList(m)' /\ xm = gone'[m] /\ dm = dup'[m]
    <3>1. /\ (IF h = 1 THEN c ELSE 0) \in Int /\ (IF l = 1 THEN c ELSE 0) \in Int
          /\ (IF x = 1 THEN c ELSE 0) \in Int /\ (IF d = 1 THEN c ELSE 0) \in Int
      BY <2>2
    <3>2. AtGateways(m)' \in Int /\ OnList(m)' \in Int
      BY <2>2, <2>3, <2>7, <3>1
    <3>3. gone'[m] \in Int /\ dup'[m] \in Int
      BY <2>3, <2>7, <3>1
    <3> QED BY <3>2, <3>3
  <2>9. n + gm + lm + xm = 1 + dm
    <3>1. /\ gm = AtGateways(m) - c + IF h = 1 THEN c ELSE 0
          /\ lm = OnList(m) + IF l = 1 THEN c ELSE 0
          /\ xm = gone[m] + IF x = 1 THEN c ELSE 0
          /\ dm = dup[m] + IF d = 1 THEN c ELSE 0
      BY <2>7, <2>8
    <3>2. (IF h = 1 THEN c ELSE 0) + (IF l = 1 THEN c ELSE 0) + (IF x = 1 THEN c ELSE 0)
            = c + (IF d = 1 THEN c ELSE 0)
      BY <1>2, <2>2
    <3> QED BY <2>2, <2>3, <2>5, <3>1, <3>2
  <2>10. AtSend(m) + gm + AtReplays(m) + lm + OnStreams(m) + Parked(m) + delivered[m] + xm = 1 + dm
    BY <2>3, <2>4, <2>9
  <2> QED BY <2>1, <2>8, <2>10 DEF Balance
<1> QED BY <1>6, <1>7 DEF IInv

\* The next request, or none.
LEMMA PostAgainMoves ==
  ASSUME TypeOK, NEW g \in Gateways, PostAgain(g)
  PROVE  \E w \in PostType, h \in {0, 1}, x \in {0, 1} :
           /\ gwk' = [gwk EXCEPT ![g] = w]
           /\ w.msgs = IF h = 1 THEN gwk[g].msgs ELSE << >>
           /\ gone' = IF x = 1 THEN Plus(gone, gwk[g].msgs) ELSE gone
           /\ h + x = 1
<1>1. gwk[g] \in PostType
  BY DEF TypeOK
<1>2. gwk[g].msgs \in Seq(Msgs) /\ gwk[g].posts \in 0 .. Posts
  BY <1>1 DEF PostType
<1>3. CASE gwk[g].posts > 1
  <2> DEFINE w == Posting(gwk[g].msgs, gwk[g].posts - 1)
  <2>1. gwk[g].posts - 1 \in 1 .. Posts
    BY <1>2, <1>3, Constants
  <2>2. w \in PostType /\ w.msgs = gwk[g].msgs
    BY <1>2, <2>1, Stages
  <2>3. gwk' = [gwk EXCEPT ![g] = w] /\ gone' = gone
    BY <1>3 DEF PostAgain
  <2> HIDE DEF w
  <2> USE <2>2
  <2> WITNESS w \in PostType, 1 \in {0, 1}, 0 \in {0, 1}
  <2> QED BY <2>2, <2>3
<1>4. CASE ~ (gwk[g].posts > 1)
  <2>1. gwk' = [gwk EXCEPT ![g] = NoPost] /\ gone' = Plus(gone, gwk[g].msgs)
    BY <1>4 DEF PostAgain
  <2>2. NoPost \in PostType /\ NoPost.msgs = << >>
    BY Stages
  <2> USE <2>2
  <2> WITNESS NoPost \in PostType, 0 \in {0, 1}, 1 \in {0, 1}
  <2> QED BY <2>1, <2>2
<1> QED BY <1>3, <1>4

LEMMA PostBackInv ==
  ASSUME IInv, NEW g \in Gateways, NEW o \in Outcomes, PostBack(g, o)
  PROVE  IInv'
<1>1. TypeOK /\ gwk[g] \in PostType
  BY DEF IInv, TypeInv, TypeOK
<1>2. /\ troubles' \in 0 .. MaxTroubles
      /\ UNCHANGED <<regVars, cache, snd, stream, local, rep, delivered>>
  BY <1>1, AttemptType DEF PostBack
<1> DEFINE ms == gwk[g].msgs
<1>3. /\ list' = IF o = "failed" THEN list ELSE Append(list, Readable(ms))
      /\ dup' = IF o = "lost" THEN Plus(dup, ms) ELSE dup
  BY DEF PostBack, Pushed, Doubled
<1>4. CASE o = "ok"
  <2>1. gwk' = [gwk EXCEPT ![g] = NoPost] /\ gone' = gone
    BY <1>4 DEF PostBack, Answers, TriesAgain
  <2>2. PostMoved(g, NoPost, 0, 1, 0, 0)
    BY <1>3, <1>4, <2>1, Stages DEF PostMoved
  <2> QED BY <1>2, <2>2, Stages, PostKeeps
<1>5. CASE TriesAgain(o, gwk[g].tries)
  <2> DEFINE w == Again(gwk[g])
  <2>1. o = "lost" /\ gwk[g].tries > 1
    BY <1>5 DEF TriesAgain
  <2>2. gwk' = [gwk EXCEPT ![g] = w] /\ gone' = gone
    BY <1>5, <2>1 DEF PostBack, Answers
  <2>3. w \in PostType /\ w.msgs = ms
    <3>1. gwk[g].tries - 1 \in 0 .. Retry
      BY <1>1, <2>1, Constants DEF PostType
    <3>2. w = [gwk[g] EXCEPT !.tries = gwk[g].tries - 1]
      BY DEF Again
    <3> QED BY <1>1, <3>1, <3>2 DEF PostType
  <2> HIDE DEF w
  <2>4. PostMoved(g, w, 1, 1, 0, 1)
    BY <1>3, <2>1, <2>2, <2>3 DEF PostMoved
  <2> QED BY <1>2, <2>3, <2>4, PostKeeps
<1>6. CASE o # "ok" /\ ~ TriesAgain(o, gwk[g].tries)
  <2>1. PostAgain(g)
    BY <1>6 DEF PostBack, Answers
  <2>2. PICK w \in PostType, h \in {0, 1}, x \in {0, 1} :
          /\ gwk' = [gwk EXCEPT ![g] = w]
          /\ w.msgs = IF h = 1 THEN gwk[g].msgs ELSE << >>
          /\ gone' = IF x = 1 THEN Plus(gone, gwk[g].msgs) ELSE gone
          /\ h + x = 1
    BY <1>1, <2>1, PostAgainMoves
  <2>3. CASE o = "lost"
    <3>1. PostMoved(g, w, h, 1, x, 1)
      BY <1>3, <2>2, <2>3 DEF PostMoved
    <3> QED BY <1>2, <2>2, <3>1, PostKeeps
  <2>4. CASE o = "failed"
    <3>1. PostMoved(g, w, h, 0, x, 0)
      BY <1>3, <2>2, <2>4 DEF PostMoved
    <3> QED BY <1>2, <2>2, <3>1, PostKeeps
  <2> QED BY <1>6, <2>3, <2>4 DEF Outcomes
<1> QED BY <1>4, <1>5, <1>6

LEMMA PostUnheardInv ==
  ASSUME IInv, NEW g \in Gateways, PostUnheard(g)
  PROVE  IInv'
<1>1. TypeOK
  BY DEF IInv, TypeInv
<1>2. /\ troubles' \in 0 .. MaxTroubles
      /\ UNCHANGED <<regVars, cache, snd, stream, local, rep, delivered>>
  BY <1>1, Constants DEF PostUnheard, Trouble, TypeOK
<1>3. PICK w \in PostType, h \in {0, 1}, x \in {0, 1} :
        /\ gwk' = [gwk EXCEPT ![g] = w]
        /\ w.msgs = IF h = 1 THEN gwk[g].msgs ELSE << >>
        /\ gone' = IF x = 1 THEN Plus(gone, gwk[g].msgs) ELSE gone
        /\ h + x = 1
  BY <1>1, PostAgainMoves DEF PostUnheard
<1>4. PostMoved(g, w, h, 1, x, 1)
  BY <1>3 DEF PostMoved, PostUnheard
<1> QED BY <1>2, <1>3, <1>4, PostKeeps

LEMMA PostFailsInv ==
  ASSUME IInv, NEW g \in Gateways, PostFails(g)
  PROVE  IInv'
<1>1. TypeOK
  BY DEF IInv, TypeInv
<1>2. /\ troubles' \in 0 .. MaxTroubles
      /\ UNCHANGED <<regVars, cache, snd, stream, local, rep, delivered>>
  BY <1>1, Constants DEF PostFails, Trouble, TypeOK
<1>3. PostMoved(g, NoPost, 0, 0, 1, 0)
  BY Stages DEF PostMoved, PostFails
<1> QED BY <1>2, <1>3, Stages, PostKeeps
--------------------------------------------------------------------------------
(* The steps of a replay. *)

LEMMA FlushKeeps ==
  ASSUME NEW s \in Seq(Msgs)
  PROVE  Flush(s) \in RepType /\ RepOK(Flush(s)) /\ Flush(s).acc = s
<1>1. CASE s = << >>
  BY <1>1, Stages DEF Flush
<1>2. CASE s # << >>
  <2>1. Flush(s) = [pc |-> "route", left |-> 0, acc |-> s, info |-> FALSE, to |-> Nowhere,
                    tries |-> 0]
    BY <1>2 DEF Flush, NoReplay
  <2> QED BY <2>1 DEF RepType, RepOK, Places
<1> QED BY <1>1, <1>2

LEMMA ReadingKeeps ==
  ASSUME NEW n \in Nat, NEW s \in Seq(Msgs)
  PROVE  /\ Reading(n, s) \in RepType /\ RepOK(Reading(n, s)) /\ Reading(n, s).acc = s
         /\ Reading(n, s).left = n
<1>1. CASE n = 0
  <2>1. Flush(s).left = 0
    BY DEF Flush, NoReplay
  <2> QED BY <1>1, <2>1, FlushKeeps DEF Reading
<1>2. CASE n # 0
  <2>1. Reading(n, s) = [pc |-> "pop", left |-> n, acc |-> s, info |-> FALSE, to |-> Nowhere,
                         tries |-> Retry]
    BY <1>2 DEF Reading, NoReplay
  <2> QED BY <1>2, <2>1, Constants DEF RepType, RepOK, Places
<1> QED BY <1>1, <1>2

LEMMA AgainKeeps ==
  ASSUME NEW w \in RepType, RepOK(w), NEW o, TriesAgain(o, w.tries)
  PROVE  /\ Again(w) \in RepType /\ RepOK(Again(w)) /\ Again(w).acc = w.acc
         /\ Again(w).pc = w.pc /\ Again(w).left = w.left
<1>1. w.tries > 1
  BY DEF TriesAgain
<1>2. w.tries - 1 \in Nat
  BY <1>1 DEF RepType
<1>3. Again(w) = [w EXCEPT !.tries = w.tries - 1]
  BY DEF Again
<1>4. /\ Again(w) \in RepType /\ Again(w).acc = w.acc /\ Again(w).pc = w.pc
      /\ Again(w).left = w.left /\ Again(w).to = w.to
  BY <1>2, <1>3 DEF RepType
<1> QED BY <1>4 DEF RepOK

\* What becomes of a replay that could not push: the info is dropped and the batch
\* pushed on its own; the batch goes back.
LEMMA NotPushedKeeps ==
  ASSUME TypeInv, NEW r \in Replays, rep[r].pc \in {"route", "xadd"}
  PROVE  /\ NotPushed(r) \in RepType /\ RepOK(NotPushed(r)) /\ NotPushed(r).acc = rep[r].acc
         /\ NotPushed(r).left = 0
<1> DEFINE w == rep[r]
<1>1. w \in RepType /\ w.acc \in Seq(Msgs) /\ w.left = 0
  BY DEF TypeInv, TypeOK, RepType, RepOK
<1>2. CASE w.info
  <2>1. Flush(w.acc).left = 0
    BY DEF Flush, NoReplay
  <2> QED BY <1>1, <1>2, <2>1, FlushKeeps DEF NotPushed
<1>3. CASE ~ w.info
  <2>1. NotPushed(r) = [w EXCEPT !.pc = "back", !.to = Nowhere, !.tries = Retry]
    BY <1>3 DEF NotPushed
  <2> HIDE DEF w
  <2>2. /\ NotPushed(r) \in RepType /\ NotPushed(r).acc = w.acc /\ NotPushed(r).pc = "back"
        /\ NotPushed(r).left = 0
    BY <1>1, <2>1, Constants DEF RepType, Places
  <2> QED BY <2>2 DEF RepOK, w
<1> QED BY <1>2, <1>3

LEMMA CountInv ==
  ASSUME IInv, NEW r \in Replays, NEW o \in Outcomes, Count(r, o)
  PROVE  IInv'
<1>1. TypeInv /\ TypeOK
  BY DEF IInv, TypeInv
<1> DEFINE w == IF TriesAgain(o, rep[r].tries) THEN Again(rep[r])
                ELSE IF Answers(o) THEN Reading(LenOfList, << >>) ELSE NoReplay
<1>2. /\ rep[r] \in RepType /\ RepOK(rep[r]) /\ rep[r].acc = << >>
      /\ rep' = [rep EXCEPT ![r] = w]
      /\ UNCHANGED <<regVars, cache, snd, stream, gwk, list, local, history>>
  BY <1>1 DEF Count, TypeInv, TypeOK, RepOK
<1>3. w \in RepType /\ RepOK(w) /\ w.acc = rep[r].acc
  <2>1. CASE TriesAgain(o, rep[r].tries)
    BY <1>2, <2>1, AgainKeeps
  <2>2. CASE ~ TriesAgain(o, rep[r].tries)
    <3>1. LenOfList \in Nat /\ << >> \in Seq(Msgs)
      BY <1>1, LenProperties DEF LenOfList, TypeOK
    <3> QED BY <1>2, <2>2, <3>1, ReadingKeeps, Stages
  <2> QED BY <2>1, <2>2
<1> HIDE DEF w
<1>4. /\ rep' \in [Replays -> RepType]
      /\ \A m \in Msgs : SndOK(m)'
      /\ \A s \in Replays : RepOK(rep'[s])
      /\ \A m \in Msgs : Balance(m)'
  BY <1>2, <1>3, ReplayKeeps
<1>5. troubles' \in 0 .. MaxTroubles
  BY <1>1, AttemptType DEF Count
<1>6. TypeOK'
  BY <1>1, <1>2, <1>4, <1>5 DEF TypeOK, regVars, history
<1> QED BY <1>4, <1>6 DEF IInv, TypeInv

LEMMA RouteBatchInv ==
  ASSUME IInv, NEW r \in Replays, RouteBatch(r)
  PROVE  IInv'
<1>1. TypeInv /\ TypeOK
  BY DEF IInv, TypeInv
<1>2. PICK g \in Places :
        /\ Lookup(g) \/ LookupFails(g)
        /\ rep' = [rep EXCEPT ![r] = IF g = Nowhere THEN NotPushed(r)
                                     ELSE [@ EXCEPT !.pc = "xadd", !.to = g, !.tries = Retry]]
  BY DEF RouteBatch
<1> DEFINE w == IF g = Nowhere THEN NotPushed(r)
                ELSE [rep[r] EXCEPT !.pc = "xadd", !.to = g, !.tries = Retry]
<1>3. /\ rep[r] \in RepType /\ rep[r].pc = "route" /\ rep[r].left = 0
      /\ rep' = [rep EXCEPT ![r] = w]
      /\ UNCHANGED <<regVars, snd, stream, gwk, list, local, history>>
  BY <1>1, <1>2 DEF RouteBatch, TypeInv, TypeOK, RepOK
<1>4. w \in RepType /\ RepOK(w) /\ w.acc = rep[r].acc
  <2>1. CASE g = Nowhere
    BY <1>1, <1>3, <2>1, NotPushedKeeps
  <2>2. CASE g # Nowhere
    <3>1. g \in Gateways
      BY <2>2 DEF Places
    <3>2. w = [rep[r] EXCEPT !.pc = "xadd", !.to = g, !.tries = Retry]
      BY <2>2
    <3> HIDE DEF w
    <3>3. w \in RepType /\ w.acc = rep[r].acc /\ w.pc = "xadd" /\ w.left = 0 /\ w.to = g
      BY <1>3, <3>2, Constants DEF RepType
    <3> QED BY <3>1, <3>3 DEF RepOK
  <2> QED BY <2>1, <2>2
<1> HIDE DEF w
<1>5. /\ rep' \in [Replays -> RepType]
      /\ \A m \in Msgs : SndOK(m)'
      /\ \A s \in Replays : RepOK(rep'[s])
      /\ \A m \in Msgs : Balance(m)'
  BY <1>3, <1>4, ReplayKeeps
<1>6. cache' \in Places /\ troubles' \in 0 .. MaxTroubles
  BY <1>1, <1>2, LookupType
<1>7. TypeOK'
  BY <1>1, <1>3, <1>5, <1>6 DEF TypeOK, regVars, history
<1> QED BY <1>5, <1>7 DEF IInv, TypeInv

LEMMA XAddBatchInv ==
  ASSUME IInv, NEW r \in Replays, NEW o \in Outcomes, XAddBatch(r, o)
  PROVE  IInv'
<1>1. TypeInv /\ TypeOK
  BY DEF IInv, TypeInv
<1> DEFINE ms == IF rep[r].info THEN << >> ELSE rep[r].acc
           w == IF TriesAgain(o, rep[r].tries) THEN Again(rep[r])
                ELSE IF Answers(o) THEN AfterPush(r) ELSE NotPushed(r)
           g == rep[r].to
<1>2. /\ rep[r] \in RepType /\ RepOK(rep[r]) /\ rep[r].pc = "xadd" /\ g \in Gateways
      /\ rep[r].acc \in Seq(Msgs) /\ ms \in Seq(Msgs)
      /\ rep' = [rep EXCEPT ![r] = w]
      /\ stream' = [stream EXCEPT ![g] = Pushed(@, ms, o)] /\ dup' = Doubled(ms, o)
      /\ UNCHANGED <<regVars, cache, snd, gwk, list, local, delivered, gone>>
  BY <1>1 DEF XAddBatch, TypeInv, TypeOK, RepOK, RepType
<1>3. /\ w \in RepType /\ RepOK(w)
      /\ \A m \in Msgs : Copies(w.acc, m)
                           = Copies(rep[r].acc, m) - IF o = "ok" THEN Copies(ms, m) ELSE 0
  <2>1. \A m \in Msgs : Copies(rep[r].acc, m) \in Nat /\ Copies(<< >>, m) = 0
    BY <1>2, CopiesType, CopiesEmpty
  <2>2. CASE TriesAgain(o, rep[r].tries)
    <3>1. o # "ok" /\ w = Again(rep[r])
      BY <2>2 DEF TriesAgain
    <3>2. w \in RepType /\ RepOK(w) /\ w.acc = rep[r].acc
      BY <1>2, <2>2, <3>1, AgainKeeps
    <3> HIDE DEF w, ms
    <3> QED BY <2>1, <3>1, <3>2
  <2>3. CASE o = "ok"
    <3>1. w = AfterPush(r)
      BY <2>3 DEF TriesAgain, Answers
    <3>2. CASE rep[r].info
      <4>1. w = Flush(rep[r].acc) /\ ms = << >>
        BY <3>1, <3>2 DEF AfterPush
      <4> HIDE DEF w, ms
      <4>2. w \in RepType /\ RepOK(w) /\ w.acc = rep[r].acc
        BY <1>2, <4>1, FlushKeeps
      <4> QED BY <2>1, <2>3, <4>1, <4>2
    <3>3. CASE ~ rep[r].info
      <4>1. w = NoReplay /\ ms = rep[r].acc
        BY <3>1, <3>3 DEF AfterPush
      <4> HIDE DEF w, ms
      <4> QED BY <2>1, <2>3, <4>1, Stages
    <3> QED BY <3>2, <3>3
  <2>4. CASE ~ TriesAgain(o, rep[r].tries) /\ o # "ok"
    <3>1. w = NotPushed(r)
      BY <2>4 DEF Answers
    <3>2. w \in RepType /\ RepOK(w) /\ w.acc = rep[r].acc
      BY <1>1, <1>2, <3>1, NotPushedKeeps
    <3> HIDE DEF w, ms
    <3> QED BY <2>1, <2>4, <3>2
  <2> QED BY <2>2, <2>3, <2>4
<1> HIDE DEF ms, w, g
<1>4. /\ rep' \in [Replays -> RepType]
      /\ \A s \in Replays : RepOK(rep'[s])
      /\ \A m \in Msgs :
           AtReplays(m)' = AtReplays(m) - Copies(rep[r].acc, m) + Copies(w.acc, m)
  BY <1>1, <1>2, <1>3, ReplayMoves
<1>5. /\ stream' \in [Gateways -> Seq(Seq(Msgs))]
      /\ \A m \in Msgs : OnStreams(m)' = OnStreams(m) + IF o = "failed" THEN 0 ELSE Copies(ms, m)
  BY <1>1, <1>2, StreamGrows
<1>6. /\ dup' \in [Msgs -> Nat]
      /\ \A m \in Msgs : dup'[m] = dup[m] + IF o = "lost" THEN Copies(ms, m) ELSE 0
  BY <1>1, <1>2, DupMoves
<1>7. troubles' \in 0 .. MaxTroubles
  BY <1>1, AttemptType DEF XAddBatch
<1>8. TypeInv'
  BY <1>1, <1>2, <1>4, <1>5, <1>6, <1>7 DEF TypeInv, TypeOK, SndOK, regVars
<1>9. ASSUME NEW m \in Msgs PROVE Balance(m)'
  <2>1. /\ AtSend(m)' = AtSend(m) /\ AtGateways(m)' = AtGateways(m)
        /\ OnList(m)' = OnList(m) /\ Parked(m)' = Parked(m)
        /\ delivered'[m] = delivered[m] /\ gone'[m] = gone[m]
    BY <1>2 DEF AtSend, AtGateways, Posted, OnList, Parked
  <2>2. /\ AtSend(m) \in Nat /\ OnStreams(m) \in Nat /\ dup[m] \in Nat
        /\ AtGateways(m) \in Nat /\ AtReplays(m) \in Nat /\ OnList(m) \in Nat
        /\ Parked(m) \in Nat /\ delivered[m] \in Nat /\ gone[m] \in Nat
        /\ Copies(ms, m) \in Nat /\ Copies(rep[r].acc, m) \in Nat
    BY <1>1, <1>2, Numbers, CopiesType
  <2>3. Balance(m)
    BY DEF IInv
  <2> DEFINE c == Copies(ms, m)
  <2>4. /\ AtReplays(m)' = AtReplays(m) - IF o = "ok" THEN c ELSE 0
        /\ OnStreams(m)' = OnStreams(m) + IF o = "failed" THEN 0 ELSE c
        /\ dup'[m] = dup[m] + IF o = "lost" THEN c ELSE 0
    BY <1>3, <1>4, <1>5, <1>6, <2>2
  <2>5. c \in Nat
    BY <2>2
  <2> HIDE DEF c
  <2>6. PICK h \in Int, s \in Int, d \in Int :
          h = AtReplays(m)' /\ s = OnStreams(m)' /\ d = dup'[m]
    BY <2>2, <2>4, <2>5
  <2>7. /\ h = AtReplays(m) - IF o = "ok" THEN c ELSE 0
        /\ s = OnStreams(m) + IF o = "failed" THEN 0 ELSE c
        /\ d = dup[m] + IF o = "lost" THEN c ELSE 0
    BY <2>4, <2>6
  <2>8. h + s + dup[m] = AtReplays(m) + OnStreams(m) + d
    BY <2>2, <2>5, <2>7 DEF Outcomes
  <2>9. AtSend(m) + AtGateways(m) + h + OnList(m) + s + Parked(m) + delivered[m] + gone[m]
          = 1 + d
    <3> DEFINE rest == AtSend(m) + AtGateways(m) + OnList(m) + Parked(m) + delivered[m] + gone[m]
    <3>1. rest \in Int /\ rest + AtReplays(m) + OnStreams(m) = 1 + dup[m]
      BY <2>2, <2>3 DEF Balance
    <3>2. AtSend(m) + AtGateways(m) + h + OnList(m) + s + Parked(m) + delivered[m] + gone[m]
            = rest + h + s
      BY <2>2, <2>6
    <3> HIDE DEF rest
    <3>3. rest + h + s = 1 + d
      BY <2>2, <2>6, <2>8, <3>1
    <3> QED BY <3>2, <3>3
  <2> QED BY <2>1, <2>6, <2>9 DEF Balance
<1> QED BY <1>8, <1>9 DEF IInv

LEMMA BackInv ==
  ASSUME IInv, NEW r \in Replays, NEW o \in Outcomes, Back(r, o)
  PROVE  IInv'
<1>1. TypeInv /\ TypeOK
  BY DEF IInv, TypeInv
<1> DEFINE ms == rep[r].acc
           again == TriesAgain(o, rep[r].tries)
           w == IF again THEN Again(rep[r]) ELSE NoReplay
<1>2. /\ rep[r] \in RepType /\ RepOK(rep[r]) /\ ms \in Seq(Msgs) /\ rep[r].tries \in Nat
      /\ rep' = [rep EXCEPT ![r] = w]
      /\ list' = Pushed(list, Unreadable(ms), o) /\ dup' = Doubled(ms, o)
      /\ gone' = IF GivesUp(o, rep[r].tries) THEN Plus(gone, ms) ELSE gone
      /\ UNCHANGED <<regVars, cache, snd, stream, gwk, local, delivered>>
  BY <1>1 DEF Back, TypeInv, TypeOK, RepType
<1>3. w \in RepType /\ RepOK(w) /\ w.acc = IF again THEN ms ELSE << >>
  <2>1. CASE again
    BY <1>2, <2>1, AgainKeeps
  <2>2. CASE ~ again
    BY <2>2, Stages
  <2> QED BY <2>1, <2>2
<1>4. /\ again => o = "lost"
      /\ GivesUp(o, rep[r].tries) <=> o # "ok" /\ ~ again
  BY <1>2, GivesUpOrTries
<1> HIDE DEF ms, again, w
<1>5. /\ rep' \in [Replays -> RepType]
      /\ \A s \in Replays : RepOK(rep'[s])
      /\ \A m \in Msgs : AtReplays(m)' = AtReplays(m) - Copies(ms, m) + Copies(w.acc, m)
  BY <1>1, <1>2, <1>3, ReplayMoves DEF ms
<1>6. troubles' \in 0 .. MaxTroubles
  BY <1>1, AttemptType DEF Back
<1>7. /\ list' \in Seq(ListEntry)
      /\ \A m \in Msgs : OnList(m)' = OnList(m) + IF o = "failed" THEN 0 ELSE Copies(ms, m)
  <2>1. Unreadable(ms) \in ListEntry /\ Unreadable(ms).msgs = ms
    BY <1>2 DEF Unreadable, ListEntry
  <2> QED BY <1>1, <1>2, <2>1, ListGrows
<1>8. /\ dup' \in [Msgs -> Nat]
      /\ \A m \in Msgs : dup'[m] = dup[m] + IF o = "lost" THEN Copies(ms, m) ELSE 0
  BY <1>1, <1>2, DupMoves
<1>9. /\ gone' \in [Msgs -> Nat]
      /\ \A m \in Msgs : gone'[m] = gone[m] + IF o # "ok" /\ ~ again THEN Copies(ms, m) ELSE 0
  <2>1. gone \in [Msgs -> Nat]
    BY <1>1 DEF TypeOK
  <2> QED BY <1>2, <1>4, <2>1, CountMoves
<1>10. TypeInv'
  BY <1>1, <1>2, <1>5, <1>6, <1>7, <1>8, <1>9 DEF TypeInv, TypeOK, SndOK, regVars
<1>11. ASSUME NEW m \in Msgs PROVE Balance(m)'
  <2>1. /\ AtSend(m)' = AtSend(m) /\ AtGateways(m)' = AtGateways(m)
        /\ OnStreams(m)' = OnStreams(m) /\ Parked(m)' = Parked(m)
        /\ delivered'[m] = delivered[m]
    BY <1>2 DEF AtSend, AtGateways, Posted, OnStreams, Parked
  <2>2. /\ AtSend(m) \in Nat /\ OnStreams(m) \in Nat /\ dup[m] \in Nat
        /\ AtGateways(m) \in Nat /\ AtReplays(m) \in Nat /\ OnList(m) \in Nat
        /\ Parked(m) \in Nat /\ delivered[m] \in Nat /\ gone[m] \in Nat
        /\ Copies(ms, m) \in Nat
    BY <1>1, <1>2, Numbers, CopiesType
  <2>3. Balance(m)
    BY DEF IInv
  <2>4. Copies(w.acc, m) = IF again THEN Copies(ms, m) ELSE 0
    BY <1>3, CopiesEmpty
  <2> DEFINE c == Copies(ms, m)
  <2>5. /\ AtReplays(m)' = AtReplays(m) - IF again THEN 0 ELSE c
        /\ OnList(m)' = OnList(m) + IF o = "failed" THEN 0 ELSE c
        /\ dup'[m] = dup[m] + IF o = "lost" THEN c ELSE 0
        /\ gone'[m] = gone[m] + IF o # "ok" /\ ~ again THEN c ELSE 0
    BY <1>5, <1>7, <1>8, <1>9, <2>2, <2>4
  <2>6. c \in Nat
    BY <2>2
  <2> HIDE DEF c
  <2>7. PICK h \in Int, l \in Int, x \in Int, d \in Int :
          h = AtReplays(m)' /\ l = OnList(m)' /\ x = gone'[m] /\ d = dup'[m]
    BY <2>2, <2>5, <2>6
  <2>8. /\ h = AtReplays(m) - IF again THEN 0 ELSE c
        /\ l = OnList(m) + IF o = "failed" THEN 0 ELSE c
        /\ d = dup[m] + IF o = "lost" THEN c ELSE 0
        /\ x = gone[m] + IF o # "ok" /\ ~ again THEN c ELSE 0
    BY <2>5, <2>7
  <2>9. h + l + x + dup[m] = AtReplays(m) + OnList(m) + gone[m] + d
    <3>1. CASE again
      <4>1. h = AtReplays(m) /\ l = OnList(m) + c /\ d = dup[m] + c /\ x = gone[m]
        BY <1>4, <2>2, <2>8, <3>1
      <4> QED BY <2>2, <2>6, <4>1
    <3>2. CASE ~ again
      BY <2>2, <2>6, <2>8, <3>2 DEF Outcomes
    <3> QED BY <3>1, <3>2
  <2>10. AtSend(m) + AtGateways(m) + h + l + OnStreams(m) + Parked(m) + delivered[m] + x = 1 + d
    <3>1. PICK n \in Int : n = AtSend(m) + AtGateways(m) + OnStreams(m) + Parked(m) + delivered[m]
      BY <2>2
    <3>2. n + AtReplays(m) + OnList(m) + gone[m] = 1 + dup[m]
      BY <2>2, <2>3, <3>1 DEF Balance
    <3>3. n + h + l + x = 1 + d
      BY <2>2, <2>9, <3>2
    <3> QED BY <2>2, <3>1, <3>3
  <2> QED BY <2>1, <2>7, <2>10 DEF Balance
<1> QED BY <1>10, <1>11 DEF IInv

\* What is popped is read, unless it is an array, or the answer is lost.
LEMMA PopInv ==
  ASSUME IInv, NEW r \in Replays, NEW o \in Outcomes, Pop(r, o)
  PROVE  IInv'
<1>1. TypeInv /\ TypeOK
  BY DEF IInv, TypeInv
<1> DEFINE acc == rep[r].acc
           again == TriesAgain(o, rep[r].tries)
           w == IF again THEN Again(rep[r])
                ELSE IF ~ Answers(o)
                THEN [rep[r] EXCEPT !.pc = "route", !.left = 0, !.info = TRUE, !.tries = 0]
                ELSE IF list = << >> THEN Flush(acc)
                ELSE Reading(rep[r].left - 1,
                             IF Head(list).array THEN acc ELSE acc \o Head(list).msgs)
           ms == IF list = << >> THEN << >> ELSE Head(list).msgs
           read == o = "ok" /\ list # << >> /\ ~ Head(list).array
           lose == list # << >> /\ (o = "lost" \/ (o = "ok" /\ Head(list).array))
<1>2. /\ rep[r] \in RepType /\ RepOK(rep[r]) /\ rep[r].pc = "pop" /\ acc \in Seq(Msgs)
      /\ rep[r].left \in Nat /\ rep[r].left # 0
      /\ rep' = [rep EXCEPT ![r] = w] /\ list' = Popped(list, o)
      /\ UNCHANGED <<regVars, cache, snd, stream, gwk, local, delivered, dup>>
  BY <1>1 DEF Pop, TypeInv, TypeOK, RepType, RepOK
<1>3. ms \in Seq(Msgs) /\ (list # << >> => Head(list) \in ListEntry /\ ms = Head(list).msgs)
  <2>1. list # << >> => Head(list) \in ListEntry
    BY <1>1, EntryMsgs DEF TypeOK
  <2> QED BY <2>1 DEF ListEntry
<1>4. gone' = IF lose THEN Plus(gone, ms) ELSE gone
  BY DEF Pop
<1>5. w \in RepType /\ RepOK(w) /\ w.acc = IF read THEN acc \o ms ELSE acc
  <2>1. CASE again
    <3>1. w = Again(rep[r]) /\ ~ read
      BY <2>1 DEF TriesAgain
    <3> HIDE DEF w, read
    <3> QED BY <1>2, <2>1, <3>1, AgainKeeps
  <2>2. CASE ~ again /\ o # "ok"
    <3>1. /\ w = [rep[r] EXCEPT !.pc = "route", !.left = 0, !.info = TRUE, !.tries = 0]
          /\ ~ read
      BY <2>2 DEF Answers
    <3> HIDE DEF w, read
    <3>2. w \in RepType /\ w.acc = acc /\ w.pc = "route" /\ w.left = 0
      BY <1>2, <3>1 DEF RepType
    <3> QED BY <3>1, <3>2 DEF RepOK
  <2>3. CASE o = "ok" /\ list = << >>
    <3>1. w = Flush(acc) /\ ~ read
      BY <2>3 DEF TriesAgain, Answers
    <3> HIDE DEF w, read
    <3> QED BY <1>2, <3>1, FlushKeeps
  <2>4. CASE o = "ok" /\ list # << >>
    <3> DEFINE s == IF read THEN acc \o ms ELSE acc
    <3>1. w = Reading(rep[r].left - 1, s)
      BY <2>4 DEF TriesAgain, Answers
    <3>2. s \in Seq(Msgs)
      BY <1>2, <1>3
    <3>3. rep[r].left - 1 \in Nat
      BY <1>2
    <3> HIDE DEF w, s
    <3>4. w \in RepType /\ RepOK(w) /\ w.acc = s
      BY <3>1, <3>2, <3>3, ReadingKeeps
    <3> QED BY <3>4 DEF s
  <2> QED BY <2>1, <2>2, <2>3, <2>4
<1>6. o = "failed" \/ list = << >> \/ read \/ lose
  BY DEF Outcomes
<1>7. /\ read => ~ lose /\ list # << >> /\ o # "failed"
      /\ lose => list # << >> /\ o # "failed"
  OBVIOUS
<1> HIDE DEF acc, again, w, ms, read, lose
<1>8. /\ rep' \in [Replays -> RepType]
      /\ \A s \in Replays : RepOK(rep'[s])
      /\ \A m \in Msgs : AtReplays(m)' = AtReplays(m) - Copies(acc, m) + Copies(w.acc, m)
  BY <1>1, <1>2, <1>5, ReplayMoves DEF acc
<1>9. troubles' \in 0 .. MaxTroubles
  BY <1>1, AttemptType DEF Pop
<1>10. /\ list' \in Seq(ListEntry)
       /\ \A m \in Msgs : OnList(m) = OnList(m)' + IF o = "failed" \/ list = << >> THEN 0
                                                   ELSE Copies(Head(list).msgs, m)
  BY <1>1, <1>2, ListShrinks
<1>11. /\ gone' \in [Msgs -> Nat]
       /\ \A m \in Msgs : gone'[m] = gone[m] + IF lose THEN Copies(ms, m) ELSE 0
  <2>1. gone \in [Msgs -> Nat]
    BY <1>1 DEF TypeOK
  <2> QED BY <1>3, <1>4, <2>1, CountMoves
<1>12. TypeInv'
  BY <1>1, <1>2, <1>8, <1>9, <1>10, <1>11 DEF TypeInv, TypeOK, SndOK, regVars
<1>13. ASSUME NEW m \in Msgs PROVE Balance(m)'
  <2>1. /\ AtSend(m)' = AtSend(m) /\ AtGateways(m)' = AtGateways(m)
        /\ OnStreams(m)' = OnStreams(m) /\ Parked(m)' = Parked(m)
        /\ delivered'[m] = delivered[m] /\ dup'[m] = dup[m]
    BY <1>2 DEF AtSend, AtGateways, Posted, OnStreams, Parked
  <2>2. /\ AtSend(m) \in Nat /\ OnStreams(m) \in Nat /\ dup[m] \in Nat
        /\ AtGateways(m) \in Nat /\ AtReplays(m) \in Nat /\ OnList(m) \in Nat
        /\ Parked(m) \in Nat /\ delivered[m] \in Nat /\ gone[m] \in Nat
        /\ Copies(ms, m) \in Nat /\ Copies(acc, m) \in Nat
    BY <1>1, <1>2, <1>3, Numbers, CopiesType
  <2>3. Balance(m)
    BY DEF IInv
  <2>4. Copies(w.acc, m) = Copies(acc, m) + IF read THEN Copies(ms, m) ELSE 0
    <3>1. Copies(acc \o ms, m) = Copies(acc, m) + Copies(ms, m)
      BY <1>2, <1>3, CopiesConcat
    <3> QED BY <1>5, <2>2, <3>1
  <2> DEFINE c == Copies(ms, m)
  <2>5. OnList(m)' \in Nat
    <3>1. MsgsOf(list') \in Seq(Seq(Msgs))
      BY <1>10, EntryMsgs
    <3>2. CopiesAmong(MsgsOf(list'), m) \in Nat
      BY <3>1, ListsOfSeq
    <3> QED BY <3>2 DEF OnList, MsgsOf
  <2>6. /\ AtReplays(m)' = AtReplays(m) + IF read THEN c ELSE 0
        /\ OnList(m) = OnList(m)' + IF read \/ lose THEN c ELSE 0
        /\ gone'[m] = gone[m] + IF lose THEN c ELSE 0
    <3>1. AtReplays(m)' = AtReplays(m) + IF read THEN c ELSE 0
      BY <1>8, <2>2, <2>4
    <3>2. OnList(m) = OnList(m)' + IF read \/ lose THEN c ELSE 0
      BY <1>3, <1>6, <1>7, <1>10
    <3> QED BY <1>11, <3>1, <3>2
  <2>7. c \in Nat
    BY <2>2
  <2> HIDE DEF c
  <2>8. PICK h \in Int, l \in Int, x \in Int :
          h = AtReplays(m)' /\ l = OnList(m)' /\ x = gone'[m]
    BY <2>2, <2>5, <2>6, <2>7
  <2>9. /\ h = AtReplays(m) + IF read THEN c ELSE 0
        /\ OnList(m) = l + IF read \/ lose THEN c ELSE 0
        /\ x = gone[m] + IF lose THEN c ELSE 0
    BY <2>6, <2>8
  <2>10. h + l + x = AtReplays(m) + OnList(m) + gone[m]
    <3>1. CASE read
      <4>1. ~ lose
        BY <1>7, <3>1
      <4>2. h = AtReplays(m) + c /\ OnList(m) = l + c /\ x = gone[m]
        BY <2>2, <2>9, <3>1, <4>1
      <4> QED BY <2>2, <2>7, <4>2
    <3>2. CASE lose /\ ~ read
      <4>1. h = AtReplays(m) /\ OnList(m) = l + c /\ x = gone[m] + c
        BY <2>2, <2>9, <3>2
      <4> QED BY <2>2, <2>7, <4>1
    <3>3. CASE ~ lose /\ ~ read
      BY <2>2, <2>9, <3>3
    <3> QED BY <3>1, <3>2, <3>3
  <2>11. AtSend(m) + AtGateways(m) + h + l + OnStreams(m) + Parked(m) + delivered[m] + x
           = 1 + dup[m]
    BY <2>2, <2>3, <2>10 DEF Balance
  <2> QED BY <2>1, <2>8, <2>11 DEF Balance
<1> QED BY <1>12, <1>13 DEF IInv

LEMMA StepInv == IInv /\ [Next]_vars => IInv'
<1> SUFFICES ASSUME IInv, [Next]_vars PROVE IInv'
  OBVIOUS
<1>1. CASE UNCHANGED vars
  BY <1>1 DEF vars, regVars, history, IInv, TypeInv, TypeOK, SndOK, Balance, AtSend,
              AtGateways, AtReplays, Posted, Read, OnList, OnStreams, Parked
<1>2. ASSUME NEW g \in Gateways, Gateway(g) PROVE IInv'
  BY <1>2, HandleInv, PostBackInv, PostUnheardInv, PostFailsInv DEF Gateway
<1>3. CASE Registry
  BY <1>3, ReportInv, ReportRefusedInv, NotifyInv, NotifyNobodyInv DEF Registry
<1>4. ASSUME NEW m \in Msgs, Look(m) \/ Dispatch(m) PROVE IInv'
  BY <1>4, LookInv, XAddInv, StoreInv DEF Dispatch
<1>5. ASSUME NEW r \in Replays, Replay(r) PROVE IInv'
  BY <1>5, CountInv, RouteBatchInv, PopInv, XAddBatchInv, BackInv DEF Replay
<1>6. CASE (\E g \in Gateways : Connect(g)) \/ Disconnect \/ RouteExpires \/ CacheExpires
  BY <1>6, UserInv
<1> QED BY <1>1, <1>2, <1>3, <1>4, <1>5, <1>6 DEF Next

\* The inductive invariant: the types, what a worker of Send and a replay hold at each
\* stage, and the balance of copies.
THEOREM Invariant == Spec => []IInv
<1>1. IInv /\ [Next]_vars => IInv'
  BY StepInv
<1> QED BY <1>1, InitInv, PTL DEF Spec

\* OfflineQueue's state has the declared types, for every number of gateways, messages,
\* replays, attempts and troubles.
THEOREM TypeCorrect == Spec => []TypeOK
<1>1. IInv => TypeOK
  BY DEF IInv, TypeInv
<1> QED BY <1>1, Invariant, PTL

\* No message for a user is lost or multiplied between Send, the streams, the gateways,
\* the offline list and its replays, except where an answer is lost, the last attempt
\* fails, or a batch comes back as an array (channel_cache.go:36-169, pushback,
\* dispatcher_gateway.go:109-234).
THEOREM NothingLost == Spec => []Conserved
<1>1. IInv => Conserved
  BY BalanceIsConserved DEF IInv
<1> QED BY <1>1, Invariant, PTL
--------------------------------------------------------------------------------
(* The replay that is to come for a message on the list.                   *)
(* Whether it is waited for at the user (at), on its way (link, notes), or *)
(* running (rep), a step that does not fail takes it no further away.      *)

\* A running replay will pop as far as m.
Reached(m) == \E i \in DOMAIN list : i <= ToPop /\ Copies(list[i].msgs, m) > 0

\* The length is to be read, or will be.
Coming ==
  \/ at = Nowhere
  \/ \E c \in 1 .. Conns : link[c].tries > 0
  \/ \E t \in 1 .. Notes : notes[t] > 0
  \/ \E r \in Replays : rep[r].pc = "len"

LEMMA AwaitedBy ==
  \A m : /\ Awaited(m) <=> Coming \/ Reached(m)
         /\ Awaited(m)' <=> Coming' \/ Reached(m)'
BY DEF Awaited, Coming, Reached

LEMMA OkOrTrouble ==
  ASSUME TypeOK, NEW o \in Outcomes, Attempt(o)
  PROVE  o = "ok" \/ troubles' > troubles
<1>1. troubles \in Nat
  BY Constants DEF TypeOK
<1> QED BY <1>1 DEF Attempt, Trouble

\* A message that is on the list is in one of its entries.
LEMMA SomeEntry ==
  ASSUME TypeOK, NEW m, OnList(m) > 0
  PROVE  \E i \in 1 .. Len(list) : Copies(list[i].msgs, m) > 0
<1> DEFINE q == MsgsOf(list)
<1>1. /\ q \in Seq(Seq(Msgs)) /\ Len(q) = Len(list) /\ OnList(m) = CopiesAmong(q, m)
      /\ DOMAIN list = 1 .. Len(list)
  BY EntryMsgs, OnListOfMsgs, LenProperties DEF TypeOK
<1>2. \A i \in 1 .. Len(list) : q[i] = list[i].msgs
  BY <1>1 DEF MsgsOf
<1>3. DOMAIN q = 1 .. Len(list)
  BY <1>1 DEF MsgsOf
<1> HIDE DEF q
<1>4. Spots(q, m) # {}
  <2>1. CopiesAmong(q, m) # 0
    BY <1>1
  <2> QED BY <2>1, FS_EmptySet DEF CopiesAmong
<1>5. PICK i \in 1 .. Len(list) : Where(q[i], m) # {}
  BY <1>3, <1>4 DEF Spots
<1>6. Copies(q[i], m) > 0
  <2>1. q[i] \in Seq(Msgs)
    BY <1>1, <1>3
  <2>2. IsFiniteSet(Where(q[i], m)) /\ Copies(q[i], m) \in Nat
    BY <2>1, CopiesType
  <2>3. Copies(q[i], m) # 0
    BY <1>5, <2>2, FS_EmptySet DEF Copies
  <2> QED BY <2>2, <2>3
<1> QED BY <1>2, <1>6

LEMMA ToPopMoves ==
  ASSUME TypeInv, NEW r \in Replays, NEW w \in RepType, rep' = [rep EXCEPT ![r] = w]
  PROVE  /\ ToPop \in Nat
         /\ ToPop' = ToPop - rep[r].left + w.left
         /\ ToPop' >= w.left
<1> DEFINE f == [s \in Replays |-> 1 .. rep[s].left]
           g == [s \in Replays |-> 1 .. rep'[s].left]
<1>1. rep \in [Replays -> RepType] /\ rep' \in [Replays -> RepType] /\ rep'[r] = w
  BY DEF TypeInv, TypeOK
<1>2. \A n \in Nat : IsFiniteSet(1 .. n) /\ Cardinality(1 .. n) = n
  BY FS_Interval
<1>3. /\ \A s \in Replays : rep[s].left \in Nat /\ rep'[s].left \in Nat
      /\ w.left \in Nat
  BY <1>1 DEF RepType
<1>4. FiniteSetsOf(Replays, f) /\ FiniteSetsOf(Replays, g)
  BY <1>2, <1>3 DEF FiniteSetsOf
<1>5. SameBut(g, f, Replays, r)
  BY <1>1 DEF SameBut
<1>6. Cardinality(f[r]) = rep[r].left /\ Cardinality(g[r]) = w.left
  BY <1>1, <1>2, <1>3
<1>7. ToPop = SizeAmong(f) /\ ToPop' = SizeAmong(g)
  BY DEF ToPop
<1> HIDE DEF f, g
<1>8. /\ SizeAmong(g) = SizeAmong(f) - Cardinality(f[r]) + Cardinality(g[r])
      /\ SizeAmong(g) >= Cardinality(g[r])
  BY <1>4, <1>5, OfflineAssumption, SizeDiffer
<1>9. SizeAmong(f) \in Nat
  BY <1>4, OfflineAssumption, SizeType
<1> QED BY <1>6, <1>7, <1>8, <1>9

\* The list is kept or gets longer, and the pops that are left are the same.
LEMMA ReachedStays ==
  ASSUME TypeOK, NEW m, Reached(m), ToPop' = ToPop,
         list' = list \/ \E e \in ListEntry, o \in Outcomes : list' = Pushed(list, e, o)
  PROVE  Reached(m)'
<1>1. PICK i \in DOMAIN list : i <= ToPop /\ Copies(list[i].msgs, m) > 0
  BY DEF Reached
<1>2. i \in DOMAIN list' /\ list'[i] = list[i]
  <2>1. list \in Seq(ListEntry)
    BY DEF TypeOK
  <2>2. ASSUME NEW e \in ListEntry
        PROVE  i \in DOMAIN Append(list, e) /\ Append(list, e)[i] = list[i]
    BY <2>1, LenProperties, AppendProperties
  <2> QED BY <2>2 DEF Pushed
<1> QED BY <1>1, <1>2 DEF Reached

\* A step of a replay that is not about to read the length, nor pops.
LEMMA ReplayStays ==
  ASSUME TypeInv, NEW m, Awaited(m), NEW r \in Replays, rep[r].pc # "len",
         NEW w \in RepType, rep' = [rep EXCEPT ![r] = w], w.left = rep[r].left,
         UNCHANGED <<at, link, notes>>,
         list' = list \/ \E e \in ListEntry, o \in Outcomes : list' = Pushed(list, e, o)
  PROVE  Awaited(m)'
<1>1. \A s \in Replays : rep[s].pc = "len" => rep'[s].pc = "len"
  BY DEF TypeInv, TypeOK
<1>2. Coming => Coming'
  BY <1>1 DEF Coming
<1>3. ToPop' = ToPop
  <2>1. rep[r].left \in Nat
    BY DEF TypeInv, TypeOK, RepType
  <2>2. ToPop \in Nat /\ ToPop' = ToPop - rep[r].left + w.left
    BY ToPopMoves
  <2> QED BY <2>1, <2>2
<1>4. Reached(m) => Reached(m)'
  BY <1>3, ReachedStays DEF TypeInv
<1> QED BY <1>2, <1>4, AwaitedBy

\* A step of none.
LEMMA OthersStay ==
  ASSUME TypeOK, NEW m, Awaited(m), UNCHANGED <<at, link, notes, rep>>,
         list' = list \/ \E e \in ListEntry, o \in Outcomes : list' = Pushed(list, e, o)
  PROVE  Awaited(m)'
<1>1. Coming => Coming'
  BY DEF Coming
<1>2. ToPop' = ToPop
  BY DEF ToPop
<1>3. Reached(m) => Reached(m)'
  BY <1>2, ReachedStays
<1> QED BY <1>1, <1>3, AwaitedBy

\* What is to be shown of each step: where no request fails, the message is awaited.
Untroubled == ~ (troubles' > troubles)

LEMMA UserAwaits ==
  ASSUME IInv, NEW m, Awaited(m),
         (\E g \in Gateways : Connect(g)) \/ Disconnect \/ RouteExpires \/ CacheExpires
  PROVE  Awaited(m)'
<1>1. TypeOK
  BY DEF IInv, TypeInv
<1>2. ASSUME NEW g \in Gateways, Connect(g) PROVE Awaited(m)'
  <2>1. conns + 1 \in 1 .. Conns
    BY <1>1, <1>2, Constants DEF Connect, TypeOK
  <2>2. link'[conns + 1].tries = Reports
    BY <1>1, <1>2, <2>1 DEF Connect, TypeOK
  <2> QED BY <2>1, <2>2, Constants DEF Awaited
<1>3. CASE Disconnect
  BY <1>3 DEF Disconnect, Awaited
<1>4. CASE RouteExpires \/ CacheExpires
  <2>1. UNCHANGED <<at, link, notes, rep, list>>
    BY <1>4 DEF RouteExpires, CacheExpires, regVars
  <2> QED BY <1>1, <2>1, OthersStay
<1> QED BY <1>2, <1>3, <1>4

LEMMA RegistryAwaits ==
  ASSUME IInv, NEW m, Awaited(m), Registry, Untroubled
  PROVE  Awaited(m)'
<1>1. TypeOK
  BY DEF IInv, TypeInv
<1>2. ASSUME NEW c \in 1 .. Conns, NEW o \in Outcomes, Report(c, o) PROVE Awaited(m)'
  <2>1. o = "ok"
    BY <1>1, <1>2, OkOrTrouble DEF Report, Untroubled
  <2>2. notes' = Told
    BY <1>2, <2>1 DEF Report
  <2>3. Notes \in 1 .. Notes /\ notes[Notes] \in Nat /\ notes'[Notes] = notes[Notes] + 1
    BY <1>1, <2>2, Constants DEF TypeOK, Told
  <2> QED BY <2>3 DEF Awaited
<1>3. ASSUME NEW t \in 1 .. Notes, NEW o \in Outcomes, Notify(t, o) PROVE Awaited(m)'
  <2>1. o = "ok"
    BY <1>1, <1>3, OkOrTrouble DEF Notify, Untroubled
  <2>2. PICK r \in FreeReplays : rep' = [rep EXCEPT ![r] = Started]
    BY <1>3, <2>1 DEF Notify
  <2>3. r \in Replays /\ rep'[r].pc = "len"
    BY <1>1, <2>2, Stages DEF FreeReplays, TypeOK
  <2> QED BY <2>3 DEF Awaited
<1>4. ASSUME NEW t, NotifyNobody(t) \/ ReportRefused(t) PROVE FALSE
  <2>1. troubles \in Nat /\ troubles' = troubles + 1
    BY <1>1, <1>4, Constants DEF TypeOK, NotifyNobody, ReportRefused, Trouble
  <2> QED BY <2>1 DEF Untroubled
<1> QED BY <1>2, <1>3, <1>4 DEF Registry

LEMMA SendAwaits ==
  ASSUME IInv, NEW m, Awaited(m), NEW n \in Msgs, Look(n) \/ Dispatch(n)
  PROVE  Awaited(m)'
<1>1. TypeOK
  BY DEF IInv, TypeInv
<1>2. UNCHANGED <<at, link, notes, rep>>
  BY DEF Look, Dispatch, XAdd, Store, regVars
<1>3. Readable(<<n>>) \in ListEntry
  BY DEF Readable, ListEntry
<1>4. list' = list \/ \E o \in Outcomes : list' = Pushed(list, Readable(<<n>>), o)
  BY DEF Look, Dispatch, XAdd, Store
<1> QED BY <1>1, <1>2, <1>3, <1>4, OthersStay

LEMMA GatewayAwaits ==
  ASSUME IInv, NEW m, Awaited(m), NEW g \in Gateways, Gateway(g)
  PROVE  Awaited(m)'
<1>1. TypeOK
  BY DEF IInv, TypeInv
<1>2. UNCHANGED <<at, link, notes, rep>>
  BY DEF Gateway, Handle, PostFails, PostUnheard, PostBack, regVars
<1>3. Readable(gwk[g].msgs) \in ListEntry
  BY <1>1 DEF Readable, ListEntry, TypeOK, PostType
<1>4. list' = list \/ \E o \in Outcomes : list' = Pushed(list, Readable(gwk[g].msgs), o)
  BY DEF Gateway, Handle, PostFails, PostUnheard, PostBack, Pushed, Outcomes
<1> QED BY <1>1, <1>2, <1>3, <1>4, OthersStay


LEMMA CountAwaits ==
  ASSUME IInv, NEW m, OnList(m) > 0, NEW r \in Replays, NEW o \in Outcomes, Count(r, o),
         Untroubled
  PROVE  Awaited(m)'
<1>1. TypeInv /\ TypeOK
  BY DEF IInv, TypeInv
<1>2. o = "ok"
  BY <1>1, OkOrTrouble DEF Count, Untroubled
<1> DEFINE n == Len(list)
           w == Reading(n, << >>)
<1>3. rep' = [rep EXCEPT ![r] = w] /\ list' = list
  BY <1>2 DEF Count, TriesAgain, Answers, LenOfList
<1>4. n \in Nat /\ DOMAIN list = 1 .. n
  BY <1>1, LenProperties DEF TypeOK
<1>5. w \in RepType /\ w.left = n
  <2> DEFINE s == << >>
  <2>1. s \in Seq(Msgs) /\ w = Reading(n, s)
    OBVIOUS
  <2> HIDE DEF s, w, n
  <2> QED BY <1>4, <2>1, ReadingKeeps
<1> HIDE DEF w
<1>6. ToPop \in Nat /\ ToPop' = ToPop - rep[r].left + w.left /\ ToPop' >= w.left
  BY <1>1, <1>3, <1>5, ToPopMoves
<1>7. PICK i \in 1 .. n : Copies(list[i].msgs, m) > 0
  BY <1>1, SomeEntry
<1>8. i <= ToPop'
  <2>1. rep[r].left \in Nat
    BY <1>1 DEF TypeOK, RepType
  <2>2. PICK p \in Int : p = ToPop'
    BY <1>4, <1>5, <1>6, <2>1
  <2>3. p >= n
    BY <1>5, <1>6, <2>2
  <2>4. i <= p
    BY <1>4, <1>7, <2>2, <2>3
  <2> QED BY <2>2, <2>4
<1>9. Reached(m)'
  BY <1>3, <1>4, <1>7, <1>8 DEF Reached
<1> QED BY <1>9, AwaitedBy

\* The entries move up by one as the replay pops one, which is not the message's.
LEMMA PopAwaits ==
  ASSUME IInv, NEW m \in Msgs, OnList(m) > 0, OnList(m)' >= OnList(m), Awaited(m),
         NEW r \in Replays, NEW o \in Outcomes, Pop(r, o), Untroubled
  PROVE  Awaited(m)'
<1>1. TypeInv /\ TypeOK
  BY DEF IInv, TypeInv
<1>2. o = "ok"
  BY <1>1, OkOrTrouble DEF Pop, Untroubled
<1>3. /\ list \in Seq(ListEntry) /\ Len(list) \in Nat /\ DOMAIN list = 1 .. Len(list)
      /\ rep[r] \in RepType /\ rep[r].pc = "pop" /\ rep[r].left \in Nat \ {0}
      /\ rep[r].acc \in Seq(Msgs)
      /\ UNCHANGED <<at, link, notes>>
  BY <1>1, LenProperties DEF Pop, TypeInv, TypeOK, RepType, RepOK, regVars
<1>4. /\ list # << >> /\ Len(list) > 0
      /\ Head(list) \in ListEntry /\ Head(list).msgs \in Seq(Msgs) /\ Head(list) = list[1]
  <2>1. list # << >> /\ Len(list) > 0
    BY <1>1, <1>3, SomeEntry
  <2>2. Head(list) \in ListEntry /\ Head(list) = list[1]
    BY <1>3, <2>1
  <2> QED BY <2>1, <2>2 DEF ListEntry
<1>5. list' = Tail(list)
  BY <1>2, <1>4 DEF Pop, Popped
<1>6. Copies(list[1].msgs, m) = 0
  <2>1. OnList(m) = OnList(m)' + Copies(Head(list).msgs, m)
    BY <1>1, <1>2, <1>4, ListShrinks DEF Pop
  <2>2. OnList(m) \in Nat /\ OnList(m)' \in Nat
    <3>1. OnList(m) \in Nat
      BY <1>1, Numbers
    <3>2. MsgsOf(list') \in Seq(Seq(Msgs))
      <4>1. list' \in Seq(ListEntry)
        BY <1>3, <1>4, <1>5
      <4> QED BY <4>1, EntryMsgs
    <3>3. CopiesAmong(MsgsOf(list'), m) \in Nat
      BY <3>2, ListsOfSeq
    <3> QED BY <3>1, <3>3 DEF OnList, MsgsOf
  <2>3. Copies(Head(list).msgs, m) \in Nat
    BY <1>4, CopiesType
  <2> QED BY <1>4, <2>1, <2>2, <2>3
<1> DEFINE s == IF Head(list).array THEN rep[r].acc ELSE rep[r].acc \o Head(list).msgs
           w == Reading(rep[r].left - 1, s)
<1>7. rep' = [rep EXCEPT ![r] = w]
  BY <1>2, <1>4 DEF Pop, TriesAgain, Answers
<1>8. w \in RepType /\ w.left = rep[r].left - 1
  <2>1. s \in Seq(Msgs)
    BY <1>3, <1>4
  <2>2. rep[r].left - 1 \in Nat
    BY <1>3
  <2> HIDE DEF s
  <2> QED BY <2>1, <2>2, ReadingKeeps
<1> HIDE DEF w
<1>9. ToPop \in Nat /\ ToPop' = ToPop - 1
  <2>1. ToPop \in Nat /\ ToPop' = ToPop - rep[r].left + w.left
    BY <1>1, <1>7, <1>8, ToPopMoves
  <2> QED BY <1>3, <1>8, <2>1
<1>10. CASE Coming
  <2>1. \A q \in Replays : rep[q].pc = "len" => rep'[q].pc = "len"
    BY <1>1, <1>3, <1>7 DEF TypeOK
  <2>2. Coming'
    BY <1>3, <1>10, <2>1 DEF Coming
  <2> QED BY <2>2, AwaitedBy
<1>11. CASE Reached(m)
  <2>1. PICK i \in DOMAIN list : i <= ToPop /\ Copies(list[i].msgs, m) > 0
    BY <1>11 DEF Reached
  <2>2. i \in 1 .. Len(list) /\ i # 1
    BY <1>3, <1>6, <2>1
  <2>3. i - 1 \in DOMAIN Tail(list) /\ Tail(list)[i - 1] = list[i]
    BY <1>3, <1>4, <2>2
  <2>4. i - 1 <= ToPop - 1
    BY <1>9, <2>1, <2>2
  <2>5. Reached(m)'
    BY <1>5, <1>9, <2>1, <2>3, <2>4 DEF Reached
  <2> QED BY <2>5, AwaitedBy
<1> QED BY <1>10, <1>11, AwaitedBy

LEMMA PushAwaits ==
  ASSUME IInv, NEW m, Awaited(m), NEW r \in Replays, NEW o \in Outcomes,
         RouteBatch(r) \/ XAddBatch(r, o) \/ Back(r, o)
  PROVE  Awaited(m)'
<1>1. TypeInv /\ TypeOK
  BY DEF IInv, TypeInv
<1>2. /\ rep[r] \in RepType /\ RepOK(rep[r]) /\ rep[r].pc \in {"route", "xadd", "back"}
      /\ rep[r].left = 0 /\ rep[r].acc \in Seq(Msgs)
      /\ UNCHANGED <<at, link, notes>>
  BY <1>1 DEF RouteBatch, XAddBatch, Back, TypeInv, TypeOK, RepType, RepOK, regVars
<1>3. list' = list \/ list' = Pushed(list, Unreadable(rep[r].acc), o)
  BY DEF RouteBatch, XAddBatch, Back
<1>4. Unreadable(rep[r].acc) \in ListEntry
  BY <1>2 DEF Unreadable, ListEntry
<1>5. \E w \in RepType : w.left = 0 /\ rep' = [rep EXCEPT ![r] = w]
  <2>1. ASSUME RouteBatch(r) PROVE \E w \in RepType : w.left = 0 /\ rep' = [rep EXCEPT ![r] = w]
    <3>1. PICK g \in Places :
            rep' = [rep EXCEPT ![r] = IF g = Nowhere THEN NotPushed(r)
                                      ELSE [@ EXCEPT !.pc = "xadd", !.to = g, !.tries = Retry]]
      BY <2>1 DEF RouteBatch
    <3> DEFINE w == IF g = Nowhere THEN NotPushed(r)
                    ELSE [rep[r] EXCEPT !.pc = "xadd", !.to = g, !.tries = Retry]
    <3>2. rep[r].pc = "route" /\ rep' = [rep EXCEPT ![r] = w]
      BY <2>1, <3>1 DEF RouteBatch
    <3>3. w \in RepType /\ w.left = 0
      BY <1>1, <1>2, <3>2, NotPushedKeeps, Constants DEF RepType
    <3> QED BY <3>2, <3>3
  <2>2. ASSUME XAddBatch(r, o)
        PROVE  \E w \in RepType : w.left = 0 /\ rep' = [rep EXCEPT ![r] = w]
    <3> DEFINE w == IF TriesAgain(o, rep[r].tries) THEN Again(rep[r])
                    ELSE IF Answers(o) THEN AfterPush(r) ELSE NotPushed(r)
    <3>1. rep[r].pc = "xadd" /\ rep' = [rep EXCEPT ![r] = w]
      BY <2>2 DEF XAddBatch
    <3>2. AfterPush(r) \in RepType /\ AfterPush(r).left = 0
      <4>1. Flush(rep[r].acc).left = 0 /\ NoReplay.left = 0
        BY DEF Flush, NoReplay
      <4> QED BY <1>2, <4>1, FlushKeeps, Stages DEF AfterPush
    <3>3. w \in RepType /\ w.left = 0
      BY <1>1, <1>2, <3>1, <3>2, AgainKeeps, NotPushedKeeps
    <3> QED BY <3>1, <3>3
  <2>3. ASSUME Back(r, o) PROVE \E w \in RepType : w.left = 0 /\ rep' = [rep EXCEPT ![r] = w]
    <3> DEFINE w == IF TriesAgain(o, rep[r].tries) THEN Again(rep[r]) ELSE NoReplay
    <3>1. rep' = [rep EXCEPT ![r] = w]
      BY <2>3 DEF Back
    <3>2. NoReplay.left = 0
      BY DEF NoReplay
    <3>3. w \in RepType /\ w.left = 0
      BY <1>2, <3>2, AgainKeeps, Stages
    <3> QED BY <3>1, <3>3
  <2> QED BY <2>1, <2>2, <2>3
<1>6. PICK w \in RepType : w.left = 0 /\ rep' = [rep EXCEPT ![r] = w]
  BY <1>5
<1> QED BY <1>1, <1>2, <1>3, <1>4, <1>6, ReplayStays

LEMMA StepAwaits ==
  ASSUME IInv, [Next]_vars, NEW m \in Msgs, OnList(m) > 0, OnList(m)' >= OnList(m), Awaited(m)
  PROVE  Awaited(m)' \/ troubles' > troubles
<1> SUFFICES ASSUME Untroubled PROVE Awaited(m)'
  BY DEF Untroubled
<1>1. CASE UNCHANGED vars
  <2>1. UNCHANGED <<at, link, notes, rep, list>>
    BY <1>1 DEF vars, regVars
  <2> QED BY <2>1, OthersStay DEF IInv, TypeInv
<1>2. CASE (\E g \in Gateways : Connect(g)) \/ Disconnect \/ RouteExpires \/ CacheExpires
  BY <1>2, UserAwaits
<1>3. CASE Registry
  BY <1>3, RegistryAwaits
<1>4. ASSUME NEW g \in Gateways, Gateway(g) PROVE Awaited(m)'
  BY <1>4, GatewayAwaits
<1>5. ASSUME NEW n \in Msgs, Look(n) \/ Dispatch(n) PROVE Awaited(m)'
  BY <1>5, SendAwaits
<1>6. ASSUME NEW r \in Replays, Replay(r) PROVE Awaited(m)'
  <2>1. CASE RouteBatch(r)
    <3>1. "ok" \in Outcomes
      BY DEF Outcomes
    <3> QED BY <2>1, <3>1, PushAwaits
  <2>2. ASSUME NEW o \in Outcomes, XAddBatch(r, o) \/ Back(r, o) PROVE Awaited(m)'
    BY <2>2, PushAwaits
  <2>3. ASSUME NEW o \in Outcomes, Count(r, o) \/ Pop(r, o) PROVE Awaited(m)'
    BY <2>3, CountAwaits, PopAwaits
  <2> QED BY <1>6, <2>1, <2>2, <2>3 DEF Replay
<1> QED BY <1>1, <1>2, <1>3, <1>4, <1>5, <1>6 DEF Next

\* Once a replay is to come for a message on the offline list it comes, however the
\* user comes and goes and however many replays pop at a time, unless a request fails
\* (channel_cache.go:95, pushnotify).
THEOREM ReplayStaysAwaited == Spec => StaysAwaited
<1>1. IInv /\ [Next]_vars
        => [\A m \in Msgs :
              OnList(m) > 0 /\ OnList(m)' >= OnList(m) /\ Awaited(m)
                => Awaited(m)' \/ troubles' > troubles]_vars
  BY StepAwaits
<1> QED BY <1>1, Invariant, PTL DEF Spec, StaysAwaited
================================================================================
