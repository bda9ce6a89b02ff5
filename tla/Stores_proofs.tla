----------------------------- MODULE Stores_proofs -----------------------------
(* Proofs about the three components that keep data and have no part in each      *)
(* other: MsgStore, then Monitor (the ring over wrap-around, expiry and            *)
(* overwriting), then GroupCache.                                                  *)
EXTENDS MsgStore, Monitor, GroupCache, Counting_proofs

\* Nothing is held between rounds, and a batch that is being popped is as long as
\* there were pops.
HandOK(w) ==
  /\ w.pc = "idle" => w.hand = << >>
  /\ w.pc = "pop" => Len(w.hand) = w.pops

PopsOK == \A f \in Flushers : HandOK(fl[f])

TypeInv == TypeOK /\ PopsOK

Sent(m) == IF req[m].pc = "sent" THEN 1 ELSE 0

\* The messages in the flushers' hands, as a number.
InHands(m) == CopiesAmong(Hands, m)

LEMMA Constants ==
  Batch \in Nat /\ Batch > 0 /\ Retry \in Nat /\ Retry > 0 /\ MaxTroubles \in Nat
BY StoreAssumption

LEMMA Stages ==
  /\ Idle \in FlType /\ HandOK(Idle) /\ Idle.hand = << >>
  /\ \A s \in Seq(Msgs) :
       /\ Inserting(s) \in FlType /\ HandOK(Inserting(s)) /\ Inserting(s).hand = s
       /\ Returning(s) \in FlType /\ HandOK(Returning(s)) /\ Returning(s).hand = s
       /\ \A n \in 0 .. Batch :
            /\ Popping(s, n) \in FlType /\ Popping(s, n).hand = s
            /\ Len(s) = n => HandOK(Popping(s, n))
BY Constants DEF Idle, Inserting, Returning, Popping, FlType, HandOK

LEMMA Numbers ==
  ASSUME TypeInv, NEW m \in Msgs
  PROVE  /\ Copies(list, m) \in Nat /\ InHands(m) \in Nat
         /\ gone[m] \in Nat /\ dup[m] \in Nat
         /\ \A f \in Flushers : fl[f].hand \in Seq(Msgs) /\ Copies(fl[f].hand, m) \in Nat
<1>1. \A f \in Flushers : fl[f].hand \in Seq(Msgs)
  BY DEF TypeInv, TypeOK, FlType
<1>2. Hands \in Lists(Flushers, Msgs)
  BY <1>1 DEF Hands, Lists
<1>3. InHands(m) \in Nat
  BY <1>2, StoreAssumption, CopiesAmongType DEF InHands
<1> QED BY <1>1, <1>3, CopiesType DEF TypeInv, TypeOK

\* What a step of one flusher does to the types and to the hands.
LEMMA FlusherMoves ==
  ASSUME TypeInv, NEW f \in Flushers, NEW w, w \in FlType, Len(w.hand) <= Batch,
         HandOK(w), fl' = [fl EXCEPT ![f] = w]
  PROVE  /\ fl' \in [Flushers -> FlType]
         /\ \A g \in Flushers : Len(fl'[g].hand) <= Batch
         /\ PopsOK'
         /\ \A m \in Msgs :
              InHands(m)' = InHands(m) - Copies(fl[f].hand, m) + Copies(w.hand, m)
<1>1. fl' \in [Flushers -> FlType]
  BY DEF TypeInv, TypeOK
<1>2. \A g \in Flushers : Len(fl'[g].hand) <= Batch
  BY DEF TypeInv, TypeOK
<1>3. PopsOK'
  BY DEF TypeInv, TypeOK, PopsOK
<1>4. Hands \in Lists(Flushers, Msgs) /\ Hands' \in Lists(Flushers, Msgs)
  BY <1>1 DEF Hands, Lists, TypeInv, TypeOK, FlType
<1>5. SameBut(Hands', Hands, Flushers, f)
  BY DEF SameBut, Hands, TypeInv, TypeOK
<1>6. Hands[f] = fl[f].hand /\ Hands'[f] = w.hand
  BY DEF Hands, TypeInv, TypeOK
<1>7. ASSUME NEW m \in Msgs
      PROVE  InHands(m)' = InHands(m) - Copies(fl[f].hand, m) + Copies(w.hand, m)
  <2>1. CopiesAmong(Hands', m) = CopiesAmong(Hands, m) - Copies(Hands[f], m) + Copies(Hands'[f], m)
    BY <1>4, <1>5, StoreAssumption, CopiesAmongDiffer
  <2> QED BY <2>1, <1>6 DEF InHands
<1> QED BY <1>1, <1>2, <1>3, <1>7
--------------------------------------------------------------------------------
(* Every step keeps the types and the balance of copies. *)

Balance(m) ==
  Copies(list, m) + InHands(m) + Stored(m) + gone[m] = dup[m] + Sent(m)

IInv == TypeInv /\ \A m \in Msgs : Balance(m)

LEMMA BalanceIsConserved == Conserved <=> \A m \in Msgs : Balance(m)
BY DEF Conserved, Balance, Waiting, InHands, Sent

LEMMA InitInv == Init => IInv
<1> SUFFICES ASSUME Init PROVE IInv
  OBVIOUS
<1>1. TypeInv
  BY Constants DEF Init, TypeInv, TypeOK, PopsOK, HandOK, Idle, ReqType, FlType
<1>2. ASSUME NEW m \in Msgs PROVE Balance(m)
  <2>1. \A k \in DOMAIN Hands : Hands[k] = << >>
    BY DEF Init, Hands, Idle
  <2>2. InHands(m) = 0
    BY <2>1, CopiesAmongEmpty DEF InHands
  <2>3. Copies(list, m) = 0
    BY CopiesEmpty DEF Init
  <2> QED BY <2>2, <2>3 DEF Init, Balance, Stored, Found, Sent
<1> QED BY <1>1, <1>2 DEF IInv

LEMMA AttemptType ==
  ASSUME TypeInv, NEW o, Attempt(o)
  PROVE  troubles' \in 0 .. MaxTroubles
BY StoreAssumption DEF TypeInv, TypeOK, Attempt, Trouble

LEMMA SendInv ==
  ASSUME IInv, NEW m \in Msgs, NEW long \in BOOLEAN, Send(m, long)
  PROVE  IInv'
<1>1. TypeInv'
  BY StoreAssumption DEF IInv, TypeInv, TypeOK, PopsOK, Send, ReqType
<1>2. ASSUME NEW n \in Msgs PROVE Balance(n)'
  <2>1. Sent(n)' = Sent(n)
    BY DEF Sent, Send, IInv, TypeInv, TypeOK
  <2>2. InHands(n)' = InHands(n)
    BY DEF InHands, Hands, Send
  <2> QED BY <2>1, <2>2 DEF IInv, Balance, Stored, Found, Send
<1> QED BY <1>1, <1>2 DEF IInv

LEMMA PushInv ==
  ASSUME IInv, NEW m \in Msgs, NEW o \in Outcomes, Push(m, o)
  PROVE  IInv'
<1> USE DEF IInv
<1> DEFINE r == IF TriesAgain(o, req[m].tries) THEN Again(req[m])
                ELSE RequestEnds(req[m], IF Answers(o) THEN "sent" ELSE "refused")
<1>1. req' = [req EXCEPT ![m] = r] /\ req[m] \in ReqType /\ req[m].pc = "push"
  BY DEF Push, TypeInv, TypeOK
<1>2. r \in ReqType /\ (r.pc = "sent" <=> o = "ok")
  <2>1. CASE TriesAgain(o, req[m].tries)
    <3>1. r = [req[m] EXCEPT !.tries = @ - 1]
      BY <2>1 DEF Again
    <3>2. req[m].tries - 1 \in 0 .. Retry
      BY <1>1, <2>1, Constants DEF TriesAgain, ReqType
    <3> QED BY <1>1, <2>1, <3>1, <3>2 DEF TriesAgain, ReqType
  <2>2. CASE ~ TriesAgain(o, req[m].tries)
    <3>1. r = RequestEnds(req[m], IF Answers(o) THEN "sent" ELSE "refused")
      BY <2>2
    <3> QED BY <1>1, <3>1, Constants DEF Answers, RequestEnds, ReqType
  <2> QED BY <2>1, <2>2
<1> HIDE DEF r
<1>3. /\ list' \in Seq(Msgs)
      /\ \A n \in Msgs : Copies(list', n)
                           = Copies(list, n) + IF o # "failed" /\ m = n THEN 1 ELSE 0
  BY PushedCopies DEF Push, TypeInv, TypeOK
<1>4. dup' \in [Msgs -> Nat] /\ \A n \in Msgs :
        dup'[n] = dup[n] + IF m = n THEN Lost(o) ELSE 0
  BY DEF Push, TypeInv, TypeOK, Lost
<1>5. TypeInv'
  BY <1>1, <1>2, <1>3, <1>4, AttemptType DEF TypeInv, TypeOK, PopsOK, Push
<1>6. ASSUME NEW n \in Msgs PROVE Balance(n)'
  <2>1. InHands(n)' = InHands(n) /\ Stored(n)' = Stored(n) /\ gone' = gone
    BY DEF InHands, Hands, Push, Stored, Found
  <2>2. Sent(n)' = Sent(n) + IF m = n /\ o = "ok" THEN 1 ELSE 0
    BY <1>1, <1>2 DEF Sent, TypeInv, TypeOK
  <2>3. Balance(n)
    OBVIOUS
  <2>4. /\ Copies(list, n) \in Nat /\ InHands(n) \in Nat /\ gone[n] \in Nat
        /\ dup[n] \in Nat /\ Stored(n) \in Nat /\ Sent(n) \in Nat
    BY Numbers DEF Stored, Sent
  <2>5. CASE m = n
    <3>1. /\ Copies(list', n) = Copies(list, n) + IF o # "failed" THEN 1 ELSE 0
          /\ dup'[n] = dup[n] + IF o = "lost" THEN 1 ELSE 0
          /\ Sent(n)' = Sent(n) + IF o = "ok" THEN 1 ELSE 0
      BY <1>3, <1>4, <2>2, <2>5 DEF Lost
    <3> QED BY <2>1, <2>3, <2>4, <3>1 DEF Balance, Outcomes
  <2>6. CASE m # n
    BY <1>3, <1>4, <2>1, <2>2, <2>3, <2>4, <2>6 DEF Balance
  <2> QED BY <2>5, <2>6
<1> QED BY <1>5, <1>6

LEMMA AfterPopsKeeps ==
  ASSUME NEW s \in Seq(Msgs)
  PROVE  AfterPops(s) \in FlType /\ AfterPops(s).hand = s /\ HandOK(AfterPops(s))
<1>1. CASE s = << >>
  BY <1>1, Stages DEF AfterPops, WorthIt
<1>2. CASE s # << >>
  BY <1>2, Stages DEF AfterPops, WorthIt
<1> QED BY <1>1, <1>2

LEMMA FlusherType ==
  ASSUME IInv, NEW f \in Flushers
  PROVE  /\ fl[f] \in FlType /\ fl[f].hand \in Seq(Msgs) /\ Len(fl[f].hand) <= Batch
         /\ HandOK(fl[f])
         /\ fl[f].tries \in 0 .. Retry /\ fl[f].pops \in 0 .. Batch
BY DEF IInv, TypeInv, TypeOK, FlType, PopsOK

LEMMA AgainKeeps ==
  ASSUME NEW w \in FlType, HandOK(w), NEW o, TriesAgain(o, w.tries)
  PROVE  Again(w) \in FlType /\ Again(w).hand = w.hand /\ HandOK(Again(w))
BY Constants DEF FlType, HandOK, Again, TriesAgain

\* A step of a flusher that keeps what it has in its hand.
LEMMA QuietInv ==
  ASSUME IInv, NEW f \in Flushers, Tick(f) \/ Full(f) \/ AllBack(f)
  PROVE  IInv'
<1> USE DEF IInv
<1>1. fl[f] \in FlType /\ fl[f].hand \in Seq(Msgs) /\ Len(fl[f].hand) <= Batch /\ HandOK(fl[f])
  BY DEF TypeInv, TypeOK, FlType, PopsOK
<1>2. Idle \in FlType /\ Idle.hand = << >> /\ HandOK(Idle)
  BY Stages
<1>3. PICK w \in FlType :
        fl' = [fl EXCEPT ![f] = w] /\ w.hand = fl[f].hand /\ HandOK(w)
  <2>1. CASE Tick(f)
    <3>1. fl[f].hand = << >>
      BY <1>1, <2>1 DEF Tick, HandOK
    <3>2. << >> \in Seq(Msgs) /\ Len(<< >>) = 0 /\ 0 \in 0 .. Batch
      BY Constants
    <3>3. /\ Popping(<< >>, 0) \in FlType /\ Popping(<< >>, 0).hand = << >>
          /\ HandOK(Popping(<< >>, 0))
      BY <3>2, Stages
    <3> QED BY <2>1, <3>1, <3>3 DEF Tick
  <2>2. CASE Full(f)
    BY <1>1, <2>2, AfterPopsKeeps DEF Full
  <2>3. CASE AllBack(f)
    BY <1>2, <2>3, Stages DEF AllBack
  <2> QED BY <2>1, <2>2, <2>3
<1>4. UNCHANGED <<list, table, req, troubles, gone, dup>>
  BY DEF Tick, Full, AllBack
<1>5. TypeInv'
  BY <1>1, <1>3, <1>4, FlusherMoves DEF TypeInv, TypeOK
<1>6. ASSUME NEW m \in Msgs PROVE Balance(m)'
  <2>1. InHands(m)' = InHands(m) - Copies(fl[f].hand, m) + Copies(w.hand, m)
    BY <1>1, <1>3, FlusherMoves
  <2>2. InHands(m)' = InHands(m)
    BY <1>3, <2>1, Numbers
  <2> QED BY <1>4, <2>2 DEF Balance, Stored, Found, Sent
<1> QED BY <1>5, <1>6

LEMMA PopInv ==
  ASSUME IInv, NEW f \in Flushers, NEW o \in Outcomes, Pop(f, o)
  PROVE  IInv'
<1> USE DEF IInv
<1> DEFINE taken == o # "failed" /\ list # << >>
           kept == o = "ok" /\ list # << >>
<1>1. fl[f] \in FlType /\ fl[f].hand \in Seq(Msgs) /\ Len(fl[f].hand) <= Batch /\ HandOK(fl[f])
  BY FlusherType
<1>2. list \in Seq(Msgs)
  BY DEF TypeInv, TypeOK
<1>3. PICK w \in FlType :
        /\ fl' = [fl EXCEPT ![f] = w] /\ HandOK(w) /\ Len(w.hand) <= Batch
        /\ w.hand = IF kept THEN Append(fl[f].hand, Head(list)) ELSE fl[f].hand
  <2>1. CASE TriesAgain(o, fl[f].tries)
    <3>1. o # "ok"
      BY <2>1 DEF TriesAgain
    <3> QED BY <1>1, <2>1, <3>1, AgainKeeps DEF Pop
  <2>2. CASE ~ TriesAgain(o, fl[f].tries) /\ kept
    <3> DEFINE s == Append(fl[f].hand, Head(list))
               n == fl[f].pops + 1
    <3>1. fl' = [fl EXCEPT ![f] = Popping(s, n)]
      BY <2>2 DEF Pop, Answers
    <3>2. Head(list) \in Msgs
      BY <1>2, <2>2, HeadTailProperties
    <3>3. s \in Seq(Msgs) /\ Len(s) = Len(fl[f].hand) + 1
      BY <1>1, <3>2, AppendProperties
    <3>4. n \in 0 .. Batch /\ Len(s) = n
      BY <1>1, <3>3, FlusherType, Constants DEF Pop, MorePops, HandOK
    <3> HIDE DEF s, n
    <3>5. Popping(s, n) \in FlType /\ Popping(s, n).hand = s /\ HandOK(Popping(s, n))
      BY <3>3, <3>4, Stages
    <3>6. s = IF kept THEN Append(fl[f].hand, Head(list)) ELSE fl[f].hand
      BY <2>2 DEF s
    <3>7. Len(s) <= Batch
      BY <3>4, Constants
    <3> HIDE DEF kept
    <3> QED BY <3>1, <3>5, <3>6, <3>7
  <2>3. CASE ~ TriesAgain(o, fl[f].tries) /\ ~ kept
    <3>1. fl' = [fl EXCEPT ![f] = AfterPops(fl[f].hand)]
      BY <2>3 DEF Pop, Answers
    <3> QED BY <1>1, <2>3, <3>1, AfterPopsKeeps
  <2> QED BY <2>1, <2>2, <2>3
<1>4. /\ list' \in Seq(Msgs)
      /\ \A m \in Msgs : Copies(list, m)
                           = Copies(list', m) + IF taken /\ Head(list) = m THEN 1 ELSE 0
  BY <1>2, PoppedCopies DEF Pop
<1>5. /\ gone' \in [Msgs -> Nat]
      /\ \A m \in Msgs :
           gone'[m] = gone[m] + IF taken /\ ~ kept /\ Head(list) = m THEN 1 ELSE 0
  <2>1. list # << >> => Head(list) \in Msgs
    BY <1>2, HeadTailProperties
  <2>2. gone' = IF taken /\ ~ kept THEN [gone EXCEPT ![Head(list)] = @ + 1] ELSE gone
    BY DEF Pop, Outcomes
  <2> QED BY <2>1, <2>2 DEF TypeInv, TypeOK
<1>6. TypeInv'
  BY <1>3, <1>4, <1>5, FlusherMoves, AttemptType DEF TypeInv, TypeOK, Pop
<1>7. ASSUME NEW m \in Msgs PROVE Balance(m)'
  <2>1. InHands(m)' = InHands(m) - Copies(fl[f].hand, m) + Copies(w.hand, m)
    BY <1>3, FlusherMoves
  <2>2. Copies(w.hand, m)
          = Copies(fl[f].hand, m) + IF kept /\ Head(list) = m THEN 1 ELSE 0
    <3>1. CASE kept
      <4>1. Head(list) \in Msgs
        BY <1>2, <3>1, HeadTailProperties
      <4>2. Copies(Append(fl[f].hand, Head(list)), m)
              = Copies(fl[f].hand, m) + IF Head(list) = m THEN 1 ELSE 0
        BY <1>1, <4>1, CopiesAppend
      <4> QED BY <1>3, <3>1, <4>2
    <3>2. CASE ~ kept
      BY <1>3, <3>2, Numbers
    <3> QED BY <3>1, <3>2
  <2>3. Stored(m)' = Stored(m) /\ Sent(m)' = Sent(m) /\ dup' = dup
    BY DEF Pop, Stored, Found, Sent
  <2>4. /\ Copies(list', m) \in Nat /\ Copies(list, m) \in Nat /\ InHands(m) \in Nat
        /\ Copies(fl[f].hand, m) \in Nat /\ gone[m] \in Nat /\ dup[m] \in Nat
        /\ Stored(m) \in Nat /\ Sent(m) \in Nat
    BY <1>4, Numbers, CopiesType DEF Stored, Sent
  <2>5. Balance(m)
    OBVIOUS
  <2> DEFINE t == IF taken /\ Head(list) = m THEN 1 ELSE 0
             k == IF kept /\ Head(list) = m THEN 1 ELSE 0
             g == IF taken /\ ~ kept /\ Head(list) = m THEN 1 ELSE 0
  <2>6. t = k + g /\ k \in Nat /\ g \in Nat
    OBVIOUS
  <2>7. /\ Copies(list, m) = Copies(list', m) + t
        /\ gone'[m] = gone[m] + g
        /\ Copies(w.hand, m) = Copies(fl[f].hand, m) + k
    BY <1>4, <1>5, <2>2
  <2> HIDE DEF t, k, g
  <2>8. InHands(m)' = InHands(m) + k
    BY <2>1, <2>4, <2>6, <2>7
  <2> QED BY <2>3, <2>4, <2>5, <2>6, <2>7, <2>8 DEF Balance
<1> QED BY <1>6, <1>7

LEMMA InsertInv ==
  ASSUME IInv, NEW f \in Flushers, NEW o \in Outcomes, Insert(f, o)
  PROVE  IInv'
<1> USE DEF IInv
<1> DEFINE hand == fl[f].hand
           done == o # "failed"
<1>1. fl[f] \in FlType /\ hand \in Seq(Msgs) /\ Len(hand) <= Batch /\ HandOK(fl[f])
  BY FlusherType
<1>2. PICK w \in FlType :
        /\ fl' = [fl EXCEPT ![f] = w] /\ HandOK(w) /\ Len(w.hand) <= Batch
        /\ w.hand = IF o = "ok" THEN << >> ELSE hand
  <2>1. CASE o = "ok"
    <3>1. fl' = [fl EXCEPT ![f] = Idle] /\ Len(Idle.hand) <= Batch
      BY <2>1, Stages, Constants DEF Insert
    <3> QED BY <2>1, <3>1, Stages
  <2>2. CASE o # "ok"
    BY <1>1, <2>2, Stages DEF Insert, KeptBack
  <2> QED BY <2>1, <2>2
<1>3. troubles' \in 0 .. MaxTroubles
  BY AttemptType DEF Insert, TypeInv, TypeOK
<1>4. \A i \in DOMAIN hand : hand[i] \in Msgs
  BY <1>1
<1>5. table' \subseteq Msgs /\ table' = IF done THEN table \cup ToSet(hand) ELSE table
  BY <1>4 DEF Insert, ToSet, TypeInv, TypeOK
<1>6. /\ dup' \in [Msgs -> Nat]
      /\ \A m \in Msgs :
           dup'[m] = dup[m] + IF o = "lost" /\ m \in ToSet(hand) THEN 1 ELSE 0
  BY DEF Insert, Lost, TypeInv, TypeOK
<1>7. TypeInv'
  BY <1>2, <1>3, <1>5, <1>6, FlusherMoves DEF TypeInv, TypeOK, Insert
<1>8. ASSUME NEW m \in Msgs PROVE Balance(m)'
  <2> DEFINE h == Copies(hand, m)
  <2>1. h \in Nat
    BY <1>1, CopiesType
  <2>2. InHands(m)' = InHands(m) - h + Copies(w.hand, m)
    BY <1>2, FlusherMoves
  <2>3. Copies(w.hand, m) = IF o = "ok" THEN 0 ELSE h
    BY <1>2, CopiesEmpty
  <2>4. done => /\ h = IF m \in ToSet(hand) THEN 1 ELSE 0
                /\ Stored(m)' = Stored(m) + h
    <3> SUFFICES ASSUME done PROVE /\ h = IF m \in ToSet(hand) THEN 1 ELSE 0
                                   /\ Stored(m)' = Stored(m) + h
      OBVIOUS
    <3>1. Storable(hand)
      BY DEF Insert
    <3>2. \A i, j \in DOMAIN hand : hand[i] = hand[j] => i = j
      BY <3>1 DEF Storable
    <3>3. h = IF \E i \in DOMAIN hand : hand[i] = m THEN 1 ELSE 0
      BY <1>1, <3>2, CopiesInjective
    <3>4. h = IF m \in ToSet(hand) THEN 1 ELSE 0
      BY <3>3 DEF ToSet
    <3>5. m \in ToSet(hand) => m \notin table
      BY <3>1 DEF Storable, ToSet
    <3>6. table' = table \cup ToSet(hand)
      BY <1>5
    <3> QED BY <3>4, <3>5, <3>6 DEF Stored, Found
  <2>5. ~ done => Stored(m)' = Stored(m)
    BY <1>5 DEF Stored, Found
  <2>6. Copies(list', m) = Copies(list, m) /\ Sent(m)' = Sent(m) /\ gone'[m] = gone[m]
    BY DEF Insert, Sent
  <2>7. /\ Copies(list, m) \in Nat /\ InHands(m) \in Nat /\ gone[m] \in Nat
        /\ dup[m] \in Nat /\ Stored(m) \in Nat /\ Sent(m) \in Nat
    BY Numbers DEF Stored, Sent
  <2>8. Balance(m)
    OBVIOUS
  <2>9. dup'[m] = dup[m] + IF o = "lost" THEN h ELSE 0
    BY <1>6, <2>4
  <2> HIDE DEF h
  <2>10. CASE o = "ok"
    BY <2>1, <2>2, <2>3, <2>4, <2>6, <2>7, <2>8, <2>9, <2>10 DEF Balance
  <2>11. CASE o = "lost"
    BY <2>1, <2>2, <2>3, <2>4, <2>6, <2>7, <2>8, <2>9, <2>11 DEF Balance
  <2>12. CASE o = "failed"
    BY <2>1, <2>2, <2>3, <2>5, <2>6, <2>7, <2>8, <2>9, <2>12 DEF Balance
  <2> QED BY <2>10, <2>11, <2>12 DEF Outcomes
<1> QED BY <1>7, <1>8

LEMMA PutBackInv ==
  ASSUME IInv, NEW f \in Flushers, NEW o \in Outcomes, PutBack(f, o)
  PROVE  IInv'
<1> USE DEF IInv
<1> DEFINE hand == fl[f].hand
           e == Last(hand)
           again == TriesAgain(o, fl[f].tries)
<1>1. /\ fl[f] \in FlType /\ hand \in Seq(Msgs) /\ Len(hand) <= Batch /\ HandOK(fl[f])
      /\ hand # << >> /\ Len(hand) \in Nat /\ e \in Msgs
  <2>1. hand \in Seq(Msgs) /\ hand # << >>
    BY FlusherType DEF PutBack
  <2>2. Len(hand) \in Nat \ {0} /\ hand[Len(hand)] \in Msgs
    BY <2>1, EmptySeq, ElementOfSeq
  <2> QED BY <2>1, <2>2, FlusherType DEF Last
<1>2. /\ Front(hand) \in Seq(Msgs) /\ Len(Front(hand)) = Len(hand) - 1
      /\ \A m \in Msgs :
           Copies(hand, m) = Copies(Front(hand), m) + IF e = m THEN 1 ELSE 0
  BY <1>1, CopiesWithoutLast DEF Front, Last
<1>3. PICK w \in FlType :
        /\ fl' = [fl EXCEPT ![f] = w] /\ HandOK(w) /\ Len(w.hand) <= Batch
        /\ w.hand = IF again THEN hand ELSE Front(hand)
  <2>1. CASE again
    BY <1>1, <2>1, AgainKeeps DEF PutBack
  <2>2. CASE ~ again
    <3>1. fl' = [fl EXCEPT ![f] = Returning(Front(hand))]
      BY <2>2 DEF PutBack
    <3>2. Len(Front(hand)) <= Batch
      BY <1>1, <1>2, Constants
    <3> QED BY <1>2, <2>2, <3>1, <3>2, Stages
  <2> QED BY <2>1, <2>2
<1>4. /\ list' \in Seq(Msgs)
      /\ \A m \in Msgs : Copies(list', m)
                           = Copies(list, m) + IF o # "failed" /\ e = m THEN 1 ELSE 0
  BY <1>1, PushedCopies DEF PutBack, TypeInv, TypeOK
<1>5. /\ dup' \in [Msgs -> Nat]
      /\ \A m \in Msgs : dup'[m] = dup[m] + IF o = "lost" /\ e = m THEN 1 ELSE 0
  BY <1>1 DEF PutBack, Lost, TypeInv, TypeOK
<1>6. GivesUp(o, fl[f].tries) <=> o = "failed" \/ (o = "lost" /\ ~ again)
  BY FlusherType, Constants DEF GivesUp, TriesAgain
<1>7. /\ gone' \in [Msgs -> Nat]
      /\ \A m \in Msgs :
           gone'[m] = gone[m] + IF GivesUp(o, fl[f].tries) /\ e = m THEN 1 ELSE 0
  BY <1>1 DEF PutBack, TypeInv, TypeOK
<1>8. TypeInv'
  BY <1>3, <1>4, <1>5, <1>7, FlusherMoves, AttemptType DEF TypeInv, TypeOK, PutBack
<1>9. ASSUME NEW m \in Msgs PROVE Balance(m)'
  <2>1. InHands(m)' = InHands(m) - Copies(hand, m) + Copies(w.hand, m)
    BY <1>3, FlusherMoves
  <2>2. Stored(m)' = Stored(m) /\ Sent(m)' = Sent(m)
    BY DEF PutBack, Stored, Found, Sent
  <2>3. /\ Copies(list, m) \in Nat /\ InHands(m) \in Nat /\ gone[m] \in Nat
        /\ dup[m] \in Nat /\ Stored(m) \in Nat /\ Sent(m) \in Nat
        /\ Copies(hand, m) \in Nat /\ Copies(Front(hand), m) \in Nat
    BY <1>2, Numbers, CopiesType DEF Stored, Sent
  <2>4. Balance(m)
    OBVIOUS
  <2>5. again => o = "lost"
    BY DEF TriesAgain
  <2>6. o \in {"ok", "lost", "failed"}
    BY DEF Outcomes
  <2> DEFINE u == IF e = m THEN 1 ELSE 0
  <2>7. u \in Nat
    OBVIOUS
  <2>8. /\ Copies(list', m) = Copies(list, m) + IF o # "failed" THEN u ELSE 0
        /\ dup'[m] = dup[m] + IF o = "lost" THEN u ELSE 0
        /\ gone'[m] = gone[m] + IF o = "failed" \/ (o = "lost" /\ ~ again) THEN u ELSE 0
        /\ Copies(hand, m) = Copies(Front(hand), m) + u
    BY <1>2, <1>4, <1>5, <1>6, <1>7, <2>3
  <2> HIDE DEF u, again
  <2>9. CASE again
    <3>1. InHands(m)' = InHands(m)
      BY <1>3, <2>1, <2>3, <2>9
    <3>2. Copies(list', m) = Copies(list, m) + u /\ dup'[m] = dup[m] + u
      BY <2>5, <2>8, <2>9
    <3>3. gone'[m] = gone[m]
      BY <2>3, <2>5, <2>8, <2>9
    <3> QED BY <2>2, <2>3, <2>4, <2>7, <3>1, <3>2, <3>3 DEF Balance
  <2>10. CASE ~ again
    <3>1. InHands(m)' = InHands(m) - u
      BY <1>3, <2>1, <2>3, <2>7, <2>8, <2>10
    <3>2. Copies(list', m) + gone'[m] + dup[m] = Copies(list, m) + gone[m] + dup'[m] + u
      BY <2>3, <2>6, <2>7, <2>8, <2>10
    <3>3. Copies(list', m) \in Nat /\ gone'[m] \in Nat /\ dup'[m] \in Nat
      BY <1>4, <1>5, <1>7, CopiesType
    <3>4. PICK l \in Nat, h \in Nat, n \in Nat, g \in Nat, d \in Nat, t \in Nat,
               l2 \in Nat, g2 \in Nat, d2 \in Nat :
            /\ l = Copies(list, m) /\ h = InHands(m) /\ n = Stored(m) /\ g = gone[m]
            /\ d = dup[m] /\ t = Sent(m)
            /\ l2 = Copies(list', m) /\ g2 = gone'[m] /\ d2 = dup'[m]
      BY <2>3, <3>3
    <3>5. l + h + n + g = d + t
      BY <2>4, <3>4 DEF Balance
    <3>6. l2 + g2 + d = l + g + d2 + u
      BY <3>2, <3>4
    <3>7. l2 + (h - u) + n + g2 = d2 + t
      BY <2>7, <3>5, <3>6
    <3> QED BY <2>2, <3>1, <3>4, <3>7 DEF Balance
  <2> QED BY <2>9, <2>10
<1> QED BY <1>8, <1>9

LEMMA KillSendInv ==
  ASSUME IInv, NEW s \in Sends, KillSend(s)
  PROVE  IInv'
<1>1. /\ req \in [Msgs -> ReqType] /\ 0 \in 0 .. Retry
      /\ req' = [m \in Msgs |-> IF By[m] = s /\ req[m].pc = "push"
                                THEN RequestEnds(req[m], "refused") ELSE req[m]]
  BY Constants DEF IInv, TypeInv, TypeOK, KillSend
<1>2. req' \in [Msgs -> ReqType] /\ \A m \in Msgs : Sent(m)' = Sent(m)
  <2>1. ASSUME NEW m \in Msgs PROVE req'[m] \in ReqType /\ Sent(m)' = Sent(m)
    <3>1. CASE By[m] = s /\ req[m].pc = "push"
      <4>1. req'[m] = RequestEnds(req[m], "refused")
        BY <1>1, <3>1
      <4> QED BY <1>1, <3>1, <4>1 DEF Sent, ReqType, RequestEnds
    <3>2. CASE ~ (By[m] = s /\ req[m].pc = "push")
      <4>1. req'[m] = req[m]
        BY <1>1, <3>2
      <4> QED BY <1>1, <4>1 DEF Sent
    <3> QED BY <3>1, <3>2
  <2> QED BY <1>1, <2>1
<1>3. TypeInv'
  BY <1>2, Constants DEF IInv, TypeInv, TypeOK, PopsOK, KillSend, Trouble
<1>4. ASSUME NEW m \in Msgs PROVE Balance(m)'
  <2>1. Sent(m)' = Sent(m)
    BY <1>2
  <2>2. InHands(m)' = InHands(m)
    BY DEF InHands, Hands, KillSend
  <2> QED BY <2>1, <2>2 DEF IInv, Balance, Stored, Found, KillSend
<1> QED BY <1>3, <1>4 DEF IInv

LEMMA KillFlusherInv ==
  ASSUME IInv, NEW f \in Flushers, KillFlusher(f)
  PROVE  IInv'
<1> USE DEF IInv
<1>1. fl' = [fl EXCEPT ![f] = Idle] /\ Len(Idle.hand) <= Batch
  BY Stages, Constants DEF KillFlusher
<1>2. /\ gone' \in [Msgs -> Nat]
      /\ \A m \in Msgs : gone'[m] = gone[m] + Copies(fl[f].hand, m)
  BY Numbers DEF KillFlusher
<1>3. TypeInv'
  <2>1. /\ fl' \in [Flushers -> FlType] /\ PopsOK'
        /\ \A g \in Flushers : Len(fl'[g].hand) <= Batch
    BY <1>1, Stages, FlusherMoves
  <2>2. troubles' \in 0 .. MaxTroubles
    BY Constants DEF TypeInv, TypeOK, KillFlusher, Trouble
  <2> QED BY <1>2, <2>1, <2>2 DEF TypeInv, TypeOK, KillFlusher
<1>4. ASSUME NEW m \in Msgs PROVE Balance(m)'
  <2>1. InHands(m)' = InHands(m) - Copies(fl[f].hand, m) + Copies(Idle.hand, m)
    <3>1. Idle \in FlType /\ HandOK(Idle)
      BY Stages
    <3> QED BY <1>1, <3>1, FlusherMoves
  <2>2. Copies(Idle.hand, m) = 0
    BY Stages, CopiesEmpty
  <2>3. /\ UNCHANGED <<list, table, req, dup>>
        /\ Stored(m)' = Stored(m) /\ Sent(m)' = Sent(m)
    BY DEF KillFlusher, Stored, Found, Sent
  <2>4. Stored(m) \in Nat /\ Sent(m) \in Nat
    BY DEF Stored, Sent
  <2>5. /\ Copies(list, m) \in Nat /\ InHands(m) \in Nat /\ gone[m] \in Nat
        /\ dup[m] \in Nat /\ Copies(fl[f].hand, m) \in Nat
    BY Numbers
  <2>6. Balance(m)
    OBVIOUS
  <2> QED BY <1>2, <2>1, <2>2, <2>3, <2>4, <2>5, <2>6 DEF Balance
<1> QED BY <1>3, <1>4

LEMMA StepInv == IInv /\ [Next]_vars => IInv'
<1> SUFFICES ASSUME IInv, [Next]_vars PROVE IInv'
  OBVIOUS
<1>1. ASSUME NEW m \in Msgs, NEW long \in BOOLEAN, Send(m, long) PROVE IInv'
  BY <1>1, SendInv
<1>2. ASSUME NEW m \in Msgs, Handle(m) PROVE IInv'
  BY <1>2, PushInv DEF Handle
<1>3. ASSUME NEW f \in Flushers, Flush(f) PROVE IInv'
  BY <1>3, QuietInv, PopInv, InsertInv, PutBackInv DEF Flush
<1>4. ASSUME NEW f \in Flushers, KillFlusher(f) PROVE IInv'
  BY <1>4, KillFlusherInv
<1>5. ASSUME NEW s \in Sends, KillSend(s) PROVE IInv'
  BY <1>5, KillSendInv
<1>6. CASE UNCHANGED vars
  <2>1. TypeInv'
    BY <1>6 DEF vars, IInv, TypeInv, TypeOK, PopsOK
  <2>2. \A m \in Msgs : Balance(m)'
    BY <1>6 DEF vars, IInv, Balance, InHands, Hands, Stored, Found, Sent
  <2> QED BY <2>1, <2>2 DEF IInv
<1> QED BY <1>1, <1>2, <1>3, <1>4, <1>5, <1>6 DEF Next

\* The inductive invariant: the types, what a hand holds at each stage, the balance.
THEOREM Invariant == Spec => []IInv
BY InitInv, StepInv, PTL DEF Spec

\* MsgStore's state has the declared types, for every number of processes, messages
\* and attempts, and every size of a batch.
THEOREM TypeCorrect == Spec => []TypeOK
<1>1. IInv => TypeOK
  BY DEF IInv, TypeInv
<1> QED BY <1>1, Invariant, PTL

\* No message is lost or multiplied between the request, the list, the flushers and
\* the table except where an answer is lost, a put-back fails or a flusher is killed
\* (repo.go:47-116), for every number of flushers on the same list.
THEOREM NothingLost == Spec => []Conserved
<1>1. IInv => Conserved
  BY BalanceIsConserved DEF IInv
<1> QED BY <1>1, Invariant, PTL
--------------------------------------------------------------------------------
(* Monitor. *)

\* The i-th oldest entry of the ring, from 0.
At(i) == ring[Slot(i)]
Live == {At(i) : i \in 0 .. count - 1}

\* The ring holds the last count tasks that were inserted, between its indices.
RingInv ==
  /\ count <= Len(inserted)
  /\ tailindex = Slot(count)
  /\ \A i \in 0 .. count - 1 : At(i) = inserted[Len(inserted) - count + 1 + i]

\* A task is sent once, when it is complete.
OnceInv ==
  /\ \A i, j \in DOMAIN channel : channel[i] = channel[j] => i = j
  /\ \A i, j \in DOMAIN inserted : inserted[i] = inserted[j] => i = j
  /\ \A i \in DOMAIN channel, j \in DOMAIN inserted : channel[i] # inserted[j]
  /\ \A i \in DOMAIN channel : task[channel[i]].pc = "done"
  /\ \A i \in DOMAIN inserted : task[inserted[i]].pc = "done"

SumInv == totalTimeCount = Took(Live) /\ successCount = Wins(Live)

LEMMA MonitorConstants ==
  /\ MaxLen \in Nat /\ MaxLen > 0 /\ Window \in Nat /\ MaxClock \in Nat /\ MaxClock > 0
  /\ None \notin Tasks
BY MonitorAssumption
--------------------------------------------------------------------------------
(* The slots of the ring. *)

LEMMA Wraps ==
  ASSUME NEW a \in 0 .. 2 * MaxLen - 1
  PROVE  a % MaxLen = IF a < MaxLen THEN a ELSE a - MaxLen
BY MonitorConstants, SMTT(30)

LEMMA WrapsBelow ==
  ASSUME NEW a \in Int, a < 0, a >= 0 - MaxLen
  PROVE  a % MaxLen = a + MaxLen
BY MonitorConstants, SMTT(30)

\* The index that is x slots on from h, for h and x as the ring has them.
LEMMA Ahead ==
  ASSUME NEW h \in Slots, NEW x \in 0 .. MaxLen
  PROVE  /\ (h + x) % MaxLen = IF h + x < MaxLen THEN h + x ELSE h + x - MaxLen
         /\ (h + x) % MaxLen \in Slots
<1>1. h \in 0 .. MaxLen - 1 /\ MaxLen \in Nat \ {0}
  BY MonitorConstants DEF Slots
<1>2. PICK a \in Int : a = h + x
  BY <1>1
<1>3. a \in 0 .. 2 * MaxLen - 1
  BY <1>1, <1>2
<1>4. a % MaxLen = IF a < MaxLen THEN a ELSE a - MaxLen
  BY <1>3, Wraps
<1>5. (h + x) % MaxLen = IF h + x < MaxLen THEN h + x ELSE h + x - MaxLen
  BY <1>1, <1>2, <1>4
<1> QED BY <1>5, MonitorConstants DEF Slots

LEMMA Shifted ==
  ASSUME NEW h \in Slots, NEW n \in Nat, NEW i \in Nat, n + i <= MaxLen
  PROVE  (((h + n) % MaxLen) + i) % MaxLen = (h + n + i) % MaxLen
<1>1. n \in 0 .. MaxLen /\ i \in 0 .. MaxLen /\ n + i \in 0 .. MaxLen
  BY MonitorConstants
<1> DEFINE g == (h + n) % MaxLen
<1>2. g = (IF h + n < MaxLen THEN h + n ELSE h + n - MaxLen) /\ g \in Slots
  BY <1>1, Ahead
<1>3. (g + i) % MaxLen = IF g + i < MaxLen THEN g + i ELSE g + i - MaxLen
  BY <1>1, <1>2, Ahead
<1>4. (h + (n + i)) % MaxLen
        = IF h + (n + i) < MaxLen THEN h + (n + i) ELSE h + (n + i) - MaxLen
  BY <1>1, Ahead
<1>5. h + (n + i) = h + n + i
  BY DEF Slots
<1> HIDE DEF g
<1>6. (g + i) % MaxLen = (h + (n + i)) % MaxLen
  BY <1>1, <1>2, <1>3, <1>4, MonitorConstants DEF Slots
<1> QED BY <1>5, <1>6 DEF g

LEMMA Apart ==
  ASSUME NEW h \in Slots, NEW a \in 0 .. MaxLen, NEW b \in 0 .. MaxLen, a < b, b - a < MaxLen
  PROVE  (h + a) % MaxLen # (h + b) % MaxLen
<1>1. /\ (h + a) % MaxLen = IF h + a < MaxLen THEN h + a ELSE h + a - MaxLen
      /\ (h + b) % MaxLen = IF h + b < MaxLen THEN h + b ELSE h + b - MaxLen
  BY Ahead
<1> QED BY <1>1, MonitorConstants DEF Slots

LEMMA NextTail ==
  ASSUME NEW h \in Slots, NEW c \in 0 .. MaxLen, NEW n \in 0 .. c, c - n < MaxLen
  PROVE  (((h + c) % MaxLen) + 1) % MaxLen = (((h + n) % MaxLen) + (c - n + 1)) % MaxLen
<1> DEFINE t == (h + c) % MaxLen
           g == (h + n) % MaxLen
           d == c - n + 1
<1>1. 1 \in 0 .. MaxLen /\ n \in 0 .. MaxLen /\ d \in 0 .. MaxLen
  BY MonitorConstants
<1>2. /\ t = (IF h + c < MaxLen THEN h + c ELSE h + c - MaxLen) /\ t \in Slots
      /\ g = (IF h + n < MaxLen THEN h + n ELSE h + n - MaxLen) /\ g \in Slots
  BY <1>1, Ahead
<1> HIDE DEF t, g
<1>3. /\ (t + 1) % MaxLen = IF t + 1 < MaxLen THEN t + 1 ELSE t + 1 - MaxLen
      /\ (g + d) % MaxLen = IF g + d < MaxLen THEN g + d ELSE g + d - MaxLen
  BY <1>1, <1>2, Ahead
<1> QED BY <1>1, <1>2, <1>3, MonitorConstants DEF Slots, t, g

LEMMA SpanIs ==
  ASSUME MonitorTypeOK, RingInv
  PROVE  Span = (IF count = MaxLen THEN 0 ELSE count) /\ Span = count % MaxLen
<1>1. /\ headindex \in Slots /\ count \in 0 .. MaxLen
      /\ tailindex = (headindex + count) % MaxLen
  BY DEF MonitorTypeOK, RingInv, Slot
<1>2. tailindex = IF headindex + count < MaxLen THEN headindex + count
                                                ELSE headindex + count - MaxLen
  BY <1>1, Ahead
<1>3. count % MaxLen = IF count = MaxLen THEN 0 ELSE count
  <2>1. count \in 0 .. 2 * MaxLen - 1
    BY <1>1, MonitorConstants
  <2> QED BY <1>1, <2>1, Wraps, MonitorConstants
<1> DEFINE a == tailindex - headindex
<1>4. CASE a < 0
  <2>1. a \in Int /\ a >= 0 - MaxLen /\ a + MaxLen = (IF count = MaxLen THEN 0 ELSE count)
    BY <1>1, <1>2, <1>4, MonitorConstants DEF Slots
  <2> QED BY <1>3, <1>4, <2>1, WrapsBelow DEF Span
<1>5. CASE a >= 0
  <2>1. a \in 0 .. 2 * MaxLen - 1 /\ a < MaxLen /\ a = (IF count = MaxLen THEN 0 ELSE count)
    BY <1>1, <1>2, <1>5, MonitorConstants DEF Slots
  <2> QED BY <1>3, <2>1, Wraps DEF Span
<1>6. a \in Int
  BY <1>1, <1>2, MonitorConstants DEF Slots
<1> QED BY <1>4, <1>5, <1>6
--------------------------------------------------------------------------------
(* The step of the receiver, in terms of the ring's entries. *)

\* The entries before and from the n-th.
Out(n) == {At(i) : i \in 0 .. n - 1}
Rest(n) == {At(n + i) : i \in 0 .. count - n - 1}

\* Take removes the n oldest entries.
Moved(n) ==
  /\ n \in 0 .. count /\ count - n < MaxLen
  /\ count' = count - n + 1
  /\ headindex' \in Slots /\ tailindex' \in Slots
  /\ tailindex' = (headindex' + count') % MaxLen
  /\ \A i \in 0 .. count - n - 1 : At(i)' = At(n + i)
  /\ At(count - 1)' = Head(channel)

LEMMA SlotIs ==
  ASSUME MonitorTypeOK, NEW i \in 0 .. MaxLen
  PROVE  Slot(i) \in Slots /\ Slot(i) = (headindex + i) % MaxLen
BY Ahead DEF MonitorTypeOK, Slot

LEMMA TakeCount ==
  ASSUME MonitorTypeOK, RingInv, NEW k \in 0 .. MaxLen, Passes(k)
  PROVE  /\ k <= count
         /\ Overwritten(k) \in 0 .. count
         /\ count - Overwritten(k) < MaxLen
         /\ Overwritten(k) # k => k = 0 /\ count = MaxLen /\ Overwritten(k) = 1
<1>1. count \in 0 .. MaxLen /\ Span = (IF count = MaxLen THEN 0 ELSE count)
  BY SpanIs DEF MonitorTypeOK
<1>2. k \in 0 .. Span
  BY DEF Passes
<1> QED BY <1>1, <1>2, MonitorConstants DEF Overwritten

LEMMA TakeMoves ==
  ASSUME MonitorTypeOK, RingInv, NEW n \in 0 .. count, count - n < MaxLen, channel # << >>,
         headindex' = (headindex + n) % MaxLen,
         ring' = [ring EXCEPT ![tailindex] = Head(channel)],
         tailindex' = (tailindex + 1) % MaxLen,
         count' = count - n + 1
  PROVE  Moved(n)
<1>1. /\ headindex \in Slots /\ tailindex \in Slots /\ count \in 0 .. MaxLen
      /\ ring \in [Slots -> Tasks \cup {None}]
      /\ tailindex = (headindex + count) % MaxLen
  BY DEF MonitorTypeOK, RingInv, Slot
<1>2. /\ n \in 0 .. MaxLen /\ n \in Nat /\ count - n \in 0 .. MaxLen - 1 /\ 1 \in 0 .. MaxLen
      /\ count \in Nat /\ n <= count /\ count <= MaxLen /\ MaxLen \in Nat
  BY <1>1, MonitorConstants
<1>3. headindex' \in Slots
  BY <1>1, <1>2, Ahead
<1>4. tailindex' \in Slots
  BY <1>1, <1>2, Ahead
<1>5. tailindex' = (headindex' + count') % MaxLen
  BY <1>1, <1>2, NextTail
<1>6. ASSUME NEW i \in 0 .. count - n
      PROVE  (headindex' + i) % MaxLen = (headindex + (n + i)) % MaxLen
  <2>1. i \in Nat /\ n + i <= MaxLen
    BY <1>2
  <2>2. (headindex' + i) % MaxLen = (headindex + n + i) % MaxLen
    BY <1>1, <1>2, <2>1, Shifted
  <2>3. headindex + n + i = headindex + (n + i)
    BY <1>1, <1>2, <2>1 DEF Slots
  <2> QED BY <2>2, <2>3
<1>7. ASSUME NEW i \in 0 .. count - n - 1
      PROVE  At(i)' = At(n + i)
  <2>1. /\ i \in 0 .. count - n /\ n + i \in 0 .. MaxLen /\ n + i < count
        /\ count - (n + i) < MaxLen /\ count \in 0 .. MaxLen
    BY <1>2
  <2>2. PICK j \in 0 .. MaxLen : j = n + i
    BY <2>1
  <2>3. (headindex + j) % MaxLen # tailindex /\ (headindex + j) % MaxLen \in Slots
    BY <1>1, <2>1, <2>2, Apart, Ahead
  <2>4. At(i)' = ring'[(headindex' + i) % MaxLen]
    BY DEF At, Slot
  <2>5. (headindex' + i) % MaxLen = (headindex + j) % MaxLen
    BY <1>6, <2>1, <2>2
  <2>6. At(i)' = ring[(headindex + j) % MaxLen]
    BY <1>1, <2>3, <2>4, <2>5
  <2> QED BY <2>2, <2>6 DEF At, Slot
<1>8. At(count - 1)' = Head(channel)
  <2>1. count - n \in 0 .. count - n /\ n + (count - n) = count
    BY <1>1, <1>2
  <2>2. (headindex' + (count - n)) % MaxLen = (headindex + (n + (count - n))) % MaxLen
    BY <1>6, <2>1
  <2>3. (headindex' + (count - n)) % MaxLen = tailindex
    BY <1>1, <2>1, <2>2
  <2>4. At(count - 1)' = ring'[(headindex' + (count' - 1)) % MaxLen]
    BY DEF At, Slot
  <2>5. count' - 1 = count - n
    BY <1>2
  <2> QED BY <1>1, <2>3, <2>4, <2>5
<1> QED BY <1>3, <1>4, <1>5, <1>7, <1>8 DEF Moved

\* What a step of the receiver does.
LEMMA TakeStep ==
  ASSUME MonitorTypeOK, RingInv, Take
  PROVE  \E k \in 0 .. MaxLen, n \in 0 .. count :
           /\ Passes(k) /\ n = Overwritten(k) /\ Moved(n)
           /\ channel # << >> /\ channel' = Tail(channel)
           /\ totalTimeCount' = totalTimeCount - Took(Out(n)) + Took({Head(channel)})
           /\ successCount' = successCount - Wins(Out(n)) + Wins({Head(channel)})
           /\ inserted' = Append(inserted, Head(channel))
           /\ last' = clock
           /\ UNCHANGED <<clock, runs, task>>
           /\ ring' = [ring EXCEPT ![tailindex] = Head(channel)]
<1>1. PICK k \in 0 .. MaxLen :
        /\ channel # << >> /\ Passes(k)
        /\ channel' = Tail(channel)
        /\ headindex' = (headindex + Overwritten(k)) % MaxLen
        /\ ring' = [ring EXCEPT ![tailindex] = Head(channel)]
        /\ tailindex' = (tailindex + 1) % MaxLen
        /\ count' = count - Overwritten(k) + 1
        /\ totalTimeCount' = totalTimeCount - Took(Out(Overwritten(k)))
                               + Took({Head(channel)})
        /\ successCount' = successCount - Wins(Out(Overwritten(k)))
                             + Wins({Head(channel)})
        /\ inserted' = Append(inserted, Head(channel))
        /\ last' = clock
        /\ UNCHANGED <<clock, runs, task>>
  BY DEF Take, Out, At
<1>2. PICK n \in 0 .. count : n = Overwritten(k) /\ count - n < MaxLen
  BY <1>1, TakeCount
<1>3. Moved(n)
  BY <1>1, <1>2, TakeMoves
<1> QED BY <1>1, <1>2, <1>3
--------------------------------------------------------------------------------
(* The indices, and what the ring holds. *)

LEMMA LenInserted ==
  ASSUME MonitorTypeOK
  PROVE  Len(inserted) \in Nat /\ DOMAIN inserted = 1 .. Len(inserted)
BY LenProperties DEF MonitorTypeOK

LEMMA RingStep ==
  ASSUME MonitorTypeOK, RingInv, [MonitorNext]_monitorVars
  PROVE  RingInv'
<1>1. CASE Take
  <2>1. PICK n \in 0 .. count :
          Moved(n) /\ channel # << >> /\ inserted' = Append(inserted, Head(channel))
    BY <1>1, TakeStep
  <2> DEFINE t == Head(channel)
             m == Len(inserted)
  <2>2. t \in Tasks /\ inserted \in Seq(Tasks) /\ count \in 0 .. MaxLen /\ m \in Nat
    BY <2>1, LenInserted, HeadTailProperties DEF MonitorTypeOK
  <2>3. /\ Len(inserted') = m + 1
        /\ \A i \in 1 .. m : inserted'[i] = inserted[i]
        /\ inserted'[m + 1] = t
    BY <2>1, <2>2, AppendProperties
  <2>4. count <= m /\ \A i \in 0 .. count - 1 : At(i) = inserted[m - count + 1 + i]
    BY DEF RingInv
  <2>5. /\ count' = count - n + 1 /\ n \in Nat /\ n <= count /\ count \in Nat
        /\ \A i \in 0 .. count - n - 1 : At(i)' = At(n + i)
        /\ At(count - 1)' = t
        /\ tailindex' = (headindex' + count') % MaxLen
    BY <2>1, <2>2 DEF Moved
  <2> HIDE DEF t, m
  <2>6. ASSUME NEW i \in 0 .. count - n
        PROVE  At(i)' = inserted'[m + 1 - (count - n + 1) + 1 + i]
    <3>1. CASE i = count - n
      <4>1. At(i)' = t
        BY <2>5, <3>1
      <4>2. m + 1 - (count - n + 1) + 1 + i = m + 1
        BY <2>2, <2>5, <3>1
      <4> QED BY <2>3, <4>1, <4>2
    <3>2. CASE i # count - n
      <4>1. /\ i \in 0 .. count - n - 1 /\ n + i \in 0 .. count - 1
            /\ m - count + 1 + (n + i) \in 1 .. m
            /\ m + 1 - (count - n + 1) + 1 + i = m - count + 1 + (n + i)
        BY <2>2, <2>4, <2>5, <3>2
      <4>2. At(i)' = inserted[m - count + 1 + (n + i)]
        BY <2>4, <2>5, <4>1
      <4> QED BY <2>3, <4>1, <4>2
    <3> QED BY <3>1, <3>2
  <2>7. count' <= Len(inserted') /\ count' - 1 = count - n
    BY <2>2, <2>3, <2>4, <2>5
  <2>8. \A i \in 0 .. count' - 1 : At(i)' = inserted'[Len(inserted') - count' + 1 + i]
    <3> SUFFICES ASSUME NEW i \in 0 .. count' - 1
                 PROVE  At(i)' = inserted'[Len(inserted') - count' + 1 + i]
      OBVIOUS
    <3>1. i \in 0 .. count - n /\ Len(inserted') - count' + 1 + i
                                  = m + 1 - (count - n + 1) + 1 + i
      BY <2>2, <2>3, <2>5, <2>7
    <3> QED BY <2>6, <3>1
  <2> QED BY <2>5, <2>7, <2>8 DEF RingInv, Slot
<1>2. CASE ~ Take
  <2>1. UNCHANGED <<statVars, inserted>>
    BY <1>2 DEF MonitorNext, monitorVars, Pass, Caller, NewTask, CompleteTask, Put, Shutdown
  <2> QED BY <2>1 DEF RingInv, statVars, At, Slot
<1> QED BY <1>1, <1>2

(* A task goes through the channel once. *)

\* t is neither in the channel nor in the ring.
Outside(t) ==
  /\ \A i \in DOMAIN channel : channel[i] # t
  /\ \A i \in DOMAIN inserted : inserted[i] # t

LEMMA NotDone ==
  ASSUME OnceInv, NEW t, task[t].pc # "done"
  PROVE  Outside(t)
BY DEF OnceInv, Outside

LEMMA OnceStep ==
  ASSUME MonitorTypeOK, RingInv, OnceInv, [MonitorNext]_monitorVars
  PROVE  OnceInv'
<1>1. channel \in Seq(Tasks) /\ inserted \in Seq(Tasks) /\ task \in [Tasks -> TaskType]
  BY DEF MonitorTypeOK
<1>2. ASSUME NEW t \in Tasks, task[t].pc # "done", UNCHANGED <<channel, inserted>>,
             \A u \in Tasks : u # t => task'[u] = task[u]
      PROVE  OnceInv'
  <2>1. Outside(t)
    BY <1>2, NotDone
  <2> QED BY <1>1, <1>2, <2>1 DEF OnceInv, Outside
<1>3. ASSUME NEW t \in Tasks, NewTask(t) PROVE OnceInv'
  BY <1>1, <1>2, <1>3 DEF NewTask
<1>4. ASSUME NEW t \in Tasks, CompleteTask(t) PROVE OnceInv'
  BY <1>1, <1>2, <1>4 DEF CompleteTask
<1>5. ASSUME NEW t \in Tasks, Put(t) PROVE OnceInv'
  <2>1. /\ task[t].pc = "send" /\ channel' = Append(channel, t) /\ inserted' = inserted
        /\ \A u \in Tasks : u # t => task'[u] = task[u]
        /\ task'[t].pc = "done"
    BY <1>1, <1>5 DEF Put, Task
  <2>2. Outside(t)
    BY <2>1, NotDone
  <2>3. PICK n \in Nat : n = Len(channel)
    BY <1>1, LenProperties
  <2>4. /\ DOMAIN channel = 1 .. n /\ DOMAIN channel' = 1 .. n + 1
        /\ \A i \in 1 .. n : channel'[i] = channel[i]
        /\ channel'[n + 1] = t
    BY <1>1, <2>1, <2>3, AppendProperties, LenProperties
  <2>5. \A i \in 1 .. n + 1 : i \in 1 .. n \/ i = n + 1
    BY <2>3
  <2>6. \A i \in 1 .. n : channel[i] # t /\ channel[i] \in Tasks
    BY <1>1, <2>2, <2>4 DEF Outside
  <2>7. \A i \in DOMAIN inserted : inserted[i] # t /\ inserted[i] \in Tasks
    BY <1>1, <2>2 DEF Outside
  <2> QED BY <2>1, <2>4, <2>5, <2>6, <2>7 DEF OnceInv
<1>6. CASE Take
  <2>1. /\ channel # << >> /\ channel' = Tail(channel)
        /\ inserted' = Append(inserted, Head(channel)) /\ task' = task
    BY <1>6, TakeStep
  <2>2. PICK n \in Nat, m \in Nat : n = Len(channel) /\ m = Len(inserted)
    BY <1>1, LenProperties
  <2>3. /\ DOMAIN channel = 1 .. n /\ DOMAIN channel' = 1 .. n - 1 /\ n > 0
        /\ \A i \in 1 .. n - 1 : channel'[i] = channel[i + 1]
        /\ Head(channel) = channel[1]
    BY <1>1, <2>1, <2>2, HeadTailProperties, LenProperties, EmptySeq
  <2>4. /\ DOMAIN inserted = 1 .. m /\ DOMAIN inserted' = 1 .. m + 1
        /\ \A i \in 1 .. m : inserted'[i] = inserted[i]
        /\ inserted'[m + 1] = channel[1]
    <3>1. Head(channel) \in Tasks
      BY <1>1, <2>1, HeadTailProperties
    <3> QED BY <1>1, <2>1, <2>2, <2>3, <3>1, AppendProperties, LenProperties
  <2>5. /\ \A i \in 1 .. n - 1 : i + 1 \in 1 .. n /\ i + 1 # 1
        /\ 1 \in 1 .. n
        /\ \A i \in 1 .. m + 1 : i \in 1 .. m \/ i = m + 1
    BY <2>2, <2>3
  <2>6. \A i, j \in 1 .. n : channel[i] = channel[j] => i = j
    BY <2>3 DEF OnceInv
  <2>7. \A i, j \in 1 .. m : inserted[i] = inserted[j] => i = j
    BY <2>4 DEF OnceInv
  <2>8. \A i \in 1 .. n, j \in 1 .. m : channel[i] # inserted[j]
    BY <2>3, <2>4 DEF OnceInv
  <2>9. (\A i \in 1 .. n : task[channel[i]].pc = "done")
           /\ \A i \in 1 .. m : task[inserted[i]].pc = "done"
    BY <2>3, <2>4 DEF OnceInv
  <2>10. \A i, j \in 1 .. n - 1 : channel'[i] = channel'[j] => i = j
    BY <2>3, <2>5, <2>6
  <2>11. \A i, j \in 1 .. m + 1 : inserted'[i] = inserted'[j] => i = j
    <3>1. \A i \in 1 .. m : inserted'[i] # inserted'[m + 1]
      BY <2>4, <2>5, <2>8
    <3> QED BY <2>4, <2>5, <2>7, <3>1
  <2>12. \A i \in 1 .. n - 1, j \in 1 .. m + 1 : channel'[i] # inserted'[j]
    <3> SUFFICES ASSUME NEW i \in 1 .. n - 1, NEW j \in 1 .. m + 1
                 PROVE  channel'[i] # inserted'[j]
      OBVIOUS
    <3>1. channel'[i] = channel[i + 1] /\ i + 1 \in 1 .. n /\ i + 1 # 1
      BY <2>3, <2>5
    <3>2. CASE j \in 1 .. m
      BY <2>4, <2>8, <3>1, <3>2
    <3>3. CASE j = m + 1
      BY <2>4, <2>5, <2>6, <3>1, <3>3
    <3> QED BY <2>5, <3>2, <3>3
  <2>13. /\ \A i \in 1 .. n - 1 : task[channel'[i]].pc = "done"
        /\ \A i \in 1 .. m + 1 : task[inserted'[i]].pc = "done"
    <3>1. \A i \in 1 .. n - 1 : task[channel'[i]].pc = "done"
      BY <2>3, <2>5, <2>9
    <3>2. task[inserted'[m + 1]].pc = "done"
      BY <2>4, <2>5, <2>9
    <3> QED BY <2>4, <2>5, <2>9, <3>1, <3>2
  <2> QED BY <2>1, <2>3, <2>4, <2>10, <2>11, <2>12, <2>13 DEF OnceInv
<1>7. CASE Pass \/ Shutdown \/ UNCHANGED monitorVars
  BY <1>7 DEF Pass, Shutdown, monitorVars, OnceInv
<1> QED BY <1>3, <1>4, <1>5, <1>6, <1>7 DEF MonitorNext, Caller
--------------------------------------------------------------------------------
(* The sums. *)

LEMMA TookType ==
  ASSUME MonitorTypeOK, NEW T \in SUBSET Tasks, IsFiniteSet(T)
  PROVE  Took(T) \in Nat /\ Wins(T) \in Nat
<1> DEFINE P == {p \in T \X (1 .. MaxClock) :
                   p[2] > task[p[1]].sTime /\ p[2] <= task[p[1]].lTime}
<1>1. IsFiniteSet(1 .. MaxClock)
  BY MonitorConstants, FS_Interval
<1>2. IsFiniteSet(T \X (1 .. MaxClock))
  BY <1>1, FS_Product
<1>3. IsFiniteSet(P)
  BY <1>2, FS_Subset
<1>4. IsFiniteSet({t \in T : task[t].success})
  BY FS_Subset
<1> QED BY <1>3, <1>4, FS_CardinalityType DEF Took, Wins

LEMMA TookUnion ==
  ASSUME MonitorTypeOK, NEW S \in SUBSET Tasks, NEW T \in SUBSET Tasks,
         IsFiniteSet(S), IsFiniteSet(T), S \cap T = {}
  PROVE  /\ Took(S \cup T) = Took(S) + Took(T)
         /\ Wins(S \cup T) = Wins(S) + Wins(T)
<1> DEFINE P(U) == {p \in U \X (1 .. MaxClock) :
                      p[2] > task[p[1]].sTime /\ p[2] <= task[p[1]].lTime}
           W(U) == {t \in U : task[t].success}
<1>1. IsFiniteSet(S \X (1 .. MaxClock)) /\ IsFiniteSet(T \X (1 .. MaxClock))
  <2>1. IsFiniteSet(1 .. MaxClock)
    BY MonitorConstants, FS_Interval
  <2> QED BY <2>1, FS_Product
<1>2. /\ IsFiniteSet(P(S)) /\ IsFiniteSet(P(T)) /\ IsFiniteSet(W(S)) /\ IsFiniteSet(W(T))
  BY <1>1, FS_Subset
<1>3. P(S \cup T) = P(S) \cup P(T) /\ P(S) \cap P(T) = {}
  OBVIOUS
<1>4. W(S \cup T) = W(S) \cup W(T) /\ W(S) \cap W(T) = {}
  OBVIOUS
<1>5. Cardinality({}) = 0
  BY FS_EmptySet
<1> HIDE DEF P, W
<1>6. /\ Cardinality(P(S)) \in Nat /\ Cardinality(P(T)) \in Nat
      /\ Cardinality(W(S)) \in Nat /\ Cardinality(W(T)) \in Nat
  BY <1>2, FS_CardinalityType
<1>7. /\ Cardinality(P(S \cup T)) = Cardinality(P(S)) + Cardinality(P(T))
      /\ Cardinality(W(S \cup T)) = Cardinality(W(S)) + Cardinality(W(T))
  <2>1. Cardinality(P(S) \cup P(T))
          = Cardinality(P(S)) + Cardinality(P(T)) - Cardinality(P(S) \cap P(T))
    BY <1>2, FS_Union
  <2>2. Cardinality(W(S) \cup W(T))
          = Cardinality(W(S)) + Cardinality(W(T)) - Cardinality(W(S) \cap W(T))
    BY <1>2, FS_Union
  <2>3. /\ Cardinality(P(S \cup T)) = Cardinality(P(S) \cup P(T))
        /\ Cardinality(P(S) \cap P(T)) = 0
        /\ Cardinality(W(S \cup T)) = Cardinality(W(S) \cup W(T))
        /\ Cardinality(W(S) \cap W(T)) = 0
    BY <1>3, <1>4, <1>5
  <2> QED BY <1>6, <2>1, <2>2, <2>3
<1> QED BY <1>7 DEF P, W, Took, Wins

LEMMA LiveType ==
  ASSUME MonitorTypeOK, RingInv
  PROVE  /\ Live \in SUBSET Tasks /\ IsFiniteSet(Live)
         /\ Wins(Live) <= count
         /\ \A t \in Live : \E i \in DOMAIN inserted : t = inserted[i]
<1>1. count \in 0 .. MaxLen /\ Len(inserted) \in Nat /\ inserted \in Seq(Tasks)
      /\ DOMAIN inserted = 1 .. Len(inserted)
  BY LenInserted DEF MonitorTypeOK
<1>2. ASSUME NEW i \in 0 .. count - 1
      PROVE  \E j \in DOMAIN inserted : At(i) = inserted[j]
  <2>1. Len(inserted) - count + 1 + i \in 1 .. Len(inserted)
    BY <1>1 DEF RingInv
  <2> QED BY <1>1, <2>1 DEF RingInv
<1>3. \A t \in Live : \E i \in DOMAIN inserted : t = inserted[i]
  BY <1>2 DEF Live
<1>4. Live \in SUBSET Tasks
  BY <1>1, <1>3
<1> DEFINE f == [i \in 0 .. count - 1 |-> At(i)]
<1>5. f \in Surjection(0 .. count - 1, Live)
  BY DEF Surjection, Live
<1>6. IsFiniteSet(0 .. count - 1) /\ Cardinality(0 .. count - 1) = count
  <2>1. PICK b \in Int : b = count - 1
    BY <1>1
  <2>2. IsFiniteSet(0 .. b) /\ Cardinality(0 .. b) = IF 0 > b THEN 0 ELSE b - 0 + 1
    BY FS_Interval
  <2> QED BY <1>1, <2>1, <2>2
<1>7. IsFiniteSet(Live) /\ Cardinality(Live) <= count
  BY <1>5, <1>6, FS_Surjection
<1>8. Cardinality(Live) \in Nat /\ Wins(Live) \in Nat
  BY <1>4, <1>7, FS_CardinalityType, TookType
<1>9. Wins(Live) <= Cardinality(Live)
  BY <1>7, FS_Subset DEF Wins
<1> QED BY <1>1, <1>3, <1>4, <1>7, <1>8, <1>9

\* No task is in the ring twice.
LEMMA AtInjective ==
  ASSUME MonitorTypeOK, RingInv, OnceInv, NEW i \in 0 .. count - 1, NEW j \in 0 .. count - 1,
         At(i) = At(j)
  PROVE  i = j
<1>1. count \in 0 .. MaxLen /\ Len(inserted) \in Nat /\ DOMAIN inserted = 1 .. Len(inserted)
  BY LenInserted DEF MonitorTypeOK
<1>2. PICK a \in Int : a = Len(inserted) - count + 1
  BY <1>1
<1>3. a + i \in DOMAIN inserted /\ a + j \in DOMAIN inserted
  BY <1>1, <1>2 DEF RingInv
<1>4. At(i) = inserted[a + i] /\ At(j) = inserted[a + j]
  BY <1>2 DEF RingInv
<1>5. a + i = a + j
  BY <1>3, <1>4 DEF OnceInv
<1> QED BY <1>1, <1>2, <1>5

\* The entries after a step of the receiver.
LEMMA LiveMoves ==
  ASSUME MonitorTypeOK, RingInv, OnceInv, NEW n \in 0 .. count, Moved(n), channel # << >>
  PROVE  /\ Live = Out(n) \cup Rest(n) /\ Out(n) \cap Rest(n) = {}
         /\ Live' = Rest(n) \cup {Head(channel)}
         /\ Head(channel) \in Tasks \ Live
<1>1. /\ count \in 0 .. MaxLen /\ channel \in Seq(Tasks) /\ n \in Nat /\ n <= count
      /\ count \in Nat
  BY DEF MonitorTypeOK
<1>2. /\ \A i \in 0 .. n - 1 : i \in 0 .. count - 1
      /\ \A i \in 0 .. count - n - 1 : n + i \in 0 .. count - 1 /\ n + i \notin 0 .. n - 1
      /\ \A i \in 0 .. count - 1 :
           i \in 0 .. n - 1 \/ \E j \in 0 .. count - n - 1 : i = n + j
  <2>1. ASSUME NEW i \in 0 .. count - 1, i \notin 0 .. n - 1
        PROVE  i - n \in 0 .. count - n - 1 /\ i = n + (i - n)
    BY <1>1, <2>1
  <2> QED BY <1>1, <2>1
<1>3. Live = Out(n) \cup Rest(n)
  BY <1>2 DEF Live, Out, Rest
<1>4. Out(n) \cap Rest(n) = {}
  <2> SUFFICES ASSUME NEW i \in 0 .. n - 1, NEW j \in 0 .. count - n - 1, At(i) = At(n + j)
               PROVE  FALSE
    BY DEF Out, Rest
  <2>1. i \in 0 .. count - 1 /\ n + j \in 0 .. count - 1 /\ i # n + j
    BY <1>2
  <2>2. PICK k \in 0 .. count - 1 : k = n + j
    BY <2>1
  <2>3. At(i) = At(k)
    BY <2>2
  <2>4. i = k
    BY <2>1, <2>3, AtInjective
  <2> QED BY <2>1, <2>2, <2>4
<1>5. Live' = Rest(n) \cup {Head(channel)}
  <2>1. /\ count' = count - n + 1
        /\ \A i \in 0 .. count - n - 1 : At(i)' = At(n + i)
        /\ At(count - 1)' = Head(channel)
    BY DEF Moved
  <2>2. Live' = {At(i)' : i \in 0 .. count' - 1}
    BY DEF Live
  <2>3. /\ count' - 1 = count - n
        /\ \A i \in 0 .. count' - 1 : i \in 0 .. count - n - 1 \/ i = count' - 1
        /\ \A i \in 0 .. count - n - 1 : i \in 0 .. count' - 1
        /\ count' - 1 \in 0 .. count' - 1
    BY <1>1, <2>1
  <2>4. ASSUME NEW x \in Live' PROVE x \in Rest(n) \cup {Head(channel)}
    <3>1. PICK i \in 0 .. count' - 1 : x = At(i)'
      BY <2>2, <2>4
    <3>2. CASE i \in 0 .. count - n - 1
      BY <2>1, <3>1, <3>2 DEF Rest
    <3>3. CASE i = count' - 1
      <4>1. At(i)' = At(count - 1)'
        BY <3>3 DEF At, Slot
      <4> QED BY <2>1, <3>1, <4>1
    <3> QED BY <2>3, <3>2, <3>3
  <2>5. ASSUME NEW x \in Rest(n) PROVE x \in Live'
    <3>1. PICK i \in 0 .. count - n - 1 : x = At(n + i)
      BY <2>5 DEF Rest
    <3> QED BY <2>1, <2>2, <2>3, <3>1
  <2>6. Head(channel) \in Live'
    <3>1. PICK i \in 0 .. count' - 1 : i = count' - 1
      BY <2>3
    <3>2. At(i)' = At(count - 1)'
      BY <3>1 DEF At, Slot
    <3> QED BY <2>1, <2>2, <3>2
  <2> QED BY <2>4, <2>5, <2>6
<1>6. Head(channel) \in Tasks \ Live
  <2>1. Head(channel) \in Tasks /\ Head(channel) = channel[1] /\ 1 \in DOMAIN channel
    BY <1>1, HeadTailProperties, LenProperties, EmptySeq
  <2>2. \A t \in Live : \E i \in DOMAIN inserted : t = inserted[i]
    BY LiveType
  <2> QED BY <2>1, <2>2 DEF OnceInv
<1> QED BY <1>3, <1>4, <1>5, <1>6

LEMMA SumStep ==
  ASSUME MonitorTypeOK, RingInv, OnceInv, SumInv, [MonitorNext]_monitorVars
  PROVE  SumInv'
<1>1. Live \in SUBSET Tasks /\ IsFiniteSet(Live) /\ task \in [Tasks -> TaskType]
  BY LiveType DEF MonitorTypeOK
<1>2. ASSUME NEW t \in Tasks, task[t].pc # "done", UNCHANGED statVars,
             \A u \in Tasks : u # t => task'[u] = task[u]
      PROVE  SumInv'
  <2>1. t \notin Live
    <3>1. Outside(t)
      BY <1>2, NotDone
    <3> QED BY <3>1, LiveType DEF Outside
  <2>2. Live' = Live
    BY <1>2 DEF Live, At, Slot, statVars
  <2>3. \A u \in Live : task'[u] = task[u]
    BY <1>1, <1>2, <2>1
  <2>4. \A p \in Live \X (1 .. MaxClock) : task'[p[1]] = task[p[1]]
    BY <2>3
  <2>5. Took(Live)' = Took(Live) /\ Wins(Live)' = Wins(Live)
    BY <2>2, <2>3, <2>4 DEF Took, Wins
  <2> QED BY <1>2, <2>5 DEF SumInv, statVars
<1>3. ASSUME NEW t \in Tasks, NewTask(t) PROVE SumInv'
  BY <1>1, <1>2, <1>3 DEF NewTask
<1>4. ASSUME NEW t \in Tasks, CompleteTask(t) PROVE SumInv'
  BY <1>1, <1>2, <1>4 DEF CompleteTask
<1>5. ASSUME NEW t \in Tasks, Put(t) PROVE SumInv'
  BY <1>1, <1>2, <1>5 DEF Put
<1>6. CASE Take
  <2>1. PICK n \in 0 .. count :
          /\ Moved(n) /\ channel # << >> /\ task' = task
          /\ totalTimeCount' = totalTimeCount - Took(Out(n)) + Took({Head(channel)})
          /\ successCount' = successCount - Wins(Out(n)) + Wins({Head(channel)})
    BY <1>6, TakeStep
  <2>2. PICK O, R, t : O = Out(n) /\ R = Rest(n) /\ t = Head(channel)
    OBVIOUS
  <2>3. /\ Live = O \cup R /\ O \cap R = {} /\ Live' = R \cup {t} /\ t \in Tasks \ Live
    BY <2>1, <2>2, LiveMoves
  <2>4. /\ O \in SUBSET Tasks /\ IsFiniteSet(O) /\ R \in SUBSET Tasks /\ IsFiniteSet(R)
        /\ {t} \in SUBSET Tasks /\ IsFiniteSet({t}) /\ R \cap {t} = {}
    <3>1. O \in SUBSET Live /\ R \in SUBSET Live
      BY <2>3
    <3>2. IsFiniteSet(O) /\ IsFiniteSet(R)
      BY <1>1, <3>1, FS_Subset
    <3>3. IsFiniteSet({t})
      BY FS_Singleton
    <3> QED BY <1>1, <2>3, <3>1, <3>2, <3>3
  <2>5. /\ Took(Live) = Took(O) + Took(R) /\ Wins(Live) = Wins(O) + Wins(R)
        /\ Took(R \cup {t}) = Took(R) + Took({t}) /\ Wins(R \cup {t}) = Wins(R) + Wins({t})
    BY <2>3, <2>4, TookUnion
  <2>6. /\ Took(O) \in Nat /\ Wins(O) \in Nat /\ Took(R) \in Nat /\ Wins(R) \in Nat
        /\ Took({t}) \in Nat /\ Wins({t}) \in Nat
    BY <2>4, TookType
  <2>7. Took(Live)' = Took(R \cup {t}) /\ Wins(Live)' = Wins(R \cup {t})
    BY <2>1, <2>3 DEF Took, Wins
  <2>8. totalTimeCount = Took(Live) /\ successCount = Wins(Live)
    BY DEF SumInv
  <2>9. totalTimeCount' = totalTimeCount - Took(O) + Took({t})
        /\ successCount' = successCount - Wins(O) + Wins({t})
    BY <2>1, <2>2
  <2>10. totalTimeCount' = Took(R \cup {t}) /\ successCount' = Wins(R \cup {t})
    BY <2>5, <2>6, <2>8, <2>9
  <2> QED BY <2>7, <2>10 DEF SumInv
<1>7. CASE Pass \/ Shutdown \/ UNCHANGED monitorVars
  <2>1. UNCHANGED <<task, statVars>>
    BY <1>7 DEF Pass, Shutdown, monitorVars
  <2> QED BY <2>1 DEF statVars, SumInv, Live, At, Slot, Took, Wins
<1> QED BY <1>3, <1>4, <1>5, <1>6, <1>7 DEF MonitorNext, Caller
--------------------------------------------------------------------------------
(* Types, and what the statistics are about. *)

LEMMA TaskIsTyped ==
  ASSUME NEW s \in 0 .. MaxClock, NEW l \in 0 .. MaxClock, NEW b \in BOOLEAN,
         NEW pc \in {"new", "work", "send", "done"}
  PROVE  Task(pc, s, l, b) \in TaskType
BY DEF Task, TaskType

LEMMA TypeInit == MonitorInit => MonitorTypeOK
<1> SUFFICES ASSUME MonitorInit PROVE MonitorTypeOK
  OBVIOUS
<1>1. Task("new", 0, 0, FALSE) \in TaskType
  BY MonitorConstants DEF Task, TaskType
<1>2. << >> \in Seq(Tasks) /\ Len(<< >>) = 0
  BY EmptySeq
<1>3. 0 \in Slots /\ 0 \in 0 .. MaxLen /\ 1 \in 1 .. MaxClock /\ 0 \in 0 .. MaxClock
  BY MonitorConstants DEF Slots
<1> QED BY <1>1, <1>2, <1>3, MonitorConstants DEF MonitorInit, MonitorTypeOK

LEMMA CallerTyped ==
  ASSUME MonitorTypeOK, NEW t \in Tasks, Caller(t)
  PROVE  task' \in [Tasks -> TaskType] /\ channel' \in Seq(Tasks) /\ Len(channel') <= MaxLen
<1>1. /\ task \in [Tasks -> TaskType] /\ channel \in Seq(Tasks) /\ Len(channel) <= MaxLen
      /\ clock \in 0 .. MaxClock /\ 0 \in 0 .. MaxClock
      /\ task[t].sTime \in 0 .. MaxClock /\ task[t].lTime \in 0 .. MaxClock
      /\ task[t].success \in BOOLEAN
  <2>1. task[t] \in TaskType
    BY DEF MonitorTypeOK
  <2> QED BY <2>1, MonitorConstants DEF MonitorTypeOK, TaskType
<1>2. CASE NewTask(t)
  <2>1. Task("work", clock, 0, FALSE) \in TaskType
    BY <1>1, TaskIsTyped
  <2> QED BY <1>1, <1>2, <2>1 DEF NewTask
<1>3. CASE CompleteTask(t)
  <2>1. /\ Task("send", task[t].sTime, clock, TRUE) \in TaskType
        /\ Task("send", task[t].sTime, clock, FALSE) \in TaskType
    BY <1>1, TaskIsTyped
  <2>2. Task("send", task[t].sTime, clock, t \in Succeeding) \in TaskType
    <3>1. CASE t \in Succeeding
      <4>1. (t \in Succeeding) = TRUE
        BY <3>1
      <4> QED BY <2>1, <4>1
    <3>2. CASE t \notin Succeeding
      <4>1. (t \in Succeeding) = FALSE
        BY <3>2
      <4> QED BY <2>1, <4>1
    <3> QED BY <3>1, <3>2
  <2> QED BY <1>1, <1>3, <2>2 DEF CompleteTask
<1>4. CASE Put(t)
  <2>1. Task("done", task[t].sTime, task[t].lTime, task[t].success) \in TaskType
    BY <1>1, TaskIsTyped
  <2>2. task' \in [Tasks -> TaskType]
    BY <1>1, <1>4, <2>1 DEF Put
  <2>3. channel' \in Seq(Tasks) /\ Len(channel') = Len(channel) + 1
    BY <1>1, <1>4, AppendProperties DEF Put
  <2>4. Len(channel) \in Nat /\ Len(channel) < MaxLen
    BY <1>1, <1>4, LenProperties DEF Put, Room
  <2> QED BY <2>2, <2>3, <2>4, MonitorConstants
<1> QED BY <1>2, <1>3, <1>4 DEF Caller

LEMMA TypeStep ==
  ASSUME MonitorTypeOK, RingInv, OnceInv, SumInv, [MonitorNext]_monitorVars
  PROVE  MonitorTypeOK'
<1>1. ASSUME NEW t \in Tasks, Caller(t) PROVE MonitorTypeOK'
  <2>1. task' \in [Tasks -> TaskType] /\ channel' \in Seq(Tasks) /\ Len(channel') <= MaxLen
    BY <1>1, CallerTyped
  <2>2. UNCHANGED <<clock, runs, statVars, inserted, last>>
    BY <1>1 DEF Caller, NewTask, CompleteTask, Put
  <2> QED BY <2>1, <2>2 DEF MonitorTypeOK, statVars
<1>2. CASE Take
  <2>1. PICK n \in 0 .. count :
          /\ Moved(n) /\ channel # << >> /\ channel' = Tail(channel)
          /\ totalTimeCount' = totalTimeCount - Took(Out(n)) + Took({Head(channel)})
          /\ inserted' = Append(inserted, Head(channel)) /\ last' = clock
          /\ UNCHANGED <<clock, runs, task>>
          /\ ring' = [ring EXCEPT ![tailindex] = Head(channel)]
    BY <1>2, TakeStep
  <2>2. /\ channel \in Seq(Tasks) /\ Len(channel) <= MaxLen /\ inserted \in Seq(Tasks)
        /\ count \in 0 .. MaxLen /\ clock \in 1 .. MaxClock
        /\ ring \in [Slots -> Tasks \cup {None}] /\ tailindex \in Slots
    BY DEF MonitorTypeOK
  <2>3. /\ Head(channel) \in Tasks /\ Tail(channel) \in Seq(Tasks)
        /\ Len(Tail(channel)) = Len(channel) - 1 /\ Len(channel) \in Nat
    BY <2>1, <2>2, HeadTailProperties, LenProperties
  <2>4. channel' \in Seq(Tasks) /\ Len(channel') <= MaxLen
    BY <2>1, <2>2, <2>3, MonitorConstants
  <2>5. inserted' \in Seq(Tasks)
    BY <2>1, <2>2, <2>3, AppendProperties
  <2>6. ring' \in [Slots -> Tasks \cup {None}]
    BY <2>1, <2>2, <2>3
  <2>7. count' \in 0 .. MaxLen /\ headindex' \in Slots /\ tailindex' \in Slots
    BY <2>1, <2>2, MonitorConstants DEF Moved
  <2>8. Live \in SUBSET Tasks /\ IsFiniteSet(Live) /\ Live' = Rest(n) \cup {Head(channel)}
        /\ Out(n) \in SUBSET Live
    BY <2>1, LiveType, LiveMoves
  <2>9. SumInv' /\ RingInv'
    BY SumStep, RingStep
  <2>10. Took(Out(n)) \in Nat /\ Took({Head(channel)}) \in Nat
    <3>1. Out(n) \in SUBSET Tasks /\ IsFiniteSet(Out(n))
      BY <2>8, FS_Subset
    <3>2. {Head(channel)} \in SUBSET Tasks /\ IsFiniteSet({Head(channel)})
      BY <2>3, FS_Singleton
    <3> QED BY <3>1, <3>2, TookType
  <2>11. totalTimeCount' \in Int
    BY <2>1, <2>10 DEF MonitorTypeOK
  <2>12. successCount' \in 0 .. MaxLen
    <3>1. PICK T : T = Live'
      OBVIOUS
    <3>2. T \in SUBSET Tasks /\ IsFiniteSet(T)
      <4>1. Rest(n) \in SUBSET Live
        BY <2>1, LiveMoves
      <4>2. IsFiniteSet(Rest(n))
        BY <2>8, <4>1, FS_Subset
      <4> QED BY <2>3, <2>8, <3>1, <4>1, <4>2, FS_AddElement
    <3>3. successCount' = Wins(T)
      BY <2>1, <2>9, <3>1 DEF SumInv, Wins
    <3>4. Wins(T) \in Nat /\ Wins(T) <= Cardinality(T) /\ Cardinality(T) \in Nat
      BY <3>2, TookType, FS_Subset, FS_CardinalityType DEF Wins
    <3>5. Cardinality(T) <= count'
      <4>1. PICK c \in 0 .. MaxLen : c = count'
        BY <2>7
      <4>2. IsFiniteSet(0 .. c - 1) /\ Cardinality(0 .. c - 1) = c
        <5>1. PICK b \in Int : b = c - 1
          BY MonitorConstants
        <5>2. IsFiniteSet(0 .. b) /\ Cardinality(0 .. b) = IF 0 > b THEN 0 ELSE b - 0 + 1
          BY FS_Interval
        <5> QED BY <5>1, <5>2, MonitorConstants
      <4>3. T = {At(i)' : i \in 0 .. c - 1}
        BY <3>1, <4>1 DEF Live
      <4>4. PICK f : f = [i \in 0 .. c - 1 |-> At(i)']
        OBVIOUS
      <4>5. f \in Surjection(0 .. c - 1, T)
        BY <4>3, <4>4 DEF Surjection
      <4>6. Cardinality(T) <= c
        BY <4>2, <4>5, FS_Surjection
      <4> QED BY <4>1, <4>6
    <3> QED BY <2>7, <3>3, <3>4, <3>5, MonitorConstants
  <2> QED BY <2>1, <2>2, <2>4, <2>5, <2>6, <2>7, <2>11, <2>12 DEF MonitorTypeOK
<1>3. CASE Pass
  BY <1>3, MonitorConstants DEF Pass, MonitorTypeOK, statVars
<1>4. CASE Shutdown \/ UNCHANGED monitorVars
  BY <1>4 DEF Shutdown, monitorVars, MonitorTypeOK, statVars
<1> QED BY <1>1, <1>2, <1>3, <1>4 DEF MonitorNext


\* Behind an entry that is not old, or as the last one, or in a full ring: that is
\* where an old entry may be.
LEMMA WindowedStep ==
  ASSUME MonitorTypeOK, RingInv, OnceInv, Windowed, [MonitorNext]_monitorVars
  PROVE  Windowed'
<1>1. count \in 0 .. MaxLen /\ task \in [Tasks -> TaskType] /\ clock \in 1 .. MaxClock
  BY DEF MonitorTypeOK
<1>2. ASSUME UNCHANGED <<statVars, inserted, last>>,
             \A u \in Live : task'[u].lTime = task[u].lTime
      PROVE  Windowed'
  <2>1. Kept' = Kept /\ count' = count /\ last' = last
    BY <1>2 DEF Kept, Slot, statVars
  <2>2. \A i \in 1 .. count : Kept[i] \in Live
    <3> SUFFICES ASSUME NEW i \in 1 .. count PROVE Kept[i] \in Live
      OBVIOUS
    <3>1. i - 1 \in 0 .. count - 1 /\ Kept[i] = At(i - 1)
      BY <1>1 DEF Kept, At
    <3> QED BY <3>1 DEF Live
  <2>3. \A i \in 1 .. count : task'[Kept[i]].lTime = task[Kept[i]].lTime
    BY <1>2, <2>2
  <2>4. \A i \in 1 .. count : \A j \in 1 .. i - 1 : j \in 1 .. count
    BY <1>1
  <2> QED BY <2>1, <2>3, <2>4 DEF Windowed
<1>3. ASSUME NEW t \in Tasks, task[t].pc # "done",
             \A u \in Tasks : u # t => task'[u] = task[u]
      PROVE  \A u \in Live : task'[u].lTime = task[u].lTime
  <2>1. Outside(t)
    BY <1>3, NotDone
  <2> QED BY <1>3, <2>1, LiveType DEF Outside
<1>4. ASSUME NEW t \in Tasks, Caller(t) PROVE Windowed'
  <2>1. /\ task[t].pc # "done" /\ \A u \in Tasks : u # t => task'[u] = task[u]
        /\ UNCHANGED <<statVars, inserted, last>>
    BY <1>1, <1>4 DEF Caller, NewTask, CompleteTask, Put
  <2> QED BY <1>2, <1>3, <2>1
<1>5. CASE Pass \/ Shutdown \/ UNCHANGED monitorVars
  <2>1. UNCHANGED <<statVars, inserted, last>> /\ task' = task
    BY <1>5 DEF Pass, Shutdown, monitorVars
  <2> QED BY <1>2, <2>1
<1>6. CASE Take
  <2>1. PICK k \in 0 .. MaxLen, n \in 0 .. count :
          /\ Passes(k) /\ n = Overwritten(k) /\ Moved(n) /\ last' = clock /\ task' = task
    BY <1>6, TakeStep
  <2>2. /\ count' = count - n + 1 /\ count - n < MaxLen /\ n <= count /\ n \in Nat
        /\ \A i \in 0 .. count - n - 1 : At(i)' = At(n + i)
    BY <1>1, <2>1 DEF Moved
  <2>3. \A i \in 1 .. count - n : Kept'[i] = At(n + i - 1)
    <3> SUFFICES ASSUME NEW i \in 1 .. count - n PROVE Kept'[i] = At(n + i - 1)
      OBVIOUS
    <3>1. /\ i \in 1 .. count' /\ i - 1 \in 0 .. count - n - 1 /\ n + (i - 1) = n + i - 1
      BY <1>1, <2>2
    <3>2. Kept'[i] = At(i - 1)'
      BY <3>1 DEF Kept, At, Slot
    <3>3. PICK j \in 0 .. count - n - 1 : j = i - 1
      BY <3>1
    <3>4. At(j)' = At(n + j)
      BY <2>2
    <3>5. At(i - 1)' = At(j)'
      BY <3>3 DEF At, Slot
    <3> QED BY <3>1, <3>2, <3>3, <3>4, <3>5
  <2> SUFFICES ASSUME NEW i \in 1 .. count', count' # MaxLen, i # count',
                      last' - task'[Kept'[i]].lTime >= Window
               PROVE  \E j \in 1 .. i - 1 :
                        task'[Kept'[j]].lTime > task'[Kept'[i]].lTime
    BY DEF Windowed
  <2>4. i \in 1 .. count - n /\ i >= 1 /\ count - n >= 1
    BY <1>1, <2>2
  <2>5. n = k
    <3>1. k <= count /\ (n # k => k = 0 /\ count = MaxLen /\ n = 1)
      BY <2>1, TakeCount
    <3> QED BY <1>1, <2>2, <3>1
  <2>6. n < Span
    <3>1. Span = (IF count = MaxLen THEN 0 ELSE count)
      BY SpanIs
    <3>2. k \in 0 .. Span
      BY <2>1 DEF Passes
    <3> QED BY <1>1, <2>2, <2>4, <2>5, <3>1, <3>2
  <2>7. ~ Old(At(n)) /\ Kept'[1] = At(n)
    <3>1. 1 \in 1 .. count - n /\ n + 1 - 1 = n
      BY <1>1, <2>2, <2>4
    <3> QED BY <2>1, <2>3, <2>5, <2>6, <3>1 DEF Passes, At
  <2>8. Old(Kept'[i])
    BY <2>1 DEF Old
  <2>9. i # 1 /\ 1 \in 1 .. i - 1
    BY <1>1, <2>2, <2>4, <2>7, <2>8
  <2>10. Kept'[1] \in Tasks /\ Kept'[i] \in Tasks
    <3>1. \A x \in 0 .. count - 1 : At(x) \in Tasks
      BY LiveType DEF Live
    <3>2. n \in 0 .. count - 1 /\ n + i - 1 \in 0 .. count - 1
      BY <1>1, <2>2, <2>4
    <3>3. Kept'[i] = At(n + i - 1)
      BY <2>3, <2>4
    <3> QED BY <2>7, <3>1, <3>2, <3>3
  <2>11. task[Kept'[1]].lTime \in Int /\ task[Kept'[i]].lTime \in Int
    BY <1>1, <2>10, MonitorConstants DEF TaskType
  <2>12. task[Kept'[1]].lTime > task[Kept'[i]].lTime
    BY <1>1, <2>7, <2>8, <2>11, MonitorConstants DEF Old
  <2> QED BY <2>1, <2>9, <2>12
<1> QED BY <1>4, <1>5, <1>6 DEF MonitorNext

LEMMA ExactFrom ==
  ASSUME MonitorTypeOK, RingInv, SumInv
  PROVE  Exact
<1>1. /\ count \in 0 .. MaxLen /\ Len(inserted) \in Nat /\ inserted \in Seq(Tasks)
      /\ DOMAIN inserted = 1 .. Len(inserted)
  BY LenInserted DEF MonitorTypeOK
<1>2. count <= Len(inserted) /\ count % MaxLen = Span
  BY SpanIs DEF RingInv
<1>3. \A i \in 1 .. count : Kept[i] = inserted[Len(inserted) - count + i]
  <2> SUFFICES ASSUME NEW i \in 1 .. count
               PROVE  Kept[i] = inserted[Len(inserted) - count + i]
    OBVIOUS
  <2>1. PICK j \in 0 .. count - 1 : j = i - 1 /\ Len(inserted) - count + 1 + j
                                                  = Len(inserted) - count + i
    <3>1. i - 1 \in 0 .. count - 1
      BY <1>1
    <3> QED BY <1>1, <3>1
  <2>2. At(j) = inserted[Len(inserted) - count + 1 + j]
    BY DEF RingInv
  <2> QED BY <2>1, <2>2 DEF Kept, At
<1>4. Kept = SubSeq(inserted, Len(inserted) - count + 1, Len(inserted))
  <2>1. PICK b \in Nat : b = Len(inserted)
    BY <1>1, Zenon
  <2>2. PICK a \in Int : a = Len(inserted) - count + 1 /\ b = Len(inserted)
    BY <1>1, <2>1
  <2>3. SubSeq(inserted, a, b) = [i \in 1 .. (1 + b - a) |-> inserted[i + a - 1]]
    OBVIOUS
  <2>4. 1 + b - a = count /\ \A i \in 1 .. count : i + a - 1 = Len(inserted) - count + i
    BY <1>1, <2>2
  <2>5. SubSeq(inserted, a, b) = Kept
    <3>1. \A i \in 1 .. count : inserted[i + a - 1] = Kept[i]
      BY <1>3, <2>4
    <3>2. Kept = [i \in 1 .. count |-> Kept[i]]
      BY DEF Kept
    <3>3. SubSeq(inserted, a, b) = [i \in 1 .. count |-> inserted[i + a - 1]]
      BY <2>3, <2>4, Zenon
    <3>4. [i \in 1 .. count |-> inserted[i + a - 1]] = [i \in 1 .. count |-> Kept[i]]
      BY <3>1, Zenon
    <3> QED BY <3>2, <3>3, <3>4, Zenon
  <2> QED BY <2>2, <2>5
<1>5. {Kept[i] : i \in 1 .. count} = Live
  <2>1. \A i \in 1 .. count : i - 1 \in 0 .. count - 1 /\ Kept[i] = At(i - 1)
    BY <1>1 DEF Kept, At
  <2>2. \A i \in 0 .. count - 1 : i + 1 \in 1 .. count /\ At(i) = Kept[i + 1]
    BY <1>1 DEF Kept, At
  <2> QED BY <2>1, <2>2 DEF Live
<1> QED BY <1>2, <1>4, <1>5 DEF Exact, SumInv

--------------------------------------------------------------------------------
(* The theorems. *)

MonitorInv == MonitorTypeOK /\ RingInv /\ OnceInv /\ SumInv /\ Windowed

LEMMA MonitorInvInit == MonitorInit => MonitorInv
<1> SUFFICES ASSUME MonitorInit PROVE MonitorInv
  OBVIOUS
<1>1. MonitorTypeOK
  BY TypeInit
<1>2. count = 0 /\ tailindex = 0 /\ headindex = 0 /\ channel = << >> /\ inserted = << >>
      /\ totalTimeCount = 0 /\ successCount = 0
  BY DEF MonitorInit
<1>3. RingInv
  <2>1. (0 + 0) % MaxLen = 0
    BY MonitorConstants, Ahead DEF Slots
  <2> QED BY <1>2, <2>1 DEF RingInv, Slot
<1>4. OnceInv
  BY <1>2 DEF OnceInv
<1>5. SumInv
  <2>1. Live = {}
    BY <1>2 DEF Live
  <2>2. Took({}) = Cardinality({}) /\ Wins({}) = Cardinality({})
    BY DEF Took, Wins
  <2> QED BY <1>2, <2>1, <2>2, FS_EmptySet DEF SumInv
<1>6. Windowed
  BY <1>2 DEF Windowed
<1> QED BY <1>1, <1>3, <1>4, <1>5, <1>6 DEF MonitorInv

\* The inductive invariant: the indices and the count agree, the ring holds the last
\* count insertions, a task is sent once, and the sums are about the ring.
THEOREM MonitorInvariant == MonitorSpec => []MonitorInv
<1>1. MonitorInv /\ [MonitorNext]_monitorVars => MonitorInv'
  BY TypeStep, RingStep, OnceStep, SumStep, WindowedStep DEF MonitorInv
<1> QED BY MonitorInvInit, <1>1, PTL DEF MonitorSpec

\* Every variable stays in its range: the counters never pass the ring's length or 0.
THEOREM MonitorTypeCorrect == MonitorSpec => []MonitorTypeOK
<1>1. MonitorInv => MonitorTypeOK
  BY DEF MonitorInv
<1> QED BY MonitorInvariant, <1>1, PTL

\* What GetStats reads is about the last count tasks inserted, each counted once, for
\* every length of the ring and number of tasks.
THEOREM StatsExact == MonitorSpec => []Exact
<1>1. MonitorInv => Exact
  BY ExactFrom DEF MonitorInv
<1> QED BY MonitorInvariant, <1>1, PTL

\* Old tasks are counted only behind one that ended later, as the last one, or in a
\* ring that is full.
THEOREM WindowKept == MonitorSpec => []Windowed
<1>1. MonitorInv => Windowed
  BY DEF MonitorInv
<1> QED BY MonitorInvariant, <1>1, PTL
--------------------------------------------------------------------------------
(* GroupCache *)

\* What a key's set may hold: users for a room, rooms for a user.
Partners(k) == IF k \in Rooms THEN Users ELSE Rooms

Fits(c) ==
  /\ c \in CmdType
  /\ c.op \in {"sadd", "fill"} => c.args \subseteq Partners(c.key)
  /\ c.op = "setRole" => c.key \in Rooms
  /\ c.op = "ask" => c.key \in Rooms /\ c.args \subseteq Users

Alters(c, k) == c.op \in {"sadd", "srem"} /\ c.key = k
Consults(c) == c.op \in Gates \cup Reads \cup Writes

\* A change of a set is followed by the set's mark, with no other change of it before.
Promised(s) ==
  \A i \in DOMAIN s : \A k \in Keys : Alters(s[i], k) =>
    \E j \in DOMAIN s :
      /\ i < j /\ s[j] = ZAdd(k)
      /\ \A l \in DOMAIN s : i < l /\ l < j => ~ Alters(s[l], k)

\* What may end a script early comes between no change and its mark.
Guarded(s) ==
  \A i, j \in DOMAIN s : \A k \in Keys : Consults(s[i]) /\ i < j /\ s[j] = ZAdd(k) =>
    \E l \in DOMAIN s : i < l /\ l < j /\ Alters(s[l], k)

Proper(s) ==
  \A i \in DOMAIN s :
    /\ Fits(s[i])
    /\ s[i].op \notin {"zrem", "unmark", "commit"}
    /\ s[i].op = "sismember" => i + 1 \in DOMAIN s
    /\ s[i].op = "smembers" => s[Len(s)].op = "load"

\* What is left of a request.
Served(s) == Promised(s) /\ Guarded(s) /\ Proper(s)

\* A script, or a part of one, that marks no set but after a change of it.
Marked(s) ==
  \A j \in DOMAIN s : \A k \in Keys : s[j] = ZAdd(k) =>
    \E l \in DOMAIN s : l < j /\ Alters(s[l], k)

\* The sets that what is left of a script marks for a change already made.
Owed(s) ==
  { k \in Keys : \E i \in DOMAIN s :
      s[i] = ZAdd(k) /\ \A l \in DOMAIN s : l < i => ~ Alters(s[l], k) }

Unmarks(k) == { Cmd("zrem", k, {}), Cmd("unmark", k, {}) }

\* The Flusher is at key k, which stays marked until it removes the mark.
Flushes(k, final) ==
  \/ /\ script[Flusher] = << Cmd("smembers", k, {}), Cmd("zscore", k, {}),
                             Cmd("commit", k, {}), final >>
     /\ seen[Flusher] = {}
  \/ /\ \E c \in { Cmd("zscore", k, {}), Persist(k), Cmd("expire", k, {}) } :
          script[Flusher] = << c, Cmd("commit", k, {}), final >>
     /\ seen[Flusher] \subseteq Partners(k)
  \/ script[Flusher] = << Cmd("commit", k, {}), final >> /\ seen[Flusher] \subseteq Partners(k)
  \/ script[Flusher] = << final >> /\ (seen[Flusher] = {} \/ seen[Flusher] = Table(k))

FlushOK ==
  /\ todo \subseteq dirty
  /\ \/ script[Flusher] = << >> /\ seen[Flusher] = {}
     \/ \E k \in dirty \ todo : \E final \in Unmarks(k) : Flushes(k, final)

Agrees(k) ==
  (/\ cache[k] # {} /\ k \notin dirty \cup doubtful
   /\ \A h \in Handlers : k \notin Owed(script[h])) => cache[k] = Table(k)

GroupIInv ==
  /\ GroupTypeOK
  /\ \A h \in Handlers : Served(script[h])
  /\ FlushOK
  /\ \A k \in Keys : Agrees(k)
--------------------------------------------------------------------------------
(* Scripts *)

LEMMA GroupConstants ==
  /\ Rooms \cap Users = {} /\ Groups \subseteq Rooms /\ Existing \subseteq Rooms
  /\ Flusher \notin Handlers /\ MaxOps \in Nat /\ MaxFails \in Nat
  /\ NoRow \notin {Owner, Admin, Member}
BY GroupAssumption DEF Owner, Admin, Member

LEMMA EmptyServed == << >> \in Seq(CmdType) /\ Served(<< >>)
BY DEF Served, Promised, Guarded, Proper

LEMMA TailServed ==
  ASSUME NEW s \in Seq(CmdType), s # << >>, Served(s)
  PROVE  Tail(s) \in Seq(CmdType) /\ Served(Tail(s))
<1> DEFINE t == Tail(s)
<1>1. /\ t \in Seq(CmdType) /\ Len(t) = Len(s) - 1 /\ Len(s) \in Nat
      /\ DOMAIN s = 1 .. Len(s) /\ DOMAIN t = 1 .. Len(s) - 1
      /\ \A i \in DOMAIN t : i + 1 \in DOMAIN s /\ t[i] = s[i + 1]
      /\ \A i \in DOMAIN s : i > 1 => i - 1 \in DOMAIN t /\ t[i - 1] = s[i]
  OBVIOUS
<1> HIDE DEF t
<1>2. Promised(t)
  <2> SUFFICES ASSUME NEW i \in DOMAIN t, NEW k \in Keys, Alters(t[i], k)
               PROVE  \E j \in DOMAIN t :
                        /\ i < j /\ t[j] = ZAdd(k)
                        /\ \A l \in DOMAIN t : i < l /\ l < j => ~ Alters(t[l], k)
    BY DEF Promised
  <2>1. PICK j \in DOMAIN s :
          /\ i + 1 < j /\ s[j] = ZAdd(k)
          /\ \A l \in DOMAIN s : i + 1 < l /\ l < j => ~ Alters(s[l], k)
    BY <1>1 DEF Served, Promised
  <2>2. j - 1 \in DOMAIN t /\ i < j - 1 /\ t[j - 1] = ZAdd(k)
    BY <1>1, <2>1
  <2>3. ASSUME NEW l \in DOMAIN t, i < l, l < j - 1 PROVE ~ Alters(t[l], k)
    BY <1>1, <2>1, <2>3
  <2> QED BY <2>2, <2>3
<1>3. Guarded(t)
  <2> SUFFICES ASSUME NEW i \in DOMAIN t, NEW j \in DOMAIN t, NEW k \in Keys,
                      Consults(t[i]), i < j, t[j] = ZAdd(k)
               PROVE  \E l \in DOMAIN t : i < l /\ l < j /\ Alters(t[l], k)
    BY DEF Guarded
  <2>1. PICK l \in DOMAIN s : i + 1 < l /\ l < j + 1 /\ Alters(s[l], k)
    <3>1. /\ i + 1 \in DOMAIN s /\ j + 1 \in DOMAIN s /\ i + 1 < j + 1
          /\ Consults(s[i + 1]) /\ s[j + 1] = ZAdd(k)
      BY <1>1
    <3> QED BY <3>1 DEF Served, Guarded
  <2>2. l - 1 \in DOMAIN t /\ i < l - 1 /\ l - 1 < j /\ Alters(t[l - 1], k)
    BY <1>1, <2>1
  <2> QED BY <2>2
<1>4. Proper(t)
  <2> SUFFICES ASSUME NEW i \in DOMAIN t
               PROVE  /\ Fits(t[i])
                      /\ t[i].op \notin {"zrem", "unmark", "commit"}
                      /\ t[i].op = "sismember" => i + 1 \in DOMAIN t
                      /\ t[i].op = "smembers" => t[Len(t)].op = "load"
    BY DEF Proper
  <2>1. /\ Fits(s[i + 1])
        /\ s[i + 1].op \notin {"zrem", "unmark", "commit"}
        /\ s[i + 1].op = "sismember" => i + 2 \in DOMAIN s
        /\ s[i + 1].op = "smembers" => s[Len(s)].op = "load"
    BY <1>1 DEF Served, Proper
  <2>2. t[Len(t)] = s[Len(s)] /\ (i + 2 \in DOMAIN s => i + 1 \in DOMAIN t)
    BY <1>1
  <2> QED BY <1>1, <2>1, <2>2
<1> QED BY <1>1, <1>2, <1>3, <1>4 DEF Served, t

\* A command that changes no set may come first.
LEMMA PrependServed ==
  ASSUME NEW s \in Seq(CmdType), Served(s), NEW c \in CmdType, c.op \in {"persist", "expire"}
  PROVE  << c >> \o s \in Seq(CmdType) /\ Served(<< c >> \o s)
<1> DEFINE t == << c >> \o s
<1>1. /\ t \in Seq(CmdType) /\ Len(t) = Len(s) + 1 /\ Len(s) \in Nat /\ t[1] = c
      /\ DOMAIN s = 1 .. Len(s) /\ DOMAIN t = 1 .. Len(s) + 1
      /\ \A i \in DOMAIN s : i + 1 \in DOMAIN t /\ t[i + 1] = s[i]
      /\ \A i \in DOMAIN t : i > 1 => i - 1 \in DOMAIN s /\ t[i] = s[i - 1]
  OBVIOUS
<1> HIDE DEF t
<1>2. Promised(t)
  <2> SUFFICES ASSUME NEW i \in DOMAIN t, NEW k \in Keys, Alters(t[i], k)
               PROVE  \E j \in DOMAIN t :
                        /\ i < j /\ t[j] = ZAdd(k)
                        /\ \A l \in DOMAIN t : i < l /\ l < j => ~ Alters(t[l], k)
    BY DEF Promised
  <2>1. i > 1
    BY <1>1 DEF Alters
  <2>2. PICK j \in DOMAIN s :
          /\ i - 1 < j /\ s[j] = ZAdd(k)
          /\ \A l \in DOMAIN s : i - 1 < l /\ l < j => ~ Alters(s[l], k)
    BY <1>1, <2>1 DEF Served, Promised
  <2>3. j + 1 \in DOMAIN t /\ i < j + 1 /\ t[j + 1] = ZAdd(k)
    BY <1>1, <2>1, <2>2
  <2>4. ASSUME NEW l \in DOMAIN t, i < l, l < j + 1 PROVE ~ Alters(t[l], k)
    <3>1. l > 1 /\ i - 1 < l - 1 /\ l - 1 < j
      BY <1>1, <2>1, <2>4
    <3> QED BY <1>1, <2>2, <3>1
  <2> QED BY <2>3, <2>4
<1>3. Guarded(t)
  <2> SUFFICES ASSUME NEW i \in DOMAIN t, NEW j \in DOMAIN t, NEW k \in Keys,
                      Consults(t[i]), i < j, t[j] = ZAdd(k)
               PROVE  \E l \in DOMAIN t : i < l /\ l < j /\ Alters(t[l], k)
    BY DEF Guarded
  <2>1. i > 1
    BY <1>1 DEF Consults, Gates, Reads, Writes
  <2>2. PICK l \in DOMAIN s : i - 1 < l /\ l < j - 1 /\ Alters(s[l], k)
    <3>1. /\ i - 1 \in DOMAIN s /\ j - 1 \in DOMAIN s /\ i - 1 < j - 1
          /\ Consults(s[i - 1]) /\ s[j - 1] = ZAdd(k)
      BY <1>1, <2>1
    <3> QED BY <3>1 DEF Served, Guarded
  <2>3. l + 1 \in DOMAIN t /\ i < l + 1 /\ l + 1 < j /\ Alters(t[l + 1], k)
    BY <1>1, <2>1, <2>2
  <2> QED BY <2>3
<1>4. Proper(t)
  <2> SUFFICES ASSUME NEW i \in DOMAIN t
               PROVE  /\ Fits(t[i])
                      /\ t[i].op \notin {"zrem", "unmark", "commit"}
                      /\ t[i].op = "sismember" => i + 1 \in DOMAIN t
                      /\ t[i].op = "smembers" => t[Len(t)].op = "load"
    BY DEF Proper
  <2>1. CASE i = 1
    BY <1>1, <2>1 DEF Fits
  <2>2. CASE i > 1
    <3>1. /\ Fits(s[i - 1])
          /\ s[i - 1].op \notin {"zrem", "unmark", "commit"}
          /\ s[i - 1].op = "sismember" => i \in DOMAIN s
          /\ s[i - 1].op = "smembers" => s[Len(s)].op = "load"
      <4>1. i - 1 \in DOMAIN s /\ (i - 1) + 1 = i
        BY <1>1, <2>2
      <4> QED BY <4>1 DEF Served, Proper
    <3>2. t[Len(t)] = s[Len(s)] /\ (i \in DOMAIN s => i + 1 \in DOMAIN t)
      BY <1>1, <2>2
    <3> QED BY <1>1, <2>2, <3>1, <3>2
  <2> QED BY <1>1, <2>1, <2>2
<1> QED BY <1>1, <1>2, <1>3, <1>4 DEF Served, t

LEMMA SingleServed ==
  ASSUME NEW c, Fits(c), c.op \in {"load", "fill", "unask"}
  PROVE  << c >> \in Seq(CmdType) /\ Served(<< c >>)
<1>1. c \in CmdType
  BY DEF Fits
<1> DEFINE s == << c >>
<1>2. s \in Seq(CmdType) /\ DOMAIN s = {1} /\ s[1] = c /\ Len(s) = 1
  BY <1>1
<1> HIDE DEF s
<1>3. Promised(s) /\ Guarded(s)
  BY <1>2 DEF Promised, Guarded, Alters, ZAdd, Cmd
<1>4. Proper(s)
  BY <1>2 DEF Proper
<1> QED BY <1>2, <1>3, <1>4 DEF Served, s


\* Gates and single statements, before the commands that change sets.
LEMMA PlainServed ==
  ASSUME NEW s \in Seq(CmdType), Proper(s),
         \A i \in DOMAIN s : s[i].op \notin {"sadd", "srem", "zadd"}
  PROVE  Served(s) /\ Marked(s)
<1>1. Promised(s)
  BY DEF Promised, Alters
<1>2. Guarded(s) /\ Marked(s)
  BY DEF Guarded, Marked, ZAdd, Cmd
<1> QED BY <1>1, <1>2 DEF Served

LEMMA ConcatServed ==
  ASSUME NEW a \in Seq(CmdType), Served(a), \A i \in DOMAIN a : a[i].op # "smembers",
         NEW b \in Seq(CmdType), Served(b), Marked(b)
  PROVE  a \o b \in Seq(CmdType) /\ Served(a \o b) /\ (Marked(a) => Marked(a \o b))
<1> DEFINE t == a \o b
           n == Len(a)
<1>1. /\ t \in Seq(CmdType) /\ Len(t) = n + Len(b) /\ n \in Nat /\ Len(b) \in Nat
      /\ DOMAIN a = 1 .. n /\ DOMAIN b = 1 .. Len(b) /\ DOMAIN t = 1 .. n + Len(b)
      /\ \A i \in DOMAIN a : i \in DOMAIN t /\ t[i] = a[i]
      /\ \A i \in DOMAIN b : i + n \in DOMAIN t /\ t[i + n] = b[i]
      /\ \A i \in DOMAIN t : i > n => i - n \in DOMAIN b /\ t[i] = b[i - n]
      /\ \A i \in DOMAIN t : i <= n => i \in DOMAIN a
  OBVIOUS
<1> HIDE DEF t, n
<1>2. Promised(t)
  <2> SUFFICES ASSUME NEW i \in DOMAIN t, NEW k \in Keys, Alters(t[i], k)
               PROVE  \E j \in DOMAIN t :
                        /\ i < j /\ t[j] = ZAdd(k)
                        /\ \A l \in DOMAIN t : i < l /\ l < j => ~ Alters(t[l], k)
    BY DEF Promised
  <2>1. CASE i <= n
    <3>1. PICK j \in DOMAIN a :
            /\ i < j /\ a[j] = ZAdd(k)
            /\ \A l \in DOMAIN a : i < l /\ l < j => ~ Alters(a[l], k)
      BY <1>1, <2>1 DEF Served, Promised
    <3>2. j \in DOMAIN t /\ t[j] = ZAdd(k) /\ j <= n
      BY <1>1, <3>1
    <3>3. ASSUME NEW l \in DOMAIN t, i < l, l < j PROVE ~ Alters(t[l], k)
      <4>1. l <= n
        BY <1>1, <3>2, <3>3
      <4> QED BY <1>1, <3>1, <3>3, <4>1
    <3> QED BY <3>1, <3>2, <3>3
  <2>2. CASE i > n
    <3>1. PICK j \in DOMAIN b :
            /\ i - n < j /\ b[j] = ZAdd(k)
            /\ \A l \in DOMAIN b : i - n < l /\ l < j => ~ Alters(b[l], k)
      BY <1>1, <2>2 DEF Served, Promised
    <3>2. j + n \in DOMAIN t /\ t[j + n] = ZAdd(k) /\ i < j + n
      BY <1>1, <2>2, <3>1
    <3>3. ASSUME NEW l \in DOMAIN t, i < l, l < j + n PROVE ~ Alters(t[l], k)
      <4>1. l > n /\ i - n < l - n /\ l - n < j
        BY <1>1, <2>2, <3>1, <3>3
      <4> QED BY <1>1, <3>1, <4>1
    <3> QED BY <3>2, <3>3
  <2> QED BY <1>1, <2>1, <2>2
<1>3. ASSUME NEW j \in DOMAIN t, NEW k \in Keys, t[j] = ZAdd(k), j > n
      PROVE  \E l \in DOMAIN t : n < l /\ l < j /\ Alters(t[l], k)
  <2>1. PICK l \in DOMAIN b : l < j - n /\ Alters(b[l], k)
    <3>1. j - n \in DOMAIN b /\ b[j - n] = ZAdd(k)
      BY <1>1, <1>3
    <3> QED BY <3>1 DEF Marked
  <2>2. l + n \in DOMAIN t /\ n < l + n /\ l + n < j /\ Alters(t[l + n], k)
    BY <1>1, <2>1
  <2> QED BY <2>2
<1>4. Guarded(t)
  <2> SUFFICES ASSUME NEW i \in DOMAIN t, NEW j \in DOMAIN t, NEW k \in Keys,
                      Consults(t[i]), i < j, t[j] = ZAdd(k)
               PROVE  \E l \in DOMAIN t : i < l /\ l < j /\ Alters(t[l], k)
    BY DEF Guarded
  <2>1. CASE j <= n
    <3>1. i \in DOMAIN a /\ j \in DOMAIN a /\ Consults(a[i]) /\ a[j] = ZAdd(k)
      BY <1>1, <2>1
    <3>2. PICK l \in DOMAIN a : i < l /\ l < j /\ Alters(a[l], k)
      BY <3>1 DEF Served, Guarded
    <3> QED BY <1>1, <3>2
  <2>2. CASE i <= n /\ j > n
    <3>1. PICK l \in DOMAIN t : n < l /\ l < j /\ Alters(t[l], k)
      BY <1>3, <2>2
    <3>2. i < l
      BY <1>1, <2>2, <3>1
    <3> QED BY <3>1, <3>2
  <2>3. CASE i > n
    <3>1. /\ i - n \in DOMAIN b /\ j - n \in DOMAIN b /\ i - n < j - n
          /\ Consults(b[i - n]) /\ b[j - n] = ZAdd(k)
      BY <1>1, <2>3
    <3>2. PICK l \in DOMAIN b : i - n < l /\ l < j - n /\ Alters(b[l], k)
      BY <3>1 DEF Served, Guarded
    <3>3. l + n \in DOMAIN t /\ i < l + n /\ l + n < j /\ Alters(t[l + n], k)
      BY <1>1, <2>3, <3>2
    <3> QED BY <3>3
  <2> QED BY <1>1, <2>1, <2>2, <2>3
<1>5. Proper(t)
  <2> SUFFICES ASSUME NEW i \in DOMAIN t
               PROVE  /\ Fits(t[i])
                      /\ t[i].op \notin {"zrem", "unmark", "commit"}
                      /\ t[i].op = "sismember" => i + 1 \in DOMAIN t
                      /\ t[i].op = "smembers" => t[Len(t)].op = "load"
    BY DEF Proper
  <2>1. CASE i <= n
    <3>1. /\ Fits(a[i])
          /\ a[i].op \notin {"zrem", "unmark", "commit", "smembers"}
          /\ a[i].op = "sismember" => i + 1 \in DOMAIN a
      BY <1>1, <2>1 DEF Served, Proper
    <3> QED BY <1>1, <2>1, <3>1
  <2>2. CASE i > n
    <3>1. i - n \in DOMAIN b /\ t[i] = b[i - n] /\ Len(b) > 0
      BY <1>1, <2>2
    <3>2. /\ Fits(b[i - n])
          /\ b[i - n].op \notin {"zrem", "unmark", "commit"}
          /\ b[i - n].op = "sismember" => (i - n) + 1 \in DOMAIN b
          /\ b[i - n].op = "smembers" => b[Len(b)].op = "load"
      BY <3>1 DEF Served, Proper
    <3>3. t[Len(t)] = b[Len(b)] /\ ((i - n) + 1 \in DOMAIN b => i + 1 \in DOMAIN t)
      <4>1. Len(b) \in DOMAIN b
        BY <1>1, <3>1
      <4>2. Len(b) + n = Len(t)
        BY <1>1
      <4>3. t[Len(b) + n] = b[Len(b)]
        BY <1>1, <4>1
      <4>4. (i - n) + 1 \in DOMAIN b => i + 1 \in DOMAIN t
        BY <1>1, <2>2
      <4> QED BY <4>2, <4>3, <4>4
    <3> QED BY <3>1, <3>2, <3>3
  <2> QED BY <1>1, <2>1, <2>2
<1>6. ASSUME Marked(a) PROVE Marked(t)
  <2> SUFFICES ASSUME NEW j \in DOMAIN t, NEW k \in Keys, t[j] = ZAdd(k)
               PROVE  \E l \in DOMAIN t : l < j /\ Alters(t[l], k)
    BY DEF Marked
  <2>1. CASE j <= n
    <3>1. PICK l \in DOMAIN a : l < j /\ Alters(a[l], k)
      BY <1>1, <1>6, <2>1 DEF Marked
    <3> QED BY <1>1, <3>1
  <2> QED BY <1>1, <1>3, <2>1
<1> QED BY <1>1, <1>2, <1>4, <1>5, <1>6 DEF Served, t


LEMMA Commands ==
  /\ \A k \in Keys : k \in Rooms \/ k \in Users
  /\ Rooms \subseteq Keys /\ Users \subseteq Keys
  /\ \A r \in Rooms, u \in Users :
       r # u /\ Partners(r) = Users /\ Partners(u) = Rooms
  /\ \A op \in Simple \cup Gates \cup Reads \cup Writes : \A k \in Keys : \A args \in SUBSET Keys :
       /\ Cmd(op, k, args) \in CmdType
       /\ Cmd(op, k, args).op = op /\ Cmd(op, k, args).key = k /\ Cmd(op, k, args).args = args
BY GroupConstants DEF Keys, Partners, Cmd, CmdType

LEMMA MarksFit ==
  ASSUME NEW k \in Keys
  PROVE  /\ Fits(ZAdd(k)) /\ ZAdd(k).op = "zadd" /\ ZAdd(k).key = k
         /\ Fits(Persist(k)) /\ Persist(k).op = "persist"
         /\ Fits(Cmd("expire", k, {})) /\ Cmd("expire", k, {}).op = "expire"
<1>1. {"zadd", "persist", "expire"} \subseteq Simple \cup Gates \cup Reads \cup Writes
  BY DEF Simple
<1> QED BY <1>1, Commands DEF Fits, ZAdd, Persist

LEMMA AddsFit ==
  ASSUME NEW r \in Rooms, NEW u \in Users
  PROVE  /\ Fits(SAdd(r, u)) /\ SAdd(r, u).op = "sadd" /\ SAdd(r, u).key = r
         /\ Fits(SAdd(u, r)) /\ SAdd(u, r).op = "sadd" /\ SAdd(u, r).key = u
<1>1. r \in Keys /\ u \in Keys /\ {u} \in SUBSET Keys /\ {r} \in SUBSET Keys
  BY Commands
<1>2. "sadd" \in Simple \cup Gates \cup Reads \cup Writes
  BY DEF Simple
<1> QED BY <1>1, <1>2, Commands DEF Fits, SAdd

LEMMA StatementsFit ==
  ASSUME NEW r \in Rooms, NEW u \in Users,
         NEW op \in Gates \cup {"unask", "setRole", "ask"}
  PROVE  /\ Fits(Cmd(op, r, {u})) /\ Cmd(op, r, {u}).op = op
         /\ Fits(Cmd(op, r, {})) /\ Cmd(op, r, {}).op = op
<1>1. r \in Keys /\ {u} \in SUBSET Keys /\ {} \in SUBSET Keys
  BY Commands
<1>2. op \in Simple \cup Gates \cup Reads \cup Writes /\ op \notin {"sadd", "fill"}
  BY DEF Gates, Writes
<1>3. /\ Cmd(op, r, {u}) \in CmdType /\ Cmd(op, r, {u}).op = op
      /\ Cmd(op, r, {u}).key = r /\ Cmd(op, r, {u}).args = {u}
      /\ Cmd(op, r, {}) \in CmdType /\ Cmd(op, r, {}).op = op
      /\ Cmd(op, r, {}).key = r /\ Cmd(op, r, {}).args = {}
  BY <1>1, <1>2, Commands
<1> QED BY <1>2, <1>3 DEF Fits

\* The cache's own functions.
LEMMA AddServed ==
  ASSUME NEW r \in Rooms, NEW u \in Users
  PROVE  /\ AddRoomMemberCache(r, u) \in Seq(CmdType)
         /\ Served(AddRoomMemberCache(r, u)) /\ Marked(AddRoomMemberCache(r, u))
         /\ \A i \in DOMAIN AddRoomMemberCache(r, u) : AddRoomMemberCache(r, u)[i].op # "smembers"
<1> DEFINE s == AddRoomMemberCache(r, u)
<1>1. r \in Keys /\ u \in Keys /\ r # u
  BY Commands
<1>2. /\ \A i \in {1, 2, 3, 4, 5, 6} : Fits(s[i])
      /\ s[1].op = "sadd" /\ s[1].key = r /\ s[2].op = "sadd" /\ s[2].key = u
      /\ s[3] = ZAdd(r) /\ s[4] = ZAdd(u) /\ s[5].op = "persist" /\ s[6].op = "persist"
      /\ s[3].op = "zadd" /\ s[4].op = "zadd" /\ s[3].key = r /\ s[4].key = u
  <2>1. /\ s[1] = SAdd(r, u) /\ s[2] = SAdd(u, r) /\ s[3] = ZAdd(r) /\ s[4] = ZAdd(u)
        /\ s[5] = Persist(r) /\ s[6] = Persist(u)
    BY DEF AddRoomMemberCache
  <2> HIDE DEF s
  <2>2. /\ Fits(s[1]) /\ s[1].op = "sadd" /\ s[1].key = r
        /\ Fits(s[2]) /\ s[2].op = "sadd" /\ s[2].key = u
    BY <2>1, AddsFit
  <2>3. \A k \in Keys : /\ Fits(ZAdd(k)) /\ ZAdd(k).op = "zadd" /\ ZAdd(k).key = k
                       /\ Fits(Persist(k)) /\ Persist(k).op = "persist"
    BY MarksFit
  <2>4. /\ Fits(s[3]) /\ s[3].op = "zadd" /\ s[3].key = r
        /\ Fits(s[4]) /\ s[4].op = "zadd" /\ s[4].key = u
        /\ Fits(s[5]) /\ s[5].op = "persist" /\ Fits(s[6]) /\ s[6].op = "persist"
    BY <1>1, <2>1, <2>3
  <2> QED BY <2>1, <2>2, <2>4
<1>3. s \in Seq(CmdType) /\ DOMAIN s = {1, 2, 3, 4, 5, 6}
  <2>1. \A i \in {1, 2, 3, 4, 5, 6} : s[i] \in CmdType
    BY <1>2 DEF Fits
  <2> QED BY <2>1 DEF AddRoomMemberCache
<1>4. \A k \in Keys : ZAdd(k).key = k /\ ZAdd(k).op = "zadd"
  BY MarksFit
<1> HIDE DEF s
<1>5. Promised(s)
  <2>1. ASSUME NEW i \in DOMAIN s, NEW k \in Keys, Alters(s[i], k)
        PROVE  \E j \in DOMAIN s :
                 /\ i < j /\ s[j] = ZAdd(k)
                 /\ \A l \in DOMAIN s : i < l /\ l < j => ~ Alters(s[l], k)
    BY <1>1, <1>2, <1>3, <2>1 DEF Alters
  <2> QED BY <2>1 DEF Promised
<1>6. Guarded(s)
  BY <1>2, <1>3 DEF Guarded, Consults, Gates, Reads, Writes
<1>7. Proper(s)
  BY <1>2, <1>3 DEF Proper
<1>8. Marked(s)
  <2>1. ASSUME NEW j \in DOMAIN s, NEW k \in Keys, s[j] = ZAdd(k)
        PROVE  \E l \in DOMAIN s : l < j /\ Alters(s[l], k)
    BY <1>2, <1>3, <1>4, <2>1 DEF Alters
  <2> QED BY <2>1 DEF Marked
<1>9. \A i \in DOMAIN s : s[i].op # "smembers"
  BY <1>2, <1>3
<1> QED BY <1>3, <1>5, <1>6, <1>7, <1>8, <1>9 DEF s, Served

LEMMA RemoveServed ==
  ASSUME NEW r \in Rooms, NEW u \in Users
  PROVE  /\ RemoveRoomMemberCache(r, u) \in Seq(CmdType)
         /\ Served(RemoveRoomMemberCache(r, u)) /\ Marked(RemoveRoomMemberCache(r, u))
<1> DEFINE s == RemoveRoomMemberCache(r, u)
<1>1. r \in Keys /\ u \in Keys /\ r # u
  BY Commands
<1>2. /\ \A i \in {1, 2} : Fits(s[i]) /\ s[i].op = "srem"
      /\ s[1].key = r /\ s[2].key = u
  <2>1. "srem" \in Simple \cup Gates \cup Reads \cup Writes /\ {r, u} \subseteq Keys
    BY <1>1 DEF Simple
  <2>2. s[1] = Cmd("srem", r, {u}) /\ s[2] = Cmd("srem", u, {r})
    BY DEF RemoveRoomMemberCache
  <2> QED BY <2>1, <2>2, Commands DEF Fits
<1>3. /\ \A i \in {3, 4, 5, 6} : Fits(s[i])
      /\ s[3] = ZAdd(r) /\ s[4] = ZAdd(u) /\ s[5].op = "expire" /\ s[6].op = "persist"
      /\ s[3].op = "zadd" /\ s[4].op = "zadd" /\ s[3].key = r /\ s[4].key = u
  <2>1. /\ s[3] = ZAdd(r) /\ s[4] = ZAdd(u)
        /\ s[5] = Cmd("expire", r, {}) /\ s[6] = Persist(r)
    BY DEF RemoveRoomMemberCache
  <2> HIDE DEF s
  <2>2. \A k \in Keys : /\ Fits(ZAdd(k)) /\ ZAdd(k).op = "zadd" /\ ZAdd(k).key = k
                       /\ Fits(Persist(k)) /\ Persist(k).op = "persist"
                       /\ Fits(Cmd("expire", k, {})) /\ Cmd("expire", k, {}).op = "expire"
    BY MarksFit
  <2>3. /\ Fits(s[3]) /\ s[3].op = "zadd" /\ s[3].key = r
        /\ Fits(s[4]) /\ s[4].op = "zadd" /\ s[4].key = u
        /\ Fits(s[5]) /\ s[5].op = "expire" /\ Fits(s[6]) /\ s[6].op = "persist"
    BY <1>1, <2>1, <2>2
  <2> QED BY <2>1, <2>3
<1>4. s \in Seq(CmdType) /\ DOMAIN s = {1, 2, 3, 4, 5, 6}
  <2>1. \A i \in {1, 2, 3, 4, 5, 6} : s[i] \in CmdType
    BY <1>2, <1>3 DEF Fits
  <2> QED BY <2>1 DEF RemoveRoomMemberCache
<1>5. \A k \in Keys : ZAdd(k).key = k /\ ZAdd(k).op = "zadd"
  BY MarksFit
<1> HIDE DEF s
<1>6. Promised(s)
  <2>1. ASSUME NEW i \in DOMAIN s, NEW k \in Keys, Alters(s[i], k)
        PROVE  \E j \in DOMAIN s :
                 /\ i < j /\ s[j] = ZAdd(k)
                 /\ \A l \in DOMAIN s : i < l /\ l < j => ~ Alters(s[l], k)
    BY <1>1, <1>2, <1>3, <1>4, <2>1 DEF Alters
  <2> QED BY <2>1 DEF Promised
<1>7. Guarded(s)
  BY <1>2, <1>3, <1>4 DEF Guarded, Consults, Gates, Reads, Writes
<1>8. Proper(s)
  BY <1>2, <1>3, <1>4 DEF Proper
<1>9. Marked(s)
  <2>1. ASSUME NEW j \in DOMAIN s, NEW k \in Keys, s[j] = ZAdd(k)
        PROVE  \E l \in DOMAIN s : l < j /\ Alters(s[l], k)
    BY <1>2, <1>3, <1>4, <1>5, <2>1 DEF Alters
  <2> QED BY <2>1 DEF Marked
<1> QED BY <1>4, <1>6, <1>7, <1>8, <1>9 DEF s, Served


LEMMA TurnsFacts ==
  ASSUME NEW r \in Rooms, NEW us \in Seq(Users)
  PROVE  /\ Turns(us, r) \in Seq(CmdType) /\ Len(Turns(us, r)) = 2 * Len(us)
         /\ \A i \in 1 .. 2 * Len(us) :
              \/ /\ i + 1 \in 1 .. 2 * Len(us)
                 /\ \E u \in Users : Turns(us, r)[i] = SAdd(u, r) /\ Turns(us, r)[i + 1] = ZAdd(u)
              \/ /\ i - 1 \in 1 .. 2 * Len(us)
                 /\ \E u \in Users : Turns(us, r)[i] = ZAdd(u) /\ Turns(us, r)[i - 1] = SAdd(u, r)
<1> DEFINE n == Len(us)
           t == Turns(us, r)
<1>1. n \in Nat /\ \A i \in 1 .. n : us[i] \in Users
  OBVIOUS
<1> HIDE DEF n
<1>2. t = [i \in 1 .. 2 * n |-> IF i % 2 = 1 THEN SAdd(us[(i + 1) \div 2], r)
                                ELSE ZAdd(us[i \div 2])]
  BY DEF Turns, n
<1> HIDE DEF t
<1>3. ASSUME NEW i \in 1 .. 2 * n
      PROVE  \/ /\ i + 1 \in 1 .. 2 * n
                /\ \E u \in Users : t[i] = SAdd(u, r) /\ t[i + 1] = ZAdd(u)
             \/ /\ i - 1 \in 1 .. 2 * n
                /\ \E u \in Users : t[i] = ZAdd(u) /\ t[i - 1] = SAdd(u, r)
  <2>1. CASE i % 2 = 1
    <3>1. /\ i + 1 \in 1 .. 2 * n /\ (i + 1) % 2 # 1
          /\ (i + 1) \div 2 \in 1 .. n
      BY <1>1, <2>1
    <3>2. t[i] = SAdd(us[(i + 1) \div 2], r) /\ t[i + 1] = ZAdd(us[(i + 1) \div 2])
      BY <1>2, <2>1, <3>1
    <3>3. us[(i + 1) \div 2] \in Users
      BY <1>1, <3>1
    <3> QED BY <3>1, <3>2, <3>3
  <2>2. CASE i % 2 # 1
    <3>1. /\ i - 1 \in 1 .. 2 * n /\ (i - 1) % 2 = 1
          /\ i \div 2 \in 1 .. n /\ (i - 1) + 1 = i
      BY <1>1, <2>2
    <3>2. t[i] = ZAdd(us[i \div 2])
      BY <1>2, <2>2
    <3>3. t[i - 1] = SAdd(us[i \div 2], r)
      BY <1>2, <3>1
    <3>4. us[i \div 2] \in Users
      BY <1>1, <3>1
    <3> QED BY <3>1, <3>2, <3>3, <3>4
  <2> QED BY <2>1, <2>2
<1>4. \A i \in 1 .. 2 * n : t[i] \in CmdType
  <2>1. \A u \in Users : SAdd(u, r) \in CmdType /\ ZAdd(u) \in CmdType
    BY AddsFit, MarksFit, Commands DEF Fits
  <2> QED BY <1>3, <2>1
<1>5. t \in Seq(CmdType) /\ Len(t) = 2 * n
  <2>1. t \in [1 .. 2 * n -> CmdType]
    BY <1>2, <1>4
  <2> QED BY <1>1, <2>1
<1> QED BY <1>3, <1>5 DEF n, t


LEMMA ConcatFacts ==
  ASSUME NEW a \in Seq(CmdType), NEW b \in Seq(CmdType)
  PROVE  /\ a \o b \in Seq(CmdType) /\ Len(a) \in Nat /\ Len(b) \in Nat
         /\ Len(a \o b) = Len(a) + Len(b) /\ DOMAIN (a \o b) = 1 .. Len(a) + Len(b)
         /\ \A i \in 1 .. Len(a) : (a \o b)[i] = a[i]
         /\ \A i \in 1 .. Len(b) : (a \o b)[i + Len(a)] = b[i]
OBVIOUS

LEMMA AddManyServed ==
  ASSUME NEW r \in Rooms, NEW us \in Seq(Users)
  PROVE  /\ AddRoomMembersCache(r, us) \in Seq(CmdType)
         /\ Served(AddRoomMembersCache(r, us)) /\ Marked(AddRoomMembersCache(r, us))
         /\ \A i \in DOMAIN AddRoomMembersCache(r, us) :
              AddRoomMembersCache(r, us)[i].op # "smembers"
<1> DEFINE n == 2 * Len(us)
           t == Turns(us, r)
           f == Cmd("sadd", r, ToSet(us))
           m == [i \in DOMAIN us |-> Persist(us[i])]
           s == AddRoomMembersCache(r, us)
<1>1. /\ n \in Nat /\ r \in Keys /\ \A u \in Users : u \in Keys /\ u # r
      /\ Len(us) \in Nat /\ DOMAIN us = 1 .. Len(us)
      /\ \A i \in 1 .. Len(us) : us[i] \in Users
  BY Commands
<1>2. f \in CmdType /\ Fits(f) /\ f.op = "sadd" /\ f.key = r
  <2>1. ToSet(us) \in SUBSET Keys /\ ToSet(us) \subseteq Users
    BY <1>1 DEF ToSet
  <2>2. "sadd" \in Simple \cup Gates \cup Reads \cup Writes
    BY DEF Simple
  <2> QED BY <1>1, <2>1, <2>2, Commands DEF Fits
<1>3. \A k \in Keys :
        /\ ZAdd(k) \in CmdType /\ Fits(ZAdd(k)) /\ ZAdd(k).key = k /\ ZAdd(k).op = "zadd"
        /\ Persist(k) \in CmdType /\ Fits(Persist(k)) /\ Persist(k).op = "persist"
  BY MarksFit DEF Fits
<1>4. \A u \in Users : Fits(SAdd(u, r)) /\ SAdd(u, r).op = "sadd" /\ SAdd(u, r).key = u
  BY AddsFit
<1>5. /\ t \in Seq(CmdType) /\ Len(t) = n
      /\ \A i \in 1 .. n :
           \/ /\ i + 1 \in 1 .. n
              /\ \E u \in Users : t[i] = SAdd(u, r) /\ t[i + 1] = ZAdd(u)
           \/ /\ i - 1 \in 1 .. n
              /\ \E u \in Users : t[i] = ZAdd(u) /\ t[i - 1] = SAdd(u, r)
  BY TurnsFacts
<1>6. /\ m \in Seq(CmdType) /\ Len(m) = Len(us)
      /\ \A i \in 1 .. Len(us) : Fits(m[i]) /\ m[i].op = "persist"
  BY <1>1, <1>3
<1>7. s = << f >> \o t \o << ZAdd(r), Persist(r) >> \o m
  BY DEF AddRoomMembersCache
<1> HIDE DEF n, t, f, m, s
<1>8. /\ s \in Seq(CmdType) /\ DOMAIN s = 1 .. n + 3 + Len(us)
      /\ s[1] = f /\ s[n + 2] = ZAdd(r) /\ s[n + 3] = Persist(r)
      /\ \A i \in 1 .. n : s[i + 1] = t[i]
      /\ \A i \in 1 .. Len(us) : s[i + (n + 3)] = m[i]
  <2> DEFINE a == << f >> \o t
             b == a \o << ZAdd(r), Persist(r) >>
  <2>1. /\ a \in Seq(CmdType) /\ Len(a) = n + 1 /\ a[1] = f
        /\ \A i \in 1 .. n : a[i + 1] = t[i]
    <3>1. << f >> \in Seq(CmdType) /\ Len(<< f >>) = 1 /\ << f >>[1] = f
      BY <1>2
    <3>2. t \in Seq(CmdType) /\ Len(t) = n
      BY <1>5
    <3> QED BY <1>1, <3>1, <3>2, ConcatFacts
  <2> HIDE DEF a
  <2>2. /\ b \in Seq(CmdType) /\ Len(b) = n + 3
        /\ \A i \in 1 .. n + 1 : b[i] = a[i]
        /\ b[n + 2] = ZAdd(r) /\ b[n + 3] = Persist(r)
    <3>1. ZAdd(r) \in CmdType /\ Persist(r) \in CmdType
      BY <1>1, <1>3
    <3> HIDE DEF ZAdd, Persist
    <3> QED BY <1>1, <2>1, <3>1
  <2>3. s = b \o m
    BY <1>7 DEF a
  <2> HIDE DEF b
  <2>4. /\ s \in Seq(CmdType) /\ DOMAIN s = 1 .. n + 3 + Len(us)
        /\ \A i \in 1 .. n + 3 : s[i] = b[i]
        /\ \A i \in 1 .. Len(us) : s[i + (n + 3)] = m[i]
    BY <1>6, <2>2, <2>3, ConcatFacts
  <2>5. ASSUME NEW i \in 1 .. n PROVE s[i + 1] = t[i]
    <3>1. i + 1 \in 1 .. n + 1 /\ i + 1 \in 1 .. n + 3
      BY <1>1
    <3> QED BY <2>1, <2>2, <2>4, <3>1
  <2>6. 1 \in 1 .. n + 1 /\ {1, n + 2, n + 3} \subseteq 1 .. n + 3
    BY <1>1
  <2>7. s[1] = f /\ s[n + 2] = ZAdd(r) /\ s[n + 3] = Persist(r)
    BY <2>1, <2>2, <2>4, <2>6
  <2> QED BY <2>4, <2>5, <2>7
<1>9. ASSUME NEW i \in DOMAIN s
      PROVE  \/ i = 1
             \/ i - 1 \in 1 .. n /\ s[i] = t[i - 1]
             \/ i = n + 2
             \/ i > n + 2 /\ Fits(s[i]) /\ s[i].op = "persist"
  <2>1. CASE i > n + 3
    <3>1. i - (n + 3) \in 1 .. Len(us) /\ (i - (n + 3)) + (n + 3) = i
      BY <1>1, <1>8, <2>1
    <3> QED BY <1>6, <1>8, <2>1, <3>1, <1>1
  <2>2. CASE i = n + 3
    BY <1>1, <1>3, <1>8, <2>2
  <2>3. CASE i - 1 \in 1 .. n
    <3>1. (i - 1) + 1 = i
      BY <1>8, <1>1
    <3> QED BY <1>8, <2>3, <3>1
  <2>4. i = 1 \/ i = n + 2 \/ i > n + 3 \/ i = n + 3 \/ i - 1 \in 1 .. n
    BY <1>1, <1>8
  <2> QED BY <2>1, <2>2, <2>3, <2>4
<1>10. ASSUME NEW i \in DOMAIN s
       PROVE  Fits(s[i]) /\ s[i].op \in {"sadd", "zadd", "persist"}
  <2>1. CASE i - 1 \in 1 .. n /\ s[i] = t[i - 1]
    BY <1>1, <1>3, <1>4, <1>5, <2>1
  <2>2. CASE i = 1 \/ i = n + 2
    BY <1>1, <1>2, <1>3, <1>8, <2>2
  <2> QED BY <1>9, <2>1, <2>2
<1>11. Promised(s)
  <2> SUFFICES ASSUME NEW i \in DOMAIN s, NEW k \in Keys, Alters(s[i], k)
               PROVE  \E j \in DOMAIN s :
                        /\ i < j /\ s[j] = ZAdd(k)
                        /\ \A l \in DOMAIN s : i < l /\ l < j => ~ Alters(s[l], k)
    BY DEF Promised
  <2>1. CASE i = 1
    <3>1. k = r
      BY <1>2, <1>8, <2>1 DEF Alters
    <3>2. n + 2 \in DOMAIN s /\ 1 < n + 2
      BY <1>1, <1>8
    <3>3. ASSUME NEW l \in DOMAIN s, 1 < l, l < n + 2 PROVE ~ Alters(s[l], r)
      <4>1. l - 1 \in 1 .. n /\ s[l] = t[l - 1]
        <5>1. l - 1 \in 1 .. n /\ (l - 1) + 1 = l
          BY <1>1, <1>8, <3>3
        <5> QED BY <1>8, <5>1
      <4> QED BY <1>1, <1>3, <1>4, <1>5, <4>1 DEF Alters
    <3> QED BY <1>8, <2>1, <3>1, <3>2, <3>3
  <2>2. CASE i - 1 \in 1 .. n /\ s[i] = t[i - 1]
    <3>1. PICK u \in Users : i \in 1 .. n /\ t[i - 1] = SAdd(u, r) /\ t[i] = ZAdd(u)
      <4>1. (i - 1) + 1 = i
        BY <1>8, <1>1
      <4>2. t[i - 1].op \in {"sadd", "srem"}
        BY <2>2 DEF Alters
      <4>3. \A u \in Users : t[i - 1] # ZAdd(u)
        BY <1>1, <1>3, <4>2
      <4> QED BY <1>5, <2>2, <4>1, <4>3
    <3>2. k = u
      BY <1>4, <2>2, <3>1 DEF Alters
    <3>3. i + 1 \in DOMAIN s /\ s[i + 1] = ZAdd(u) /\ i < i + 1
      BY <1>1, <1>8, <3>1
    <3>4. \A l \in DOMAIN s : ~ (i < l /\ l < i + 1)
      BY <1>1, <1>8
    <3> QED BY <3>2, <3>3, <3>4
  <2>3. CASE i = n + 2
    BY <1>1, <1>3, <1>8, <2>3 DEF Alters
  <2> QED BY <1>9, <2>1, <2>2, <2>3 DEF Alters
<1>12. Guarded(s)
  BY <1>10 DEF Guarded, Consults, Gates, Reads, Writes
<1>13. Proper(s)
  BY <1>10 DEF Proper
<1>14. Marked(s)
  <2> SUFFICES ASSUME NEW j \in DOMAIN s, NEW k \in Keys, s[j] = ZAdd(k)
               PROVE  \E l \in DOMAIN s : l < j /\ Alters(s[l], k)
    BY DEF Marked
  <2>1. CASE j = n + 2
    <3>1. k = r
      BY <1>1, <1>3, <1>8, <2>1
    <3>2. 1 \in DOMAIN s /\ 1 < j /\ Alters(s[1], r)
      BY <1>1, <1>2, <1>8, <2>1 DEF Alters
    <3> QED BY <3>1, <3>2
  <2>2. CASE j - 1 \in 1 .. n /\ s[j] = t[j - 1]
    <3>1. t[j - 1].op = "zadd" /\ t[j - 1].key = k
      BY <1>3, <2>2
    <3>2. PICK u \in Users :
            (j - 1) - 1 \in 1 .. n /\ t[j - 1] = ZAdd(u) /\ t[(j - 1) - 1] = SAdd(u, r)
      BY <1>4, <1>5, <2>2, <3>1
    <3>3. k = u
      BY <1>1, <1>3, <3>1, <3>2
    <3>4. j - 1 \in DOMAIN s /\ j - 1 < j /\ s[j - 1] = SAdd(u, r)
      <4>1. ((j - 1) - 1) + 1 = j - 1 /\ j - 1 \in DOMAIN s /\ j - 1 < j
        BY <1>1, <1>8, <2>2
      <4> QED BY <1>8, <3>2, <4>1
    <3> QED BY <1>4, <3>3, <3>4 DEF Alters
  <2>3. CASE j = 1
    BY <1>2, <1>3, <1>8, <2>3
  <2> QED BY <1>3, <1>9, <2>1, <2>2, <2>3
<1> QED BY <1>8, <1>10, <1>11, <1>12, <1>13, <1>14 DEF s, Served


LEMMA ReadsFit ==
  ASSUME NEW k \in Keys, NEW x, x \in SUBSET Keys, NEW op \in Reads \cup {"manager", "unless"}
  PROVE  /\ Fits(Cmd(op, k, x)) /\ Cmd(op, k, x).op = op
<1>1. op \in Simple \cup Gates \cup Reads \cup Writes
  BY DEF Gates
<1>2. op \notin {"sadd", "fill", "setRole", "ask"}
  BY DEF Reads
<1>3. Cmd(op, k, x) \in CmdType /\ Cmd(op, k, x).op = op
  BY <1>1, Commands
<1> QED BY <1>2, <1>3 DEF Fits

LEMMA QueryServed ==
  ASSUME NEW k \in Keys
  PROVE  /\ Query(k) \in Seq(CmdType) /\ Served(Query(k)) /\ Marked(Query(k))
<1> DEFINE s == Query(k)
<1>1. s = Append(<< Cmd("smembers", k, {}), Cmd("zscore", k, {}) >>, Cmd("load", k, {}))
  BY DEF Query, GetCache
<1>2. /\ s[1] = Cmd("smembers", k, {}) /\ s[2] = Cmd("zscore", k, {})
      /\ s[3] = Cmd("load", k, {}) /\ Len(s) = 3 /\ DOMAIN s = {1, 2, 3}
  BY <1>1
<1> HIDE DEF s
<1>3. /\ Fits(s[1]) /\ s[1].op = "smembers" /\ Fits(s[2]) /\ s[2].op = "zscore"
      /\ Fits(s[3]) /\ s[3].op = "load"
  BY <1>2, ReadsFit DEF Reads
<1>4. s \in Seq(CmdType)
  BY <1>1, <1>2, <1>3 DEF Fits
<1>5. Proper(s)
  BY <1>2, <1>3 DEF Proper
<1> QED BY <1>2, <1>3, <1>4, <1>5, PlainServed DEF s

\* The checks and statements in front of a change.
LEMMA GatesServed ==
  ASSUME NEW a, NEW b, Fits(a), Fits(b),
         a.op \in Gates \cup {"unask", "setRole", "ask"},
         b.op \in Gates \cup {"unask", "setRole", "ask"}
  PROVE  \A s \in { << a >>, << a, b >> } :
           /\ s \in Seq(CmdType) /\ Served(s) /\ Marked(s)
           /\ \A i \in DOMAIN s : s[i].op # "smembers"
<1>1. a \in CmdType /\ b \in CmdType
  BY DEF Fits
<1>2. {a.op, b.op} \cap {"sadd", "srem", "zadd", "zrem", "unmark", "commit", "sismember",
                         "smembers"} = {}
  BY DEF Gates
<1> SUFFICES ASSUME NEW s \in { << a >>, << a, b >> }
             PROVE  /\ s \in Seq(CmdType) /\ Served(s) /\ Marked(s)
                    /\ \A i \in DOMAIN s : s[i].op # "smembers"
  OBVIOUS
<1>3. s \in Seq(CmdType) /\ \A i \in DOMAIN s : s[i] \in {a, b}
  <2>1. CASE s = << a >>
    BY <1>1, <2>1
  <2>2. CASE s = << a, b >>
    BY <1>1, <2>2
  <2> QED BY <2>1, <2>2
<1>4. Proper(s)
  BY <1>2, <1>3 DEF Proper
<1> QED BY <1>2, <1>3, <1>4, PlainServed

LEMMA JoinServed ==
  ASSUME NEW r \in Rooms, NEW u \in Users
  PROVE  Join(r, u) \in Seq(CmdType) /\ Served(Join(r, u))
<1> DEFINE s == << Cmd("group", r, {}), Cmd("sismember", r, {u}), Cmd("zscore", r, {}),
                   Cmd("unless", r, {u}) >>
<1>1. r \in Keys /\ {u} \in SUBSET Keys /\ {} \in SUBSET Keys
  BY Commands
<1>2. /\ s[1] = Cmd("group", r, {}) /\ s[2] = Cmd("sismember", r, {u})
      /\ s[3] = Cmd("zscore", r, {}) /\ s[4] = Cmd("unless", r, {u})
      /\ DOMAIN s = {1, 2, 3, 4}
  OBVIOUS
<1>3. /\ Fits(s[1]) /\ s[1].op = "group" /\ Fits(s[2]) /\ s[2].op = "sismember"
      /\ Fits(s[3]) /\ s[3].op = "zscore" /\ Fits(s[4]) /\ s[4].op = "unless"
  <2>1. Fits(Cmd("group", r, {})) /\ Cmd("group", r, {}).op = "group"
    BY StatementsFit DEF Gates
  <2>2. /\ Fits(Cmd("sismember", r, {u})) /\ Cmd("sismember", r, {u}).op = "sismember"
        /\ Fits(Cmd("zscore", r, {})) /\ Cmd("zscore", r, {}).op = "zscore"
        /\ Fits(Cmd("unless", r, {u})) /\ Cmd("unless", r, {u}).op = "unless"
    BY <1>1, ReadsFit DEF Reads
  <2> HIDE DEF s
  <2> QED BY <1>2, <2>1, <2>2
<1>4. s \in Seq(CmdType)
  <2>1. s[1] \in CmdType /\ s[2] \in CmdType /\ s[3] \in CmdType /\ s[4] \in CmdType
    BY <1>3 DEF Fits
  <2> QED BY <1>2, <2>1
<1>5. Join(r, u) = s \o AddRoomMemberCache(r, u)
  BY DEF Join
<1> HIDE DEF s
<1>6. Proper(s)
  BY <1>2, <1>3 DEF Proper
<1>7. Served(s) /\ \A i \in DOMAIN s : s[i].op # "smembers"
  BY <1>2, <1>3, <1>4, <1>6, PlainServed
<1> QED BY <1>4, <1>5, <1>7, AddServed, ConcatServed

LEMMA CreateServed ==
  ASSUME NEW r \in Rooms, NEW u \in Users, NEW us \in Seq(Users)
  PROVE  CreateRoom(r, u, us) \in Seq(CmdType) /\ Served(CreateRoom(r, u, us))
BY AddServed, AddManyServed, ConcatServed DEF CreateRoom

LEMMA RequestServed ==
  ASSUME NEW s, IsRequest(s)
  PROVE  s \in Seq(CmdType) /\ Served(s)
<1>1. PICK r \in Rooms, u \in Users, by \in Users :
        \/ s \in { Join(r, u), Query(r), Query(u), AddRoomMember(r, u, by),
                   RemoveRoomMember(r, u, by), ChangeMemberRole(r, u, by), RequestJoin(r, u) }
        \/ \E approve \in BOOLEAN : s = RespondJoinRequest(r, u, approve, by)
        \/ \E us \in UserLists : s = AddRoomMembers(r, us, by)
  BY DEF IsRequest
<1>2. r \in Keys /\ u \in Keys /\ {by} \in SUBSET Keys
  BY Commands
<1> DEFINE group == Cmd("group", r, {})
           manager == Manager(r, by)
           owner == Cmd("owner", r, {by})
           given == Cmd("setRole", r, {u})
           ask == Cmd("ask", r, {u})
           wanted == Cmd("asked", r, {u})
           unask == Cmd("unask", r, {u})
<1>3. /\ Fits(group) /\ group.op = "group" /\ Fits(manager) /\ manager.op = "manager"
      /\ Fits(owner) /\ owner.op = "owner" /\ Fits(given) /\ given.op = "setRole"
      /\ Fits(ask) /\ ask.op = "ask" /\ Fits(wanted) /\ wanted.op = "asked"
      /\ Fits(unask) /\ unask.op = "unask"
  <2>1. {"group", "manager", "owner", "asked"} \subseteq Gates
    BY DEF Gates
  <2>2. Fits(group) /\ group.op = "group"
    BY <2>1, StatementsFit
  <2>3. Fits(manager) /\ manager.op = "manager"
    BY <2>1, StatementsFit DEF Manager
  <2>4. Fits(owner) /\ owner.op = "owner" /\ Fits(wanted) /\ wanted.op = "asked"
    BY <2>1, StatementsFit
  <2>5. /\ Fits(given) /\ given.op = "setRole" /\ Fits(ask) /\ ask.op = "ask"
        /\ Fits(unask) /\ unask.op = "unask"
    BY StatementsFit
  <2> QED BY <2>2, <2>3, <2>4, <2>5
<1>4. /\ AddRoomMember(r, u, by) = << group, manager >> \o AddRoomMemberCache(r, u)
      /\ \A us : AddRoomMembers(r, us, by) = << group, manager >> \o AddRoomMembersCache(r, us)
      /\ RemoveRoomMember(r, u, by) = << manager >> \o RemoveRoomMemberCache(r, u)
      /\ ChangeMemberRole(r, u, by) = << owner, given >>
      /\ RequestJoin(r, u) = << group, ask >> \o Query(r)
      /\ RespondJoinRequest(r, u, TRUE, by)
           = << wanted, manager >> \o AddRoomMemberCache(r, u) \o << unask >>
      /\ RespondJoinRequest(r, u, FALSE, by)
           = << wanted, manager >> \o << >> \o << unask >>
  BY DEF AddRoomMember, AddRoomMembers, RemoveRoomMember, ChangeMemberRole, RequestJoin,
         RespondJoinRequest
<1> HIDE DEF group, manager, owner, given, ask, wanted, unask
<1>5. \A a \in { << group, manager >>, << manager >>, << owner, given >>, << group, ask >>,
                << wanted, manager >>, << unask >> } :
        /\ a \in Seq(CmdType) /\ Served(a) /\ Marked(a)
        /\ \A i \in DOMAIN a : a[i].op # "smembers"
  <2>1. ASSUME NEW a, NEW b, Fits(a), Fits(b),
               a.op \in {"group", "manager", "owner", "asked", "setRole", "ask", "unask"},
               b.op \in {"group", "manager", "owner", "asked", "setRole", "ask", "unask"}
        PROVE  \A q \in { << a >>, << a, b >> } :
                 /\ q \in Seq(CmdType) /\ Served(q) /\ Marked(q)
                 /\ \A i \in DOMAIN q : q[i].op # "smembers"
    BY <2>1, GatesServed DEF Gates
  <2>2. \A q \in { << group, manager >>, << manager >>, << owner, given >> } :
          /\ q \in Seq(CmdType) /\ Served(q) /\ Marked(q)
          /\ \A i \in DOMAIN q : q[i].op # "smembers"
    BY <1>3, <2>1
  <2>3. \A q \in { << group, ask >>, << wanted, manager >>, << unask >> } :
          /\ q \in Seq(CmdType) /\ Served(q) /\ Marked(q)
          /\ \A i \in DOMAIN q : q[i].op # "smembers"
    BY <1>3, <2>1
  <2> QED BY <2>2, <2>3
<1>6. CASE s \in { Join(r, u), Query(r), Query(u) }
  BY <1>2, <1>6, JoinServed, QueryServed
<1>7. CASE s \in { AddRoomMember(r, u, by), RemoveRoomMember(r, u, by) }
  <2>1. CASE s = AddRoomMember(r, u, by)
    BY <1>4, <1>5, <2>1, AddServed, ConcatServed
  <2>2. CASE s = RemoveRoomMember(r, u, by)
    BY <1>4, <1>5, <2>2, RemoveServed, ConcatServed
  <2> QED BY <1>7, <2>1, <2>2
<1>8. CASE s \in { ChangeMemberRole(r, u, by), RequestJoin(r, u) }
  BY <1>2, <1>4, <1>5, <1>8, QueryServed, ConcatServed
<1>9. ASSUME NEW us \in UserLists, s = AddRoomMembers(r, us, by)
      PROVE  s \in Seq(CmdType) /\ Served(s)
  <2>1. us \in Seq(Users)
    BY OfferedAssumption
  <2> QED BY <1>4, <1>5, <1>9, <2>1, AddManyServed, ConcatServed
<1>10. CASE s = RespondJoinRequest(r, u, TRUE, by)
  <2> DEFINE a == << wanted, manager >> \o AddRoomMemberCache(r, u)
  <2>1. a \in Seq(CmdType) /\ Served(a)
    BY <1>5, AddServed, ConcatServed
  <2>2. \A i \in DOMAIN a : a[i].op # "smembers"
    BY <1>3, AddServed DEF AddRoomMemberCache
  <2> HIDE DEF a
  <2> QED BY <1>4, <1>5, <1>10, <2>1, <2>2, ConcatServed DEF a
<1>11. CASE s = RespondJoinRequest(r, u, FALSE, by)
  <2>1. << wanted, manager >> \o << >> = << wanted, manager >>
    OBVIOUS
  <2> QED BY <1>4, <1>5, <1>11, <2>1, ConcatServed
<1> QED BY <1>1, <1>6, <1>7, <1>8, <1>9, <1>10, <1>11


LEMMA NothingOwed ==
  ASSUME NEW s \in Seq(CmdType), Served(s), s = << >> \/ Consults(s[1])
  PROVE  Owed(s) = {}
<1> SUFFICES ASSUME NEW k \in Keys, NEW i \in DOMAIN s, s[i] = ZAdd(k),
                    \A l \in DOMAIN s : l < i => ~ Alters(s[l], k)
             PROVE  FALSE
  BY DEF Owed
<1>1. Len(s) \in Nat /\ DOMAIN s = 1 .. Len(s) /\ 1 \in DOMAIN s /\ Consults(s[1])
  OBVIOUS
<1>2. i # 1
  BY <1>1, MarksFit DEF Consults, Gates, Reads, Writes
<1>3. 1 < i
  BY <1>1, <1>2
<1> QED BY <1>1, <1>3 DEF Served, Guarded

LEMMA OwedTail ==
  ASSUME NEW s \in Seq(CmdType), s # << >>, NEW k \in Keys, k \in Owed(s), s[1] # ZAdd(k)
  PROVE  k \in Owed(Tail(s))
<1>1. PICK i \in DOMAIN s : s[i] = ZAdd(k) /\ \A l \in DOMAIN s : l < i => ~ Alters(s[l], k)
  BY DEF Owed
<1> DEFINE t == Tail(s)
<1>2. /\ Len(s) \in Nat /\ DOMAIN s = 1 .. Len(s) /\ DOMAIN t = 1 .. Len(s) - 1
      /\ \A l \in DOMAIN t : l + 1 \in DOMAIN s /\ t[l] = s[l + 1]
  OBVIOUS
<1> HIDE DEF t
<1>3. i # 1
  BY <1>1
<1>4. i - 1 \in DOMAIN t /\ t[i - 1] = ZAdd(k)
  <2>1. i - 1 \in DOMAIN t /\ (i - 1) + 1 = i
    BY <1>2, <1>3
  <2> QED BY <1>1, <1>2, <2>1
<1>5. ASSUME NEW l \in DOMAIN t, l < i - 1 PROVE ~ Alters(t[l], k)
  <2>1. l + 1 \in DOMAIN s /\ t[l] = s[l + 1] /\ l + 1 < i
    BY <1>2, <1>5
  <2> QED BY <1>1, <2>1
<1> QED BY <1>4, <1>5 DEF Owed, t

LEMMA OwedBy ==
  ASSUME NEW s \in Seq(CmdType), s # << >>, Served(s), NEW k \in Keys, Alters(s[1], k)
  PROVE  k \in Owed(Tail(s)) /\ \E i \in DOMAIN s : s[i] = ZAdd(k)
<1> DEFINE t == Tail(s)
<1>1. /\ Len(s) \in Nat /\ DOMAIN s = 1 .. Len(s) /\ DOMAIN t = 1 .. Len(s) - 1
      /\ 1 \in DOMAIN s
      /\ \A l \in DOMAIN t : l + 1 \in DOMAIN s /\ t[l] = s[l + 1]
  OBVIOUS
<1>2. PICK j \in DOMAIN s :
        /\ 1 < j /\ s[j] = ZAdd(k)
        /\ \A l \in DOMAIN s : 1 < l /\ l < j => ~ Alters(s[l], k)
  BY <1>1 DEF Served, Promised
<1> HIDE DEF t
<1>3. j - 1 \in DOMAIN t /\ t[j - 1] = ZAdd(k)
  <2>1. j - 1 \in DOMAIN t /\ (j - 1) + 1 = j
    BY <1>1, <1>2
  <2> QED BY <1>1, <1>2, <2>1
<1>4. ASSUME NEW l \in DOMAIN t, l < j - 1 PROVE ~ Alters(t[l], k)
  <2>1. l + 1 \in DOMAIN s /\ t[l] = s[l + 1] /\ 1 < l + 1 /\ l + 1 < j
    BY <1>1, <1>2, <1>4
  <2> QED BY <1>2, <2>1
<1> QED BY <1>2, <1>3, <1>4 DEF Owed, t

LEMMA OwedUnmarked == \A p : Owed(script[p]) \subseteq Unmarked(p)
BY DEF Owed, Unmarked
--------------------------------------------------------------------------------
(* Steps *)

LEMMA Moves ==
  ASSUME GroupTypeOK, NEW p \in Procs, NEW s \in Seq(CmdType), Continue(p, s)
  PROVE  /\ script' = [script EXCEPT ![p] = s] /\ script' \in [Procs -> Seq(CmdType)]
         /\ script'[p] = s /\ \A q \in Procs \ {p} : script'[q] = script[q]
         /\ seen' \in [Procs -> SUBSET Keys]
         /\ seen'[p] = (IF s = << >> THEN {} ELSE seen[p])
         /\ \A q \in Procs \ {p} : seen'[q] = seen[q]
BY DEF GroupTypeOK, Continue

LEMMA AtHead ==
  ASSUME GroupIInv, NEW h \in Handlers, NEW S, Runs(h, S)
  PROVE  /\ h \in Procs /\ h # Flusher /\ Flusher \in Procs
         /\ script[h] \in Seq(CmdType) /\ script[h] # << >> /\ Served(script[h])
         /\ Current(h) = script[h][1] /\ Fits(Current(h)) /\ Current(h).op \in S
         /\ Current(h).key \in Keys /\ Current(h).args \in SUBSET Keys
         /\ Current(h).op \notin {"zrem", "unmark", "commit"}
         /\ Tail(script[h]) \in Seq(CmdType) /\ Served(Tail(script[h]))
<1>1. h \in Procs /\ h # Flusher /\ Flusher \in Procs
  BY GroupConstants DEF Procs
<1>2. script[h] \in Seq(CmdType) /\ script[h] # << >> /\ Served(script[h])
  BY <1>1 DEF GroupIInv, GroupTypeOK, Runs
<1>3. Current(h) = script[h][1] /\ 1 \in DOMAIN script[h]
  BY <1>2 DEF Current
<1>4. Fits(Current(h)) /\ Current(h).op \notin {"zrem", "unmark", "commit"}
  BY <1>2, <1>3 DEF Served, Proper
<1>5. Current(h).op \in S /\ Current(h).key \in Keys /\ Current(h).args \in SUBSET Keys
  BY <1>4 DEF Runs, Fits, CmdType
<1> QED BY <1>1, <1>2, <1>3, <1>4, <1>5, TailServed

\* A handler's step that changes no set, no mark and no list of members, and comes
\* when the handler owes nothing.
LEMMA HandlerStep ==
  ASSUME GroupIInv, NEW h \in Handlers, NEW s \in Seq(CmdType), Served(s),
         script[h] = << >> \/ Consults(script[h][1]),
         script' = [script EXCEPT ![h] = s],
         seen' \in [Procs -> SUBSET Keys], seen'[Flusher] = seen[Flusher],
         UNCHANGED <<cache, expiring, dirty, joined, phase, todo, doubtful>>,
         created' \subseteq Rooms, asked' \subseteq Rooms \X Users,
         role' \in [Rooms -> [Users -> {Owner, Admin, Member, NoRow}]],
         \A k \in Keys : Table(k)' = Table(k),
         ops' \in 0 .. MaxOps, fails' \in 0 .. MaxFails
  PROVE  GroupIInv'
<1>1. h \in Procs /\ h # Flusher /\ script \in [Procs -> Seq(CmdType)]
  BY GroupConstants DEF Procs, GroupIInv, GroupTypeOK
<1>2. script'[h] = s /\ \A q \in Procs \ {h} : script'[q] = script[q]
  BY <1>1
<1>3. GroupTypeOK'
  <2>1. script' \in [Procs -> Seq(CmdType)]
    BY <1>1
  <2> QED BY <2>1 DEF GroupIInv, GroupTypeOK
<1>4. \A g \in Handlers : Served(script'[g])
  BY <1>1, <1>2 DEF GroupIInv, Procs
<1>5. FlushOK'
  <2>1. script'[Flusher] = script[Flusher]
    BY <1>1, <1>2 DEF Procs
  <2>2. \A k \in Keys : \A final : Flushes(k, final) => Flushes(k, final)'
    BY <2>1 DEF Flushes
  <2>3. dirty \subseteq Keys
    BY DEF GroupIInv, GroupTypeOK
  <2> QED BY <2>1, <2>2, <2>3 DEF GroupIInv, FlushOK
<1>6. ASSUME NEW k \in Keys PROVE Agrees(k)'
  <2>1. Owed(script[h]) = {}
    BY <1>1, NothingOwed DEF GroupIInv
  <2>2. \A g \in Handlers : k \notin Owed(script'[g]) => k \notin Owed(script[g])
    BY <1>1, <1>2, <2>1 DEF Procs
  <2>3. Agrees(k)
    BY DEF GroupIInv
  <2> QED BY <2>2, <2>3 DEF Agrees
<1> QED BY <1>3, <1>4, <1>5, <1>6 DEF GroupIInv

\* A step of the Flusher that changes no set and no mark, and no table but that of a
\* key marked dirty.
LEMMA FlusherStep ==
  ASSUME GroupIInv, NEW s \in Seq(CmdType),
         script' = [script EXCEPT ![Flusher] = s],
         seen' \in [Procs -> SUBSET Keys],
         UNCHANGED <<cache, expiring, dirty, created, asked, doubtful, ops>>,
         role' \in [Rooms -> [Users -> {Owner, Admin, Member, NoRow}]],
         joined' \in [Users -> SUBSET Rooms],
         \A k \in Keys \ dirty : Table(k)' = Table(k),
         phase' \in 0 .. 4, fails' \in 0 .. MaxFails, FlushOK'
  PROVE  GroupIInv'
<1>1. \A h \in Handlers : h \in Procs /\ h # Flusher
  BY GroupConstants DEF Procs
<1>2. \A h \in Handlers : script'[h] = script[h]
  BY <1>1 DEF GroupIInv, GroupTypeOK
<1>3. GroupTypeOK'
  <2>1. script' \in [Procs -> Seq(CmdType)]
    BY DEF GroupIInv, GroupTypeOK
  <2>2. todo' \subseteq Keys
    BY DEF GroupIInv, GroupTypeOK, FlushOK
  <2> QED BY <2>1, <2>2 DEF GroupIInv, GroupTypeOK
<1>4. \A h \in Handlers : Served(script'[h])
  BY <1>2 DEF GroupIInv
<1>5. ASSUME NEW k \in Keys PROVE Agrees(k)'
  <2>1. Agrees(k)
    BY DEF GroupIInv
  <2> QED BY <1>2, <2>1 DEF Agrees
<1> QED BY <1>3, <1>4, <1>5 DEF GroupIInv

LEMMA Concats ==
  /\ \A x, y, z \in CmdType : << x >> \o << y, z >> = << x, y, z >>
  /\ \A w, x, y, z \in CmdType : << w, x >> \o << y, z >> = << w, x, y, z >>
<1>1. ASSUME NEW x \in CmdType, NEW y \in CmdType, NEW z \in CmdType
      PROVE  << x >> \o << y, z >> = << x, y, z >>
  <2> DEFINE a == << x >> \o << y, z >>
             b == << x, y, z >>
  <2>1. a \in Seq(CmdType) /\ Len(a) = 3 /\ a[1] = x /\ a[2] = y /\ a[3] = z
    OBVIOUS
  <2>2. b \in Seq(CmdType) /\ Len(b) = 3 /\ b[1] = x /\ b[2] = y /\ b[3] = z
    OBVIOUS
  <2> HIDE DEF a, b
  <2>3. a = b
    BY <2>1, <2>2
  <2> QED BY <2>3 DEF a, b
<1>2. ASSUME NEW w \in CmdType, NEW x \in CmdType, NEW y \in CmdType, NEW z \in CmdType
      PROVE  << w, x >> \o << y, z >> = << w, x, y, z >>
  <2> DEFINE a == << w, x >> \o << y, z >>
             b == << w, x, y, z >>
  <2>1. a \in Seq(CmdType) /\ Len(a) = 4 /\ a[1] = w /\ a[2] = x /\ a[3] = y /\ a[4] = z
    OBVIOUS
  <2>2. b \in Seq(CmdType) /\ Len(b) = 4 /\ b[1] = w /\ b[2] = x /\ b[3] = y /\ b[4] = z
    OBVIOUS
  <2> HIDE DEF a, b
  <2>3. a = b
    BY <2>1, <2>2
  <2> QED BY <2>3 DEF a, b
<1> QED BY <1>1, <1>2

LEMMA FlushTypes ==
  ASSUME NEW k \in Keys, NEW final \in Unmarks(k)
  PROVE  /\ Cmd("smembers", k, {}) \in CmdType /\ Cmd("zscore", k, {}) \in CmdType
         /\ Cmd("commit", k, {}) \in CmdType /\ final \in CmdType /\ Persist(k) \in CmdType
         /\ Cmd("expire", k, {}) \in CmdType
<1>1. {"smembers", "zscore", "commit", "zrem", "unmark", "expire", "persist"}
        \subseteq Simple \cup Gates \cup Reads \cup Writes
  BY DEF Simple, Reads, Writes
<1> QED BY <1>1, Commands DEF Unmarks, Persist

LEMMA FlushParts ==
  ASSUME NEW k \in Keys, NEW final \in Unmarks(k)
  PROVE  /\ << final >> \in Seq(CmdType) /\ << Cmd("commit", k, {}), final >> \in Seq(CmdType)
         /\ \A c \in { Cmd("zscore", k, {}), Persist(k), Cmd("expire", k, {}) } :
              /\ << c, Cmd("commit", k, {}), final >> \in Seq(CmdType)
              /\ << c >> \o << Cmd("commit", k, {}), final >>
                   = << c, Cmd("commit", k, {}), final >>
<1> DEFINE commit == Cmd("commit", k, {})
<1>1. commit \in CmdType /\ final \in CmdType
  BY FlushTypes
<1>2. \A c \in { Cmd("zscore", k, {}), Persist(k), Cmd("expire", k, {}) } : c \in CmdType
  BY FlushTypes
<1> HIDE DEF commit
<1>3. << final >> \in Seq(CmdType) /\ << commit, final >> \in Seq(CmdType)
  BY <1>1
<1>4. \A c \in CmdType : << c, commit, final >> \in Seq(CmdType)
  BY <1>1
<1>5. \A c \in CmdType : << c >> \o << commit, final >> = << c, commit, final >>
  BY <1>1, Concats
<1> QED BY <1>2, <1>3, <1>4, <1>5 DEF commit

LEMMA FlushScript ==
  ASSUME NEW k \in Keys, NEW final \in Unmarks(k)
  PROVE  /\ << Cmd("smembers", k, {}), Cmd("zscore", k, {}), Cmd("commit", k, {}), final >>
              \in Seq(CmdType)
         /\ << Cmd("smembers", k, {}), Cmd("zscore", k, {}) >>
                \o << Cmd("commit", k, {}), final >>
              = << Cmd("smembers", k, {}), Cmd("zscore", k, {}), Cmd("commit", k, {}), final >>
<1>1. \A w, x, y, z \in CmdType : << w, x, y, z >> \in Seq(CmdType)
  OBVIOUS
<1> QED BY <1>1, FlushTypes, Concats

LEMMA GroupInitInv == GroupInit => GroupIInv
<1> SUFFICES ASSUME GroupInit PROVE GroupIInv
  OBVIOUS
<1>1. GroupTypeOK
  <2>1. created \subseteq Rooms
    BY GroupConstants DEF GroupInit
  <2>2. role \in [Rooms -> [Users -> {Owner, Admin, Member, NoRow}]]
    BY DEF GroupInit
  <2>3. joined \in [Users -> SUBSET Rooms]
    BY <2>1 DEF GroupInit
  <2>4. script \in [Procs -> Seq(CmdType)] /\ seen \in [Procs -> SUBSET Keys]
    BY DEF GroupInit
  <2>5. cache \in [Keys -> SUBSET Keys] /\ \A k \in Keys : cache[k] = {}
    BY DEF GroupInit
  <2>6. ops \in 0 .. MaxOps /\ fails \in 0 .. MaxFails /\ phase \in 0 .. 4
    BY GroupConstants DEF GroupInit
  <2> QED BY <2>1, <2>2, <2>3, <2>4, <2>5, <2>6, Commands DEF GroupInit, GroupTypeOK
<1>2. \A h \in Handlers : Served(script[h])
  BY EmptyServed DEF GroupInit, Procs
<1>3. FlushOK
  BY DEF GroupInit, FlushOK, Procs
<1>4. \A k \in Keys : Agrees(k)
  BY DEF GroupInit, Agrees
<1> QED BY <1>1, <1>2, <1>3, <1>4 DEF GroupIInv

LEMMA TablesKept ==
  ASSUME UNCHANGED <<role, joined>>
  PROVE  \A k \in Keys : Table(k)' = Table(k)
BY DEF Table

LEMMA TableType ==
  ASSUME GroupTypeOK, NEW k \in Keys
  PROVE  Table(k) \subseteq Partners(k) /\ Table(k) \in SUBSET Keys
BY DEF GroupTypeOK, Table, Partners, Keys

\* One more failure, within the bound.
LEMMA FailsType ==
  ASSUME GroupTypeOK, fails < MaxFails, fails' = fails + 1
  PROVE  fails' \in 0 .. MaxFails
BY GroupConstants DEF GroupTypeOK

LEMMA RequestStep ==
  ASSUME GroupIInv, NEW h \in Handlers, Serve(h) \/ ServeCreate(h)
  PROVE  GroupIInv'
<1>1. h \in Procs /\ h # Flusher /\ Flusher \in Procs
  BY GroupConstants DEF Procs
<1>2. GroupTypeOK /\ script[h] = << >> /\ UNCHANGED <<role, joined>>
  BY DEF GroupIInv, Serve, ServeCreate, Free, tableVars
<1>3. PICK s : s \in Seq(CmdType) /\ Served(s) /\ Continue(h, s) /\ created' \subseteq Rooms
  <2>1. CASE Serve(h)
    BY <1>2, <2>1, OfferedAssumption, RequestServed DEF Serve, tableVars, GroupTypeOK
  <2>2. CASE ServeCreate(h)
    <3>1. PICK c \in Creations :
            /\ created' = created \cup {c.room}
            /\ Continue(h, CreateRoom(c.room, c.creator, Append(c.members, c.creator)))
      BY <2>2 DEF ServeCreate
    <3>2. c.room \in Rooms /\ c.creator \in Users /\ c.members \in Seq(Users)
      BY OfferedAssumption
    <3>3. Append(c.members, c.creator) \in Seq(Users)
      BY <3>2
    <3> QED BY <1>2, <3>1, <3>2, <3>3, CreateServed DEF GroupTypeOK
  <2> QED BY <2>1, <2>2
<1>4. /\ script' = [script EXCEPT ![h] = s]
      /\ seen' \in [Procs -> SUBSET Keys] /\ seen'[Flusher] = seen[Flusher]
  BY <1>1, <1>2, <1>3, Moves
<1>5. ops' \in 0 .. MaxOps
  BY <1>2, GroupConstants DEF Serve, ServeCreate, Free, GroupTypeOK
<1>6. /\ UNCHANGED <<cache, expiring, dirty, joined, phase, todo, doubtful, fails>>
      /\ UNCHANGED <<asked, role>>
  BY DEF Serve, ServeCreate, redisVars, tableVars, flushVars
<1>7. \A k \in Keys : Table(k)' = Table(k)
  BY <1>2, TablesKept
<1>8. /\ asked' \subseteq Rooms \X Users /\ fails' \in 0 .. MaxFails
      /\ role' \in [Rooms -> [Users -> {Owner, Admin, Member, NoRow}]]
  BY <1>2, <1>6 DEF GroupTypeOK
<1> QED BY <1>2, <1>3, <1>4, <1>5, <1>6, <1>7, <1>8, HandlerStep

\* A handler's step that reads or checks, whether it succeeds or not, and how its
\* script goes on.
LEMMA ReadStep ==
  ASSUME GroupIInv, NEW h \in Handlers, NEW s \in Seq(CmdType), Served(s),
         Runs(h, Gates \cup Reads \cup Writes),
         script' = [script EXCEPT ![h] = s],
         seen' \in [Procs -> SUBSET Keys], seen'[Flusher] = seen[Flusher],
         UNCHANGED <<redisVars, flushVars, doubtful, created, joined, ops>>,
         asked' \subseteq Rooms \X Users,
         role' \in [Rooms -> [Users -> {Owner, Admin, Member, NoRow}]],
         \A k \in Keys : Table(k)' = Table(k),
         fails' = fails \/ (fails < MaxFails /\ fails' = fails + 1)
  PROVE  GroupIInv'
<1>1. Consults(script[h][1])
  BY AtHead DEF Consults
<1>2. GroupTypeOK
  BY DEF GroupIInv
<1>3. fails' \in 0 .. MaxFails
  BY <1>2, FailsType DEF GroupTypeOK
<1>4. created' \subseteq Rooms /\ ops' \in 0 .. MaxOps
  BY <1>2 DEF GroupTypeOK
<1>5. UNCHANGED <<cache, expiring, dirty, joined, phase, todo, doubtful>>
  BY DEF redisVars, flushVars
<1> QED BY <1>1, <1>3, <1>4, <1>5, HandlerStep


LEMMA HandlerReads ==
  ASSUME GroupIInv, NEW h \in Handlers,
         \/ SMembers(h) \/ SMembersFails(h) \/ SIsMember(h) \/ SIsMemberFails(h)
         \/ ZScore(h) \/ Load(h) \/ Check(h)
  PROVE  GroupIInv'
<1> DEFINE c == Current(h)
<1>1. /\ Runs(h, Gates \cup Reads \cup Writes) /\ GroupTypeOK
      /\ UNCHANGED <<redisVars, tableVars, flushVars, doubtful, ops>>
  BY DEF SMembers, SMembersFails, SIsMember, SIsMemberFails, ZScore, Load, Check, Runs, Reads,
         bounds, GroupIInv
<1>2. /\ h \in Procs /\ h # Flusher /\ Flusher \in Procs
      /\ script[h] \in Seq(CmdType) /\ script[h] # << >> /\ Served(script[h])
      /\ c = script[h][1] /\ Fits(c) /\ c.key \in Keys /\ c.args \in SUBSET Keys
      /\ Tail(script[h]) \in Seq(CmdType) /\ Served(Tail(script[h]))
  BY <1>1, AtHead
<1> HIDE DEF c
<1>3. /\ UNCHANGED <<redisVars, flushVars, doubtful, created, joined, ops>>
      /\ asked' \subseteq Rooms \X Users
      /\ role' \in [Rooms -> [Users -> {Owner, Admin, Member, NoRow}]]
      /\ \A k \in Keys : Table(k)' = Table(k)
  <2>1. UNCHANGED <<created, role, joined, asked>>
    BY <1>1 DEF tableVars
  <2> QED BY <1>1, <2>1, TablesKept DEF GroupTypeOK
<1>4. ASSUME NEW s \in Seq(CmdType), Served(s), Continue(h, s),
             fails' = fails \/ (fails < MaxFails /\ fails' = fails + 1)
      PROVE  GroupIInv'
  <2>1. /\ script' = [script EXCEPT ![h] = s]
        /\ seen' \in [Procs -> SUBSET Keys] /\ seen'[Flusher] = seen[Flusher]
    BY <1>1, <1>2, <1>4, Moves
  <2> QED BY <1>1, <1>3, <1>4, <2>1, ReadStep
<1>5. ASSUME NEW s \in Seq(CmdType), Served(s), script' = [script EXCEPT ![h] = s],
             NEW x \in SUBSET Keys, seen' = [seen EXCEPT ![h] = x],
             fails' = fails \/ (fails < MaxFails /\ fails' = fails + 1)
      PROVE  GroupIInv'
  <2>1. seen' \in [Procs -> SUBSET Keys] /\ seen'[Flusher] = seen[Flusher]
    BY <1>1, <1>2, <1>5 DEF GroupTypeOK
  <2> QED BY <1>1, <1>3, <1>5, <2>1, ReadStep
<1>6. script' = [script EXCEPT ![h] = Tail(@)] => script' = [script EXCEPT ![h] = Tail(script[h])]
  OBVIOUS
<1>7. CASE SMembers(h)
  <2>1. cache[c.key] \in SUBSET Keys
    BY <1>1, <1>2 DEF GroupTypeOK
  <2> QED BY <1>2, <1>5, <1>6, <1>7, <2>1 DEF SMembers, bounds, c
<1>8. CASE SMembersFails(h)
  <2>1. /\ Continue(h, << Last(script[h]) >>)
        /\ fails < MaxFails /\ fails' = fails + 1 /\ c.op = "smembers"
    BY <1>2, <1>8 DEF SMembersFails, WithoutCache, Runs, c
  <2>2. Last(script[h]) = script[h][Len(script[h])] /\ Len(script[h]) \in DOMAIN script[h]
    BY <1>2 DEF Last
  <2>3. Fits(Last(script[h])) /\ Last(script[h]).op = "load"
    <3>1. 1 \in DOMAIN script[h]
      BY <1>2
    <3> QED BY <1>2, <2>1, <2>2, <3>1 DEF Served, Proper
  <2>4. << Last(script[h]) >> \in Seq(CmdType) /\ Served(<< Last(script[h]) >>)
    BY <2>3, SingleServed
  <2> QED BY <1>4, <2>1, <2>4
<1>9. CASE SIsMember(h)
  <2>1. cache[c.key] \cap c.args \in SUBSET Keys
    BY <1>1, <1>2 DEF GroupTypeOK
  <2> QED BY <1>2, <1>5, <1>6, <1>9, <2>1 DEF SIsMember, bounds, c
<1>10. CASE SIsMemberFails(h)
  <2>1. PICK found \in {Table(c.key) \cap c.args, {}} :
          /\ seen' = [seen EXCEPT ![h] = found]
          /\ script' = [script EXCEPT ![h] = Tail(Tail(@))]
          /\ fails < MaxFails /\ fails' = fails + 1 /\ c.op = "sismember"
    BY <1>10 DEF SIsMemberFails, Runs, c
  <2>2. found \in SUBSET Keys
    BY <1>2
  <2>3. Tail(script[h]) # << >>
    <3>1. 1 \in DOMAIN script[h]
      BY <1>2
    <3>2. 1 + 1 \in DOMAIN script[h]
      BY <1>2, <2>1, <3>1 DEF Served, Proper
    <3>3. Len(Tail(script[h])) = Len(script[h]) - 1 /\ Len(script[h]) > 1
      BY <1>2, <3>2
    <3>4. \A s \in Seq(CmdType) : Len(s) > 0 => s # << >>
      OBVIOUS
    <3>5. Len(Tail(script[h])) > 0
      BY <1>2, <3>3
    <3> QED BY <1>2, <3>4, <3>5
  <2>4. Tail(Tail(script[h])) \in Seq(CmdType) /\ Served(Tail(Tail(script[h])))
    BY <1>2, <2>3, TailServed
  <2>5. script' = [script EXCEPT ![h] = Tail(Tail(script[h]))]
    BY <2>1
  <2> QED BY <1>5, <2>1, <2>2, <2>4, <2>5
<1>11. CASE ZScore(h)
  <2>1. PICK x \in { Persist(c.key), Cmd("expire", c.key, {}) } :
          /\ Continue(h, << x >> \o Tail(script[h]))
          /\ fails' = fails \/ (fails < MaxFails /\ fails' = fails + 1)
    <3>1. \A b : Touch(c.key, b) \in { Persist(c.key), Cmd("expire", c.key, {}) }
      BY DEF Touch
    <3> QED BY <1>11, <3>1 DEF ZScore, c
  <2>2. x \in CmdType /\ x.op \in {"persist", "expire"}
    BY <1>2, MarksFit DEF Fits
  <2>3. << x >> \o Tail(script[h]) \in Seq(CmdType) /\ Served(<< x >> \o Tail(script[h]))
    BY <1>2, <2>2, PrependServed
  <2> QED BY <1>4, <2>1, <2>3
<1>12. CASE Load(h)
  <2>1. PICK s \in { Fill(c.key), << >> } : Continue(h, s) /\ fails' = fails
    BY <1>12 DEF Load, bounds, c
  <2>2. Fill(c.key) \in Seq(CmdType) /\ Served(Fill(c.key))
    <3> DEFINE fill == Cmd("fill", c.key, Table(c.key))
    <3>1. fill \in CmdType /\ fill.op = "fill" /\ fill.key = c.key /\ fill.args = Table(c.key)
      <4>1. Table(c.key) \in SUBSET Keys
        BY <1>1, <1>2, TableType
      <4>2. "fill" \in Simple \cup Gates \cup Reads \cup Writes
        BY DEF Simple
      <4> QED BY <1>2, <4>1, <4>2, Commands
    <3>2. Fits(fill)
      BY <1>1, <1>2, <3>1, TableType DEF Fits
    <3> HIDE DEF fill
    <3>3. << fill >> \in Seq(CmdType) /\ Served(<< fill >>)
      BY <3>1, <3>2, SingleServed
    <3> QED BY <3>3, EmptyServed DEF Fill, fill
  <2> QED BY <1>4, <2>1, <2>2, EmptyServed
<1>13. CASE Check(h)
  <2>1. PICK s \in { Tail(script[h]), << >> } : Continue(h, s) /\ fails' = fails
    BY <1>13 DEF Check, Advance, Abandon, bounds
  <2> QED BY <1>2, <1>4, <2>1, EmptyServed
<1> QED BY <1>7, <1>8, <1>9, <1>10, <1>11, <1>12, <1>13

LEMMA StatementFacts ==
  ASSUME GroupTypeOK, NEW p, NEW c, Fits(c), c.op # "commit", Statement(p, c)
  PROVE  /\ UNCHANGED <<created, joined>> /\ asked' \subseteq Rooms \X Users
         /\ role' \in [Rooms -> [Users -> {Owner, Admin, Member, NoRow}]]
         /\ \A k \in Keys : Table(k)' = Table(k)
<1>1. UNCHANGED <<created, joined>>
  BY DEF Statement
<1>2. asked' \subseteq Rooms \X Users
  BY DEF Statement, GroupTypeOK, Fits
<1>3. /\ role' \in [Rooms -> [Users -> {Owner, Admin, Member, NoRow}]]
      /\ \A r \in Rooms, u \in Users : role'[r][u] = NoRow <=> role[r][u] = NoRow
  <2>1. CASE UNCHANGED role
    BY <2>1 DEF GroupTypeOK
  <2>2. CASE c.op = "setRole" /\ SetRole(c.key, c.args)
    <3>1. PICK n \in {Admin, Member} :
            role' = [role EXCEPT ![c.key] =
                       [u \in Users |-> IF u \in c.args /\ @[u] # NoRow THEN n ELSE @[u]]]
      BY <2>2 DEF SetRole
    <3>2. c.key \in Rooms /\ n # NoRow
      BY <2>2, GroupConstants DEF Fits
    <3>3. \A r \in Rooms : role[r] \in [Users -> {Owner, Admin, Member, NoRow}]
      BY DEF GroupTypeOK
    <3>4. \A r \in Rooms \ {c.key} : role'[r] = role[r]
      BY <3>1 DEF GroupTypeOK
    <3>5. role'[c.key] = [u \in Users |-> IF u \in c.args /\ role[c.key][u] # NoRow THEN n
                                         ELSE role[c.key][u]]
      BY <3>1, <3>2 DEF GroupTypeOK
    <3>6. \A r \in Rooms, u \in Users : role'[r][u] = NoRow <=> role[r][u] = NoRow
      BY <3>2, <3>4, <3>5
    <3>7. \A r \in Rooms : role'[r] \in [Users -> {Owner, Admin, Member, NoRow}]
      BY <3>3, <3>4, <3>5
    <3>8. DOMAIN role' = Rooms /\ role' = [r \in DOMAIN role' |-> role'[r]]
      BY <3>1 DEF GroupTypeOK
    <3> QED BY <3>6, <3>7, <3>8
  <2> QED BY <2>1, <2>2 DEF Statement
<1>4. \A k \in Keys : Table(k)' = Table(k)
  BY <1>1, <1>3 DEF Table
<1> QED BY <1>1, <1>2, <1>3, <1>4

LEMMA HandlerWrites ==
  ASSUME GroupIInv, NEW h \in Handlers, Execute(h) \/ StatementFails(h)
  PROVE  GroupIInv'
<1> DEFINE c == Current(h)
<1>1. /\ Runs(h, Gates \cup Reads \cup Writes) /\ GroupTypeOK
      /\ UNCHANGED <<redisVars, flushVars, doubtful, ops>>
      /\ fails' = fails \/ (fails < MaxFails /\ fails' = fails + 1)
      /\ Advance(h) \/ Abandon(h)
      /\ Statement(h, c) \/ UNCHANGED tableVars
  BY DEF Execute, StatementFails, Runs, Reads, bounds, GroupIInv
<1>2. /\ h \in Procs /\ h # Flusher /\ Flusher \in Procs
      /\ Fits(c) /\ c.op # "commit"
      /\ Tail(script[h]) \in Seq(CmdType) /\ Served(Tail(script[h]))
  BY <1>1, AtHead
<1> HIDE DEF c
<1>3. /\ UNCHANGED <<created, joined>> /\ asked' \subseteq Rooms \X Users
      /\ role' \in [Rooms -> [Users -> {Owner, Admin, Member, NoRow}]]
      /\ \A k \in Keys : Table(k)' = Table(k)
  <2>1. CASE Statement(h, c)
    BY <1>1, <1>2, <2>1, StatementFacts
  <2>2. CASE UNCHANGED tableVars
    BY <1>1, <2>2, TablesKept DEF tableVars, GroupTypeOK
  <2> QED BY <1>1, <2>1, <2>2
<1>4. PICK s \in Seq(CmdType) : Served(s) /\ Continue(h, s)
  BY <1>1, <1>2, EmptyServed DEF Advance, Abandon
<1>5. /\ script' = [script EXCEPT ![h] = s]
      /\ seen' \in [Procs -> SUBSET Keys] /\ seen'[Flusher] = seen[Flusher]
  BY <1>1, <1>2, <1>4, Moves
<1> QED BY <1>1, <1>3, <1>4, <1>5, ReadStep


LEMMA RedisFacts ==
  ASSUME GroupTypeOK, NEW c, Fits(c), c.op \in Simple, Redis(c)
  PROVE  /\ cache' \in [Keys -> SUBSET Keys]
         /\ \A k \in Keys : cache'[k] \subseteq Partners(k)
         /\ expiring' \subseteq { k \in Keys : cache'[k] # {} }
         /\ dirty' \subseteq Keys
         /\ \A k \in Keys :
              \/ cache'[k] = cache[k] \/ Alters(c, k)
              \/ c.op = "fill" /\ c.key = k /\ cache'[k] = cache[k] \cup c.args
         /\ c.op \in {"zrem", "unmark", "persist", "expire"} => cache' = cache
         /\ dirty' = CASE c.op \in {"zrem", "unmark"} -> dirty \ {c.key}
                       [] c.op = "zadd" -> dirty \cup {c.key}
                       [] OTHER -> dirty
<1>1. c.key \in Keys /\ c.args \in SUBSET Keys
  BY DEF Fits, CmdType
<1>2. /\ cache \in [Keys -> SUBSET Keys] /\ \A k \in Keys : cache[k] \subseteq Partners(k)
      /\ expiring \subseteq { k \in Keys : cache[k] # {} } /\ dirty \subseteq Keys
  BY DEF GroupTypeOK, Partners, Keys
<1>3. CASE c.op \in {"sadd", "fill"}
  <2>1. /\ cache' = [cache EXCEPT ![c.key] = cache[c.key] \cup c.args]
        /\ expiring' = expiring /\ dirty' = dirty
    BY <1>3 DEF Redis, SAddTo
  <2>2. c.args \subseteq Partners(c.key)
    BY <1>3 DEF Fits
  <2>3. /\ cache' \in [Keys -> SUBSET Keys] /\ cache'[c.key] = cache[c.key] \cup c.args
        /\ \A k \in Keys \ {c.key} : cache'[k] = cache[k]
    BY <1>1, <1>2, <2>1
  <2> QED BY <1>1, <1>2, <1>3, <2>1, <2>2, <2>3 DEF Alters
<1>4. CASE c.op = "srem"
  <2>1. /\ cache' = [cache EXCEPT ![c.key] = cache[c.key] \ c.args] /\ dirty' = dirty
        /\ expiring' = IF cache[c.key] \subseteq c.args THEN expiring \ {c.key} ELSE expiring
    BY <1>4 DEF Redis, SRemFrom
  <2>2. /\ cache' \in [Keys -> SUBSET Keys] /\ cache'[c.key] = cache[c.key] \ c.args
        /\ \A k \in Keys \ {c.key} : cache'[k] = cache[k]
    BY <1>1, <1>2, <2>1
  <2>3. expiring' \subseteq { k \in Keys : cache'[k] # {} }
    BY <1>1, <1>2, <2>1, <2>2
  <2> QED BY <1>1, <1>2, <1>4, <2>1, <2>2, <2>3 DEF Alters
<1>5. CASE c.op \in {"zadd", "zrem", "persist", "expire", "unmark"}
  <2>1. /\ cache' = cache
        /\ expiring' \in { expiring, expiring \ {c.key}, Expiring(c.key) }
        /\ dirty' = CASE c.op \in {"zrem", "unmark"} -> dirty \ {c.key}
                      [] c.op = "zadd" -> dirty \cup {c.key}
                      [] OTHER -> dirty
    BY <1>5 DEF Redis
  <2>2. expiring' \subseteq { k \in Keys : cache'[k] # {} }
    BY <1>1, <1>2, <2>1 DEF Expiring
  <2>3. dirty' \subseteq Keys
    BY <1>1, <1>2, <2>1
  <2> QED BY <1>2, <1>5, <2>1, <2>2, <2>3
<1> QED BY <1>3, <1>4, <1>5 DEF Simple

LEMMA HandlerCommand ==
  ASSUME GroupIInv, NEW h \in Handlers, Command(h) \/ CommandFails(h)
  PROVE  GroupIInv'
<1> DEFINE c == Current(h)
           s == script[h]
<1>1. GroupTypeOK /\ Runs(h, Simple) /\ UNCHANGED <<tableVars, flushVars, ops>>
  BY DEF GroupIInv, Command, CommandFails, bounds
<1>2. /\ h \in Procs /\ h # Flusher /\ Flusher \in Procs
      /\ s \in Seq(CmdType) /\ s # << >> /\ Served(s)
      /\ c = s[1] /\ Fits(c) /\ c.op \in Simple /\ c.key \in Keys
      /\ c.op \notin {"zrem", "unmark", "commit"}
      /\ Tail(s) \in Seq(CmdType) /\ Served(Tail(s))
  BY <1>1, AtHead
<1>3. UNCHANGED <<created, role, joined, asked, phase, todo>>
  BY <1>1 DEF tableVars, flushVars
<1>4. PICK t \in { Tail(s), << >> } :
        /\ Continue(h, t)
        /\ doubtful \subseteq doubtful'
        /\ (Redis(c) /\ Doubts(h, c) \subseteq doubtful') \/ UNCHANGED redisVars
        /\ \/ t = Tail(s) /\ (Redis(c) \/ c.op \in {"persist", "expire", "fill"})
           \/ t = << >> /\ Unmarked(h) \subseteq doubtful'
  <2>1. doubtful \subseteq Doubts(h, c)
    BY <1>2 DEF Doubts
  <2>2. CASE Command(h)
    BY <2>1, <2>2 DEF Command, Advance
  <2>3. CASE CommandFails(h)
    <3>1. /\ \/ Redis(c) /\ doubtful' = Doubts(h, c) \cup Unmarked(h)
             \/ UNCHANGED redisVars /\ doubtful' = doubtful \cup Unmarked(h)
          /\ \/ c.op \in {"persist", "expire", "fill"} /\ Continue(h, Tail(s))
             \/ Continue(h, << >>)
      BY <2>3 DEF CommandFails, Advance, Abandon
    <3> QED BY <2>1, <3>1
  <2> QED BY <2>2, <2>3
<1>5. doubtful' \subseteq Keys /\ fails' \in 0 .. MaxFails /\ ops' \in 0 .. MaxOps
  <2>1. fails' = fails \/ (fails < MaxFails /\ fails' = fails + 1)
    BY DEF Command, CommandFails, bounds
  <2>2. fails' \in 0 .. MaxFails
    BY <1>1, <2>1, FailsType DEF GroupTypeOK
  <2>3. Doubts(h, c) \subseteq Keys
    BY <1>1, <1>2 DEF Doubts, GroupTypeOK
  <2>4. doubtful' \subseteq doubtful \cup Doubts(h, c) \cup Unmarked(h)
    BY DEF Command, CommandFails
  <2> QED BY <1>1, <2>2, <2>3, <2>4 DEF GroupTypeOK, Unmarked
<1>6. Redis(c) \/ UNCHANGED <<cache, expiring, dirty>>
  BY <1>4 DEF redisVars
<1> HIDE DEF c, s
<1>7. /\ cache' \in [Keys -> SUBSET Keys]
      /\ \A k \in Keys : cache'[k] \subseteq Partners(k)
      /\ expiring' \subseteq { k \in Keys : cache'[k] # {} }
      /\ dirty' \subseteq Keys /\ dirty \subseteq dirty'
  <2>1. CASE Redis(c)
    BY <1>1, <1>2, <2>1, RedisFacts DEF GroupTypeOK
  <2>2. CASE UNCHANGED <<cache, expiring, dirty>>
    BY <1>1, <2>2 DEF GroupTypeOK, Partners, Keys
  <2> QED BY <1>6, <2>1, <2>2
<1>8. /\ script' \in [Procs -> Seq(CmdType)] /\ script'[h] = t
      /\ \A q \in Procs \ {h} : script'[q] = script[q]
      /\ seen' \in [Procs -> SUBSET Keys] /\ seen'[Flusher] = seen[Flusher]
  BY <1>1, <1>2, <1>4, EmptyServed, Moves
<1>9. GroupTypeOK'
  <2>1. \A r \in Rooms : r \in Keys /\ Partners(r) = Users
    BY DEF Partners, Keys
  <2>2. \A u \in Users : u \in Keys /\ Partners(u) = Rooms
    BY GroupConstants DEF Partners, Keys
  <2>3. /\ \A r \in Rooms : cache'[r] \subseteq Users
        /\ \A u \in Users : cache'[u] \subseteq Rooms
    BY <1>7, <2>1, <2>2
  <2> QED BY <1>1, <1>3, <1>5, <1>7, <1>8, <2>3 DEF GroupTypeOK
<1>10. \A g \in Handlers : Served(script'[g])
  BY <1>2, <1>4, <1>8, EmptyServed DEF GroupIInv, Procs
<1>11. \A k \in Keys : Table(k)' = Table(k)
  BY <1>3, TablesKept
<1>12. FlushOK'
  <2>1. script'[Flusher] = script[Flusher]
    BY <1>2, <1>8
  <2>2. \A k \in Keys : \A final : Flushes(k, final) => Flushes(k, final)'
    BY <1>8, <1>11, <2>1 DEF Flushes
  <2> QED BY <1>1, <1>3, <1>7, <1>8, <2>1, <2>2 DEF GroupIInv, FlushOK, GroupTypeOK
<1>13. ASSUME NEW k \in Keys, cache'[k] # {}, k \notin dirty', k \notin doubtful',
              \A g \in Handlers : k \notin Owed(script'[g])
       PROVE  cache'[k] = Table(k)
  <2>1. ~ (Redis(c) /\ Alters(c, k))
    <3> SUFFICES ASSUME Redis(c), Alters(c, k) PROVE FALSE
      OBVIOUS
    <3>1. k \in Owed(Tail(s)) /\ \E i \in DOMAIN s : s[i] = ZAdd(k)
      BY <1>2, OwedBy
    <3>2. k \in Unmarked(h)
      BY <3>1 DEF Unmarked, s
    <3> QED BY <1>4, <1>8, <1>13, <3>1, <3>2
  <2>2. k \notin Owed(s)
    <3> SUFFICES ASSUME k \in Owed(s) PROVE FALSE
      OBVIOUS
    <3>1. k \in Unmarked(h)
      BY OwedUnmarked DEF s
    <3>2. t = Tail(s) /\ (Redis(c) \/ c.op \in {"persist", "expire", "fill"})
      BY <1>4, <1>13, <3>1
    <3>3. s[1] # ZAdd(k)
      <4> SUFFICES ASSUME s[1] = ZAdd(k) PROVE FALSE
        OBVIOUS
      <4>1. c.op = "zadd" /\ c.key = k
        BY <1>2, MarksFit
      <4>2. Redis(c)
        BY <3>2, <4>1
      <4>3. dirty' = dirty \cup {k}
        BY <1>1, <1>2, <4>1, <4>2, RedisFacts
      <4> QED BY <1>13, <4>3
    <3>4. k \in Owed(Tail(s))
      BY <1>2, <3>3, OwedTail
    <3> QED BY <1>8, <1>13, <3>2, <3>4
  <2>3. \A g \in Handlers : k \notin Owed(script[g])
    BY <1>2, <1>8, <1>13, <2>2 DEF Procs, s
  <2>4. cache[k] # {} => cache[k] = Table(k)
    BY <1>4, <1>7, <1>13, <2>3 DEF GroupIInv, Agrees
  <2>5. CASE cache'[k] = cache[k]
    BY <1>13, <2>4, <2>5
  <2>6. CASE cache'[k] # cache[k]
    <3>1. Redis(c)
      BY <1>6, <2>6
    <3>2. c.op = "fill" /\ c.key = k /\ cache'[k] = cache[k] \cup c.args
      BY <1>1, <1>2, <2>1, <2>6, <3>1, RedisFacts
    <3>3. c.args = Table(k)
      <4> SUFFICES ASSUME c.args # Table(k) PROVE FALSE
        OBVIOUS
      <4>1. Doubts(h, c) = doubtful \cup {k}
        BY <3>2 DEF Doubts
      <4>2. Doubts(h, c) \subseteq doubtful'
        BY <1>4, <2>6 DEF redisVars
      <4> QED BY <1>13, <4>1, <4>2
    <3> QED BY <2>4, <3>2, <3>3
  <2> QED BY <2>5, <2>6
<1>14. \A k \in Keys : Agrees(k)'
  BY <1>11, <1>13 DEF Agrees
<1> QED BY <1>9, <1>10, <1>12, <1>14 DEF GroupIInv


\* Where the Flusher is, by the command it comes to.
LEMMA AtFlusher ==
  ASSUME GroupIInv, NEW S, Runs(Flusher, S)
  PROVE  /\ Flusher \in Procs /\ Current(Flusher).op \in S
         /\ \E k \in dirty \ todo : \E final \in Unmarks(k) :
              /\ k \in Keys /\ Current(Flusher).key = k /\ Fits(Current(Flusher))
              /\ \/ /\ Current(Flusher).op = "smembers" /\ seen[Flusher] = {}
                    /\ Tail(script[Flusher])
                         = << Cmd("zscore", k, {}), Cmd("commit", k, {}), final >>
                    /\ Last(script[Flusher]) = final
                 \/ /\ Current(Flusher).op \in {"zscore", "persist", "expire"}
                    /\ seen[Flusher] \subseteq Partners(k)
                    /\ Tail(script[Flusher]) = << Cmd("commit", k, {}), final >>
                 \/ /\ Current(Flusher).op = "commit"
                    /\ seen[Flusher] \subseteq Partners(k)
                    /\ Tail(script[Flusher]) = << final >>
                 \/ /\ Current(Flusher).op \in {"zrem", "unmark"}
                    /\ Tail(script[Flusher]) = << >>
                    /\ seen[Flusher] = {} \/ seen[Flusher] = Table(k)
<1> DEFINE s == script[Flusher]
<1>1. Flusher \in Procs /\ Current(Flusher).op \in S /\ s # << >> /\ dirty \subseteq Keys
  BY DEF Runs, Procs, GroupIInv, GroupTypeOK
<1>2. PICK k \in dirty \ todo : \E final \in Unmarks(k) : Flushes(k, final)
  BY <1>1 DEF GroupIInv, FlushOK
<1> PICK final \in Unmarks(k) : Flushes(k, final)
  BY <1>2
<1>3. {"smembers", "zscore", "commit", "zrem", "unmark", "expire", "persist"}
        \subseteq Simple \cup Gates \cup Reads \cup Writes
  BY DEF Simple, Reads, Writes
<1>4. k \in Keys /\ {} \in SUBSET Keys
  BY <1>1
<1>5. ASSUME NEW op \in {"smembers", "zscore", "commit", "zrem", "unmark", "expire", "persist"}
      PROVE  Fits(Cmd(op, k, {})) /\ Cmd(op, k, {}).op = op /\ Cmd(op, k, {}).key = k
  BY <1>3, <1>4, Commands DEF Fits
<1>6. Current(Flusher) = s[1]
  BY DEF Current
<1>7. CASE s = << Cmd("smembers", k, {}), Cmd("zscore", k, {}), Cmd("commit", k, {}), final >>
           /\ seen[Flusher] = {}
  <2>1. /\ s[1] = Cmd("smembers", k, {}) /\ s[Len(s)] = final
        /\ Tail(s) = << Cmd("zscore", k, {}), Cmd("commit", k, {}), final >>
    BY <1>7
  <2> HIDE DEF s
  <2> QED BY <1>1, <1>2, <1>4, <1>5, <1>6, <1>7, <2>1 DEF Last, s
<1>8. CASE /\ \E c \in { Cmd("zscore", k, {}), Persist(k), Cmd("expire", k, {}) } :
                s = << c, Cmd("commit", k, {}), final >>
           /\ seen[Flusher] \subseteq Partners(k)
  <2>1. PICK c \in { Cmd("zscore", k, {}), Cmd("persist", k, {}), Cmd("expire", k, {}) } :
               s = << c, Cmd("commit", k, {}), final >>
    BY <1>8 DEF Persist
  <2>2. s[1] = c /\ Tail(s) = << Cmd("commit", k, {}), final >>
    BY <2>1
  <2> HIDE DEF s
  <2>3. Fits(c) /\ c.op \in {"zscore", "persist", "expire"} /\ c.key = k
    BY <1>5
  <2> QED BY <1>1, <1>2, <1>4, <1>6, <1>8, <2>2, <2>3 DEF s
<1>9. CASE s = << Cmd("commit", k, {}), final >> /\ seen[Flusher] \subseteq Partners(k)
  <2>1. s[1] = Cmd("commit", k, {}) /\ Tail(s) = << final >>
    BY <1>9
  <2> HIDE DEF s
  <2> QED BY <1>1, <1>2, <1>4, <1>5, <1>6, <1>9, <2>1 DEF s
<1>10. CASE s = << final >> /\ (seen[Flusher] = {} \/ seen[Flusher] = Table(k))
  <2>1. s[1] = final /\ Tail(s) = << >>
    BY <1>10
  <2>2. Fits(final) /\ final.op \in {"zrem", "unmark"} /\ final.key = k
    BY <1>5 DEF Unmarks
  <2> HIDE DEF s
  <2> QED BY <1>1, <1>2, <1>4, <1>6, <1>10, <2>1, <2>2 DEF s
<1> QED BY <1>7, <1>8, <1>9, <1>10 DEF Flushes


LEMMA FlusherCommand ==
  ASSUME GroupIInv, Command(Flusher) \/ CommandFails(Flusher)
  PROVE  GroupIInv'
<1> DEFINE c == Current(Flusher)
           s == script[Flusher]
<1>1. GroupTypeOK /\ Runs(Flusher, Simple) /\ UNCHANGED <<tableVars, flushVars, ops>>
  BY DEF GroupIInv, Command, CommandFails, bounds
<1>2. Flusher \in Procs /\ c.op \in Simple /\ \A h \in Handlers : h \in Procs /\ h # Flusher
  BY <1>1, AtFlusher, GroupConstants DEF Procs
<1>3. PICK k \in dirty \ todo : \E final \in Unmarks(k) :
        /\ k \in Keys /\ c.key = k /\ Fits(c)
        /\ \/ /\ c.op \in {"persist", "expire"}
              /\ seen[Flusher] \subseteq Partners(k)
              /\ Tail(s) = << Cmd("commit", k, {}), final >>
           \/ /\ c.op \in {"zrem", "unmark"} /\ Tail(s) = << >>
              /\ seen[Flusher] = {} \/ seen[Flusher] = Table(k)
  <2>1. c.op \notin {"smembers", "zscore", "commit"}
    BY <1>2 DEF Simple
  <2> QED BY <1>1, <2>1, AtFlusher
<1>4. PICK final \in Unmarks(k) :
        /\ k \in Keys /\ c.key = k /\ Fits(c)
        /\ \/ /\ c.op \in {"persist", "expire"}
              /\ seen[Flusher] \subseteq Partners(k)
              /\ Tail(s) = << Cmd("commit", k, {}), final >>
           \/ /\ c.op \in {"zrem", "unmark"} /\ Tail(s) = << >>
              /\ seen[Flusher] = {} \/ seen[Flusher] = Table(k)
  BY <1>3
<1>5. UNCHANGED <<created, role, joined, asked, phase, todo>>
  BY <1>1 DEF tableVars, flushVars
<1>6. /\ Continue(Flusher, Tail(s))
      /\ \/ Redis(c) /\ Doubts(Flusher, c) \subseteq doubtful'
         \/ UNCHANGED redisVars /\ doubtful \subseteq doubtful'
      /\ doubtful' \subseteq doubtful \cup Doubts(Flusher, c) \cup Unmarked(Flusher)
  <2>1. CASE Command(Flusher)
    BY <1>4, <2>1 DEF Command, Advance
  <2>2. CASE CommandFails(Flusher)
    BY <1>4, <2>2 DEF CommandFails, Advance, Abandon
  <2> QED BY <2>1, <2>2
<1>7. Redis(c) \/ UNCHANGED <<cache, expiring, dirty>>
  BY <1>6 DEF redisVars
<1>8. fails' \in 0 .. MaxFails /\ ops' \in 0 .. MaxOps /\ doubtful' \subseteq Keys
  <2>1. fails' = fails \/ (fails < MaxFails /\ fails' = fails + 1)
    BY DEF Command, CommandFails, bounds
  <2>2. fails' \in 0 .. MaxFails
    BY <1>1, <2>1, FailsType DEF GroupTypeOK
  <2>3. Doubts(Flusher, c) \subseteq Keys
    BY <1>1, <1>4 DEF Doubts, GroupTypeOK
  <2> QED BY <1>1, <1>6, <2>2, <2>3 DEF GroupTypeOK, Unmarked
<1> HIDE DEF c, s
<1>9. /\ cache' = cache /\ expiring' \subseteq { j \in Keys : cache'[j] # {} }
      /\ dirty' = dirty \/ (c.op \in {"zrem", "unmark"} /\ dirty' = dirty \ {k})
  <2>1. CASE Redis(c)
    <3>1. c.op # "zadd"
      BY <1>4
    <3> QED BY <1>1, <1>2, <1>4, <2>1, <3>1, RedisFacts
  <2>2. CASE UNCHANGED <<cache, expiring, dirty>>
    BY <1>1, <2>2 DEF GroupTypeOK
  <2> QED BY <1>7, <2>1, <2>2
<1>10. Tail(s) \in Seq(CmdType)
  BY <1>4, FlushParts, EmptyServed
<1>11. /\ script' \in [Procs -> Seq(CmdType)] /\ script'[Flusher] = Tail(s)
       /\ \A h \in Handlers : script'[h] = script[h]
       /\ seen' \in [Procs -> SUBSET Keys]
       /\ seen'[Flusher] = (IF Tail(s) = << >> THEN {} ELSE seen[Flusher])
  BY <1>1, <1>2, <1>6, <1>10, Moves
<1>12. GroupTypeOK'
  BY <1>1, <1>5, <1>8, <1>9, <1>11 DEF GroupTypeOK
<1>13. \A j \in Keys : Table(j)' = Table(j)
  BY <1>5, TablesKept
<1>14. FlushOK'
  <2>1. todo' \subseteq dirty'
    BY <1>5, <1>9 DEF GroupIInv, FlushOK
  <2>2. CASE Tail(s) = << >>
    BY <1>11, <2>1, <2>2 DEF FlushOK
  <2>3. CASE Tail(s) # << >>
    <3>1. k \in dirty' \ todo'
      BY <1>4, <1>5, <1>9, <2>3
    <3>2. /\ seen'[Flusher] \subseteq Partners(k)
          /\ script'[Flusher] = << Cmd("commit", k, {}), final >>
      BY <1>4, <1>11, <2>3
    <3>3. Flushes(k, final)'
      BY <3>2 DEF Flushes
    <3> QED BY <2>1, <3>1, <3>3 DEF FlushOK
  <2> QED BY <2>2, <2>3
<1>15. ASSUME NEW j \in Keys PROVE Agrees(j)'
  <2>1. SUFFICES ASSUME cache[j] # {}, j \notin dirty', j \notin doubtful',
                        \A h \in Handlers : j \notin Owed(script[h])
                 PROVE  cache[j] = Table(j)
    BY <1>9, <1>11, <1>13 DEF Agrees
  <2>2. CASE j \notin dirty /\ j \notin doubtful
    BY <2>1, <2>2 DEF GroupIInv, Agrees
  <2>3. CASE j \in dirty \/ j \in doubtful
    <3>1. Redis(c) /\ c.op \in {"zrem", "unmark"} /\ Doubts(Flusher, c) \subseteq doubtful'
      <4>1. CASE j \in dirty
        <5>1. dirty' # dirty
          BY <2>1, <4>1
        <5> QED BY <1>6, <1>9, <5>1 DEF redisVars
      <4>2. CASE j \in doubtful
        BY <1>6, <2>1, <4>2 DEF Doubts
      <4> QED BY <2>3, <4>1, <4>2
    <3>2. Doubts(Flusher, c) = IF cache[k] = seen[Flusher] THEN doubtful \ {k}
                               ELSE doubtful \cup {k}
      BY <1>4, <3>1 DEF Doubts
    <3>3. j = k
      BY <1>9, <2>1, <2>3, <3>1, <3>2
    <3>4. cache[k] = seen[Flusher]
      BY <2>1, <3>1, <3>2, <3>3
    <3> QED BY <1>4, <2>1, <3>1, <3>3, <3>4
  <2> QED BY <2>2, <2>3
<1>16. \A h \in Handlers : Served(script'[h])
  BY <1>11 DEF GroupIInv
<1> QED BY <1>12, <1>14, <1>15, <1>16 DEF GroupIInv


LEMMA FlusherReads ==
  ASSUME GroupIInv, SMembers(Flusher) \/ SMembersFails(Flusher) \/ ZScore(Flusher)
  PROVE  GroupIInv'
<1> DEFINE c == Current(Flusher)
           s == script[Flusher]
<1>1. /\ GroupTypeOK /\ Runs(Flusher, {"smembers", "zscore"})
      /\ UNCHANGED <<redisVars, tableVars, flushVars, doubtful, ops>>
  BY DEF GroupIInv, SMembers, SMembersFails, ZScore, Runs, bounds
<1>2. Flusher \in Procs /\ c.op \in {"smembers", "zscore"}
  BY <1>1, AtFlusher
<1>3. PICK k \in dirty \ todo : \E final \in Unmarks(k) :
        /\ k \in Keys /\ c.key = k
        /\ \/ /\ c.op = "smembers" /\ seen[Flusher] = {} /\ Last(s) = final
              /\ Tail(s) = << Cmd("zscore", k, {}), Cmd("commit", k, {}), final >>
           \/ /\ c.op = "zscore" /\ seen[Flusher] \subseteq Partners(k)
              /\ Tail(s) = << Cmd("commit", k, {}), final >>
  BY <1>1, <1>2, AtFlusher
<1>4. PICK final \in Unmarks(k) :
        /\ k \in Keys /\ c.key = k
        /\ \/ /\ c.op = "smembers" /\ seen[Flusher] = {} /\ Last(s) = final
              /\ Tail(s) = << Cmd("zscore", k, {}), Cmd("commit", k, {}), final >>
           \/ /\ c.op = "zscore" /\ seen[Flusher] \subseteq Partners(k)
              /\ Tail(s) = << Cmd("commit", k, {}), final >>
  BY <1>3
<1>5. /\ UNCHANGED <<cache, expiring, dirty, created, role, joined, asked, phase, todo>>
      /\ UNCHANGED <<doubtful, ops>>
  BY <1>1 DEF redisVars, tableVars, flushVars
<1> DEFINE rest == << Cmd("commit", k, {}), final >>
           zscore == Cmd("zscore", k, {})
           touches == { zscore, Persist(k), Cmd("expire", k, {}) }
<1>6. /\ << final >> \in Seq(CmdType) /\ rest \in Seq(CmdType)
      /\ \A x \in touches : << x >> \o rest = << x, Cmd("commit", k, {}), final >>
                            /\ << x >> \o rest \in Seq(CmdType)
  BY <1>4, FlushParts
<1>7. /\ (c.op = "smembers" => Tail(s) = << zscore >> \o rest)
      /\ (c.op = "zscore" => Tail(s) = rest)
  <2>1. << zscore >> \o rest = << zscore, Cmd("commit", k, {}), final >>
    BY <1>4, FlushParts
  <2> QED BY <1>4, <2>1
<1> HIDE DEF c, s, rest
<1>8. ASSUME NEW t \in Seq(CmdType), script' = [script EXCEPT ![Flusher] = t],
             seen' \in [Procs -> SUBSET Keys],
             \/ t = << >> /\ seen'[Flusher] = {}
             \/ t = << final >> /\ seen'[Flusher] = {}
             \/ \E x \in touches : t = << x >> \o rest /\ seen'[Flusher] \subseteq Partners(k),
             fails' = fails \/ (fails < MaxFails /\ fails' = fails + 1)
      PROVE  GroupIInv'
  <2>1. fails' \in 0 .. MaxFails /\ phase' \in 0 .. 4
    BY <1>1, <1>5, <1>8, FailsType DEF GroupTypeOK
  <2>2. \A j \in Keys : Table(j)' = Table(j)
    BY <1>5, TablesKept
  <2>3. script'[Flusher] = t
    BY <1>1, <1>2, <1>8 DEF GroupTypeOK
  <2>4. FlushOK'
    <3>1. todo' \subseteq dirty' /\ k \in dirty' \ todo'
      BY <1>4, <1>5 DEF GroupIInv, FlushOK
    <3>2. CASE t = << >> /\ seen'[Flusher] = {}
      BY <2>3, <3>1, <3>2 DEF FlushOK
    <3>3. CASE t = << final >> /\ seen'[Flusher] = {}
      <4>1. Flushes(k, final)'
        BY <2>3, <3>3 DEF Flushes
      <4> QED BY <3>1, <4>1 DEF FlushOK
    <3>4. CASE \E x \in touches :
                 t = << x >> \o rest /\ seen'[Flusher] \subseteq Partners(k)
      <4>1. Flushes(k, final)'
        <5>1. PICK x \in touches : t = << x, Cmd("commit", k, {}), final >>
                                   /\ seen'[Flusher] \subseteq Partners(k)
          BY <1>6, <3>4
        <5> QED BY <2>3, <5>1 DEF Flushes
      <4> QED BY <3>1, <4>1 DEF FlushOK
    <3> QED BY <1>8, <3>2, <3>3, <3>4
  <2>5. /\ role' \in [Rooms -> [Users -> {Owner, Admin, Member, NoRow}]]
        /\ joined' \in [Users -> SUBSET Rooms]
    BY <1>1, <1>5 DEF GroupTypeOK
  <2> QED BY <1>5, <1>8, <2>1, <2>2, <2>4, <2>5, FlusherStep
<1>9. CASE SMembers(Flusher)
  <2>1. /\ seen' = [seen EXCEPT ![Flusher] = cache[k]] /\ fails' = fails
        /\ script' = [script EXCEPT ![Flusher] = << zscore >> \o rest]
    <3>1. c.op = "smembers"
      BY <1>9 DEF SMembers, Runs, c
    <3> QED BY <1>4, <1>7, <1>9, <3>1 DEF SMembers, bounds, c, s
  <2>2. cache[k] \subseteq Partners(k) /\ cache[k] \in SUBSET Keys
    BY <1>1, <1>4 DEF GroupTypeOK, Partners, Keys
  <2>3. seen' \in [Procs -> SUBSET Keys] /\ seen'[Flusher] = cache[k]
    BY <1>1, <1>2, <2>1, <2>2 DEF GroupTypeOK
  <2>4. zscore \in touches
    OBVIOUS
  <2> HIDE DEF zscore, touches
  <2>5. << zscore >> \o rest \in Seq(CmdType)
    BY <1>6, <2>4
  <2> QED BY <1>8, <2>1, <2>2, <2>3, <2>4, <2>5
<1>10. ASSUME NEW t \in Seq(CmdType), Continue(Flusher, t)
       PROVE  /\ script' = [script EXCEPT ![Flusher] = t]
              /\ seen' \in [Procs -> SUBSET Keys]
              /\ seen'[Flusher] = (IF t = << >> THEN {} ELSE seen[Flusher])
  BY <1>1, <1>2, <1>10, Moves
<1>11. CASE SMembersFails(Flusher)
  <2>1. PICK t \in { << >>, << final >> } : Continue(Flusher, t)
    <3>1. c.op = "smembers"
      BY <1>11 DEF SMembersFails, Runs, c
    <3>2. Last(script[Flusher]) = final
      BY <1>4, <3>1 DEF s
    <3> QED BY <1>11, <3>2 DEF SMembersFails, WithoutCache
  <2>2. seen[Flusher] = {} /\ fails < MaxFails /\ fails' = fails + 1
    BY <1>4, <1>11 DEF SMembersFails, Runs, c
  <2>3. t \in Seq(CmdType)
    BY <1>6, EmptyServed
  <2> QED BY <1>8, <1>10, <2>1, <2>2, <2>3
<1>12. CASE ZScore(Flusher)
  <2>1. c.op = "zscore"
    BY <1>12 DEF ZScore, Runs, c
  <2>2. PICK x \in touches :
          /\ Continue(Flusher, << x >> \o rest)
          /\ fails' = fails \/ (fails < MaxFails /\ fails' = fails + 1)
    <3>1. \A b : Touch(k, b) \in touches
      BY DEF Touch
    <3>2. Tail(script[Flusher]) = rest /\ Current(Flusher).key = k
      BY <1>4, <1>7, <2>1 DEF s, c
    <3> HIDE DEF touches
    <3> QED BY <1>12, <3>1, <3>2 DEF ZScore
  <2> HIDE DEF touches
  <2>3. << x >> \o rest \in Seq(CmdType)
    BY <1>6
  <2>4. seen'[Flusher] \subseteq Partners(k)
    BY <1>4, <1>10, <2>1, <2>2, <2>3
  <2> QED BY <1>8, <1>10, <2>2, <2>3, <2>4
<1> QED BY <1>9, <1>11, <1>12

\* A write-back makes the table what the Flusher read.
LEMMA CommitFacts ==
  ASSUME GroupTypeOK, NEW k \in Keys, NEW m, m \subseteq Partners(k), Commit(k, m)
  PROVE  /\ role' \in [Rooms -> [Users -> {Owner, Admin, Member, NoRow}]]
         /\ joined' \in [Users -> SUBSET Rooms]
         /\ Table(k)' = m /\ \A j \in Keys \ {k} : Table(j)' = Table(j)
<1>1. CASE k \in Rooms
  <2>1. /\ role' = [role EXCEPT ![k] =
                      [u \in Users |-> IF u \in m THEN Owner ELSE NoRow]]
        /\ joined' = joined /\ m \subseteq Users
    BY <1>1 DEF Commit, Partners
  <2>2. /\ role' \in [Rooms -> [Users -> {Owner, Admin, Member, NoRow}]]
        /\ role'[k] = [u \in Users |-> IF u \in m THEN Owner ELSE NoRow]
        /\ \A r \in Rooms \ {k} : role'[r] = role[r]
    BY <1>1, <2>1 DEF GroupTypeOK
  <2>3. Table(k)' = m
    BY <1>1, <2>1, <2>2, GroupConstants DEF Table
  <2>4. \A j \in Keys \ {k} : Table(j)' = Table(j)
    BY <2>1, <2>2 DEF Table
  <2> QED BY <2>1, <2>2, <2>3, <2>4 DEF GroupTypeOK
<1>2. CASE k \notin Rooms
  <2>1. joined' = [joined EXCEPT ![k] = m] /\ role' = role /\ m \subseteq Rooms /\ k \in Users
    BY <1>2 DEF Commit, Partners, Keys
  <2>2. /\ joined' \in [Users -> SUBSET Rooms] /\ joined'[k] = m
        /\ \A u \in Users \ {k} : joined'[u] = joined[u]
    BY <2>1 DEF GroupTypeOK
  <2> QED BY <1>2, <2>1, <2>2 DEF GroupTypeOK, Table, Keys
<1> QED BY <1>1, <1>2

LEMMA FlusherWrites ==
  ASSUME GroupIInv, Execute(Flusher) \/ StatementFails(Flusher)
  PROVE  GroupIInv'
<1> DEFINE c == Current(Flusher)
           s == script[Flusher]
           S == Gates \cup Writes \cup {"load"}
<1>1. GroupTypeOK /\ Runs(Flusher, S) /\ UNCHANGED <<redisVars, flushVars, doubtful, ops>>
  BY DEF GroupIInv, Execute, StatementFails, Runs, bounds
<1>2. Flusher \in Procs /\ c.op \in S
  BY <1>1, AtFlusher
<1>3. PICK k \in dirty \ todo : \E final \in Unmarks(k) :
        /\ k \in Keys /\ c.key = k /\ Fits(c) /\ c.op = "commit"
        /\ seen[Flusher] \subseteq Partners(k) /\ Tail(s) = << final >>
  <2>1. c.op \notin {"smembers", "zscore", "persist", "expire", "zrem", "unmark"}
    BY <1>2 DEF Gates, Writes
  <2> QED BY <1>1, <2>1, AtFlusher
<1>4. PICK final \in Unmarks(k) : Tail(s) = << final >>
  BY <1>3
<1>5. << final >> \in Seq(CmdType) /\ << final >> # << >>
  BY <1>3, FlushParts
<1>6. /\ \/ Continue(Flusher, << final >>) /\ Statement(Flusher, c)
         \/ Continue(Flusher, << >>)
      /\ Statement(Flusher, c) \/ UNCHANGED tableVars
      /\ fails' = fails \/ (fails < MaxFails /\ fails' = fails + 1)
  BY <1>4 DEF Execute, StatementFails, Advance, Abandon, bounds
<1>7. UNCHANGED <<cache, expiring, dirty, phase, todo>>
  BY <1>1 DEF redisVars, flushVars
<1>8. Statement(Flusher, c) => Commit(k, seen[Flusher]) /\ UNCHANGED <<created, asked>>
  BY <1>3 DEF Statement
<1>9. /\ role' \in [Rooms -> [Users -> {Owner, Admin, Member, NoRow}]]
      /\ joined' \in [Users -> SUBSET Rooms] /\ UNCHANGED <<created, asked>>
      /\ \A j \in Keys \ {k} : Table(j)' = Table(j)
      /\ Statement(Flusher, c) => Table(k)' = seen[Flusher]
  <2>1. CASE Statement(Flusher, c)
    BY <1>1, <1>3, <1>8, <2>1, CommitFacts
  <2>2. CASE UNCHANGED tableVars /\ ~ Statement(Flusher, c)
    BY <1>1, <2>2, TablesKept DEF tableVars, GroupTypeOK
  <2> QED BY <1>6, <2>1, <2>2
<1>10. PICK t \in Seq(CmdType) :
         /\ Continue(Flusher, t)
         /\ (t = << final >> /\ Statement(Flusher, c)) \/ t = << >>
  BY <1>5, <1>6, EmptyServed
<1> HIDE DEF c, s, S
<1>11. /\ script' = [script EXCEPT ![Flusher] = t] /\ script'[Flusher] = t
       /\ seen' \in [Procs -> SUBSET Keys]
       /\ seen'[Flusher] = (IF t = << >> THEN {} ELSE seen[Flusher])
  BY <1>1, <1>2, <1>10, Moves
<1>12. FlushOK'
  <2>1. todo' \subseteq dirty' /\ k \in dirty' \ todo'
    BY <1>7 DEF GroupIInv, FlushOK
  <2>2. CASE t = << >>
    BY <1>11, <2>1, <2>2 DEF FlushOK
  <2>3. CASE t = << final >> /\ Statement(Flusher, c)
    <3>1. Flushes(k, final)'
      BY <1>5, <1>9, <1>11, <2>3 DEF Flushes
    <3> QED BY <2>1, <3>1 DEF FlushOK
  <2> QED BY <1>10, <2>2, <2>3
<1>13. fails' \in 0 .. MaxFails /\ phase' \in 0 .. 4
  BY <1>1, <1>6, <1>7, FailsType DEF GroupTypeOK
<1>14. \A j \in Keys \ dirty : Table(j)' = Table(j)
  BY <1>9
<1> QED BY <1>1, <1>7, <1>9, <1>11, <1>12, <1>13, <1>14, FlusherStep


LEMMA FlushPartStep ==
  ASSUME GroupIInv, FlushPart
  PROVE  GroupIInv'
<1>1. /\ GroupTypeOK /\ Flusher \in Procs
      /\ script[Flusher] = << >> /\ phase' = (phase + 1) % 5
      /\ UNCHANGED <<cache, expiring, dirty, created, role, joined, asked, script, seen>>
      /\ UNCHANGED <<doubtful, ops>>
  BY DEF GroupIInv, FlushPart, redisVars, tableVars, procVars, Procs
<1>2. phase' \in 0 .. 4
  BY <1>1 DEF GroupTypeOK
<1>3. todo' \subseteq dirty'
  <2>1. ASSUME NEW n \in 0 .. 4, NEW part \in Part(n) PROVE part \subseteq dirty
    BY <2>1 DEF Part, kSubset
  <2> QED BY <1>1, <1>2, <2>1 DEF FlushPart
<1>4. fails' \in 0 .. MaxFails
  <2>1. fails' = fails \/ (fails < MaxFails /\ fails' = fails + 1)
    BY DEF FlushPart
  <2> QED BY <1>1, <2>1, FailsType DEF GroupTypeOK
<1>5. FlushOK'
  <2>1. seen[Flusher] = {}
    <3>1. \A k, final : ~ Flushes(k, final)
      BY <1>1 DEF Flushes
    <3> QED BY <3>1 DEF GroupIInv, FlushOK
  <2> QED BY <1>1, <1>3, <2>1 DEF FlushOK
<1>6. \A j \in Keys : Table(j)' = Table(j)
  BY <1>1, TablesKept
<1>7. /\ << >> \in Seq(CmdType) /\ script' = [script EXCEPT ![Flusher] = << >>]
      /\ seen' \in [Procs -> SUBSET Keys]
      /\ role' \in [Rooms -> [Users -> {Owner, Admin, Member, NoRow}]]
      /\ joined' \in [Users -> SUBSET Rooms]
  BY <1>1, EmptyServed DEF GroupTypeOK
<1> QED BY <1>1, <1>2, <1>4, <1>5, <1>6, <1>7, FlusherStep

LEMMA FlushKeyStep ==
  ASSUME GroupIInv, FlushKey
  PROVE  GroupIInv'
<1>1. /\ GroupTypeOK /\ Flusher \in Procs /\ script[Flusher] = << >>
      /\ UNCHANGED <<cache, expiring, dirty, created, role, joined, asked, phase>>
      /\ UNCHANGED <<doubtful, ops, fails>>
  BY DEF GroupIInv, FlushKey, redisVars, tableVars, bounds, Procs
<1>2. PICK k \in todo :
        /\ todo' = todo \ {k}
        /\ Continue(Flusher, WriteBack(k)) \/ Continue(Flusher, ProcessDirty(k))
  BY DEF FlushKey
<1>3. k \in dirty /\ k \in Keys
  BY <1>1 DEF GroupIInv, FlushOK, GroupTypeOK
<1>4. PICK final \in Unmarks(k) :
        Continue(Flusher, << Cmd("smembers", k, {}), Cmd("zscore", k, {}) >>
                            \o << Cmd("commit", k, {}), final >>)
  BY <1>2 DEF WriteBack, ProcessDirty, GetCache, Unmarks
<1> DEFINE t == << Cmd("smembers", k, {}), Cmd("zscore", k, {}), Cmd("commit", k, {}), final >>
<1>5. /\ t \in Seq(CmdType) /\ t # << >>
      /\ << Cmd("smembers", k, {}), Cmd("zscore", k, {}) >> \o << Cmd("commit", k, {}), final >>
           = t
  <2>1. t # << >>
    OBVIOUS
  <2> QED BY <1>3, <2>1, FlushScript
<1>6. Continue(Flusher, t)
  BY <1>4, <1>5
<1> HIDE DEF t
<1>7. seen[Flusher] = {}
  <2>1. \A j, l : ~ Flushes(j, l)
    BY <1>1 DEF Flushes
  <2> QED BY <2>1 DEF GroupIInv, FlushOK
<1>8. /\ script' = [script EXCEPT ![Flusher] = t] /\ script'[Flusher] = t
      /\ seen' \in [Procs -> SUBSET Keys] /\ seen'[Flusher] = {}
  BY <1>1, <1>5, <1>6, <1>7, Moves
<1>9. FlushOK'
  <2>1. todo' \subseteq dirty' /\ k \in dirty' \ todo'
    BY <1>1, <1>2, <1>3 DEF GroupIInv, FlushOK
  <2>2. Flushes(k, final)'
    BY <1>8 DEF Flushes, t
  <2> QED BY <2>1, <2>2 DEF FlushOK
<1>10. \A j \in Keys : Table(j)' = Table(j)
  BY <1>1, TablesKept
<1>11. /\ role' \in [Rooms -> [Users -> {Owner, Admin, Member, NoRow}]]
       /\ joined' \in [Users -> SUBSET Rooms]
       /\ phase' \in 0 .. 4 /\ fails' \in 0 .. MaxFails
  BY <1>1 DEF GroupTypeOK
<1> QED BY <1>1, <1>5, <1>8, <1>9, <1>10, <1>11, FlusherStep

LEMMA ExpireStep ==
  ASSUME GroupIInv, NEW k \in Keys, Expire(k)
  PROVE  GroupIInv'
<1>1. /\ GroupTypeOK /\ cache' = [cache EXCEPT ![k] = {}] /\ expiring' = expiring \ {k}
      /\ UNCHANGED <<dirty, created, role, joined, asked, script, seen, phase, todo>>
      /\ UNCHANGED <<ops, fails, doubtful>>
  BY DEF GroupIInv, Expire, tableVars, procVars, flushVars, bounds
<1>2. /\ cache' \in [Keys -> SUBSET Keys] /\ cache'[k] = {}
      /\ \A j \in Keys \ {k} : cache'[j] = cache[j]
  BY <1>1 DEF GroupTypeOK
<1>3. GroupTypeOK'
  <2>1. /\ \A r \in Rooms : cache'[r] \subseteq Users
        /\ \A u \in Users : cache'[u] \subseteq Rooms
    BY <1>1, <1>2 DEF GroupTypeOK, Keys
  <2>2. expiring' \subseteq { j \in Keys : cache'[j] # {} }
    BY <1>1, <1>2 DEF GroupTypeOK
  <2> QED BY <1>1, <1>2, <2>1, <2>2 DEF GroupTypeOK
<1>4. \A j \in Keys : Table(j)' = Table(j)
  BY <1>1, TablesKept
<1>5. FlushOK'
  <2>1. \A j \in Keys : \A l : Flushes(j, l) => Flushes(j, l)'
    BY <1>1, <1>4 DEF Flushes
  <2> QED BY <1>1, <2>1 DEF GroupIInv, FlushOK, GroupTypeOK
<1>6. ASSUME NEW j \in Keys PROVE Agrees(j)'
  <2>1. Agrees(j)
    BY DEF GroupIInv
  <2> QED BY <1>1, <1>2, <1>4, <2>1 DEF Agrees
<1>7. \A h \in Handlers : Served(script'[h])
  BY <1>1 DEF GroupIInv
<1> QED BY <1>3, <1>5, <1>6, <1>7 DEF GroupIInv

LEMMA GroupStutter ==
  ASSUME GroupIInv, UNCHANGED groupVars
  PROVE  GroupIInv'
<1>1. /\ UNCHANGED <<cache, expiring, dirty, created, role, joined, asked>>
      /\ UNCHANGED <<script, seen, phase, todo, ops, fails, doubtful>>
  BY DEF groupVars, redisVars, tableVars, procVars, flushVars, bounds
<1>2. GroupTypeOK'
  BY <1>1 DEF GroupIInv, GroupTypeOK
<1>3. \A k \in Keys : Table(k)' = Table(k)
  BY <1>1, TablesKept
<1>4. FlushOK'
  <2>1. \A k \in Keys : \A l : Flushes(k, l) => Flushes(k, l)'
    BY <1>1, <1>3 DEF Flushes
  <2> QED BY <1>1, <2>1 DEF GroupIInv, FlushOK, GroupTypeOK
<1>5. \A k \in Keys : Agrees(k)'
  BY <1>1, <1>3 DEF GroupIInv, Agrees
<1>6. \A h \in Handlers : Served(script'[h])
  BY <1>1 DEF GroupIInv
<1> QED BY <1>2, <1>4, <1>5, <1>6 DEF GroupIInv

\* Handlers and the Flusher never run each other's commands.
LEMMA ProcStep ==
  ASSUME GroupIInv, NEW p \in Procs, Step(p)
  PROVE  GroupIInv'
<1>1. CASE p \in Handlers
  BY <1>1, HandlerCommand, HandlerReads, HandlerWrites DEF Step
<1>2. CASE p = Flusher
  <2>1. ASSUME Runs(Flusher, {"sismember"} \cup {"load"} \cup Gates) PROVE FALSE
    <3>1. Current(Flusher).op \in {"sismember"} \cup {"load"} \cup Gates
      BY <2>1, AtFlusher
    <3>2. Current(Flusher).op \in {"smembers", "zscore", "persist", "expire", "commit",
                                  "zrem", "unmark"}
      BY <2>1, AtFlusher
    <3> QED BY <3>1, <3>2 DEF Gates
  <2>2. ~ (\/ SIsMember(Flusher) \/ SIsMemberFails(Flusher) \/ Load(Flusher)
           \/ Check(Flusher))
    BY <2>1 DEF SIsMember, SIsMemberFails, Load, Check, Runs
  <2> QED BY <1>2, <2>2, FlusherCommand, FlusherReads, FlusherWrites DEF Step
<1> QED BY <1>1, <1>2 DEF Procs

\* The inductive invariant: what is left of every script still marks what it changed,
\* what the Flusher is at stays marked, and an unmarked set that nobody still owes a
\* mark agrees with its table.
THEOREM GroupInvariant == GroupSpec => []GroupIInv
<1>1. GroupInit => GroupIInv
  BY GroupInitInv
<1>2. GroupIInv /\ [GroupNext]_groupVars => GroupIInv'
  BY ProcStep, RequestStep, FlushPartStep, FlushKeyStep, ExpireStep, GroupStutter
     DEF GroupNext
<1> QED BY <1>1, <1>2, PTL DEF GroupSpec

\* The variables keep their types: a room's set holds users and a user's set holds
\* rooms, in the cache and in the tables, and only a set that exists has a TTL.
THEOREM GroupTypeCorrect == GroupSpec => []GroupTypeOK
BY GroupInvariant, PTL DEF GroupIInv

\* A cached set that is not marked dirty, and that no request in progress is still to
\* mark, is what its table holds, unless one of the three ways the code has of losing
\* track of it has occurred (AddRoomMemberCache, RemoveRoomMemberCache, flusher.go).
THEOREM CacheSettled == GroupSpec => []Settled
<1>1. GroupIInv => Settled
  BY OwedUnmarked DEF GroupIInv, Agrees, Settled
<1> QED BY <1>1, GroupInvariant, PTL
================================================================================
