-------------------------------- MODULE MsgStore --------------------------------
(***************************************************************************)
(* internal/send/chat/send: the way of a message into the table            *)
(* chat_messages.  SendMessage puts it on a list in Redis and answers with *)
(* its id; the flusher service (cmd/flusher) pops up to a batch of them    *)
(* every five seconds, inserts the batch with one statement, and puts it   *)
(* back when that fails.  The table's primary key is the id, and its       *)
(* content is a TEXT (model/chat_message.sql), 65,535 bytes at most, while *)
(* the text of a message has no limit: a batch with an id that is there    *)
(* already or twice in it, or with one content that is longer, fails as a  *)
(* whole, and fails again.                                                 *)
(*                                                                         *)
(* Every Send process makes its ids as snowflake node 1 (:19): two may     *)
(* make the same one.                                                      *)
(***************************************************************************)
EXTENDS RedisList, SequencesExt

CONSTANTS
  Sends,         \* the Send processes
  Flushers,      \* the flusher processes
  Msgs,          \* the messages to send
  By,            \* By[m]: the process that is asked to send m
  Id,            \* Id[m]: the id it makes
  MayBeLong,     \* bound: the messages whose content may be longer than a TEXT
  Batch,         \* messages of one statement (100)
  Retry,         \* attempts of a Redis command (2)
  MaxTroubles    \* bound: attempts and statements lost or failed, processes killed

ASSUME StoreAssumption ==
  /\ IsFiniteSet(Flushers)
  /\ By \in [Msgs -> Sends]
  /\ \A m, n \in Msgs : By[m] = By[n] /\ Id[m] = Id[n] => m = n
  /\ MayBeLong \subseteq Msgs
  /\ {Batch, Retry} \subseteq Nat \ {0}
  /\ MaxTroubles \in Nat

VARIABLES
  list,          \* cache:send:messages
  table,         \* chat_messages: the messages stored
  req,           \* req[m]: the request to send m
  fl,            \* fl[f]: the round of flusher f
  troubles,
  gone,          \* history: gone[m]: copies of m no one has any more
  dup            \* history: dup[m]: copies of m made by commands whose answer was lost

vars == <<list, table, req, fl, troubles, gone, dup>>

ReqType == [pc : {"new", "push", "sent", "refused"}, tries : 0 .. Retry, long : BOOLEAN]
FlType == [pc : {"idle", "pop", "insert", "back"}, hand : Seq(Msgs), pops : 0 .. Batch,
           tries : 0 .. Retry]

TypeOK ==
  /\ list \in Seq(Msgs)
  /\ table \subseteq Msgs
  /\ req \in [Msgs -> ReqType]
  /\ fl \in [Flushers -> FlType]
  /\ \A f \in Flushers : Len(fl[f].hand) <= Batch
  /\ troubles \in 0 .. MaxTroubles
  /\ gone \in [Msgs -> Nat] /\ dup \in [Msgs -> Nat]

\* The stages of a round, of which Popping makes the batch.
Idle == [pc |-> "idle", hand |-> << >>, pops |-> 0, tries |-> 0]
Popping(hand, pops) == [pc |-> "pop", hand |-> hand, pops |-> pops, tries |-> Retry]
Inserting(hand) == [pc |-> "insert", hand |-> hand, pops |-> 0, tries |-> 0]
Returning(hand) == [pc |-> "back", hand |-> hand, pops |-> 0, tries |-> Retry]

Init ==
  /\ list = << >>
  /\ table = {}
  /\ req = [m \in Msgs |-> [pc |-> "new", tries |-> 0, long |-> FALSE]]
  /\ fl = [f \in Flushers |-> Idle]
  /\ troubles = 0
  /\ gone = [m \in Msgs |-> 0] /\ dup = [m \in Msgs |-> 0]

Trouble == troubles < MaxTroubles /\ troubles' = troubles + 1

Attempt(o) == IF o = "ok" THEN UNCHANGED troubles ELSE Trouble

Lost(o) == IF o = "lost" THEN 1 ELSE 0

--------------------------------------------------------------------------------
(* InsertMessage. *)

\* The content is what the user wrote, however long.
Send(m, long) ==
  /\ req[m].pc = "new"
  /\ long => m \in MayBeLong
  /\ req' = [req EXCEPT ![m] = [pc |-> "push", tries |-> Retry, long |-> long]]
  /\ UNCHANGED <<list, table, fl, troubles, gone, dup>>

RequestEnds(r, pc) == [pc |-> pc, tries |-> 0, long |-> r.long]

\* RPUSH.  The request is refused when the attempts have failed, whatever they did;
\* otherwise the message is dispatched (see SendDispatch).
Push(m, o) ==
  /\ req[m].pc = "push"
  /\ Attempt(o)
  /\ list' = Pushed(list, m, o)
  /\ req' = [req EXCEPT ![m] =
               IF TriesAgain(o, @.tries) THEN Again(@)
               ELSE RequestEnds(@, IF Answers(o) THEN "sent" ELSE "refused")]
  /\ dup' = [dup EXCEPT ![m] = @ + Lost(o)]
  /\ UNCHANGED <<table, fl, gone>>

--------------------------------------------------------------------------------
(* flushOnce and insertBatch. *)

Tick(f) ==
  /\ fl[f].pc = "idle"
  /\ fl' = [fl EXCEPT ![f] = Popping(<< >>, 0)]
  /\ UNCHANGED <<list, table, req, troubles, gone, dup>>

\* Mutant of MorePops: one too many.
MorePops1(f) == fl[f].pops <= Batch
\* The batch is not full.
MorePops(f) == fl[f].pops < Batch

\* Mutant of WorthIt: only a full batch is inserted.
WorthItFull(hand) == Len(hand) >= Batch
\* An empty batch is not inserted.
WorthIt(hand) == hand # << >>

AfterPops(hand) == IF WorthIt(hand) THEN Inserting(hand) ELSE Idle

\* One LPOP; an empty list or an error ends the batch.
Pop(f, o) ==
  /\ fl[f].pc = "pop" /\ MorePops(f)
  /\ Attempt(o)
  /\ list' = Popped(list, o)
  /\ fl' = [fl EXCEPT ![f] =
              IF TriesAgain(o, @.tries) THEN Again(@)
              ELSE IF Answers(o) /\ list # << >>
              THEN Popping(Append(@.hand, Head(list)), @.pops + 1)
              ELSE AfterPops(@.hand)]
  /\ gone' = IF o = "lost" /\ list # << >>
             THEN [gone EXCEPT ![Head(list)] = @ + 1] ELSE gone
  /\ UNCHANGED <<table, req, dup>>

Full(f) ==
  /\ fl[f].pc = "pop" /\ ~ MorePops(f)
  /\ fl' = [fl EXCEPT ![f] = AfterPops(@.hand)]
  /\ UNCHANGED <<list, table, req, troubles, gone, dup>>

\* The content of m is not longer than a TEXT.
FitsText(m) == ~ req[m].long

\* The table takes every row: no primary key of the batch is twice in it or in the
\* table, and no content is too long.
Storable(hand) ==
  /\ \A i \in DOMAIN hand : FitsText(hand[i])
  /\ \A i, j \in DOMAIN hand : Id[hand[i]] = Id[hand[j]] => i = j
  /\ \A m \in table : \A i \in DOMAIN hand : Id[hand[i]] # Id[m]

\* Mutant of KeptBack: the loop ends before the first message.
KeptBackLess(hand) == Tail(hand)
\* What is put back after a statement that failed.
KeptBack(hand) == hand

\* INSERT of the whole batch; it is put back after any error, one that will be there
\* the next time too.
Insert(f, o) ==
  LET hand == fl[f].hand IN
  /\ fl[f].pc = "insert"
  /\ IF Storable(hand) THEN Attempt(o) ELSE o = "failed" /\ UNCHANGED troubles
  /\ table' = IF o = "failed" THEN table ELSE table \cup ToSet(hand)
  /\ fl' = [fl EXCEPT ![f] = IF o = "ok" THEN Idle ELSE Returning(KeptBack(hand))]
  /\ dup' = [m \in Msgs |-> dup[m] + IF m \in ToSet(hand) THEN Lost(o) ELSE 0]
  /\ UNCHANGED <<list, req, gone>>

\* The last message first; the errors of RPUSH are ignored.
PutBack(f, o) ==
  LET hand == fl[f].hand
      m == Last(hand)
  IN
  /\ fl[f].pc = "back" /\ hand # << >>
  /\ Attempt(o)
  /\ list' = Pushed(list, m, o)
  /\ fl' = [fl EXCEPT ![f] = IF TriesAgain(o, @.tries) THEN Again(@)
                             ELSE Returning(Front(hand))]
  /\ dup' = [dup EXCEPT ![m] = @ + Lost(o)]
  /\ gone' = [gone EXCEPT ![m] = @ + IF GivesUp(o, fl[f].tries) THEN 1 ELSE 0]
  /\ UNCHANGED <<table, req>>

AllBack(f) ==
  /\ fl[f].pc = "back" /\ fl[f].hand = << >>
  /\ fl' = [fl EXCEPT ![f] = Idle]
  /\ UNCHANGED <<list, table, req, troubles, gone, dup>>

--------------------------------------------------------------------------------
(* A process is killed, and started again. *)

KillSend(s) ==
  /\ Trouble
  /\ req' = [m \in Msgs |-> IF By[m] = s /\ req[m].pc = "push"
                            THEN RequestEnds(req[m], "refused") ELSE req[m]]
  /\ UNCHANGED <<list, table, fl, gone, dup>>

KillFlusher(f) ==
  /\ Trouble
  /\ fl' = [fl EXCEPT ![f] = Idle]
  /\ gone' = [m \in Msgs |-> gone[m] + Copies(fl[f].hand, m)]
  /\ UNCHANGED <<list, table, req, dup>>

--------------------------------------------------------------------------------
Handle(m) == \E o \in Outcomes : Push(m, o)

Flush(f) ==
  \/ Tick(f) \/ Full(f) \/ AllBack(f)
  \/ \E o \in Outcomes : Pop(f, o) \/ Insert(f, o) \/ PutBack(f, o)

Next ==
  \/ \E m \in Msgs : Handle(m) \/ \E long \in BOOLEAN : Send(m, long)
  \/ \E f \in Flushers : Flush(f) \/ KillFlusher(f)
  \/ \E s \in Sends : KillSend(s)

Spec == Init /\ [][Next]_vars

\* Handlers and the ticker's goroutine run; nobody need send.
Fairness == (\A m \in Msgs : WF_vars(Handle(m))) /\ (\A f \in Flushers : WF_vars(Flush(f)))

FairSpec == Spec /\ Fairness

--------------------------------------------------------------------------------
(* Properties. *)

\* getMsgInfoByID finds m, so that it can be sent again.
Found(m) == m \in table

Hands == [f \in Flushers |-> fl[f].hand]
Waiting(m) == Copies(list, m) + CopiesAmong(Hands, m)
Stored(m) == IF Found(m) THEN 1 ELSE 0

\* Every message the sender was told is sent is on the list, in a flusher's hand or in
\* the table, and none is there more often than commands lost their answers: between
\* the pop, the INSERT and the put-back (:87-116), with other flushers on the same
\* list, a message disappears only where an answer is lost, a put-back fails or a
\* flusher is killed.  (A refused message may be stored all the same.)
Conserved ==
  \A m \in Msgs :
    Waiting(m) + Stored(m) + gone[m] = dup[m] + IF req[m].pc = "sent" THEN 1 ELSE 0

\* Some message that waits is too long, or has the id of another copy, waiting or
\* stored: the batches that hold it fail, and with it come the others.
Poisoned ==
  \E m \in Msgs : /\ Waiting(m) > 0
                  /\ \/ ~ FitsText(m)
                     \/ Waiting(m) + Stored(m) > 1
                     \/ \E n \in Msgs \ {m} : Id[n] = Id[m] /\ Waiting(n) + Stored(n) > 0

\* A message that the sender was told is sent is stored in the end, unless it was lost,
\* or the list holds an id twice or a content that is too long: a failed statement is
\* tried again until it succeeds (:110-115), which for those two it never does.
Written == \A m \in Msgs : (req[m].pc = "sent") ~> (Found(m) \/ gone[m] > 0 \/ Poisoned)
================================================================================
