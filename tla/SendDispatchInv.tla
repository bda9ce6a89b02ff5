---------------------------- MODULE SendDispatchInv ----------------------------
(***************************************************************************)
(* The inductive invariant behind the Send service's ACK: where the        *)
(* targets of a request are between the room's member list and the counter *)
(* that has subtracted them, when no message is resent.                    *)
(***************************************************************************)
EXTENDS SendDispatch

\* The request goroutine t works for.
RequestOf(t) == IF t \in Requests THEN t ELSE sub[t][1]

\* Before Init has stored the request's state.
Fresh(r) == rpc[r] = "start" \/ call[r].op = "init"

\* What goroutine t has taken and not accounted for.
Held(t) == IF t \in Requests THEN failSet[t]
           ELSE off[t] \cup DOMAIN grp[t] \cup doneSet[t] \cup failSet[t]

InQueue(s) == \E i \in 1 .. Len(queue) : queue[i] = s

Busy(w) == wpc[w] # "idle"

\* The sub-message target u of request r belongs to.
Token(r, u) == <<r, (u - 1) \div BatchSize>>

Accounting == {"addFailed", "addPending"}
Closing == {"deleteLock", "delete", "callback"}

\* A call in progress carries the right message, state and count.
CallOf(t) == LET c == call[t] IN
  /\ c.pc = "idle" <=> c.op = "none"
  /\ c.pc \in {"initLock", "initStore"} <=> c.op = "init"
  /\ c.op = "init" => /\ t \in Requests
                      /\ rpc[t] = "loop"
                      /\ c.msg = MsgOf[t] /\ c.task = t /\ c.n = Size[t]
  /\ c.op \in {"done", "fail"} =>
       /\ c.msg = MsgOf[RequestOf(t)]
       /\ t \in Requests => c.op = "fail" /\ rpc[t] = "returned"
       /\ t \in Workers => wpc[t] = "groups"
  /\ c.pc = "addFailed" => c.op = "fail"
  /\ c.pc \in Accounting \cup Closing => c.task = RequestOf(t)
  /\ c.pc \in {"lookup"} \cup Accounting =>
       Reported(t) # {} /\ c.n = Cardinality(Reported(t))

\* Nothing has happened yet to a request whose state is not stored.
FreshOf(r) ==
  Fresh(r) => /\ next[r] = 0
              /\ counted[r] = {} /\ failSet[r] = {}
              /\ doneCb[r] = 0 /\ failCb[r] = 0
              /\ table[MsgOf[r]] = NoTask

TableShape ==
  \A m \in Msgs : table[m] # NoTask => MsgOf[table[m]] = m

\* A sub-message is in the queue once, or with one worker, or gone.
TokenShape ==
  /\ \A i, j \in 1 .. Len(queue) : queue[i] = queue[j] => i = j
  /\ \A i \in 1 .. Len(queue) : queue[i][2] < next[queue[i][1]]
  /\ \A w \in Workers : Busy(w) =>
       ~InQueue(sub[w]) /\ sub[w][2] < next[sub[w][1]]
  /\ \A v, w \in Workers : Busy(v) /\ Busy(w) /\ sub[v] = sub[w] => v = w

\* What a worker holds are targets of its sub-message, each in one place.
WorkerOf(w) ==
  /\ wpc[w] = "idle" => Held(w) = {}
  /\ wpc[w] # "groups" => call[w].op = "none" /\ failSet[w] = {}
  /\ wpc[w] = "groups" => off[w] = {}
  /\ wpc[w] = "groups" /\ call[w].op # "done" => doneSet[w] = {}
  /\ Busy(w) => Held(w) \subseteq Batch(sub[w][1], sub[w][2])
  /\ off[w] \cap (DOMAIN grp[w] \cup doneSet[w]) = {}
  /\ DOMAIN grp[w] \cap (doneSet[w] \cup failSet[w]) = {}
  /\ doneSet[w] \cap failSet[w] = {}

\* Counted or dropped targets are in nobody's hands any more.
CountOf(r) ==
  /\ counted[r] \cup failSet[r] \subseteq Targets(r)
  /\ counted[r] \cap failSet[r] = {}
  /\ \A u \in counted[r] \cup failSet[r] :
       Token(r, u)[2] < next[r] /\ ~InQueue(Token(r, u))

ApartOf(w) ==
  Busy(w) => /\ \A u \in failSet[sub[w][1]] : Token(sub[w][1], u) # sub[w]
             /\ counted[sub[w][1]] \cap Held(w) = {}

\* The fate of a target is open until a goroutine that has it decides it.
OpenOf(r) ==
  \A u \in Targets(r) : Token(r, u)[2] >= next[r] \/ InQueue(Token(r, u)) =>
    place[r][u] = "pending"
WaitingOf(w) == \A u \in off[w] \cup DOMAIN grp[w] : place[sub[w][1]][u] = "pending"

\* A reported target has the place its report says; a counted one too.
DoneOf(w) == \A u \in doneSet[w] : place[sub[w][1]][u] \in Handled
FailOf(t) == \A u \in failSet[t] : place[RequestOf(t)][u] \in Lost
CountedOf(r) ==
  \A u \in counted[r] : /\ place[r][u] \in Handled \cup Lost
                        /\ heap[r].failed = 0 => place[r][u] \in Handled

\* The counters say what has been counted.
HeapOf(r) ==
  ~Fresh(r) => /\ heap[r].pending = Size[r] - Cardinality(counted[r])
               /\ heap[r].failed > 0 => \E u \in Targets(r) : place[r][u] \in Lost

\* The last accounting call leaves nothing to account for ...
ClosingOf(t) ==
  /\ call[t].pc \in {"addPending"} \cup Closing /\ call[t].op = "fail" =>
       heap[call[t].task].failed > 0
  /\ call[t].pc \in Closing =>
       counted[call[t].task] = Targets(call[t].task) /\ ~Verdict(call[t].task)
  /\ call[t].pc \in Closing /\ call[t].op = "done" => doneSet[t] = {}
  /\ call[t].pc = "callback" => table[call[t].msg] = NoTask

\* ... and is alone.
Alone ==
  \A t1, t2 \in Threads :
    /\ call[t1].pc \in Closing /\ call[t2].pc \in Closing
    /\ call[t1].task = call[t2].task
    => t1 = t2

\* A verdict is final.
VerdictOf(r) ==
  /\ Verdict(r) => /\ counted[r] = Targets(r)
                   /\ table[MsgOf[r]] = NoTask /\ MsgOf[r] \notin msg2sender
  /\ doneCb[r] > 0 => heap[r].failed = 0 /\ doneCb[r] = 1 /\ failCb[r] = 0
  /\ failCb[r] > 0 => heap[r].failed > 0 /\ failCb[r] = 1 /\ doneCb[r] = 0
  /\ MsgOf[r] \in acked => doneCb[r] > 0

IInv ==
  /\ TableShape /\ TokenShape /\ Alone
  /\ \A t \in Threads : CallOf(t) /\ FailOf(t) /\ ClosingOf(t)
  /\ \A w \in Workers : WorkerOf(w) /\ ApartOf(w) /\ DoneOf(w) /\ WaitingOf(w)
  /\ \A r \in Requests :
       /\ FreshOf(r) /\ CountOf(r) /\ CountedOf(r)
       /\ HeapOf(r) /\ VerdictOf(r) /\ OpenOf(r)
================================================================================
