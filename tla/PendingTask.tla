------------------------------ MODULE PendingTask ------------------------------
(***************************************************************************)
(* pkg/pendingTask: the table of outstanding targets per message that the  *)
(* Send service and the gateways keep.  Every Init allocates a fresh       *)
(* pendingState; DoneN and FailN find the state of a message in the map,   *)
(* account for some of its targets with atomic adds and, when nothing is   *)
(* pending, delete the map entry and call back.                            *)
(*                                                                         *)
(* Each access to shared memory is a step of the calling goroutine.  The   *)
(* messages are those of one of the 64 shards: shards share nothing.       *)
(* Init and the deletion hold the shard's mutex while they write the map,  *)
(* but DoneN and FailN read the map without it: a read that overlaps a     *)
(* write may find the entry, miss it, or end the process (the runtime's    *)
(* "concurrent map read and map write").                                   *)
(***************************************************************************)
EXTENDS Integers

CONSTANTS
  Msgs,       \* message ids of one shard
  Tasks,      \* one element per call of Init, naming the state it allocates
  Threads,    \* goroutines that call the manager
  NoTask,     \* the map has no entry
  NoMsg,      \* no message
  NoThread    \* the mutex is free

VARIABLES
  table,      \* table[m]: the state the shard's map holds for m, or NoTask
  heap,       \* heap[k]: the counters of the state allocated by Init call k
  mutex,      \* the goroutine that holds the shard's mutex
  call,       \* call[t]: the call goroutine t is in
  fatal,      \* the runtime has ended the process
  missed      \* history: messages of which a racing read missed the entry

CallPC == {"idle", "initLock", "initStore", "lookup", "addFailed", "addPending",
           "deleteLock", "delete", "callback"}

\* No call in progress.
NoCall == [pc |-> "idle", op |-> "none", msg |-> NoMsg, n |-> 0, task |-> NoTask]

Counters == [pending : Int, failed : Nat]
CallType == [pc : CallPC, op : {"none", "init", "done", "fail"},
             msg : Msgs \cup {NoMsg}, n : Nat, task : Tasks \cup {NoTask}]

PendingTypeOK ==
  /\ table \in [Msgs -> Tasks \cup {NoTask}]
  /\ heap \in [Tasks -> Counters]
  /\ mutex \in Threads \cup {NoThread}
  /\ call \in [Threads -> CallType]
  /\ fatal \in BOOLEAN
  /\ missed \subseteq Msgs

PendingInit ==
  /\ table = [m \in Msgs |-> NoTask]
  /\ heap = [k \in Tasks |-> [pending |-> 0, failed |-> 0]]
  /\ mutex = NoThread
  /\ call = [t \in Threads |-> NoCall]
  /\ fatal = FALSE
  /\ missed = {}

At(t, pc) == ~fatal /\ call[t].pc = pc

\* The goroutine that makes the call is at its beginning.
CallInit(t, m, k, count) ==
  call' = [call EXCEPT ![t] =
             [pc |-> "initLock", op |-> "init", msg |-> m, n |-> count, task |-> k]]

CallDoneN(t, m, count) ==
  call' = [call EXCEPT ![t] =
             [pc |-> "lookup", op |-> "done", msg |-> m, n |-> count, task |-> NoTask]]

CallFailN(t, m, count) ==
  call' = [call EXCEPT ![t] =
             [pc |-> "lookup", op |-> "fail", msg |-> m, n |-> count, task |-> NoTask]]

Goto(t, pc) == call' = [call EXCEPT ![t].pc = pc]

Exit(t) == call' = [call EXCEPT ![t] = NoCall]

Lock(t, from, to) ==
  /\ At(t, from)
  /\ mutex = NoThread
  /\ mutex' = t
  /\ Goto(t, to)
  /\ UNCHANGED <<table, heap, fatal, missed>>

InitLock(t) == Lock(t, "initLock", "initStore")

\* The map write under the mutex: a new state replaces whatever the map holds.
InitStore(t) ==
  /\ At(t, "initStore")
  /\ table' = [table EXCEPT ![call[t].msg] = call[t].task]
  /\ heap' = [heap EXCEPT ![call[t].task] = [pending |-> call[t].n, failed |-> 0]]
  /\ mutex' = NoThread
  /\ Exit(t)
  /\ UNCHANGED <<fatal, missed>>

\* FailN records the failure before it releases its targets.
Found(t) ==
  /\ At(t, "lookup")
  /\ table[call[t].msg] # NoTask
  /\ call' = [call EXCEPT ![t].pc = IF call[t].op = "fail" THEN "addFailed"
                                                               ELSE "addPending",
                          ![t].task = table[call[t].msg]]
  /\ UNCHANGED <<table, heap, mutex, fatal, missed>>

\* The map has no entry, or a write is in progress and hides it: the call
\* returns and its targets stay unaccounted for.
NotFound(t) ==
  /\ At(t, "lookup")
  /\ \/ /\ table[call[t].msg] = NoTask
        /\ UNCHANGED missed
     \/ /\ mutex # NoThread
        /\ table[call[t].msg] # NoTask
        /\ missed' = missed \cup {call[t].msg}
  /\ Exit(t)
  /\ UNCHANGED <<table, heap, mutex, fatal>>

\* The runtime notices the unsynchronised read and ends the process.
RuntimeFatal(t) ==
  /\ At(t, "lookup")
  /\ mutex # NoThread
  /\ fatal' = TRUE
  /\ UNCHANGED <<table, heap, mutex, call, missed>>

\* Mutant of Failures: the failure is never recorded.
FailuresForgotten(failed, n) == failed
Failures(failed, n) == failed + n

AddFailed(t) ==
  /\ At(t, "addFailed")
  /\ heap' = [heap EXCEPT ![call[t].task].failed = Failures(@, call[t].n)]
  /\ Goto(t, "addPending")
  /\ UNCHANGED <<table, mutex, fatal, missed>>

\* Mutant of Last: off by one, a call that leaves one target goes on too.
LastOffByOne(left) == left <= 1
\* Only the call that reaches zero goes on.
Last(left) == left <= 0

AddPending(t) ==
  /\ At(t, "addPending")
  /\ LET left == heap[call[t].task].pending - call[t].n
     IN  /\ heap' = [heap EXCEPT ![call[t].task].pending = left]
         /\ IF Last(left) THEN Goto(t, "deleteLock") ELSE Exit(t)
  /\ UNCHANGED <<table, mutex, fatal, missed>>

DeleteLock(t) == Lock(t, "deleteLock", "delete")

\* Mutant of Deleted: the last caller calls back without deleting the entry.
DeletedNot(m) == table
\* The entry is deleted by message id, whichever state it now names.
Deleted(m) == [table EXCEPT ![m] = NoTask]

DeleteEntry(t) ==
  /\ At(t, "delete")
  /\ table' = Deleted(call[t].msg)
  /\ mutex' = NoThread
  /\ Goto(t, "callback")
  /\ UNCHANGED <<heap, fatal, missed>>

\* Mutant of CallsDone: failures recorded by other goroutines are not looked at.
CallsDoneIgnoresFailed(t) == call[t].op = "done"

\* Which of the two callbacks the caller makes.
CallsDone(t) == call[t].op = "done" /\ heap[call[t].task].failed = 0

Return(t) ==
  /\ At(t, "callback")
  /\ Exit(t)
  /\ UNCHANGED <<table, heap, mutex, fatal, missed>>
================================================================================
