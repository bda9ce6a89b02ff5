-------------------------------- MODULE Monitor --------------------------------
(***************************************************************************)
(* pkg/monitor/monitor.go: the statistics of the tasks that ended lately.  *)
(* A caller makes a task, does its work, and completes the task, which     *)
(* sends it over a channel to the goroutine that Run starts; that one      *)
(* keeps the tasks in a ring and sums over what is in it.  The callers are *)
(* the hooks of the Redis clients and of the MySQL driver                  *)
(* (pkg/db/redis/hook.go, pkg/db/mysql/mysql.go), for every command and    *)
(* statement, and PushViaWS.  Run is called for the gateway's "push_ws"    *)
(* alone (internal/gateway/push/dispatcher.go:85); nobody receives from    *)
(* the channels of the others.                                             *)
(*                                                                         *)
(* The definitions every module has are named for the monitor here, so     *)
(* that one module of proofs can extend this one and another.              *)
(***************************************************************************)
EXTENDS Integers, Sequences, FiniteSets

CONSTANTS
  Tasks,
  Succeeding,    \* the tasks that end without an error
  MaxLen,        \* length of the ring and capacity of the channel (1000, MySQL: 100)
  Window,        \* windowdur
  MaxClock,      \* bound: the last moment
  None           \* a slot of the ring that was never written

ASSUME MonitorAssumption ==
  /\ Succeeding \subseteq Tasks
  /\ MaxLen \in Nat \ {0}
  /\ Window \in Nat /\ MaxClock \in Nat \ {0}
  /\ None \notin Tasks

VARIABLES
  clock,
  runs,          \* whether there is a goroutine that receives
  task,          \* task[t]: where t is, with its sTime, lTime and success
  channel,       \* insertChan
  ring,          \* tasks, of which the entries are never written again once sent
  headindex, tailindex, count, totalTimeCount, successCount,
  inserted,      \* history: the tasks put in the ring, in order
  last           \* history: when the last one was

statVars == <<ring, headindex, tailindex, count, totalTimeCount, successCount>>
monitorVars == <<clock, runs, task, channel, statVars, inserted, last>>

Slots == 0 .. MaxLen - 1
TaskType == [pc : {"new", "work", "send", "done"}, sTime : 0 .. MaxClock,
             lTime : 0 .. MaxClock, success : BOOLEAN]

MonitorTypeOK ==
  /\ clock \in 1 .. MaxClock
  /\ runs \in BOOLEAN
  /\ task \in [Tasks -> TaskType]
  /\ channel \in Seq(Tasks) /\ Len(channel) <= MaxLen
  /\ ring \in [Slots -> Tasks \cup {None}]
  /\ headindex \in Slots /\ tailindex \in Slots
  /\ count \in 0 .. MaxLen
  /\ totalTimeCount \in Int
  /\ successCount \in 0 .. MaxLen
  /\ inserted \in Seq(Tasks)
  /\ last \in 0 .. MaxClock

Task(pc, sTime, lTime, success) ==
  [pc |-> pc, sTime |-> sTime, lTime |-> lTime, success |-> success]

MonitorInit ==
  /\ clock = 1
  /\ runs \in BOOLEAN
  /\ task = [t \in Tasks |-> Task("new", 0, 0, FALSE)]
  /\ channel = << >>
  /\ ring = [i \in Slots |-> None]
  /\ headindex = 0 /\ tailindex = 0 /\ count = 0
  /\ totalTimeCount = 0 /\ successCount = 0
  /\ inserted = << >>
  /\ last = 0

Pass ==
  /\ clock < MaxClock
  /\ clock' = clock + 1
  /\ UNCHANGED <<runs, task, channel, statVars, inserted, last>>

--------------------------------------------------------------------------------
(* The callers. *)

NewTask(t) ==
  /\ task[t].pc = "new"
  /\ task' = [task EXCEPT ![t] = Task("work", clock, 0, FALSE)]
  /\ UNCHANGED <<clock, runs, channel, statVars, inserted, last>>

\* CompleteTask, up to the send, after the caller's command.
CompleteTask(t) ==
  /\ task[t].pc = "work"
  /\ task' = [task EXCEPT ![t] = Task("send", @.sTime, clock, t \in Succeeding)]
  /\ UNCHANGED <<clock, runs, channel, statVars, inserted, last>>

\* Mutant of Room: the channel is one shorter than the ring.
RoomLess == Len(channel) < MaxLen - 1
Room == Len(channel) < MaxLen

\* The send waits for room.
Put(t) ==
  /\ task[t].pc = "send"
  /\ Room
  /\ channel' = Append(channel, t)
  /\ task' = [task EXCEPT ![t] = Task("done", @.sTime, @.lTime, @.success)]
  /\ UNCHANGED <<clock, runs, statVars, inserted, last>>

--------------------------------------------------------------------------------
(* Run. *)

Slot(i) == (headindex + i) % MaxLen
\* What the tasks of T took, together: the moments that each of them took.
Took(T) ==
  Cardinality({p \in T \X (1 .. MaxClock) :
                 p[2] > task[p[1]].sTime /\ p[2] <= task[p[1]].lTime})
\* How many of them succeeded.
Wins(T) == Cardinality({t \in T : task[t].success})

\* Mutant of Old: the window is a moment too long.
OldLate(t) == clock - task[t].lTime > Window
\* The task ended before the window.
Old(t) == clock - task[t].lTime >= Window

\* Entries from head up to tail, which is none when the two meet.
Span == (tailindex - headindex) % MaxLen

\* The loop passes the first k entries, which are old, and stops.
Passes(k) ==
  /\ k \in 0 .. Span
  /\ \A i \in 0 .. k - 1 : Old(ring[Slot(i)])
  /\ k < Span => ~ Old(ring[Slot(k)])

\* Mutant of Overwritten: the ring is taken for full one entry too late.
OverwrittenLate(k) == IF count - k > MaxLen THEN k + 1 ELSE k
\* One more goes when the ring is full.
Overwritten(k) == IF count - k = MaxLen THEN k + 1 ELSE k

\* The entries that go, with the sums they were part of, and the one that comes.
Take ==
  \E k \in 0 .. MaxLen :
    LET n == Overwritten(k)
        out == {ring[Slot(i)] : i \in 0 .. n - 1}
        t == Head(channel)
    IN
    /\ runs /\ channel # << >> /\ Passes(k)
    /\ channel' = Tail(channel)
    /\ headindex' = (headindex + n) % MaxLen
    /\ ring' = [ring EXCEPT ![tailindex] = t]
    /\ tailindex' = (tailindex + 1) % MaxLen
    /\ count' = count - n + 1
    /\ totalTimeCount' = totalTimeCount - Took(out) + Took({t})
    /\ successCount' = successCount - Wins(out) + Wins({t})
    /\ inserted' = Append(inserted, t)
    /\ last' = clock
    /\ UNCHANGED <<clock, runs, task>>

\* waitForShutdown: a signal ends the goroutine, and not the process.
Shutdown ==
  /\ runs
  /\ runs' = FALSE
  /\ UNCHANGED <<clock, task, channel, statVars, inserted, last>>

--------------------------------------------------------------------------------
Caller(t) == NewTask(t) \/ CompleteTask(t) \/ Put(t)

MonitorNext == Pass \/ (\E t \in Tasks : Caller(t)) \/ Take \/ Shutdown

MonitorSpec == MonitorInit /\ [][MonitorNext]_monitorVars

\* Goroutines run, and the measured work ends; time and signals are left open.
MonitorFairness ==
  /\ \A t \in Tasks : WF_monitorVars(CompleteTask(t) \/ Put(t))
  /\ WF_monitorVars(Take)

MonitorFairSpec == MonitorSpec /\ MonitorFairness

--------------------------------------------------------------------------------
(* Properties. *)

\* The ring's entries, the oldest first.
Kept == [i \in 1 .. count |-> ring[Slot(i - 1)]]

\* What GetStats reads is about the last count tasks inserted, each counted once: the
\* indices agree with the count, over the wrap-around, the expiry and the overwriting
\* of a full ring (:94-135).
Exact ==
  LET n == Len(inserted)
      S == {Kept[i] : i \in 1 .. count}
  IN
  /\ count <= n /\ Kept = SubSeq(inserted, n - count + 1, n)
  /\ count % MaxLen = Span
  /\ totalTimeCount = Took(S)
  /\ successCount = Wins(S)

\* Old tasks are not counted (as of the last insertion), except behind one that ended
\* later and came first, or as the last one, when it waited to be sent - or in a ring
\* that is full: head and tail meet then, and the loop (:97) finds nothing.
Windowed ==
  \A i \in 1 .. count :
    last - task[Kept[i]].lTime >= Window =>
      \/ count = MaxLen
      \/ i = count
      \/ \E j \in 1 .. i - 1 : task[Kept[j]].lTime > task[Kept[i]].lTime

\* A caller waits for ever only when the channel is full and nobody receives (any
\* more): where Run was never called, that is every caller after the first MaxLen.
Completes ==
  \A t \in Tasks :
    (task[t].pc = "work") ~> (task[t].pc = "done" \/ (~ runs /\ Len(channel) = MaxLen))
================================================================================
