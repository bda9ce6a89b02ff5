CONSTANTS
  m1 = m1
  m2 = m2
  r1 = r1
  r2 = r2
  Msgs = {m1, m2}
  Requests = {r1, r2}
  MsgOf <- TwoMessages
  Size <- TwoSizes
  BatchSize = 2
  Workers = {w1, w2}
  QueueCap = 1
  LocalCap = 1
  Gateways = {g1}
  Offline = Offline
  NoTask = NoTask
  NoMsg = NoMsg
  NoThread = NoThread
  NoSub = NoSub

SPECIFICATION Spec

INVARIANTS
  TypeOK
  AckSound
  FailSound
  OneVerdict
  CounterExact
  IInv

PROPERTY PromiseKept

SYMMETRY WorkerSymmetry

\* Requests end, and workers wait for sub-messages that no longer come.
CHECK_DEADLOCK FALSE
