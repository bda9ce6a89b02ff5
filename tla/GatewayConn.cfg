CONSTANTS
  u1 = u1
  Users = {u1}
  Conns = {c1, c2}
  UserOf <- OneUser
  Msgs = {m1, m2}
  Targets <- ToOneUser
  Dispatchers = {d1}
  SendCap = 2
  MaxConnections = 2
  Greeted = {c1}
  Pinged = {}
  NoConn = NoConn
  NoMsg = NoMsg
  NoUser = NoUser

SPECIFICATION Spec

INVARIANTS
  TypeOK
  Accounted
  InOrder
  PendingExact

SYMMETRY MessageSymmetry

\* Connections end, and workers wait for messages that no longer come.
CHECK_DEADLOCK FALSE
