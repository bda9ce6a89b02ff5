CONSTANTS
  u1 = u1
  Users = {u1}
  Conns = {c1}
  UserOf <- OneUser
  Msgs = {m1, m2}
  Targets <- ToOneUser
  Dispatchers = {d1}
  SendCap = 1
  MaxConnections = 2
  Greeted = {c1}
  Pinged = {c1}
  NoConn = NoConn
  NoMsg = NoMsg
  NoUser = NoUser

SPECIFICATION FairSpec

PROPERTY Settles

\* Connections end, and workers wait for messages that no longer come.
CHECK_DEADLOCK FALSE
