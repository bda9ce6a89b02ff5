CONSTANTS
  on = on
  on2 = on2
  off = off
  Users = {on, on2, off}
  Online = {on, on2}
  Loops = {l1, l2}
  Workers = {w1}
  PullBatch = 2
  ChanCap = 1
  SendCap = 1
  PullLimit = 0
  Threshold = 0
  AckCap = 1
  ClaimBatch = 1
  NoEntry = NoEntry
  Ping = Ping
  Size = 2
  Targets <- MixedTargets
  MsgId <- OneId
  MaxCrashes = 1
  Aged = {1}
  Pinged = {}

SPECIFICATION Spec

INVARIANTS
  TypeOK
  Accounted
  
