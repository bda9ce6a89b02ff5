CONSTANTS
  on = on
  on2 = on2
  off = off
  Users = {on, on2, off}
  Online = {on, on2}
  Loops = {l1, l2}
  Workers = {w1}
  PullBatch = 2
  ChanCap = 1
  SendCap = 1
  PullLimit = 0
  Threshold = 1
  AckCap = 1
  ClaimBatch = 1
  NoEntry = NoEntry
  Ping = Ping
  Size = 2
  Targets <- TakeTurns
  MsgId <- OwnIds
  MaxCrashes = 0
  Aged = {}
  Pinged = {on}

SPECIFICATION FairSpec

 

PROPERTY Pulled
