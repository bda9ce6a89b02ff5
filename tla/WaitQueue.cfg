CONSTANTS
  g1 = g1
  m1 = m1
  m2 = m2
  m3 = m3
  u1 = u1
  u2 = u2
  Gateways = {g1, g2}
  Users = {u1, u2}
  Msgs = {m1, m2, m3}
  For <- TwoToOne
  Order <- OtherFirst
  Home <- AllAtOne
  Reading = {u1}
  ChanCap = 1
  LocalCap = 1
  Retry = 2
  MaxTroubles = 2
  Old = Old
  Nowhere = Nowhere
  NoUser = NoUser
  NoMsg = NoMsg

SPECIFICATION FairSpec

INVARIANTS
  TypeOK
  Conserved
  Attended

PROPERTY Retried

\* Everybody may be gone, and nothing be waiting.
CHECK_DEADLOCK FALSE
