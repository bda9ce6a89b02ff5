CONSTANTS
  g1 = g1
  g2 = g2
  m1 = m1
  m2 = m2
  Gateways = {g1, g2}
  Msgs = {m1, m2}
  Prior <- M1First
  Conns = 2
  Home <- G1First
  Replays = {r1, r2}
  Retry = 2
  Posts = 3
  Notes = 2
  Reports = 3
  MaxTroubles = 1
  Nowhere = Nowhere

SPECIFICATION FairSpec

INVARIANTS
  TypeOK
  Conserved

PROPERTIES
  StaysAwaited
  Arrives

\* The user may be gone for good.
CHECK_DEADLOCK FALSE
