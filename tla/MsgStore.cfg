CONSTANTS
  s1 = s1
  s2 = s2
  m1 = m1
  m2 = m2
  m3 = m3
  f1 = f1
  f2 = f2
  Sends = {s1, s2}
  Flushers = {f1, f2}
  Msgs = {m1, m2, m3}
  By <- TwoToOne
  Id <- SameId
  MayBeLong = {m1}
  Batch = 2
  Retry = 2
  MaxTroubles = 2

SPECIFICATION FairSpec

INVARIANTS
  TypeOK
  Conserved

PROPERTY Written
