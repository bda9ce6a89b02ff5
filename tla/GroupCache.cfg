CONSTANTS
  a = a
  b = b
  r = r
  Rooms = {r}
  Users = {a, b}
  Groups = {r}
  Existing = {r}
  UserLists <- ListOfB
  Offered <- Requests
  Creations <- Created
  Handlers = {h1, h2}
  Flusher = Flusher
  BatchSize = 1
  MaxOps = 2
  MaxFails = 1
  NoRow = NoRow

SPECIFICATION GroupSpec

INVARIANTS
  GroupTypeOK
  Settled
