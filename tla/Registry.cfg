CONSTANTS
  theUser = theUser
  Gateways = {g1, g2}
  Sends = {s}
  Users = {theUser}
  Conns = {c1, c2}
  UserOf <- OneUser
  Handlers = {h1, h2}
  Budgets <- Mixes
  None = None

SPECIFICATION Spec
SYMMETRY Symmetry

INVARIANTS
  TypeOK
  Visible
  Unlisted
  Routed
  Leased

\* Every process may be down, and none need be started again.
CHECK_DEADLOCK FALSE
