SPECIFICATION Spec
CONSTANTS
  Users = {u1}
  u1 = u1
  Databases = {d1}
  d1 = d1
  Postgres = Postgres
  Workers = {w1, w2}
  w1 = w1
  w2 = w2
  Admin = Admin
  Public = Public
  Authenticator = Authenticator
  None = None
  MaxRequests = 3
  MaxPasswords = 5
  MaxFaults = 1
SYMMETRY Symmetry
\* the bound on the requests ends every behaviour
CHECK_DEADLOCK FALSE
INVARIANTS
  AgreeAtRest
  Ready
  SyncRepairs
  DeleteForgets
