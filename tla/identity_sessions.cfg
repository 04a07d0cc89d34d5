CONSTANTS
  owner = owner
  alice = alice
  t1 = t1
  r1 = r1
  r2 = r2
  NoTeam = NoTeam
  NoUser = NoUser
  NoSession = NoSession
  User = {owner}
  Seed = {owner}
  Team = {t1}
  Roles = {"OWNER"}
  Request = {r1, r2}
  Ops <- SessionOps
  MaxTime = 3
  AccessTTL = 1
  RefreshTTL = 2
  MaxPw = 1
  Faulty = TRUE
SYMMETRY Symmetry
SPECIFICATION Spec
INVARIANTS TypeOK RotationOrder
PROPERTY ImplementsLedger
