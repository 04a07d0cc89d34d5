CONSTANTS
  owner = owner
  alice = alice
  t1 = t1
  r1 = r1
  r2 = r2
  NoTeam = NoTeam
  NoUser = NoUser
  NoSession = NoSession
  User = {owner}
  Seed = {owner}
  Team = {t1}
  Roles = {"ACTOR"}
  Request = {r1, r2}
  Ops <- SessionOps
  MaxTime = 2
  AccessTTL = 1
  RefreshTTL = 2
  MaxPw = 0
  Faulty = FALSE
SPECIFICATION Spec
INVARIANT RefreshOnce
