CONSTANTS
  owner = owner
  alice = alice
  t1 = t1
  r1 = r1
  r2 = r2
  NoTeam = NoTeam
  NoUser = NoUser
  NoSession = NoSession
  User = {owner, alice}
  Seed = {owner}
  Team = {t1}
  Roles = {"OWNER", "ACTOR"}
  Request = {r1}
  Ops <- GrantOps
  MaxTime = 0
  AccessTTL = 1
  RefreshTTL = 1
  MaxPw = 0
  Faulty = FALSE
SPECIFICATION FairSpec
INVARIANTS AuditTracksGrants
PROPERTY DecisionIsTold
