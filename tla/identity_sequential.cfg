CONSTANTS
  owner = owner
  alice = alice
  t1 = t1
  r1 = r1
  r2 = r2
  NoTeam = NoTeam
  NoUser = NoUser
  NoSession = NoSession
  User = {owner, alice}
  Seed = {owner}
  Team = {t1}
  Roles = {"ACTOR"}
  Request = {r1}
  Ops <- OneAtATimeOps
  MaxTime = 2
  AccessTTL = 2
  RefreshTTL = 2
  MaxPw = 1
  Faulty = FALSE
SPECIFICATION Spec
INVARIANTS SessionsMatchPassword InactiveHasNoSession RefreshOnce OneDecision
\* The only OWNER may deactivate itself; then nobody can do anything any more.
CHECK_DEADLOCK FALSE
