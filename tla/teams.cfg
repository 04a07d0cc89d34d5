CONSTANTS
  olga = olga
  hugo = hugo
  ann = ann
  t1 = t1
  t2 = t2
  s1 = s1
  s2 = s2
  r1 = r1
  r2 = r2
  NoUser = NoUser
  NoTeam = NoTeam
  NoShare = NoShare
  Absent = Absent
  Gone = Gone
  User = {olga, hugo, ann}
  RoleOf <- MCRoleOf
  Team = {t1, t2}
  SeedLeaders <- MCSeedLeaders
  SeedMember <- MCSeedMember
  Share = {s1, s2}
  Request = {r1, r2}
  MaxRequests = 3
SPECIFICATION Spec
SYMMETRY Symmetry
INVARIANTS SharePerSlot LastNoticeTrue
PROPERTIES DeleteTakesNobody LeaderStays
\* The requests are bounded.
CHECK_DEADLOCK FALSE
