CONSTANTS
  olga = olga
  hugo = hugo
  ann = ann
  t1 = t1
  t2 = t2
  k1 = k1
  k2 = k2
  r1 = r1
  r2 = r2
  d1 = d1
  d2 = d2
  x1 = x1
  e1 = e1
  e2 = e2
  s1 = s1
  s2 = s2
  b1 = b1
  NoUser = NoUser
  NoTeam = NoTeam
  NoRequest = NoRequest
  Absent = Absent
  Gone = Gone
  Unknown = Unknown
  OtherFamily = OtherFamily
  User = {olga, hugo, ann}
  RoleOf <- MCRoleOf
  Team = {t1, t2}
  TeamOf <- MCTeamOf
  Task = {k1, k2}
  Request = {r1, r2}
  MaxRows = 2
  Sample = {olga, ann}
  SeedThreads <- MCSeedThreads
  RelationType = {"BLOCKS"}
  MaxDay = 1
  Document = {d1, d2}
  Retro = {x1}
  MaxNamed = 1
  Entry = {e1, e2}
  Width = 2
  Socket = {s1, s2}
  Branch = {b1}
  HandNumber = {1}
  OpenTask = {k1}
  Account <- MCAccount
  UnitsPerDay = 2
  Offset = 1
  Days = 2
  MaxTime = 6
  MaxWrites = 3
SPECIFICATION Spec
SYMMETRY Symmetry
INVARIANTS WorkspaceTypeOK AttendancePerSlot FavouriteIsLastAnswer SharesAreLatest RetroReaders AccessAgrees AllowedByPrefix IssuesAreRecorded ReportsAddUp CommentIsHeard OnlineIsReached
\* The rows and the days are bounded.
CHECK_DEADLOCK FALSE
