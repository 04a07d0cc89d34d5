--------------------------- MODULE IdentityProofs ---------------------------
(* Theorems about Identity, for any accounts, requests, bounds and endpoints. *)
EXTENDS Identity, Integers, TLAPS

-----------------------------------------------------------------------------
(* Type correctness *)

LEMMA ExceptType ==
  ASSUME NEW S, NEW T, NEW f \in [S -> T], NEW k, NEW v \in T
  PROVE  [f EXCEPT ![k] = v] \in [S -> T]
OBVIOUS

\* The updates of a user row.
LEMMA AccountUpdates ==
  ASSUME NEW a \in Account, NEW role \in UserRole, NEW team \in TeamOrNone
  PROVE  /\ [a EXCEPT !.role = role] \in Account
         /\ [a EXCEPT !.team = team] \in Account
         /\ [a EXCEPT !.pw = @ + 1] \in Account
BY DEF Account

LEMMA IdleType == Idle \in Call
BY IdentityAssumption DEF Idle, Call, Pc, UserRole, TeamOrNone, SessionOrNone,
                          PublicOps, SelfOps, AdminOps

\* A request that moves to another call keeps its type, and so does one that ends.
LEMMA GotoType ==
  ASSUME TypeOK, NEW r \in Request, NEW pc \in Pc, req[r].user \in User, Goto(r, pc)
  PROVE  /\ req' \in [Request -> Call]
         /\ \A q \in Request : req'[q].pc # "idle" => req'[q].user \in User
BY DEF TypeOK, Goto, Call

LEMMA FinishType ==
  ASSUME TypeOK, NEW r \in Request, Finish(r)
  PROVE  /\ req' \in [Request -> Call]
         /\ \A q \in Request : req'[q].pc # "idle" => req'[q].user \in User
BY IdleType DEF TypeOK, Finish, Idle

LEMMA ProceedType ==
  ASSUME TypeOK, NEW r \in Request, NEW pc \in Pc, NEW ok,
         req[r].user \in User, Proceed(r, ok, pc)
  PROVE  /\ req' \in [Request -> Call]
         /\ \A q \in Request : req'[q].pc # "idle" => req'[q].user \in User
BY GotoType, FinishType DEF Proceed

LEMMA BeginType ==
  ASSUME TypeOK, NEW r \in Request, NEW call \in Call, call.user \in User, Begin(r, call)
  PROVE  /\ req' \in [Request -> Call]
         /\ \A q \in Request : req'[q].pc # "idle" => req'[q].user \in User
BY DEF TypeOK, Begin

\* The three shapes of a step that leaves every table alone.
LEMMA OnlyRequestsType ==
  ASSUME TypeOK, OnlyRequests,
         req' \in [Request -> Call],
         \A q \in Request : req'[q].pc # "idle" => req'[q].user \in User
  PROVE  TypeOK'
BY DEF TypeOK, OnlyRequests, accounts, sessions, records

LEMMA OnlyUsersType ==
  ASSUME TypeOK, OnlyUsers, users' \in [User -> Account], moved' \in SUBSET User,
         req' \in [Request -> Call],
         \A q \in Request : req'[q].pc # "idle" => req'[q].user \in User
  PROVE  TypeOK'
BY DEF TypeOK, OnlyUsers, sessions, records

LEMMA ArriveType ==
  ASSUME TypeOK, NEW r \in Request, Arrive(r)
  PROVE  TypeOK'
<1>. USE IdleType
<1>1. ASSUME NEW u \in User, SignupRead(r, u) PROVE TypeOK'
  <2>1. [Idle EXCEPT !.op = "signup", !.pc = "create", !.user = u] \in Call
    BY DEF Call, Pc, PublicOps
  <2>. QED BY <1>1, <2>1, BeginType, OnlyRequestsType DEF SignupRead, Call, Idle
<1>2. ASSUME NEW u \in User, LoginRead(r, u) PROVE TypeOK'
  <2>1. [Idle EXCEPT !.op = "login", !.pc = "issue", !.user = u, !.pw = users[u].pw] \in Call
    BY DEF Call, Pc, PublicOps, TypeOK, Account
  <2>. QED BY <1>2, <2>1, BeginType, OnlyRequestsType DEF LoginRead, Call, Idle
<1>3. ASSUME NEW s \in Session, RefreshValidate(r, s) PROVE TypeOK'
  <2>1. [Idle EXCEPT !.op = "refresh", !.pc = "revokeOld", !.user = s[1],
                     !.tok = s, !.pw = origin[s].pw] \in Call
    BY DEF Call, Pc, PublicOps, TypeOK, Session, SessionOrNone
  <2>2. s[1] \in User
    BY DEF Session
  <2>. QED BY <1>3, <2>1, <2>2, BeginType, OnlyRequestsType DEF RefreshValidate, Call, Idle
<1>4. ASSUME NEW s \in Session, EnterLogout(r, s) PROVE TypeOK'
  <2>1. [Idle EXCEPT !.op = "logout", !.pc = "revokeOne", !.user = s[1], !.tok = s] \in Call
    BY DEF Call, Pc, SelfOps, Session, SessionOrNone
  <2>2. s[1] \in User
    BY DEF Session
  <2>. QED BY <1>4, <2>1, <2>2, BeginType, OnlyRequestsType DEF EnterLogout, Call, Idle
<1>5. ASSUME NEW s \in Session, NEW p \in 0 .. users[s[1]].pw, EnterChangePassword(r, s, p)
      PROVE  TypeOK'
  <2>1. s[1] \in User
    BY DEF Session
  <2>2. p \in Nat
    BY <2>1 DEF TypeOK, Account
  <2>3. [Idle EXCEPT !.op = "changePassword", !.pc = "read", !.user = s[1],
                     !.tok = s, !.pw = p] \in Call
    BY <2>1, <2>2 DEF Call, Pc, SelfOps, SessionOrNone
  <2>. QED BY <1>5, <2>1, <2>3, BeginType, OnlyRequestsType DEF EnterChangePassword, Call, Idle
<1>6. ASSUME NEW s \in Session, NEW op \in AdminOps, NEW u \in User,
             NEW role \in UserRole, NEW team \in TeamOrNone,
             EnterAdmin(r, s, op, u, role, team)
      PROVE  TypeOK'
  <2>1. [Idle EXCEPT !.op = op, !.pc = "read", !.user = u, !.role = role,
                     !.team = team] \in Call
    BY DEF Call, Pc
  <2>. QED BY <1>6, <2>1, BeginType, OnlyRequestsType DEF EnterAdmin, Call, Idle
<1>7. Roles \subseteq UserRole /\ "ACTOR" \in UserRole /\ NoTeam \in TeamOrNone
      /\ Team \union {NoTeam} = TeamOrNone
  BY IdentityAssumption DEF UserRole, TeamOrNone
<1>8. {"approveUser", "updateUserRole", "updateUserTeam", "rejectUser",
       "deactivateUser", "activateUser"} \subseteq AdminOps
  BY DEF AdminOps
<1>. QED BY <1>1, <1>2, <1>3, <1>4, <1>5, <1>6, <1>7, <1>8 DEF Arrive

LEMMA HandleType ==
  ASSUME TypeOK, NEW r \in Request, Handle(r)
  PROVE  TypeOK'
<1>. DEFINE ReqOK == /\ req' \in [Request -> Call]
                     /\ \A q \in Request : req'[q].pc # "idle" => req'[q].user \in User
<1>. /\ {"issue", "reload", "write", "revokeAll", "checkTeam", "notify", "audit"} \subseteq Pc
     /\ "idle" \in Pc
  BY DEF Pc
<1>0. req[r].pc # "idle" => req[r].user \in User
  BY DEF TypeOK
<1>1. CASE SignupCreate(r)
  <2>1. ReqOK BY <1>1, FinishType DEF SignupCreate
  <2>2. req[r].user \in User BY <1>1, <1>0 DEF SignupCreate, At
  <2>3. [Absent EXCEPT !.status = "PENDING"] \in Account
    BY DEF Absent, Account, UserStatus, UserRole, TeamOrNone
  <2>4. users' \in [User -> Account] BY <1>1, <2>2, <2>3 DEF SignupCreate, TypeOK
  <2>. QED BY <1>1, <2>1, <2>4, OnlyUsersType DEF SignupCreate, TypeOK
<1>2. CASE GenerateTokens(r)
  <2>1. ReqOK BY <1>2, FinishType DEF GenerateTokens
  <2>2. /\ refreshTokens' \in [Session -> {"none", "live", "revoked"}]
        /\ origin' \in [Session -> [pw : Nat, parent : SessionOrNone]]
    <3>1. req[r].pw \in Nat /\ req[r].tok \in SessionOrNone BY DEF TypeOK, Call
    <3>2. [pw |-> req[r].pw, parent |-> req[r].tok] \in [pw : Nat, parent : SessionOrNone]
      BY <3>1
    <3>3. \/ /\ refreshTokens' = [refreshTokens EXCEPT ![<<req[r].user, now>>] = "live"]
             /\ origin' = [origin EXCEPT ![<<req[r].user, now>>] =
                              [pw |-> req[r].pw, parent |-> req[r].tok]]
          \/ UNCHANGED <<refreshTokens, origin>>
      BY <1>2 DEF GenerateTokens, sessions
    <3>4. /\ refreshTokens \in [Session -> {"none", "live", "revoked"}]
          /\ origin \in [Session -> [pw : Nat, parent : SessionOrNone]]
          /\ "live" \in {"none", "live", "revoked"}
      BY DEF TypeOK
    <3>5. /\ [refreshTokens EXCEPT ![<<req[r].user, now>>] = "live"]
               \in [Session -> {"none", "live", "revoked"}]
          /\ [origin EXCEPT ![<<req[r].user, now>>] =
                              [pw |-> req[r].pw, parent |-> req[r].tok]]
               \in [Session -> [pw : Nat, parent : SessionOrNone]]
      <4>. HIDE <3>3
      <4>. QED BY <3>2, <3>4, ExceptType
    <3>. QED BY <3>3, <3>4, <3>5, Zenon
  <2>. QED BY <1>2, <2>1, <2>2 DEF GenerateTokens, TypeOK, accounts, records
<1>3. CASE RefreshRevokeOld(r)
  <2>1. ReqOK BY <1>3, <1>0, GotoType DEF RefreshRevokeOld, At
  <2>. QED BY <1>3, <2>1 DEF RefreshRevokeOld, TypeOK, accounts, records
<1>4. CASE RefreshReload(r)
  BY <1>4, <1>0, ProceedType, OnlyRequestsType DEF RefreshReload, At
<1>5. CASE LogoutRevoke(r)
  <2>1. ReqOK BY <1>5, FinishType DEF LogoutRevoke
  <2>. QED BY <1>5, <2>1 DEF LogoutRevoke, Revoked, TypeOK, accounts, records
<1>6. CASE ChangePasswordRead(r)
  BY <1>6, <1>0, ProceedType, OnlyRequestsType DEF ChangePasswordRead, At
<1>7. CASE ChangePasswordWrite(r)
  <2>1. ReqOK BY <1>7, <1>0, GotoType DEF ChangePasswordWrite, At
  <2>2. users' \in [User -> Account]
    <3>1. [users[req[r].user] EXCEPT !.pw = @ + 1] \in Account
      <4>1. users[req[r].user] \in Account
        BY <1>7, <1>0 DEF ChangePasswordWrite, At, TypeOK
      <4>2. "ACTOR" \in UserRole /\ NoTeam \in TeamOrNone
        BY DEF UserRole, TeamOrNone
      <4>. QED BY <4>1, <4>2, AccountUpdates
    <3>. QED BY <1>7, <3>1 DEF ChangePasswordWrite, TypeOK
  <2>. QED BY <1>7, <2>1, <2>2, OnlyUsersType DEF ChangePasswordWrite, TypeOK
<1>8. CASE ChangePasswordRevoke(r) \/ DeactivateRevoke(r)
  <2>1. ReqOK BY <1>8, FinishType DEF ChangePasswordRevoke, DeactivateRevoke, RevokeAll
  <2>. QED BY <1>8, <2>1 DEF ChangePasswordRevoke, DeactivateRevoke, RevokeAll, Revoked,
                             TypeOK, accounts, records
<1>9. CASE \/ ApproveRead(r) \/ RejectRead(r) \/ UpdateRoleRead(r) \/ UpdateTeamRead(r)
           \/ DeactivateRead(r) \/ ActivateRead(r)
  <2>1. AskedTeam(r) \in Pc BY DEF AskedTeam
  <2>. QED BY <1>9, <1>0, <2>1, ProceedType, OnlyRequestsType
           DEF ApproveRead, RejectRead, UpdateRoleRead, UpdateTeamRead, DeactivateRead,
               ActivateRead, At, Decidable, Found
<1>10. CASE CheckTeam(r)
  BY <1>10, <1>0, ProceedType, OnlyRequestsType DEF CheckTeam
<1>11. CASE ApproveWrite(r)
  <2>1. ReqOK BY <1>11, <1>0, ProceedType DEF ApproveWrite, At, TeamValid
  <2>2. users' \in [User -> Account]
    <3>1. req[r].user \in User /\ req[r].role \in UserRole /\ req[r].team \in TeamOrNone
      BY <1>11, <1>0 DEF ApproveWrite, At, TypeOK, Call
    <3>2. [users[req[r].user] EXCEPT !.status = "ACTIVE", !.role = req[r].role,
                                     !.team = req[r].team] \in Account
      BY <3>1 DEF TypeOK, Account, UserStatus
    <3>. QED BY <1>11, <3>1, <3>2 DEF ApproveWrite, TypeOK
  <2>. QED BY <1>11, <2>1, <2>2, OnlyUsersType DEF ApproveWrite, TypeOK
<1>12. CASE RejectWrite(r) \/ DeactivateWrite(r) \/ ActivateWrite(r)
  <2>1. ReqOK
    BY <1>12, <1>0, GotoType, FinishType DEF RejectWrite, DeactivateWrite, ActivateWrite, At
  <2>2. users' \in [User -> Account]
    <3>1. req[r].user \in User
      BY <1>12, <1>0 DEF RejectWrite, DeactivateWrite, ActivateWrite, At
    <3>2. /\ [users[req[r].user] EXCEPT !.status = "INACTIVE"] \in Account
          /\ [users[req[r].user] EXCEPT !.status = "ACTIVE"] \in Account
      BY <3>1 DEF TypeOK, Account, UserStatus
    <3>. QED BY <1>12, <3>2 DEF RejectWrite, DeactivateWrite, ActivateWrite, TypeOK
  <2>. QED BY <1>12, <2>1, <2>2, OnlyUsersType DEF RejectWrite, DeactivateWrite, ActivateWrite, TypeOK
<1>13. CASE UpdateRoleWrite(r)
  <2>1. ReqOK BY <1>13, <1>0, GotoType DEF UpdateRoleWrite, At
  <2>2. users' \in [User -> Account]
    <3>1. [users[req[r].user] EXCEPT !.role = req[r].role] \in Account
      <4>1. users[req[r].user] \in Account
        BY <1>13, <1>0 DEF UpdateRoleWrite, At, TypeOK
      <4>2. req[r].role \in UserRole /\ NoTeam \in TeamOrNone
        BY DEF TypeOK, Call, TeamOrNone
      <4>. QED BY <4>1, <4>2, AccountUpdates
    <3>. QED BY <1>13, <3>1 DEF UpdateRoleWrite, TypeOK
  <2>. QED BY <1>13, <2>1, <2>2, OnlyUsersType DEF UpdateRoleWrite, TypeOK
<1>14. CASE UpdateTeamWrite(r)
  <2>1. ReqOK BY <1>14, <1>0, ProceedType DEF UpdateTeamWrite, At, TeamValid
  <2>2. users' \in [User -> Account]
    <3>1. [users[req[r].user] EXCEPT !.team = req[r].team] \in Account
      <4>1. users[req[r].user] \in Account
        BY <1>14, <1>0 DEF UpdateTeamWrite, At, TypeOK
      <4>2. req[r].team \in TeamOrNone /\ "ACTOR" \in UserRole
        BY DEF TypeOK, Call, UserRole
      <4>. QED BY <4>1, <4>2, AccountUpdates
    <3>. QED BY <1>14, <3>1 DEF UpdateTeamWrite, TypeOK
  <2>. QED BY <1>14, <2>1, <2>2, OnlyUsersType DEF UpdateTeamWrite, TypeOK
<1>15. CASE NotifyDecision(r)
  <2>1. ReqOK BY <1>15, <1>0, GotoType DEF NotifyDecision
  <2>2. inbox' \in [User -> Seq({"USER_APPROVED", "USER_REJECTED"})]
    <3>1. PICK m \in {"USER_APPROVED", "USER_REJECTED"} :
            inbox' = [inbox EXCEPT ![req[r].user] = Append(@, m)]
      BY <1>15 DEF NotifyDecision
    <3>2. Append(inbox[req[r].user], m) \in Seq({"USER_APPROVED", "USER_REJECTED"})
      BY <1>15, <1>0 DEF NotifyDecision, TypeOK
    <3>. QED BY <3>1, <3>2 DEF TypeOK
  <2>. QED BY <1>15, <2>1, <2>2 DEF NotifyDecision, TypeOK, accounts, sessions
<1>16. CASE AuditLog(r)
  <2>1. ReqOK BY <1>16, FinishType DEF AuditLog
  <2>2. audited' \in [User -> Record]
    <3>1. SUFFICES ASSUME NEW old \in Record PROVE NewData(req[r], old) \in Record
      BY <1>16 DEF AuditLog, TypeOK
    <3>2. req[r].role \in UserRole /\ req[r].team \in TeamOrNone
      BY DEF TypeOK, Call
    <3>3. {"ACTIVE", "INACTIVE"} \subseteq UserStatus
      BY DEF UserStatus
    <3>4. CASE req[r].op = "approveUser"
      BY <3>2, <3>3, <3>4 DEF NewData, Record
    <3>5. CASE req[r].op = "rejectUser"
      BY <3>3, <3>5 DEF NewData, Record
    <3>6. CASE req[r].op = "updateUserRole"
      BY <3>2, <3>6 DEF NewData, Record
    <3>7. CASE req[r].op = "updateUserTeam"
      BY <3>2, <3>7 DEF NewData, Record
    <3>8. CASE req[r].op \notin {"approveUser", "rejectUser", "updateUserRole",
                                 "updateUserTeam"}
      BY <3>8 DEF NewData
    <3>. QED BY <3>4, <3>5, <3>6, <3>7, <3>8
  <2>. QED BY <1>16, <2>1, <2>2 DEF AuditLog, TypeOK, accounts, sessions
<1>. QED BY <1>1, <1>2, <1>3, <1>4, <1>5, <1>6, <1>7, <1>8, <1>9, <1>10, <1>11, <1>12,
            <1>13, <1>14, <1>15, <1>16 DEF Handle

LEMMA TypeAtInit == Init => TypeOK
<1>. SUFFICES ASSUME Init PROVE TypeOK
  OBVIOUS
<1>1. Absent \in Account /\ Seeded \in Account /\ Unrecorded \in Record
  BY DEF Absent, Seeded, Unrecorded, Account, Record, UserStatus, UserRole, TeamOrNone
<1>2. 0 \in Time
  BY IdentityAssumption DEF Time
<1>3. <<>> \in Seq({"USER_APPROVED", "USER_REJECTED"})
  OBVIOUS
<1>4. [pw |-> 0, parent |-> NoSession] \in [pw : Nat, parent : SessionOrNone]
  BY DEF SessionOrNone
<1>. QED BY <1>1, <1>2, <1>3, <1>4, IdleType DEF Init, TypeOK, Idle

LEMMA TypeAtNext == TypeOK /\ [Next]_vars => TypeOK'
<1>. SUFFICES ASSUME TypeOK, [Next]_vars PROVE TypeOK'
  OBVIOUS
<1>1. ASSUME NEW r \in Request, Arrive(r) \/ Handle(r) PROVE TypeOK'
  BY <1>1, ArriveType, HandleType
<1>2. CASE Tick
  BY <1>2, IdentityAssumption DEF Tick, TypeOK, Time, accounts, sessions, records
<1>3. CASE Crash
  BY <1>3, IdleType, OnlyRequestsType DEF Crash, Idle
<1>4. ASSUME NEW t \in Team, TeamDeleted(t) PROVE TypeOK'
  <2>1. users' \in [User -> Account]
    BY <1>4 DEF TeamDeleted, TypeOK, Account, TeamOrNone
  <2>. QED BY <1>4, <2>1 DEF TeamDeleted, TypeOK, sessions, records
<1>5. CASE UNCHANGED vars
  BY <1>5 DEF vars, TypeOK
<1>6. ASSUME NEW u \in User, NEW t \in Team \union {NoTeam}, MemberMoved(u, t) PROVE TypeOK'
  <2>1. [users[u] EXCEPT !.team = t] \in Account
    BY DEF TypeOK, Account, TeamOrNone
  <2>. QED BY <1>6, <2>1 DEF MemberMoved, TypeOK, sessions, records
<1>. QED BY <1>1, <1>2, <1>3, <1>4, <1>5, <1>6 DEF Next

\* What Teams does to the accounts: only the team of a row changes, and to another
\* than none only for an account that is there, which is moved then.
TeamsWrite == \/ \E t \in Team : TeamDeleted(t)
              \/ \E u \in User, t \in Team \union {NoTeam} : MemberMoved(u, t)

LEMMA TeamsWriteTeams ==
  ASSUME TypeOK, TeamsWrite
  PROVE  /\ UNCHANGED <<refreshTokens, origin, now, req, inbox, audited>> /\ moved \subseteq moved'
         /\ \A u \in User : /\ users'[u].status = users[u].status /\ users'[u].role = users[u].role
                            /\ users'[u].pw = users[u].pw
                            /\ \/ users'[u].team \in {users[u].team, NoTeam}
                               \/ u \in moved' /\ users[u].status # "ABSENT"
<1>1. ASSUME NEW u \in User, NEW t
      PROVE  LET a == [users[u] EXCEPT !.team = t]
             IN  a.status = users[u].status /\ a.role = users[u].role /\ a.pw = users[u].pw /\ a.team = t
  BY DEF TypeOK, Account
<1>2. ASSUME NEW t \in Team, TeamDeleted(t)
      PROVE  \A u \in User : users'[u] = users[u] \/ users'[u] = [users[u] EXCEPT !.team = NoTeam]
  BY <1>2 DEF TeamDeleted
<1>3. ASSUME NEW u \in User, NEW t \in Team \union {NoTeam}, MemberMoved(u, t)
      PROVE  /\ users'[u] = [users[u] EXCEPT !.team = t] /\ u \in moved' /\ users[u].status # "ABSENT"
             /\ \A v \in User \ {u} : users'[v] = users[v]
  BY <1>3 DEF MemberMoved, TypeOK
<1>4. UNCHANGED <<refreshTokens, origin, now, req, inbox, audited>> /\ moved \subseteq moved'
  BY DEF TeamsWrite, TeamDeleted, MemberMoved, sessions, records
<1>5. CASE \E t \in Team : TeamDeleted(t)
  <2>1. \A u \in User : users'[u] = users[u] \/ users'[u] = [users[u] EXCEPT !.team = NoTeam]
    BY <1>2, <1>5
  <2>2. ASSUME NEW u \in User
        PROVE  /\ users'[u].status = users[u].status /\ users'[u].role = users[u].role
               /\ users'[u].pw = users[u].pw /\ users'[u].team \in {users[u].team, NoTeam}
    <3>1. CASE users'[u] = users[u]
      BY <3>1
    <3>2. CASE users'[u] = [users[u] EXCEPT !.team = NoTeam]
      BY <1>1, <3>2
    <3> QED BY <2>1, <3>1, <3>2
  <2> QED BY <1>4, <2>2
<1>6. CASE \E u \in User, t \in Team \union {NoTeam} : MemberMoved(u, t)
  <2>1. PICK u \in User, t \in Team \union {NoTeam} : MemberMoved(u, t)
    BY <1>6
  <2>2. \A v \in User \ {u} : users'[v] = users[v]
    BY <1>3, <2>1
  <2>3. /\ users'[u].status = users[u].status /\ users'[u].role = users[u].role /\ users'[u].pw = users[u].pw
        /\ u \in moved' /\ users[u].status # "ABSENT"
    <3>1. users'[u] = [users[u] EXCEPT !.team = t] /\ u \in moved' /\ users[u].status # "ABSENT"
      BY <1>3, <2>1
    <3> QED BY <1>1, <3>1
  <2> QED BY <1>4, <2>2, <2>3
<1> QED BY <1>5, <1>6 DEF TeamsWrite

\* Whatever the endpoints, bounds and faults, the tables and the requests keep
\* the shape the schema and the handlers give them.
THEOREM TypeCorrect == Spec => []TypeOK
BY TypeAtInit, TypeAtNext, PTL DEF Spec

-----------------------------------------------------------------------------
(* The inductive invariant.  Every step moves the tables forward: a decided   *)
(* account stays decided, a row stays, a revoked row stays revoked and time    *)
(* does not go back.  What a request relies on (RequestOK) survives that.      *)

Forward ==
  /\ \A u \in User : ~Undecided(u) => (~Undecided(u))'
  /\ \A s \in Session : refreshTokens[s] # "none" => refreshTokens'[s] # "none"
  /\ \A s \in Session : refreshTokens[s] = "revoked" => refreshTokens'[s] = "revoked"
  /\ now <= now'

LEMMA RequestsKept ==
  ASSUME TypeOK, TypeOK', Forward, NEW r \in Request, RequestOK(req[r]), req'[r] = req[r]
  PROVE  RequestOK(req[r])'
<1>1. req[r] \in Call /\ (req[r].pc # "idle" => req[r].user \in User)
  BY DEF TypeOK
<1>2. now \in Int /\ now' \in Int
  BY IdentityAssumption DEF TypeOK, Time
<1>3. CASE req[r].pc = "notify"
  <2>. QED BY <1>1, <1>3 DEF RequestOK, Forward
<1>4. CASE req[r].op = "login"
  BY <1>1, <1>4 DEF RequestOK, Forward
<1>5. CASE req[r].op = "refresh"
  <2>1. req[r].tok \in Session /\ req[r].tok[2] \in Int
    BY <1>5, IdentityAssumption DEF RequestOK, Session, Time
  <2>2. req[r].tok[2] <= now'
    BY <1>2, <1>5, <2>1 DEF RequestOK, Forward
  <2>. QED BY <1>1, <1>5, <2>1, <2>2 DEF RequestOK, Forward
<1>. QED BY <1>3, <1>4, <1>5 DEF RequestOK

\* To keep the invariant it is enough to look at the request that moved, at the
\* row that appeared and at what the users were told.
LEMMA Combine ==
  ASSUME IInv, TypeOK', Forward,
         \A r \in Request : req'[r] = req[r] \/ RequestOK(req[r])',
         \A s \in Session : refreshTokens[s] = "none" /\ refreshTokens'[s] # "none"
                             => ~Undecided(s[1]) /\ s[2] <= now,
         RotationOrder', ToldOnlyDecisions'
  PROVE  IInv'
<1>1. \A r \in Request : RequestOK(req[r])'
  BY RequestsKept DEF IInv
<1>2. RowsArePast'
  <2>. SUFFICES ASSUME NEW s \in Session, refreshTokens'[s] # "none" PROVE s[2] <= now'
    BY DEF RowsArePast
  <2>1. s[2] \in Int /\ now \in Int /\ now' \in Int
    BY IdentityAssumption DEF IInv, TypeOK, Time, Session
  <2>2. s[2] <= now
    BY DEF IInv, RowsArePast
  <2>. QED BY <2>1, <2>2 DEF Forward
<1>3. UndecidedHasNoSession'
  <2>. SUFFICES ASSUME NEW u \in User, Undecided(u)'
                PROVE  /\ \A s \in Session : s[1] = u => refreshTokens'[s] = "none"
                       /\ \A r \in Request : req'[r].user = u =>
                                              req'[r].op \notin {"login", "refresh"}
    BY DEF UndecidedHasNoSession
  <2>1. Undecided(u)
    BY DEF Forward
  <2>2. \A s \in Session : s[1] = u => refreshTokens'[s] = "none"
    BY <2>1 DEF IInv, UndecidedHasNoSession
  <2>3. \A r \in Request : req'[r].user = u => req'[r].op \notin {"login", "refresh"}
    BY <1>1 DEF RequestOK
  <2>. QED BY <2>2, <2>3
<1>. QED BY <1>1, <1>2, <1>3 DEF IInv

\* What a step does to the requests: the one that moved is fine afterwards.
OthersKept == \A r \in Request : req'[r] = req[r] \/ RequestOK(req[r])'

LEMMA Finished ==
  ASSUME TypeOK, NEW r \in Request, Finish(r)
  PROVE  OthersKept
<1>1. req'[r] = Idle /\ \A q \in Request \ {r} : req'[q] = req[q]
  BY DEF TypeOK, Finish
<1>2. req'[r].pc = "idle" /\ req'[r].op = "none"
  BY <1>1 DEF Idle
<1>. QED BY <1>1, <1>2 DEF OthersKept, RequestOK

LEMMA Moved ==
  ASSUME TypeOK, NEW r \in Request, NEW pc \in Pc \ {"issue", "notify"},
         req[r].op \notin {"login", "refresh"}, Goto(r, pc)
  PROVE  OthersKept
<1>1. /\ req'[r] = [req[r] EXCEPT !.pc = pc]
      /\ \A q \in Request \ {r} : req'[q] = req[q]
  BY DEF TypeOK, Goto
<1>2. req'[r].pc = pc /\ req'[r].op = req[r].op
  BY <1>1 DEF TypeOK, Call
<1>. QED BY <1>1, <1>2 DEF OthersKept, RequestOK

LEMMA Proceeded ==
  ASSUME TypeOK, NEW r \in Request, NEW ok, NEW pc \in Pc \ {"issue", "notify"},
         req[r].op \notin {"login", "refresh"}, Proceed(r, ok, pc)
  PROVE  OthersKept
BY Finished, Moved DEF Proceed

LEMMA RequestsStep ==
  ASSUME IInv, TypeOK', OnlyRequests, OthersKept
  PROVE  IInv'
<1>1. Forward
  <2>1. now \in Int BY IdentityAssumption DEF IInv, TypeOK, Time
  <2>. QED BY <2>1 DEF OnlyRequests, accounts, sessions, Forward, Undecided
<1>2. RotationOrder' /\ ToldOnlyDecisions'
  BY DEF IInv, RotationOrder, ToldOnlyDecisions, OnlyRequests, accounts, sessions, records,
         Undecided
<1>. QED BY <1>1, <1>2, Combine DEF OnlyRequests, sessions, OthersKept

LEMMA UsersStep ==
  ASSUME IInv, TypeOK', OnlyUsers, OthersKept,
         \A u \in User : ~Undecided(u) => (~Undecided(u))'
  PROVE  IInv'
<1>1. Forward
  <2>1. now \in Int BY IdentityAssumption DEF IInv, TypeOK, Time
  <2>. QED BY <2>1 DEF OnlyUsers, sessions, Forward
<1>2. RotationOrder' /\ ToldOnlyDecisions'
  BY DEF IInv, RotationOrder, ToldOnlyDecisions, OnlyUsers, sessions, records
<1>. QED BY <1>1, <1>2, Combine DEF OnlyUsers, sessions, OthersKept

LEMMA ArriveKept ==
  ASSUME IInv, TypeOK', NEW r \in Request, Arrive(r)
  PROVE  IInv'
<1>. USE DEF IInv
<1>1. ASSUME NEW call, Begin(r, call), OnlyRequests,
             call.pc \notin {"issue", "notify"}, call.op \notin {"login", "refresh"}
      PROVE  IInv'
  <2>1. req'[r] = call /\ \A q \in Request \ {r} : req'[q] = req[q]
    BY <1>1 DEF TypeOK, Begin
  <2>. QED BY <1>1, <2>1, RequestsStep DEF OthersKept, RequestOK
<1>2. ASSUME NEW u \in User, SignupRead(r, u) PROVE IInv'
  BY <1>1, <1>2 DEF SignupRead, Idle
<1>3. ASSUME NEW u \in User, LoginRead(r, u) PROVE IInv'
  <2>1. /\ req'[r].op = "login" /\ req'[r].pc = "issue" /\ req'[r].user = u
        /\ req'[r].tok = NoSession
        /\ \A q \in Request \ {r} : req'[q] = req[q]
    BY <1>3 DEF LoginRead, Begin, TypeOK, Idle
  <2>2. (~Undecided(u))'
    BY <1>3 DEF LoginRead, Undecided, OnlyRequests, accounts
  <2>. QED BY <1>3, <2>1, <2>2, RequestsStep DEF OthersKept, RequestOK, LoginRead
<1>4. ASSUME NEW s \in Session, RefreshValidate(r, s) PROVE IInv'
  <2>1. /\ req'[r].op = "refresh" /\ req'[r].pc = "revokeOld" /\ req'[r].user = s[1]
        /\ req'[r].tok = s
        /\ \A q \in Request \ {r} : req'[q] = req[q]
    BY <1>4 DEF RefreshValidate, Begin, TypeOK, Idle
  <2>2. refreshTokens[s] = "live" /\ s[2] <= now /\ s[1] \in User
    BY <1>4 DEF RefreshValidate, RowsArePast, Session
  <2>3. ~Undecided(s[1])
    BY <2>2 DEF UndecidedHasNoSession
  <2>. QED BY <1>4, <2>1, <2>2, <2>3, RequestsStep
           DEF OthersKept, RequestOK, RefreshValidate, OnlyRequests, accounts, sessions,
               Undecided
<1>5. ASSUME NEW s \in Session, EnterLogout(r, s) PROVE IInv'
  BY <1>1, <1>5 DEF EnterLogout, Idle
<1>6. ASSUME NEW s \in Session, NEW p, EnterChangePassword(r, s, p) PROVE IInv'
  BY <1>1, <1>6 DEF EnterChangePassword, Idle
<1>7. ASSUME NEW s \in Session, NEW op \in AdminOps, NEW u, NEW role, NEW team,
             EnterAdmin(r, s, op, u, role, team)
      PROVE  IInv'
  BY <1>1, <1>7 DEF EnterAdmin, Idle, AdminOps
<1>8. {"approveUser", "updateUserRole", "updateUserTeam", "rejectUser",
       "deactivateUser", "activateUser"} \subseteq AdminOps
  BY DEF AdminOps
<1>. QED BY <1>2, <1>3, <1>4, <1>5, <1>6, <1>7, <1>8 DEF Arrive

LEMMA HandleKept ==
  ASSUME IInv, TypeOK', NEW r \in Request, Handle(r)
  PROVE  IInv'
<1>. USE DEF IInv
<1>0. /\ req[r].pc # "idle" => req[r].user \in User
      /\ RequestOK(req[r])
      /\ req[r].pc \in {"create", "revokeOne", "read", "checkTeam", "write", "revokeAll",
                        "notify", "audit"}
           => req[r].op \notin {"login", "refresh"}
  BY DEF TypeOK, RequestOK
<1>p. {"reload", "write", "revokeAll", "checkTeam", "audit"} \subseteq Pc \ {"issue", "notify"}
  BY DEF Pc
<1>1. CASE SignupCreate(r)
  <2>1. req[r].user \in User BY <1>0, <1>1 DEF SignupCreate, At
  <2>2. \A u \in User : ~Undecided(u) => (~Undecided(u))'
    BY <1>1, <2>1 DEF SignupCreate, TypeOK, Undecided
  <2>. QED BY <1>1, <2>2, Finished, UsersStep DEF SignupCreate
<1>2. CASE GenerateTokens(r)
  <2>. DEFINE s0 == <<req[r].user, now>>
  <2>1. /\ req[r].user \in User /\ s0 \in Session /\ now \in Int
        /\ ~Undecided(req[r].user)
        /\ s0[1] = req[r].user /\ s0[2] = now
    BY <1>0, <1>2, IdentityAssumption DEF GenerateTokens, RequestOK, Session, TypeOK, Time
  <2>2. OthersKept
    BY <1>2, Finished DEF GenerateTokens
  <2>3. CASE refreshTokens[s0] # "none"
    <3>1. OnlyRequests BY <1>2, <2>3 DEF GenerateTokens, OnlyRequests
    <3>. QED BY <2>2, <3>1, RequestsStep
  <2>4. CASE refreshTokens[s0] = "none"
    <3>1. /\ refreshTokens' = [refreshTokens EXCEPT ![s0] = "live"]
          /\ origin' = [origin EXCEPT ![s0] = [pw |-> req[r].pw, parent |-> req[r].tok]]
          /\ UNCHANGED <<accounts, now, records>>
      BY <1>2, <2>4 DEF GenerateTokens
    <3>2. \A s \in Session : s # s0 => /\ refreshTokens'[s] = refreshTokens[s]
                                       /\ origin'[s] = origin[s]
      BY <3>1 DEF TypeOK
    <3>3. refreshTokens'[s0] = "live" /\ origin'[s0].parent = req[r].tok
      BY <2>1, <3>1 DEF TypeOK
    <3>4. Forward
      BY <2>1, <2>4, <3>1, <3>2, <3>3 DEF Forward, accounts, Undecided
    <3>5. \A s \in Session : refreshTokens[s] = "none" /\ refreshTokens'[s] # "none"
                             => ~Undecided(s[1]) /\ s[2] <= now
      BY <2>1, <3>2
    <3>6. ToldOnlyDecisions'
      BY <3>1 DEF ToldOnlyDecisions, accounts, records, Undecided
    <3>7. RotationOrder'
      <4>1. ASSUME NEW s \in Session, s # s0, origin[s].parent # NoSession
            PROVE  refreshTokens'[origin[s].parent] = "revoked"
        <5>1. origin[s].parent \in Session BY <4>1 DEF TypeOK, SessionOrNone
        <5>. QED BY <2>4, <3>2, <4>1, <5>1 DEF RotationOrder
      <4>2. CASE req[r].op = "login"
        <5>1. origin'[s0].parent = NoSession BY <1>0, <3>3, <4>2 DEF RequestOK
        <5>. QED BY <3>2, <4>1, <5>1 DEF RotationOrder
      <4>3. CASE req[r].op = "refresh"
        <5>. DEFINE p == req[r].tok
        <5>1. /\ p \in Session /\ p[1] = req[r].user /\ p[2] <= now
              /\ refreshTokens[p] = "revoked"
          BY <1>0, <1>2, <4>3 DEF RequestOK, GenerateTokens
        <5>2. p # s0
          BY <2>4, <5>1
        <5>3. p[2] # now
          BY <2>1, <5>1, <5>2 DEF Session
        <5>4. p[2] \in Int
          BY <5>1, IdentityAssumption DEF Session, Time
        <5>5. /\ refreshTokens'[p] = "revoked"
              /\ p[1] = s0[1] /\ p[2] < s0[2]
          BY <2>1, <3>2, <5>1, <5>2, <5>3, <5>4
        <5>. QED BY <3>2, <3>3, <4>1, <5>5 DEF RotationOrder
      <4>. QED BY <1>0, <1>2, <4>2, <4>3 DEF RequestOK, GenerateTokens
    <3>. QED BY <2>2, <3>4, <3>5, <3>6, <3>7, Combine DEF OthersKept
  <2>. QED BY <2>3, <2>4
<1>. DEFINE Revokes == /\ UNCHANGED <<accounts, now, records, origin>>
                       /\ \A s \in Session : \/ refreshTokens'[s] = refreshTokens[s]
                                             \/ /\ refreshTokens[s] # "none"
                                               /\ refreshTokens'[s] = "revoked"
<1>r. ASSUME Revokes, OthersKept PROVE IInv'
  <2>1. Forward
    <3>1. now \in Int BY IdentityAssumption DEF TypeOK, Time
    <3>. QED BY <1>r, <3>1 DEF Forward, accounts, Undecided
  <2>2. ToldOnlyDecisions'
    BY <1>r DEF ToldOnlyDecisions, accounts, records, Undecided
  <2>3. RotationOrder'
    <3>. SUFFICES ASSUME NEW s \in Session, origin[s].parent # NoSession
                  PROVE  /\ refreshTokens'[origin[s].parent] = "revoked"
                         /\ origin[s].parent[1] = s[1]
                         /\ origin[s].parent[2] < s[2]
      BY <1>r DEF RotationOrder
    <3>1. origin[s].parent \in Session BY DEF TypeOK, SessionOrNone
    <3>. QED BY <1>r, <3>1 DEF RotationOrder
  <2>. QED BY <1>r, <2>1, <2>2, <2>3, Combine DEF OthersKept
<1>3. CASE RefreshRevokeOld(r)
  <2>1. /\ req[r].tok \in Session /\ refreshTokens[req[r].tok] # "none"
        /\ req[r].tok[1] = req[r].user /\ req[r].tok[2] <= now
        /\ ~Undecided(req[r].user)
    BY <1>0, <1>3 DEF RefreshRevokeOld, At, RequestOK
  <2>2. Revokes
    BY <1>3, <2>1 DEF RefreshRevokeOld, TypeOK
  <2>3. OthersKept
    <3>1. /\ req'[r] = [req[r] EXCEPT !.pc = "reload"]
          /\ \A q \in Request \ {r} : req'[q] = req[q]
      BY <1>3 DEF RefreshRevokeOld, Goto, TypeOK
    <3>2. /\ req'[r].pc = "reload" /\ req'[r].op = "refresh"
          /\ req'[r].tok = req[r].tok /\ req'[r].user = req[r].user
      BY <1>3, <3>1 DEF RefreshRevokeOld, At, TypeOK, Call
    <3>3. refreshTokens'[req[r].tok] = "revoked" /\ now' = now /\ users' = users
      BY <1>3, <2>1 DEF RefreshRevokeOld, TypeOK, accounts
    <3>4. (~Undecided(req[r].user))'
      BY <2>1, <3>2, <3>3 DEF Undecided
    <3>5. RequestOK(req[r])'
      BY <2>1, <3>2, <3>3, <3>4 DEF RequestOK
    <3>. QED BY <3>1, <3>5 DEF OthersKept
  <2>. QED BY <1>r, <2>2, <2>3
<1>4. CASE RefreshReload(r)
  <2>1. CASE Finish(r)
    BY <1>4, <2>1, Finished, RequestsStep DEF RefreshReload
  <2>2. CASE Goto(r, "issue")
    <3>1. /\ req'[r] = [req[r] EXCEPT !.pc = "issue"]
          /\ \A q \in Request \ {r} : req'[q] = req[q]
      BY <2>2 DEF Goto, TypeOK
    <3>2. /\ req'[r].pc = "issue" /\ req'[r].op = "refresh"
          /\ req'[r].tok = req[r].tok /\ req'[r].user = req[r].user
      BY <1>4, <3>1 DEF RefreshReload, At, TypeOK, Call
    <3>3. /\ req[r].tok \in Session /\ refreshTokens[req[r].tok] = "revoked"
          /\ req[r].tok[1] = req[r].user /\ req[r].tok[2] <= now
          /\ ~Undecided(req[r].user)
      BY <1>0, <1>4 DEF RefreshReload, At, RequestOK
    <3>4. users' = users /\ refreshTokens' = refreshTokens /\ now' = now
      BY <1>4 DEF RefreshReload, OnlyRequests, accounts, sessions
    <3>5. (~Undecided(req[r].user))'
      BY <3>2, <3>3, <3>4 DEF Undecided
    <3>6. RequestOK(req[r])'
      BY <3>2, <3>3, <3>4, <3>5 DEF RequestOK
    <3>7. OthersKept
      BY <3>1, <3>6 DEF OthersKept
    <3>. QED BY <1>4, <3>7, RequestsStep DEF RefreshReload
  <2>. QED BY <1>4, <2>1, <2>2 DEF RefreshReload, Proceed
<1>5. CASE LogoutRevoke(r) \/ ChangePasswordRevoke(r) \/ DeactivateRevoke(r)
  <2>1. Revokes
    BY <1>5 DEF LogoutRevoke, ChangePasswordRevoke, DeactivateRevoke, RevokeAll, Revoked
  <2>2. OthersKept
    BY <1>5, Finished DEF LogoutRevoke, ChangePasswordRevoke, DeactivateRevoke, RevokeAll
  <2>. QED BY <1>r, <2>1, <2>2
<1>6. CASE \/ ChangePasswordRead(r)
           \/ ApproveRead(r) \/ RejectRead(r) \/ UpdateRoleRead(r) \/ UpdateTeamRead(r)
           \/ DeactivateRead(r) \/ ActivateRead(r) \/ CheckTeam(r)
  <2>1. AskedTeam(r) \in {"write", "checkTeam"} BY DEF AskedTeam
  <2>. QED BY <1>0, <1>p, <1>6, <2>1, Proceeded, RequestsStep
           DEF ChangePasswordRead, ApproveRead, RejectRead, UpdateRoleRead, UpdateTeamRead,
               DeactivateRead, ActivateRead, CheckTeam, At
<1>7. CASE ChangePasswordWrite(r)
  <2>1. \A u \in User : ~Undecided(u) => (~Undecided(u))'
    <3>1. req[r].user \in User
      BY <1>0, <1>7 DEF ChangePasswordWrite, At
    <3>2. [users[req[r].user] EXCEPT !.pw = @ + 1].status = users[req[r].user].status
      BY <3>1 DEF TypeOK, Account
    <3>3. \A u \in User : users'[u].status = users[u].status
      BY <1>7, <3>1, <3>2 DEF ChangePasswordWrite, TypeOK
    <3>. QED BY <3>3 DEF Undecided
  <2>. QED BY <1>0, <1>p, <1>7, <2>1, Moved, UsersStep DEF ChangePasswordWrite, At
<1>8. CASE ApproveWrite(r) \/ RejectWrite(r)
  <2>1. req[r].user \in User /\ OnlyUsers
    BY <1>0, <1>8 DEF ApproveWrite, RejectWrite, At
  <2>2. \/ users' = users /\ Finish(r)
        \/ /\ users'[req[r].user].status \in {"ACTIVE", "INACTIVE"}
           /\ \A u \in User : u # req[r].user => users'[u] = users[u]
           /\ Goto(r, "notify")
    <3>1. \A st, ro, te :
            /\ [users[req[r].user] EXCEPT !.status = st].status = st
            /\ [users[req[r].user] EXCEPT !.status = st, !.role = ro, !.team = te].status = st
      BY <2>1 DEF TypeOK, Account
    <3>2. CASE ApproveWrite(r)
      <4>1. CASE TeamValid(r)
        BY <2>1, <3>1, <3>2, <4>1 DEF ApproveWrite, Proceed, TypeOK
      <4>2. CASE ~TeamValid(r)
        BY <3>2, <4>2 DEF ApproveWrite, Proceed
      <4>. QED BY <4>1, <4>2
    <3>3. CASE RejectWrite(r)
      BY <2>1, <3>1, <3>3 DEF RejectWrite, TypeOK
    <3>. QED BY <1>8, <3>2, <3>3
  <2>3. \A u \in User : ~Undecided(u) => (~Undecided(u))'
    BY <2>1, <2>2 DEF Undecided
  <2>4. CASE Finish(r)
    BY <2>1, <2>3, <2>4, Finished, UsersStep
  <2>5. CASE Goto(r, "notify") /\ users'[req[r].user].status \in {"ACTIVE", "INACTIVE"}
    <3>1. /\ req'[r] = [req[r] EXCEPT !.pc = "notify"]
          /\ \A q \in Request \ {r} : req'[q] = req[q]
      BY <2>5 DEF Goto, TypeOK
    <3>2. /\ req'[r].pc = "notify" /\ req'[r].op = req[r].op
          /\ req'[r].user = req[r].user
      BY <3>1 DEF TypeOK, Call
    <3>3. OthersKept
      BY <1>0, <1>8, <2>5, <3>1, <3>2
         DEF OthersKept, RequestOK, Undecided, ApproveWrite, RejectWrite, At
    <3>. QED BY <2>1, <2>3, <3>3, UsersStep
  <2>. QED BY <2>2, <2>4, <2>5
<1>9. CASE UpdateRoleWrite(r) \/ UpdateTeamWrite(r)
  <2>1. req[r].user \in User /\ OnlyUsers
    BY <1>0, <1>9 DEF UpdateRoleWrite, UpdateTeamWrite, At
  <2>2. \A u \in User : users'[u].status = users[u].status
    <3>1. \A ro, te :
            /\ [users[req[r].user] EXCEPT !.role = ro].status = users[req[r].user].status
            /\ [users[req[r].user] EXCEPT !.team = te].status = users[req[r].user].status
      BY <2>1 DEF TypeOK, Account
    <3>2. CASE UpdateRoleWrite(r)
      BY <2>1, <3>1, <3>2 DEF UpdateRoleWrite, TypeOK
    <3>3. CASE UpdateTeamWrite(r)
      BY <2>1, <3>1, <3>3 DEF UpdateTeamWrite, TypeOK
    <3>. QED BY <1>9, <3>2, <3>3
  <2>3. OthersKept
    BY <1>0, <1>p, <1>9, Moved, Proceeded DEF UpdateRoleWrite, UpdateTeamWrite, At
  <2>. QED BY <2>1, <2>2, <2>3, UsersStep DEF Undecided
<1>10. CASE DeactivateWrite(r) \/ ActivateWrite(r)
  <2>1. req[r].user \in User /\ OnlyUsers
    BY <1>0, <1>10 DEF DeactivateWrite, ActivateWrite, At
  <2>2. \A u \in User : \/ users'[u] = users[u]
                        \/ users'[u].status \in {"ACTIVE", "INACTIVE"}
    BY <1>10, <2>1 DEF DeactivateWrite, ActivateWrite, TypeOK, Account
  <2>3. OthersKept
    BY <1>0, <1>p, <1>10, Moved, Finished DEF DeactivateWrite, ActivateWrite, At
  <2>. QED BY <2>1, <2>2, <2>3, UsersStep DEF Undecided
<1>11. CASE NotifyDecision(r)
  <2>1. req[r].user \in User /\ ~Undecided(req[r].user)
    BY <1>0, <1>11 DEF NotifyDecision, RequestOK
  <2>2. OthersKept
    BY <1>0, <1>p, <1>11, Moved DEF NotifyDecision
  <2>3. Forward
    <3>1. now \in Int BY IdentityAssumption DEF TypeOK, Time
    <3>. QED BY <1>11, <3>1 DEF NotifyDecision, Forward, accounts, sessions, Undecided
  <2>4. ToldOnlyDecisions'
    <3>1. \A u \in User : u # req[r].user => inbox'[u] = inbox[u]
      BY <1>11 DEF NotifyDecision, TypeOK
    <3>. QED BY <1>11, <2>1, <3>1 DEF NotifyDecision, ToldOnlyDecisions, accounts, Undecided
  <2>5. RotationOrder'
    BY <1>11 DEF NotifyDecision, RotationOrder, sessions
  <2>6. refreshTokens' = refreshTokens
    BY <1>11 DEF NotifyDecision, sessions
  <2>. QED BY <2>2, <2>3, <2>4, <2>5, <2>6, Combine DEF OthersKept
<1>12. CASE AuditLog(r)
  <2>1. OthersKept
    BY <1>12, Finished DEF AuditLog
  <2>2. Forward
    <3>1. now \in Int BY IdentityAssumption DEF TypeOK, Time
    <3>. QED BY <1>12, <3>1 DEF AuditLog, Forward, accounts, sessions, Undecided
  <2>3. RotationOrder' /\ ToldOnlyDecisions' /\ refreshTokens' = refreshTokens
    BY <1>12 DEF AuditLog, RotationOrder, ToldOnlyDecisions, accounts, sessions, Undecided
  <2>. QED BY <2>1, <2>2, <2>3, Combine DEF OthersKept
<1>. QED BY <1>1, <1>2, <1>3, <1>4, <1>5, <1>6, <1>7, <1>8, <1>9, <1>10, <1>11, <1>12
         DEF Handle

LEMMA InitIInv == Init => IInv
<1>. SUFFICES ASSUME Init PROVE IInv
  OBVIOUS
<1>1. TypeOK
  BY TypeAtInit
<1>2. \A r \in Request : RequestOK(req[r])
  <2>1. \A r \in Request : req[r].pc = "idle" /\ req[r].op = "none"
    BY DEF Init, Idle
  <2>. QED BY <2>1 DEF RequestOK
<1>3. RowsArePast /\ RotationOrder
  BY DEF Init, RowsArePast, RotationOrder
<1>4. UndecidedHasNoSession
  BY DEF Init, UndecidedHasNoSession, Idle
<1>5. ToldOnlyDecisions
  BY DEF Init, ToldOnlyDecisions
<1>. QED BY <1>1, <1>2, <1>3, <1>4, <1>5 DEF IInv

LEMMA NextIInv == IInv /\ [Next]_vars => IInv'
<1>. SUFFICES ASSUME IInv, [Next]_vars PROVE IInv'
  OBVIOUS
<1>. USE DEF IInv
<1>1. TypeOK'
  BY TypeAtNext
<1>2. ASSUME NEW r \in Request, Arrive(r) \/ Handle(r) PROVE IInv'
  BY <1>1, <1>2, ArriveKept, HandleKept
<1>3. CASE Tick
  <2>1. Forward
    <3>1. now \in Int /\ now' = now + 1
      BY <1>3, IdentityAssumption DEF Tick, TypeOK, Time
    <3>. QED BY <1>3, <3>1 DEF Tick, Forward, accounts, sessions, Undecided
  <2>2. /\ RotationOrder' /\ ToldOnlyDecisions'
        /\ refreshTokens' = refreshTokens /\ req' = req
    BY <1>3 DEF Tick, RotationOrder, ToldOnlyDecisions, accounts, sessions, records, Undecided
  <2>. QED BY <1>1, <2>1, <2>2, Combine
<1>4. CASE Crash
  <2>1. \A r \in Request : req'[r].pc = "idle" /\ req'[r].op = "none"
    BY <1>4 DEF Crash, Idle
  <2>. QED BY <1>1, <1>4, <2>1, RequestsStep DEF Crash, OthersKept, RequestOK
<1>5. CASE TeamsWrite
  <2>1. Forward
    <3>1. now \in Int BY IdentityAssumption DEF TypeOK, Time
    <3>. QED BY <1>1, <1>5, <3>1, TeamsWriteTeams DEF Forward, Undecided
  <2>2. /\ RotationOrder' /\ ToldOnlyDecisions'
        /\ refreshTokens' = refreshTokens /\ req' = req
    BY <1>1, <1>5, TeamsWriteTeams DEF RotationOrder, ToldOnlyDecisions, Undecided
  <2>. QED BY <1>1, <2>1, <2>2, Combine
<1>6. CASE UNCHANGED vars
  <2>1. OnlyRequests /\ req' = req
    BY <1>6 DEF vars, OnlyRequests, accounts, sessions, records
  <2>. QED BY <1>1, <2>1, RequestsStep DEF OthersKept
<1>. QED BY <1>2, <1>3, <1>4, <1>5, <1>6 DEF Next, TeamsWrite

\* The strengthening is an invariant: what the proofs about sessions and
\* notices below rest on.
THEOREM Inductive == Spec => []IInv
BY InitIInv, NextIInv, PTL DEF Spec

\* A PENDING account never has a session, not even one in the making: login's
\* check of the status it read is enough, because no handler ever makes a
\* decided account undecided again.
THEOREM NoSessionBeforeDecision == Spec => []UndecidedHasNoSession
<1>1. IInv => UndecidedHasNoSession
  BY DEF IInv
<1>. QED BY <1>1, Inductive, PTL

\* A rotated session always descends from an older, revoked session of its user,
\* with any number of refreshes racing and the process dying between any two
\* of their calls.
THEOREM RotationSound == Spec => []RotationOrder
<1>1. IInv => RotationOrder
  BY DEF IInv
<1>. QED BY <1>1, Inductive, PTL

\* Nobody is told of a decision the user table does not hold.
THEOREM NoticesFollowDecisions == Spec => []ToldOnlyDecisions
<1>1. IInv => ToldOnlyDecisions
  BY DEF IInv
<1>. QED BY <1>1, Inductive, PTL

-----------------------------------------------------------------------------
(* An account only moves forward.                                              *)

OneWay == \A u \in User :
            /\ users[u].status # "ABSENT" => users'[u].status # "ABSENT"
            /\ users[u].status \in {"ACTIVE", "INACTIVE"} => users'[u].status # "PENDING"

\* Only sign-up, the two decisions, deactivation and activation write a status.
LEMMA HandleOneWay ==
  ASSUME TypeOK, NEW r \in Request, Handle(r)
  PROVE  OneWay
<1>. DEFINE v == req[r].user
<1>1. req[r].pc # "idle" => v \in User
  BY DEF TypeOK
<1>2. CASE SignupCreate(r)
  <2>1. v \in User BY <1>1, <1>2 DEF SignupCreate, At
  <2>2. \/ users' = users
        \/ /\ users[v].status = "ABSENT" /\ users'[v].status = "PENDING"
           /\ \A u \in User \ {v} : users'[u] = users[u]
    BY <1>2, <2>1 DEF SignupCreate, TypeOK, Absent
  <2>. QED BY <2>1, <2>2 DEF OneWay
<1>3. CASE \/ GenerateTokens(r) \/ RefreshRevokeOld(r) \/ RefreshReload(r)
           \/ LogoutRevoke(r) \/ ChangePasswordRead(r) \/ ChangePasswordRevoke(r)
           \/ ApproveRead(r) \/ RejectRead(r) \/ UpdateRoleRead(r) \/ UpdateTeamRead(r)
           \/ DeactivateRead(r) \/ ActivateRead(r) \/ CheckTeam(r)
           \/ DeactivateRevoke(r) \/ NotifyDecision(r) \/ AuditLog(r)
  <2>1. users' = users
    BY <1>3
       DEF GenerateTokens, RefreshRevokeOld, RefreshReload, LogoutRevoke,
           ChangePasswordRead, ChangePasswordRevoke, RevokeAll, ApproveRead, RejectRead,
           UpdateRoleRead, UpdateTeamRead, DeactivateRead, ActivateRead, CheckTeam,
           DeactivateRevoke, NotifyDecision, AuditLog, OnlyRequests, accounts
  <2>. QED BY <2>1 DEF OneWay
<1>4. CASE ChangePasswordWrite(r) \/ UpdateRoleWrite(r) \/ UpdateTeamWrite(r)
  <2>1. v \in User BY <1>1, <1>4 DEF ChangePasswordWrite, UpdateRoleWrite, UpdateTeamWrite, At
  <2>2. users[v] \in Account /\ users = [u \in User |-> users[u]]
    BY <2>1 DEF TypeOK
  <2>3. \A u \in User : users'[u].status = users[u].status
    <3>1. CASE ChangePasswordWrite(r)
      BY <2>1, <2>2, <3>1 DEF ChangePasswordWrite, Account
    <3>2. CASE UpdateRoleWrite(r)
      BY <2>1, <2>2, <3>2 DEF UpdateRoleWrite, Account
    <3>3. CASE UpdateTeamWrite(r)
      BY <2>1, <2>2, <3>3 DEF UpdateTeamWrite, Account
    <3>. QED BY <1>4, <3>1, <3>2, <3>3
  <2>. QED BY <2>3 DEF OneWay
<1>5. CASE ApproveWrite(r) \/ RejectWrite(r) \/ DeactivateWrite(r) \/ ActivateWrite(r)
  <2>1. v \in User
    BY <1>1, <1>5 DEF ApproveWrite, RejectWrite, DeactivateWrite, ActivateWrite, At
  <2>2. users[v] \in Account /\ users = [u \in User |-> users[u]]
    BY <2>1 DEF TypeOK
  <2>3. /\ \A u \in User \ {v} : users'[u] = users[u]
        /\ users'[v].status \in {users[v].status, "ACTIVE", "INACTIVE"}
    <3>1. CASE ApproveWrite(r)
      BY <2>1, <2>2, <3>1 DEF ApproveWrite, Account
    <3>2. CASE RejectWrite(r)
      BY <2>1, <2>2, <3>2 DEF RejectWrite, Account
    <3>3. CASE DeactivateWrite(r)
      BY <2>1, <2>2, <3>3 DEF DeactivateWrite, Account
    <3>4. CASE ActivateWrite(r)
      BY <2>1, <2>2, <3>4 DEF ActivateWrite, Account
    <3>. QED BY <1>5, <3>1, <3>2, <3>3, <3>4
  <2>. QED BY <2>1, <2>3 DEF OneWay
<1>. QED BY <1>2, <1>3, <1>4, <1>5 DEF Handle

\* A sign-up, a decision and a deactivation racing in any order never take an
\* account back to PENDING or out of the table.
THEOREM AdmissionSound == Spec => AdmissionOneWay
<1>1. ASSUME TypeOK, [Next]_vars PROVE OneWay
  <2>1. CASE \E r \in Request : Arrive(r)
    <3>1. users' = users
      BY <2>1 DEF Arrive, SignupRead, LoginRead, RefreshValidate, EnterLogout,
                  EnterChangePassword, EnterAdmin, OnlyRequests, accounts
    <3>. QED BY <3>1 DEF OneWay
  <2>2. CASE \E r \in Request : Handle(r)
    BY <1>1, <2>2, HandleOneWay
  <2>3. CASE Tick \/ Crash \/ UNCHANGED vars
    <3>1. users' = users BY <2>3 DEF Tick, Crash, OnlyRequests, accounts, vars
    <3>. QED BY <3>1 DEF OneWay
  <2>4. CASE TeamsWrite
    BY <1>1, <2>4, TeamsWriteTeams DEF OneWay
  <2>. QED BY <1>1, <2>1, <2>2, <2>3, <2>4 DEF Next, TeamsWrite
<1>2. TypeOK /\ [Next]_vars => OneWay
  BY <1>1
<1>. QED BY <1>2, TypeCorrect, PTL DEF Spec, AdmissionOneWay, OneWay

-----------------------------------------------------------------------------
(* The token table is a ledger: refinement of TokenLedger.                     *)

Parents == [s \in Session |-> origin[s].parent]
DecidedUsers == {u \in User : ~Undecided(u)}

LEMMA LedgerRevokes ==
  ASSUME TypeOK, TypeOK',
         UNCHANGED <<users, origin>>,
         \A s \in Session : \/ refreshTokens'[s] = refreshTokens[s]
                            \/ refreshTokens[s] = "live" /\ refreshTokens'[s] = "revoked"
  PROVE  Ledger!Next
<1>. DEFINE S == {s \in Session : refreshTokens'[s] # refreshTokens[s]}
<1>1. \A s \in S : refreshTokens[s] = "live" /\ refreshTokens'[s] = "revoked"
  OBVIOUS
<1>2. refreshTokens' = [s \in Session |-> IF s \in S THEN "revoked" ELSE refreshTokens[s]]
  BY <1>1 DEF TypeOK
<1>3. Parents' = Parents /\ DecidedUsers' = DecidedUsers
  BY DEF Parents, DecidedUsers, Undecided
<1>4. Ledger!Revoke(S)
  BY <1>1, <1>2, <1>3 DEF Ledger!Revoke, Ledger!Session, Session, Time, Parents, DecidedUsers
<1>5. S \in SUBSET Ledger!Session
  BY DEF Ledger!Session, Session, Time
<1>. QED BY <1>4, <1>5 DEF Ledger!Next

LEMMA LedgerStutters ==
  ASSUME TypeOK, TypeOK', UNCHANGED sessions,
         \A u \in User : Undecided(u)' = Undecided(u)
  PROVE  UNCHANGED Ledger!vars
<1>1. refreshTokens' = refreshTokens /\ Parents' = Parents /\ DecidedUsers' = DecidedUsers
  BY DEF sessions, Parents, DecidedUsers
<1>. QED BY <1>1 DEF Ledger!vars, Parents, DecidedUsers

\* The update of one account's status, to ACTIVE or INACTIVE.
LEMMA LedgerDecides ==
  ASSUME TypeOK, TypeOK', UNCHANGED sessions, NEW v \in User,
         users'[v].status \in {"ACTIVE", "INACTIVE"},
         \A u \in User \ {v} : users'[u] = users[u]
  PROVE  Ledger!Next
<1>1. DecidedUsers' = DecidedUsers \union {v}
  BY DEF DecidedUsers, Undecided
<1>2. refreshTokens' = refreshTokens /\ Parents' = Parents
  BY DEF sessions, Parents
<1>3. Ledger!Decide(v)
  BY <1>1, <1>2 DEF Ledger!Decide, Parents, DecidedUsers
<1>. QED BY <1>3 DEF Ledger!Next

LEMMA LedgerGrants ==
  ASSUME IInv, TypeOK', NEW r \in Request, GenerateTokens(r),
         refreshTokens[<<req[r].user, now>>] = "none"
  PROVE  Ledger!Next
<1>. DEFINE s0 == <<req[r].user, now>>
            p == req[r].tok
<1>. USE DEF IInv
<1>1. /\ s0 \in Session /\ s0[1] = req[r].user /\ s0[2] = now
      /\ ~Undecided(req[r].user) /\ req[r].user \in User
      /\ p \in SessionOrNone
  BY IdentityAssumption DEF GenerateTokens, RequestOK, Session, TypeOK, Time, Call
<1>2. p \in Session => /\ refreshTokens[p] = "revoked"
                       /\ p[1] = s0[1]
                       /\ p[2] < s0[2]
  <2>. SUFFICES ASSUME p \in Session PROVE /\ refreshTokens[p] = "revoked"
                                           /\ p[1] = s0[1]
                                           /\ p[2] < s0[2]
    OBVIOUS
  <2>1. req[r].op = "refresh"
    BY IdentityAssumption DEF GenerateTokens, RequestOK
  <2>2. refreshTokens[p] = "revoked" /\ p[1] = req[r].user /\ p[2] <= now
    BY <2>1 DEF GenerateTokens, RequestOK
  <2>3. p # s0
    BY <2>2
  <2>4. p[2] # now
    BY <1>1, <2>2, <2>3 DEF Session
  <2>5. p[2] \in Int /\ now \in Int
    BY IdentityAssumption DEF Session, Time, TypeOK
  <2>. QED BY <1>1, <2>2, <2>4, <2>5
<1>3. /\ refreshTokens' = [refreshTokens EXCEPT ![s0] = "live"]
      /\ origin' = [origin EXCEPT ![s0] = [pw |-> req[r].pw, parent |-> p]]
      /\ users' = users
  BY DEF GenerateTokens, accounts
<1>4. Parents' = [Parents EXCEPT ![s0] = p]
  <2>1. \A s \in Session : origin'[s].parent = IF s = s0 THEN p ELSE origin[s].parent
    BY <1>1, <1>3 DEF TypeOK
  <2>. QED BY <2>1 DEF Parents
<1>5. DecidedUsers' = DecidedUsers /\ s0[1] \in DecidedUsers
  BY <1>1, <1>3 DEF DecidedUsers, Undecided
<1>6. s0 \in Ledger!Session /\ p \in Ledger!Session \union {NoSession}
  BY <1>1 DEF Ledger!Session, Session, SessionOrNone, Time
<1>7. PICK s \in Ledger!Session, q \in Ledger!Session \union {NoSession} : s = s0 /\ q = p
  BY <1>6
<1>8. Ledger!Grant(s, q)
  BY <1>2, <1>3, <1>4, <1>5, <1>7
     DEF Ledger!Grant, Ledger!Session, Session, Time, Parents, DecidedUsers
<1>. QED BY <1>8 DEF Ledger!Next

LEMMA HandleLedger ==
  ASSUME IInv, TypeOK', NEW r \in Request, Handle(r)
  PROVE  Ledger!Next \/ UNCHANGED Ledger!vars
<1>. USE DEF IInv
<1>0. /\ req[r].pc # "idle" => req[r].user \in User
      /\ RequestOK(req[r])
  BY DEF TypeOK
<1>1. CASE SignupCreate(r)
  <2>1. \A u \in User : Undecided(u)' = Undecided(u)
    <3>1. req[r].user \in User BY <1>0, <1>1 DEF SignupCreate, At
    <3>2. \/ users' = users
          \/ /\ users[req[r].user].status = "ABSENT" /\ users'[req[r].user].status = "PENDING"
             /\ \A u \in User \ {req[r].user} : users'[u] = users[u]
      BY <1>1, <3>1 DEF SignupCreate, TypeOK, Absent
    <3>. QED BY <3>2 DEF Undecided
  <2>. QED BY <1>1, <2>1, LedgerStutters DEF SignupCreate, OnlyUsers
<1>2. CASE GenerateTokens(r)
  <2>1. CASE refreshTokens[<<req[r].user, now>>] = "none"
    BY <1>2, <2>1, LedgerGrants
  <2>2. CASE refreshTokens[<<req[r].user, now>>] # "none"
    BY <1>2, <2>2, LedgerStutters DEF GenerateTokens, accounts, Undecided
  <2>. QED BY <2>1, <2>2
<1>3. CASE RefreshRevokeOld(r)
  <2>1. req[r].tok \in Session /\ refreshTokens[req[r].tok] # "none"
    BY <1>0, <1>3 DEF RefreshRevokeOld, At, RequestOK
  <2>2. \A s \in Session : \/ refreshTokens'[s] = refreshTokens[s]
                           \/ refreshTokens[s] = "live" /\ refreshTokens'[s] = "revoked"
    BY <1>3, <2>1 DEF RefreshRevokeOld, TypeOK
  <2>. QED BY <1>3, <2>2, LedgerRevokes DEF RefreshRevokeOld, accounts
<1>4. CASE LogoutRevoke(r) \/ ChangePasswordRevoke(r) \/ DeactivateRevoke(r)
  <2>1. \A s \in Session : \/ refreshTokens'[s] = refreshTokens[s]
                           \/ refreshTokens[s] = "live" /\ refreshTokens'[s] = "revoked"
    BY <1>4 DEF LogoutRevoke, ChangePasswordRevoke, DeactivateRevoke, RevokeAll, Revoked
  <2>. QED BY <1>4, <2>1, LedgerRevokes
           DEF LogoutRevoke, ChangePasswordRevoke, DeactivateRevoke, RevokeAll, accounts
<1>5. CASE \/ RefreshReload(r) \/ ChangePasswordRead(r)
           \/ ApproveRead(r) \/ RejectRead(r) \/ UpdateRoleRead(r) \/ UpdateTeamRead(r)
           \/ DeactivateRead(r) \/ ActivateRead(r) \/ CheckTeam(r)
  <2>1. OnlyRequests
    BY <1>5 DEF RefreshReload, ChangePasswordRead, ApproveRead, RejectRead, UpdateRoleRead,
                UpdateTeamRead, DeactivateRead, ActivateRead, CheckTeam
  <2>. QED BY <2>1, LedgerStutters DEF OnlyRequests, accounts, Undecided
<1>6. CASE NotifyDecision(r) \/ AuditLog(r)
  BY <1>6, LedgerStutters DEF NotifyDecision, AuditLog, accounts, Undecided
<1>7. CASE ChangePasswordWrite(r) \/ UpdateRoleWrite(r) \/ UpdateTeamWrite(r)
  <2>1. req[r].user \in User
    BY <1>0, <1>7 DEF ChangePasswordWrite, UpdateRoleWrite, UpdateTeamWrite, At
  <2>2. LET a == users[req[r].user] IN
        /\ [a EXCEPT !.pw = @ + 1].status = a.status
        /\ \A ro, te : /\ [a EXCEPT !.role = ro].status = a.status
                       /\ [a EXCEPT !.team = te].status = a.status
    BY <2>1 DEF TypeOK, Account
  <2>3. \A u \in User : users'[u].status = users[u].status
    <3>1. CASE ChangePasswordWrite(r)
      BY <2>1, <2>2, <3>1 DEF ChangePasswordWrite, TypeOK
    <3>2. CASE UpdateRoleWrite(r)
      BY <2>1, <2>2, <3>2 DEF UpdateRoleWrite, TypeOK
    <3>3. CASE UpdateTeamWrite(r)
      BY <2>1, <2>2, <3>3 DEF UpdateTeamWrite, TypeOK
    <3>. QED BY <1>7, <3>1, <3>2, <3>3
  <2>4. \A u \in User : Undecided(u)' = Undecided(u)
    BY <2>3 DEF Undecided
  <2>. QED BY <1>7, <2>4, LedgerStutters
           DEF ChangePasswordWrite, UpdateRoleWrite, UpdateTeamWrite, OnlyUsers
<1>8. CASE ApproveWrite(r)
  <2>1. req[r].user \in User BY <1>0, <1>8 DEF ApproveWrite, At
  <2>2. CASE TeamValid(r)
    <3>1. \A st, ro, te : [users[req[r].user] EXCEPT !.status = st, !.role = ro,
                                                     !.team = te].status = st
      BY <2>1 DEF TypeOK, Account
    <3>2. /\ users'[req[r].user].status = "ACTIVE"
          /\ \A u \in User \ {req[r].user} : users'[u] = users[u]
      BY <1>8, <2>1, <2>2, <3>1 DEF ApproveWrite, TypeOK
    <3>. QED BY <1>8, <2>1, <3>2, LedgerDecides DEF ApproveWrite, OnlyUsers
  <2>3. CASE ~TeamValid(r)
    BY <1>8, <2>3, LedgerStutters DEF ApproveWrite, OnlyUsers, Undecided
  <2>. QED BY <2>2, <2>3
<1>9. CASE RejectWrite(r) \/ DeactivateWrite(r) \/ ActivateWrite(r)
  <2>1. req[r].user \in User
    BY <1>0, <1>9 DEF RejectWrite, DeactivateWrite, ActivateWrite, At
  <2>2. \A st : [users[req[r].user] EXCEPT !.status = st].status = st
    BY <2>1 DEF TypeOK, Account
  <2>3. /\ users'[req[r].user].status \in {"ACTIVE", "INACTIVE"}
        /\ \A u \in User \ {req[r].user} : users'[u] = users[u]
    BY <1>9, <2>1, <2>2 DEF RejectWrite, DeactivateWrite, ActivateWrite, TypeOK
  <2>. QED BY <1>9, <2>1, <2>3, LedgerDecides
           DEF RejectWrite, DeactivateWrite, ActivateWrite, OnlyUsers
<1>. QED BY <1>1, <1>2, <1>3, <1>4, <1>5, <1>6, <1>7, <1>8, <1>9 DEF Handle

\* The refresh-token table behaves as a ledger: every token is granted at most
\* once and only to a decided account, revocation is for good, and rotation goes
\* from a revoked token to a younger one of the same account.
THEOREM LedgerImplemented == Spec => ImplementsLedger
<1>1. Init => Ledger!Init
  <2>. SUFFICES ASSUME Init PROVE Ledger!Init
    OBVIOUS
  <2>1. [s \in Session |-> origin[s].parent] = [s \in Session |-> NoSession]
    BY DEF Init
  <2>. QED BY <2>1 DEF Init, Ledger!Init, Ledger!Session, Session, Time
<1>2. IInv /\ IInv' /\ [Next]_vars => [Ledger!Next]_(Ledger!vars)
  <2>. SUFFICES ASSUME IInv, IInv', [Next]_vars
                PROVE  Ledger!Next \/ UNCHANGED Ledger!vars
    BY DEF Ledger!vars
  <2>. USE DEF IInv
  <2>1. ASSUME NEW r \in Request, Handle(r) PROVE Ledger!Next \/ UNCHANGED Ledger!vars
    BY <2>1, HandleLedger
  <2>2. ASSUME NEW r \in Request, Arrive(r) PROVE UNCHANGED Ledger!vars
    <3>1. OnlyRequests
      BY <2>2 DEF Arrive, SignupRead, LoginRead, RefreshValidate, EnterLogout,
                  EnterChangePassword, EnterAdmin
    <3>. QED BY <3>1, LedgerStutters DEF OnlyRequests, accounts, Undecided
  <2>3. CASE Tick \/ Crash
    BY <2>3, LedgerStutters DEF Tick, Crash, OnlyRequests, accounts, Undecided
  <2>4. CASE TeamsWrite
    <3>1. /\ UNCHANGED <<refreshTokens, origin>>
          /\ \A u \in User : users'[u].status = users[u].status
      BY <2>4, TeamsWriteTeams
    <3>. QED BY <3>1, LedgerStutters DEF sessions, Undecided
  <2>5. CASE UNCHANGED vars
    BY <2>5, LedgerStutters DEF vars, sessions, Undecided
  <2>. QED BY <2>1, <2>2, <2>3, <2>4, <2>5 DEF Next, TeamsWrite
<1>. QED BY <1>1, <1>2, Inductive, PTL DEF Spec, ImplementsLedger, Ledger!Spec

-----------------------------------------------------------------------------
(* What holds when requests about one account do not overlap.  The handlers   *)
(* check, then act, with nothing in between to keep others out, so each of    *)
(* these needs its own pair of requests kept apart, and no more than that;    *)
(* those that end with nothing in flight need that no request is cut short.   *)

Issues(q) == q.op \in {"login", "refresh"}

\* A step of a request leaves the others alone, and keeps what it was called with.
LEMMA HandleMoves ==
  ASSUME TypeOK, NEW r \in Request, Handle(r)
  PROVE  /\ \A q \in Request \ {r} : req'[q] = req[q]
         /\ \/ req'[r] = Idle
            \/ /\ req'[r].op = req[r].op /\ req'[r].user = req[r].user /\ req'[r].tok = req[r].tok
               /\ req'[r].pw = req[r].pw /\ req'[r].role = req[r].role /\ req'[r].team = req[r].team
<1>1. Finish(r) \/ \E pc : Goto(r, pc)
  BY DEF Handle, SignupCreate, GenerateTokens, RefreshRevokeOld, RefreshReload, LogoutRevoke, ChangePasswordRead,
         ChangePasswordWrite, ChangePasswordRevoke, ApproveRead, RejectRead, UpdateRoleRead, UpdateTeamRead,
         DeactivateRead, ActivateRead, CheckTeam, ApproveWrite, RejectWrite, UpdateRoleWrite, UpdateTeamWrite,
         DeactivateWrite, DeactivateRevoke, ActivateWrite, NotifyDecision, AuditLog, RevokeAll, Proceed
<1>2. CASE Finish(r)
  BY <1>2 DEF Finish, TypeOK
<1>3. ASSUME NEW pc, Goto(r, pc)
      PROVE  /\ \A q \in Request \ {r} : req'[q] = req[q]
             /\ /\ req'[r].op = req[r].op /\ req'[r].user = req[r].user /\ req'[r].tok = req[r].tok
                /\ req'[r].pw = req[r].pw /\ req'[r].role = req[r].role /\ req'[r].team = req[r].team
  <2>1. req'[r] = [req[r] EXCEPT !.pc = pc] /\ \A q \in Request \ {r} : req'[q] = req[q]
    BY <1>3 DEF Goto, TypeOK
  <2> QED BY <2>1 DEF TypeOK, Call
<1> QED BY <1>1, <1>2, <1>3

\* Which calls change a password, end an account, make a session.
LEMMA HandleRows ==
  ASSUME TypeOK, NEW r \in Request, Handle(r)
  PROVE  /\ ChangePasswordWrite(r) \/ \A u \in User : ~Undecided(u) => users'[u].pw = users[u].pw
         /\ \/ RejectWrite(r) \/ DeactivateWrite(r)
            \/ \A u \in User : users'[u].status = "INACTIVE" => users[u].status = "INACTIVE"
         /\ \/ GenerateTokens(r)
            \/ origin' = origin /\ \A s \in Session : refreshTokens'[s] = "live" => refreshTokens[s] = "live"
<1> DEFINE v == req[r].user
           Goal == /\ ChangePasswordWrite(r) \/ \A u \in User : ~Undecided(u) => users'[u].pw = users[u].pw
                   /\ \/ RejectWrite(r) \/ DeactivateWrite(r)
                      \/ \A u \in User : users'[u].status = "INACTIVE" => users[u].status = "INACTIVE"
                   /\ \/ GenerateTokens(r)
                      \/ /\ origin' = origin
                         /\ \A s \in Session : refreshTokens'[s] = "live" => refreshTokens[s] = "live"
<1>0. req[r].pc # "idle" => v \in User /\ users[v] \in Account
  BY DEF TypeOK
<1>1. CASE \/ RefreshReload(r) \/ ChangePasswordRead(r) \/ ApproveRead(r) \/ RejectRead(r) \/ UpdateRoleRead(r)
           \/ UpdateTeamRead(r) \/ DeactivateRead(r) \/ ActivateRead(r) \/ CheckTeam(r)
           \/ NotifyDecision(r) \/ AuditLog(r)
  <2>1. UNCHANGED <<users, sessions>>
    BY <1>1 DEF RefreshReload, ChangePasswordRead, ApproveRead, RejectRead, UpdateRoleRead, UpdateTeamRead,
                DeactivateRead, ActivateRead, CheckTeam, NotifyDecision, AuditLog, OnlyRequests, accounts
  <2> QED BY <2>1 DEF sessions
<1>2. CASE GenerateTokens(r)
  BY <1>2 DEF GenerateTokens, accounts
<1>3. CASE RefreshRevokeOld(r) \/ LogoutRevoke(r) \/ ChangePasswordRevoke(r) \/ DeactivateRevoke(r)
  <2>1. UNCHANGED <<users, origin>>
    BY <1>3 DEF RefreshRevokeOld, LogoutRevoke, ChangePasswordRevoke, DeactivateRevoke, RevokeAll, accounts
  <2>2. \A s \in Session : refreshTokens'[s] = "live" => refreshTokens[s] = "live"
    BY <1>3 DEF RefreshRevokeOld, LogoutRevoke, ChangePasswordRevoke, DeactivateRevoke, RevokeAll, Revoked, TypeOK
  <2> QED BY <2>1, <2>2
<1>4. ASSUME NEW st, NEW ro, NEW te, NEW k, v \in User
      PROVE  LET a == users[v]
             IN /\ [a EXCEPT !.status = st].pw = a.pw /\ [a EXCEPT !.status = st].status = st
                /\ [a EXCEPT !.role = ro].pw = a.pw /\ [a EXCEPT !.role = ro].status = a.status
                /\ [a EXCEPT !.team = te].pw = a.pw /\ [a EXCEPT !.team = te].status = a.status
                /\ [a EXCEPT !.status = st, !.role = ro, !.team = te].pw = a.pw
                /\ [a EXCEPT !.status = st, !.role = ro, !.team = te].status = st
                /\ [a EXCEPT !.pw = k].status = a.status
  BY <1>0, <1>4 DEF TypeOK, Account
<1>5. CASE OnlyUsers /\ v \in User /\ Handle(r)
  <2>1. UNCHANGED sessions /\ users \in [User -> Account]
    BY <1>5 DEF OnlyUsers, TypeOK
  <2>2. CASE SignupCreate(r)
    <3>1. users' = users \/ (users[v].status = "ABSENT" /\ users' = [users EXCEPT ![v] = [Absent EXCEPT !.status = "PENDING"]])
      BY <2>2 DEF SignupCreate
    <3>2. [Absent EXCEPT !.status = "PENDING"].status = "PENDING"
      BY DEF Absent
    <3> QED BY <1>5, <2>1, <3>1, <3>2 DEF sessions, Undecided
  <2>3. CASE ChangePasswordWrite(r)
    BY <1>4, <1>5, <2>1, <2>3 DEF ChangePasswordWrite, sessions
  <2>4. CASE ApproveWrite(r)
    BY <1>4, <1>5, <2>1, <2>4 DEF ApproveWrite, sessions
  <2>5. CASE RejectWrite(r)
    BY <1>4, <1>5, <2>1, <2>5 DEF RejectWrite, sessions
  <2>6. CASE UpdateRoleWrite(r)
    BY <1>4, <1>5, <2>1, <2>6 DEF UpdateRoleWrite, sessions
  <2>7. CASE UpdateTeamWrite(r)
    BY <1>4, <1>5, <2>1, <2>7 DEF UpdateTeamWrite, sessions
  <2>8. CASE DeactivateWrite(r)
    BY <1>4, <1>5, <2>1, <2>8 DEF DeactivateWrite, sessions
  <2>9. CASE ActivateWrite(r)
    BY <1>4, <1>5, <2>1, <2>9 DEF ActivateWrite, sessions
  <2> QED BY <1>1, <1>2, <1>3, <1>5, <2>2, <2>3, <2>4, <2>5, <2>6, <2>7, <2>8, <2>9 DEF Handle
<1>6. CASE \/ SignupCreate(r) \/ ChangePasswordWrite(r) \/ ApproveWrite(r) \/ RejectWrite(r) \/ UpdateRoleWrite(r)
           \/ UpdateTeamWrite(r) \/ DeactivateWrite(r) \/ ActivateWrite(r)
  <2>1. OnlyUsers /\ v \in User
    BY <1>0, <1>6 DEF SignupCreate, ChangePasswordWrite, ApproveWrite, RejectWrite, UpdateRoleWrite, UpdateTeamWrite,
                      DeactivateWrite, ActivateWrite, At
  <2> QED BY <1>5, <2>1
<1> QED BY <1>1, <1>2, <1>3, <1>6 DEF Handle

\* A request that issues a session is for an account that was decided on.
LEMMA IssuersDecided ==
  ASSUME IInv, NEW r \in Request, Issues(req[r])
  PROVE  req[r].user \in User /\ ~Undecided(req[r].user) /\ req[r].pc \in {"issue", "revokeOld", "reload"}
BY DEF Issues, IInv, TypeOK, RequestOK

\* The account of a live session was decided on.
LEMMA LiveDecided ==
  ASSUME IInv, NEW s \in Session, refreshTokens[s] # "none"
  PROVE  s[1] \in User /\ ~Undecided(s[1])
BY DEF IInv, UndecidedHasNoSession, Session

\* A request that arrives is about to make its handler's first call.
LEMMA ArriveMoves ==
  ASSUME TypeOK, NEW r \in Request, Arrive(r)
  PROVE  /\ OnlyRequests /\ req[r] = Idle /\ \A q \in Request \ {r} : req'[q] = req[q]
         /\ req'[r].pc \in {"create", "issue", "revokeOld", "revokeOne", "read"}
         /\ req'[r].pc = "read" \/ req'[r].op \in {"signup", "login", "refresh", "logout"}
<1>1. OnlyRequests /\ req[r] = Idle /\ \A q \in Request \ {r} : req'[q] = req[q]
  BY DEF Arrive, SignupRead, LoginRead, RefreshValidate, EnterLogout, EnterChangePassword, EnterAdmin, Begin, TypeOK
<1>2. ASSUME NEW call, Begin(r, call) PROVE req'[r].pc = call.pc /\ req'[r].op = call.op
  BY <1>2 DEF Begin, TypeOK
<1>3. /\ req'[r].pc \in {"create", "issue", "revokeOld", "revokeOne", "read"}
      /\ req'[r].pc = "read" \/ req'[r].op \in {"signup", "login", "refresh", "logout"}
  <2>1. ASSUME NEW u, SignupRead(r, u) PROVE req'[r].pc = "create" /\ req'[r].op = "signup"
    <3>1. LET call == [Idle EXCEPT !.op = "signup", !.pc = "create", !.user = u]
          IN  call.pc = "create" /\ call.op = "signup"
      BY DEF Idle
    <3> QED BY <1>2, <2>1, <3>1 DEF SignupRead
  <2>2. ASSUME NEW u, LoginRead(r, u) PROVE req'[r].pc = "issue" /\ req'[r].op = "login"
    <3>1. LET call == [Idle EXCEPT !.op = "login", !.pc = "issue", !.user = u, !.pw = users[u].pw]
          IN  call.pc = "issue" /\ call.op = "login"
      BY DEF Idle
    <3> QED BY <1>2, <2>2, <3>1 DEF LoginRead
  <2>3. ASSUME NEW s, RefreshValidate(r, s) PROVE req'[r].pc = "revokeOld" /\ req'[r].op = "refresh"
    <3>1. LET call == [Idle EXCEPT !.op = "refresh", !.pc = "revokeOld", !.user = s[1], !.tok = s, !.pw = origin[s].pw]
          IN  call.pc = "revokeOld" /\ call.op = "refresh"
      BY DEF Idle
    <3> QED BY <1>2, <2>3, <3>1 DEF RefreshValidate
  <2>4. ASSUME NEW s, EnterLogout(r, s) PROVE req'[r].pc = "revokeOne" /\ req'[r].op = "logout"
    <3>1. LET call == [Idle EXCEPT !.op = "logout", !.pc = "revokeOne", !.user = s[1], !.tok = s]
          IN  call.pc = "revokeOne" /\ call.op = "logout"
      BY DEF Idle
    <3> QED BY <1>2, <2>4, <3>1 DEF EnterLogout
  <2>5. ASSUME NEW s, NEW p, EnterChangePassword(r, s, p) PROVE req'[r].pc = "read"
    <3>1. [Idle EXCEPT !.op = "changePassword", !.pc = "read", !.user = s[1], !.tok = s, !.pw = p].pc = "read"
      BY DEF Idle
    <3> QED BY <1>2, <2>5, <3>1 DEF EnterChangePassword
  <2>6. ASSUME NEW s, NEW op, NEW u, NEW role, NEW team, EnterAdmin(r, s, op, u, role, team) PROVE req'[r].pc = "read"
    <3>1. [Idle EXCEPT !.op = op, !.pc = "read", !.user = u, !.role = role, !.team = team].pc = "read"
      BY DEF Idle
    <3> QED BY <1>2, <2>6, <3>1 DEF EnterAdmin
  <2> QED BY <2>1, <2>2, <2>3, <2>4, <2>5, <2>6 DEF Arrive
<1> QED BY <1>1, <1>3

\* Which handlers look a team up, tell the account, write to the audit log.
Fits(op, pc) ==
  /\ pc = "checkTeam" => op \in {"approveUser", "updateUserTeam"}
  /\ pc = "notify" => op \in {"approveUser", "rejectUser"}
  /\ pc = "audit" => op \in {"approveUser", "rejectUser", "updateUserRole", "updateUserTeam"}

CallsFit == \A r \in Request : Fits(req[r].op, req[r].pc)

LEMMA HandleFits ==
  ASSUME CallsFit, NEW r \in Request, Handle(r)
  PROVE  Finish(r) \/ \E pc : Goto(r, pc) /\ Fits(req[r].op, pc)
<1>1. CASE \/ SignupCreate(r) \/ GenerateTokens(r) \/ LogoutRevoke(r) \/ ChangePasswordRevoke(r)
           \/ DeactivateRevoke(r) \/ ActivateWrite(r) \/ AuditLog(r)
  BY <1>1 DEF SignupCreate, GenerateTokens, LogoutRevoke, ChangePasswordRevoke, DeactivateRevoke, RevokeAll,
              ActivateWrite, AuditLog
<1>2. CASE ApproveRead(r) \/ UpdateTeamRead(r)
  BY <1>2 DEF ApproveRead, UpdateTeamRead, Proceed, AskedTeam, At, Fits
<1>3. CASE \/ RefreshReload(r) \/ ChangePasswordRead(r) \/ RejectRead(r) \/ UpdateRoleRead(r) \/ DeactivateRead(r)
           \/ ActivateRead(r) \/ CheckTeam(r)
  BY <1>3 DEF RefreshReload, ChangePasswordRead, RejectRead, UpdateRoleRead, DeactivateRead, ActivateRead, CheckTeam,
              Proceed, Fits
<1>4. CASE ApproveWrite(r) \/ UpdateTeamWrite(r)
  BY <1>4 DEF ApproveWrite, UpdateTeamWrite, Proceed, At, Fits
<1>5. CASE RefreshRevokeOld(r) \/ ChangePasswordWrite(r) \/ DeactivateWrite(r)
  BY <1>5 DEF RefreshRevokeOld, ChangePasswordWrite, DeactivateWrite, Fits
<1>6. CASE RejectWrite(r) \/ UpdateRoleWrite(r)
  BY <1>6 DEF RejectWrite, UpdateRoleWrite, At, Fits
<1>7. CASE NotifyDecision(r)
  BY <1>7 DEF NotifyDecision, CallsFit, Fits
<1> QED BY <1>1, <1>2, <1>3, <1>4, <1>5, <1>6, <1>7 DEF Handle

LEMMA FitsStep == TypeOK /\ CallsFit /\ [Next]_vars => CallsFit'
<1> SUFFICES ASSUME TypeOK, CallsFit, [Next]_vars PROVE CallsFit'
  OBVIOUS
<1>1. ASSUME NEW r \in Request, Arrive(r) PROVE CallsFit'
  BY <1>1, ArriveMoves DEF CallsFit, Fits
<1>2. ASSUME NEW r \in Request, Handle(r) PROVE CallsFit'
  <2>1. CASE Finish(r)
    BY <2>1 DEF Finish, Idle, TypeOK, CallsFit, Fits
  <2>2. ASSUME NEW pc, Goto(r, pc), Fits(req[r].op, pc) PROVE CallsFit'
    <3>1. req'[r].op = req[r].op /\ req'[r].pc = pc /\ \A q \in Request \ {r} : req'[q] = req[q]
      BY <2>2 DEF Goto, TypeOK, Call
    <3> QED BY <2>2, <3>1 DEF CallsFit
  <2> QED BY <1>2, <2>1, <2>2, HandleFits
<1>3. CASE Crash
  BY <1>3 DEF Crash, CallsFit, Fits, Idle
<1>4. CASE Tick \/ UNCHANGED vars \/ TeamsWrite
  BY <1>4, TeamsWriteTeams DEF Tick, vars, CallsFit
<1> QED BY <1>1, <1>2, <1>3, <1>4 DEF Next, TeamsWrite

LEMMA AlwaysFits == Spec => []CallsFit
<1>1. Init => CallsFit
  BY DEF Init, CallsFit, Fits, Idle
<1> QED BY <1>1, FitsStep, TypeCorrect, PTL DEF Spec

\* While an account's password is being changed, or it is being rejected or
\* deactivated, nobody is logging in to it or refreshing a session of it.
Apart ==
  \A q, r \in Request :
    req[q].op \in {"changePassword", "rejectUser", "deactivateUser"} /\ Issues(req[r]) => req[q].user # req[r].user

\* A live session has the account's password, or is about to be revoked; and so
\* has a session under way.
CurrentPassword ==
  /\ \A s \in Session : refreshTokens[s] = "live" =>
       \/ origin[s].pw = users[s[1]].pw
       \/ \E r \in Request : At(r, "changePassword", "revokeAll") /\ req[r].user = s[1]
  /\ \A r \in Request : Issues(req[r]) => req[r].pw = users[req[r].user].pw

\* It is enough that no decided account's password changes and no session comes
\* up, and that no request ends that was about to revoke.
LEMMA PasswordKept ==
  ASSUME IInv, CurrentPassword,
         \A u \in User : ~Undecided(u) => users'[u].pw = users[u].pw,
         origin' = origin,
         \A s \in Session : refreshTokens'[s] = "live" => refreshTokens[s] = "live",
         \A q \in Request : \/ req'[q] = req[q]
                            \/ /\ ~At(q, "changePassword", "revokeAll")
                               /\ Issues(req'[q]) => req'[q].pw = users'[req'[q].user].pw
  PROVE  CurrentPassword'
<1>1. ASSUME NEW s \in Session, refreshTokens'[s] = "live"
      PROVE  \/ origin'[s].pw = users'[s[1]].pw
             \/ \E r \in Request : At(r, "changePassword", "revokeAll")' /\ req'[r].user = s[1]
  <2>1. refreshTokens[s] = "live" /\ users'[s[1]].pw = users[s[1]].pw
    BY <1>1, LiveDecided
  <2>2. CASE origin[s].pw = users[s[1]].pw
    BY <2>1, <2>2
  <2>3. CASE \E r \in Request : At(r, "changePassword", "revokeAll") /\ req[r].user = s[1]
    <3>1. PICK r \in Request : At(r, "changePassword", "revokeAll") /\ req[r].user = s[1]
      BY <2>3
    <3>2. req'[r] = req[r]
      BY <3>1
    <3> QED BY <3>1, <3>2 DEF At
  <2> QED BY <2>1, <2>2, <2>3 DEF CurrentPassword
<1>2. ASSUME NEW q \in Request, Issues(req'[q]) PROVE req'[q].pw = users'[req'[q].user].pw
  <2>1. CASE req'[q] = req[q]
    BY <1>2, <2>1, IssuersDecided DEF CurrentPassword
  <2> QED BY <1>2, <2>1
<1> QED BY <1>1, <1>2 DEF CurrentPassword

\* Only a login and a refresh issue a session.
LEMMA ArriveIssues ==
  ASSUME TypeOK, NEW r \in Request, Arrive(r), Issues(req'[r])
  PROVE  (\E u \in User : LoginRead(r, u)) \/ (\E s \in Session : RefreshValidate(r, s))
<1>1. ASSUME NEW call, Begin(r, call) PROVE call.op = req'[r].op
  BY <1>1 DEF Begin, TypeOK
<1>2. ASSUME NEW u, SignupRead(r, u) PROVE FALSE
  <2>1. [Idle EXCEPT !.op = "signup", !.pc = "create", !.user = u].op = "signup"
    BY DEF Idle
  <2> QED BY <1>1, <1>2, <2>1 DEF SignupRead, Issues
<1>3. ASSUME NEW s, EnterLogout(r, s) PROVE FALSE
  <2>1. [Idle EXCEPT !.op = "logout", !.pc = "revokeOne", !.user = s[1], !.tok = s].op = "logout"
    BY DEF Idle
  <2> QED BY <1>1, <1>3, <2>1 DEF EnterLogout, Issues
<1>4. ASSUME NEW s, NEW p, EnterChangePassword(r, s, p) PROVE FALSE
  <2>1. [Idle EXCEPT !.op = "changePassword", !.pc = "read", !.user = s[1], !.tok = s, !.pw = p].op = "changePassword"
    BY DEF Idle
  <2> QED BY <1>1, <1>4, <2>1 DEF EnterChangePassword, Issues
<1>5. ASSUME NEW s, NEW op \in AdminOps, NEW u, NEW role, NEW team, EnterAdmin(r, s, op, u, role, team) PROVE FALSE
  <2>1. [Idle EXCEPT !.op = op, !.pc = "read", !.user = u, !.role = role, !.team = team].op = op
    BY DEF Idle
  <2> QED BY <1>1, <1>5, <2>1 DEF EnterAdmin, Issues, AdminOps
<1>6. {"approveUser", "updateUserRole", "updateUserTeam", "rejectUser", "deactivateUser", "activateUser"} \subseteq AdminOps
  BY DEF AdminOps
<1> QED BY <1>2, <1>3, <1>4, <1>5, <1>6 DEF Arrive

\* Every step keeps it, the requests being kept apart before and after.
LEMMA PasswordStep ==
  ASSUME IInv, CurrentPassword, Apart, Apart', ~Faulty, [Next]_vars
  PROVE  CurrentPassword'
<1> USE DEF IInv
<1>1. ASSUME NEW r \in Request, Arrive(r) PROVE CurrentPassword'
  <2>1. OnlyRequests /\ req[r] = Idle /\ \A q \in Request \ {r} : req'[q] = req[q]
    BY <1>1, ArriveMoves
  <2>2. ASSUME Issues(req'[r]) PROVE req'[r].pw = users'[req'[r].user].pw
    <3>1. users' = users
      BY <2>1 DEF OnlyRequests, accounts
    <3>2. ASSUME NEW u \in User, LoginRead(r, u) PROVE req'[r].pw = users'[req'[r].user].pw
      BY <3>1, <3>2 DEF LoginRead, Begin, TypeOK, Idle
    <3>3. ASSUME NEW s \in Session, RefreshValidate(r, s) PROVE req'[r].pw = users'[req'[r].user].pw
      <4>1. refreshTokens[s] = "live" /\ req'[r].user = s[1] /\ req'[r].pw = origin[s].pw
        BY <3>3 DEF RefreshValidate, Begin, TypeOK, Idle
      <4>2. ASSUME NEW q \in Request, At(q, "changePassword", "revokeAll"), req[q].user = s[1] PROVE FALSE
        <5>1. req'[q] = req[q]
          BY <2>1, <4>2 DEF At, Idle
        <5> QED BY <2>2, <4>1, <4>2, <5>1 DEF Apart, At
      <4> QED BY <3>1, <4>1, <4>2 DEF CurrentPassword
    <3>4. (\E u \in User : LoginRead(r, u)) \/ (\E s \in Session : RefreshValidate(r, s))
      BY <1>1, <2>2, ArriveIssues
    <3> QED BY <3>2, <3>3, <3>4
  <2>3. ~At(r, "changePassword", "revokeAll")
    BY <2>1 DEF At, Idle
  <2> QED BY <2>1, <2>2, <2>3, PasswordKept DEF OnlyRequests, accounts, sessions
<1>2. ASSUME NEW r \in Request, GenerateTokens(r) PROVE CurrentPassword'
  <2> DEFINE s0 == <<req[r].user, now>>
  <2>1. /\ Issues(req[r]) /\ req[r].user \in User /\ s0 \in Session /\ s0[1] = req[r].user /\ users' = users
        /\ ~At(r, "changePassword", "revokeAll")
    BY <1>2, IdentityAssumption DEF GenerateTokens, RequestOK, Session, TypeOK, Time, Issues, accounts, At
  <2>2. req'[r] = Idle /\ \A q \in Request \ {r} : req'[q] = req[q]
    BY <1>2 DEF GenerateTokens, Finish, TypeOK
  <2>3. CASE UNCHANGED sessions
    BY <2>1, <2>2, <2>3, PasswordKept DEF Idle, Issues, sessions
  <2>4. CASE ~UNCHANGED sessions
    <3>1. /\ origin' = [origin EXCEPT ![s0] = [pw |-> req[r].pw, parent |-> req[r].tok]]
          /\ refreshTokens' = [refreshTokens EXCEPT ![s0] = "live"]
      BY <1>2, <2>4 DEF GenerateTokens
    <3>2. origin'[s0].pw = users'[s0[1]].pw
      BY <2>1, <3>1 DEF TypeOK, CurrentPassword
    <3>3. \A s \in Session : s # s0 => origin'[s] = origin[s] /\ refreshTokens'[s] = refreshTokens[s]
      BY <3>1 DEF TypeOK
    <3>4. \A q \in Request : At(q, "changePassword", "revokeAll") => req'[q] = req[q]
      BY <2>1, <2>2
    <3>5. \A q \in Request : Issues(req'[q]) => req'[q] = req[q]
      BY <2>2 DEF Issues, Idle
    <3> HIDE DEF s0
    <3>6. \A s \in Session : refreshTokens'[s] = "live" =>
            \/ origin'[s].pw = users'[s[1]].pw
            \/ \E q \in Request : At(q, "changePassword", "revokeAll")' /\ req'[q].user = s[1]
      BY <2>1, <3>2, <3>3, <3>4 DEF CurrentPassword, At
    <3> QED BY <2>1, <3>5, <3>6 DEF CurrentPassword
  <2> QED BY <2>3, <2>4
<1>3. ASSUME NEW r \in Request, ChangePasswordWrite(r) PROVE CurrentPassword'
  <2> DEFINE v == req[r].user
  <2>1. /\ v \in User /\ req[r].op = "changePassword" /\ req[r].pc = "write" /\ UNCHANGED sessions
        /\ \A u \in User : u # v => users'[u] = users[u]
    BY <1>3 DEF ChangePasswordWrite, At, TypeOK, OnlyUsers
  <2>2. /\ req'[r].op = "changePassword" /\ req'[r].pc = "revokeAll" /\ req'[r].user = v
        /\ \A q \in Request \ {r} : req'[q] = req[q]
    BY <1>3 DEF ChangePasswordWrite, At, Goto, TypeOK, Call
  <2>3. \A s \in Session : refreshTokens'[s] = "live" =>
          \/ origin'[s].pw = users'[s[1]].pw
          \/ \E q \in Request : At(q, "changePassword", "revokeAll")' /\ req'[q].user = s[1]
    <3>1. \A s \in Session : s[1] = v => \E q \in Request : At(q, "changePassword", "revokeAll")' /\ req'[q].user = s[1]
      BY <2>2 DEF At
    <3>2. \A q \in Request : At(q, "changePassword", "revokeAll") => req'[q] = req[q]
      BY <2>1, <2>2 DEF At
    <3>3. \A s \in Session : s[1] \in User
      BY DEF Session
    <3> HIDE DEF v
    <3> QED BY <2>1, <3>1, <3>2, <3>3 DEF CurrentPassword, At, sessions
  <2>4. \A q \in Request : Issues(req'[q]) => req'[q].pw = users'[req'[q].user].pw
    <3>1. ASSUME NEW q \in Request, Issues(req'[q]) PROVE q # r /\ req'[q] = req[q] /\ req[q].user # v /\ req[q].user \in User
      <4>1. q # r /\ req'[q] = req[q]
        BY <2>2, <3>1 DEF Issues
      <4> QED BY <2>1, <3>1, <4>1, IssuersDecided DEF Apart
    <3> QED BY <2>1, <3>1 DEF CurrentPassword
  <2> QED BY <2>3, <2>4 DEF CurrentPassword
<1>4. ASSUME NEW r \in Request, ChangePasswordRevoke(r) PROVE CurrentPassword'
  <2> DEFINE v == req[r].user
  <2>1. /\ req[r].op = "changePassword" /\ UNCHANGED <<users, origin>>
        /\ refreshTokens' = Revoked({s \in Session : s[1] = v})
        /\ req'[r] = Idle /\ \A q \in Request \ {r} : req'[q] = req[q]
    BY <1>4 DEF ChangePasswordRevoke, RevokeAll, At, Finish, TypeOK, accounts
  <2>2. \A s \in Session : refreshTokens'[s] = "live" => s[1] # v /\ refreshTokens[s] = "live"
    BY <2>1 DEF Revoked
  <2>3. \A s \in Session : refreshTokens'[s] = "live" =>
          \/ origin'[s].pw = users'[s[1]].pw
          \/ \E q \in Request : At(q, "changePassword", "revokeAll")' /\ req'[q].user = s[1]
    <3> HIDE DEF v
    <3>1. ASSUME NEW s \in Session, refreshTokens'[s] = "live",
                 NEW q \in Request, At(q, "changePassword", "revokeAll"), req[q].user = s[1]
          PROVE  At(q, "changePassword", "revokeAll")' /\ req'[q].user = s[1]
      <4>1. q # r
        BY <2>2, <3>1 DEF v
      <4> QED BY <2>1, <3>1, <4>1 DEF At
    <3> QED BY <2>1, <2>2, <3>1 DEF CurrentPassword
  <2>4. \A q \in Request : Issues(req'[q]) => req'[q] = req[q]
    BY <2>1 DEF Issues, Idle
  <2> QED BY <2>1, <2>3, <2>4 DEF CurrentPassword
<1>5. ASSUME NEW r \in Request, Handle(r), ~GenerateTokens(r), ~ChangePasswordWrite(r), ~ChangePasswordRevoke(r)
      PROVE  CurrentPassword'
  <2>1. /\ \A u \in User : ~Undecided(u) => users'[u].pw = users[u].pw
        /\ origin' = origin
        /\ \A s \in Session : refreshTokens'[s] = "live" => refreshTokens[s] = "live"
    BY <1>5, HandleRows
  <2>2. ~At(r, "changePassword", "revokeAll")
    BY <1>5 DEF Handle, At, SignupCreate, RefreshRevokeOld, RefreshReload, LogoutRevoke, ChangePasswordRead,
         ApproveRead, RejectRead, UpdateRoleRead, UpdateTeamRead,
         DeactivateRead, ActivateRead, CheckTeam, ApproveWrite, RejectWrite, UpdateRoleWrite, UpdateTeamWrite,
         DeactivateWrite, DeactivateRevoke, ActivateWrite, NotifyDecision, AuditLog
  <2>3. Issues(req'[r]) => req'[r].pw = users'[req'[r].user].pw
    <3>1. SUFFICES ASSUME Issues(req'[r]) PROVE req'[r].pw = users'[req'[r].user].pw
      OBVIOUS
    <3>2. req'[r].op = req[r].op /\ req'[r].user = req[r].user /\ req'[r].pw = req[r].pw
      BY <1>5, <3>1, HandleMoves DEF Issues, Idle
    <3>3. Issues(req[r])
      BY <3>1, <3>2 DEF Issues
    <3> QED BY <2>1, <3>2, <3>3, IssuersDecided DEF CurrentPassword
  <2>4. \A q \in Request \ {r} : req'[q] = req[q]
    BY <1>5, HandleMoves
  <2> QED BY <2>1, <2>2, <2>3, <2>4, PasswordKept
<1>6. CASE Tick \/ UNCHANGED vars \/ TeamsWrite
  <2>1. UNCHANGED <<sessions, req>>
    BY <1>6, TeamsWriteTeams DEF Tick, vars, sessions
  <2>2. \A u \in User : users'[u].pw = users[u].pw
    BY <1>6, TeamsWriteTeams DEF Tick, vars, accounts
  <2> QED BY <2>1, <2>2, PasswordKept DEF sessions
<1> QED BY <1>1, <1>2, <1>3, <1>4, <1>5, <1>6 DEF Next, TeamsWrite, Crash

\* changePassword revokes what it must, when no login or refresh of the account
\* overlaps it and it is not cut short: then every live session goes back to a
\* login with the password of now (users.service.ts:75-113).
THEOREM SessionsMatchPasswordApart ==
  ASSUME ~Faulty
  PROVE  Spec /\ []Apart => []SessionsMatchPassword
<1>1. Init => CurrentPassword
  <2>1. Init => (\A r \in Request : req[r].op = "none") /\ \A s \in Session : refreshTokens[s] = "none"
    BY DEF Init, Idle
  <2> QED BY <2>1 DEF CurrentPassword, Issues
<1>2. IInv /\ CurrentPassword /\ Apart /\ Apart' /\ [Next]_vars => CurrentPassword'
  BY PasswordStep
<1>3. CurrentPassword => SessionsMatchPassword
  BY DEF CurrentPassword, SessionsMatchPassword, Quiet, At, Idle
<1> QED BY <1>1, <1>2, <1>3, Inductive, PTL DEF Spec

\* A live session's account is not INACTIVE, or the session is about to be
\* revoked; no session of an INACTIVE account is under way; and an account whose
\* rejection is under way has none.
NotInactive ==
  /\ \A s \in Session : refreshTokens[s] = "live" =>
       \/ users[s[1]].status # "INACTIVE"
       \/ \E r \in Request : At(r, "deactivateUser", "revokeAll") /\ req[r].user = s[1]
  /\ \A r \in Request : Issues(req[r]) => users[req[r].user].status # "INACTIVE"
  /\ \A r \in Request : At(r, "rejectUser", "write") =>
       \A s \in Session : s[1] = req[r].user => refreshTokens[s] # "live"

\* It is enough that no account becomes INACTIVE and no session comes up, and
\* that no request ends that was about to revoke.
LEMMA ActiveKept ==
  ASSUME IInv, NotInactive,
         \A u \in User : users'[u].status = "INACTIVE" => users[u].status = "INACTIVE",
         \A s \in Session : refreshTokens'[s] = "live" => refreshTokens[s] = "live",
         \A q \in Request : \/ req'[q] = req[q]
                            \/ /\ ~At(q, "deactivateUser", "revokeAll")
                               /\ Issues(req'[q]) => users'[req'[q].user].status # "INACTIVE"
                               /\ At(q, "rejectUser", "write")' =>
                                    \A s \in Session : s[1] = req'[q].user => refreshTokens[s] # "live"
  PROVE  NotInactive'
<1>1. ASSUME NEW s \in Session, refreshTokens'[s] = "live"
      PROVE  \/ users'[s[1]].status # "INACTIVE"
             \/ \E r \in Request : At(r, "deactivateUser", "revokeAll")' /\ req'[r].user = s[1]
  <2>1. refreshTokens[s] = "live" /\ s[1] \in User
    BY <1>1 DEF Session
  <2>2. CASE users[s[1]].status # "INACTIVE"
    BY <2>1, <2>2
  <2>3. CASE \E r \in Request : At(r, "deactivateUser", "revokeAll") /\ req[r].user = s[1]
    <3>1. PICK r \in Request : At(r, "deactivateUser", "revokeAll") /\ req[r].user = s[1]
      BY <2>3
    <3>2. req'[r] = req[r]
      BY <3>1
    <3> QED BY <3>1, <3>2 DEF At
  <2> QED BY <2>1, <2>2, <2>3 DEF NotInactive
<1>2. ASSUME NEW q \in Request
      PROVE  /\ Issues(req'[q]) => users'[req'[q].user].status # "INACTIVE"
             /\ At(q, "rejectUser", "write")' =>
                  \A s \in Session : s[1] = req'[q].user => refreshTokens'[s] # "live"
  <2>1. CASE req'[q] = req[q]
    BY <2>1, IssuersDecided DEF NotInactive, At
  <2>2. CASE req'[q] # req[q]
    BY <2>2
  <2> QED BY <2>1, <2>2
<1> QED BY <1>1, <1>2 DEF NotInactive

\* Every step keeps it, the requests being kept apart before and after.
LEMMA ActiveStep ==
  ASSUME IInv, CallsFit, NotInactive, Apart, Apart', ~Faulty, [Next]_vars
  PROVE  NotInactive'
<1> USE DEF IInv
<1>1. ASSUME NEW r \in Request, Arrive(r) PROVE NotInactive'
  <2>1. OnlyRequests /\ req[r] = Idle /\ \A q \in Request \ {r} : req'[q] = req[q]
    BY <1>1, ArriveMoves
  <2>2. ASSUME Issues(req'[r]) PROVE users'[req'[r].user].status # "INACTIVE"
    <3>1. users' = users
      BY <2>1 DEF OnlyRequests, accounts
    <3>2. ASSUME NEW u \in User, LoginRead(r, u) PROVE users'[req'[r].user].status # "INACTIVE"
      BY <3>1, <3>2 DEF LoginRead, Begin, TypeOK, Idle
    <3>3. ASSUME NEW s \in Session, RefreshValidate(r, s) PROVE users'[req'[r].user].status # "INACTIVE"
      <4>1. refreshTokens[s] = "live" /\ req'[r].user = s[1]
        BY <3>3 DEF RefreshValidate, Begin, TypeOK, Idle
      <4>2. ASSUME NEW q \in Request, At(q, "deactivateUser", "revokeAll"), req[q].user = s[1] PROVE FALSE
        <5>1. req'[q] = req[q]
          BY <2>1, <4>2 DEF At, Idle
        <5> QED BY <2>2, <4>1, <4>2, <5>1 DEF Apart, At
      <4> QED BY <3>1, <4>1, <4>2 DEF NotInactive
    <3> QED BY <1>1, <2>2, <3>2, <3>3, ArriveIssues
  <2>3. ~At(r, "deactivateUser", "revokeAll")
    BY <2>1 DEF At, Idle
  <2>4. ~At(r, "rejectUser", "write")'
    <3>1. req'[r].pc # "write"
      BY <1>1, ArriveMoves
    <3> QED BY <3>1 DEF At
  <2> QED BY <2>1, <2>2, <2>3, <2>4, ActiveKept DEF OnlyRequests, accounts, sessions
<1>2. ASSUME NEW r \in Request, GenerateTokens(r) PROVE NotInactive'
  <2> DEFINE s0 == <<req[r].user, now>>
  <2>1. /\ Issues(req[r]) /\ req[r].user \in User /\ s0 \in Session /\ s0[1] = req[r].user /\ users' = users
        /\ ~At(r, "deactivateUser", "revokeAll")
    BY <1>2, IdentityAssumption DEF GenerateTokens, RequestOK, Session, TypeOK, Time, Issues, accounts, At
  <2>2. req'[r] = Idle /\ \A q \in Request \ {r} : req'[q] = req[q]
    BY <1>2 DEF GenerateTokens, Finish, TypeOK
  <2>3. \A s \in Session : s # s0 => refreshTokens'[s] = refreshTokens[s]
    BY <1>2 DEF GenerateTokens, sessions, TypeOK
  <2>4. users'[s0[1]].status # "INACTIVE"
    BY <2>1 DEF NotInactive
  <2>5. \A q \in Request : At(q, "deactivateUser", "revokeAll") => req'[q] = req[q]
    BY <2>1, <2>2
  <2>6. \A q \in Request : Issues(req'[q]) => req'[q] = req[q]
    BY <2>2 DEF Issues, Idle
  <2>7. ASSUME NEW q \in Request, At(q, "rejectUser", "write")'
        PROVE  At(q, "rejectUser", "write") /\ req'[q] = req[q] /\ req[q].user # s0[1]
    <3>1. req'[q] = req[q]
      BY <2>2, <2>7 DEF At, Idle
    <3> QED BY <2>1, <2>7, <3>1 DEF At, Apart
  <2> HIDE DEF s0
  <2>8. \A s \in Session : refreshTokens'[s] = "live" =>
          \/ users'[s[1]].status # "INACTIVE"
          \/ \E q \in Request : At(q, "deactivateUser", "revokeAll")' /\ req'[q].user = s[1]
    BY <2>1, <2>3, <2>4, <2>5 DEF NotInactive, At
  <2>9. \A q \in Request : At(q, "rejectUser", "write")' =>
          \A s \in Session : s[1] = req'[q].user => refreshTokens'[s] # "live"
    BY <2>3, <2>7 DEF NotInactive
  <2> QED BY <2>1, <2>6, <2>8, <2>9 DEF NotInactive
<1>3. ASSUME NEW r \in Request, RejectWrite(r) \/ DeactivateWrite(r) PROVE NotInactive'
  <2> DEFINE v == req[r].user
  <2>1. /\ v \in User /\ req[r].op \in {"rejectUser", "deactivateUser"} /\ req[r].pc = "write" /\ UNCHANGED sessions
        /\ \A u \in User : u # v => users'[u] = users[u]
    BY <1>3 DEF RejectWrite, DeactivateWrite, At, TypeOK, OnlyUsers
  <2>2. /\ req'[r].op = req[r].op /\ req'[r].user = v
        /\ req'[r].pc = IF req[r].op = "rejectUser" THEN "notify" ELSE "revokeAll"
        /\ \A q \in Request \ {r} : req'[q] = req[q]
    BY <1>3 DEF RejectWrite, DeactivateWrite, At, Goto, TypeOK, Call
  <2>3. ASSUME NEW s \in Session, refreshTokens'[s] = "live"
        PROVE  \/ users'[s[1]].status # "INACTIVE"
               \/ \E q \in Request : At(q, "deactivateUser", "revokeAll")' /\ req'[q].user = s[1]
    <3>1. refreshTokens[s] = "live" /\ s[1] \in User
      BY <2>1, <2>3 DEF sessions, Session
    <3>2. CASE s[1] = v
      <4>1. req[r].op = "deactivateUser"
        BY <2>1, <3>1, <3>2 DEF NotInactive, At
      <4> QED BY <2>2, <3>2, <4>1 DEF At
    <3>3. CASE s[1] # v
      <4>1. \A q \in Request : At(q, "deactivateUser", "revokeAll") => req'[q] = req[q]
        BY <2>1, <2>2 DEF At
      <4> HIDE DEF v
      <4> QED BY <2>1, <3>1, <3>3, <4>1 DEF NotInactive, At
    <3> QED BY <3>2, <3>3
  <2>4. ASSUME NEW q \in Request, Issues(req'[q]) PROVE users'[req'[q].user].status # "INACTIVE"
    <3>1. q # r /\ req'[q] = req[q]
      BY <2>1, <2>2, <2>4 DEF Issues
    <3>2. req[q].user # v /\ req[q].user \in User
      BY <2>1, <2>4, <3>1, IssuersDecided DEF Apart
    <3> QED BY <2>1, <2>4, <3>1, <3>2 DEF NotInactive
  <2>5. ASSUME NEW q \in Request, At(q, "rejectUser", "write")'
        PROVE  \A s \in Session : s[1] = req'[q].user => refreshTokens'[s] # "live"
    <3>1. req'[q] = req[q]
      BY <2>2, <2>5 DEF At
    <3> QED BY <2>1, <2>5, <3>1 DEF NotInactive, At, sessions
  <2> QED BY <2>3, <2>4, <2>5 DEF NotInactive
<1>4. ASSUME NEW r \in Request, DeactivateRevoke(r) PROVE NotInactive'
  <2> DEFINE v == req[r].user
  <2>1. /\ users' = users /\ refreshTokens' = Revoked({s \in Session : s[1] = v})
        /\ req'[r] = Idle /\ \A q \in Request \ {r} : req'[q] = req[q]
    BY <1>4 DEF DeactivateRevoke, RevokeAll, At, Finish, TypeOK, accounts
  <2>2. \A s \in Session : refreshTokens'[s] = "live" => s[1] # v /\ refreshTokens[s] = "live"
    BY <2>1 DEF Revoked
  <2>3. \A s \in Session : refreshTokens'[s] = "live" =>
          \/ users'[s[1]].status # "INACTIVE"
          \/ \E q \in Request : At(q, "deactivateUser", "revokeAll")' /\ req'[q].user = s[1]
    <3> HIDE DEF v
    <3>1. ASSUME NEW s \in Session, refreshTokens'[s] = "live",
                 NEW q \in Request, At(q, "deactivateUser", "revokeAll"), req[q].user = s[1]
          PROVE  At(q, "deactivateUser", "revokeAll")' /\ req'[q].user = s[1]
      <4>1. q # r
        BY <2>2, <3>1 DEF v
      <4> QED BY <2>1, <3>1, <4>1 DEF At
    <3> QED BY <2>1, <2>2, <3>1 DEF NotInactive
  <2>4. \A q \in Request : Issues(req'[q]) \/ At(q, "rejectUser", "write")' => req'[q] = req[q]
    BY <2>1 DEF Issues, Idle, At
  <2> HIDE DEF v
  <2> QED BY <2>1, <2>2, <2>3, <2>4 DEF NotInactive, At
<1>5. ASSUME NEW r \in Request, Handle(r), ~GenerateTokens(r), ~RejectWrite(r), ~DeactivateWrite(r), ~DeactivateRevoke(r)
      PROVE  NotInactive'
  <2>1. /\ \A u \in User : users'[u].status = "INACTIVE" => users[u].status = "INACTIVE"
        /\ \A s \in Session : refreshTokens'[s] = "live" => refreshTokens[s] = "live"
    BY <1>5, HandleRows
  <2>2. ~At(r, "deactivateUser", "revokeAll")
    BY <1>5 DEF Handle, At, SignupCreate, RefreshRevokeOld, RefreshReload, LogoutRevoke, ChangePasswordRead,
         ChangePasswordWrite, ChangePasswordRevoke, ApproveRead, RejectRead, UpdateRoleRead, UpdateTeamRead,
         DeactivateRead, ActivateRead, CheckTeam, ApproveWrite, UpdateRoleWrite, UpdateTeamWrite,
         ActivateWrite, NotifyDecision, AuditLog
  <2>3. Issues(req'[r]) => users'[req'[r].user].status # "INACTIVE"
    <3>1. SUFFICES ASSUME Issues(req'[r]) PROVE users'[req'[r].user].status # "INACTIVE"
      OBVIOUS
    <3>2. req'[r].op = req[r].op /\ req'[r].user = req[r].user
      BY <1>5, <3>1, HandleMoves DEF Issues, Idle
    <3>3. Issues(req[r])
      BY <3>1, <3>2 DEF Issues
    <3> QED BY <2>1, <3>2, <3>3, IssuersDecided DEF NotInactive
  <2>4. At(r, "rejectUser", "write")' => \A s \in Session : s[1] = req'[r].user => refreshTokens[s] # "live"
    <3>1. SUFFICES ASSUME At(r, "rejectUser", "write")'
                   PROVE  \A s \in Session : s[1] = req'[r].user => refreshTokens[s] # "live"
      OBVIOUS
    <3>2. req[r].op = "rejectUser" /\ req'[r].user = req[r].user /\ req'[r].pc = "write"
      BY <1>5, <3>1, HandleMoves DEF At, Idle
    <3>3. CASE RejectRead(r)
      <4>1. Decidable(users[req[r].user]) /\ req[r].user \in User
        BY <3>2, <3>3 DEF RejectRead, Proceed, Finish, Idle, TypeOK, At, Target
      <4> QED BY <3>2, <4>1 DEF Decidable, UndecidedHasNoSession, Undecided
    <3>4. ~CheckTeam(r)
      BY <3>2 DEF CheckTeam, CallsFit, Fits
    <3>5. CASE ~RejectRead(r) /\ ~CheckTeam(r)
      BY <1>5, <3>2, <3>5 DEF Handle, At, SignupCreate, GenerateTokens, RefreshRevokeOld, RefreshReload, LogoutRevoke,
         ChangePasswordRead, ChangePasswordWrite, ChangePasswordRevoke, ApproveRead, UpdateRoleRead, UpdateTeamRead,
         DeactivateRead, ActivateRead, ApproveWrite, UpdateRoleWrite, UpdateTeamWrite, DeactivateRevoke,
         ActivateWrite, NotifyDecision, AuditLog, RevokeAll, Goto, Finish, Idle, TypeOK, Call
    <3> QED BY <3>3, <3>4, <3>5
  <2>5. \A q \in Request \ {r} : req'[q] = req[q]
    BY <1>5, HandleMoves
  <2> QED BY <2>1, <2>2, <2>3, <2>4, <2>5, ActiveKept
<1>6. CASE Tick \/ UNCHANGED vars \/ TeamsWrite
  <2>1. UNCHANGED <<sessions, req>>
    BY <1>6, TeamsWriteTeams DEF Tick, vars, sessions
  <2>2. \A u \in User : users'[u].status = users[u].status
    BY <1>6, TeamsWriteTeams DEF Tick, vars, accounts
  <2> QED BY <2>1, <2>2, ActiveKept DEF sessions
<1> QED BY <1>1, <1>2, <1>3, <1>4, <1>5, <1>6 DEF Next, TeamsWrite, Crash

\* deactivateUser revokes what it must, when no login or refresh of the account
\* overlaps it and it is not cut short: then an INACTIVE account has no live
\* session (admin.service.ts:288-311).
THEOREM InactiveHasNoSessionApart ==
  ASSUME ~Faulty
  PROVE  Spec /\ []Apart => []InactiveHasNoSession
<1>1. Init => NotInactive
  <2>1. Init => (\A r \in Request : req[r].op = "none") /\ \A s \in Session : refreshTokens[s] = "none"
    BY DEF Init, Idle
  <2> QED BY <2>1 DEF NotInactive, Issues, At
<1>2. IInv /\ CallsFit /\ NotInactive /\ Apart /\ Apart' /\ [Next]_vars => NotInactive'
  BY ActiveStep
<1>3. NotInactive => InactiveHasNoSession
  BY DEF NotInactive, InactiveHasNoSession, Quiet, At, Idle
<1> QED BY <1>1, <1>2, <1>3, Inductive, AlwaysFits, PTL DEF Spec

\* No two refreshes of one token overlap.
OneRefresher ==
  \A q, r \in Request : req[q].op = "refresh" /\ req[r].op = "refresh" /\ req[q].tok = req[r].tok => q = r

\* A token that is being exchanged was not exchanged before.
Unrotated ==
  /\ RefreshOnce
  /\ \A r \in Request : req[r].op = "refresh" => \A s \in Session : origin[s].parent # req[r].tok

\* A request that does not issue a token leaves the exchanges as they were.
LEMMA UnrotatedKept ==
  ASSUME Unrotated, origin' = origin,
         \A q \in Request : \/ req'[q].op # "refresh"
                            \/ req[q].op = "refresh" /\ req'[q].tok = req[q].tok
                            \/ \A s \in Session : origin[s].parent # req'[q].tok
  PROVE  Unrotated'
BY DEF Unrotated, RefreshOnce

LEMMA UnrotatedStep ==
  ASSUME IInv, Unrotated, OneRefresher, [Next]_vars
  PROVE  Unrotated'
<1> USE DEF IInv
<1>1. ASSUME NEW r \in Request, Arrive(r) PROVE Unrotated'
  <2>1. origin' = origin /\ \A q \in Request \ {r} : req'[q] = req[q]
    BY <1>1, ArriveMoves DEF OnlyRequests, sessions
  <2>2. ASSUME req'[r].op = "refresh" PROVE \A s \in Session : origin[s].parent # req'[r].tok
    <3>1. ASSUME NEW u \in User, LoginRead(r, u) PROVE FALSE
      BY <2>2, <3>1 DEF LoginRead, Begin, TypeOK, Idle
    <3>2. ASSUME NEW s \in Session, RefreshValidate(r, s) PROVE \A t \in Session : origin[t].parent # req'[r].tok
      <4>1. refreshTokens[s] = "live" /\ req'[r].tok = s
        BY <3>2 DEF RefreshValidate, Begin, TypeOK, Idle
      <4> QED BY <4>1, IdentityAssumption DEF RotationOrder
    <3> QED BY <1>1, <2>2, <3>1, <3>2, ArriveIssues DEF Issues
  <2> QED BY <2>1, <2>2, UnrotatedKept
<1>2. ASSUME NEW r \in Request, GenerateTokens(r) PROVE Unrotated'
  <2> DEFINE s0 == <<req[r].user, now>>
  <2>1. Issues(req[r]) /\ s0 \in Session
    BY <1>2, IdentityAssumption DEF GenerateTokens, RequestOK, Session, TypeOK, Time, Issues
  <2>2. req'[r] = Idle /\ \A q \in Request \ {r} : req'[q] = req[q]
    BY <1>2 DEF GenerateTokens, Finish, TypeOK
  <2>3. CASE UNCHANGED sessions
    BY <2>2, <2>3, UnrotatedKept DEF Idle, sessions
  <2>4. CASE ~UNCHANGED sessions
    <3>1. origin' = [origin EXCEPT ![s0] = [pw |-> req[r].pw, parent |-> req[r].tok]]
      BY <1>2, <2>4 DEF GenerateTokens
    <3>2. origin'[s0].parent = req[r].tok /\ \A s \in Session : s # s0 => origin'[s] = origin[s]
      BY <2>1, <3>1 DEF TypeOK
    <3> HIDE DEF s0
    <3>3. req[r].tok = NoSession \/ \A s \in Session : origin[s].parent # req[r].tok
      BY <2>1 DEF Issues, RequestOK, Unrotated
    <3>4. RefreshOnce'
      BY <3>2, <3>3 DEF Unrotated, RefreshOnce
    <3>5. ASSUME NEW q \in Request, req'[q].op = "refresh", NEW s \in Session PROVE origin'[s].parent # req'[q].tok
      <4>1. q # r /\ req'[q] = req[q]
        BY <2>2, <3>5 DEF Idle
      <4>2. req[q].tok # req[r].tok
        BY <2>1, <3>5, <4>1, IdentityAssumption DEF Issues, RequestOK, OneRefresher
      <4> QED BY <3>2, <3>5, <4>1, <4>2 DEF Unrotated
    <3> QED BY <3>4, <3>5 DEF Unrotated
  <2> QED BY <2>3, <2>4
<1>3. ASSUME NEW r \in Request, Handle(r), ~GenerateTokens(r) PROVE Unrotated'
  <2>1. origin' = origin
    BY <1>3, HandleRows
  <2>2. req'[r].op = "refresh" => req[r].op = "refresh" /\ req'[r].tok = req[r].tok
    BY <1>3, HandleMoves DEF Idle
  <2>3. \A q \in Request \ {r} : req'[q] = req[q]
    BY <1>3, HandleMoves
  <2> QED BY <2>1, <2>2, <2>3, UnrotatedKept
<1>4. CASE Crash
  BY <1>4, UnrotatedKept DEF Crash, OnlyRequests, sessions, Idle
<1>5. CASE Tick \/ UNCHANGED vars \/ TeamsWrite
  <2>1. UNCHANGED <<sessions, req>>
    BY <1>5, TeamsWriteTeams DEF Tick, vars, sessions
  <2> QED BY <2>1, UnrotatedKept DEF sessions
<1> QED BY <1>1, <1>2, <1>3, <1>4, <1>5 DEF Next, TeamsWrite

\* POST /auth/refresh exchanges a token once, when it is not called twice at the
\* same time with the same token: validate looks for a live row, and by the
\* time anyone else may look, the row is revoked, whatever crashes in between
\* (jwt-refresh.strategy.ts:29-58, auth.service.ts:102-121).
THEOREM RefreshOnceAlone == Spec /\ []OneRefresher => []RefreshOnce
<1>1. Init => Unrotated
  <2>1. Init => (\A r \in Request : req[r].op = "none") /\ \A s \in Session : origin[s].parent = NoSession
    BY DEF Init, Idle
  <2> QED BY <2>1 DEF Unrotated, RefreshOnce
<1>2. IInv /\ Unrotated /\ OneRefresher /\ [Next]_vars => Unrotated'
  BY UnrotatedStep
<1>3. Unrotated => RefreshOnce
  BY DEF Unrotated
<1> QED BY <1>1, <1>2, <1>3, Inductive, PTL DEF Spec

Decides(q) == q.op \in {"approveUser", "rejectUser"}

\* No two decisions on one account overlap.
OneDecider ==
  \A q, r \in Request : Decides(req[q]) /\ Decides(req[r]) /\ req[q].user = req[r].user => q = r

\* An account that is being decided on was not told of a decision before.
Untold ==
  /\ OneDecision
  /\ \A r \in Request :
       Decides(req[r]) /\ req[r].pc \in {"checkTeam", "write", "notify"} => inbox[req[r].user] = <<>>

LEMMA UntoldKept ==
  ASSUME Untold, inbox' = inbox,
         \A q \in Request :
           \/ req'[q] = req[q]
           \/ Decides(req'[q]) /\ req'[q].pc \in {"checkTeam", "write", "notify"} => inbox[req'[q].user] = <<>>
  PROVE  Untold'
BY DEF Untold, OneDecision

LEMMA UntoldStep ==
  ASSUME IInv, CallsFit, Untold, OneDecider, [Next]_vars
  PROVE  Untold'
<1> USE DEF IInv
<1>1. ASSUME NEW r \in Request, Arrive(r) PROVE Untold'
  BY <1>1, ArriveMoves, UntoldKept DEF OnlyRequests, records
<1>2. ASSUME NEW r \in Request, NotifyDecision(r) PROVE Untold'
  <2> DEFINE v == req[r].user
  <2>1. Decides(req[r]) /\ req[r].pc = "notify" /\ v \in User /\ inbox[v] = <<>>
    BY <1>2 DEF NotifyDecision, CallsFit, Fits, Decides, Untold, TypeOK
  <2>2. PICK what : inbox' = [inbox EXCEPT ![v] = Append(@, what)]
    BY <1>2 DEF NotifyDecision
  <2>3. inbox'[v] = <<what>> /\ \A u \in User : u # v => inbox'[u] = inbox[u]
    BY <2>1, <2>2 DEF TypeOK
  <2>4. req'[r].pc = "audit" /\ \A q \in Request \ {r} : req'[q] = req[q]
    BY <1>2 DEF NotifyDecision, Goto, TypeOK, Call
  <2> HIDE DEF v
  <2>5. OneDecision'
    <3>1. Len(<<what>>) = 1
      OBVIOUS
    <3>2. ASSUME NEW u \in User PROVE Len(inbox'[u]) <= 1
      <4>1. CASE u = v
        <5>1. inbox'[u] = <<what>>
          BY <2>3, <4>1
        <5>2. Len(inbox'[u]) = 1
          BY <3>1, <5>1, Zenon
        <5> QED BY <5>2
      <4>2. CASE u # v
        BY <2>3, <4>2 DEF Untold, OneDecision
      <4> QED BY <4>1, <4>2
    <3> QED BY <3>2 DEF OneDecision
  <2>6. ASSUME NEW q \in Request, Decides(req'[q]), req'[q].pc \in {"checkTeam", "write", "notify"}
        PROVE  inbox'[req'[q].user] = <<>>
    <3>1. q # r /\ req'[q] = req[q]
      BY <2>4, <2>6
    <3>2. req[q].user \in User /\ req[q].user # v
      BY <2>1, <2>6, <3>1 DEF v, OneDecider, TypeOK
    <3> QED BY <2>3, <2>6, <3>1, <3>2 DEF Untold
  <2> QED BY <2>5, <2>6 DEF Untold
<1>3. ASSUME NEW r \in Request, Handle(r), ~NotifyDecision(r) PROVE Untold'
  <2>1. inbox' = inbox
    BY <1>3 DEF Handle, SignupCreate, GenerateTokens, RefreshRevokeOld, RefreshReload, LogoutRevoke, ChangePasswordRead,
         ChangePasswordWrite, ChangePasswordRevoke, ApproveRead, RejectRead, UpdateRoleRead, UpdateTeamRead,
         DeactivateRead, ActivateRead, CheckTeam, ApproveWrite, RejectWrite, UpdateRoleWrite, UpdateTeamWrite,
         DeactivateWrite, DeactivateRevoke, ActivateWrite, AuditLog, RevokeAll, OnlyRequests, OnlyUsers, records
  <2>2. ASSUME Decides(req'[r]), req'[r].pc \in {"checkTeam", "write", "notify"} PROVE inbox[req'[r].user] = <<>>
    <3>1. Decides(req[r]) /\ req'[r].user = req[r].user
      BY <1>3, <2>2, HandleMoves DEF Decides, Idle
    <3>2. CASE ApproveRead(r) \/ RejectRead(r)
      <4>1. Decidable(users[req[r].user]) /\ req[r].user \in User
        BY <2>2, <3>2 DEF ApproveRead, RejectRead, Proceed, Finish, Idle, TypeOK, At, Target
      <4> QED BY <3>1, <4>1 DEF Decidable, ToldOnlyDecisions, Undecided
    <3>3. CASE CheckTeam(r) \/ ApproveWrite(r) \/ RejectWrite(r)
      BY <3>1, <3>3 DEF CheckTeam, ApproveWrite, RejectWrite, At, Untold
    <3>4. CASE ~ApproveRead(r) /\ ~RejectRead(r) /\ ~CheckTeam(r) /\ ~ApproveWrite(r) /\ ~RejectWrite(r)
      <4>1. AuditLog(r)
        BY <1>3, <3>1, <3>4 DEF Handle, At, SignupCreate, GenerateTokens, RefreshRevokeOld, RefreshReload, LogoutRevoke,
           ChangePasswordRead, ChangePasswordWrite, ChangePasswordRevoke, UpdateRoleRead, UpdateTeamRead,
           DeactivateRead, ActivateRead, UpdateRoleWrite, UpdateTeamWrite, DeactivateWrite, DeactivateRevoke,
           ActivateWrite, Decides, RequestOK
      <4> QED BY <2>2, <4>1 DEF AuditLog, Finish, Idle, TypeOK
    <3> QED BY <3>2, <3>3, <3>4
  <2>3. \A q \in Request \ {r} : req'[q] = req[q]
    BY <1>3, HandleMoves
  <2> QED BY <2>1, <2>2, <2>3, UntoldKept
<1>4. CASE Crash
  BY <1>4, UntoldKept DEF Crash, OnlyRequests, records, Idle
<1>5. CASE Tick \/ UNCHANGED vars \/ TeamsWrite
  BY <1>5, UntoldKept, TeamsWriteTeams DEF Tick, vars, records
<1> QED BY <1>1, <1>2, <1>3, <1>4, <1>5 DEF Next, TeamsWrite

\* approveUser and rejectUser tell an account of one decision, when no two of
\* them overlap on it: the first decision ends the PENDING status the second
\* looks for (admin.service.ts:62-163).
THEOREM OneDecisionAlone == Spec /\ []OneDecider => []OneDecision
<1>1. Init => Untold
  BY DEF Init, Idle, Untold, Decides, OneDecision
<1>2. IInv /\ CallsFit /\ Untold /\ OneDecider /\ [Next]_vars => Untold'
  BY UntoldStep
<1>3. Untold => OneDecision
  BY DEF Untold
<1> QED BY <1>1, <1>2, <1>3, Inductive, AlwaysFits, PTL DEF Spec

Grants(q) == q.op \in {"approveUser", "updateUserRole", "updateUserTeam"}

\* No two requests that hand out a role or a team of one account overlap.
OneGranter ==
  \A q, r \in Request : Grants(req[q]) /\ Grants(req[r]) /\ req[q].user = req[r].user => q = r

\* A request that has written a role, a team, and has not put it on record yet.
GivesRole(q) == \/ q.op = "approveUser" /\ q.pc \in {"notify", "audit"}
                \/ q.op = "updateUserRole" /\ q.pc = "audit"
GivesTeam(q) == \/ q.op = "approveUser" /\ q.pc \in {"notify", "audit"}
                \/ q.op = "updateUserTeam" /\ q.pc = "audit"

RoleTracked(u) == audited[u].role # "unset" => audited[u].role = users[u].role
TeamTracked(u) == users[u].team # NoTeam => audited[u].team = users[u].team \/ u \in moved

\* The audit rows say what an account was given, but for what is being recorded;
\* and that is what the account has, its team perhaps removed, or it moved to
\* another, meanwhile.
Tracked ==
  /\ \A u \in User : users[u].status = "ABSENT" => users[u].role = "ACTOR" /\ users[u].team = NoTeam
  /\ \A r \in Request : Grants(req[r]) /\ req[r].pc # "read" =>
       req[r].user \in User /\ users[req[r].user].status # "ABSENT"
  /\ \A u \in User : RoleTracked(u) \/ \E r \in Request : req[r].user = u /\ GivesRole(req[r])
  /\ \A u \in User : TeamTracked(u) \/ \E r \in Request : req[r].user = u /\ GivesTeam(req[r])
  /\ \A r \in Request : GivesRole(req[r]) => req[r].role = users[req[r].user].role
  /\ \A r \in Request : GivesTeam(req[r]) =>
       users[req[r].user].team \in {req[r].team, NoTeam} \/ req[r].user \in moved

LEMMA Givers ==
  ASSUME TypeOK, NEW r \in Request
  PROVE  /\ GivesRole(req[r]) => Grants(req[r]) /\ req[r].user \in User
         /\ GivesTeam(req[r]) => Grants(req[r]) /\ req[r].user \in User
BY DEF GivesRole, GivesTeam, Grants, TypeOK

\* It is enough that roles stay, teams stay or go or are moved to, nobody
\* disappears, nothing is recorded, and each request goes on giving what it gave.
LEMMA TrackedKept ==
  ASSUME TypeOK, Tracked, audited' = audited, moved \subseteq moved',
         \A u \in User : /\ users'[u].role = users[u].role
                         /\ \/ users'[u].team \in {users[u].team, NoTeam}
                            \/ u \in moved' /\ users[u].status # "ABSENT"
                         /\ users'[u].status = "ABSENT" => users[u].status = "ABSENT",
         \A q \in Request :
           \/ req'[q] = req[q]
           \/ /\ GivesRole(req'[q]) <=> GivesRole(req[q])
              /\ GivesTeam(req'[q]) <=> GivesTeam(req[q])
              /\ GivesRole(req[q]) \/ GivesTeam(req[q]) =>
                   req'[q].user = req[q].user /\ req'[q].role = req[q].role /\ req'[q].team = req[q].team
              /\ Grants(req'[q]) /\ req'[q].pc # "read" =>
                   req'[q].user \in User /\ users[req'[q].user].status # "ABSENT"
  PROVE  Tracked'
<1>1. ASSUME NEW q \in Request
      PROVE  /\ GivesRole(req'[q]) <=> GivesRole(req[q])
             /\ GivesTeam(req'[q]) <=> GivesTeam(req[q])
             /\ GivesRole(req[q]) \/ GivesTeam(req[q]) =>
                  req'[q].user = req[q].user /\ req'[q].role = req[q].role /\ req'[q].team = req[q].team
  <2>1. CASE req'[q] = req[q]
    BY <2>1
  <2> QED BY <2>1
<1>2. \A u \in User : users'[u].status = "ABSENT" => users'[u].role = "ACTOR" /\ users'[u].team = NoTeam
  BY DEF Tracked
<1>3. ASSUME NEW q \in Request, Grants(req'[q]), req'[q].pc # "read"
      PROVE  req'[q].user \in User /\ users'[req'[q].user].status # "ABSENT"
  <2>1. req'[q].user \in User /\ users[req'[q].user].status # "ABSENT"
    <3>1. CASE req'[q] = req[q]
      BY <1>3, <3>1 DEF Tracked
    <3> QED BY <1>3, <3>1
  <2> QED BY <2>1
<1>4. \A u \in User : RoleTracked(u)' \/ \E r \in Request : req'[r].user = u /\ GivesRole(req'[r])
  BY <1>1 DEF Tracked, RoleTracked
<1>5. \A u \in User : TeamTracked(u)' \/ \E r \in Request : req'[r].user = u /\ GivesTeam(req'[r])
  BY <1>1 DEF Tracked, TeamTracked
<1>6. ASSUME NEW r \in Request
      PROVE  /\ GivesRole(req'[r]) => req'[r].role = users'[req'[r].user].role
             /\ GivesTeam(req'[r]) =>
                  users'[req'[r].user].team \in {req'[r].team, NoTeam} \/ req'[r].user \in moved'
  BY <1>1, Givers DEF Tracked
<1> QED BY <1>2, <1>3, <1>4, <1>5, <1>6 DEF Tracked

\* Only the three grants write a role or a team; a sign-up writes the defaults.
LEMMA HandleGrants ==
  ASSUME TypeOK, Tracked, NEW r \in Request, Handle(r), ~ApproveWrite(r), ~UpdateRoleWrite(r), ~UpdateTeamWrite(r)
  PROVE  /\ moved' = moved
         /\ \A u \in User : users'[u].role = users[u].role /\ users'[u].team = users[u].team
<1> DEFINE v == req[r].user
<1>1. CASE SignupCreate(r)
  <2>1. v \in User
    BY <1>1 DEF SignupCreate, At, TypeOK
  <2>2. [Absent EXCEPT !.status = "PENDING"].role = "ACTOR" /\ [Absent EXCEPT !.status = "PENDING"].team = NoTeam
    BY DEF Absent
  <2>3. moved' = moved
    BY <1>1 DEF SignupCreate
  <2> QED BY <1>1, <2>1, <2>2, <2>3 DEF SignupCreate, Tracked, TypeOK
<1>2. CASE ChangePasswordWrite(r) \/ RejectWrite(r) \/ DeactivateWrite(r) \/ ActivateWrite(r)
  <2>1. v \in User
    BY <1>2 DEF ChangePasswordWrite, RejectWrite, DeactivateWrite, ActivateWrite, At, TypeOK
  <2>2. ASSUME NEW st, NEW k
        PROVE  LET a == users[v]
               IN /\ [a EXCEPT !.status = st].role = a.role /\ [a EXCEPT !.status = st].team = a.team
                  /\ [a EXCEPT !.pw = k].role = a.role /\ [a EXCEPT !.pw = k].team = a.team
    BY <2>1 DEF TypeOK, Account
  <2>3. /\ users'[v].role = users[v].role /\ users'[v].team = users[v].team
        /\ \A u \in User : u # v => users'[u] = users[u]
    <3>1. CASE ChangePasswordWrite(r)
      BY <2>1, <2>2, <3>1 DEF ChangePasswordWrite, TypeOK
    <3>2. CASE RejectWrite(r)
      BY <2>1, <2>2, <3>2 DEF RejectWrite, TypeOK
    <3>3. CASE DeactivateWrite(r)
      BY <2>1, <2>2, <3>3 DEF DeactivateWrite, TypeOK
    <3>4. CASE ActivateWrite(r)
      BY <2>1, <2>2, <3>4 DEF ActivateWrite, TypeOK
    <3> QED BY <1>2, <3>1, <3>2, <3>3, <3>4
  <2>4. moved' = moved
    BY <1>2 DEF ChangePasswordWrite, RejectWrite, DeactivateWrite, ActivateWrite
  <2> QED BY <2>3, <2>4
<1>3. CASE ~SignupCreate(r) /\ ~ChangePasswordWrite(r) /\ ~RejectWrite(r) /\ ~DeactivateWrite(r) /\ ~ActivateWrite(r)
  <2>1. users' = users /\ moved' = moved
    BY <1>3 DEF Handle, GenerateTokens, RefreshRevokeOld, RefreshReload, LogoutRevoke, ChangePasswordRead,
       ChangePasswordRevoke, ApproveRead, RejectRead, UpdateRoleRead, UpdateTeamRead, DeactivateRead, ActivateRead,
       CheckTeam, DeactivateRevoke, NotifyDecision, AuditLog, RevokeAll, OnlyRequests, accounts
  <2> QED BY <2>1
<1> QED BY <1>1, <1>2, <1>3

\* A grant: it writes the account it is about, and from then on gives it.
LEMMA GrantStep ==
  ASSUME IInv, Tracked, OneGranter, NEW r \in Request, ApproveWrite(r) \/ UpdateRoleWrite(r) \/ UpdateTeamWrite(r),
         req'[r] # Idle
  PROVE  Tracked'
<1> USE DEF IInv
<1> DEFINE v == req[r].user
           w == users'[req[r].user]
<1>1. /\ Grants(req[r]) /\ req[r].pc = "write" /\ v \in User /\ users[v].status # "ABSENT" /\ audited' = audited
      /\ ~GivesRole(req[r]) /\ ~GivesTeam(req[r])
  BY DEF ApproveWrite, UpdateRoleWrite, UpdateTeamWrite, At, Grants, Tracked, OnlyUsers, records, GivesRole, GivesTeam
<1>2. /\ \A q \in Request \ {r} : req'[q] = req[q]
      /\ req'[r].op = req[r].op /\ req'[r].user = v /\ req'[r].role = req[r].role /\ req'[r].team = req[r].team
  BY HandleMoves DEF Handle
<1>3. \A u \in User : u # v => users'[u] = users[u]
  BY <1>1 DEF ApproveWrite, UpdateRoleWrite, UpdateTeamWrite, TypeOK
<1>m. \A u \in User : u # v \/ ~GivesTeam(req'[r]) => (u \in moved' <=> u \in moved)
  <2>1. CASE ApproveWrite(r)
    <3>1. req'[r].pc = "notify" /\ req[r].op = "approveUser"
      BY <2>1 DEF ApproveWrite, Proceed, Finish, Goto, At, TypeOK, Call
    <3> QED BY <1>2, <2>1, <3>1 DEF ApproveWrite, GivesTeam
  <2>2. CASE UpdateRoleWrite(r)
    BY <2>2 DEF UpdateRoleWrite
  <2>3. CASE UpdateTeamWrite(r)
    <3>1. req'[r].pc = "audit" /\ req[r].op = "updateUserTeam"
      BY <2>3 DEF UpdateTeamWrite, Proceed, Finish, Goto, At, TypeOK, Call
    <3> QED BY <1>2, <2>3, <3>1 DEF UpdateTeamWrite, GivesTeam
  <2> QED BY <2>1, <2>2, <2>3
<1>4. /\ w.status # "ABSENT"
      /\ \/ GivesRole(req'[r]) /\ w.role = req'[r].role
         \/ ~GivesRole(req'[r]) /\ w.role = users[v].role
      /\ \/ GivesTeam(req'[r]) /\ w.team = req'[r].team
         \/ ~GivesTeam(req'[r]) /\ w.team = users[v].team
  <2>1. ASSUME NEW ro, NEW te
        PROVE  LET a == users[v]
                   role == [a EXCEPT !.role = ro]
                   team == [a EXCEPT !.team = te]
                   both == [a EXCEPT !.status = "ACTIVE", !.role = ro, !.team = te]
               IN /\ role.status = a.status /\ role.role = ro /\ role.team = a.team
                  /\ team.status = a.status /\ team.role = a.role /\ team.team = te
                  /\ both.status = "ACTIVE" /\ both.role = ro /\ both.team = te
    BY <1>1 DEF TypeOK, Account
  <2>2. CASE ApproveWrite(r)
    <3>1. TeamValid(r) /\ req'[r].pc = "notify" /\ req[r].op = "approveUser"
      BY <2>2 DEF ApproveWrite, Proceed, Finish, Goto, At, TypeOK, Call
    <3>2. w = [users[v] EXCEPT !.status = "ACTIVE", !.role = req[r].role, !.team = req[r].team]
      BY <1>1, <2>2, <3>1 DEF ApproveWrite, TypeOK
    <3> QED BY <1>2, <2>1, <3>1, <3>2 DEF GivesRole, GivesTeam
  <2>3. CASE UpdateRoleWrite(r)
    <3>1. req'[r].pc = "audit" /\ req[r].op = "updateUserRole"
      BY <2>3 DEF UpdateRoleWrite, Goto, At, TypeOK, Call
    <3>2. w = [users[v] EXCEPT !.role = req[r].role]
      BY <1>1, <2>3 DEF UpdateRoleWrite, TypeOK
    <3> QED BY <1>1, <1>2, <2>1, <3>1, <3>2 DEF GivesRole, GivesTeam
  <2>4. CASE UpdateTeamWrite(r)
    <3>1. TeamValid(r) /\ req'[r].pc = "audit" /\ req[r].op = "updateUserTeam"
      BY <2>4 DEF UpdateTeamWrite, Proceed, Finish, Goto, At, TypeOK, Call
    <3>2. w = [users[v] EXCEPT !.team = req[r].team]
      BY <1>1, <2>4, <3>1 DEF UpdateTeamWrite, TypeOK
    <3> QED BY <1>1, <1>2, <2>1, <3>1, <3>2 DEF GivesRole, GivesTeam
  <2> QED BY <2>2, <2>3, <2>4
<1>5. ASSUME NEW q \in Request \ {r}, Grants(req[q]) PROVE req[q].user # v
  BY <1>1, <1>5 DEF OneGranter
<1>6. \A q \in Request \ {r} : GivesRole(req[q]) \/ GivesTeam(req[q]) => Grants(req[q]) /\ req[q].user \in User
  BY Givers
<1> HIDE DEF v, w
<1>7. \A u \in User : users'[u].status = "ABSENT" => users'[u].role = "ACTOR" /\ users'[u].team = NoTeam
  BY <1>1, <1>3, <1>4 DEF Tracked, v, w
<1>8. ASSUME NEW q \in Request, Grants(req'[q]), req'[q].pc # "read"
      PROVE  req'[q].user \in User /\ users'[req'[q].user].status # "ABSENT"
  <2>1. CASE q = r
    BY <1>1, <1>2, <1>4, <2>1 DEF v, w
  <2>2. CASE q # r
    BY <1>2, <1>3, <1>5, <1>8, <2>2 DEF Tracked
  <2> QED BY <2>1, <2>2
<1>9. ASSUME NEW u \in User PROVE RoleTracked(u)' \/ \E q \in Request : req'[q].user = u /\ GivesRole(req'[q])
  <2>1. CASE u = v /\ GivesRole(req'[r])
    BY <1>2, <2>1 DEF v
  <2>2. CASE u # v \/ ~GivesRole(req'[r])
    <3>1. users'[u].role = users[u].role
      BY <1>3, <1>4, <2>2 DEF v, w
    <3>2. \A q \in Request : GivesRole(req[q]) => req'[q] = req[q]
      BY <1>1, <1>2
    <3> QED BY <1>1, <3>1, <3>2 DEF Tracked, RoleTracked
  <2> QED BY <2>1, <2>2
<1>10. ASSUME NEW u \in User PROVE TeamTracked(u)' \/ \E q \in Request : req'[q].user = u /\ GivesTeam(req'[q])
  <2>1. CASE u = v /\ GivesTeam(req'[r])
    BY <1>2, <2>1 DEF v
  <2>2. CASE u # v \/ ~GivesTeam(req'[r])
    <3>1. users'[u].team = users[u].team /\ (u \in moved' <=> u \in moved)
      BY <1>3, <1>m, <1>4, <2>2 DEF v, w
    <3>2. \A q \in Request : GivesTeam(req[q]) => req'[q] = req[q]
      BY <1>1, <1>2
    <3> QED BY <1>1, <3>1, <3>2 DEF Tracked, TeamTracked
  <2> QED BY <2>1, <2>2
<1>11. ASSUME NEW q \in Request
       PROVE  /\ GivesRole(req'[q]) => req'[q].role = users'[req'[q].user].role
              /\ GivesTeam(req'[q]) =>
                   users'[req'[q].user].team \in {req'[q].team, NoTeam} \/ req'[q].user \in moved'
  <2>1. CASE q = r
    BY <1>2, <1>4, <2>1 DEF v, w
  <2>2. CASE q # r
    BY <1>2, <1>3, <1>m, <1>5, <1>6, <2>2 DEF Tracked
  <2> QED BY <2>1, <2>2
<1> QED BY <1>7, <1>8, <1>9, <1>10, <1>11 DEF Tracked

\* An audit row takes over what its request gave.
LEMMA RecordStep ==
  ASSUME IInv, CallsFit, Tracked, ~Faulty, NEW r \in Request, AuditLog(r)
  PROVE  Tracked'
<1> USE DEF IInv
<1> DEFINE v == req[r].user
           row == NewData(req[r], audited[v])
<1>1. /\ req[r].pc = "audit" /\ v \in User /\ users' = users /\ moved' = moved /\ audited' = [audited EXCEPT ![v] = row]
      /\ req'[r] = Idle /\ \A q \in Request \ {r} : req'[q] = req[q]
  BY DEF AuditLog, accounts, Finish, TypeOK
<1>2. audited'[v] = row /\ \A u \in User : u # v => audited'[u] = audited[u]
  BY <1>1 DEF TypeOK
<1>3. /\ GivesRole(req[r]) => row.role = req[r].role
      /\ ~GivesRole(req[r]) => row.role = audited[v].role
      /\ GivesTeam(req[r]) => row.team = req[r].team \/ req[r].team = NoTeam
      /\ ~GivesTeam(req[r]) => row.team = audited[v].team
  <2>1. audited[v] \in Record /\ req[r].op \in {"approveUser", "rejectUser", "updateUserRole", "updateUserTeam"}
    BY <1>1 DEF TypeOK, CallsFit, Fits
  <2>2. ASSUME NEW old \in Record, NEW ro, NEW te
        PROVE  LET status == [old EXCEPT !.status = "INACTIVE"]
                   role == [old EXCEPT !.role = ro]
                   team == [old EXCEPT !.team = te]
               IN /\ status.role = old.role /\ status.team = old.team
                  /\ role.role = ro /\ role.team = old.team
                  /\ team.role = old.role /\ team.team = te
    BY DEF Record
  <2>3. CASE req[r].op = "approveUser"
    BY <1>1, <2>3 DEF NewData, GivesRole, GivesTeam
  <2>4. CASE req[r].op = "rejectUser"
    BY <1>1, <2>1, <2>2, <2>4 DEF NewData, GivesRole, GivesTeam
  <2>5. CASE req[r].op = "updateUserRole"
    <3>1. row = [audited[v] EXCEPT !.role = req[r].role]
      BY <2>5 DEF NewData
    <3> QED BY <1>1, <2>1, <2>2, <2>5, <3>1 DEF GivesRole, GivesTeam
  <2>6. CASE req[r].op = "updateUserTeam"
    BY <1>1, <2>1, <2>2, <2>6 DEF NewData, GivesRole, GivesTeam
  <2> QED BY <2>1, <2>3, <2>4, <2>5, <2>6
<1> HIDE DEF row
<1>4. ASSUME NEW u \in User PROVE RoleTracked(u)' \/ \E q \in Request : req'[q].user = u /\ GivesRole(req'[q])
  <2>1. CASE u = v /\ GivesRole(req[r])
    BY <1>1, <1>2, <1>3, <2>1 DEF Tracked, RoleTracked
  <2>2. CASE u # v \/ ~GivesRole(req[r])
    <3>1. audited'[u].role = audited[u].role
      BY <1>2, <1>3, <2>2
    <3>2. ASSUME NEW q \in Request, req[q].user = u, GivesRole(req[q]) PROVE req'[q] = req[q]
      BY <1>1, <2>2, <3>2
    <3> QED BY <1>1, <3>1, <3>2 DEF Tracked, RoleTracked
  <2> QED BY <2>1, <2>2
<1>5. ASSUME NEW u \in User PROVE TeamTracked(u)' \/ \E q \in Request : req'[q].user = u /\ GivesTeam(req'[q])
  <2>1. CASE u = v /\ GivesTeam(req[r])
    BY <1>1, <1>2, <1>3, <2>1 DEF Tracked, TeamTracked
  <2>2. CASE u # v \/ ~GivesTeam(req[r])
    <3>1. audited'[u].team = audited[u].team
      BY <1>2, <1>3, <2>2
    <3>2. ASSUME NEW q \in Request, req[q].user = u, GivesTeam(req[q]) PROVE req'[q] = req[q]
      BY <1>1, <2>2, <3>2
    <3> QED BY <1>1, <3>1, <3>2 DEF Tracked, TeamTracked
  <2> QED BY <2>1, <2>2
<1>6. ~Grants(Idle) /\ ~GivesRole(Idle) /\ ~GivesTeam(Idle)
  BY DEF Idle, Grants, GivesRole, GivesTeam
<1>7. \A q \in Request : Grants(req'[q]) /\ req'[q].pc # "read" =>
        req'[q].user \in User /\ users'[req'[q].user].status # "ABSENT"
  BY <1>1, <1>6 DEF Tracked
<1>8. \A q \in Request : /\ GivesRole(req'[q]) => req'[q].role = users'[req'[q].user].role
                         /\ GivesTeam(req'[q]) =>
                              users'[req'[q].user].team \in {req'[q].team, NoTeam} \/ req'[q].user \in moved'
  BY <1>1, <1>6 DEF Tracked
<1>9. \A u \in User : users'[u].status = "ABSENT" => users'[u].role = "ACTOR" /\ users'[u].team = NoTeam
  BY <1>1 DEF Tracked
<1> QED BY <1>4, <1>5, <1>7, <1>8, <1>9 DEF Tracked

LEMMA TrackedStep ==
  ASSUME IInv, CallsFit, Tracked, OneGranter, ~Faulty, [Next]_vars
  PROVE  Tracked'
<1> USE DEF IInv
<1>1. ~Grants(Idle) /\ ~GivesRole(Idle) /\ ~GivesTeam(Idle)
  BY DEF Idle, Grants, GivesRole, GivesTeam
<1>2. ASSUME NEW r \in Request, Arrive(r) PROVE Tracked'
  <2>1. UNCHANGED <<users, moved, audited>> /\ req[r] = Idle /\ \A q \in Request \ {r} : req'[q] = req[q]
    BY <1>2, ArriveMoves DEF OnlyRequests, accounts, records
  <2>2. /\ ~GivesRole(req'[r]) /\ ~GivesTeam(req'[r])
        /\ ~(Grants(req'[r]) /\ req'[r].pc # "read")
    BY <1>2, ArriveMoves DEF GivesRole, GivesTeam, Grants
  <2> QED BY <1>1, <2>1, <2>2, TrackedKept
<1>3. ASSUME NEW r \in Request, ApproveWrite(r) \/ UpdateRoleWrite(r) \/ UpdateTeamWrite(r) PROVE Tracked'
  <2>1. CASE req'[r] # Idle
    BY <1>3, <2>1, GrantStep
  <2>2. CASE req'[r] = Idle
    <3>1. UNCHANGED <<users, moved, audited>> /\ ~GivesRole(req[r]) /\ ~GivesTeam(req[r])
      BY <1>3, <2>2 DEF ApproveWrite, UpdateRoleWrite, UpdateTeamWrite, Proceed, Goto, OnlyUsers, records, At, Idle,
                        GivesRole, GivesTeam, TypeOK, Call
    <3>2. \A q \in Request \ {r} : req'[q] = req[q]
      BY <1>3, HandleMoves DEF Handle
    <3> QED BY <1>1, <2>2, <3>1, <3>2, TrackedKept
  <2> QED BY <2>1, <2>2
<1>4. ASSUME NEW r \in Request, AuditLog(r) PROVE Tracked'
  BY <1>4, RecordStep
<1>5. ASSUME NEW r \in Request, Handle(r), ~ApproveWrite(r), ~UpdateRoleWrite(r), ~UpdateTeamWrite(r), ~AuditLog(r)
      PROVE  Tracked'
  <2>1. /\ moved' = moved
        /\ \A u \in User : /\ users'[u].role = users[u].role /\ users'[u].team = users[u].team
                           /\ users'[u].status = "ABSENT" => users[u].status = "ABSENT"
    BY <1>5, HandleGrants, HandleOneWay DEF OneWay
  <2>2. audited' = audited
    BY <1>5 DEF Handle, SignupCreate, GenerateTokens, RefreshRevokeOld, RefreshReload, LogoutRevoke, ChangePasswordRead,
         ChangePasswordWrite, ChangePasswordRevoke, ApproveRead, RejectRead, UpdateRoleRead, UpdateTeamRead,
         DeactivateRead, ActivateRead, CheckTeam, RejectWrite, DeactivateWrite, DeactivateRevoke, ActivateWrite,
         NotifyDecision, RevokeAll, OnlyRequests, OnlyUsers, records
  <2>3. /\ GivesRole(req'[r]) <=> GivesRole(req[r])
        /\ GivesTeam(req'[r]) <=> GivesTeam(req[r])
        /\ GivesRole(req[r]) \/ GivesTeam(req[r]) =>
             req'[r].user = req[r].user /\ req'[r].role = req[r].role /\ req'[r].team = req[r].team
        /\ Grants(req'[r]) /\ req'[r].pc # "read" =>
             req'[r].user \in User /\ users[req'[r].user].status # "ABSENT"
    <3>1. CASE NotifyDecision(r)
      <4>1. /\ req'[r].pc = "audit" /\ req[r].pc = "notify" /\ req'[r].op = req[r].op /\ req'[r].user = req[r].user
            /\ req'[r].role = req[r].role /\ req'[r].team = req[r].team
        BY <3>1 DEF NotifyDecision, Goto, TypeOK, Call
      <4>2. req[r].op \in {"approveUser", "rejectUser"}
        BY <4>1 DEF CallsFit, Fits
      <4>3. Grants(req'[r]) => req'[r].user \in User /\ users[req'[r].user].status # "ABSENT"
        BY <4>1 DEF Grants, Tracked
      <4> QED BY <4>1, <4>2, <4>3 DEF GivesRole, GivesTeam
    <3>2. CASE ApproveRead(r) \/ UpdateRoleRead(r) \/ UpdateTeamRead(r) \/ CheckTeam(r)
      <4>1. req'[r] = Idle \/ req'[r].pc \in {"write", "checkTeam"}
        BY <3>2 DEF ApproveRead, UpdateRoleRead, UpdateTeamRead, CheckTeam, AskedTeam, Proceed, Goto, Finish, TypeOK, Call
      <4>2. ~GivesRole(req[r]) /\ ~GivesTeam(req[r]) /\ ~GivesRole(req'[r]) /\ ~GivesTeam(req'[r])
        BY <1>1, <3>2, <4>1 DEF ApproveRead, UpdateRoleRead, UpdateTeamRead, CheckTeam, At, GivesRole, GivesTeam
      <4>3. CASE req'[r] # Idle /\ Grants(req'[r])
        <5>1. req'[r].user = req[r].user /\ Grants(req[r])
          BY <1>5, <4>3, HandleMoves DEF Grants
        <5>2. req[r].user \in User /\ users[req[r].user].status # "ABSENT"
          BY <3>2, <4>3, <5>1 DEF ApproveRead, UpdateRoleRead, UpdateTeamRead, CheckTeam, Proceed, Finish, Decidable,
                                  Found, Target, At, Tracked, TypeOK
        <5> QED BY <4>2, <5>1, <5>2
      <4> QED BY <1>1, <4>2, <4>3
    <3>3. CASE ~NotifyDecision(r) /\ ~ApproveRead(r) /\ ~UpdateRoleRead(r) /\ ~UpdateTeamRead(r) /\ ~CheckTeam(r)
      <4>1. ~Grants(req[r])
        BY <1>5, <3>3 DEF Handle, SignupCreate, GenerateTokens, RefreshRevokeOld, RefreshReload, LogoutRevoke,
             ChangePasswordRead, ChangePasswordWrite, ChangePasswordRevoke, RejectRead, DeactivateRead, ActivateRead,
             RejectWrite, DeactivateWrite, DeactivateRevoke, ActivateWrite, At, Grants, RequestOK
      <4>2. ~Grants(req'[r])
        BY <1>1, <1>5, <4>1, HandleMoves DEF Grants
      <4> QED BY <4>1, <4>2 DEF Grants, GivesRole, GivesTeam
    <3> QED BY <3>1, <3>2, <3>3
  <2>4. \A q \in Request \ {r} : req'[q] = req[q]
    BY <1>5, HandleMoves
  <2> QED BY <2>1, <2>2, <2>3, <2>4, TrackedKept
<1>6. CASE Tick \/ UNCHANGED vars \/ TeamsWrite
  <2>1. UNCHANGED <<req, audited>> /\ moved \subseteq moved'
    BY <1>6, TeamsWriteTeams DEF Tick, vars, records, accounts
  <2>2. \A u \in User : /\ users'[u].role = users[u].role
                        /\ \/ users'[u].team \in {users[u].team, NoTeam}
                           \/ u \in moved' /\ users[u].status # "ABSENT"
                        /\ users'[u].status = users[u].status
    BY <1>6, TeamsWriteTeams DEF Tick, vars, accounts
  <2> QED BY <2>1, <2>2, TrackedKept
<1> QED BY <1>2, <1>3, <1>4, <1>5, <1>6 DEF Next, TeamsWrite, Crash

\* The audit rows account for every role and team administrators hand out, when the
\* requests that hand them out do not overlap on an account, none is cut short and
\* no insert of a row fails (admin.service.ts:62-251, audit.service.ts:80-99).  The
\* member endpoints of the teams may write the same column at any moment and write
\* no row (teams.service.ts:221, 272, 337): a team they wrote last is the one case
\* where the rows do not say what an account has.
THEOREM AuditTracksGrantsAlone ==
  ASSUME ~Faulty
  PROVE  Spec /\ []OneGranter => []AuditTracksGrants
<1>1. Init => Tracked
  <2> SUFFICES ASSUME Init PROVE Tracked
    OBVIOUS
  <2>1. \A r \in Request : ~Grants(req[r]) /\ ~GivesRole(req[r]) /\ ~GivesTeam(req[r])
    BY DEF Init, Idle, Grants, GivesRole, GivesTeam
  <2>2. \A u \in User : users[u].team = NoTeam /\ audited[u].role = "unset"
    BY DEF Init, Seeded, Absent, Unrecorded
  <2>3. \A u \in User : users[u].status = "ABSENT" => users[u].role = "ACTOR"
    BY DEF Init, Seeded, Absent
  <2> QED BY <2>1, <2>2, <2>3 DEF Tracked, RoleTracked, TeamTracked
<1>2. IInv /\ CallsFit /\ Tracked /\ OneGranter /\ [Next]_vars => Tracked'
  BY TrackedStep
<1>3. Tracked => AuditTracksGrants
  <2>1. ~GivesRole(Idle) /\ ~GivesTeam(Idle)
    BY DEF Idle, GivesRole, GivesTeam
  <2> QED BY <2>1 DEF Tracked, RoleTracked, TeamTracked, AuditTracksGrants, Quiet
<1> QED BY <1>1, <1>2, <1>3, Inductive, AlwaysFits, PTL DEF Spec

-----------------------------------------------------------------------------
(* The safety half of DecisionIsTold: what fairness has left to do.           *)

DecidesAlone == Ops \intersect {"deactivateUser", "activateUser"} = {}

\* Whoever was decided on was told, or the request that decided is about to tell.
ToldOrAboutTo ==
  \A u \in User \ Seed :
    ~Undecided(u) => inbox[u] # <<>> \/ \E r \in Request : req[r].user = u /\ req[r].pc = "notify"

\* A request about to tell does so before anything else.
TellsNext == [][\A r \in Request : req[r].pc = "notify" => req'[r] = req[r] \/ NotifyDecision(r)]_vars

OpsInUse == \A r \in Request : req[r].op \in Ops \union {"none"}

\* Requests are of the endpoints in use.
LEMMA AlwaysInUse == Spec => []OpsInUse
<1>1. Init => OpsInUse
  BY DEF Init, Idle, OpsInUse
<1>2. TypeOK /\ OpsInUse /\ [Next]_vars => OpsInUse'
  <2> SUFFICES ASSUME TypeOK, OpsInUse, [Next]_vars PROVE OpsInUse'
    OBVIOUS
  <2>1. ASSUME NEW r \in Request, Arrive(r) PROVE OpsInUse'
    <3>1. ASSUME NEW call, Begin(r, call) PROVE OpsInUse'
      BY <3>1 DEF Begin, OpsInUse, TypeOK
    <3> QED BY <2>1, <3>1 DEF Arrive, SignupRead, LoginRead, RefreshValidate, EnterLogout, EnterChangePassword,
                              EnterAdmin
  <2>2. ASSUME NEW r \in Request, Handle(r) PROVE OpsInUse'
    BY <2>2, HandleMoves DEF OpsInUse, Idle
  <2>3. CASE Crash
    BY <2>3 DEF Crash, OpsInUse, Idle
  <2>4. CASE Tick \/ UNCHANGED vars \/ TeamsWrite
    BY <2>4, TeamsWriteTeams DEF Tick, vars, OpsInUse
  <2> QED BY <2>1, <2>2, <2>3, <2>4 DEF Next, TeamsWrite
<1> QED BY <1>1, <1>2, TypeCorrect, PTL DEF Spec

\* A step that leaves every request about to tell alone, decides on nobody and takes
\* no notice away changes nothing.
LEMMA AboutToKept ==
  ASSUME ToldOrAboutTo, inbox' = inbox,
         \A u \in User : Undecided(u)' <=> Undecided(u),
         \A q \in Request : req[q].pc = "notify" => req'[q] = req[q]
  PROVE  ToldOrAboutTo'
BY DEF ToldOrAboutTo

LEMMA AboutToStep ==
  ASSUME TypeOK, OpsInUse, ToldOrAboutTo, ~Faulty, DecidesAlone, [Next]_vars
  PROVE  /\ ToldOrAboutTo'
         /\ \A r \in Request : req[r].pc = "notify" => req'[r] = req[r] \/ NotifyDecision(r)
<1>1. ASSUME NEW r \in Request, Arrive(r)
      PROVE  ToldOrAboutTo' /\ \A q \in Request : req[q].pc = "notify" => req'[q] = req[q]
  <2>1. \A q \in Request : req[q].pc = "notify" => req'[q] = req[q]
    BY <1>1, ArriveMoves DEF Idle
  <2>2. UNCHANGED <<users, inbox>>
    BY <1>1, ArriveMoves DEF OnlyRequests, accounts, records
  <2> QED BY <2>1, <2>2, AboutToKept DEF Undecided
<1>2. ASSUME NEW r \in Request, NotifyDecision(r)
      PROVE  ToldOrAboutTo' /\ \A q \in Request \ {r} : req'[q] = req[q]
  <2>1. \A q \in Request \ {r} : req'[q] = req[q]
    BY <1>2, HandleMoves DEF Handle
  <2>2. users' = users
    BY <1>2 DEF NotifyDecision, accounts
  <2> DEFINE m == IF req[r].op = "approveUser" THEN "USER_APPROVED" ELSE "USER_REJECTED"
             v == req[r].user
  <2>3. inbox' = [inbox EXCEPT ![v] = Append(inbox[v], m)]
    BY <1>2 DEF NotifyDecision
  <2>4. ASSUME NEW u \in User PROVE inbox'[u] = (IF u = v THEN Append(inbox[u], m) ELSE inbox[u])
    BY <2>3 DEF TypeOK
  <2>5. ASSUME NEW u \in User PROVE Append(inbox[u], m) # <<>>
    <3>1. inbox[u] \in Seq({"USER_APPROVED", "USER_REJECTED"}) /\ m \in {"USER_APPROVED", "USER_REJECTED"}
      BY DEF TypeOK
    <3> HIDE DEF m
    <3>2. Len(Append(inbox[u], m)) = Len(inbox[u]) + 1 /\ Len(inbox[u]) \in Nat
      BY <3>1
    <3>3. Len(<<>>) = 0
      OBVIOUS
    <3>4. Append(inbox[u], m) = <<>> => Len(inbox[u]) + 1 = 0
      BY <3>2, <3>3
    <3> QED BY <3>2, <3>4
  <2> HIDE DEF m
  <2>6. \A u \in User : inbox[u] # <<>> \/ u = v => inbox'[u] # <<>>
    BY <2>4, <2>5
  <2> QED BY <2>1, <2>2, <2>6 DEF ToldOrAboutTo, Undecided
<1>3. ASSUME NEW r \in Request, ApproveWrite(r) \/ RejectWrite(r)
      PROVE  ToldOrAboutTo' /\ \A q \in Request : req[q].pc = "notify" => req'[q] = req[q]
  <2> DEFINE v == req[r].user
  <2>1. inbox' = inbox /\ req[r].pc = "write" /\ \A q \in Request \ {r} : req'[q] = req[q]
    BY <1>3, HandleMoves DEF Handle, ApproveWrite, RejectWrite, OnlyUsers, records, At
  <2>2. \A u \in User \ {v} : users'[u] = users[u]
    BY <1>3 DEF ApproveWrite, RejectWrite, TypeOK
  <2>3. users' = users \/ (req'[r].user = v /\ req'[r].pc = "notify")
    BY <1>3 DEF ApproveWrite, RejectWrite, Proceed, Goto, TypeOK, Call
  <2> HIDE DEF v
  <2>4. \A q \in Request : req[q].pc = "notify" => req'[q] = req[q]
    BY <2>1
  <2>5. CASE users' = users
    BY <2>1, <2>4, <2>5, AboutToKept DEF Undecided
  <2>6. CASE req'[r].user = v /\ req'[r].pc = "notify"
    <3> SUFFICES ASSUME NEW u \in User \ Seed, ~Undecided(u)', inbox'[u] = <<>>
                 PROVE  \E q \in Request : req'[q].user = u /\ req'[q].pc = "notify"
      BY <2>4 DEF ToldOrAboutTo
    <3>1. CASE u = v
      BY <2>6, <3>1
    <3>2. CASE u # v
      <4>1. ~Undecided(u) /\ inbox[u] = <<>>
        BY <2>1, <2>2, <3>2 DEF Undecided
      <4> QED BY <2>4, <4>1 DEF ToldOrAboutTo
    <3> QED BY <3>1, <3>2
  <2> QED BY <2>3, <2>4, <2>5, <2>6
<1>4. ASSUME NEW r \in Request, Handle(r), ~NotifyDecision(r), ~ApproveWrite(r), ~RejectWrite(r)
      PROVE  ToldOrAboutTo' /\ \A q \in Request : req[q].pc = "notify" => req'[q] = req[q]
  <2>1. req[r].op \notin {"deactivateUser", "activateUser"}
    BY DEF OpsInUse, DecidesAlone
  <2>2. ~DeactivateWrite(r) /\ ~ActivateWrite(r)
    BY <2>1 DEF DeactivateWrite, ActivateWrite, At
  <2>3. req[r].pc # "notify" /\ inbox' = inbox
    BY <1>4, <2>1 DEF Handle, SignupCreate, GenerateTokens, RefreshRevokeOld, RefreshReload, LogoutRevoke,
         ChangePasswordRead, ChangePasswordWrite, ChangePasswordRevoke, ApproveRead, RejectRead, UpdateRoleRead,
         UpdateTeamRead, DeactivateRead, ActivateRead, CheckTeam, UpdateRoleWrite, UpdateTeamWrite, DeactivateWrite,
         DeactivateRevoke, ActivateWrite, AuditLog, RevokeAll, OnlyRequests, OnlyUsers, records, At
  <2>4. \A u \in User : Undecided(u)' <=> Undecided(u)
    <3>1. CASE SignupCreate(r)
      BY <3>1 DEF SignupCreate, Absent, Undecided, TypeOK
    <3>2. CASE ChangePasswordWrite(r) \/ UpdateRoleWrite(r) \/ UpdateTeamWrite(r)
      <4> DEFINE v == req[r].user
      <4>1. \/ users' = users
            \/ \E x : \/ users' = [users EXCEPT ![v] = [users[v] EXCEPT !.pw = x]]
                     \/ users' = [users EXCEPT ![v] = [users[v] EXCEPT !.role = x]]
                     \/ users' = [users EXCEPT ![v] = [users[v] EXCEPT !.team = x]]
        BY <3>2, Zenon DEF ChangePasswordWrite, UpdateRoleWrite, UpdateTeamWrite
      <4>2. ASSUME NEW x, NEW u \in User
            PROVE  /\ [users EXCEPT ![v] = [users[v] EXCEPT !.pw = x]][u].status = users[u].status
                   /\ [users EXCEPT ![v] = [users[v] EXCEPT !.role = x]][u].status = users[u].status
                   /\ [users EXCEPT ![v] = [users[v] EXCEPT !.team = x]][u].status = users[u].status
        <5>1. /\ users[v] \in Account => [users[v] EXCEPT !.pw = x].status = users[v].status
              /\ users[v] \in Account => [users[v] EXCEPT !.role = x].status = users[v].status
              /\ users[v] \in Account => [users[v] EXCEPT !.team = x].status = users[v].status
          BY DEF Account
        <5>2. users[u] \in Account /\ DOMAIN users = User
          BY DEF TypeOK
        <5> HIDE DEF v
        <5> QED BY <5>1, <5>2
      <4> HIDE DEF v
      <4>3. ASSUME NEW u \in User PROVE users'[u].status = users[u].status
        <5>1. ASSUME NEW x, users' = [users EXCEPT ![v] = [users[v] EXCEPT !.pw = x]]
              PROVE  users'[u].status = users[u].status
          BY <4>2, <5>1, Zenon
        <5>2. ASSUME NEW x, users' = [users EXCEPT ![v] = [users[v] EXCEPT !.role = x]]
              PROVE  users'[u].status = users[u].status
          BY <4>2, <5>2, Zenon
        <5>3. ASSUME NEW x, users' = [users EXCEPT ![v] = [users[v] EXCEPT !.team = x]]
              PROVE  users'[u].status = users[u].status
          BY <4>2, <5>3, Zenon
        <5> QED BY <4>1, <5>1, <5>2, <5>3, Zenon
      <4> QED BY <4>3 DEF Undecided
    <3>3. CASE ~SignupCreate(r) /\ ~ChangePasswordWrite(r) /\ ~UpdateRoleWrite(r) /\ ~UpdateTeamWrite(r)
      <4>1. users' = users
        BY <1>4, <2>2, <3>3 DEF Handle, GenerateTokens, RefreshRevokeOld, RefreshReload, LogoutRevoke,
             ChangePasswordRead, ChangePasswordRevoke, ApproveRead, RejectRead, UpdateRoleRead, UpdateTeamRead,
             DeactivateRead, ActivateRead, CheckTeam, DeactivateRevoke, AuditLog, RevokeAll, OnlyRequests, accounts
      <4> QED BY <4>1 DEF Undecided
    <3> QED BY <3>1, <3>2, <3>3
  <2>5. \A q \in Request : req[q].pc = "notify" => req'[q] = req[q]
    BY <1>4, <2>3, HandleMoves
  <2> QED BY <2>3, <2>4, <2>5, AboutToKept
<1>5. CASE Tick \/ UNCHANGED vars \/ TeamsWrite
  <2>1. UNCHANGED <<req, inbox>>
    BY <1>5, TeamsWriteTeams DEF Tick, vars, records
  <2>2. \A u \in User : users'[u].status = users[u].status
    BY <1>5, TeamsWriteTeams DEF Tick, vars, accounts
  <2> QED BY <2>1, <2>2, AboutToKept DEF Undecided
<1>6. ~Crash
  BY DEF Crash
<1> QED BY <1>1, <1>2, <1>3, <1>4, <1>5, <1>6 DEF Next, TeamsWrite

\* An account that was decided on was told, or the request that decided is at the call
\* that tells it, and makes no other before: all that DecisionIsTold leaves to fairness
\* is that this one call ends.  Where nothing crashes, and where nobody takes the way
\* round the decision that activateUser and deactivateUser are
\* (admin.service.ts:89-163).
THEOREM DecisionsAreToldNext ==
  ASSUME ~Faulty, DecidesAlone
  PROVE  Spec => []ToldOrAboutTo /\ TellsNext
<1>1. Init => ToldOrAboutTo
  BY DEF Init, Absent, Undecided, ToldOrAboutTo
<1>2. TypeOK /\ OpsInUse /\ ToldOrAboutTo /\ [Next]_vars
        => /\ ToldOrAboutTo'
           /\ \A r \in Request : req[r].pc = "notify" => req'[r] = req[r] \/ NotifyDecision(r)
  BY AboutToStep
<1> QED BY <1>1, <1>2, TypeCorrect, AlwaysInUse, PTL DEF Spec, TellsNext

=============================================================================
