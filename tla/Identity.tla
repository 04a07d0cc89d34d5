------------------------------ MODULE Identity ------------------------------
(***************************************************************************)
(* Accounts and sessions: AuthService, the two passport strategies, the    *)
(* JWT and roles guards, UsersService.changePassword and AdminService.     *)
(*                                                                         *)
(* A handler is a chain of awaited Prisma calls with no transaction around *)
(* them, so each call is one step of a request: req[r] holds the endpoint, *)
(* the next call (pc) and the values the handler keeps from earlier calls. *)
(* Requests interleave at every call, and a crash forgets all of them.     *)
(* A public request refused by its first read changes nothing and is left  *)
(* out.                                                                    *)
(***************************************************************************)
EXTENDS Naturals, Sequences

CONSTANTS
  User,        \* accounts (the e-mail address is unique, so it names them)
  Seed,        \* the owner accounts prisma/seed.ts creates, ACTIVE and OWNER
  Team, NoTeam,
  Roles,       \* the roles administrators hand out
  Request,     \* how many requests may be in flight at once
  Ops,         \* the endpoints in use
  MaxTime,     \* bound on the clock
  AccessTTL,   \* life of an access token ('15m'), in ticks
  RefreshTTL,  \* life of a refresh token ('7d'), in ticks
  MaxPw,       \* changePassword is not called once an account had this many
  Faulty,      \* TRUE: the process may crash, an audit insert may fail
  NoUser, NoSession

UserRole == {"OWNER", "TEAM_LEAD", "HEAD", "LEAD", "ACTOR"}
UserStatus == {"ABSENT", "PENDING", "ACTIVE", "INACTIVE"}
Time == 0 .. MaxTime

\* sign({sub}) adds the second of signing, and nothing else differs between
\* two refresh tokens: the token, and its hash, are the pair.
Session == User \X Time

ASSUME IdentityAssumption ==
  /\ Seed \subseteq User
  /\ Roles \subseteq UserRole
  /\ MaxTime \in Nat /\ AccessTTL \in Nat /\ RefreshTTL \in Nat /\ MaxPw \in Nat
  /\ Faulty \in BOOLEAN
  /\ NoUser \notin User /\ NoTeam \notin Team /\ NoSession \notin Session

VARIABLES
  users,          \* the User table: status, role, team and password version
  teams,          \* the ids in the Team table
  refreshTokens,  \* the RefreshToken table, by token
  now,            \* the clock
  req,            \* the requests in flight
  inbox,          \* decision notifications stored for each account
  audited,        \* what the audit rows, replayed in order, say of each account
  moved,          \* history: accounts whose team a member endpoint wrote last
  origin          \* history: the password a session goes back to, and the
                  \* session that was rotated into it

vars == <<users, teams, refreshTokens, now, req, inbox, audited, moved, origin>>
accounts == <<users, teams, moved>>
sessions == <<refreshTokens, origin>>
records == <<inbox, audited>>

\* Frames: a step that only moves its request on; one that also writes a user row.
OnlyRequests == UNCHANGED <<accounts, sessions, now, records>>
OnlyUsers == UNCHANGED <<teams, sessions, now, records>>

PublicOps == {"signup", "login", "refresh"}
SelfOps == {"logout", "changePassword"}
AdminOps == {"approveUser", "rejectUser", "updateUserRole", "updateUserTeam",
             "deactivateUser", "activateUser"}

Idle == [op |-> "none", pc |-> "idle", user |-> NoUser, tok |-> NoSession,
         pw |-> 0, role |-> "ACTOR", team |-> NoTeam]

\* signup's defaults: schema.prisma gives role ACTOR and no team.
Absent == [status |-> "ABSENT", role |-> "ACTOR", team |-> NoTeam, pw |-> 0]
Seeded == [Absent EXCEPT !.status = "ACTIVE", !.role = "OWNER"]
Unrecorded == [status |-> "unset", role |-> "unset", team |-> "unset"]

Init ==
  /\ users = [u \in User |-> IF u \in Seed THEN Seeded ELSE Absent]
  /\ teams = Team
  /\ refreshTokens = [s \in Session |-> "none"]
  /\ now = 0
  /\ req = [r \in Request |-> Idle]
  /\ inbox = [u \in User |-> <<>>]
  /\ audited = [u \in User |-> Unrecorded]
  /\ moved = {}
  /\ origin = [s \in Session |-> [pw |-> 0, parent |-> NoSession]]

-----------------------------------------------------------------------------
(* Requests *)

Begin(r, call) == /\ req[r] = Idle
                  /\ call.op \in Ops
                  /\ req' = [req EXCEPT ![r] = call]
At(r, op, pc) == req[r].op = op /\ req[r].pc = pc
Goto(r, pc) == req' = [req EXCEPT ![r].pc = pc]
\* Mutant: the record of a finished request is not cleared.
Finish_Lingers(r) == req' = [req EXCEPT ![r].pc = "done"]
Finish(r) == req' = [req EXCEPT ![r] = Idle]
Proceed(r, ok, pc) == IF ok THEN Goto(r, pc) ELSE Finish(r)

-----------------------------------------------------------------------------
(* POST /auth/signup *)

\* findUnique({email}) finds nobody.
EmailFree(u) == users[u].status = "ABSENT"

SignupRead(r, u) ==
  /\ EmailFree(u)
  /\ Begin(r, [Idle EXCEPT !.op = "signup", !.pc = "create", !.user = u])
  /\ OnlyRequests

\* Mutant: an upsert, which resets an account that came into being meanwhile.
SignupCreate_Upserts(r) ==
  /\ At(r, "signup", "create")
  /\ users' = [users EXCEPT ![req[r].user] = [Absent EXCEPT !.status = "PENDING"]]
  /\ Finish(r)
  /\ OnlyUsers /\ UNCHANGED moved

\* The insert; a row that came into being since the read makes it a P2002.
SignupCreate(r) ==
  LET u == req[r].user IN
  /\ At(r, "signup", "create")
  /\ users' = IF users[u].status = "ABSENT"
              THEN [users EXCEPT ![u] = [Absent EXCEPT !.status = "PENDING"]]
              ELSE users
  /\ Finish(r)
  /\ OnlyUsers /\ UNCHANGED moved

-----------------------------------------------------------------------------
(* POST /auth/login and generateTokens *)

\* Mutant: login only looks for INACTIVE.
LoginRead_PendingToo(r, u) ==
  /\ users[u].status \notin {"ABSENT", "INACTIVE"}
  /\ Begin(r, [Idle EXCEPT !.op = "login", !.pc = "issue", !.user = u,
                           !.pw = users[u].pw])
  /\ OnlyRequests

LoginRead(r, u) ==
  /\ users[u].status \notin {"ABSENT", "PENDING", "INACTIVE"}
  /\ Begin(r, [Idle EXCEPT !.op = "login", !.pc = "issue", !.user = u,
                           !.pw = users[u].pw])
  /\ OnlyRequests

\* Mutant: an upsert instead of an insert, which brings a revoked token back.
GenerateTokens_Upserts(r) ==
  LET s == <<req[r].user, now>> IN
  /\ req[r].pc = "issue"
  /\ refreshTokens' = [refreshTokens EXCEPT ![s] = "live"]
  /\ Finish(r)
  /\ UNCHANGED <<accounts, now, records, origin>>

\* Signing and the insert are issued together.  tokenHash is unique: a second
\* token for the same user in the same second is refused with P2002.
GenerateTokens(r) ==
  LET s == <<req[r].user, now>> IN
  /\ req[r].pc = "issue"
  /\ IF refreshTokens[s] = "none"
     THEN /\ refreshTokens' = [refreshTokens EXCEPT ![s] = "live"]
          /\ origin' = [origin EXCEPT ![s] =
                          [pw |-> req[r].pw, parent |-> req[r].tok]]
     ELSE UNCHANGED sessions
  /\ Finish(r)
  /\ UNCHANGED <<accounts, now, records>>

-----------------------------------------------------------------------------
(* POST /auth/refresh *)

Expired(s) == now >= s[2] + RefreshTTL

\* Mutant: isRevoked is not looked at.
RefreshValidate_RevokedToo(r, s) ==
  /\ refreshTokens[s] # "none"
  /\ ~Expired(s)
  /\ Begin(r, [Idle EXCEPT !.op = "refresh", !.pc = "revokeOld", !.user = s[1],
                           !.tok = s, !.pw = origin[s].pw])
  /\ OnlyRequests

\* JwtRefreshStrategy.validate; it loads the user but does not look at its status.
RefreshValidate(r, s) ==
  /\ refreshTokens[s] = "live"
  /\ ~Expired(s)
  /\ Begin(r, [Idle EXCEPT !.op = "refresh", !.pc = "revokeOld", !.user = s[1],
                           !.tok = s, !.pw = origin[s].pw])
  /\ OnlyRequests

\* Mutant: the old token stays live.
RefreshRevokeOld_Keeps(r) ==
  /\ At(r, "refresh", "revokeOld")
  /\ Goto(r, "reload")
  /\ UNCHANGED <<accounts, now, records, sessions>>

RefreshRevokeOld(r) ==
  /\ At(r, "refresh", "revokeOld")
  /\ refreshTokens' = [refreshTokens EXCEPT ![req[r].tok] = "revoked"]
  /\ Goto(r, "reload")
  /\ UNCHANGED <<accounts, now, records, origin>>

RefreshReload(r) ==
  /\ At(r, "refresh", "reload")
  /\ Proceed(r, users[req[r].user].status # "ABSENT", "issue")
  /\ OnlyRequests

-----------------------------------------------------------------------------
(* The guards.  The access token of a session is stateless: it works until *)
(* it expires, for as long as its user is ACTIVE.                           *)

Authenticated(s) ==
  /\ refreshTokens[s] # "none"
  /\ now < s[2] + AccessTTL
  /\ users[s[1]].status \notin {"ABSENT", "PENDING", "INACTIVE"}

RoleHierarchy == [OWNER |-> 5, TEAM_LEAD |-> 4, HEAD |-> 3, LEAD |-> 2, ACTOR |-> 1]
HasHigherOrEqualRole(role, required) == RoleHierarchy[role] >= RoleHierarchy[required]

\* The two cookies of a session travel together.
EnterLogout(r, s) ==
  /\ Authenticated(s)
  /\ Begin(r, [Idle EXCEPT !.op = "logout", !.pc = "revokeOne", !.user = s[1],
                           !.tok = s])
  /\ OnlyRequests

EnterChangePassword(r, s, p) ==
  /\ Authenticated(s)
  /\ users[s[1]].pw < MaxPw
  /\ Begin(r, [Idle EXCEPT !.op = "changePassword", !.pc = "read", !.user = s[1],
                           !.tok = s, !.pw = p])
  /\ OnlyRequests

\* @Roles(OWNER) on AdminController; the target and the body are the caller's.
EnterAdmin(r, s, op, target, role, team) ==
  /\ Authenticated(s)
  /\ HasHigherOrEqualRole(users[s[1]].role, "OWNER")
  /\ Begin(r, [Idle EXCEPT !.op = op, !.pc = "read", !.user = target,
                           !.role = role, !.team = team])
  /\ OnlyRequests

-----------------------------------------------------------------------------
(* POST /auth/logout, POST /users/me/change-password *)

Revoked(S) == [s \in Session |-> IF s \in S /\ refreshTokens[s] = "live"
                                 THEN "revoked" ELSE refreshTokens[s]]

LogoutRevoke(r) ==
  /\ At(r, "logout", "revokeOne")
  /\ refreshTokens' = Revoked({req[r].tok})
  /\ Finish(r)
  /\ UNCHANGED <<accounts, now, records, origin>>

ChangePasswordRead(r) ==
  LET u == users[req[r].user] IN
  /\ At(r, "changePassword", "read")
  /\ Proceed(r, u.status # "ABSENT" /\ u.pw = req[r].pw, "write")
  /\ OnlyRequests

\* Every change sets a new password: its version is one more than the last.
ChangePasswordWrite(r) ==
  /\ At(r, "changePassword", "write")
  /\ users' = [users EXCEPT ![req[r].user].pw = @ + 1]
  /\ Goto(r, "revokeAll")
  /\ OnlyUsers /\ UNCHANGED moved

\* Mutant: only the caller's own session is revoked.
RevokeAll_OnlyOwn(r) ==
  /\ refreshTokens' = Revoked({req[r].tok})
  /\ Finish(r)
  /\ UNCHANGED <<accounts, now, records, origin>>

\* updateMany({userId}), the last call of changePassword and of deactivateUser.
RevokeAll(r) ==
  /\ refreshTokens' = Revoked({s \in Session : s[1] = req[r].user})
  /\ Finish(r)
  /\ UNCHANGED <<accounts, now, records, origin>>

ChangePasswordRevoke(r) == At(r, "changePassword", "revokeAll") /\ RevokeAll(r)

-----------------------------------------------------------------------------
(* /admin/users/:id/... *)

Target(r) == users[req[r].user]
Found(account) == account.status # "ABSENT"

\* Where a handler that takes a team goes after its first read.
AskedTeam(r) == IF req[r].team = NoTeam THEN "write" ELSE "checkTeam"

\* Mutant: any account may be decided on.
Decidable_Any(account) == Found(account)
Decidable(account) == account.status = "PENDING"

ApproveRead(r) ==
  /\ At(r, "approveUser", "read")
  /\ Proceed(r, Decidable(Target(r)), AskedTeam(r))
  /\ OnlyRequests

RejectRead(r) ==
  /\ At(r, "rejectUser", "read")
  /\ Proceed(r, Decidable(Target(r)), "write")
  /\ OnlyRequests

UpdateRoleRead(r) ==
  /\ At(r, "updateUserRole", "read")
  /\ Proceed(r, Found(Target(r)), "write")
  /\ OnlyRequests

UpdateTeamRead(r) ==
  /\ At(r, "updateUserTeam", "read")
  /\ Proceed(r, Found(Target(r)), AskedTeam(r))
  /\ OnlyRequests

\* Neither deactivation nor activation looks at the status it found.
DeactivateRead(r) ==
  /\ At(r, "deactivateUser", "read")
  /\ Proceed(r, Found(Target(r)), "write")
  /\ OnlyRequests

ActivateRead(r) ==
  /\ At(r, "activateUser", "read")
  /\ Proceed(r, Found(Target(r)), "write")
  /\ OnlyRequests

CheckTeam(r) ==
  /\ req[r].pc = "checkTeam"
  /\ Proceed(r, req[r].team \in teams, "write")
  /\ OnlyRequests

\* The update of each handler; none repeats the condition of its read.  A team
\* that is gone by now fails the foreign key (P2003) and ends the request.
TeamValid(r) == req[r].team \in teams \union {NoTeam}

\* Mutant: role and team are assigned, the status is forgotten.
ApproveWrite_KeepsStatus(r) ==
  /\ At(r, "approveUser", "write")
  /\ users' = IF TeamValid(r)
              THEN [users EXCEPT ![req[r].user] =
                      [@ EXCEPT !.role = req[r].role, !.team = req[r].team]]
              ELSE users
  /\ Proceed(r, TeamValid(r), "notify")
  /\ moved' = IF TeamValid(r) THEN moved \ {req[r].user} ELSE moved
  /\ OnlyUsers

ApproveWrite(r) ==
  /\ At(r, "approveUser", "write")
  /\ users' = IF TeamValid(r)
              THEN [users EXCEPT ![req[r].user] =
                      [@ EXCEPT !.status = "ACTIVE", !.role = req[r].role,
                                !.team = req[r].team]]
              ELSE users
  /\ Proceed(r, TeamValid(r), "notify")
  /\ moved' = IF TeamValid(r) THEN moved \ {req[r].user} ELSE moved
  /\ OnlyUsers

\* Mutant: the rejected user is not told.
RejectWrite_Silent(r) ==
  /\ At(r, "rejectUser", "write")
  /\ users' = [users EXCEPT ![req[r].user].status = "INACTIVE"]
  /\ Goto(r, "audit")
  /\ OnlyUsers /\ UNCHANGED moved

RejectWrite(r) ==
  /\ At(r, "rejectUser", "write")
  /\ users' = [users EXCEPT ![req[r].user].status = "INACTIVE"]
  /\ Goto(r, "notify")
  /\ OnlyUsers /\ UNCHANGED moved

\* Mutant: the change of role is not audited.
UpdateRoleWrite_Unaudited(r) ==
  /\ At(r, "updateUserRole", "write")
  /\ users' = [users EXCEPT ![req[r].user].role = req[r].role]
  /\ Finish(r)
  /\ OnlyUsers /\ UNCHANGED moved

UpdateRoleWrite(r) ==
  /\ At(r, "updateUserRole", "write")
  /\ users' = [users EXCEPT ![req[r].user].role = req[r].role]
  /\ Goto(r, "audit")
  /\ OnlyUsers /\ UNCHANGED moved

UpdateTeamWrite(r) ==
  /\ At(r, "updateUserTeam", "write")
  /\ users' = IF TeamValid(r)
              THEN [users EXCEPT ![req[r].user].team = req[r].team]
              ELSE users
  /\ Proceed(r, TeamValid(r), "audit")
  /\ moved' = IF TeamValid(r) THEN moved \ {req[r].user} ELSE moved
  /\ OnlyUsers

\* Mutant: the sessions of the account are left alone.
DeactivateWrite_KeepsSessions(r) ==
  /\ At(r, "deactivateUser", "write")
  /\ users' = [users EXCEPT ![req[r].user].status = "INACTIVE"]
  /\ Finish(r)
  /\ OnlyUsers /\ UNCHANGED moved

DeactivateWrite(r) ==
  /\ At(r, "deactivateUser", "write")
  /\ users' = [users EXCEPT ![req[r].user].status = "INACTIVE"]
  /\ Goto(r, "revokeAll")
  /\ OnlyUsers /\ UNCHANGED moved

DeactivateRevoke(r) == At(r, "deactivateUser", "revokeAll") /\ RevokeAll(r)

ActivateWrite(r) ==
  /\ At(r, "activateUser", "write")
  /\ users' = [users EXCEPT ![req[r].user].status = "ACTIVE"]
  /\ Finish(r)
  /\ OnlyUsers /\ UNCHANGED moved

NotifyDecision(r) ==
  /\ req[r].pc = "notify"
  /\ inbox' = [inbox EXCEPT ![req[r].user] =
                 Append(@, IF req[r].op = "approveUser" THEN "USER_APPROVED"
                                                        ELSE "USER_REJECTED")]
  /\ Goto(r, "audit")
  /\ UNCHANGED <<accounts, sessions, now, audited>>

\* The newData of each audit row; an approval without a team does not name one.
NewData(call, old) ==
  CASE call.op = "approveUser" ->
         [status |-> "ACTIVE", role |-> call.role,
          team |-> IF call.team = NoTeam THEN old.team ELSE call.team]
    [] call.op = "rejectUser" -> [old EXCEPT !.status = "INACTIVE"]
    [] call.op = "updateUserRole" -> [old EXCEPT !.role = call.role]
    [] call.op = "updateUserTeam" -> [old EXCEPT !.team = call.team]
    [] OTHER -> old

\* AuditService.log; it swallows a failed insert.
AuditLog(r) ==
  /\ req[r].pc = "audit"
  /\ \/ audited' = [audited EXCEPT ![req[r].user] = NewData(req[r], @)]
     \/ Faulty /\ UNCHANGED audited
  /\ Finish(r)
  /\ UNCHANGED <<accounts, sessions, now, inbox>>

-----------------------------------------------------------------------------
(* The rest of the world *)

Tick == /\ now < MaxTime
        /\ now' = now + 1
        /\ UNCHANGED <<accounts, sessions, req, records>>

\* The process dies: what it had not yet written is lost.
Crash == /\ Faulty
         /\ req' = [r \in Request |-> Idle]
         /\ OnlyRequests

\* TeamsService.remove ends in a delete; User.teamId is set to null by its
\* foreign key.  The handler's own checks belong to the Teams component.
TeamDeleted(t) ==
  /\ "removeTeam" \in Ops
  /\ t \in teams
  /\ teams' = teams \ {t}
  /\ users' = [u \in User |-> IF users[u].team = t
                              THEN [users[u] EXCEPT !.team = NoTeam]
                              ELSE users[u]]
  /\ UNCHANGED <<moved, sessions, now, req, records>>

\* addMember, removeMember and transferMember each end in an update of
\* User.teamId, whatever the account's status, and in no audit row.
MemberMoved(u, t) ==
  /\ "moveMember" \in Ops
  /\ users[u].status # "ABSENT" /\ t \in teams \union {NoTeam}
  /\ users' = [users EXCEPT ![u].team = t]
  /\ moved' = moved \union {u}
  /\ UNCHANGED <<teams, sessions, now, req, records>>

-----------------------------------------------------------------------------

Arrive(r) ==
  \/ \E u \in User : SignupRead(r, u) \/ LoginRead(r, u)
  \/ \E s \in Session : RefreshValidate(r, s) \/ EnterLogout(r, s)
  \/ \E s \in Session : \E p \in 0 .. users[s[1]].pw : EnterChangePassword(r, s, p)
  \/ \E s \in Session, u \in User :
       \/ \E role \in Roles, team \in Team \union {NoTeam} :
            EnterAdmin(r, s, "approveUser", u, role, team)
       \/ \E role \in Roles : EnterAdmin(r, s, "updateUserRole", u, role, NoTeam)
       \/ \E team \in Team \union {NoTeam} :
            EnterAdmin(r, s, "updateUserTeam", u, "ACTOR", team)
       \/ \E op \in {"rejectUser", "deactivateUser", "activateUser"} :
            EnterAdmin(r, s, op, u, "ACTOR", NoTeam)

\* The next call of a handler under way.
Handle(r) ==
  \/ SignupCreate(r) \/ GenerateTokens(r)
  \/ RefreshRevokeOld(r) \/ RefreshReload(r)
  \/ LogoutRevoke(r) \/ ChangePasswordRead(r) \/ ChangePasswordWrite(r)
  \/ ChangePasswordRevoke(r)
  \/ ApproveRead(r) \/ RejectRead(r) \/ UpdateRoleRead(r) \/ UpdateTeamRead(r)
  \/ DeactivateRead(r) \/ ActivateRead(r) \/ CheckTeam(r)
  \/ ApproveWrite(r) \/ RejectWrite(r) \/ UpdateRoleWrite(r) \/ UpdateTeamWrite(r)
  \/ DeactivateWrite(r) \/ DeactivateRevoke(r) \/ ActivateWrite(r)
  \/ NotifyDecision(r) \/ AuditLog(r)

Next == \/ \E r \in Request : Arrive(r) \/ Handle(r)
        \/ Tick \/ Crash
        \/ \E t \in Team : TeamDeleted(t)
        \/ \E u \in User, t \in Team \union {NoTeam} : MemberMoved(u, t)

Spec == Init /\ [][Next]_vars

\* The event loop and the database complete every call that was issued.
Fairness == \A r \in Request : WF_vars(Handle(r))
FairSpec == Spec /\ Fairness

-----------------------------------------------------------------------------
(* Properties *)

Pc == {"idle", "create", "issue", "revokeOld", "reload", "revokeOne", "read",
       "checkTeam", "write", "revokeAll", "notify", "audit"}
TeamOrNone == Team \union {NoTeam}
SessionOrNone == Session \union {NoSession}

Call == [op : PublicOps \union SelfOps \union AdminOps \union {"none"}, pc : Pc,
         user : User \union {NoUser}, tok : SessionOrNone, pw : Nat,
         role : UserRole, team : TeamOrNone]
Account == [status : UserStatus, role : UserRole, team : TeamOrNone, pw : Nat]
Record == [status : UserStatus \union {"unset"}, role : UserRole \union {"unset"},
           team : TeamOrNone \union {"unset"}]

\* Every row and every request has the shape the schema and the handlers give
\* it, and a request under way is about an account.
TypeOK ==
  /\ users \in [User -> Account]
  /\ teams \in SUBSET Team
  /\ refreshTokens \in [Session -> {"none", "live", "revoked"}]
  /\ now \in Time
  /\ req \in [Request -> Call]
  /\ \A r \in Request : req[r].pc # "idle" => req[r].user \in User
  /\ inbox \in [User -> Seq({"USER_APPROVED", "USER_REJECTED"})]
  /\ audited \in [User -> Record]
  /\ moved \in SUBSET User
  /\ origin \in [Session -> [pw : Nat, parent : SessionOrNone]]

Undecided(u) == users[u].status \in {"ABSENT", "PENDING"}

\* An account no administrator has decided on has no refresh token, live or
\* revoked, and no request that could still store one: whatever was in flight
\* when it was read, a PENDING user never gets a session (login's checks).
UndecidedHasNoSession ==
  \A u \in User : Undecided(u) =>
    /\ \A s \in Session : s[1] = u => refreshTokens[s] = "none"
    /\ \A r \in Request : req[r].user = u => req[r].op \notin {"login", "refresh"}

\* A session obtained by rotation descends from an older session of the same
\* user, and that one is revoked, however refreshes interleave or die
\* half-way: the revocation comes before the new token, and no login brings a
\* rotated token back.
RotationOrder ==
  \A s \in Session : LET p == origin[s].parent IN
    p # NoSession => /\ refreshTokens[p] = "revoked"
                     /\ p[1] = s[1]
                     /\ p[2] < s[2]

\* The table is a ledger of tokens (see TokenLedger).
Ledger == INSTANCE TokenLedger WITH
            ledger <- refreshTokens,
            parent <- [s \in Session |-> origin[s].parent],
            decided <- {u \in User : ~Undecided(u)}
ImplementsLedger == Ledger!Spec

\* Nothing an account went through leads back to PENDING or out of the table:
\* a sign-up racing with an approval never overwrites the account.
AdmissionOneWay ==
  [][\A u \in User :
       /\ users[u].status # "ABSENT" => users'[u].status # "ABSENT"
       /\ users[u].status \in {"ACTIVE", "INACTIVE"} => users'[u].status # "PENDING"]_vars

\* A decision notification is only ever about a decision that is in the table:
\* the update comes before notifyUserApproved and notifyUserRejected.
ToldOnlyDecisions == \A u \in User : inbox[u] # <<>> => ~Undecided(u)

\* What makes those three inductive: a request that will store a token is a
\* login, or a refresh that has revoked the token it was given; both are for an
\* account already decided on.
RequestOK(q) ==
  /\ q.pc = "issue" => q.op \in {"login", "refresh"}
  /\ q.pc = "notify" => ~Undecided(q.user)
  /\ q.op = "login" => q.pc = "issue" /\ q.tok = NoSession /\ ~Undecided(q.user)
  /\ q.op = "refresh" =>
       /\ q.pc \in {"revokeOld", "reload", "issue"}
       /\ ~Undecided(q.user)
       /\ q.tok \in Session
       /\ q.tok[1] = q.user
       /\ q.tok[2] <= now
       /\ refreshTokens[q.tok] # "none"
       /\ q.pc \in {"reload", "issue"} => refreshTokens[q.tok] = "revoked"

RowsArePast == \A s \in Session : refreshTokens[s] # "none" => s[2] <= now

IInv == /\ TypeOK
        /\ \A r \in Request : RequestOK(req[r])
        /\ RowsArePast
        /\ RotationOrder
        /\ UndecidedHasNoSession
        /\ ToldOnlyDecisions

Quiet == \A r \in Request : req[r] = Idle

\* With nothing in flight, every live session goes back to a login with the
\* password the account has now (changePassword: "Revoke all refresh tokens to
\* force re-login").
SessionsMatchPassword ==
  Quiet => \A s \in Session : refreshTokens[s] = "live" => origin[s].pw = users[s[1]].pw

\* With nothing in flight, an INACTIVE account has no live session
\* (deactivateUser: "Revoke all refresh tokens").
InactiveHasNoSession ==
  Quiet => \A s \in Session :
             refreshTokens[s] = "live" => users[s[1]].status # "INACTIVE"

\* A refresh token is exchanged for at most one new one (POST /auth/refresh: a
\* used token cannot be used again).
RefreshOnce ==
  \A s, t \in Session : /\ origin[s].parent # NoSession
                        /\ origin[s].parent = origin[t].parent
                        => s = t

\* An account is decided on once: it is never told a second decision, the same
\* or the opposite one (only a PENDING user may be approved or rejected).
OneDecision == \A u \in User : Len(inbox[u]) <= 1

\* With nothing in flight, the last audit row about an account's role names the
\* role it has, and the last about its team the team it has, unless a member
\* endpoint of a team, which writes no row, wrote the team since: no
\* administrator's endpoint hands out a role or a team without a record
\* (admin.service.ts:89-250).
AuditTracksGrants ==
  Quiet => \A u \in User :
    /\ audited[u].role # "unset" => audited[u].role = users[u].role
    /\ users[u].team # NoTeam => audited[u].team = users[u].team \/ u \in moved

\* Someone who signed up and was decided on is eventually told.
DecisionIsTold ==
  \A u \in User \ Seed : ~Undecided(u) ~> inbox[u] # <<>>

=============================================================================
