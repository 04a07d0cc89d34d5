------------------------------- MODULE Teams -------------------------------
(***************************************************************************)
(* TeamsService: teams, who leads them, who is in them, and which of them  *)
(* share tasks or schedules with which.  A request reads the rows it needs *)
(* one awaited call after another, decides on the copies, and writes and   *)
(* notifies last, so that any two requests may pass between each other's   *)
(* checks and writes.                                                      *)
(***************************************************************************)
EXTENDS Naturals, FiniteSets

CONSTANTS
  User, NoUser,   \* NoUser: no leader read
  RoleOf,         \* each user's role
  Team, NoTeam,   \* ids, a uuid being used once; NoTeam: a null teamId
  Absent, Gone,   \* in place of a leader: no such team yet, or no longer
  SeedLeaders,    \* the teams there may be at the start
  SeedMember,     \* and who is in them
  Share, NoShare, \* ids of TeamShare rows
  Request,        \* requests in flight
  MaxRequests     \* bound on the requests made

Role == {"OWNER", "TEAM_LEAD", "HEAD", "LEAD", "ACTOR"}
Kinds == SUBSET {"tasks", "schedules"}  \* shareTasks and shareSchedules

ASSUME TeamsAssumption ==
  /\ NoUser \notin User /\ NoTeam \notin Team /\ NoShare \notin Share
  /\ {Absent, Gone} \intersect User = {} /\ Absent # Gone
  /\ RoleOf \in [User -> Role]
  /\ SeedLeaders \subseteq [Team -> User \union {Absent}]
  /\ SeedMember \in [User -> Team \union {NoTeam}]
  /\ \A u \in User, f \in SeedLeaders : SeedMember[u] # NoTeam => f[SeedMember[u]] # Absent
  /\ MaxRequests \in Nat

VARIABLES
  leader,     \* the Team table: ownerId, Absent or Gone
  member,     \* User.teamId
  shares,     \* the TeamShare table: [id, from, to, kinds, by]
  used,       \* share ids used so far
  slot,       \* each request: operation, next step, arguments, copies
  told,       \* the team the user's last team notice leaves it in
  made,       \* how many requests were made
  unsettled   \* history: users changed by two requests at once, by a team's
              \* removal, or by the admin page, which notifies nobody

vars == <<leader, member, shares, used, slot, told, made, unsettled>>

Exists(t) == leader[t] \notin {Absent, Gone}
Members(t) == {u \in User : member[u] = t}

Idle == [op |-> "idle", pc |-> "idle", team |-> NoTeam, to |-> NoTeam, user |-> NoUser,
         share |-> NoShare, kinds |-> {}, since |-> {}]

Init ==
  /\ leader \in SeedLeaders /\ member = SeedMember /\ told = SeedMember
  /\ shares = {} /\ used = {}
  /\ slot = [r \in Request |-> Idle]
  /\ made = 0 /\ unsettled = {}

-----------------------------------------------------------------------------
(* Who may: the controller's @Roles, which RolesGuard takes as a minimum, and *)
(* the service's own list.                                                   *)

Rank == [OWNER |-> 5, TEAM_LEAD |-> 4, HEAD |-> 3, LEAD |-> 2, ACTOR |-> 1]
OwnerOnly == {"create", "update", "remove", "transferMember"}
OwnerOrHead == {"addMember", "removeMember", "createShare", "updateShare", "removeShare"}
RouteRoles(op) == IF op \in OwnerOnly THEN {"OWNER"} ELSE {"OWNER", "HEAD"}
ServiceRoles(op) == IF op \in OwnerOnly THEN {"OWNER"} ELSE {"OWNER", "HEAD"}
May(by, op) ==
  /\ \E role \in RouteRoles(op) : Rank[RoleOf[by]] >= Rank[role]
  /\ RoleOf[by] \in ServiceRoles(op)

\* A request is let in; its first awaited read is its next step.
Enter(r, by, request) ==
  /\ slot[r].op = "idle" /\ made < MaxRequests
  /\ May(by, request.op)
  /\ slot' = [slot EXCEPT ![r] = request]
  /\ made' = made + 1
  /\ unsettled' = IF \E q \in Request : slot[q].user = request.user /\ request.user # NoUser
                  THEN unsettled \union {request.user} ELSE unsettled
  /\ UNCHANGED <<leader, member, shares, used, told>>

OnTeam(op, t) == [Idle EXCEPT !.op = op, !.pc = "team", !.team = t]

Enters(r, by) ==
  \/ \E t \in Team :
       \/ Enter(r, by, OnTeam("remove", t))
       \/ \E op \in {"update", "addMember", "removeMember"}, u \in User :
            Enter(r, by, [OnTeam(op, t) EXCEPT !.user = u])
       \/ \E to \in Team, u \in User :
            Enter(r, by, [OnTeam("transferMember", t) EXCEPT !.to = to, !.user = u])
       \/ \E to \in Team, kinds \in Kinds :
            Enter(r, by, [OnTeam("createShare", t) EXCEPT !.to = to, !.kinds = kinds])
  \/ \E s \in Share :
       \/ \E kinds \in Kinds :
            Enter(r, by, [Idle EXCEPT !.op = "updateShare", !.pc = "share", !.share = s, !.kinds = kinds])
       \/ Enter(r, by, [Idle EXCEPT !.op = "removeShare", !.pc = "share", !.share = s])

\* create: one insert, the creator its leader.
Create(by, t) ==
  /\ leader[t] = Absent /\ made < MaxRequests /\ May(by, "create")
  /\ leader' = [leader EXCEPT ![t] = by]
  /\ made' = made + 1
  /\ UNCHANGED <<member, shares, used, slot, told, unsettled>>

-----------------------------------------------------------------------------
(* The reads, each of which may refuse the request.                          *)

Go(r, pc) == slot' = [slot EXCEPT ![r].pc = pc]
\* Mutant: the slot is not cleared.
Finish_Half(r) == slot' = [slot EXCEPT ![r].op = "idle", ![r].pc = "done"]
Finish(r) == slot' = [slot EXCEPT ![r] = Idle]
Reading == UNCHANGED <<leader, member, shares, used, told, made, unsettled>>

AfterTeam == [update |-> "write", remove |-> "write", addMember |-> "user",
              removeMember |-> "user", transferMember |-> "to", createShare |-> "to"]

\* remove also counts the members; the removals refuse the leader, whom they
\* read here.
\* Mutant: the members are not counted.
TeamAllows_Uncounted(r) ==
  LET q == slot[r]
  IN /\ Exists(q.team)
     /\ q.op \in {"removeMember", "transferMember"} => leader[q.team] # q.user
\* Mutant: a removal looks at no leader.
TeamAllows_Leader(r) ==
  Exists(slot[r].team) /\ (slot[r].op = "remove" => Members(slot[r].team) = {})
TeamAllows(r) ==
  LET q == slot[r]
  IN /\ Exists(q.team)
     /\ q.op = "remove" => Members(q.team) = {}
     /\ q.op \in {"removeMember", "transferMember"} => leader[q.team] # q.user

ReadTeam(r) ==
  /\ slot[r].pc = "team"
  /\ IF TeamAllows(r) THEN Go(r, AfterTeam[slot[r].op]) ELSE Finish(r)
  /\ Reading

ReadTo(r) ==
  /\ slot[r].pc = "to"
  /\ IF Exists(slot[r].to)
     THEN Go(r, IF slot[r].op = "createShare" THEN "find" ELSE "user") ELSE Finish(r)
  /\ Reading

\* USER_ALREADY_IN_TEAM, USER_NOT_IN_TEAM, and owners are not transferred.
UserAllows(q) ==
  /\ q.op = "addMember" => member[q.user] # q.team
  /\ q.op \in {"removeMember", "transferMember"} => member[q.user] = q.team
  /\ q.op = "transferMember" => RoleOf[q.user] # "OWNER"

ReadUser(r) ==
  /\ slot[r].pc = "user"
  /\ IF UserAllows(slot[r]) THEN Go(r, "write") ELSE Finish(r)
  /\ Reading

SharesOf(from, to) == {s \in shares : s.from = from /\ s.to = to}

\* Mutant: an existing share is not looked for.
FindShare_Skipped(r) == slot[r].pc = "find" /\ Go(r, "write") /\ Reading
FindShare(r) ==
  /\ slot[r].pc = "find"
  /\ IF SharesOf(slot[r].team, slot[r].to) = {} THEN Go(r, "write") ELSE Finish(r)
  /\ Reading

ReadShare(r) ==
  /\ slot[r].pc = "share"
  /\ IF \E s \in shares : s.id = slot[r].share THEN Go(r, "write") ELSE Finish(r)
  /\ Reading

-----------------------------------------------------------------------------
(* The writes, by id.  One that names a row gone by now fails (P2003, P2025). *)

Writing(r, op) == slot[r].op = op /\ slot[r].pc = "write"

\* What a request that read a team misses since: who joined it, or leads it.
Missed(t, u, done) ==
  slot' = [q \in Request |->
    IF q \in DOMAIN done THEN done[q]
    ELSE IF t # NoTeam /\ slot[q].team = t /\ slot[q].pc # "team"
         THEN [slot[q] EXCEPT !.since = @ \union {u}] ELSE slot[q]]
Only(r, next) == [q \in {r} |-> next]

WriteUpdate(r) ==
  /\ Writing(r, "update")
  /\ IF Exists(slot[r].team)
     THEN /\ leader' = [leader EXCEPT ![slot[r].team] = slot[r].user]
          /\ Missed(slot[r].team, slot[r].user, Only(r, Idle))
     ELSE Finish(r) /\ UNCHANGED leader
  /\ UNCHANGED <<member, shares, used, told, made, unsettled>>

\* Members' teamId becomes null (SET NULL); shares refuse the delete.
WriteRemove(r) ==
  LET t == slot[r].team
  IN /\ Writing(r, "remove")
     /\ IF Exists(t) /\ ~\E s \in shares : t \in {s.from, s.to}
        THEN /\ leader' = [leader EXCEPT ![t] = Gone]
             /\ member' = [u \in User |-> IF member[u] = t THEN NoTeam ELSE member[u]]
             /\ unsettled' = unsettled \union Members(t)
        ELSE UNCHANGED <<leader, member, unsettled>>
     /\ Finish(r)
     /\ UNCHANGED <<shares, used, told, made>>

\* The team the user goes to.
Target(q) == CASE q.op = "addMember" -> q.team
               [] q.op = "removeMember" -> NoTeam
               [] q.op = "transferMember" -> q.to

WriteMember(r) ==
  LET q == slot[r]
  IN /\ q.pc = "write" /\ q.op \in {"addMember", "removeMember", "transferMember"}
     /\ IF Target(q) # NoTeam => Exists(Target(q))
        THEN /\ member' = [member EXCEPT ![q.user] = Target(q)]
             /\ Missed(Target(q), q.user, Only(r, [q EXCEPT !.pc = "notify"]))
        ELSE Finish(r) /\ UNCHANGED member
     /\ UNCHANGED <<leader, shares, used, told, made, unsettled>>

\* notifyTeamInvite and notifyTeamRemoved.
\* Mutant: a transfer is announced as a removal.
Notify_Removed(r) ==
  LET q == slot[r]
  IN /\ q.pc = "notify"
     /\ told' = [told EXCEPT ![q.user] = IF q.op = "addMember" THEN q.team ELSE NoTeam]
     /\ Finish(r)
     /\ UNCHANGED <<leader, member, shares, used, made, unsettled>>
Notify(r) ==
  LET q == slot[r]
  IN /\ q.pc = "notify"
     /\ told' = [told EXCEPT ![q.user] = Target(q)]
     /\ Finish(r)
     /\ UNCHANGED <<leader, member, shares, used, made, unsettled>>

\* No constraint keeps a pair from having two rows.
WriteCreateShare(r, id) ==
  LET q == slot[r]
  IN /\ Writing(r, "createShare") /\ id \in Share \ used
     /\ IF Exists(q.team) /\ Exists(q.to)
        THEN /\ shares' = shares \union
                  {[id |-> id, from |-> q.team, to |-> q.to, kinds |-> q.kinds, by |-> r]}
             /\ used' = used \union {id}
        ELSE UNCHANGED <<shares, used>>
     /\ Finish(r)
     /\ UNCHANGED <<leader, member, told, made, unsettled>>

WriteUpdateShare(r) ==
  LET q == slot[r]
  IN /\ Writing(r, "updateShare")
     /\ shares' = {IF s.id = q.share THEN [s EXCEPT !.kinds = q.kinds] ELSE s : s \in shares}
     /\ Finish(r)
     /\ UNCHANGED <<leader, member, used, told, made, unsettled>>

WriteRemoveShare(r) ==
  /\ Writing(r, "removeShare")
  /\ shares' = {s \in shares : s.id # slot[r].share}
  /\ Finish(r)
  /\ UNCHANGED <<leader, member, used, told, made, unsettled>>

\* AdminService.updateUserTeam, the other way into and out of a team: no guard
\* for leaders, and no notice.
AdminMove(by, u, t) ==
  /\ RoleOf[by] = "OWNER" /\ made < MaxRequests
  /\ t # NoTeam => Exists(t)
  /\ member' = [member EXCEPT ![u] = t]
  /\ Missed(t, u, <<>>)
  /\ made' = made + 1 /\ unsettled' = unsettled \union {u}
  /\ UNCHANGED <<leader, shares, used, told>>

Step(r) ==
  \/ ReadTeam(r) \/ ReadTo(r) \/ ReadUser(r) \/ FindShare(r) \/ ReadShare(r)
  \/ WriteUpdate(r) \/ WriteRemove(r) \/ WriteMember(r) \/ Notify(r)
  \/ \E id \in Share : WriteCreateShare(r, id)
  \/ WriteUpdateShare(r) \/ WriteRemoveShare(r)

Next ==
  \/ \E by \in User : \/ \E r \in Request : Enters(r, by)
                      \/ \E t \in Team : Create(by, t)
                      \/ \E u \in User, t \in Team \union {NoTeam} : AdminMove(by, u, t)
  \/ \E r \in Request : Step(r)

Spec == Init /\ [][Next]_vars

-----------------------------------------------------------------------------
Ops == {"idle"} \union (OwnerOnly \ {"create"}) \union OwnerOrHead
Handle == [op : Ops, pc : {"idle", "team", "to", "user", "find", "share", "write", "notify"},
           team : Team \union {NoTeam}, to : Team \union {NoTeam}, user : User \union {NoUser},
           share : Share \union {NoShare}, kinds : Kinds, since : SUBSET User]
ShareRow == [id : Share, from : Team, to : Team, kinds : Kinds, by : Request]

\* The variables have their types (all of the module).
TypeOK ==
  /\ leader \in [Team -> User \union {Absent, Gone}]
  /\ member \in [User -> Team \union {NoTeam}]
  /\ shares \in SUBSET ShareRow /\ used \in SUBSET Share
  /\ slot \in [Request -> Handle]
  /\ told \in [User -> Team \union {NoTeam}]
  /\ made \in Nat /\ unsettled \in SUBSET User

\* getShares; and the teams whose tasks or schedules getSharedTasks and
\* getSharedSchedules show team t.
GetShares(t) ==
  [sharingTo |-> {s \in shares : s.from = t}, receivingFrom |-> {s \in shares : s.to = t}]
SharedFrom(t, kind) == {s.from : s \in {x \in GetShares(t).receivingFrom : kind \in x.kinds}}

\* createShare looks for an existing share and inserts later, with no unique
\* constraint behind it (teams.service.ts:411-440): one pair of teams may get
\* several rows, but only from requests that were in flight together, never
\* two from the same slot.  And though a share is written long after its teams
\* were read, none outlives a team: what a team is shown is that of teams there.
SharePerSlot ==
  /\ \A s1, s2 \in shares :
       s1.from = s2.from /\ s1.to = s2.to /\ s1.by = s2.by => s1 = s2
  /\ \A t \in Team, kind \in {"tasks", "schedules"} :
       \A from \in SharedFrom(t, kind) : Exists(t) /\ Exists(from)

\* What the last notice said is where the user is, once no request about it is
\* at work; excused are users two requests, a team's removal or the admin page
\* were about (teams.service.ts:233, 276, 349).
LastNoticeTrue ==
  \A u \in User \ unsettled :
    (\A r \in Request : slot[r].op = "update" \/ slot[r].user # u) => told[u] = member[u]

\* Deleting a team throws out only users who came in after its members were
\* counted (teams.service.ts:162-193).
DeleteTakesNobody ==
  [][\A t \in Team : Exists(t) /\ leader'[t] = Gone =>
       \E r \in Request : Writing(r, "remove") /\ slot[r].team = t
                          /\ Members(t) \subseteq slot[r].since]_vars

\* Who leads a team it is in leaves it only with the team, by the admin page, by
\* an addMember to another team (which looks at no leader), or by a removal that
\* read its team before the user came to lead it, or came to be in this one
\* (teams.service.ts:268, 325).
LeaderStays ==
  [][\A u \in User : member[u] # NoTeam /\ leader[member[u]] = u /\ member'[u] # member[u] =>
       \/ made' # made \/ leader'[member[u]] = Gone
       \/ \E r \in Request : /\ slot[r].user = u /\ slot[r].pc = "write"
                             /\ slot[r].team # member[u] \/ u \in slot[r].since]_vars
=============================================================================
