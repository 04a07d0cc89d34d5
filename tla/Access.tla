------------------------------- MODULE Access -------------------------------
(***************************************************************************)
(* Who sees what: for each kind of row, the filter a list puts into its    *)
(* query and the check an opened row must pass.  They are written twice in *)
(* the services, once as a where clause and once as a predicate, and must  *)
(* agree.  v is the user of the request, asked the team a query names.     *)
(***************************************************************************)
EXTENDS Directory

TaskShape == [creator : User, assignee : User \union {NoUser}, team : Team \union {NoTeam}]
ScheduleShape == [creator : User, teams : SUBSET Team]

\* TasksService: the list's OR, narrowed by the team asked for; findOne.
TaskListed(v, t, asked) ==
  /\ \/ t.creator = v.id \/ t.assignee = v.id
     \/ v.team # NoTeam /\ t.team = v.team
     \/ v.role = "OWNER"
  /\ asked # NoTeam => t.team = asked
\* Mutant: two users without a team are in one team.
TaskOpens_Teamless(v, t) ==
  v.role = "OWNER" \/ v.id \in {t.creator, t.assignee} \/ t.team = v.team
TaskOpens(v, t) ==
  \/ v.role = "OWNER" \/ t.creator = v.id \/ t.assignee = v.id
  \/ t.team # NoTeam /\ t.team = v.team
TaskModifies(v, t) == v.role = "OWNER" \/ t.creator = v.id \/ t.assignee = v.id
MyTaskListed(v, t) == TaskListed(v, t, NoTeam) /\ t.assignee = v.id
CreatedTaskListed(v, t) == TaskListed(v, t, NoTeam) /\ t.creator = v.id

\* SchedulesService: buildAccessFilter, canAccessSchedule, getTeamSchedules.
\* The team asked for replaces the user's own, whichever it is.
ScheduleListed(v, s, asked) ==
  IF v.role = "OWNER" THEN asked # NoTeam => asked \in s.teams
  ELSE \/ s.creator = v.id
       \/ v.team # NoTeam /\ (IF asked = NoTeam THEN v.team ELSE asked) \in s.teams
ScheduleOpens(v, s) ==
  v.role = "OWNER" \/ s.creator = v.id \/ (v.team # NoTeam /\ v.team \in s.teams)
ScheduleModifies(v, s) == v.role = "OWNER" \/ s.creator = v.id
TeamSchedulesListed(v, s, team) == (v.role = "OWNER" \/ v.team = team) /\ team \in s.teams
UpcomingListed(v, s) == ScheduleListed(v, s, NoTeam)
MyScheduleListed(v, s) == ScheduleListed(v, s, NoTeam) /\ s.creator = v.id

\* DocumentsService: findAll and the tag counts, findOne, update and remove.
DocumentListed(v, team, asked) ==
  IF CanAccessAllTeams(v.role) THEN asked # NoTeam => team = asked
  ELSE v.team # NoTeam /\ team = v.team
DocumentOpens(v, team) == CanAccessAllTeams(v.role) \/ team = v.team
DocumentModifies(v, doc) == CanAccessAllTeams(v.role) \/ doc.creator = v.id
TagsCounted(v, team) == CanAccessAllTeams(v.role) \/ (v.team # NoTeam /\ team = v.team)

\* DashboardService: what is counted (buildTeamFilter), what is shown of it
\* (buildAccessFilter), and the user's own tasks.
DashboardCounts(v, t, asked) ==
  CASE asked # NoTeam -> t.team = asked
    [] asked = NoTeam /\ v.role # "OWNER" /\ v.team # NoTeam -> t.team = v.team
    [] OTHER -> TRUE
DashboardAccess(v, t) ==
  \/ v.role = "OWNER" \/ t.creator = v.id \/ t.assignee = v.id
  \/ v.team # NoTeam /\ t.team = v.team
RecentTaskShown(v, t, asked) == DashboardCounts(v, t, asked) /\ DashboardAccess(v, t)
UpcomingDeadlineShown(v, t, asked) == DashboardCounts(v, t, asked) /\ DashboardAccess(v, t)
MyTaskCounted(v, t) == t.assignee = v.id
MyActivityShown(v, t) == v.id \in {t.assignee, t.creator}

\* The services' own lists of roles, and those of their routes, which RolesGuard
\* takes as minima; an empty one lets everyone in.
Routes ==
  [auditFindAll |-> [guard |-> {"OWNER", "HEAD"}, service |-> {"OWNER", "HEAD"}],
   auditFindByEntity |-> [guard |-> {"OWNER", "HEAD"}, service |-> {"OWNER", "HEAD"}],
   auditGetStats |-> [guard |-> {"OWNER"}, service |-> {"OWNER"}],
   dashboardTeams |-> [guard |-> {"OWNER", "HEAD"}, service |-> {"OWNER", "HEAD"}]]

-----------------------------------------------------------------------------
(* One viewer, one row of each kind, one team asked for: any.                 *)
VARIABLES probe, asks

ProbeShape == [viewer : RequestUser, task : TaskShape, schedule : ScheduleShape, doc : Team,
               asked : Team \union {NoTeam}]

AccessInit ==
  /\ probe \in [viewer : RequestUser, task : TaskShape, schedule : ScheduleShape, doc : Team,
                asked : {NoTeam}]
  /\ asks = 0

\* The same query again, naming another team.
AskAgain(team) ==
  /\ asks = 0 /\ asks' = 1
  /\ probe' = [probe EXCEPT !.asked = team]
AccessNext == \E team \in Team \union {NoTeam} : AskAgain(team)
AccessSpec == AccessInit /\ [][AccessNext]_<<probe, asks>>

\* The variables have their types (all of the module).
AccessTypeOK ==
  /\ probe \in ProbeShape
  /\ asks \in {0, 1}

\* What a list shows can be opened, and what can be opened is in the list that
\* names no team, for tasks, schedules and documents; the dashboard shows no
\* other task (tasks.service.ts:108, 651, schedules.service.ts:428-455,
\* documents.service.ts:63-71, 151, dashboard.service.ts:393).  A list of
\* schedules that names a team is left out: it shows that team's to a member of
\* another one, and only findOne refuses them.  And whoever a service serves,
\* its route lets in (roles.guard.ts:36).
AccessAgrees ==
  LET v == probe.viewer
      t == probe.task
      s == probe.schedule
  IN /\ TaskListed(v, t, NoTeam) <=> TaskOpens(v, t)
     /\ TaskListed(v, t, probe.asked) => TaskOpens(v, t)
     /\ MyTaskListed(v, t) \/ CreatedTaskListed(v, t) => TaskModifies(v, t)
     /\ RecentTaskShown(v, t, probe.asked) => TaskOpens(v, t)
     /\ UpcomingDeadlineShown(v, t, probe.asked) => TaskOpens(v, t)
     /\ MyTaskCounted(v, t) \/ MyActivityShown(v, t) => TaskOpens(v, t)
     /\ ScheduleListed(v, s, NoTeam) <=> ScheduleOpens(v, s)
     /\ UpcomingListed(v, s) => ScheduleOpens(v, s)
     /\ MyScheduleListed(v, s) => ScheduleModifies(v, s)
     /\ \A team \in Team : TeamSchedulesListed(v, s, team) => ScheduleOpens(v, s)
     /\ DocumentListed(v, probe.doc, NoTeam) <=> DocumentOpens(v, probe.doc)
     /\ DocumentListed(v, probe.doc, probe.asked) => DocumentOpens(v, probe.doc)
     /\ TagsCounted(v, probe.doc) => DocumentOpens(v, probe.doc)
     /\ \A route \in DOMAIN Routes :
          v.role \in Routes[route].service => RolesGuard(Routes[route].guard, v.role)
=============================================================================
