# jenis_BE in TLA+

A verification development kept beside the jenis back-office server (NestJS,
Prisma, PostgreSQL): TLA+ modules translated from its services, the TLC
configurations that check them on small instances, and TLAPS proofs of what
matters most. Paths below are relative to `src/src/modules/` unless they start
with `src/`.

    tlc -workers 2 -config tasks_handlers.cfg MCTaskWorkflow
    tlc -workers 2 -config workspace.cfg MCWorkspace
    tlapm TaskWorkflowProofs.tla

## 1. What makes this system hard

Every handler is an `async` method that awaits a handful of Prisma calls. Apart from
`schedules.update` and `retrospectives.share` nothing runs in a transaction, no
update repeats the condition of the read it follows, and no row carries a version.
So the unit of atomicity is *one Prisma call*: between two `await`s any other
request, timer job or webhook delivery may write the same row, and a crash leaves
any prefix of a handler's writes. Unit tests mock Prisma and call one method at a
time; none of this is in their reach. The modules therefore take one step per
awaited call and keep, per request, what the handler keeps in local variables. A
transaction is no exception: Prisma opens it at the database's default isolation,
READ COMMITTED, so each of its queries sees what others committed meanwhile and
locks only the rows it writes. That of `schedules.update` is one step here: it
writes one schedule, and the teams whose members a reminder goes to, which are not
modelled. A Prisma error (a unique or foreign key that is violated, a row that is
gone) ends the handler, with the writes made before it.

## 2. Inventory

| Component | State | Operations | What is hard | What makes it correct |
|---|---|---|---|---|
| Identity: `auth/`, `users.changePassword`, `admin/` | users (status, role, team, password), refresh tokens | signup, login, refresh, logout, change password; approve, reject, change role/team, (de)activate | check-then-act over several calls; token rotation half done; tokens equal within a second | no session before a decision, one-way admission, rotation order, decisions told and recorded |
| Schedules: `schedules/` | schedules (`nextRunAt`, `isActive`, cron) | create, update, remove, toggle; the minute job | the timer does not wait for its last job; copies read before the loop; windows; calendar arithmetic | an occurrence is reminded of once, twice at worst; none is left behind; the cron is followed |
| Tasks: `tasks/` | tasks, history, relations, comments | create, update (history rows, then notices), remove, comments, relations; lists | `status` and `completedAt` written by two services; whom to tell decided on a copy | history is one chain; notices say what is so, to each person once; comments are heard |
| GitHub webhook: `integrations/github/github-webhook.service.ts` | the same tasks | PR opened/closed/merged/reopened, issue closed/reopened, push | concurrent, repeated, reordered deliveries over copies | a merge ends DONE; `completedAt` follows DONE; cancelled tasks stay |
| Task jobs: `schedule-runner.service.ts` | notices | due soon, overdue | list read before the loop | no notice about a finished task |
| Teams: `teams/` | teams, `user.teamId`, shares | create, update, remove, members, transfers, shares | counted members and checked leaders go stale; no unique constraint on shares | a deletion throws nobody out, leaders stay, notices are true, one share of a pair |
| Attendance: `attendance/` | one row per check | create and its notices; today's status, list | two check-ins at once; midnight in between | at most one of each type, slot and day |
| Documents: `documents/` | documents, favourites | CRUD, toggle favourite | two toggles at once, a removal in between | the favourite is what the last toggle answered |
| Retrospectives: `retrospectives/` | retrospectives, shares | CRUD, publish, share, add and remove share; four queries | two queries in one transaction, which another share may overlap; drafts, visibility, teams and shares combine | drafts are for readers named; a failed share takes nothing away |
| Notifications: `notifications/` | notices; rooms and the gateway's own map | create, createMany, read, remove; connect, disconnect | two tables of sockets kept side by side | who is online is who would be reached |
| Network whitelist: `network-whitelist/` | CIDR entries | verify, CRUD, switch | 32-bit masks at their ends | an address is allowed iff an entry covers it |
| GitHub/Slack integrations: `integrations/` | tokens, task links | OAuth callback, issues, branches, links, messages | an outside call and the row that records it | no outside issue the task does not know, but for requests that broke off; what a task says and no user wrote was made |
| Dashboard and statistics: `dashboard/`, `teams.getMemberStats` and its graph | none | counts | two queries for one report; days named in UTC | parts add up to totals |
| Who may see what: list filters and checks in all services | none | `findAll`, `findOne` | the same rule written as a where clause and as a predicate | lists and checks agree |
| Audit, users profile, shell | audit rows; one user's row; none | inserts; reads | a failed audit insert is swallowed | covered in Identity (`AuditLog`) |

How they interact. `admin` writes the users that `auth` reads at login and the
JWT strategy reads on every call, and revokes the tokens `auth` hands out;
`AdminService` calls `AuditService`; approvals, team changes, task updates,
comments, attendance and both kinds of jobs call `NotificationsService`, which
pushes through its gateway; deleting a team nulls `user.teamId` through a foreign
key, under the feet of approvals and members, and takes its documents along;
`tasks.update`, the webhook and the GitHub service write the same task rows.

Composed in one module because they write the same rows: auth with admin and the
removal of a team (`Identity`); the schedule writes with the runner
(`ScheduleRunner`); tasks with the webhook, the link to GitHub and the due-date
jobs (`TaskWorkflow`); teams with the admin page's move (`Teams`). The services
that write no table of one another stand side by side in `Workspace`.

## 3. Modules

| Module | What it is |
|---|---|
| `TokenLedger` | abstract specification: what the refresh-token table promises |
| `Identity`, `MCIdentity` | auth + change password + admin, one action per awaited call |
| `ScheduleRunner`, `MCScheduleRunner` | schedules: user writes, the minute timer, its jobs, cron arithmetic |
| `TaskWorkflow`, `MCTaskWorkflow` | the life of a task under users, webhook deliveries and the due-date job |
| `Teams`, `MCTeams` | teams, members, leaders, shares |
| `Roles`, `Directory` | the role hierarchy and `RolesGuard`; users, teams and requests as the modules below see them |
| `Access` | list filters and opened-row checks of tasks, schedules, documents and the dashboard; route and service roles |
| `Attendance`, `Documents`, `Retrospectives`, `NetworkWhitelist`, `Notifications`, `TaskThreads`, `Integrations`, `Reports` | one service each (`TaskThreads`: comments and relations; `Reports`: what teams and dashboard count) |
| `Workspace`, `MCWorkspace` | `Access` and these eight side by side |
| `IdentityProofs`, `ScheduleProofs`, `TaskWorkflowProofs`, `TeamsProofs`, `OneRowProofs`, `QueryProofs`, `NotificationsProofs`, `WorkspaceProofs` | theorems for every value of the constants |

### Identity

`users`, `teams`, `refreshTokens` are the tables; `req[r]` is a request in
flight: endpoint (`op`), next call (`pc`) and the values the handler holds;
`inbox` and `audited` are the decision notifications and what the audit rows,
replayed, say. `origin` is a history variable: the password a session goes back
to and the token that was rotated into it. The endpoints are listed in the
order of the code: `SignupRead`/`SignupCreate` are the two calls of
`auth.service.ts` `signup`, and so on.

* The e-mail is unique, so a user is its e-mail. `ABSENT` means no row.
* A refresh token is `sign({sub})`: between two tokens of one user only `iat`,
  in seconds, differs. A token is therefore the pair (user, second), and a second
  insert in the same second meets the unique `tokenHash` (P2002). This is the one
  reason why the model needs a clock that can stand still.
* bcrypt comparisons and signing are part of the step of the call next to them;
  a wrong password changes nothing. A password is a version number.
* An access token is stateless: `Authenticated` looks at its expiry and at the
  user's status as `JwtStrategy.validate` does, not at the refresh token.
* A public request refused by its first read, and a request that a guard
  refuses, changes nothing and is not a step.
* With `Faulty`, the process may die (`Crash` forgets all requests) and an audit
  insert may fail, which `AuditService.log` swallows.
* `TeamDeleted` is the last call of `TeamsService.remove`, and `MemberMoved` the
  write of `User.teamId` that `addMember`, `removeMember` and `transferMember` end
  in, as an environment. None of these writes an audit row; `moved` (history) are
  the users whose team such a write was the last to set, and `AuditTracksGrants`
  says of the administrators' endpoints that no other team differs from its row.

### TokenLedger

Granted at most once, only to an account already decided on; revoked for good; a
rotated token descends from an older, revoked one of the same account. `Identity`
implements it with `ledger <- refreshTokens`, `parent <- origin[.].parent`,
`decided <-` the accounts that are neither absent nor PENDING.

### ScheduleRunner

`schedules` is the table; `job[j]` is a run of `checkDueSchedules`: the copies it
still has to execute and the one between its reminders and its update. `Tick`
reads the due rows, `Remind` is the `createMany` of the reminders, `Reschedule`
the update. Time runs in units, `Minute` of them to a minute, over a calendar
whose minutes, hours, days and weeks are constants; months have equal lengths and
there is no daylight saving.
A cron expression is what `getNextCronRun` makes of it: not set, not five parts,
with a part `parseInt` cannot read, or fields. The order in which a job takes
its copies (the database gives none) is nondeterministic. `reminders` and
`excused` are history variables: how often an occurrence was reminded of since a
user set that time, and the schedules nothing is owed to (armed for the past, or
their last run failed).

### TaskWorkflow

`tasks` is the Task table with `completedAt` as a flag and the GitHub columns as
one `link`. `trail[t]` abstracts the status rows of TaskHistory to what the
properties ask: the last value written, and whether each row started where the one
before it ended. `slot[s]` is a handler in flight: its operation or event, the
copies still to treat (`todo`), the one at hand, and the notices it just sent.

| Code | Actions |
|---|---|
| `tasks.create` | `Create`, `CreateNotify` |
| `tasks.update` (find, update, history, notices) | `UpdateRead`, `UpdateWrite`, `UpdateHistory` with `UpdateNotices` |
| `tasks.remove` | `RemoveRead`, `RemoveWrite` |
| webhook handlers | `Receive` (the tasks are read), per task `NoteNumber` (the number of the pull request), `EventWrite` with `Effect`, `EventHistory` with `EventNotices`; `EndLoop` |
| `github.linkTaskToGithub` | `LinkTaskToGithub` |
| due-date and overdue jobs | `StartDueJob`, `DueNotify` |
| GitHub itself (environment) | `GitHub`: a pull request and an issue go through their states; each change puts a delivery on `wire`, from which `Receive` takes any, once or again |

`overlaps`, `disorder`, `patched` and `watched` are history variables: handlers
that started beside another, deliveries repeated or overtaken, tasks whose status
a user wrote, tasks linked before GitHub's first event. The properties use them
to say under which circumstances they hold; `overlaps = 0` does not mean one
handler only, but that no two were in flight *together*.

### Teams

`leader` is the Team table by its `ownerId`, `member` is `User.teamId`, `shares`
the TeamShare table. A request enters through the controller's and the service's
role lists (`May`), reads the team (`ReadTeam`), the user (`ReadUser`), the other
team (`ReadTo`) or the existing share (`FindShare`), writes, and notifies.
`since` collects who came into the team, or to lead it, after the request read it;
it is what the guards' copies do not know. `AdminMove` is the admin page's change
of team, which notifies nobody.

### The smaller services

* `Attendance`: `CheckRead` looks for today's record, `CheckInsert` inserts,
  `CheckTargets` reads whom to tell and `CheckNotify` tells one after another;
  `Midnight` may pass anywhere in between.
* `Documents`: every operation starts with `DocumentFindOne`; a toggle then finds
  the favourite and deletes that row (P2025) or inserts one (P2002, P2003).
* `Retrospectives`: `RetroRead` and one action per write. `share` is two steps, as
  its transaction is two queries: `RetroShareDelete` marks the rows it finds as
  doomed, which others see until the commit, and `RetroShareInsert` takes those and
  no others away, adds its own and commits. `RetroRefused` (an id that does not
  exist) and `RetroGivenUp` (the process or the transaction dies) leave all as it
  was. `granted`, `mixed` and `withdrawn` are history: whom the last share and
  additions since named, whom writes named that committed while that share was
  under way, and where a row was removed by its id. The four queries are operators.
* `NetworkWhitelist`: find and write; `Mask`, `IsIpInCidr` and `IsIpAllowed` on
  addresses of `Width` bits instead of 32. `**` is the recursive function `Pow2`,
  and `&` under `===` compares bit by bit (`Bit`, `SameUnder`), so that it can be
  proved about.
* `Notifications`: storing and pushing, reading and removing; `rooms` are
  socket.io's, `userSockets` the gateway's own map.
* `TaskThreads`: comments (read, insert, one notice after another, any of which
  may fail) and relations (read, read the other task, insert), with reassignments
  and removals of the task in between.
* `Integrations`: a token is read, then the outside is called, then the task is
  written; the outside may not answer, and the process may die. `LinkTaskToGithub`
  writes the issue and the branch a user gives, null included, whether GitHub has
  them or not; `byHand` (history) says which of the two a user wrote last. The
  number of a pull request, which it writes too, is in TaskWorkflow's
  `LinkTaskToGithub`.
* `Reports`: the total and the parts of a status report are two queries; member
  statistics and the daily graph are operators on a clock whose local midnight is
  `Offset` units off UTC's.
* `Access`: one viewer, one row of each kind and one team asked for range over
  all there are.

## 4. Runs

| Run | Instance | What it shows |
|---|---|---|
| `identity_sessions` | 1 ACTIVE account, 2 requests, clock 0..3, crashes; 133k states | the token table is a ledger (`ImplementsLedger`) and rotation keeps its order under every interleaving of login, refresh, logout and change of password |
| `identity_admission` | owner + 1 sign-up, 2 requests, crashes, failed audits; 156k states | `UndecidedHasNoSession`, `ToldOnlyDecisions`, `AdmissionOneWay` |
| `identity_sequential` | owner + 1 sign-up, 1 request, clock 0..2; 920k states | what the handlers establish one at a time: passwords and sessions agree, an inactive account has none, a token is exchanged once, one decision per account. Two requests at once lose each of the four (section 6) |
| `identity_grants` | owner + 1 sign-up, 1 request, 1 team that may be deleted and that members are moved into and out of, fair; 113k states | audit rows agree with roles, and with teams no team endpoint set; a decision is eventually told |
| `identity_refresh_reuse` | 2 requests | **violated** `RefreshOnce`: one token, two refreshes |
| `schedule_calm` | 2 schedules, clock 0..12, 1 job, timer punctual, jobs done within 1 unit; 2.05M states | one reminder per occurrence (`AtMostOnce`), nothing left behind (`NeverStuck`), daily and weekly cron followed (`CronKeepsPace`) |
| `schedule_rough` | 1 schedule of each cron shape, clock 0..10, 2 overlapping jobs of up to 3 units, late and missed ticks, failures, crashes; 73k states | at most two reminders per occurrence, no job rearms into the past |
| `schedule_recurring` | 1 schedule | **violated** `RecurringIsArmed`: cron without `scheduledAt` never runs |
| `tasks_handlers` | 1 task (seeded, created or removed), 2 handlers, up to 3 events and overlaps together, 1 overlap, 1 delivery repeated or overtaken; 3.93M states | history (`TrailChains`), `completedAt` (`DoneMatchesCompletion`), merges (`MergedEndsDone`), notices (`NoticesAreDistinct`, `NoticesAreTrue`), cancelled tasks (`CancelledStays`) |
| `tasks_uncounted` | 1 handler | **violated** `CompletedCounts`: a task its user completes is in no member statistics |
| `teams` | 3 users (OWNER, HEAD, ACTOR), 2 teams, 2 shares, 2 requests at a time, 3 in all; 1.22M states | `SharePerSlot`, `LastNoticeTrue`, `DeleteTakesNobody`, `LeaderStays` |
| `workspace` | 3 users, 2 teams, 2 requests, 2 rows of most tables; 2.05M states | one property for each of the smaller services, and their types |

Why the bounds are enough. Two requests are the smallest number that race, and
every race of this code is between the read and the write of *one* handler and a
write of *another*; rows of different accounts, tasks or documents meet in no
condition, so one beside the administrator shows what each can go through. Teams
are the exception: transfers and shares are between two, and a third user is
needed for a leader, a member and someone who acts.

* `MaxTime`, `AccessTTL`, `RefreshTTL`, `MaxPw` (Identity): the clock reaches past
  the life of both tokens, so that both expire; `MaxPw` bounds password changes.
* `MaxTime`, `MaxLate`, `MaxLag` (ScheduleRunner): minutes of 2 units, 2 minutes an
  hour, 2 hours a day, 2 days a week; the clock passes a full day (8 units), so that
  a daily and a weekly occurrence is run, rearmed and, for the daily one, run again.
* `MaxEvents`, `MaxOverlaps`, `MaxDisorder` (TaskWorkflow): three events carry a
  pull request from opened through closed and reopened, or to a merge beside an
  issue that was closed; one overlap and one disorder show what they break.
* `MaxRequests` (Teams): three requests are two that race and one that set the
  stage; `AdminMove` and `create` count as requests.
* `MaxRows`, `MaxNamed`, `MaxDay`, `Width`, `Days`, `UnitsPerDay`, `Offset`,
  `MaxTime`, `MaxWrites`, `Sample`, `Account`, `OpenTask`, `HandNumber` (Workspace):
  two rows are one that is there and one that comes, or those of two shares that
  overlap; one midnight; two bits have the lengths 0, between, full and above; the
  graph's clock passes its span of two days, with local midnights one unit off.
  `Sample` are the users the larger tables range over, `Account` who connects what,
  `OpenTask` the task that is not removed from the start, and `HandNumber` the one
  number linked by hand, which GitHub's first issue may have or not.

In `workspace` only the service named by `open` moves: the nine write no table of
one another, so a state of all of them is a tuple of states of each and their
product would show nothing more. Symmetry is taken of requests and documents, which
nothing tells apart; entries and sockets could be added, users, teams and tasks not.

Deadlock is checked except in `identity_sequential`, where the only OWNER may
deactivate itself and then nobody can do anything; in the schedule runs, whose
clock stops at `MaxTime`; and in `teams` and `workspace`, whose requests, rows and
days are bounded.

Fairness. Only `DecisionIsTold` needs it, in `FairSpec`: weak fairness of each
request's next call. It is what the event loop and the database give: a call
that was issued completes. It says nothing about clients, the clock or crashes,
and the run that uses it has no crashes: with them a notice may be lost, which
the hazards list.

Each property of a passing run is accompanied by a mutant, an operator beside
the one it changes and commented `Mutant:`, under which TLC finds the property
violated.

## 5. What is proved

For any sets of users, accounts, teams, tasks, requests and rows and any bounds,
from the `ASSUME`s of the modules (`IdentityAssumption`, `ScheduleAssumption`,
`TaskAssumption`, `TeamsAssumption`, `DirectoryAssumption`, and `RetrosAssumption`,
`ThreadsAssumption`, `IntegrationsAssumption`, `ReportsAssumption`,
`WhitelistAssumption`). They say that the markers (`NoUser`, `Absent`, ...) are none
of the values they stand beside, that bounds are numbers, that the rows at the start
are rows, and that the tasks a report counts and the jobs of the runner are finitely
many.

| Module | Theorems |
|---|---|
| `IdentityProofs` | `TypeCorrect`, `NoSessionBeforeDecision` (`UndecidedHasNoSession`), `RotationSound` (`RotationOrder`), `NoticesFollowDecisions` (`ToldOnlyDecisions`), `AdmissionSound` (`AdmissionOneWay`), `LedgerImplemented` (`ImplementsLedger`); under hypotheses: `SessionsMatchPasswordApart`, `InactiveHasNoSessionApart`, `RefreshOnceAlone`, `OneDecisionAlone`, `AuditTracksGrantsAlone`, `DecisionsAreToldNext` |
| `ScheduleProofs` | `TypeCorrect`, `RearmsAheadAlways`, `AtMostTwiceAlways`, `CronKeepsPaceAlways`; under hypotheses: `NeverStuckPunctual`, `AtMostOncePunctual`, `RecurringIsArmedIfTimed` |
| `TaskWorkflowProofs` | `TypeCorrect`, `TrailChainsAlways`, `DoneMatchesCompletionAlways`, `NoticesAreDistinctAlways`, `NoticesAreTrueAlways`, `CancelledStaysAlways`, `MergedEndsDoneAlways`, `GithubCompletionsCount`; under a hypothesis: `CompletedCountsByGithub` |
| `TeamsProofs` | `TypeCorrect`, `SharePerSlotAlways`, `LastNoticeTrueAlways`, `DeletionSound` (`DeleteTakesNobody`), `LeaderStaysAlways` |
| `OneRowProofs` | `AttendanceTypeCorrect`, `AttendancePerSlotAlways`, `DocumentsTypeCorrect`, `FavouriteIsLastAnswerAlways` |
| `QueryProofs` | `AccessAgreesAlways`, `RetrosTypeCorrect`, `SharesAreLatestAlways`, `RetroReadersAlways`, `ReportsTypeCorrect`, `ReportsAddUpAlways`, `WhitelistTypeCorrect`, `AllowedByPrefixAlways` |
| `NotificationsProofs` | `NotificationsTypeCorrect`, `OnlineIsReachedAlways`, `ThreadsTypeCorrect`, `CommentIsHeardAlways` |
| `WorkspaceProofs` | `IntegrationsTypeCorrect`, `IssuesAreRecordedAlways`; `SideBySideSound`, `ServicesRunApart`, `WorkspaceTypeCorrect`, `WorkspaceSound` |

The theorems about the smaller services are about their own specifications
(`AttendanceSpec`, ...). `SideBySideSound` takes them together: whatever the other
eight do meanwhile, each keeps its property. `ServicesRunApart` says that a behaviour
of `Workspace`, which moves one service only, is one of all nine, so that
`WorkspaceTypeCorrect` and `WorkspaceSound` state the very formulas the run checks.

Ten theorems have hypotheses, because the property is false without them:

| Hypothesis | Where | Why |
|---|---|---|
| `[]Apart` | sessions and passwords, inactive accounts | a login or refresh that read the account before its password changed, or before it was deactivated or rejected, stores its token afterwards |
| `[]OneRefresher` | `RefreshOnceAlone` | two refreshes of one token both find it live (`identity_refresh_reuse`) |
| `[]OneDecider`, `[]OneGranter` | decisions, audit rows | two administrators both find the account PENDING, or write and record in different orders |
| `~Faulty`, `DecidesAlone` | `DecisionsAreToldNext` | a crash loses the notice; and (de)activation decides on an account and tells nobody |
| `~Faulty` | elsewhere, where a write must be followed by another of the same handler | a crash or a failed audit insert keeps the second from being made |
| `MaxLate = 0`, `MaxLag < Minute` | `NeverStuckPunctual` | a tick that comes late after one that came on time leaves a gap between their windows |
| `MaxLate + MaxLag < Minute`, `ReadableOnly` | `AtMostOncePunctual` | the next tick would find rows the last job has not moved on yet; and a cron expression the runner cannot read never moves on |
| `TimesGiven` | `RecurringIsArmedIfTimed` | a schedule made with a cron expression and no `scheduledAt` never runs (`schedule_recurring`); nor does one a user makes recurring while a job holds the copy without |
| `~UsersComplete` | `CompletedCountsByGithub` | a user who sets DONE sets no `completedAt` (`tasks_uncounted`) |

The first three rows speak of which requests overlap, not of how many there are:
any number of requests, of one account too, may be in flight, and `RefreshOnceAlone`
and `OneDecisionAlone` allow for crashes. `identity_sequential`, with its one
request, is the smallest instance of all of them, `schedule_calm` of the others.

**Identity.** None of the invariants is inductive: each speaks of rows,
and what endangers it is what a request in flight still *will* write. `IInv`
adds what every such request knows (`RequestOK`): a request about to store a
token is a login or a refresh, of an account already decided on; a refresh past
its revocation holds a token that is revoked, of the same user and not from the
future; a request about to notify has written its decision; and stored tokens
are from the past (`RowsArePast`). Two facts carry the step: accounts only move
away from undecided, so what a request read stays true however long it waits, and
revoked tokens stay revoked. Strict ageing in `RotationOrder` comes from the
unique hash: the insert of a refresh in the second of its parent is refused,
because that very row exists. The refinement maps every insert to `Grant`, every
revocation to `Revoke` (or a stutter), approvals, rejections and (de)activations
to `Decide`.

What holds of requests that do not overlap is proved from what a request knows while
nobody is in its way. A live session, and one a login or refresh is about to store,
has the present password, unless a change of password is about to revoke it
(`CurrentPassword`); the same with INACTIVE (`NotInactive`). A token being exchanged
was not exchanged before (`Unrotated`), an account being decided on was not told of
a decision (`Untold`), and the audit rows lack only what a request that wrote a role
or team has yet to record, and the teams set by the team endpoints (`Tracked`). Of
the liveness property `DecisionIsTold` the safety half is proved: a decided account
was told, or a request stands before the notice (`ToldOrAboutTo`), which is then its
next step (`TellsNext`). What fairness adds is that this step is made.

**Schedules.** `RearmsAhead` rests on `NextCronRunAhead`, the arithmetic of
`getNextCronRun`: the answer drops its seconds *after* it was compared with the
current time, and is in the future all the same, because it is a whole number of
minutes that lies past the start of the current one. `AtMostTwice` is not
inductive, because a job that overlaps the next tick still holds copies it will
remind of. `TicksCover` counts them: the reminders of an occurrence and the jobs
that hold a copy of it together never exceed the ticks that may have seen it
(`TicksFor`: none before its time, one in its minute, one in the minute after),
and `OneCopyEach` makes a reminder use one copy up. A user who sets the time
again only lowers the count.

With a punctual timer (`Punctual`: by the next tick the jobs of the last one are
done) `InTime` says that a schedule past its time is held by a job or falls into the
window of the next tick, which gives `NeverStuck`, and `Once` that an occurrence not
yet reminded of is what gives `AtMostOnce`: the tick that would find it again comes
after the job that moved it on. `CronKeepsPace` is arithmetic alone: midnight, day and
time of day of any `t` (`Reading`, `Calendar`), the one time of each day an expression
names (`MatchesAt`), and that of two times that match only one is the first
(`OneFirstMatch`). `getNextCronRun` looks at the weekday only when the time of day has
passed; on the day a schedule was due it has.

`RecurringIsArmed`, which a run finds violated, is proved where schedules get their
cron expression when they are created and with a time (`TimesGiven`), failures and
overlapping jobs included. Its invariant `Armed`: a row with a cron expression has a
next run, and every copy a job holds of it has the expression too, because the next
run is computed from the copy and written over the row.

**Tasks.** The invariant says of a handler that is alone (`overlaps = 0`) what it
still knows of the rows it copied (`Knows`): each copy of `todo` has its task's
status and there is one per task; between the write and the history row the task
has what was written and the trail still ends at the copy; and a notice just sent
says what is so. `Shape` gives each operation its steps, and `Alone` that no other
slot is at work. With them `TrailRuns` (the trail ends at the status of every task
that no handler is recording) and `Dated` are kept; that one event makes at most
one thing of a copy and sets or clears `completedAt` exactly with DONE is
`EffectIs`. `NoticesAreDistinct` holds with overlaps too: it needs `Shape` alone.
So does `Counts`: an event that makes a task DONE dates it in the same write, from
whatever copy, so a task no user's status was written to counts in the statistics
(`GithubCompletionsCount`), and all do where users set none DONE, which is then the
one cause of what the run finds (`CompletedCounts`).

`MergedEndsDone` depends on every order of the events on the wire, and needs two
invariants while deliveries are made once and in order. `InOrder`: once the pull
request is merged, any of its other events still on the wire or being handled has
the merge behind it, and the same of the issue's reopening once it is closed again.
`Merging`: a task linked from the start is `Settled`, which is to say that the merge
is still to come to it, or that it is DONE, or will be by the issue's closing, or the
issue is open again. An event that takes a task out of DONE is a reopening of either,
and by `InOrder` the merge or the closing is then still to come.

**Teams.** `Learned` says what a request past its read of the team knows: the
team was there, whoever of its members it did not count is in `since`, and so is
who came to lead it. `NoneYet` says of a slot about to insert a share that no row
of that slot's is there for the pair. `LastNoticeTrue` needs `Told`: outside the
users two requests were about at once, a request about to notify is the only one
about its user and has written what it will tell.

**Attendance, Documents, Notifications.** A slot about to insert found nothing of
its user and type from the start it took on, and only that slot adds rows of its
own (`NotBefore`). The id a toggle found names, for as long as it names a row, a
row of that toggle's pair, because ids are not used twice (`Found`, `Ids`). The
gateway's map has the sockets of each room and no empty entry (`Mirrors`).

**Comments, integrations.** Whoever is yet to hear of a comment is among those its
request goes on to tell (`Heard`), and no comment or relation outlives its tasks
(`Standing`), though its insert comes after the read that found them. An issue of a
task without a number is `Owed` by a request under way or stranded, unless a user
set the number to none, and what a task has that no user wrote was made for it
(`Made`); both need what each request
carries by the time it writes (`Carries`).

**Access.** No induction: the formulas agree for every viewer, row and team, one
lemma for each kind of row.

**Retrospectives, reports.** Share rows come from one createMany on a retrospective
that is there and go with it (`SharesKept`). What a share under way will leave of
others' rows are those it did not doom, and their readers are among those it missed
(`ShareUnderWay`): with that, its commit leaves the readers it names and at most
those. Who reads a draft follows. A total
counted since the last write is the number of tasks there (`TotalsHold`), and the
three statuses part them. The graph's days run without a gap from the UTC day of the
span's start (`GraphDatesAre`), and by division with remainder a task completed two
days ago or before falls on one of them, on any calendar and in any zone
(`GraphMisses`).

**Network whitelist.** TLC checks two bits; the theorem is about any number, 32 among
them. `MaskBits`: the bits of `Mask(k)` are 1 in the `k` leading places and 0 below.
`TopIsBits`: two addresses agree in their `k` leading bits exactly when dividing by
`2^(Width - k)` gives the same, by induction from the top bit down (`TopStep`). That
induction, and that `Pow2` is the doubling it is written as (`PowUnfolds`), go through
the least element a non-empty set of numbers has (`SetInduction`, from the library's
well-foundedness of `<`), because induction theorems over operators cannot be used.
Past `Width` the mask is all ones and the whole address counts.

Only model-checked is `DecisionIsTold`, beyond its safety half: liveness under
fairness and ENABLED are out of the prover's reach. Each of the three
claims that a run finds violated is proved where its cause is excluded. No module proved about has a
RECURSIVE operator.

## 6. Where the code and its documentation part

Shown by the violation runs:

* one refresh token can be exchanged twice (`auth/auth.service.ts:105`, against
  `auth/auth.controller.ts:212`);
* a schedule with a cron expression alone never runs
  (`schedules/schedules.service.ts:27`, against `schedules.controller.ts:58`);
* a task a user sets DONE has no `completedAt` and is in no member statistics
  (`tasks/tasks.service.ts:297`, against `teams/teams.service.ts:622`).

The model behaves as the code does in these too, without a run of their own:

* a refresh in the same second as its login revokes and then fails to store
  (`auth/auth.service.ts:202`, `auth/auth.controller.ts:193`); a login or refresh in
  flight stores its token after `deactivateUser` revoked them all
  (`admin/admin.service.ts:302`); two administrators decide at once and both notify
  (`admin/admin.service.ts:89`);
* a job switches a schedule a user just disabled back on
  (`schedules/schedule-runner.service.ts:185`, against
  `schedules/dto/create-schedule.dto.ts:110`);
* a login overlapping a change of password leaves a session of the old password
  (`users/users.service.ts:103`);
* `activateUser` turns a PENDING user ACTIVE, without role, notice or audit row
  (`admin/admin.controller.ts:308` documents INACTIVE only);
* a rejected user's row keeps its e-mail, so it cannot sign up again
  (`admin/admin.controller.ts:195` says it can);
* change of password revokes the caller's own session too
  (`users/users.controller.ts:124` says it is kept);
* logout leaves the access token working until it expires
  (`auth/auth.controller.ts:271`);
* (de)activation is not audited although its action names are declared
  (`audit/audit.service.ts:19`); nor are the members that `addMember`,
  `removeMember` and `transferMember` move (`teams/teams.service.ts:221`, `272`,
  `337`), although `TEAM_MEMBER_ADD` and `TEAM_MEMBER_REMOVE` are declared
  (`audit/audit.service.ts:26-27`) and every important activity is to be recorded
  (`audit/audit.controller.ts:23`): after one of them a user's team is not that of
  the last audit row;
* two shares of one retrospective that overlap both delete the old rows and both
  insert, so that the readers of both lists keep it
  (`retrospectives/retrospectives.service.ts:348-356`, against
  `retrospectives/retrospectives.controller.ts:219`, by which the new list replaces
  the old one);
* a task may name an issue or a branch that was never made: `linkTaskToGithub` stores
  what the user gives (`integrations/github/github.service.ts:185-192`);
* cron expressions: `*` in minute or hour runs once a day; a part such as `*/5`
  makes the update fail after the reminders went out, and the schedule stays
  behind for good; the day of the month only means "a month later"; the month is
  ignored; a weekly run executed after midnight counts from the wrong day;
* a new `cronExpression` does not rearm, switching on does not recompute
  `nextRunAt`, and a new `scheduledAt` does not reactivate a finished schedule;
* `teams.addMember` moves the leader of another team away without a word, and a team
  may be shared with itself;
* a list of schedules that names another team shows that team's, which `findOne`
  refuses; the list of retrospectives shows drafts, which `findOne` refuses, and a
  TEAM retrospective of a teamless author opens to teamless users;
* `getSharedTasks` and `getSharedSchedules` check no access;
* `removeShare`, `removeRelation` and `removeComment` do not look at the parent named
  in the path;
* the member graph stops before today; the completion rate can exceed 100 when
  tasks change between its two counts; `getTodayPRs` asks for the UTC date of the
  local midnight, which is yesterday east of UTC;
* what is no dotted address is matched as 0.0.0.0, and the pattern of a range lets
  prefixes of 33 to 99 pass, which cover one address; it also lets octets of up to
  999 pass, whose carry into the octet before makes such a range that of another
  address.

## 7. Not modelled

* Users profile: `getMe`, `updateMe` and the Slack template read or write one row of
  one user by itself.
* Audit: the filtered lists and statistics are single reads of a table that only
  grows; the inserts are in `Identity`.
* Dashboard: the counts by priority and the activity feed repeat filters that are
  modelled over other columns.
* Plain lists with paging and sorting, message and reminder texts, titles, tags and
  priorities, the Slack text of an attendance notice: no property depends on them.
* Application shell: wiring, configuration, health checks, cookies, response
  wrapping. The seed is the initial states, the exception filter the failed writes.
* The signature check of the webhook: a delivery it refuses changes nothing.
* Prisma itself. Of what it does beyond its calls, `Access` and `Retrospectives`
  assume that an empty filter `{}` inside an `OR`, which is what the lists put there
  for an OWNER (`tasks/tasks.service.ts:115`), matches every row; nothing under
  `src/` says so.
