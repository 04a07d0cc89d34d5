------------------------------ MODULE Reports ------------------------------
(***************************************************************************)
(* What TeamsService and DashboardService count: tasks of members by the   *)
(* day they were completed, and tasks by status.  Times are counted in     *)
(* units of a part of a day; the server's midnights are Offset units       *)
(* before those of UTC, in which the days of the graph are named.  A       *)
(* status report asks for the total and for the parts in two queries.      *)
(***************************************************************************)
EXTENDS Access, Integers

CONSTANTS UnitsPerDay, Offset, Days,  \* Days: the span a graph asks for
          MaxTime, MaxWrites          \* bounds on the clock and on writes

VARIABLES
  clock,
  work,      \* each task: [assignee, team, status, completedAt] or Absent
  writes,    \* how often work changed
  reports    \* each request: NoRequest, or [team, total, asOf] once it has the total

reportVars == <<clock, work, writes, reports>>

WorkStatus == {"TODO", "IN_PROGRESS", "DONE"}
Never == -1
WorkShape == [assignee : User, team : Team \union {NoTeam}, status : WorkStatus,
              completedAt : Nat \union {Never}]
ReportShape == [team : Team \union {NoTeam}, total : Nat, asOf : Nat]

ASSUME ReportsAssumption ==
  /\ UnitsPerDay \in Nat \ {0} /\ Offset \in Int /\ {Days, MaxTime, MaxWrites} \subseteq Nat
  /\ IsFiniteSet(Task)
  /\ Absent \notin WorkShape /\ NoRequest \notin ReportShape

ReportsInit ==
  /\ clock = 0 /\ writes = 0
  /\ work = [t \in Task |-> Absent]
  /\ reports = [r \in Request |-> NoRequest]

ReportClock ==
  /\ clock < MaxTime /\ clock' = clock + 1
  /\ UNCHANGED <<work, writes, reports>>

\* tasks.create, an edit to DONE by the webhook (which sets completedAt) or by a
\* user (which does not), work started or started again, and a removal.
WorkWrite(t, row) ==
  /\ writes < MaxWrites /\ writes' = writes + 1
  /\ work' = [work EXCEPT ![t] = row]
  /\ UNCHANGED <<clock, reports>>
WorkCreate(t, u, team) ==
  /\ work[t] = Absent
  /\ WorkWrite(t, [assignee |-> u, team |-> team, status |-> "TODO",
                   completedAt |-> Never])
WorkComplete(t, dated) ==
  /\ work[t] # Absent
  /\ WorkWrite(t, [work[t] EXCEPT !.status = "DONE",
                                  !.completedAt = IF dated THEN clock ELSE @])
WorkStart(t) == work[t] # Absent /\ WorkWrite(t, [work[t] EXCEPT !.status = "IN_PROGRESS"])
WorkRemove(t) == work[t] # Absent /\ WorkWrite(t, Absent)

\* getTaskStatusStats and getTeamStats: the count, and then the count by status.
Filed(team) == {t \in Task : work[t] # Absent /\ (team # NoTeam => work[t].team = team)}
InStatus(team, status) == {t \in Filed(team) : work[t].status = status}
ReportTotal(r, team) ==
  /\ reports[r] = NoRequest
  /\ reports' = [reports EXCEPT ![r] = [team |-> team, total |-> Cardinality(Filed(team)), asOf |-> writes]]
  /\ UNCHANGED <<clock, work, writes>>
CompletionRate(done, total) == IF total > 0 THEN (100 * done + total \div 2) \div total ELSE 0
ReportEnd(r) ==
  /\ reports[r] # NoRequest
  /\ reports' = [reports EXCEPT ![r] = NoRequest]
  /\ UNCHANGED <<clock, work, writes>>

ReportsNext ==
  \/ ReportClock
  \/ \E t \in Task : \/ \E u \in Sample, team \in Team : WorkCreate(t, u, team)
                     \/ \E dated \in BOOLEAN : WorkComplete(t, dated)
                     \/ WorkStart(t) \/ WorkRemove(t)
  \/ \E r \in Request : ReportEnd(r) \/ \E team \in Team \union {NoTeam} : ReportTotal(r, team)

ReportsSpec == ReportsInit /\ [][ReportsNext]_reportVars

-----------------------------------------------------------------------------
\* setDate(getDate() - days) and setHours(0): a midnight of the server.
StartDate(days) ==
  LET localDay == (clock + Offset) \div UnitsPerDay
  IN UnitsPerDay * (localDay - days) - Offset
UtcDay(time) == time \div UnitsPerDay

CompletedSince(u, start) ==
  {t \in Task : /\ work[t] # Absent /\ work[t].assignee = u /\ work[t].status = "DONE"
                /\ work[t].completedAt # Never /\ work[t].completedAt >= start}
MemberStats(u, days) ==
  [completedTasks |-> Cardinality(CompletedSince(u, StartDate(days))),
   inProgressTasks |-> Cardinality({t \in Filed(NoTeam) : work[t].assignee = u /\ work[t].status = "IN_PROGRESS"})]

\* The days of the graph, each named in UTC: days of them from the first on.
\* Mutant: one day less.
GraphDates_Short(days) == {UtcDay(StartDate(days) + UnitsPerDay * i) : i \in 0 .. days - 2}
GraphDates(days) == {UtcDay(StartDate(days) + UnitsPerDay * i) : i \in 0 .. days - 1}
\* The tasks that each day counts, and how often a count went up: once for a task.
DailyStats(u, days) ==
  [date \in GraphDates(days) |->
     {t \in CompletedSince(u, StartDate(days)) : UtcDay(work[t].completedAt) = date}]
Shown(u, days) == Cardinality(UNION {DailyStats(u, days)[date] : date \in GraphDates(days)})

\* The variables have their types (all of the module).
ReportsTypeOK ==
  /\ clock \in Nat /\ writes \in Nat
  /\ work \in [Task -> WorkShape \union {Absent}]
  /\ reports \in [Request -> ReportShape \union {NoRequest}]

\* The days of a member's graph sum up to its count of completed tasks over the
\* same span, less tasks completed less than two days ago, wherever the server's
\* midnight lies: the graph stops before today (teams.service.ts:636, 721-768).
\* A status report on tasks that did not change between its two queries adds up,
\* with a rate of at most 100 (dashboard.service.ts:40, 188-206).
ReportsAddUp ==
  /\ \A u \in Sample :
       LET counted == MemberStats(u, Days).completedTasks
           recent == {t \in CompletedSince(u, StartDate(Days)) :
                        clock - work[t].completedAt < 2 * UnitsPerDay}
       IN Shown(u, Days) \in counted - Cardinality(recent) .. counted
  /\ \A r \in Request : reports[r] # NoRequest =>
       LET parts == [status \in WorkStatus |-> Cardinality(InStatus(reports[r].team, status))]
       IN reports[r].asOf = writes =>
            /\ parts["TODO"] + parts["IN_PROGRESS"] + parts["DONE"] = reports[r].total
            /\ CompletionRate(parts["DONE"], reports[r].total) <= 100
=============================================================================
