--------------------------- MODULE ScheduleRunner ---------------------------
(***************************************************************************)
(* Schedules: SchedulesService's writes and ScheduleRunnerService, whose   *)
(* cron job reads the schedules due in the past minute and then, one after *)
(* another, reminds and rearms them from that copy.  The job is not        *)
(* awaited by the timer: the next minute's job may start while this one is *)
(* still busy, and users change the rows under both.                       *)
(*                                                                         *)
(* Time runs in units, Minute of them to a minute, through a scaled-down   *)
(* calendar whose months all have the same length.                         *)
(***************************************************************************)
EXTENDS Naturals, FiniteSets

CONSTANTS
  Schedule,       \* ids; a uuid is never used twice
  Bodies,         \* the [cron, at, isActive] a user may create a schedule with
  Patches,        \* the [cron, at, isActive] a user may patch one with
  Request,        \* toggles in flight
  Job,            \* runs of checkDueSchedules in flight
  Minute, MinutesPerHour, HoursPerDay, DaysPerWeek, DaysPerMonth,
  MaxTime,        \* bound on the clock
  MaxLate,        \* how late in its minute the timer may fire
  MaxLag,         \* how long a job may take
  Faulty,         \* TRUE: inserts fail, the process dies and misses ticks
  Never, Same, Star, Unused, Removed, NoToggle, NoDue

Time == 0 .. MaxTime

Hour == Minute * MinutesPerHour
Day == Hour * HoursPerDay
Week == Day * DaysPerWeek

\* A cron expression by what getNextCronRun makes of it: "none" (not set),
\* "malformed" (not five parts), "step" (a part parseInt cannot read, like
\* */5), or "fields"; the month field is never read.
CronShape == {"none", "malformed", "step", "fields"}
Cron == [shape : CronShape,
         minute : (0 .. MinutesPerHour - 1) \union {Star},
         hour : (0 .. HoursPerDay - 1) \union {Star},
         monthday : (1 .. DaysPerMonth) \union {Star},
         weekday : (0 .. DaysPerWeek - 1) \union {Star}]
Row == [cron : Cron, nextRunAt : Nat \union {Never}, isActive : BOOLEAN]
Copy == [id : Schedule, row : Row]
Toggle == [id : Schedule, isActive : BOOLEAN]

ASSUME ScheduleAssumption ==
  /\ \A n \in {Minute, MinutesPerHour, HoursPerDay, DaysPerWeek, DaysPerMonth} : n \in Nat \ {0}
  /\ MaxTime \in Nat /\ MaxLate \in 0 .. (Minute - 1) /\ MaxLag \in Nat
  /\ Faulty \in BOOLEAN
  /\ IsFiniteSet(Job)
  /\ Bodies \subseteq [cron : Cron, at : Nat \union {Never}, isActive : BOOLEAN]
  /\ Patches \subseteq [cron : Cron \union {Same}, at : Nat \union {Same},
                        isActive : BOOLEAN \union {Same}]
  /\ Never \notin Nat /\ Star \notin Nat /\ Same \notin Nat \union Cron \union BOOLEAN
  /\ {Unused, Removed} \intersect Row = {} /\ Unused # Removed
  /\ NoDue \notin Copy /\ NoToggle \notin Toggle

VARIABLES
  schedules,   \* the Schedule table: cron, nextRunAt, isActive
  now,         \* the clock
  ticked,      \* this minute's timer has fired
  job,         \* each job: copies still to execute, the one executing, its start
  toggle,      \* each toggleActive between its read and its write
  reminders,   \* history: how often an occurrence was reminded of since a user set it
  excused      \* history: schedules armed too late, or whose last run failed

vars == <<schedules, now, ticked, job, toggle, reminders, excused>>

Exists(s) == schedules[s] \notin {Unused, Removed}
IdleJob == [due |-> {}, current |-> NoDue, start |-> 0]

Init ==
  /\ schedules = [s \in Schedule |-> Unused]
  /\ now = 0
  /\ ticked = FALSE
  /\ job = [j \in Job |-> IdleJob]
  /\ toggle = [r \in Request |-> NoToggle]
  /\ reminders = [s \in Schedule |-> [t \in Time |-> 0]]
  /\ excused = {}

-----------------------------------------------------------------------------
(* getNextCronRun *)

MinuteOf(t) == (t \div Minute) % MinutesPerHour
HourOf(t) == (t \div Hour) % HoursPerDay
WeekdayOf(t) == (t \div Day) % DaysPerWeek
Midnight(t) == t - (t % Day)
OnTheMinute(t) == t - (t % Minute)

Field(value, default) == IF value = Star THEN default ELSE value

\* Mutant: today counts as the next such day.
DaysAhead_Today(target, today) ==
  IF target >= today THEN target - today ELSE (target + DaysPerWeek) - today
DaysAhead(target, today) ==
  IF target > today THEN target - today ELSE (target + DaysPerWeek) - today

\* Setting minutes and hours keeps the seconds of t; they are dropped last.
\* The day fields count only when the time of day has passed, and of the day of
\* the month only that it is set.
NextCronRun(cron, t) ==
  LET next == Midnight(t) + Field(cron.hour, HourOf(t)) * Hour
                          + Field(cron.minute, MinuteOf(t)) * Minute + (t % Minute)
      days == IF cron.weekday # Star THEN DaysAhead(cron.weekday, WeekdayOf(t))
              ELSE IF cron.monthday # Star THEN DaysPerMonth
              ELSE 1
  IN OnTheMinute(IF next > t THEN next ELSE next + days * Day)

\* calculateNextRun: a schedule without a cron expression was a one-time one.
NextRun(cron, t) ==
  CASE cron.shape = "none" -> Never
    [] cron.shape = "malformed" -> t + Hour
    [] cron.shape = "fields" -> NextCronRun(cron, t)

-----------------------------------------------------------------------------
(* SchedulesService.  Creator and teams, which decide who may change a       *)
(* schedule and whom it reminds, are left out.                               *)

\* History: a user's write settles from when a run is owed.
Written(s, row, at) ==
  /\ schedules' = [schedules EXCEPT ![s] = row]
  /\ excused' = IF row.nextRunAt # Never /\ row.nextRunAt < now
                THEN excused \union {s} ELSE excused \ {s}
  /\ reminders' = IF at \in Time THEN [reminders EXCEPT ![s][at] = 0] ELSE reminders

Create(s, body) ==
  /\ schedules[s] = Unused
  /\ Written(s, [cron |-> body.cron, nextRunAt |-> body.at, isActive |-> body.isActive],
             body.at)
  /\ UNCHANGED <<now, ticked, job, toggle>>

\* update reads the row for its existence and its creator, which never changes,
\* and writes nothing it read: the one row's new values are the request's.  Its
\* teams, written in the same transaction, only say whom a reminder goes to.
Update(s, patch) ==
  LET row == schedules[s]
      Patched(value, old) == IF value = Same THEN old ELSE value
  IN /\ Exists(s)
     /\ Written(s, [cron |-> Patched(patch.cron, row.cron),
                    nextRunAt |-> Patched(patch.at, row.nextRunAt),
                    isActive |-> Patched(patch.isActive, row.isActive)], patch.at)
     /\ UNCHANGED <<now, ticked, job, toggle>>

Remove(s) ==
  /\ Exists(s)
  /\ schedules' = [schedules EXCEPT ![s] = Removed]
  /\ UNCHANGED <<now, ticked, job, toggle, reminders, excused>>

ToggleRead(r, s) ==
  /\ toggle[r] = NoToggle
  /\ Exists(s)
  /\ toggle' = [toggle EXCEPT ![r] = [id |-> s, isActive |-> schedules[s].isActive]]
  /\ UNCHANGED <<schedules, now, ticked, job, reminders, excused>>

ToggleWrite(r) ==
  /\ toggle[r] # NoToggle
  /\ LET s == toggle[r].id IN
       IF Exists(s)
       THEN Written(s, [schedules[s] EXCEPT !.isActive = ~toggle[r].isActive], Never)
       ELSE UNCHANGED <<schedules, reminders, excused>>
  /\ toggle' = [toggle EXCEPT ![r] = NoToggle]
  /\ UNCHANGED <<now, ticked, job>>

-----------------------------------------------------------------------------
(* checkDueSchedules *)

\* Mutant: the past minute is open at its start and at its end.
DueAt_Exclusive(t) == now < t + Minute /\ t < now
\* Mutant: everything that is past is due.
DueAt_AllPast(t) == t <= now
DueAt(t) == now <= t + Minute /\ t <= now

\* The timer fires once in its minute; the job's copies are rows with their
\* includes.
Tick(j) ==
  LET due == {s \in Schedule : /\ Exists(s)
                               /\ schedules[s].isActive
                               /\ schedules[s].nextRunAt # Never
                               /\ DueAt(schedules[s].nextRunAt)}
  IN /\ ~ticked
     /\ job[j] = IdleJob
     /\ ticked' = TRUE
     /\ job' = IF due = {} THEN job
               ELSE [job EXCEPT ![j] = [due |-> {[id |-> s, row |-> schedules[s]] : s \in due},
                                        current |-> NoDue, start |-> now]]
     /\ UNCHANGED <<schedules, now, toggle, reminders, excused>>

\* What is left of a job when it is done with one copy.
Rest(left) == IF left.due = {} THEN IdleJob ELSE [left EXCEPT !.current = NoDue]

\* Mutant: the job never ends.
Executed_Lingers(j) == job' = [job EXCEPT ![j].current = NoDue]
Executed(j) == job' = [job EXCEPT ![j] = Rest(job[j])]

\* The first half of executeSchedule: the reminders, of one createMany.
Remind(j, d) ==
  /\ job[j].current = NoDue
  /\ d \in job[j].due
  /\ job' = [job EXCEPT ![j].due = @ \ {d}, ![j].current = d]
  /\ reminders' = [reminders EXCEPT ![d.id][d.row.nextRunAt] = @ + 1]
  /\ UNCHANGED <<schedules, now, ticked, toggle, excused>>

\* The createMany fails; executeSchedule logs it and the loop goes on.
RemindFails(j, d) ==
  /\ Faulty
  /\ job[j].current = NoDue
  /\ d \in job[j].due
  /\ job' = [job EXCEPT ![j] = Rest([job[j] EXCEPT !.due = @ \ {d}])]
  /\ excused' = excused \union {d.id}
  /\ UNCHANGED <<schedules, now, ticked, toggle, reminders>>

\* Mutant: a one-time schedule that has run keeps its time and stays active.
Reschedule_OneTimeStays(j) ==
  LET s == job[j].current.id
      next == NextRun(job[j].current.row.cron, now)
  IN /\ job[j].current # NoDue
     /\ schedules' = IF Exists(s) /\ next # Never
                     THEN [schedules EXCEPT ![s].nextRunAt = next, ![s].isActive = TRUE]
                     ELSE schedules
     /\ excused' = excused \ {s}
     /\ Executed(j)
     /\ UNCHANGED <<now, ticked, toggle, reminders>>

\* The second half: the next run is computed from the job's copy and written
\* over whatever the row has become.  A row that is gone (P2025) or a date that
\* is not one (a "step" expression) fails the update, which is logged.
Reschedule(j) ==
  LET s == job[j].current.id
      cron == job[j].current.row.cron
      next == NextRun(cron, now)
  IN /\ job[j].current # NoDue
     /\ IF Exists(s) /\ cron.shape # "step"
        THEN /\ schedules' = [schedules EXCEPT ![s].nextRunAt = next,
                                               ![s].isActive = (next # Never)]
             /\ excused' = excused \ {s}
        ELSE /\ excused' = excused \union {s}
             /\ UNCHANGED schedules
     /\ Executed(j)
     /\ UNCHANGED <<now, ticked, toggle, reminders>>

-----------------------------------------------------------------------------
(* Time and failure *)

\* The timer fires at most MaxLate into its minute, unless the process is down.
TimerOnTime == Faulty \/ ticked \/ now % Minute < MaxLate
JobsOnTime == \A j \in Job : job[j] # IdleJob => now < job[j].start + MaxLag

Advance ==
  /\ now < MaxTime
  /\ TimerOnTime /\ JobsOnTime
  /\ now' = now + 1
  /\ ticked' = IF (now + 1) % Minute = 0 THEN FALSE ELSE ticked
  /\ UNCHANGED <<schedules, job, toggle, reminders, excused>>

Crash ==
  /\ Faulty
  /\ job' = [j \in Job |-> IdleJob]
  /\ toggle' = [r \in Request |-> NoToggle]
  /\ excused' = excused \union {s \in Schedule : \E j \in Job :
                                  \/ \E d \in job[j].due : d.id = s
                                  \/ job[j].current # NoDue /\ job[j].current.id = s}
  /\ UNCHANGED <<schedules, now, ticked, reminders>>

Next ==
  \/ \E s \in Schedule, body \in Bodies : Create(s, body)
  \/ \E s \in Schedule, patch \in Patches : Update(s, patch)
  \/ \E s \in Schedule : Remove(s)
  \/ \E r \in Request : ToggleWrite(r) \/ \E s \in Schedule : ToggleRead(r, s)
  \/ \E j \in Job :
       \/ Tick(j) \/ Reschedule(j)
       \/ \E d \in job[j].due : Remind(j, d) \/ RemindFails(j, d)
  \/ Advance \/ Crash

Spec == Init /\ [][Next]_vars
-----------------------------------------------------------------------------
(* Properties *)

\* Rows, jobs and toggles have the shape of the code's, a copy being executed
\* was due at a time on the clock, and a job that has run out is over.
TypeOK ==
  /\ schedules \in [Schedule -> Row \union {Unused, Removed}]
  /\ now \in Time /\ ticked \in BOOLEAN
  /\ job \in [Job -> [due : SUBSET Copy, current : Copy \union {NoDue}, start : Time]]
  /\ \A j \in Job :
       /\ \A d \in job[j].due \union ({job[j].current} \ {NoDue}) : d.row.nextRunAt \in Time
       /\ job[j].due = {} /\ job[j].current = NoDue => job[j] = IdleJob
  /\ toggle \in [Request -> Toggle \union {NoToggle}]
  /\ reminders \in [Schedule -> [Time -> Nat]]
  /\ excused \subseteq Schedule

\* However late the timer, however slow the jobs and wherever the process dies,
\* an occurrence is due for at most two ticks, and so reminded of at most twice.
AtMostTwice == \A s \in Schedule, t \in Time : reminders[s][t] <= 2

\* What makes that inductive.  The ticks that may have seen an occurrence so far:
\* none before its time, one in its minute, a second in the minute after it.
TickCount == IF ticked THEN 1 ELSE 0
TicksFor(t) == IF now < t THEN 0
               ELSE IF OnTheMinute(now) <= t THEN TickCount
               ELSE IF OnTheMinute(now) <= t + Minute THEN 1 + TickCount
               ELSE 2

\* A job that still has to remind of an occurrence has a tick of its own.
Holding(s, t) == {j \in Job : \E d \in job[j].due : d.id = s /\ d.row.nextRunAt = t}
TicksCover == \A s \in Schedule, t \in Time :
                reminders[s][t] + Cardinality(Holding(s, t)) <= TicksFor(t)

OneCopyEach == \A j \in Job : \A d, e \in job[j].due : d.id = e.id => d = e

IInv == TypeOK /\ OneCopyEach /\ TicksCover

\* On time and undisturbed, every occurrence is reminded of once, though the
\* windows of two ticks meet: it is rearmed before the next tick looks.
AtMostOnce == \A s \in Schedule, t \in Time : reminders[s][t] <= 1

\* What a cron expression with a minute and an hour, and perhaps a weekday, says.
Daily(cron) == /\ cron.shape = "fields" /\ cron.minute # Star /\ cron.hour # Star
               /\ cron.monthday = Star
Matches(cron, t) == /\ t % Minute = 0
                    /\ MinuteOf(t) = cron.minute /\ HourOf(t) = cron.hour
                    /\ cron.weekday # Star => WeekdayOf(t) = cron.weekday
NextMatch(cron, t) == CHOOSE u \in (t + 1) .. (t + Week) :
                        /\ Matches(cron, u)
                        /\ \A v \in (t + 1) .. (u - 1) : ~Matches(cron, v)

\* A daily or weekly schedule that is on its cron and runs on the day it is due
\* is rearmed for the very next time its cron names: getNextCronRun, which looks
\* at the weekday only when today's time has passed, is right where it is used.
CronKeepsPace ==
  [][\A j \in Job : LET d == job[j].current IN
       /\ Reschedule(j)
       /\ Daily(d.row.cron)
       /\ Matches(d.row.cron, d.row.nextRunAt)
       /\ Midnight(now) = Midnight(d.row.nextRunAt)
       /\ Exists(d.id)
       => schedules'[d.id].nextRunAt = NextMatch(d.row.cron, now)]_vars

\* A rearmed schedule is never due again at once: whatever its cron, its next run
\* lies in the future, so a job cannot make work for the tick that follows it.
RearmsAhead ==
  [][\A j \in Job, s \in Schedule :
       Reschedule(j) /\ schedules'[s] # schedules[s] =>
         schedules'[s].nextRunAt = Never \/ schedules'[s].nextRunAt > now]_vars

\* With the timer on time, an active schedule never sits past its time: it is run
\* and rearmed within a minute and the time a job takes, unless a user armed it
\* for the past or its last run failed, and then it stays where it is.
NeverStuck ==
  \A s \in Schedule \ excused :
    Exists(s) /\ schedules[s].isActive /\ schedules[s].nextRunAt # Never
      => now <= schedules[s].nextRunAt + Minute + MaxLag

-----------------------------------------------------------------------------
(* What the documentation says, and the code does not do *)

\* schedules.controller.ts: for a recurring schedule, use cronExpression; so an
\* active schedule with one has a next run.
RecurringIsArmed ==
  \A s \in Schedule : Exists(s) /\ schedules[s].isActive /\ schedules[s].cron.shape = "fields"
                         => schedules[s].nextRunAt # Never
=============================================================================
