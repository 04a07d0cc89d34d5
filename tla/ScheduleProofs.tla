--------------------------- MODULE ScheduleProofs ---------------------------
(* Theorems about ScheduleRunner, for any calendar, schedules, jobs and bounds. *)
EXTENDS ScheduleRunner, Integers, FiniteSetTheorems, TLAPS

-----------------------------------------------------------------------------
(* The calendar: multiples of a unit, and the clock in its minute *)

LEMMA Remainder ==
  ASSUME NEW a \in Nat, NEW m \in Nat \ {0}
  PROVE  /\ a % m \in 0 .. (m - 1)
         /\ a \div m \in Nat
         /\ a % m = a - m * (a \div m)
<1>1. m \in Int /\ m > 0 /\ a \in Int /\ a >= 0
  OBVIOUS
<1>2. a % m \in 0 .. (m - 1)
  BY <1>1
<1>3. a \div m \in Int
  BY <1>1
<1>4. a % m = a - m * (a \div m)
  BY <1>1
<1>5. a \div m >= 0
  BY <1>1, <1>2, <1>3, <1>4
<1>. QED BY <1>1, <1>2, <1>3, <1>4, <1>5

LEMMA Multiples ==
  ASSUME NEW p \in Int, NEW q \in Int, NEW m \in Nat \ {0}, m * p < m * q
  PROVE  m * p + m <= m * q
<1>1. p < q
  <2>1. ASSUME p >= q PROVE m * p >= m * q
    BY <2>1
  <2>. QED BY <2>1
<1>. QED BY <1>1

LEMMA Split ==
  ASSUME NEW a \in Int, NEW m \in Int, NEW q \in Int, NEW r \in 0 .. (m - 1),
         m > 0, a = m * q + r
  PROVE  a % m = r
OBVIOUS

LEMMA NextMinute ==
  ASSUME NEW t \in Nat
  PROVE  /\ OnTheMinute(t) \in Nat
         /\ OnTheMinute(t) <= t
         /\ t < OnTheMinute(t) + Minute
         /\ (t + 1) % Minute # 0 => OnTheMinute(t + 1) = OnTheMinute(t)
         /\ (t + 1) % Minute = 0 => OnTheMinute(t + 1) = OnTheMinute(t) + Minute
<1>. DEFINE q == t \div Minute
            r == t % Minute
            a == t + 1
<1>1. Minute \in Int /\ Minute > 0 /\ Minute \in Nat \ {0} /\ a \in Int
  BY ScheduleAssumption
<1>2. q \in Int /\ r \in 0 .. (Minute - 1) /\ r = t - Minute * q
  BY <1>1, Remainder
<1>. HIDE DEF q, r, a
<1>3. CASE r = Minute - 1
  <2>1. a = Minute * (q + 1) + 0
    BY <1>1, <1>2, <1>3 DEF a
  <2>2. q + 1 \in Int /\ 0 \in 0 .. (Minute - 1)
    BY <1>1, <1>2
  <2>3. a % Minute = 0
    BY <1>1, <2>1, <2>2, Split
  <2>. QED BY <1>1, <1>2, <1>3, <2>3 DEF OnTheMinute, a, r
<1>4. CASE r < Minute - 1
  <2>1. a = Minute * q + (r + 1)
    BY <1>1, <1>2, <1>4 DEF a
  <2>2. r + 1 \in 0 .. (Minute - 1)
    BY <1>1, <1>2, <1>4
  <2>3. a % Minute = r + 1
    BY <1>1, <1>2, <2>1, <2>2, Split
  <2>. QED BY <1>1, <1>2, <1>4, <2>3 DEF OnTheMinute, a, r
<1>. QED BY <1>1, <1>2, <1>3, <1>4

\* A unit of the calendar is a whole number of minutes.
LEMMA Units ==
  /\ Hour \in Nat \ {0} /\ Day \in Nat \ {0}
  /\ Hour = Minute * MinutesPerHour
  /\ Day = Minute * (MinutesPerHour * HoursPerDay)
  /\ MinutesPerHour * HoursPerDay \in Nat \ {0}
<1>1. Minute \in Nat \ {0} /\ MinutesPerHour \in Nat \ {0} /\ HoursPerDay \in Nat \ {0}
  BY ScheduleAssumption
<1>. QED BY <1>1 DEF Hour, Day

\* Dropping the seconds of a time that is so many seconds into minute k.
LEMMA DropSeconds ==
  ASSUME NEW k \in Nat, NEW r \in 0 .. (Minute - 1)
  PROVE  OnTheMinute(Minute * k + r) = Minute * k
<1>1. Minute \in Int /\ Minute > 0
  BY ScheduleAssumption
<1>. DEFINE b == Minute * k
            a == b + r
<1>2. b \in Int /\ a \in Int /\ a = Minute * k + r
  BY <1>1
<1>3. a % Minute = r
  <2>. HIDE DEF a
  <2>. QED BY <1>1, <1>2, Split
<1>. HIDE DEF b
<1>. QED BY <1>1, <1>2, <1>3 DEF OnTheMinute

LEMMA DaysAheadBounds ==
  ASSUME NEW target \in 0 .. (DaysPerWeek - 1), NEW t \in Nat
  PROVE  DaysAhead(target, WeekdayOf(t)) \in Nat \ {0}
<1>1. DaysPerWeek \in Nat \ {0} /\ t \div Day \in Nat
  BY ScheduleAssumption, Units, Remainder
<1>2. WeekdayOf(t) \in 0 .. (DaysPerWeek - 1)
  BY <1>1, Remainder DEF WeekdayOf
<1>. QED BY <1>1, <1>2 DEF DaysAhead

LEMMA FieldTypes ==
  ASSUME NEW cron \in Cron, NEW t \in Nat
  PROVE  /\ Field(cron.hour, HourOf(t)) \in Nat
         /\ Field(cron.minute, MinuteOf(t)) \in Nat
<1>1. Minute \in Nat \ {0} /\ HoursPerDay \in Nat \ {0} /\ MinutesPerHour \in Nat \ {0}
  BY ScheduleAssumption
<1>2. t \div Hour \in Nat /\ t \div Minute \in Nat
  BY <1>1, Units, Remainder
<1>3. HourOf(t) \in 0 .. (HoursPerDay - 1) /\ MinuteOf(t) \in 0 .. (MinutesPerHour - 1)
  BY <1>1, <1>2, Remainder DEF HourOf, MinuteOf
<1>. QED BY <1>1, <1>3 DEF Cron, Field

-----------------------------------------------------------------------------
(* The next time a cron expression names *)

\* What getNextCronRun computes before it drops the seconds: the time of day on
\* t's day, and how many days it goes ahead when that has passed.
TodayAt(cron, t) == Midnight(t) + Field(cron.hour, HourOf(t)) * Hour
                                + Field(cron.minute, MinuteOf(t)) * Minute
DaysOn(cron, t) == IF cron.weekday # Star THEN DaysAhead(cron.weekday, WeekdayOf(t))
                   ELSE IF cron.monthday # Star THEN DaysPerMonth
                   ELSE 1

\* The seconds it keeps make no difference: both sides are whole minutes.
LEMMA NextCronRunIs ==
  ASSUME NEW cron \in Cron, NEW t \in Nat
  PROVE  /\ TodayAt(cron, t) \in Nat /\ TodayAt(cron, t) >= Midnight(t)
         /\ DaysOn(cron, t) \in Nat \ {0}
         /\ Midnight(t) \in Nat /\ Midnight(t) <= t /\ t < Midnight(t) + Day
         /\ NextCronRun(cron, t) = IF TodayAt(cron, t) > t THEN TodayAt(cron, t)
                                   ELSE TodayAt(cron, t) + DaysOn(cron, t) * Day
<1>. DEFINE h == Field(cron.hour, HourOf(t))
            m == Field(cron.minute, MinuteOf(t))
            r == t % Minute
            dd == MinutesPerHour * HoursPerDay
            qd == t \div Day
            k == qd * dd + h * MinutesPerHour + m
            base == TodayAt(cron, t)
            days == DaysOn(cron, t)
            tm == t \div Minute
<1>1. /\ Minute \in Nat \ {0} /\ MinutesPerHour \in Nat \ {0} /\ dd \in Nat \ {0}
      /\ h \in Nat /\ m \in Nat
  BY ScheduleAssumption, Units, FieldTypes
<1>2. /\ r \in 0 .. (Minute - 1)
      /\ OnTheMinute(t) = Minute * tm /\ tm \in Nat
      /\ OnTheMinute(t) <= t /\ t < OnTheMinute(t) + Minute
      /\ OnTheMinute(t) = t - r
  <2>1. tm \in Nat /\ r \in 0 .. (Minute - 1) /\ r = t - Minute * tm
    BY <1>1, Remainder
  <2>2. OnTheMinute(t) = t - r
    BY DEF OnTheMinute
  <2>. QED BY <1>1, <2>1, <2>2, NextMinute
<1>3. /\ qd \in Nat /\ Midnight(t) = Day * qd
      /\ Midnight(t) <= t /\ t < Midnight(t) + Day /\ Midnight(t) \in Nat
  <2>1. qd \in Nat /\ t % Day \in 0 .. (Day - 1) /\ t % Day = t - Day * qd
    BY Units, Remainder
  <2>2. Day \in Nat
    BY Units
  <2>. QED BY <2>1, <2>2 DEF Midnight
<1>4. k \in Nat /\ base = Minute * k
  <2>1. Midnight(t) = Minute * (qd * dd)
    BY <1>1, <1>3, Units
  <2>2. h * Hour = Minute * (h * MinutesPerHour)
    BY <1>1, Units
  <2>3. qd * dd \in Nat /\ h * MinutesPerHour \in Nat
    BY <1>1, <1>3
  <2>. QED BY <1>1, <2>1, <2>2, <2>3 DEF TodayAt
<1>5. days \in Nat \ {0}
  <2>1. cron.weekday # Star => cron.weekday \in 0 .. (DaysPerWeek - 1)
    BY DEF Cron
  <2>2. DaysPerMonth \in Nat \ {0}
    BY ScheduleAssumption
  <2>. QED BY <2>1, <2>2, DaysAheadBounds DEF DaysOn
<1>6. NextCronRun(cron, t) =
        OnTheMinute(IF base + r > t THEN base + r ELSE (base + r) + days * Day)
  BY DEF NextCronRun, TodayAt, DaysOn
<1>7. base >= Midnight(t)
  BY <1>1, <1>3, Units DEF TodayAt
<1>. HIDE DEF h, m, r, dd, qd, k, base, days, tm
<1>8. CASE base + r > t
  <2>1. NextCronRun(cron, t) = base
    BY <1>2, <1>4, <1>6, <1>8, DropSeconds
  <2>2. Minute * tm < Minute * k
    BY <1>1, <1>2, <1>4, <1>8
  <2>3. Minute * tm + Minute <= Minute * k
    BY <1>1, <1>2, <1>4, <2>2, Multiples
  <2>4. base > t /\ base \in Nat
    BY <1>1, <1>2, <1>4, <2>3
  <2>. QED BY <1>3, <1>5, <1>7, <2>1, <2>4 DEF base, days
<1>9. CASE ~(base + r > t)
  <2>. DEFINE kk == k + days * dd
  <2>1. days * Day = Minute * (days * dd) /\ days * dd \in Nat
    BY <1>1, <1>5, Units DEF dd
  <2>2. kk \in Nat /\ (base + r) + days * Day = Minute * kk + r
    BY <1>1, <1>2, <1>4, <2>1
  <2>3. NextCronRun(cron, t) = Minute * kk
    BY <1>2, <1>6, <1>9, <2>2, DropSeconds
  <2>4. Minute * kk = base + days * Day
    BY <1>1, <1>4, <2>1
  <2>5. base \in Nat /\ ~(base > t)
    BY <1>1, <1>2, <1>4, <1>9
  <2>. QED BY <1>3, <1>5, <1>7, <2>3, <2>4, <2>5 DEF base, days
<1>. QED BY <1>8, <1>9

\* getNextCronRun never answers with a time that is not in the future.
LEMMA NextCronRunAhead ==
  ASSUME NEW cron \in Cron, NEW t \in Nat
  PROVE  NextCronRun(cron, t) \in Nat /\ NextCronRun(cron, t) > t
<1>. DEFINE base == TodayAt(cron, t)
            days == DaysOn(cron, t)
            ahead == days * Day
            start == Midnight(t)
<1>1. /\ base \in Nat /\ base >= start /\ days \in Nat \ {0}
      /\ start \in Nat /\ t < start + Day
      /\ NextCronRun(cron, t) = IF base > t THEN base ELSE base + ahead
  BY NextCronRunIs
<1>2. ahead \in Nat /\ ahead >= Day /\ Day \in Nat
  BY <1>1, Units
<1>. HIDE DEF base, days, ahead, start
<1>. QED BY <1>1, <1>2

LEMMA NextRunAhead ==
  ASSUME NEW cron \in Cron, cron.shape # "step", NEW t \in Nat
  PROVE  \/ NextRun(cron, t) = Never
         \/ NextRun(cron, t) \in Nat /\ NextRun(cron, t) > t
<1>1. cron.shape \in CronShape
  BY DEF Cron
<1>2. Hour \in Nat \ {0}
  BY Units
<1>. QED BY <1>1, <1>2, NextCronRunAhead DEF NextRun, CronShape

-----------------------------------------------------------------------------
(* Type correctness *)

Jobs == [due : SUBSET Copy, current : Copy \union {NoDue}, start : Time]

JobOK(b) == /\ b \in Jobs
            /\ \A d \in b.due \union ({b.current} \ {NoDue}) : d.row.nextRunAt \in Time
            /\ b.due = {} /\ b.current = NoDue => b = IdleJob

LEMMA TypeParts ==
  TypeOK <=> /\ schedules \in [Schedule -> Row \union {Unused, Removed}]
             /\ now \in Time /\ ticked \in BOOLEAN
             /\ job \in [Job -> Jobs] /\ \A j \in Job : JobOK(job[j])
             /\ toggle \in [Request -> Toggle \union {NoToggle}]
             /\ reminders \in [Schedule -> [Time -> Nat]]
             /\ excused \subseteq Schedule
BY DEF TypeOK, JobOK, Jobs

LEMMA IdleJobOK == JobOK(IdleJob)
BY ScheduleAssumption DEF JobOK, Jobs, IdleJob, Time

\* A job that changes stays one, and the others are not touched.
LEMMA JobChanges ==
  ASSUME job \in [Job -> Jobs], \A i \in Job : JobOK(job[i]),
         NEW j \in Job, NEW b, JobOK(b), job' = [job EXCEPT ![j] = b]
  PROVE  job' \in [Job -> Jobs] /\ \A i \in Job : JobOK(job'[i])
BY DEF JobOK

LEMMA RestOK ==
  ASSUME NEW b \in Jobs, \A d \in b.due : d.row.nextRunAt \in Time
  PROVE  JobOK(Rest(b))
BY IdleJobOK DEF Rest, JobOK, Jobs

LEMMA ExistingRow ==
  ASSUME TypeOK, NEW s \in Schedule, Exists(s)
  PROVE  schedules[s] \in Row
BY DEF TypeOK, Exists

LEMMA WrittenType ==
  ASSUME TypeOK, NEW s \in Schedule, NEW row \in Row, NEW at, Written(s, row, at)
  PROVE  /\ schedules' \in [Schedule -> Row \union {Unused, Removed}]
         /\ reminders' \in [Schedule -> [Time -> Nat]]
         /\ excused' \subseteq Schedule
<1>1. reminders' \in [Schedule -> [Time -> Nat]]
  <2>1. CASE at \in Time
    <3>1. [reminders[s] EXCEPT ![at] = 0] \in [Time -> Nat]
      BY DEF TypeOK
    <3>. QED BY <2>1, <3>1 DEF TypeOK, Written
  <2>. QED BY <2>1 DEF TypeOK, Written
<1>. QED BY <1>1 DEF TypeOK, Written

LEMMA TypeAtInit == Init => TypeOK
<1>. SUFFICES ASSUME Init PROVE TypeOK
  OBVIOUS
<1>1. job \in [Job -> Jobs] /\ \A j \in Job : JobOK(job[j])
  BY IdleJobOK DEF Init, JobOK
<1>2. now \in Time
  BY ScheduleAssumption DEF Init, Time
<1>3. reminders \in [Schedule -> [Time -> Nat]]
  BY DEF Init
<1>. QED BY <1>1, <1>2, <1>3, TypeParts DEF Init

\* A user's write to a schedule.
LEMMA UserType ==
  ASSUME TypeOK, NEW s \in Schedule,
         \/ \E body \in Bodies : Create(s, body)
         \/ \E patch \in Patches : Update(s, patch)
         \/ Remove(s)
  PROVE  TypeOK'
<1>1. ASSUME NEW body \in Bodies, Create(s, body) PROVE TypeOK'
  <2>. DEFINE row == [cron |-> body.cron, nextRunAt |-> body.at, isActive |-> body.isActive]
  <2>1. row \in Row
    BY ScheduleAssumption DEF Row
  <2>. QED BY <1>1, <2>1, WrittenType DEF Create, TypeOK
<1>2. ASSUME NEW patch \in Patches, Update(s, patch) PROVE TypeOK'
  <2>. DEFINE old == schedules[s]
              Patched(value, was) == IF value = Same THEN was ELSE value
              row == [cron |-> Patched(patch.cron, old.cron),
                      nextRunAt |-> Patched(patch.at, old.nextRunAt),
                      isActive |-> Patched(patch.isActive, old.isActive)]
  <2>1. old \in Row
    BY <1>2, ExistingRow DEF Update
  <2>2. row \in Row
    BY <2>1, ScheduleAssumption DEF Row
  <2>3. Written(s, row, patch.at)
    BY <1>2 DEF Update
  <2>. HIDE DEF row
  <2>. QED BY <1>2, <2>2, <2>3, WrittenType DEF Update, TypeOK
<1>3. ASSUME Remove(s) PROVE TypeOK'
  BY <1>3 DEF Remove, TypeOK
<1>. QED BY <1>1, <1>2, <1>3

LEMMA ToggleType ==
  ASSUME TypeOK, NEW r \in Request,
         ToggleWrite(r) \/ \E s \in Schedule : ToggleRead(r, s)
  PROVE  TypeOK'
<1>1. ASSUME NEW s \in Schedule, ToggleRead(r, s) PROVE TypeOK'
  <2>1. schedules[s].isActive \in BOOLEAN
    BY <1>1, ExistingRow DEF ToggleRead, Row
  <2>2. [id |-> s, isActive |-> schedules[s].isActive] \in Toggle
    BY <2>1 DEF Toggle
  <2>. QED BY <1>1, <2>2 DEF ToggleRead, TypeOK
<1>2. ASSUME ToggleWrite(r) PROVE TypeOK'
  <2>. DEFINE s == toggle[r].id
              row == [schedules[s] EXCEPT !.isActive = ~toggle[r].isActive]
  <2>1. toggle[r] \in Toggle
    BY <1>2 DEF ToggleWrite, TypeOK
  <2>2. s \in Schedule
    BY <2>1 DEF Toggle
  <2>3. toggle' \in [Request -> Toggle \union {NoToggle}]
    BY <1>2 DEF ToggleWrite, TypeOK
  <2>4. CASE Exists(s)
    <3>1. schedules[s] \in Row
      BY <2>2, <2>4, ExistingRow
    <3>2. row \in Row
      <4>. DEFINE on == ~toggle[r].isActive
      <4>1. on \in BOOLEAN
        OBVIOUS
      <4>. HIDE DEF on
      <4>. QED BY <3>1, <4>1 DEF Row
    <3>3. Written(s, row, Never)
      BY <1>2, <2>4 DEF ToggleWrite
    <3>. HIDE DEF row, s
    <3>. QED BY <1>2, <2>2, <2>3, <3>2, <3>3, WrittenType DEF ToggleWrite, TypeOK
  <2>5. CASE ~Exists(s)
    BY <1>2, <2>3, <2>5 DEF ToggleWrite, TypeOK
  <2>. QED BY <2>4, <2>5
<1>. QED BY <1>1, <1>2

LEMMA TickType ==
  ASSUME TypeOK, NEW j \in Job, Tick(j)
  PROVE  TypeOK'
<1>. DEFINE due == {s \in Schedule : /\ Exists(s)
                                     /\ schedules[s].isActive
                                     /\ schedules[s].nextRunAt # Never
                                     /\ DueAt(schedules[s].nextRunAt)}
            copies == {[id |-> s, row |-> schedules[s]] : s \in due}
            b == [due |-> copies, current |-> NoDue, start |-> now]
<1>1. now \in Time /\ now \in 0 .. MaxTime
  BY DEF TypeOK, Time
<1>2. \A s \in due : schedules[s] \in Row /\ schedules[s].nextRunAt \in Time
  <2>. SUFFICES ASSUME NEW s \in due PROVE schedules[s] \in Row /\ schedules[s].nextRunAt \in Time
    OBVIOUS
  <2>1. schedules[s] \in Row
    BY ExistingRow
  <2>2. schedules[s].nextRunAt \in Nat /\ schedules[s].nextRunAt <= now
    BY <2>1 DEF Row, DueAt
  <2>. QED BY <1>1, <2>1, <2>2, ScheduleAssumption DEF Time
<1>3. copies \in SUBSET Copy /\ \A d \in copies : d.row.nextRunAt \in Time
  BY <1>2 DEF Copy
<1>4. job \in [Job -> Jobs] /\ \A i \in Job : JobOK(job[i])
  BY TypeParts
<1>5. due # {} => copies # {}
  OBVIOUS
<1>6. job' = IF due = {} THEN job ELSE [job EXCEPT ![j] = b]
  BY DEF Tick
<1>. HIDE DEF copies, due
<1>7. due # {} => JobOK(b)
  BY <1>1, <1>3, <1>5 DEF JobOK, Jobs
<1>8. job' \in [Job -> Jobs] /\ \A i \in Job : JobOK(job'[i])
  BY <1>4, <1>6, <1>7, JobChanges
<1>. QED BY <1>8 DEF Tick, TypeOK, JobOK, Jobs

\* The copies a job holds are of schedules, due at times on the clock.
LEMMA CopyTypes ==
  ASSUME TypeOK, NEW j \in Job
  PROVE  /\ job[j] \in Jobs
         /\ \A d \in job[j].due : d \in Copy /\ d.id \in Schedule /\ d.row.nextRunAt \in Time
         /\ job[j].current # NoDue =>
              /\ job[j].current \in Copy /\ job[j].current.id \in Schedule
              /\ job[j].current.row.cron \in Cron
<1>1. job[j] \in Jobs /\ JobOK(job[j])
  BY TypeParts
<1>. QED BY <1>1 DEF Jobs, JobOK, Copy, Row

LEMMA RemindType ==
  ASSUME TypeOK, NEW j \in Job, NEW d \in job[j].due, Remind(j, d) \/ RemindFails(j, d)
  PROVE  TypeOK'
<1>1. /\ job \in [Job -> Jobs] /\ \A i \in Job : JobOK(job[i])
      /\ job[j] \in Jobs /\ d \in Copy /\ d.id \in Schedule /\ d.row.nextRunAt \in Time
      /\ d # NoDue
  BY TypeParts, CopyTypes, ScheduleAssumption
<1>2. CASE Remind(j, d)
  <2>. DEFINE b == [job[j] EXCEPT !.due = @ \ {d}, !.current = d]
  <2>1. JobOK(b)
    BY <1>1 DEF JobOK, Jobs
  <2>2. job' = [job EXCEPT ![j] = b]
    BY <1>1, <1>2 DEF Remind, Jobs
  <2>3. job' \in [Job -> Jobs] /\ \A i \in Job : JobOK(job'[i])
    <3>. HIDE DEF b
    <3>. QED BY <1>1, <2>1, <2>2, JobChanges
  <2>4. reminders' \in [Schedule -> [Time -> Nat]]
    <3>. DEFINE f == reminders[d.id]
                t == d.row.nextRunAt
    <3>1. f \in [Time -> Nat] /\ f[t] + 1 \in Nat
      BY <1>1 DEF TypeOK
    <3>2. [f EXCEPT ![t] = @ + 1] \in [Time -> Nat]
      BY <3>1
    <3>. QED BY <1>1, <1>2, <3>2 DEF Remind, TypeOK
  <2>. QED BY <1>2, <2>3, <2>4 DEF Remind, TypeOK, JobOK, Jobs
<1>3. CASE RemindFails(j, d)
  <2>. DEFINE b == [job[j] EXCEPT !.due = @ \ {d}]
  <2>1. b \in Jobs /\ \A e \in b.due : e.row.nextRunAt \in Time
    BY <1>1 DEF JobOK, Jobs
  <2>2. job' = [job EXCEPT ![j] = Rest(b)]
    BY <1>1, <1>3 DEF RemindFails
  <2>3. job' \in [Job -> Jobs] /\ \A i \in Job : JobOK(job'[i])
    <3>. HIDE DEF b
    <3>. QED BY <1>1, <2>1, <2>2, RestOK, JobChanges
  <2>. QED BY <1>1, <1>3, <2>3 DEF RemindFails, TypeOK, JobOK, Jobs
<1>. QED BY <1>2, <1>3

LEMMA RescheduleType ==
  ASSUME TypeOK, NEW j \in Job, Reschedule(j)
  PROVE  TypeOK'
<1>. DEFINE s == job[j].current.id
            cron == job[j].current.row.cron
            next == NextRun(cron, now)
<1>1. s \in Schedule /\ cron \in Cron /\ now \in Nat
  BY CopyTypes, TypeParts DEF Reschedule, Time
<1>2. job' \in [Job -> Jobs] /\ \A i \in Job : JobOK(job'[i])
  <2>1. job \in [Job -> Jobs] /\ (\A i \in Job : JobOK(job[i])) /\ JobOK(Rest(job[j]))
    BY TypeParts, CopyTypes, RestOK
  <2>2. job' = [job EXCEPT ![j] = Rest(job[j])]
    BY DEF Reschedule, Executed
  <2>. QED BY <2>1, <2>2, JobChanges
<1>3. excused' \subseteq Schedule
  BY <1>1 DEF Reschedule, TypeOK
<1>4. schedules' \in [Schedule -> Row \union {Unused, Removed}]
  <2>1. CASE Exists(s) /\ cron.shape # "step"
    <3>. DEFINE on == (next # Never)
    <3>1. schedules[s] \in Row
      BY <1>1, <2>1, ExistingRow
    <3>2. next \in Nat \union {Never}
      BY <1>1, <2>1, NextRunAhead
    <3>3. on \in BOOLEAN
      OBVIOUS
    <3>4. schedules' = [schedules EXCEPT ![s].nextRunAt = next, ![s].isActive = on]
      BY <2>1 DEF Reschedule
    <3>. HIDE DEF next, on, s
    <3>5. [schedules[s] EXCEPT !.nextRunAt = next, !.isActive = on] \in Row
      BY <3>1, <3>2, <3>3 DEF Row
    <3>6. schedules \in [Schedule -> Row \union {Unused, Removed}]
      BY DEF TypeOK
    <3>. QED BY <1>1, <3>4, <3>5, <3>6
  <2>2. CASE ~(Exists(s) /\ cron.shape # "step")
    BY <2>2 DEF Reschedule, TypeOK
  <2>. QED BY <2>1, <2>2
<1>. QED BY <1>2, <1>3, <1>4 DEF Reschedule, TypeOK, JobOK, Jobs

LEMMA TimeType ==
  ASSUME TypeOK, Advance \/ Crash
  PROVE  TypeOK'
<1>1. CASE Advance
  <2>1. now' \in Time
    BY <1>1, ScheduleAssumption DEF Advance, TypeOK, Time
  <2>2. ticked' \in BOOLEAN
    BY <1>1 DEF Advance, TypeOK
  <2>. QED BY <1>1, <2>1, <2>2 DEF Advance, TypeOK
<1>2. CASE Crash
  <2>1. job' \in [Job -> Jobs] /\ \A j \in Job : JobOK(job'[j])
    BY <1>2, IdleJobOK DEF Crash, JobOK
  <2>2. excused' \subseteq Schedule /\ toggle' \in [Request -> Toggle \union {NoToggle}]
    BY <1>2 DEF Crash, TypeOK
  <2>. QED BY <1>2, <2>1, <2>2 DEF Crash, TypeOK, JobOK, Jobs
<1>. QED BY <1>1, <1>2

LEMMA TypeAtNext == TypeOK /\ [Next]_vars => TypeOK'
<1>. SUFFICES ASSUME TypeOK, [Next]_vars PROVE TypeOK'
  OBVIOUS
<1>1. CASE UNCHANGED vars
  BY <1>1 DEF vars, TypeOK
<1>2. CASE Next
  BY <1>2, UserType, ToggleType, TickType, RemindType, RescheduleType, TimeType DEF Next
<1>. QED BY <1>1, <1>2

\* The rows, jobs and toggles of any run have the declared shapes; in particular
\* a job only ever holds copies that were due at a time on the clock.
THEOREM TypeCorrect == Spec => []TypeOK
BY TypeAtInit, TypeAtNext, PTL DEF Spec

-----------------------------------------------------------------------------
(* What a job makes of a schedule *)

\* RearmsAhead: getNextCronRun's answer is in the future for every expression
\* whose parts are numbers, on any calendar, so a job never makes its schedule
\* due again at once.
THEOREM RearmsAheadAlways == Spec => RearmsAhead
<1>1. TypeOK /\ [Next]_vars =>
        [\A j \in Job, s \in Schedule :
           Reschedule(j) /\ schedules'[s] # schedules[s] =>
             schedules'[s].nextRunAt = Never \/ schedules'[s].nextRunAt > now]_vars
  <2>. SUFFICES ASSUME TypeOK, NEW j \in Job, NEW s \in Schedule,
                       Reschedule(j), schedules'[s] # schedules[s]
                PROVE  schedules'[s].nextRunAt = Never \/ schedules'[s].nextRunAt > now
    OBVIOUS
  <2>. DEFINE c == job[j].current.id
              cron == job[j].current.row.cron
              next == NextRun(cron, now)
  <2>1. c \in Schedule /\ cron \in Cron /\ now \in Nat
    BY CopyTypes, TypeParts DEF Reschedule, Time
  <2>2. Exists(c) /\ cron.shape # "step"
    BY DEF Reschedule
  <2>3. schedules' = [schedules EXCEPT ![c].nextRunAt = next, ![c].isActive = (next # Never)]
    BY <2>2 DEF Reschedule
  <2>4. schedules[c] \in Row
    BY <2>1, <2>2, ExistingRow
  <2>5. next = Never \/ next > now
    BY <2>1, <2>2, NextRunAhead
  <2>6. s = c
    BY <2>1, <2>3 DEF TypeOK
  <2>7. schedules'[c].nextRunAt = next
    <3>. HIDE DEF next
    <3>. QED BY <2>1, <2>3, <2>4 DEF TypeOK, Row
  <2>. QED BY <2>5, <2>6, <2>7
<1>. QED BY <1>1, TypeCorrect, PTL DEF Spec, RearmsAhead

-----------------------------------------------------------------------------
(* A schedule that is on its cron stays on it *)

LEMMA Divide ==
  ASSUME NEW a \in Int, NEW m \in Int, NEW q \in Int, NEW r \in 0 .. (m - 1),
         m > 0, a = m * q + r
  PROVE  a \div m = q
OBVIOUS

LEMMA Smaller ==
  ASSUME NEW p \in Int, NEW q \in Int, NEW m \in Nat \ {0}, m * p < m * q
  PROVE  p < q
<1>1. ASSUME p >= q PROVE m * p >= m * q
  BY <1>1
<1>. QED BY <1>1

\* Two numbers that leave the same remainder are a multiple apart.
LEMMA SameRemainder ==
  ASSUME NEW a \in Nat, NEW b \in Nat, NEW m \in Nat \ {0}, a % m = b % m, a < b
  PROVE  a + m <= b
<1>. DEFINE p == a \div m
            q == b \div m
            r == a % m
<1>1. p \in Nat /\ q \in Nat /\ r \in Nat /\ r = a - m * p /\ r = b - m * q
  <2>1. p \in Nat /\ a % m \in 0 .. (m - 1) /\ a % m = a - m * p
    BY Remainder
  <2>2. q \in Nat /\ b % m = b - m * q
    BY Remainder
  <2>. HIDE DEF p, q
  <2>. QED BY <2>1, <2>2
<1>. HIDE DEF p, q, r
<1>2. m * p < m * q /\ m * p \in Int /\ m * q \in Int
  BY <1>1
<1>3. m * p + m <= m * q
  BY <1>1, <1>2, Multiples
<1>. QED BY <1>1, <1>2, <1>3

LEMMA NextRemainder ==
  ASSUME NEW a \in Nat, NEW m \in Nat \ {0}
  PROVE  (a + m) % m = a % m
<1>. DEFINE q == a \div m
            r == a % m
            b == a + m
<1>1. q \in Nat /\ r \in 0 .. (m - 1) /\ r = a - m * q
  BY Remainder
<1>2. b = m * (q + 1) + r /\ b \in Int /\ q + 1 \in Int
  BY <1>1
<1>. HIDE DEF b, q, r
<1>3. b % m = r
  <2>1. m \in Int /\ m > 0
    OBVIOUS
  <2>. QED BY <1>1, <1>2, <2>1, Split
<1>. QED BY <1>3 DEF b, r

\* The time of day, and what the calendar reads at minute y of hour x of day k.
TimeOfDay(x, y) == Hour * x + Minute * y

LEMMA TimeOfDayBounds ==
  ASSUME NEW x \in 0 .. (HoursPerDay - 1), NEW y \in 0 .. (MinutesPerHour - 1), NEW z \in 0 .. (Minute - 1)
  PROVE  /\ TimeOfDay(x, y) \in Nat /\ TimeOfDay(x, y) + z \in 0 .. (Day - 1)
         /\ Minute * y + z \in 0 .. (Hour - 1)
<1>1. /\ Minute \in Nat \ {0} /\ MinutesPerHour \in Nat \ {0} /\ HoursPerDay \in Nat \ {0}
      /\ Hour = Minute * MinutesPerHour /\ Day = Hour * HoursPerDay /\ Hour \in Nat \ {0}
  BY ScheduleAssumption, Units DEF Day, Hour
<1>. DEFINE my == Minute * y
            hx == Hour * x
<1>2. my \in Nat /\ my + Minute <= Hour
  <2>1. y + 1 <= MinutesPerHour
    BY <1>1
  <2>2. Minute * (y + 1) <= Minute * MinutesPerHour
    BY <1>1, <2>1
  <2>3. Minute * (y + 1) = my + Minute
    BY <1>1
  <2>. QED BY <1>1, <2>2, <2>3
<1>3. hx \in Nat /\ hx + Hour <= Day
  <2>1. x + 1 <= HoursPerDay
    BY <1>1
  <2>2. Hour * (x + 1) <= Hour * HoursPerDay
    BY <1>1, <2>1
  <2>3. Hour * (x + 1) = hx + Hour
    BY <1>1
  <2>. QED BY <1>1, <2>2, <2>3
<1>4. TimeOfDay(x, y) = hx + my
  BY DEF TimeOfDay
<1>. HIDE DEF my, hx
<1>5. /\ hx + my \in Nat /\ (hx + my) + z \in 0 .. (Day - 1) /\ my + z \in 0 .. (Hour - 1)
  BY <1>1, <1>2, <1>3
<1>. QED BY <1>4, <1>5 DEF my

LEMMA Reading ==
  ASSUME NEW k \in Nat, NEW x \in 0 .. (HoursPerDay - 1), NEW y \in 0 .. (MinutesPerHour - 1),
         NEW z \in 0 .. (Minute - 1), NEW t \in Nat, t = Day * k + (TimeOfDay(x, y) + z)
  PROVE  /\ t % Minute = z /\ MinuteOf(t) = y /\ HourOf(t) = x
         /\ t \div Day = k /\ Midnight(t) = Day * k
<1>1. /\ Minute \in Nat \ {0} /\ MinutesPerHour \in Nat \ {0} /\ HoursPerDay \in Nat \ {0}
      /\ Hour = Minute * MinutesPerHour /\ Day = Hour * HoursPerDay
      /\ Hour \in Nat \ {0} /\ Day \in Nat \ {0}
      /\ k \in Int /\ x \in Int /\ y \in Int /\ z \in Int
  BY ScheduleAssumption, Units DEF Day, Hour
<1>. DEFINE hours == HoursPerDay * k + x
            minutes == MinutesPerHour * hours + y
            d == TimeOfDay(x, y) + z
            e == Minute * y + z
<1>2. hours \in Int /\ minutes \in Int
  BY <1>1
<1>3. d \in 0 .. (Day - 1) /\ e \in 0 .. (Hour - 1) /\ d = Hour * x + e
  BY <1>1, TimeOfDayBounds DEF TimeOfDay
<1>4. t = Hour * hours + e
  <2>1. Hour * hours = Day * k + Hour * x
    BY <1>1
  <2>. QED BY <1>1, <1>3, <2>1
<1>5. t = Minute * minutes + z
  <2>1. Minute * minutes = Hour * hours + Minute * y
    BY <1>1, <1>2
  <2>. QED BY <1>1, <1>2, <1>4, <2>1
<1>6. t \div Day = k /\ t % Day = d
  <2>1. t = Day * k + d /\ t \in Int /\ Day \in Int /\ Day > 0
    BY <1>1
  <2>. HIDE DEF d
  <2>. QED BY <1>1, <1>3, <2>1, Divide, Split
<1>. HIDE DEF d, e
<1>7. t \div Hour = hours
  BY <1>1, <1>2, <1>3, <1>4, Divide
<1>8. t \div Minute = minutes /\ t % Minute = z
  BY <1>1, <1>2, <1>5, Divide, Split
<1>. HIDE DEF minutes
<1>9. hours % HoursPerDay = x
  BY <1>1, <1>2, Split
<1>. HIDE DEF hours
<1>10. minutes % MinutesPerHour = y
  BY <1>1, <1>2, Split DEF minutes
<1>11. Midnight(t) = Day * k
  BY <1>1, <1>3, <1>6 DEF Midnight, d
<1>. QED BY <1>6, <1>7, <1>8, <1>9, <1>10, <1>11 DEF MinuteOf, HourOf

\* Every time is some second of some minute of some hour of some day.
LEMMA Calendar ==
  ASSUME NEW t \in Nat
  PROVE  \E k \in Nat, x \in 0 .. (HoursPerDay - 1), y \in 0 .. (MinutesPerHour - 1), z \in 0 .. (Minute - 1) :
           t = Day * k + (TimeOfDay(x, y) + z)
<1>1. /\ Minute \in Nat \ {0} /\ MinutesPerHour \in Nat \ {0} /\ HoursPerDay \in Nat \ {0}
      /\ Hour = Minute * MinutesPerHour /\ Day = Hour * HoursPerDay
      /\ Hour \in Nat \ {0} /\ Day \in Nat \ {0}
  BY ScheduleAssumption, Units DEF Day, Hour
<1>. DEFINE k == t \div Day
            d == t % Day
            x == d \div Hour
            e == d % Hour
            y == e \div Minute
            z == e % Minute
<1>2. k \in Nat /\ d \in 0 .. (Day - 1) /\ d = t - Day * k
  BY <1>1, Remainder
<1>. HIDE DEF k, d
<1>3. x \in Nat /\ e \in 0 .. (Hour - 1) /\ e = d - Hour * x
  <2>1. d \in Nat
    BY <1>1, <1>2
  <2>. QED BY <1>1, <2>1, Remainder
<1>. HIDE DEF x, e
<1>4. y \in Nat /\ z \in 0 .. (Minute - 1) /\ z = e - Minute * y
  <2>1. e \in Nat
    BY <1>1, <1>3
  <2>. QED BY <1>1, <2>1, Remainder
<1>. HIDE DEF y, z
<1>5. x < HoursPerDay
  <2>1. Hour * x < Hour * HoursPerDay
    BY <1>1, <1>2, <1>3
  <2>. QED BY <1>1, <1>3, <2>1, Smaller
<1>6. y < MinutesPerHour
  <2>1. Minute * y < Minute * MinutesPerHour
    BY <1>1, <1>3, <1>4
  <2>. QED BY <1>1, <1>4, <2>1, Smaller
<1>7. x \in 0 .. (HoursPerDay - 1) /\ y \in 0 .. (MinutesPerHour - 1)
  BY <1>1, <1>3, <1>4, <1>5, <1>6
<1>8. t = Day * k + (TimeOfDay(x, y) + z)
  <2>1. TimeOfDay(x, y) \in Nat
    BY <1>4, <1>7, TimeOfDayBounds
  <2>2. TimeOfDay(x, y) + z = d
    BY <1>1, <1>2, <1>3, <1>4 DEF TimeOfDay
  <2>. QED BY <1>1, <1>2, <2>2
<1>. QED BY <1>2, <1>4, <1>7, <1>8

\* A daily or weekly expression names its time of day on its days.
TimeOf(cron) == TimeOfDay(cron.hour, cron.minute)

LEMMA DailyTime ==
  ASSUME NEW cron \in Cron, Daily(cron)
  PROVE  /\ cron.hour \in 0 .. (HoursPerDay - 1) /\ cron.minute \in 0 .. (MinutesPerHour - 1)
         /\ TimeOf(cron) \in Nat /\ TimeOf(cron) < Day
<1>1. cron.hour \in 0 .. (HoursPerDay - 1) /\ cron.minute \in 0 .. (MinutesPerHour - 1)
  BY DEF Cron, Daily
<1>2. 0 \in 0 .. (Minute - 1)
  BY ScheduleAssumption
<1>3. TimeOf(cron) \in Nat /\ TimeOf(cron) + 0 \in 0 .. (Day - 1)
  BY <1>1, <1>2, TimeOfDayBounds DEF TimeOf
<1>. QED BY <1>1, <1>3, Units

LEMMA MatchesAt ==
  ASSUME NEW cron \in Cron, Daily(cron), NEW t \in Nat
  PROVE  Matches(cron, t) <=>
           /\ t = Day * (t \div Day) + TimeOf(cron)
           /\ cron.weekday # Star => (t \div Day) % DaysPerWeek = cron.weekday
<1>1. PICK k \in Nat, x \in 0 .. (HoursPerDay - 1), y \in 0 .. (MinutesPerHour - 1), z \in 0 .. (Minute - 1) :
        t = Day * k + (TimeOfDay(x, y) + z)
  BY Calendar
<1>2. t % Minute = z /\ MinuteOf(t) = y /\ HourOf(t) = x /\ t \div Day = k
  BY <1>1, Reading
<1>3. /\ cron.hour \in 0 .. (HoursPerDay - 1) /\ cron.minute \in 0 .. (MinutesPerHour - 1)
      /\ TimeOf(cron) \in Nat /\ Day \in Nat /\ 0 \in 0 .. (Minute - 1)
  BY DailyTime, Units, ScheduleAssumption
<1>4. WeekdayOf(t) = k % DaysPerWeek
  BY <1>2 DEF WeekdayOf
<1>5. ASSUME z = 0, y = cron.minute, x = cron.hour PROVE t = Day * k + TimeOf(cron)
  <2>1. t = Day * k + (TimeOf(cron) + 0)
    BY <1>1, <1>5 DEF TimeOf
  <2>. QED BY <1>3, <2>1
<1>6. ASSUME t = Day * k + TimeOf(cron) PROVE z = 0 /\ y = cron.minute /\ x = cron.hour
  <2>. DEFINE h == cron.hour
              m == cron.minute
              o == 0
  <2>1. t = Day * k + (TimeOfDay(h, m) + o)
    BY <1>3, <1>6 DEF TimeOf
  <2>2. h \in 0 .. (HoursPerDay - 1) /\ m \in 0 .. (MinutesPerHour - 1) /\ o \in 0 .. (Minute - 1)
    BY <1>3
  <2>. HIDE DEF h, m, o
  <2>3. t % Minute = o /\ MinuteOf(t) = m /\ HourOf(t) = h
    BY <1>1, <2>1, <2>2, Reading
  <2>. QED BY <1>2, <2>3 DEF h, m, o
<1>. QED BY <1>2, <1>4, <1>5, <1>6 DEF Matches

\* u is the first time after t that a cron expression names.
FirstMatch(cron, t, u) == /\ u \in (t + 1) .. (t + Week)
                          /\ Matches(cron, u)
                          /\ \A v \in (t + 1) .. (u - 1) : ~Matches(cron, v)

LEMMA OneFirstMatch ==
  ASSUME NEW cron, NEW t \in Nat, NEW u, FirstMatch(cron, t, u)
  PROVE  NextMatch(cron, t) = u
<1>1. Week \in Nat
  BY ScheduleAssumption, Units DEF Week
<1>. DEFINE w == NextMatch(cron, t)
<1>2. FirstMatch(cron, t, w)
  BY DEF NextMatch, FirstMatch
<1>. HIDE DEF w
<1>3. u \in Int /\ w \in Int
  BY <1>1, <1>2 DEF FirstMatch
<1>4. ~(u < w) /\ ~(w < u)
  BY <1>1, <1>2, <1>3 DEF FirstMatch
<1>5. w = u
  BY <1>3, <1>4
<1>. QED BY <1>5 DEF w

\* A time later by whole days is the same time of another day.
LEMMA DaysBetween ==
  ASSUME NEW k \in Nat, NEW l \in Nat, NEW c \in Nat, NEW d \in Nat \ {0}, d * k + c < d * l + c
  PROVE  k + 1 <= l
<1>1. d * k < d * l
  <2>1. d * k \in Int /\ d * l \in Int
    OBVIOUS
  <2>. QED BY <2>1
<1>2. k < l
  BY <1>1, Smaller
<1>. QED BY <1>2

\* From a run on the day it was due, getNextCronRun finds the next of its times.
LEMMA KeepsPace ==
  ASSUME NEW cron \in Cron, Daily(cron), NEW d \in Nat, Matches(cron, d),
         NEW t \in Nat, Midnight(t) = Midnight(d)
  PROVE  NextCronRun(cron, t) = NextMatch(cron, t)
<1>. DEFINE k == d \div Day
            c == TimeOf(cron)
            days == DaysOn(cron, t)
            u == NextCronRun(cron, t)
<1>1. /\ Day \in Nat \ {0} /\ DaysPerWeek \in Nat \ {0} /\ Week = Day * DaysPerWeek
      /\ c \in Nat /\ c < Day
  BY ScheduleAssumption, Units, DailyTime DEF Week
<1>2. /\ k \in Nat /\ d = Day * k + c
      /\ cron.weekday # Star => k % DaysPerWeek = cron.weekday
  BY <1>1, MatchesAt, Remainder
<1>3. t \div Day = k /\ Midnight(t) = Day * k /\ Midnight(d) = Day * k
  <2>. DEFINE l == t \div Day
  <2>1. l \in Nat /\ Midnight(t) = Day * l
    <3>1. l \in Nat /\ t % Day \in 0 .. (Day - 1) /\ t % Day = t - Day * l
      BY <1>1, Remainder
    <3>. QED BY <1>1, <3>1 DEF Midnight
  <2>2. Midnight(d) = Day * k
    <3>1. k \in Nat /\ d % Day \in 0 .. (Day - 1) /\ d % Day = d - Day * k
      BY <1>1, Remainder
    <3>. QED BY <1>1, <3>1 DEF Midnight
  <2>3. Day * l = Day * k
    BY <2>1, <2>2
  <2>. HIDE DEF l, k
  <2>4. ~(l + 1 <= k) /\ ~(k + 1 <= l)
    <3>1. ASSUME l + 1 <= k PROVE FALSE
      <4>1. Day * (l + 1) <= Day * k
        BY <1>1, <1>2, <2>1, <3>1
      <4>2. Day * (l + 1) = Day * l + Day
        BY <1>1, <2>1
      <4>. QED BY <1>1, <1>2, <2>1, <2>3, <4>1, <4>2
    <3>2. ASSUME k + 1 <= l PROVE FALSE
      <4>1. Day * (k + 1) <= Day * l
        BY <1>1, <1>2, <2>1, <3>2
      <4>2. Day * (k + 1) = Day * k + Day
        BY <1>1, <1>2
      <4>. QED BY <1>1, <1>2, <2>1, <2>3, <4>1, <4>2
    <3>. QED BY <3>1, <3>2
  <2>5. l = k
    BY <1>2, <2>1, <2>4
  <2>. QED BY <2>1, <2>2, <2>5 DEF l
<1>4. /\ u \in Nat /\ u > t /\ Day * k <= t /\ t < Day * k + Day
      /\ u = IF d > t THEN d ELSE d + days * Day
  <2>1. TodayAt(cron, t) = Day * k + c
    <3>1. Field(cron.hour, HourOf(t)) = cron.hour /\ Field(cron.minute, MinuteOf(t)) = cron.minute
      BY DEF Field, Daily
    <3>2. cron.hour \in Nat /\ cron.minute \in Nat /\ Hour \in Nat /\ Minute \in Nat
      BY DailyTime, Units, ScheduleAssumption
    <3>3. TodayAt(cron, t) = Day * k + cron.hour * Hour + cron.minute * Minute
      BY <1>3, <3>1 DEF TodayAt
    <3>. HIDE DEF k
    <3>4. Day * k \in Nat
      BY <1>1, <1>2
    <3>. QED BY <3>2, <3>3, <3>4 DEF TimeOf, TimeOfDay
  <2>2. /\ Midnight(t) <= t /\ t < Midnight(t) + Day
        /\ u = IF TodayAt(cron, t) > t THEN TodayAt(cron, t) ELSE TodayAt(cron, t) + days * Day
    BY NextCronRunIs
  <2>. QED BY <1>2, <1>3, <2>1, <2>2, NextCronRunAhead
\* Of the times between, a daily expression names none, and a weekly one only
\* those of other days.
<1>5. ASSUME NEW v \in Nat, v > t, Matches(cron, v)
      PROVE  /\ v \div Day \in Nat /\ v = Day * (v \div Day) + c
             /\ cron.weekday # Star => (v \div Day) % DaysPerWeek = k % DaysPerWeek
  BY <1>1, <1>2, <1>5, MatchesAt, Remainder
<1>6. CASE d > t
  <2>1. u = d
    BY <1>4, <1>6
  <2>2. ASSUME NEW v \in (t + 1) .. (d - 1), Matches(cron, v) PROVE FALSE
    <3>. DEFINE l == v \div Day
    <3>1. v \in Nat /\ v > t /\ v < d
      OBVIOUS
    <3>2. l \in Nat /\ v = Day * l + c
      BY <1>5, <2>2, <3>1
    <3>. HIDE DEF l, k, c
    <3>3. l + 1 <= k
      BY <1>1, <1>2, <3>1, <3>2, DaysBetween
    <3>4. Day * (l + 1) <= Day * k
      BY <1>1, <1>2, <3>2, <3>3
    <3>5. Day * (l + 1) = Day * l + Day
      BY <1>1, <3>2
    <3>. QED BY <1>1, <1>2, <1>4, <3>1, <3>2, <3>4, <3>5
  <2>3. d <= t + Week
    <3>1. Day <= Week
      BY <1>1
    <3>. HIDE DEF k, c
    <3>2. Day * k \in Nat /\ Week \in Nat
      BY <1>1, <1>2
    <3>. QED BY <1>1, <1>2, <1>4, <3>1, <3>2
  <2>4. d \in (t + 1) .. (t + Week)
    <3>1. Week \in Nat
      BY <1>1
    <3>. QED BY <1>6, <2>3, <3>1
  <2>5. FirstMatch(cron, t, u)
    BY <2>1, <2>2, <2>4 DEF FirstMatch
  <2>. QED BY <2>5, OneFirstMatch
<1>7. CASE ~(d > t)
  <2>1. /\ days \in 1 .. DaysPerWeek
        /\ cron.weekday = Star => days = 1
        /\ cron.weekday # Star => days = DaysPerWeek
    <3>1. CASE cron.weekday = Star
      BY <1>1, <3>1 DEF DaysOn, Daily
    <3>2. CASE cron.weekday # Star
      <4>1. WeekdayOf(t) = cron.weekday /\ cron.weekday \in 0 .. (DaysPerWeek - 1)
        BY <1>2, <1>3, <3>2 DEF WeekdayOf, Cron
      <4>. QED BY <1>1, <3>2, <4>1 DEF DaysOn, DaysAhead
    <3>. QED BY <3>1, <3>2
  <2>. HIDE DEF days, k, c
  <2>2. /\ u = Day * (k + days) + c /\ k + days \in Nat
        /\ Day * (k + days) = Day * k + days * Day
    BY <1>1, <1>2, <1>4, <1>7, <2>1
  <2>3. u \div Day = k + days
    <3>1. u \in Int /\ Day \in Int /\ k + days \in Int /\ c \in 0 .. (Day - 1) /\ Day > 0
      BY <1>1, <1>4, <2>2
    <3>. HIDE DEF u
    <3>. QED BY <2>2, <3>1, Divide
  <2>4. Matches(cron, u)
    <3>1. cron.weekday # Star => (k + days) % DaysPerWeek = cron.weekday
      BY <1>1, <1>2, <2>1, NextRemainder
    <3>. QED BY <1>4, <2>2, <2>3, <3>1, MatchesAt DEF c
  <2>5. u \in (t + 1) .. (t + Week)
    <3>1. days * Day <= Week /\ days * Day \in Nat /\ Week \in Nat
      BY <1>1, <2>1
    <3>2. u = d + days * Day
      BY <1>4, <1>7
    <3>. HIDE DEF u
    <3>. QED BY <1>4, <1>7, <3>1, <3>2
  <2>6. ASSUME NEW v \in (t + 1) .. (u - 1), Matches(cron, v) PROVE FALSE
    <3>. DEFINE l == v \div Day
    <3>1. v \in Nat /\ v > t /\ v < u
      BY <1>4
    <3>2. l \in Nat /\ v = Day * l + c /\ (cron.weekday # Star => l % DaysPerWeek = k % DaysPerWeek)
      BY <1>5, <2>6, <3>1
    <3>. HIDE DEF l, u
    <3>3. Day * k + c < Day * l + c
      BY <1>2, <1>7, <3>1, <3>2
    <3>4. k + 1 <= l
      BY <1>1, <1>2, <3>2, <3>3, DaysBetween
    <3>5. Day * l + c < Day * (k + days) + c
      BY <2>2, <3>1, <3>2
    <3>6. l + 1 <= k + days
      BY <1>1, <2>2, <3>2, <3>5, DaysBetween
    <3>7. CASE cron.weekday = Star
      BY <1>2, <2>1, <3>2, <3>4, <3>6, <3>7
    <3>8. CASE cron.weekday # Star
      <4>1. k + DaysPerWeek <= l
        <5>1. k < l /\ k % DaysPerWeek = l % DaysPerWeek
          BY <1>2, <3>2, <3>4, <3>8
        <5>. QED BY <1>1, <1>2, <3>2, <5>1, SameRemainder
      <4>. QED BY <1>1, <1>2, <2>1, <3>2, <3>6, <3>8, <4>1
    <3>. QED BY <3>7, <3>8
  <2>7. FirstMatch(cron, t, u)
    BY <2>4, <2>5, <2>6 DEF FirstMatch
  <2>. QED BY <2>7, OneFirstMatch
<1>. QED BY <1>6, <1>7

\* CronKeepsPace: on any calendar, a daily or weekly schedule run on the day it
\* was due goes to the very next time its expression names, though
\* getNextCronRun looks at the weekday only when the time of day has passed.
THEOREM CronKeepsPaceAlways == Spec => CronKeepsPace
<1>1. TypeOK /\ [Next]_vars =>
        [\A j \in Job : LET d == job[j].current IN
           /\ Reschedule(j)
           /\ Daily(d.row.cron)
           /\ Matches(d.row.cron, d.row.nextRunAt)
           /\ Midnight(now) = Midnight(d.row.nextRunAt)
           /\ Exists(d.id)
           => schedules'[d.id].nextRunAt = NextMatch(d.row.cron, now)]_vars
  <2>. SUFFICES ASSUME TypeOK, NEW j \in Job, Reschedule(j),
                       Daily(job[j].current.row.cron),
                       Matches(job[j].current.row.cron, job[j].current.row.nextRunAt),
                       Midnight(now) = Midnight(job[j].current.row.nextRunAt),
                       Exists(job[j].current.id)
                PROVE  schedules'[job[j].current.id].nextRunAt = NextMatch(job[j].current.row.cron, now)
    OBVIOUS
  <2>. DEFINE c == job[j].current.id
              cron == job[j].current.row.cron
              next == NextRun(cron, now)
  <2>1. c \in Schedule /\ cron \in Cron /\ now \in Nat /\ job[j].current.row.nextRunAt \in Nat
    BY CopyTypes, TypeParts DEF Reschedule, Time, JobOK
  <2>2. cron.shape = "fields"
    BY DEF Daily
  <2>3. schedules' = [schedules EXCEPT ![c].nextRunAt = next, ![c].isActive = (next # Never)]
    BY <2>2 DEF Reschedule
  <2>4. schedules[c] \in Row
    BY <2>1, ExistingRow
  <2>5. schedules'[c].nextRunAt = next
    <3>. HIDE DEF next
    <3>. QED BY <2>1, <2>3, <2>4 DEF TypeOK, Row
  <2>6. next = NextCronRun(cron, now)
    BY <2>2 DEF NextRun
  <2>7. NextCronRun(cron, now) = NextMatch(cron, now)
    BY <2>1, KeepsPace
  <2>. QED BY <2>5, <2>6, <2>7
<1>. QED BY <1>1, TypeCorrect, PTL DEF Spec, CronKeepsPace

-----------------------------------------------------------------------------
(* At most two reminders of an occurrence *)

LEMMA HoldingFinite ==
  ASSUME NEW s, NEW t
  PROVE  /\ IsFiniteSet(Holding(s, t)) /\ Cardinality(Holding(s, t)) \in Nat
         /\ IsFiniteSet(Holding(s, t)') /\ Cardinality(Holding(s, t)') \in Nat
BY ScheduleAssumption, FS_Subset, FS_CardinalityType DEF Holding

LEMMA TicksForType ==
  ASSUME NEW t \in Time
  PROVE  TicksFor(t) \in 0 .. 2 /\ TicksFor(t)' \in 0 .. 2
BY DEF TicksFor, TickCount

\* What every step but a reminder and a tick does: no count grows and no tick is
\* taken back.
LEMMA CoverKept ==
  ASSUME TypeOK, TypeOK', TicksCover,
         \A s \in Schedule, t \in Time :
           /\ Holding(s, t)' \subseteq Holding(s, t)
           /\ reminders'[s][t] <= reminders[s][t]
           /\ TicksFor(t)' >= TicksFor(t)
  PROVE  TicksCover'
<1>. SUFFICES ASSUME NEW s \in Schedule, NEW t \in Time
              PROVE  reminders'[s][t] + Cardinality(Holding(s, t)') <= TicksFor(t)'
  BY DEF TicksCover
<1>1. Cardinality(Holding(s, t)') <= Cardinality(Holding(s, t))
  BY HoldingFinite, FS_Subset
<1>2. reminders[s][t] \in Nat /\ reminders'[s][t] \in Nat
  BY DEF TypeOK
<1>3. reminders[s][t] + Cardinality(Holding(s, t)) <= TicksFor(t)
  BY DEF TicksCover
<1>4. reminders'[s][t] <= reminders[s][t] /\ TicksFor(t)' >= TicksFor(t)
  OBVIOUS
<1>. QED BY <1>1, <1>2, <1>3, <1>4, HoldingFinite, TicksForType

LEMMA RestDue ==
  ASSUME NEW b \in Jobs
  PROVE  Rest(b).due = b.due
BY DEF Rest, IdleJob, Jobs

\* The clock: a minute that ends turns its tick into one of the past.
LEMMA AdvanceTicks ==
  ASSUME TypeOK, Advance, NEW t \in Time
  PROVE  TicksFor(t)' >= TicksFor(t)
<1>1. now \in Nat /\ t \in Nat /\ Minute \in Nat \ {0} /\ now' = now + 1
  BY ScheduleAssumption DEF TypeOK, Time, Advance
<1>. DEFINE start == OnTheMinute(now)
<1>2. /\ start \in Nat /\ start <= now /\ now < start + Minute
      /\ (now + 1) % Minute # 0 => OnTheMinute(now + 1) = start
      /\ (now + 1) % Minute = 0 => OnTheMinute(now + 1) = start + Minute
  BY <1>1, NextMinute
<1>3. TickCount \in 0 .. 1
  BY DEF TickCount
<1>4. TicksFor(t)' = IF now + 1 < t THEN 0
                     ELSE IF OnTheMinute(now + 1) <= t THEN TickCount'
                     ELSE IF OnTheMinute(now + 1) <= t + Minute THEN 1 + TickCount'
                     ELSE 2
  BY <1>1 DEF TicksFor, OnTheMinute
<1>5. CASE (now + 1) % Minute # 0
  <2>1. OnTheMinute(now + 1) = start /\ TickCount' = TickCount
    BY <1>2, <1>5 DEF Advance, TickCount
  <2>. QED BY <1>1, <1>2, <1>3, <1>4, <2>1 DEF TicksFor
<1>6. CASE (now + 1) % Minute = 0
  <2>1. OnTheMinute(now + 1) = start + Minute /\ TickCount' = 0
    BY <1>2, <1>6 DEF Advance, TickCount
  <2>. HIDE DEF start
  <2>. QED BY <1>1, <1>2, <1>3, <1>4, <2>1 DEF TicksFor, start
<1>. QED BY <1>5, <1>6

\* A step that gives no job a copy keeps one copy each, and takes no tick.
LEMMA FewerCopies ==
  ASSUME OneCopyEach, \A j \in Job : job'[j].due \subseteq job[j].due
  PROVE  OneCopyEach' /\ \A s, t : Holding(s, t)' \subseteq Holding(s, t)
<1>1. OneCopyEach'
  BY DEF OneCopyEach
<1>2. ASSUME NEW s, NEW t PROVE Holding(s, t)' \subseteq Holding(s, t)
  BY DEF Holding
<1>. QED BY <1>1, <1>2

LEMMA WrittenReminders ==
  ASSUME TypeOK, NEW u \in Schedule, NEW row, NEW at, Written(u, row, at)
  PROVE  \A s \in Schedule, t \in Time : reminders'[s][t] <= reminders[s][t]
<1>. SUFFICES ASSUME NEW s \in Schedule, NEW t \in Time
              PROVE  reminders'[s][t] <= reminders[s][t]
  OBVIOUS
<1>1. reminders[s] \in [Time -> Nat] /\ reminders[u] \in [Time -> Nat]
  BY DEF TypeOK
<1>2. CASE at \in Time
  <2>1. reminders' = [reminders EXCEPT ![u][at] = 0]
    BY <1>2 DEF Written
  <2>. QED BY <1>1, <1>2, <2>1 DEF TypeOK
<1>3. CASE at \notin Time
  BY <1>1, <1>3 DEF Written
<1>. QED BY <1>2, <1>3

LEMMA TicksSame ==
  ASSUME UNCHANGED <<now, ticked>>, NEW t \in Time
  PROVE  TicksFor(t)' >= TicksFor(t)
<1>1. TicksFor(t)' = TicksFor(t)
  BY DEF TicksFor, TickCount
<1>. QED BY <1>1, TicksForType

\* Users, toggles, updates of jobs, failures and the clock.
LEMMA OthersCover ==
  ASSUME IInv, TypeOK',
         \/ \E s \in Schedule, body \in Bodies : Create(s, body)
         \/ \E s \in Schedule, patch \in Patches : Update(s, patch)
         \/ \E s \in Schedule : Remove(s)
         \/ \E r \in Request : ToggleWrite(r) \/ \E s \in Schedule : ToggleRead(r, s)
         \/ \E j \in Job : Reschedule(j) \/ \E d \in job[j].due : RemindFails(j, d)
         \/ Advance \/ Crash
         \/ UNCHANGED vars
  PROVE  OneCopyEach' /\ TicksCover'
<1>. USE DEF IInv
<1>0. job \in [Job -> Jobs] /\ \A s \in Schedule, t \in Time : reminders[s][t] \in Nat
  BY TypeParts
<1>1. \A j \in Job : job'[j].due \subseteq job[j].due
  <2>1. ASSUME NEW i \in Job, Reschedule(i) PROVE \A j \in Job : job'[j].due \subseteq job[j].due
    <3>1. job' = [job EXCEPT ![i] = Rest(job[i])] /\ Rest(job[i]).due = job[i].due
      BY <1>0, <2>1, RestDue DEF Reschedule, Executed
    <3>. QED BY <1>0, <3>1
  <2>2. ASSUME NEW i \in Job, NEW d \in job[i].due, RemindFails(i, d)
        PROVE  \A j \in Job : job'[j].due \subseteq job[j].due
    <3>. DEFINE b == [job[i] EXCEPT !.due = @ \ {d}]
    <3>1. b \in Jobs /\ b.due = job[i].due \ {d}
      BY <1>0 DEF Jobs
    <3>2. job' = [job EXCEPT ![i] = Rest(b)]
      BY <2>2 DEF RemindFails
    <3>3. Rest(b).due = job[i].due \ {d}
      BY <3>1, RestDue
    <3>. HIDE DEF b
    <3>. QED BY <1>0, <3>2, <3>3
  <2>3. CASE Crash
    BY <2>3 DEF Crash, IdleJob
  <2>4. CASE job' = job
    BY <2>4
  <2>5. ASSUME NEW r \in Request, ToggleWrite(r) PROVE job' = job
    BY <2>5 DEF ToggleWrite
  <2>. QED BY <2>1, <2>2, <2>3, <2>4, <2>5
           DEF Create, Update, Remove, ToggleRead, Advance, vars
<1>2. \A s \in Schedule, t \in Time : reminders'[s][t] <= reminders[s][t]
  <2>1. CASE reminders' = reminders
    BY <1>0, <2>1
  <2>2. ASSUME NEW u \in Schedule, NEW body \in Bodies, Create(u, body)
        PROVE  \A s \in Schedule, t \in Time : reminders'[s][t] <= reminders[s][t]
    BY <2>2, WrittenReminders DEF Create
  <2>3. ASSUME NEW u \in Schedule, NEW patch \in Patches, Update(u, patch)
        PROVE  \A s \in Schedule, t \in Time : reminders'[s][t] <= reminders[s][t]
    <3>1. PICK row, at : Written(u, row, at)
      BY <2>3 DEF Update
    <3>. QED BY <3>1, WrittenReminders
  <2>4. ASSUME NEW r \in Request, ToggleWrite(r)
        PROVE  \A s \in Schedule, t \in Time : reminders'[s][t] <= reminders[s][t]
    <3>1. toggle[r].id \in Schedule
      BY <2>4, TypeParts DEF ToggleWrite, Toggle
    <3>2. reminders' = reminders \/ \E row, at : Written(toggle[r].id, row, at)
      BY <2>4 DEF ToggleWrite
    <3>. QED BY <2>1, <3>1, <3>2, WrittenReminders
  <2>. QED BY <2>1, <2>2, <2>3, <2>4
           DEF Remove, ToggleRead, Reschedule, RemindFails, Advance, Crash, vars
<1>3. \A t \in Time : TicksFor(t)' >= TicksFor(t)
  <2>1. CASE Advance
    BY <2>1, AdvanceTicks
  <2>2. CASE UNCHANGED <<now, ticked>>
    BY <2>2, TicksSame
  <2>. QED BY <2>1, <2>2 DEF Create, Update, Remove, ToggleRead, ToggleWrite,
                             Reschedule, RemindFails, Crash, vars
<1>4. OneCopyEach' /\ \A s, t : Holding(s, t)' \subseteq Holding(s, t)
  BY <1>1, FewerCopies
<1>. QED BY <1>2, <1>3, <1>4, CoverKept

\* A reminder is one more of an occurrence and one less to come: the job's copy.
LEMMA RemindCover ==
  ASSUME IInv, TypeOK', NEW j \in Job, NEW d \in job[j].due, Remind(j, d)
  PROVE  OneCopyEach' /\ TicksCover'
<1>. USE DEF IInv
<1>1. /\ job \in [Job -> Jobs] /\ d.id \in Schedule /\ d.row.nextRunAt \in Time
      /\ reminders \in [Schedule -> [Time -> Nat]]
  BY TypeParts, CopyTypes
<1>2. \A i \in Job : job'[i].due = IF i = j THEN job[i].due \ {d} ELSE job[i].due
  BY <1>1 DEF Remind, Jobs
<1>3. OneCopyEach' /\ \A s, t : Holding(s, t)' \subseteq Holding(s, t)
  BY <1>2, FewerCopies
<1>4. ASSUME NEW s \in Schedule, NEW t \in Time
      PROVE  reminders'[s][t] + Cardinality(Holding(s, t)') <= TicksFor(t)'
  <2>1. /\ reminders[s][t] \in Nat
        /\ reminders[s][t] + Cardinality(Holding(s, t)) <= TicksFor(t)
        /\ TicksFor(t)' >= TicksFor(t)
    BY <1>1, TicksSame DEF TicksCover, Remind
  <2>2. CASE s = d.id /\ t = d.row.nextRunAt
    <3>1. j \in Holding(s, t)
      BY <2>2 DEF Holding
    <3>2. Holding(s, t)' \subseteq Holding(s, t) \ {j}
      <4>1. \A e \in job[j].due \ {d} : e.id # d.id
        BY DEF OneCopyEach
      <4>. QED BY <1>2, <1>3, <2>2, <4>1 DEF Holding
    <3>3. Cardinality(Holding(s, t) \ {j}) = Cardinality(Holding(s, t)) - 1
      BY <3>1, HoldingFinite, FS_RemoveElement
    <3>4. Cardinality(Holding(s, t)') <= Cardinality(Holding(s, t) \ {j})
      BY <3>2, HoldingFinite, FS_RemoveElement, FS_Subset
    <3>5. reminders'[s][t] = reminders[s][t] + 1
      BY <1>1, <2>2 DEF Remind
    <3>. QED BY <2>1, <3>3, <3>4, <3>5, HoldingFinite, TicksForType
  <2>3. CASE ~(s = d.id /\ t = d.row.nextRunAt)
    <3>1. reminders'[s][t] = reminders[s][t]
      BY <1>1, <2>3 DEF Remind
    <3>2. Cardinality(Holding(s, t)') <= Cardinality(Holding(s, t))
      BY <1>3, HoldingFinite, FS_Subset
    <3>. QED BY <2>1, <3>1, <3>2, HoldingFinite, TicksForType
  <2>. QED BY <2>2, <2>3
<1>. QED BY <1>3, <1>4 DEF TicksCover

\* A tick hands a job copies of occurrences due now, each of which may still see
\* this tick: their minute is this one or the one before.
LEMMA TickCover ==
  ASSUME IInv, TypeOK', NEW j \in Job, Tick(j)
  PROVE  OneCopyEach' /\ TicksCover'
<1>. USE DEF IInv
<1>. DEFINE due == {s \in Schedule : /\ Exists(s)
                                     /\ schedules[s].isActive
                                     /\ schedules[s].nextRunAt # Never
                                     /\ DueAt(schedules[s].nextRunAt)}
            copies == {[id |-> s, row |-> schedules[s]] : s \in due}
<1>1. job \in [Job -> Jobs] /\ reminders \in [Schedule -> [Time -> Nat]] /\ now \in Nat
  BY TypeParts DEF Time
<1>2. /\ \A i \in Job : i # j => job'[i].due = job[i].due
      /\ job'[j].due = copies
  <2>1. CASE due = {}
    BY <1>1, <2>1 DEF Tick, IdleJob
  <2>2. CASE due # {}
    BY <1>1, <2>2 DEF Tick
  <2>. QED BY <2>1, <2>2
<1>3. \A d \in copies : DueAt(d.row.nextRunAt) /\ d.row = schedules[d.id]
  OBVIOUS
<1>4. OneCopyEach'
  <2>1. \A d, e \in copies : d.id = e.id => d = e
    OBVIOUS
  <2>. HIDE DEF copies
  <2>. QED BY <1>2, <2>1 DEF OneCopyEach
<1>. HIDE DEF copies, due
<1>5. ASSUME NEW s \in Schedule, NEW t \in Time
      PROVE  reminders'[s][t] + Cardinality(Holding(s, t)') <= TicksFor(t)'
  <2>1. /\ reminders[s][t] \in Nat /\ reminders' = reminders
        /\ reminders[s][t] + Cardinality(Holding(s, t)) <= TicksFor(t)
        /\ t \in Nat /\ Minute \in Nat \ {0} /\ OnTheMinute(now) \in Nat
        /\ OnTheMinute(now) <= now
    <3>1. t \in Nat /\ Minute \in Nat \ {0} /\ OnTheMinute(now) \in Nat /\ OnTheMinute(now) <= now
      <4>1. t \in Nat /\ Minute \in Nat \ {0}
        BY ScheduleAssumption DEF Time
      <4>2. OnTheMinute(now) \in Nat /\ OnTheMinute(now) <= now
        BY <1>1, NextMinute
      <4>. QED BY <4>1, <4>2
    <3>2. reminders[s][t] \in Nat /\ reminders' = reminders
      BY <1>1 DEF Tick
    <3>3. reminders[s][t] + Cardinality(Holding(s, t)) <= TicksFor(t)
      BY DEF TicksCover
    <3>. QED BY <3>1, <3>2, <3>3
  <2>2. /\ TickCount = 0 /\ TickCount' = 1
        /\ TicksFor(t)' = IF now < t THEN 0
                          ELSE IF OnTheMinute(now) <= t THEN 1
                          ELSE IF OnTheMinute(now) <= t + Minute THEN 2
                          ELSE 2
    BY DEF Tick, TicksFor, TickCount
  <2>3. Holding(s, t)' \subseteq Holding(s, t) \union {j}
    BY <1>2 DEF Holding
  <2>4. CASE j \in Holding(s, t)'
    <3>1. PICK d \in copies : d.id = s /\ d.row.nextRunAt = t
      BY <1>2, <2>4 DEF Holding
    <3>2. now <= t + Minute /\ t <= now
      BY <1>3, <3>1 DEF DueAt
    <3>3. TicksFor(t)' = TicksFor(t) + 1
      BY <1>1, <2>1, <2>2, <3>2 DEF TicksFor
    <3>4. Cardinality(Holding(s, t) \union {j}) <= Cardinality(Holding(s, t)) + 1
      <4>1. IsFiniteSet(Holding(s, t)) /\ Cardinality(Holding(s, t)) \in Nat
        BY HoldingFinite
      <4>2. Cardinality(Holding(s, t) \union {j}) =
              IF j \in Holding(s, t) THEN Cardinality(Holding(s, t))
                                     ELSE Cardinality(Holding(s, t)) + 1
        BY <4>1, FS_AddElement, Zenon
      <4>. QED BY <4>1, <4>2
    <3>5. Cardinality(Holding(s, t)') <= Cardinality(Holding(s, t) \union {j})
      BY <2>3, HoldingFinite, FS_AddElement, FS_Subset
    <3>6. /\ IsFiniteSet(Holding(s, t) \union {j})
          /\ Cardinality(Holding(s, t) \union {j}) \in Nat
      BY HoldingFinite, FS_AddElement, FS_CardinalityType
    <3>. QED BY <2>1, <3>3, <3>4, <3>5, <3>6, HoldingFinite, TicksForType
  <2>5. CASE j \notin Holding(s, t)'
    <3>1. Cardinality(Holding(s, t)') <= Cardinality(Holding(s, t))
      BY <2>3, <2>5, HoldingFinite, FS_Subset
    <3>2. TicksFor(t)' >= TicksFor(t)
      BY <1>1, <2>1, <2>2 DEF TicksFor
    <3>. QED BY <2>1, <3>1, <3>2, HoldingFinite, TicksForType
  <2>. QED BY <2>4, <2>5
<1>. QED BY <1>4, <1>5 DEF TicksCover

LEMMA InitIInv == Init => IInv
<1>. SUFFICES ASSUME Init PROVE OneCopyEach /\ TicksCover
  BY TypeAtInit DEF IInv
<1>1. OneCopyEach
  BY DEF Init, OneCopyEach, IdleJob
<1>2. ASSUME NEW s \in Schedule, NEW t \in Time
      PROVE  reminders[s][t] + Cardinality(Holding(s, t)) <= TicksFor(t)
  <2>1. Holding(s, t) = {}
    BY DEF Init, Holding, IdleJob
  <2>2. reminders[s][t] = 0
    BY DEF Init
  <2>. QED BY <2>1, <2>2, FS_EmptySet, TicksForType
<1>. QED BY <1>1, <1>2 DEF TicksCover

LEMMA NextIInv == IInv /\ [Next]_vars => IInv'
<1>. SUFFICES ASSUME IInv, [Next]_vars PROVE IInv'
  OBVIOUS
<1>1. TypeOK'
  BY TypeAtNext DEF IInv
<1>2. OneCopyEach' /\ TicksCover'
  BY <1>1, OthersCover, RemindCover, TickCover DEF Next
<1>. QED BY <1>1, <1>2 DEF IInv

\* AtMostTwice: whatever the calendar, the number of jobs, the lateness of ticks
\* and jobs, and wherever the process dies, no occurrence is reminded of more than
\* twice.  The window of a closed minute meets at most two minutes of the clock,
\* each has at most one tick, and a tick gives an occurrence to one job.
THEOREM AtMostTwiceAlways == Spec => []AtMostTwice
<1>1. IInv => AtMostTwice
  <2>. SUFFICES ASSUME IInv, NEW s \in Schedule, NEW t \in Time PROVE reminders[s][t] <= 2
    BY DEF AtMostTwice
  <2>1. reminders[s][t] \in Nat /\ reminders[s][t] + Cardinality(Holding(s, t)) <= TicksFor(t)
    BY DEF IInv, TypeOK, TicksCover
  <2>. QED BY <2>1, HoldingFinite, TicksForType
<1>. QED BY <1>1, InitIInv, NextIInv, PTL DEF Spec

-----------------------------------------------------------------------------
(* What a punctual timer adds: at most one job at a time, and it ends in the   *)
(* minute it began in.                                                         *)

Punctual ==
  /\ ticked \/ now <= OnTheMinute(now) + MaxLate
  /\ \A j \in Job : job[j] # IdleJob =>
       ticked /\ now <= job[j].start + MaxLag /\ job[j].start <= OnTheMinute(now) + MaxLate
  /\ \A i, j \in Job : job[i] # IdleJob /\ job[j] # IdleJob => i = j

\* A job that has work is not idle.
LEMMA Working ==
  ASSUME NEW j \in Job, job[j].current # NoDue \/ job[j].due # {}
  PROVE  job[j] # IdleJob
BY DEF IdleJob

\* What is left of a job when it reminds, and when it rearms.
LEMMA RemindLeft ==
  ASSUME TypeOK, NEW j \in Job, NEW d \in job[j].due, Remind(j, d)
  PROVE  /\ job'[j].due = job[j].due \ {d} /\ job'[j].current = d /\ job'[j].start = job[j].start
         /\ \A i \in Job : i # j => job'[i] = job[i]
BY TypeParts DEF Remind, Jobs

LEMMA RescheduleLeft ==
  ASSUME TypeOK, NEW j \in Job, Reschedule(j)
  PROVE  /\ job'[j].due = job[j].due /\ job'[j].current = NoDue
         /\ job'[j] # IdleJob => job'[j].start = job[j].start
         /\ \A i \in Job : i # j => job'[i] = job[i]
<1>1. job[j] \in Jobs /\ job \in [Job -> Jobs] /\ job' = [job EXCEPT ![j] = Rest(job[j])]
  BY TypeParts DEF Reschedule, Executed
<1>2. Rest(job[j]).due = job[j].due
  BY <1>1, RestDue
<1>3. Rest(job[j]).current = NoDue /\ (Rest(job[j]) # IdleJob => Rest(job[j]).start = job[j].start)
  BY <1>1 DEF Rest, IdleJob, Jobs
<1> QED BY <1>1, <1>2, <1>3

\* The copies a tick hands out.
DueNow == {s \in Schedule : /\ Exists(s)
                            /\ schedules[s].isActive
                            /\ schedules[s].nextRunAt # Never
                            /\ DueAt(schedules[s].nextRunAt)}

LEMMA TickGives ==
  ASSUME TypeOK, NEW j \in Job, Tick(j)
  PROVE  /\ \A i \in Job : i # j => job'[i] = job[i]
         /\ DueNow = {} => job' = job
         /\ DueNow # {} => /\ job'[j].due = {[id |-> s, row |-> schedules[s]] : s \in DueNow}
                           /\ job'[j].current = NoDue /\ job'[j].start = now
BY TypeParts DEF Tick, DueNow

\* The clock within a minute, and at its turn: by then no job is at work.
LEMMA MinuteTurns ==
  ASSUME TypeOK, Punctual, Advance, MaxLate + MaxLag < Minute
  PROVE  /\ now \in Nat /\ OnTheMinute(now) \in Nat /\ OnTheMinute(now) <= now /\ now < OnTheMinute(now) + Minute
         /\ \/ (now + 1) % Minute # 0 /\ OnTheMinute(now)' = OnTheMinute(now) /\ ticked' = ticked
            \/ /\ (now + 1) % Minute = 0 /\ OnTheMinute(now)' = OnTheMinute(now) + Minute /\ ~ticked'
               /\ \A j \in Job : job[j] = IdleJob
<1>0. /\ MaxLate \in Nat /\ MaxLag \in Nat /\ Minute \in Nat \ {0} /\ now \in Nat
      /\ \A j \in Job : job[j].start \in Nat
  BY ScheduleAssumption, TypeParts DEF Time, Jobs
<1> DEFINE start == OnTheMinute(now)
<1>1. /\ now' = now + 1 /\ ticked' = (IF (now + 1) % Minute = 0 THEN FALSE ELSE ticked)
      /\ \A j \in Job : job[j] # IdleJob => now < job[j].start + MaxLag
  BY DEF Advance, JobsOnTime
<1>2. /\ start \in Nat /\ start <= now /\ now < start + Minute
      /\ (now + 1) % Minute # 0 => OnTheMinute(now + 1) = start
      /\ (now + 1) % Minute = 0 => OnTheMinute(now + 1) = start + Minute
  BY <1>0, NextMinute
<1>3. OnTheMinute(now)' = OnTheMinute(now + 1)
  BY <1>1 DEF OnTheMinute
<1> HIDE DEF start
<1>4. ASSUME NEW j \in Job, job[j] # IdleJob PROVE (now + 1) % Minute # 0
  <2>1. now < job[j].start + MaxLag /\ job[j].start <= start + MaxLate
    BY <1>1, <1>4 DEF Punctual, start
  <2>2. OnTheMinute(now + 1) <= now + 1
    BY <1>0, NextMinute
  <2> QED BY <1>0, <1>2, <2>1, <2>2
<1> QED BY <1>0, <1>1, <1>2, <1>3, <1>4 DEF start

LEMMA PunctualStep ==
  ASSUME TypeOK, Punctual, ~Faulty, MaxLate + MaxLag < Minute, [Next]_vars
  PROVE  Punctual'
<1>0. /\ MaxLate \in Nat /\ MaxLag \in Nat /\ Minute \in Nat \ {0} /\ now \in Nat
      /\ \A j \in Job : job[j].start \in Nat
  BY ScheduleAssumption, TypeParts DEF Time, Jobs
<1>1. ASSUME UNCHANGED <<now, ticked>>,
             \A i \in Job : job'[i] # IdleJob => job[i] # IdleJob /\ job'[i].start = job[i].start
      PROVE  Punctual'
  BY <1>1 DEF Punctual, OnTheMinute
<1>2. ASSUME NEW j \in Job, NEW d \in job[j].due, Remind(j, d) PROVE Punctual'
  <2>1. job[j] # IdleJob
    BY <1>2, Working
  <2> QED BY <1>1, <1>2, <2>1, RemindLeft DEF Remind
<1>3. ASSUME NEW j \in Job, Reschedule(j) PROVE Punctual'
  <2>1. job[j] # IdleJob
    BY <1>3, Working DEF Reschedule
  <2> QED BY <1>1, <1>3, <2>1, RescheduleLeft DEF Reschedule
<1>4. ASSUME NEW j \in Job, Tick(j) PROVE Punctual'
  <2>1. /\ ~ticked /\ ticked' /\ now' = now /\ OnTheMinute(now)' = OnTheMinute(now)
        /\ now <= OnTheMinute(now) + MaxLate /\ \A i \in Job : job[i] = IdleJob
    BY <1>4 DEF Tick, Punctual, OnTheMinute
  <2>2. \A i \in Job : job'[i] # IdleJob => i = j /\ job'[i].start = now
    BY <1>4, <2>1, TickGives
  <2>3. now <= now + MaxLag
    BY <1>0
  <2> QED BY <1>0, <2>1, <2>2, <2>3 DEF Punctual
<1>5. CASE Advance
  <2>1. /\ now' = now + 1 /\ job' = job /\ (ticked \/ now % Minute < MaxLate)
        /\ \A j \in Job : job[j] # IdleJob => now < job[j].start + MaxLag
    BY <1>5 DEF Advance, TimerOnTime, JobsOnTime
  <2>2. now % Minute = now - OnTheMinute(now) /\ now % Minute \in Nat
    BY <1>0, Remainder DEF OnTheMinute
  <2>3. CASE (now + 1) % Minute # 0
    <3>1. OnTheMinute(now)' = OnTheMinute(now) /\ ticked' = ticked /\ OnTheMinute(now) \in Nat
      BY <1>5, <2>3, MinuteTurns
    <3>2. ticked' \/ now + 1 <= OnTheMinute(now)' + MaxLate
      BY <1>0, <2>1, <2>2, <3>1
    <3>3. \A j \in Job : job[j] # IdleJob =>
            ticked' /\ now + 1 <= job[j].start + MaxLag /\ job[j].start <= OnTheMinute(now)' + MaxLate
      BY <1>0, <2>1, <3>1 DEF Punctual
    <3> QED BY <2>1, <3>2, <3>3 DEF Punctual
  <2>4. CASE (now + 1) % Minute = 0
    <3>1. /\ OnTheMinute(now)' = OnTheMinute(now) + Minute /\ (\A j \in Job : job[j] = IdleJob)
          /\ OnTheMinute(now) \in Nat /\ now < OnTheMinute(now) + Minute
      BY <1>5, <2>4, MinuteTurns
    <3>2. now' <= OnTheMinute(now)' + MaxLate
      BY <1>0, <2>1, <3>1
    <3> QED BY <2>1, <3>1, <3>2 DEF Punctual
  <2> QED BY <2>3, <2>4
<1>6. ASSUME UNCHANGED <<now, ticked, job>> PROVE Punctual'
  BY <1>1, <1>6
<1>7. \/ \E j \in Job : Tick(j) \/ Reschedule(j) \/ \E d \in job[j].due : Remind(j, d)
      \/ Advance
      \/ UNCHANGED <<now, ticked, job>>
  BY DEF Next, RemindFails, Crash, Create, Update, Remove, ToggleRead, ToggleWrite, vars
<1> QED BY <1>2, <1>3, <1>4, <1>5, <1>6, <1>7

LEMMA PunctualAlways ==
  ASSUME ~Faulty, MaxLate + MaxLag < Minute
  PROVE  Spec => []Punctual
<1>1. Init => Punctual
  <2>1. 0 \in Nat /\ OnTheMinute(0) \in Nat /\ MaxLate \in Nat
    BY NextMinute, ScheduleAssumption
  <2> QED BY <2>1 DEF Init, Punctual
<1>2. TypeOK /\ Punctual /\ [Next]_vars => Punctual'
  BY PunctualStep
<1> QED BY <1>1, <1>2, TypeCorrect, PTL DEF Spec

-----------------------------------------------------------------------------
(* Nothing is left behind *)

Has(j, s) == \/ \E d \in job[j].due : d.id = s
             \/ job[j].current # NoDue /\ job[j].current.id = s

Owed(s) == Exists(s) /\ schedules[s].isActive /\ schedules[s].nextRunAt # Never

\* An active schedule was due in the past minute or is due later; once the timer
\* of this minute has fired, it is due in this minute or later, or a job has it.
InTime ==
  \A s \in Schedule \ excused : Owed(s) =>
    /\ OnTheMinute(now) <= schedules[s].nextRunAt + Minute
    /\ ticked => OnTheMinute(now) <= schedules[s].nextRunAt \/ \E j \in Job : Has(j, s)

\* A job keeps what it has until it rearms it.
LEMMA RemindHas ==
  ASSUME TypeOK, NEW j \in Job, NEW d \in job[j].due, Remind(j, d), NEW s, NEW i \in Job, Has(i, s)
  PROVE  Has(i, s)'
<1>1. d # NoDue
  BY CopyTypes, ScheduleAssumption
<1>2. CASE i = j
  BY <1>1, <1>2, RemindLeft DEF Has, Remind
<1>3. CASE i # j
  BY <1>3, RemindLeft DEF Has
<1> QED BY <1>2, <1>3

LEMMA RescheduleHas ==
  ASSUME TypeOK, NEW j \in Job, Reschedule(j), NEW s, s # job[j].current.id, NEW i \in Job, Has(i, s)
  PROVE  Has(i, s)'
<1>1. CASE i = j
  BY <1>1, RescheduleLeft DEF Has
<1>2. CASE i # j
  BY <1>2, RescheduleLeft DEF Has
<1> QED BY <1>1, <1>2

\* A schedule that a job rearms has its next run in the future.
LEMMA Rearmed ==
  ASSUME TypeOK, NEW j \in Job, Reschedule(j), Exists(job[j].current.id), job[j].current.row.cron.shape # "step"
  PROVE  LET c == job[j].current.id
         IN  /\ c \in Schedule
             /\ \/ schedules'[c].nextRunAt = Never
                \/ schedules'[c].nextRunAt \in Nat /\ schedules'[c].nextRunAt > now
             /\ \A s \in Schedule : s # c => schedules'[s] = schedules[s]
<1> DEFINE c == job[j].current.id
           next == NextRun(job[j].current.row.cron, now)
           on == (next # Never)
<1>1. c \in Schedule /\ job[j].current.row.cron \in Cron /\ now \in Nat
  BY CopyTypes, TypeParts DEF Reschedule, Time
<1>2. schedules' = [schedules EXCEPT ![c].nextRunAt = next, ![c].isActive = on]
  BY DEF Reschedule
<1>3. schedules[c] \in Row /\ schedules \in [Schedule -> Row \union {Unused, Removed}]
  BY <1>1, ExistingRow DEF TypeOK
<1>4. next = Never \/ (next \in Nat /\ next > now)
  <2> HIDE DEF on
  <2> QED BY <1>1, NextRunAhead
<1> HIDE DEF next, on
<1>5. schedules'[c].nextRunAt = next /\ \A s \in Schedule : s # c => schedules'[s] = schedules[s]
  BY <1>1, <1>2, <1>3 DEF Row
<1> QED BY <1>1, <1>4, <1>5

LEMMA InTimeWritten ==
  ASSUME TypeOK, TypeOK', InTime, NEW u \in Schedule, NEW row, NEW at, Written(u, row, at),
         UNCHANGED <<now, ticked, job>>
  PROVE  InTime'
<1>1. now \in Nat /\ OnTheMinute(now) \in Nat /\ OnTheMinute(now) <= now /\ OnTheMinute(now)' = OnTheMinute(now)
  BY TypeParts, NextMinute DEF Time, OnTheMinute
<1> SUFFICES ASSUME NEW s \in Schedule, s \notin excused', Owed(s)'
             PROVE  /\ OnTheMinute(now) <= schedules'[s].nextRunAt + Minute
                    /\ ticked => OnTheMinute(now) <= schedules'[s].nextRunAt \/ \E j \in Job : Has(j, s)'
  BY <1>1 DEF InTime
<1>2. CASE s = u
  <2>1. schedules'[s] = row /\ row.nextRunAt # Never /\ ~(row.nextRunAt < now)
    BY <1>2 DEF Written, Owed, TypeOK
  <2>2. row \in Row
    BY <2>1 DEF TypeOK, Owed, Exists
  <2>3. row.nextRunAt \in Nat /\ Minute \in Nat
    BY <2>1, <2>2, ScheduleAssumption DEF Row
  <2> QED BY <1>1, <2>1, <2>3
<1>3. CASE s # u
  <2>1. schedules'[s] = schedules[s] /\ s \notin excused
    BY <1>3 DEF Written, TypeOK
  <2>2. Owed(s) /\ \A j \in Job : Has(j, s) => Has(j, s)'
    BY <2>1 DEF Owed, Exists, Has
  <2> QED BY <2>1, <2>2 DEF InTime
<1> QED BY <1>2, <1>3

\* The same, for a schedule that no step touched but perhaps a job's.
LEMMA InTimeKept ==
  ASSUME TypeOK, InTime, UNCHANGED <<now, ticked>>,
         \A s \in Schedule \ excused' : Owed(s)' =>
           \/ /\ s \notin excused /\ schedules'[s] = schedules[s]
              /\ \A j \in Job : Has(j, s) => Has(j, s)'
           \/ schedules'[s].nextRunAt \in Nat /\ schedules'[s].nextRunAt > now
  PROVE  InTime'
<1>1. now \in Nat /\ OnTheMinute(now) \in Nat /\ OnTheMinute(now) <= now /\ OnTheMinute(now)' = OnTheMinute(now)
  BY TypeParts, NextMinute DEF Time, OnTheMinute
<1> SUFFICES ASSUME NEW s \in Schedule, s \notin excused', Owed(s)'
             PROVE  /\ OnTheMinute(now) <= schedules'[s].nextRunAt + Minute
                    /\ ticked => OnTheMinute(now) <= schedules'[s].nextRunAt \/ \E j \in Job : Has(j, s)'
  BY <1>1 DEF InTime
<1>2. CASE schedules'[s].nextRunAt \in Nat /\ schedules'[s].nextRunAt > now
  BY <1>1, <1>2, ScheduleAssumption
<1>3. CASE s \notin excused /\ schedules'[s] = schedules[s] /\ \A j \in Job : Has(j, s) => Has(j, s)'
  <2>1. Owed(s)
    BY <1>3 DEF Owed, Exists
  <2> QED BY <1>3, <2>1 DEF InTime
<1> QED BY <1>2, <1>3

LEMMA InTimeStep ==
  ASSUME TypeOK, TypeOK', Punctual, InTime, ~Faulty, MaxLate = 0, MaxLag < Minute, [Next]_vars
  PROVE  InTime'
<1>0. MaxLate + MaxLag < Minute /\ Minute \in Nat \ {0} /\ now \in Nat
  BY ScheduleAssumption, TypeParts DEF Time
<1>1. ASSUME NEW u \in Schedule, NEW row, NEW at, Written(u, row, at), UNCHANGED <<now, ticked, job>> PROVE InTime'
  BY <1>1, InTimeWritten
<1>2. ASSUME NEW u \in Schedule, NEW body \in Bodies, Create(u, body) PROVE InTime'
  BY <1>1, <1>2 DEF Create
<1>3. ASSUME NEW u \in Schedule, NEW patch \in Patches, Update(u, patch) PROVE InTime'
  BY <1>1, <1>3 DEF Update
<1>4. ASSUME NEW u \in Schedule, Remove(u) PROVE InTime'
  BY <1>4, InTimeKept DEF Remove, Owed, Exists, Has, TypeOK
<1>5. ASSUME NEW r \in Request, ToggleWrite(r) PROVE InTime'
  <2>1. toggle[r].id \in Schedule
    BY <1>5, TypeParts DEF ToggleWrite, Toggle
  <2>2. CASE Exists(toggle[r].id)
    BY <1>1, <1>5, <2>1, <2>2 DEF ToggleWrite
  <2>3. CASE ~Exists(toggle[r].id)
    BY <1>5, <2>3, InTimeKept DEF ToggleWrite, Has
  <2> QED BY <2>2, <2>3
<1>6. ASSUME NEW j \in Job, NEW d \in job[j].due, Remind(j, d) PROVE InTime'
  BY <1>6, InTimeKept, RemindHas DEF Remind
<1>7. ASSUME NEW j \in Job, Reschedule(j) PROVE InTime'
  <2> DEFINE c == job[j].current.id
  <2>1. UNCHANGED <<now, ticked>> /\ c \in Schedule
    BY <1>7, CopyTypes DEF Reschedule
  <2>2. \A s \in Schedule, i \in Job : s # c /\ Has(i, s) => Has(i, s)'
    BY <1>7, RescheduleHas
  <2>3. CASE Exists(c) /\ job[j].current.row.cron.shape # "step"
    <3>1. /\ \/ schedules'[c].nextRunAt = Never
             \/ schedules'[c].nextRunAt \in Nat /\ schedules'[c].nextRunAt > now
          /\ \A s \in Schedule : s # c => schedules'[s] = schedules[s]
      BY <1>7, <2>3, Rearmed
    <3>2. excused' = excused \ {c}
      BY <1>7, <2>3 DEF Reschedule
    <3> HIDE DEF c
    <3> QED BY <2>1, <2>2, <3>1, <3>2, InTimeKept DEF Owed
  <2>4. CASE ~(Exists(c) /\ job[j].current.row.cron.shape # "step")
    <3>1. schedules' = schedules /\ excused' = excused \union {c}
      BY <1>7, <2>4 DEF Reschedule
    <3> HIDE DEF c
    <3> QED BY <2>1, <2>2, <3>1, InTimeKept
  <2> QED BY <2>3, <2>4
<1>8. ASSUME NEW j \in Job, Tick(j) PROVE InTime'
  <2>1. /\ ~ticked /\ UNCHANGED <<schedules, now, excused>>
        /\ OnTheMinute(now)' = OnTheMinute(now)
        /\ OnTheMinute(now) \in Nat /\ now = OnTheMinute(now)
    BY <1>0, <1>8, NextMinute DEF Tick, Punctual, OnTheMinute
  <2>2. ASSUME NEW s \in Schedule, s \notin excused, Owed(s)
        PROVE  /\ OnTheMinute(now) <= schedules[s].nextRunAt + Minute
               /\ OnTheMinute(now) <= schedules[s].nextRunAt \/ Has(j, s)'
    <3>1. OnTheMinute(now) <= schedules[s].nextRunAt + Minute
      BY <2>2 DEF InTime
    <3>2. schedules[s].nextRunAt \in Nat
      BY <2>2, ExistingRow DEF Owed, Row
    <3>3. CASE schedules[s].nextRunAt > now
      BY <2>1, <3>1, <3>2, <3>3
    <3>4. CASE schedules[s].nextRunAt <= now
      <4>1. s \in DueNow
        BY <2>1, <2>2, <3>1, <3>4 DEF DueNow, Owed, DueAt
      <4>2. [id |-> s, row |-> schedules[s]] \in {[id |-> u, row |-> schedules[u]] : u \in DueNow}
        BY <4>1
      <4>3. [id |-> s, row |-> schedules[s]] \in job'[j].due
        BY <1>8, <4>1, <4>2, TickGives
      <4> QED BY <3>1, <4>3 DEF Has
    <3> QED BY <2>1, <3>2, <3>3, <3>4
  <2> QED BY <2>1, <2>2 DEF InTime, Owed, Exists
<1>9. CASE Advance
  <2>1. UNCHANGED <<schedules, job, excused>> /\ (ticked \/ now % Minute < 0)
    BY <1>9 DEF Advance, TimerOnTime
  <2>2. ticked
    BY <1>0, <2>1, Remainder
  <2>3. \A s \in Schedule \ excused : Owed(s) => schedules[s].nextRunAt \in Nat
    BY ExistingRow DEF Owed, Row
  <2>4. CASE OnTheMinute(now)' = OnTheMinute(now)
    BY <2>1, <2>2, <2>4 DEF InTime, Owed, Exists, Has
  <2>5. CASE /\ OnTheMinute(now)' = OnTheMinute(now) + Minute /\ ~ticked'
             /\ \A j \in Job : job[j] = IdleJob
    <3>1. \A j \in Job, s \in Schedule : ~Has(j, s)
      BY <2>5 DEF Has, IdleJob
    <3>2. OnTheMinute(now) \in Nat
      BY <1>0, NextMinute
    <3> QED BY <1>0, <2>1, <2>2, <2>3, <2>5, <3>1, <3>2 DEF InTime, Owed, Exists
  <2> QED BY <1>0, <1>9, <2>4, <2>5, MinuteTurns
<1>10. ASSUME UNCHANGED <<schedules, now, ticked, job, excused>> PROVE InTime'
  BY <1>10, InTimeKept DEF Has
<1>11. ASSUME NEW r \in Request, NEW s \in Schedule, ToggleRead(r, s) PROVE InTime'
  BY <1>10, <1>11 DEF ToggleRead
<1>12. CASE UNCHANGED vars
  BY <1>10, <1>12 DEF vars
<1>13. CASE Next
  <2>1. ~Crash /\ \A j \in Job : \A d \in job[j].due : ~RemindFails(j, d)
    BY DEF Crash, RemindFails
  <2> QED BY <1>2, <1>3, <1>4, <1>5, <1>6, <1>7, <1>8, <1>9, <1>11, <1>13, <2>1 DEF Next
<1> QED BY <1>12, <1>13

\* NeverStuck: with the timer at the start of its minute and jobs done within it,
\* and nothing failing, every active schedule is run within a minute and the time
\* a job takes, whatever users do meanwhile: its time falls between two ticks, and
\* the window of the later one reaches back to the earlier.
THEOREM NeverStuckPunctual ==
  ASSUME ~Faulty, MaxLate = 0, MaxLag < Minute
  PROVE  Spec => []NeverStuck
<1>1. Init => InTime
  BY DEF Init, InTime, Owed, Exists
<1>2. TypeOK /\ TypeOK' /\ Punctual /\ InTime /\ [Next]_vars => InTime'
  BY InTimeStep
<1>3. TypeOK /\ Punctual /\ InTime => NeverStuck
  <2> SUFFICES ASSUME TypeOK, Punctual, InTime, NEW s \in Schedule \ excused, Owed(s)
               PROVE  now <= schedules[s].nextRunAt + Minute + MaxLag
    BY DEF NeverStuck, Owed
  <2>1. /\ now \in Nat /\ OnTheMinute(now) \in Nat /\ now < OnTheMinute(now) + Minute
        /\ Minute \in Nat /\ MaxLag \in Nat
    BY ScheduleAssumption, TypeParts, NextMinute DEF Time
  <2>2. schedules[s].nextRunAt \in Nat
    BY ExistingRow DEF Owed, Row
  <2>3. OnTheMinute(now) <= schedules[s].nextRunAt + Minute
    BY DEF InTime
  <2>4. CASE ~ticked
    BY <2>1, <2>2, <2>3, <2>4 DEF Punctual
  <2>5. CASE ticked /\ OnTheMinute(now) <= schedules[s].nextRunAt
    BY <2>1, <2>2, <2>5
  <2>6. ASSUME NEW j \in Job, Has(j, s) PROVE now <= schedules[s].nextRunAt + Minute + MaxLag
    <3>1. job[j] # IdleJob
      BY <2>6, Working DEF Has
    <3>2. now <= job[j].start + MaxLag /\ job[j].start <= OnTheMinute(now) /\ job[j].start \in Nat
      BY <2>1, <3>1, TypeParts DEF Punctual, Jobs, Time
    <3> QED BY <2>1, <2>2, <2>3, <3>2
  <2> QED BY <2>4, <2>5, <2>6 DEF InTime
<1>4. MaxLate + MaxLag < Minute
  BY ScheduleAssumption
<1>5. Spec => []Punctual
  BY <1>4, PunctualAlways
<1> QED BY <1>1, <1>2, <1>3, <1>5, TypeCorrect, PTL DEF Spec

-----------------------------------------------------------------------------
(* One reminder of an occurrence *)

\* No schedule has a cron expression that getNextCronRun cannot read: after a
\* run, such a schedule stays where it is and is due again.
Readable(cron) == cron.shape # "step"
ReadableOnly == /\ \A body \in Bodies : Readable(body.cron)
                /\ \A patch \in Patches : patch.cron = Same \/ Readable(patch.cron)

ReadableRows ==
  /\ \A s \in Schedule : Exists(s) => Readable(schedules[s].cron)
  /\ \A j \in Job : /\ \A d \in job[j].due : Readable(d.row.cron)
                    /\ job[j].current # NoDue => Readable(job[j].current.row.cron)

\* An occurrence is reminded of once at most; not yet, while a job holds a copy
\* that says so; and if its schedule is still at it, a job is about to rearm it.
Once ==
  /\ AtMostOnce
  /\ \A j \in Job : \A d \in job[j].due : reminders[d.id][d.row.nextRunAt] = 0
  /\ \A s \in Schedule, t \in Time :
       Exists(s) /\ schedules[s].nextRunAt = t /\ reminders[s][t] # 0 => \E j \in Job : Has(j, s)

\* Every write keeps the rows and the copies readable.
LEMMA WrittenReadable ==
  ASSUME TypeOK, ReadableRows, NEW u \in Schedule, NEW row, NEW at, Written(u, row, at), job' = job,
         Readable(row.cron)
  PROVE  ReadableRows'
BY DEF Written, ReadableRows, Exists, TypeOK, Readable

LEMMA ReadableStep ==
  ASSUME TypeOK, ReadableOnly, ReadableRows, [Next]_vars
  PROVE  ReadableRows'
<1>1. ASSUME UNCHANGED <<schedules, job>> PROVE ReadableRows'
  BY <1>1 DEF ReadableRows, Exists, Readable
<1>2. ASSUME NEW s \in Schedule, NEW body \in Bodies, Create(s, body) PROVE ReadableRows'
  <2>1. Readable(body.cron)
    BY DEF ReadableOnly
  <2> QED BY <1>2, <2>1, WrittenReadable DEF Create
<1>3. ASSUME NEW s \in Schedule, NEW patch \in Patches, Update(s, patch) PROVE ReadableRows'
  <2>1. Readable(IF patch.cron = Same THEN schedules[s].cron ELSE patch.cron)
    BY <1>3 DEF Update, ReadableOnly, ReadableRows
  <2> QED BY <1>3, <2>1, WrittenReadable DEF Update
<1>4. ASSUME NEW s \in Schedule, Remove(s) PROVE ReadableRows'
  BY <1>4 DEF Remove, ReadableRows, Exists, TypeOK, Readable
<1>5. ASSUME NEW r \in Request, ToggleWrite(r) PROVE ReadableRows'
  <2> DEFINE s == toggle[r].id
             on == ~toggle[r].isActive
             row == [schedules[s] EXCEPT !.isActive = on]
  <2>1. s \in Schedule
    BY <1>5, TypeParts DEF ToggleWrite, Toggle
  <2>2. CASE Exists(s)
    <3>1. schedules[s] \in Row
      BY <2>1, <2>2, ExistingRow
    <3>2. row.cron = schedules[s].cron
      <4> HIDE DEF on, s
      <4> QED BY <3>1 DEF Row
    <3>3. Written(s, row, Never) /\ job' = job
      BY <1>5, <2>2 DEF ToggleWrite
    <3>4. Readable(row.cron)
      <4> HIDE DEF row
      <4> QED BY <2>1, <2>2, <3>2 DEF ReadableRows
    <3> HIDE DEF row, s
    <3> QED BY <2>1, <3>3, <3>4, WrittenReadable
  <2>3. CASE ~Exists(s)
    BY <1>1, <1>5, <2>3 DEF ToggleWrite
  <2> QED BY <2>2, <2>3
<1>6. ASSUME NEW j \in Job, NEW d \in job[j].due, Remind(j, d) PROVE ReadableRows'
  <2>1. schedules' = schedules
    BY <1>6 DEF Remind
  <2>2. \A i \in Job : /\ \A e \in job'[i].due : Readable(e.row.cron)
                       /\ job'[i].current # NoDue => Readable(job'[i].current.row.cron)
    <3>1. Readable(d.row.cron)
      BY DEF ReadableRows, Readable
    <3>2. ASSUME NEW i \in Job
          PROVE  /\ \A e \in job'[i].due : e \in job[i].due
                 /\ job'[i].current = d \/ job'[i].current = job[i].current
      BY <1>6, RemindLeft
    <3> QED BY <3>1, <3>2 DEF ReadableRows, Readable
  <2> QED BY <2>1, <2>2 DEF ReadableRows, Exists, Readable
<1>7. ASSUME NEW j \in Job, NEW d \in job[j].due, RemindFails(j, d) PROVE ReadableRows'
  <2> DEFINE b == [job[j] EXCEPT !.due = @ \ {d}]
  <2>1. job[j] \in Jobs /\ job \in [Job -> Jobs]
    BY TypeParts
  <2>2. b \in Jobs /\ b.due = job[j].due \ {d} /\ job' = [job EXCEPT ![j] = Rest(b)] /\ schedules' = schedules
    BY <1>7, <2>1 DEF RemindFails, Jobs
  <2>3. Rest(b).due = job[j].due \ {d} /\ Rest(b).current = NoDue
    <3> HIDE DEF b
    <3> QED BY <2>2, RestDue DEF Rest, IdleJob, Jobs
  <2> HIDE DEF b
  <2>4. /\ job'[j].due \subseteq job[j].due /\ job'[j].current = NoDue
        /\ \A i \in Job : i # j => job'[i] = job[i]
    BY <2>1, <2>2, <2>3
  <2> QED BY <2>2, <2>4 DEF ReadableRows, Exists, Readable
<1>8. ASSUME NEW j \in Job, Reschedule(j) PROVE ReadableRows'
  <2> DEFINE c == job[j].current.id
  <2>1. \A s \in Schedule : Exists(s)' => Exists(s) /\ schedules'[s].cron = schedules[s].cron
    <3>1. CASE schedules' = schedules
      BY <3>1 DEF Exists
    <3>2. CASE schedules' # schedules
      <4>1. c \in Schedule /\ Exists(c)
        BY <1>8, <3>2, CopyTypes DEF Reschedule
      <4>2. schedules[c] \in Row
        BY <4>1, ExistingRow
      <4>3. PICK next, on : schedules' = [schedules EXCEPT ![c].nextRunAt = next, ![c].isActive = on]
        <5> DEFINE next == NextRun(job[j].current.row.cron, now)
        <5> HIDE DEF next
        <5> QED BY <1>8, <3>2 DEF Reschedule, next
      <4>4. schedules'[c].cron = schedules[c].cron /\ \A s \in Schedule : s # c => schedules'[s] = schedules[s]
        <5> HIDE DEF c
        <5> QED BY <4>1, <4>2, <4>3 DEF Row, TypeOK
      <4> QED BY <4>1, <4>4 DEF Exists
    <3> QED BY <3>1, <3>2
  <2>2. \A i \in Job : /\ job'[i].due = job[i].due
                       /\ job'[i].current # NoDue => job'[i].current = job[i].current
    BY <1>8, RescheduleLeft
  <2>3. \A s \in Schedule : Exists(s)' => Readable(schedules'[s].cron)
    BY <2>1 DEF ReadableRows
  <2>4. \A i \in Job : /\ \A e \in job'[i].due : Readable(e.row.cron)
                       /\ job'[i].current # NoDue => Readable(job'[i].current.row.cron)
    BY <2>2 DEF ReadableRows, Readable
  <2> QED BY <2>3, <2>4 DEF ReadableRows, Readable
<1>9. ASSUME NEW j \in Job, Tick(j) PROVE ReadableRows'
  <2>1. schedules' = schedules
    BY <1>9 DEF Tick
  <2>2. \A d \in {[id |-> s, row |-> schedules[s]] : s \in DueNow} : Readable(d.row.cron)
    BY DEF DueNow, ReadableRows
  <2>3. \A i \in Job : /\ \A e \in job'[i].due : Readable(e.row.cron)
                       /\ job'[i].current # NoDue => Readable(job'[i].current.row.cron)
    <3>1. CASE DueNow = {}
      BY <1>9, <3>1, TickGives DEF ReadableRows
    <3>2. CASE DueNow # {}
      BY <1>9, <2>2, <3>2, TickGives DEF ReadableRows
    <3> QED BY <3>1, <3>2
  <2> QED BY <2>1, <2>3 DEF ReadableRows, Exists, Readable
<1>10. CASE Crash
  BY <1>10 DEF Crash, ReadableRows, Exists, Readable, IdleJob
<1>11. CASE Advance \/ UNCHANGED vars \/ \E r \in Request, s \in Schedule : ToggleRead(r, s)
  BY <1>1, <1>11 DEF Advance, vars, ToggleRead
<1> QED BY <1>2, <1>3, <1>4, <1>5, <1>6, <1>7, <1>8, <1>9, <1>10, <1>11 DEF Next

\* Nobody was reminded of an occurrence that is still to come.
LEMMA NotYetReminded ==
  ASSUME IInv, NEW s \in Schedule, NEW t \in Time, t > now
  PROVE  reminders[s][t] = 0
<1>1. reminders[s][t] + Cardinality(Holding(s, t)) <= 0 /\ reminders[s][t] \in Nat
  BY DEF IInv, TypeOK, TicksCover, TicksFor, Time
<1> QED BY <1>1, HoldingFinite

\* A step that reminds nobody, gives no job a copy, and puts a schedule back to
\* an occurrence only with its count cleared.
LEMMA OnceKept ==
  ASSUME TypeOK, TypeOK', Once,
         \A j \in Job : job'[j].due \subseteq job[j].due,
         \A s \in Schedule, t \in Time : reminders'[s][t] <= reminders[s][t],
         \A s \in Schedule, t \in Time :
           Exists(s)' /\ schedules'[s].nextRunAt = t /\ reminders'[s][t] # 0 =>
             /\ Exists(s) /\ schedules[s].nextRunAt = t
             /\ \A j \in Job : Has(j, s) => Has(j, s)'
  PROVE  Once'
<1>1. \A s \in Schedule, t \in Time : reminders[s][t] \in Nat /\ reminders'[s][t] \in Nat
  BY DEF TypeOK
<1>2. AtMostOnce'
  <2>1. ASSUME NEW s \in Schedule, NEW t \in Time PROVE reminders'[s][t] <= 1
    <3>1. reminders[s][t] <= 1 /\ reminders'[s][t] <= reminders[s][t]
      BY DEF Once, AtMostOnce
    <3> QED BY <1>1, <3>1
  <2> QED BY <2>1 DEF AtMostOnce
<1>3. ASSUME NEW j \in Job, NEW d \in job'[j].due PROVE reminders'[d.id][d.row.nextRunAt] = 0
  <2>1. d.id \in Schedule /\ d.row.nextRunAt \in Time /\ reminders[d.id][d.row.nextRunAt] = 0
    BY CopyTypes DEF Once
  <2>2. ASSUME NEW a \in Nat, NEW b \in Nat, a <= b, b = 0 PROVE a = 0
    BY <2>2
  <2> QED BY <1>1, <2>1, <2>2
<1>4. ASSUME NEW s \in Schedule, NEW t \in Time, Exists(s)', schedules'[s].nextRunAt = t, reminders'[s][t] # 0
      PROVE  \E j \in Job : Has(j, s)'
  <2>1. Exists(s) /\ schedules[s].nextRunAt = t
    BY <1>4
  <2>2. reminders[s][t] # 0
    <3>1. reminders'[s][t] <= reminders[s][t]
      OBVIOUS
    <3> QED BY <1>1, <1>4, <3>1
  <2> QED BY <1>4, <2>1, <2>2 DEF Once
<1> QED BY <1>2, <1>3, <1>4 DEF Once

\* Users' writes: one that names a time clears that occurrence's count, another
\* leaves the schedule where it was.
LEMMA OnceWritten ==
  ASSUME TypeOK, TypeOK', Once, NEW u \in Schedule, NEW row, NEW at, Written(u, row, at), job' = job,
         \/ row.nextRunAt = at
         \/ Exists(u) /\ row.nextRunAt = schedules[u].nextRunAt
  PROVE  Once'
<1>1. \A s \in Schedule, t \in Time : reminders'[s][t] <= reminders[s][t]
  BY WrittenReminders
<1>2. \A s : \A j \in Job : Has(j, s) => Has(j, s)'
  BY DEF Has
<1>3. ASSUME NEW s \in Schedule, NEW t \in Time, Exists(s)', schedules'[s].nextRunAt = t, reminders'[s][t] # 0
      PROVE  Exists(s) /\ schedules[s].nextRunAt = t
  <2>1. CASE s # u
    BY <1>3, <2>1 DEF Written, TypeOK, Exists
  <2>2. CASE s = u
    <3>1. schedules'[s] = row
      BY <2>2 DEF Written, TypeOK
    <3>2. at # t
      BY <1>3, <2>2 DEF Written, TypeOK
    <3> QED BY <1>3, <2>2, <3>1, <3>2
  <2> QED BY <2>1, <2>2
<1> QED BY <1>1, <1>2, <1>3, OnceKept

LEMMA OnceRemind ==
  ASSUME IInv, TypeOK', Punctual, Once, NEW j \in Job, NEW d \in job[j].due, Remind(j, d)
  PROVE  Once'
<1> DEFINE u == d.id
           at == d.row.nextRunAt
<1>1. /\ TypeOK /\ u \in Schedule /\ at \in Time /\ reminders[u][at] = 0 /\ schedules' = schedules
      /\ \A s \in Schedule, t \in Time : reminders[s][t] \in Nat
  BY CopyTypes DEF IInv, Once, Remind, TypeOK
<1>2. /\ reminders'[u][at] = 1
      /\ \A s \in Schedule, t \in Time : ~(s = u /\ t = at) => reminders'[s][t] = reminders[s][t]
  BY <1>1 DEF Remind, TypeOK
<1>3. \A i \in Job : i # j => job[i].due = {}
  <2>1. job[j] # IdleJob
    BY Working
  <2> QED BY <2>1, Working DEF Punctual
<1>4. /\ job'[j].due = job[j].due \ {d} /\ job'[j].current = d /\ d # NoDue
      /\ \A i \in Job : i # j => job'[i] = job[i]
  BY <1>1, RemindLeft, CopyTypes, ScheduleAssumption
<1> HIDE DEF u, at
<1>5. AtMostOnce'
  BY <1>1, <1>2 DEF Once, AtMostOnce
<1>6. ASSUME NEW i \in Job, NEW e \in job'[i].due PROVE reminders'[e.id][e.row.nextRunAt] = 0
  <2>1. i = j /\ e \in job[j].due /\ e # d
    BY <1>3, <1>4, <1>6
  <2>2. e.id # u
    BY <2>1 DEF IInv, OneCopyEach, u
  <2>3. e.id \in Schedule /\ e.row.nextRunAt \in Time /\ reminders[e.id][e.row.nextRunAt] = 0
    BY <1>1, <2>1, CopyTypes DEF Once
  <2> QED BY <1>2, <2>2, <2>3
<1>7. ASSUME NEW s \in Schedule, NEW t \in Time, Exists(s)', schedules'[s].nextRunAt = t, reminders'[s][t] # 0
      PROVE  \E i \in Job : Has(i, s)'
  <2>1. CASE s = u
    BY <1>4, <2>1 DEF Has, u
  <2>2. CASE s # u
    <3>1. \E i \in Job : Has(i, s)
      BY <1>1, <1>2, <1>7, <2>2 DEF Once, Exists
    <3> QED BY <1>1, <3>1, RemindHas
  <2> QED BY <2>1, <2>2
<1> QED BY <1>5, <1>6, <1>7 DEF Once

LEMMA OnceReschedule ==
  ASSUME IInv, TypeOK', Once, ReadableRows, NEW j \in Job, Reschedule(j)
  PROVE  Once'
<1> DEFINE c == job[j].current.id
<1>1. TypeOK /\ c \in Schedule /\ reminders' = reminders /\ job[j].current # NoDue
  BY CopyTypes DEF IInv, Reschedule
<1>2. \A i \in Job : job'[i].due \subseteq job[i].due
  BY <1>1, RescheduleLeft
<1>3. \A s \in Schedule, t \in Time : reminders'[s][t] <= reminders[s][t]
  BY <1>1 DEF TypeOK
<1>4. ASSUME NEW s \in Schedule, NEW t \in Time, Exists(s)', schedules'[s].nextRunAt = t, reminders'[s][t] # 0
      PROVE  s # c /\ Exists(s) /\ schedules[s].nextRunAt = t
  <2>1. CASE Exists(c)
    <3>1. job[j].current.row.cron.shape # "step"
      BY <1>1 DEF ReadableRows, Readable
    <3>2. /\ schedules'[c].nextRunAt = Never \/ (schedules'[c].nextRunAt \in Nat /\ schedules'[c].nextRunAt > now)
          /\ \A q \in Schedule : q # c => schedules'[q] = schedules[q]
      BY <1>1, <2>1, <3>1, Rearmed
    <3>3. s # c
      <4>1. ASSUME s = c PROVE FALSE
        <5>1. t > now
          BY <1>4, <3>2, <4>1, ScheduleAssumption DEF Time
        <5> QED BY <1>1, <1>4, <5>1, NotYetReminded
      <4> QED BY <4>1
    <3> QED BY <1>4, <3>2, <3>3 DEF Exists
  <2>2. CASE ~Exists(c)
    <3>1. schedules' = schedules
      BY <2>2 DEF Reschedule
    <3> QED BY <1>4, <2>2, <3>1 DEF Exists
  <2> QED BY <2>1, <2>2
<1>5. \A s \in Schedule, i \in Job : s # c /\ Has(i, s) => Has(i, s)'
  BY <1>1, RescheduleHas
<1> HIDE DEF c
<1> QED BY <1>1, <1>2, <1>3, <1>4, <1>5, OnceKept

LEMMA OnceTick ==
  ASSUME IInv, TypeOK', Punctual, Once, NEW j \in Job, Tick(j)
  PROVE  Once'
<1>1. /\ TypeOK /\ UNCHANGED <<schedules, reminders>> /\ \A i \in Job : job[i] = IdleJob
  BY DEF IInv, Tick, Punctual
<1>2. \A i \in Job : \A s : ~Has(i, s)
  BY <1>1 DEF Has, IdleJob
<1>3. ASSUME NEW s \in DueNow PROVE reminders[s][schedules[s].nextRunAt] = 0
  <2>1. /\ schedules[s] \in Row /\ Exists(s) /\ schedules[s].nextRunAt # Never
        /\ schedules[s].nextRunAt <= now /\ now \in 0 .. MaxTime
    BY <1>1, <1>3, ExistingRow DEF DueNow, DueAt, TypeOK, Time
  <2>2. schedules[s].nextRunAt \in Time
    <3>1. schedules[s].nextRunAt \in Nat
      BY <2>1 DEF Row
    <3> QED BY <2>1, <3>1, ScheduleAssumption DEF Time
  <2> QED BY <1>2, <1>3, <2>1, <2>2 DEF Once, DueNow
<1>4. ASSUME NEW i \in Job, NEW d \in job'[i].due PROVE reminders'[d.id][d.row.nextRunAt] = 0
  <2>1. i = j /\ DueNow # {}
    BY <1>1, <1>4, TickGives DEF IdleJob
  <2>2. d \in {[id |-> s, row |-> schedules[s]] : s \in DueNow}
    BY <1>1, <1>4, <2>1, TickGives
  <2> QED BY <1>1, <1>3, <2>2
<1>5. \A s \in Schedule, t \in Time : ~(Exists(s)' /\ schedules'[s].nextRunAt = t /\ reminders'[s][t] # 0)
  BY <1>1, <1>2 DEF Once, Exists
<1>6. AtMostOnce'
  BY <1>1 DEF Once, AtMostOnce
<1> QED BY <1>4, <1>5, <1>6 DEF Once

LEMMA OnceStep ==
  ASSUME IInv, TypeOK', Punctual, Once, ReadableRows, ~Faulty, [Next]_vars
  PROVE  Once'
<1>0. TypeOK
  BY DEF IInv
<1>1. ASSUME NEW u \in Schedule, NEW body \in Bodies, Create(u, body) PROVE Once'
  BY <1>0, <1>1, OnceWritten DEF Create
<1>2. ASSUME NEW u \in Schedule, NEW patch \in Patches, Update(u, patch) PROVE Once'
  BY <1>0, <1>2, OnceWritten DEF Update
<1>3. ASSUME NEW r \in Request, ToggleWrite(r) PROVE Once'
  <2> DEFINE u == toggle[r].id
             on == ~toggle[r].isActive
             row == [schedules[u] EXCEPT !.isActive = on]
  <2>1. u \in Schedule /\ job' = job
    BY <1>0, <1>3, TypeParts DEF ToggleWrite, Toggle
  <2>2. CASE Exists(u)
    <3>1. schedules[u] \in Row
      BY <1>0, <2>1, <2>2, ExistingRow
    <3>2. row.nextRunAt = schedules[u].nextRunAt
      <4> HIDE DEF on, u
      <4> QED BY <3>1 DEF Row
    <3>3. Written(u, row, Never)
      BY <1>3, <2>2 DEF ToggleWrite
    <3> HIDE DEF row, u
    <3> QED BY <1>0, <2>1, <2>2, <3>2, <3>3, OnceWritten
  <2>3. CASE ~Exists(u)
    BY <1>3, <2>3 DEF ToggleWrite, Once, AtMostOnce, Exists, Has
  <2> QED BY <2>2, <2>3
<1>4. ASSUME NEW u \in Schedule, Remove(u) PROVE Once'
  <2>1. \A s \in Schedule : Exists(s)' => Exists(s) /\ schedules'[s] = schedules[s]
    BY <1>0, <1>4 DEF Remove, Exists, TypeOK
  <2>2. UNCHANGED <<job, reminders>>
    BY <1>4 DEF Remove
  <2> QED BY <2>1, <2>2 DEF Once, AtMostOnce, Has
<1>5. ASSUME NEW j \in Job, Tick(j) \/ Reschedule(j) \/ \E d \in job[j].due : Remind(j, d) PROVE Once'
  BY <1>5, OnceTick, OnceReschedule, OnceRemind
<1>6. ASSUME UNCHANGED <<schedules, job, reminders>> PROVE Once'
  BY <1>6 DEF Once, AtMostOnce, Exists, Has
<1>7. CASE Advance \/ UNCHANGED vars \/ \E r \in Request, s \in Schedule : ToggleRead(r, s)
  BY <1>6, <1>7 DEF Advance, vars, ToggleRead
<1>8. ~Crash /\ \A j \in Job : \A d \in job[j].due : ~RemindFails(j, d)
  BY DEF Crash, RemindFails
<1> QED BY <1>1, <1>2, <1>3, <1>4, <1>5, <1>7, <1>8 DEF Next

\* AtMostOnce: with nothing failing, and the lateness of the timer and the time a
\* job takes together shorter than a minute, an occurrence is reminded of once,
\* whatever users do meanwhile: the tick that finds it again comes after the job
\* of the tick that found it first, and that job has moved the schedule on.
THEOREM AtMostOncePunctual ==
  ASSUME ~Faulty, MaxLate + MaxLag < Minute, ReadableOnly
  PROVE  Spec => []AtMostOnce
<1>1. Init => ReadableRows /\ Once
  BY DEF Init, ReadableRows, Once, AtMostOnce, Exists, IdleJob
<1>2. TypeOK /\ ReadableRows /\ [Next]_vars => ReadableRows'
  BY ReadableStep
<1>3. IInv /\ TypeOK' /\ Punctual /\ Once /\ ReadableRows /\ [Next]_vars => Once'
  BY OnceStep
<1>4. Once => AtMostOnce
  BY DEF Once
<1>5. Spec => []IInv
  BY InitIInv, NextIInv, PTL DEF Spec
<1>6. Spec => []Punctual
  BY PunctualAlways
<1> QED BY <1>1, <1>2, <1>3, <1>4, <1>5, <1>6, TypeCorrect, PTL DEF Spec

-----------------------------------------------------------------------------
(* When a recurring schedule is armed *)

\* A cron expression comes with a new schedule, and with a time: the DTOs ask for
\* neither.
Recurring(cron) == cron.shape = "fields"
TimesGiven == /\ \A body \in Bodies : Recurring(body.cron) => body.at # Never
              /\ \A patch \in Patches : patch.cron = Same \/ ~Recurring(patch.cron)

\* A schedule with a cron expression has a next run, and so has the copy of it a
\* job would write the next run from.
ArmedRow(s) == Exists(s) /\ Recurring(schedules[s].cron) => schedules[s].nextRunAt # Never
ArmedCopy(d) == /\ schedules[d.id] # Unused
                /\ Exists(d.id) /\ Recurring(schedules[d.id].cron) => Recurring(d.row.cron)
Held(j) == job[j].due \union ({job[j].current} \ {NoDue})
Armed == /\ \A s \in Schedule : ArmedRow(s)
         /\ \A j \in Job : \A d \in Held(j) : ArmedCopy(d)

\* A user's write that makes no schedule recurring and leaves none unarmed.
LEMMA ArmedWritten ==
  ASSUME TypeOK, Armed, NEW u \in Schedule, NEW row, NEW at, Written(u, row, at), job' = job,
         row \in Row, Recurring(row.cron) => row.nextRunAt # Never,
         schedules[u] # Unused => Exists(u) /\ (Recurring(row.cron) => Recurring(schedules[u].cron))
  PROVE  Armed'
<1>1. schedules'[u] = row /\ \A s \in Schedule : s # u => schedules'[s] = schedules[s]
  BY DEF Written, TypeOK
<1>2. ASSUME NEW s \in Schedule PROVE ArmedRow(s)'
  BY <1>1 DEF Armed, ArmedRow, Exists
<1>3. row # Unused /\ row # Removed
  BY ScheduleAssumption
<1>4. ASSUME NEW j \in Job, NEW d \in Held(j)' PROVE ArmedCopy(d)'
  <2>1. d \in Held(j) /\ ArmedCopy(d) /\ d.id \in Schedule
    BY CopyTypes DEF Held, Armed
  <2>2. CASE d.id = u
    BY <1>1, <1>3, <2>1, <2>2 DEF ArmedCopy, Exists
  <2>3. CASE d.id # u
    BY <1>1, <2>1, <2>3 DEF ArmedCopy, Exists
  <2> QED BY <2>2, <2>3
<1> QED BY <1>2, <1>4 DEF Armed

\* A step that gives jobs no new copies, and rows no new cron expression.
LEMMA ArmedKept ==
  ASSUME TypeOK, Armed,
         \A s \in Schedule : ArmedRow(s)',
         \A s \in Schedule : /\ schedules'[s] = Unused <=> schedules[s] = Unused
                             /\ Exists(s)' => Exists(s) /\ schedules'[s].cron = schedules[s].cron,
         \A j \in Job : Held(j)' \subseteq Held(j)
  PROVE  Armed'
<1>1. ASSUME NEW j \in Job, NEW d \in Held(j)' PROVE ArmedCopy(d)'
  <2>1. d \in Held(j) /\ ArmedCopy(d) /\ d.id \in Schedule
    BY CopyTypes DEF Held, Armed
  <2> QED BY <2>1 DEF ArmedCopy, Exists
<1> QED BY <1>1 DEF Armed

LEMMA ArmedReschedule ==
  ASSUME TypeOK, TypeOK', Armed, NEW j \in Job, Reschedule(j)
  PROVE  Armed'
<1> DEFINE c == job[j].current
           s == c.id
           next == NextRun(c.row.cron, now)
<1>1. c # NoDue /\ c \in Copy /\ s \in Schedule /\ c.row.cron \in Cron /\ c \in Held(j)
  BY CopyTypes DEF Reschedule, Held
<1>2. \A i \in Job : Held(i)' \subseteq Held(i)
  BY RescheduleLeft DEF Held
<1>3. CASE schedules' = schedules
  BY <1>2, <1>3, ArmedKept DEF Armed, ArmedRow, Exists
<1>4. CASE schedules' # schedules
  <2>1. Exists(s) /\ c.row.cron.shape # "step"
    BY <1>4 DEF Reschedule
  <2>2. schedules' = [schedules EXCEPT ![s].nextRunAt = next, ![s].isActive = (next # Never)]
    BY <1>4 DEF Reschedule
  <2>3. Recurring(schedules[s].cron) => next # Never
    <3>1. SUFFICES ASSUME Recurring(schedules[s].cron) PROVE next # Never
      OBVIOUS
    <3>2. ArmedCopy(c)
      BY <1>1 DEF Armed
    <3>3. Recurring(c.row.cron)
      BY <2>1, <3>1, <3>2 DEF ArmedCopy
    <3>4. now \in Nat
      BY TypeParts DEF Time
    <3>5. NextCronRun(c.row.cron, now) \in Nat
      BY <1>1, <3>4, NextCronRunAhead
    <3> QED BY <3>3, <3>5, ScheduleAssumption DEF NextRun, Recurring
  <2>4. schedules[s] \in Row /\ schedules[s] # Unused
    BY <1>1, <2>1, ExistingRow DEF Exists
  <2>5. /\ schedules'[s].nextRunAt = next /\ schedules'[s].cron = schedules[s].cron
        /\ schedules'[s] \in Row
        /\ \A u \in Schedule : u # s => schedules'[u] = schedules[u]
    <3>1. DOMAIN schedules = Schedule
      BY DEF TypeOK
    <3>3. /\ schedules'[s].nextRunAt = next /\ schedules'[s].cron = schedules[s].cron
          /\ \A u \in Schedule : u # s => schedules'[u] = schedules[u]
      <4> HIDE DEF s, next
      <4> QED BY <1>1, <2>2, <2>4, <3>1 DEF Row
    <3>4. next = Never \/ next \in Nat
      BY <1>1, <2>1, TypeParts, NextRunAhead DEF Time
    <3>5. schedules'[s] \in Row
      <4> HIDE DEF s, next
      <4> QED BY <1>1, <2>2, <2>4, <3>1, <3>4 DEF Row
    <3> QED BY <3>3, <3>5
  <2>6. schedules'[s] # Unused /\ schedules'[s] # Removed
    BY <2>5, ScheduleAssumption
  <2> HIDE DEF s, next
  <2>7. \A u \in Schedule : ArmedRow(u)'
    BY <2>3, <2>5 DEF Armed, ArmedRow, Exists
  <2>8. \A u \in Schedule : /\ schedules'[u] = Unused <=> schedules[u] = Unused
                            /\ Exists(u)' => Exists(u) /\ schedules'[u].cron = schedules[u].cron
    BY <2>1, <2>4, <2>5, <2>6 DEF Exists
  <2> QED BY <1>2, <2>7, <2>8, ArmedKept
<1> QED BY <1>3, <1>4

LEMMA ArmedStep ==
  ASSUME TypeOK, TypeOK', TimesGiven, Armed, [Next]_vars
  PROVE  Armed'
<1>1. ASSUME NEW u \in Schedule, NEW body \in Bodies, Create(u, body) PROVE Armed'
  <2> DEFINE row == [cron |-> body.cron, nextRunAt |-> body.at, isActive |-> body.isActive]
  <2>1. row \in Row
    BY ScheduleAssumption DEF Row
  <2>2. Recurring(row.cron) => row.nextRunAt # Never
    BY DEF TimesGiven
  <2>3. Written(u, row, body.at) /\ job' = job /\ schedules[u] = Unused
    BY <1>1 DEF Create
  <2> HIDE DEF row
  <2> QED BY <2>1, <2>2, <2>3, ArmedWritten
<1>2. ASSUME NEW u \in Schedule, NEW patch \in Patches, Update(u, patch) PROVE Armed'
  <2> DEFINE old == schedules[u]
             row == [cron |-> IF patch.cron = Same THEN old.cron ELSE patch.cron,
                     nextRunAt |-> IF patch.at = Same THEN old.nextRunAt ELSE patch.at,
                     isActive |-> IF patch.isActive = Same THEN old.isActive ELSE patch.isActive]
  <2>1. Exists(u) /\ Written(u, row, patch.at) /\ job' = job
    BY <1>2 DEF Update
  <2>2. old \in Row
    BY <2>1, ExistingRow
  <2>3. patch \in [cron : Cron \union {Same}, at : Nat \union {Same}, isActive : BOOLEAN \union {Same}]
    BY ScheduleAssumption
  <2>4. row \in Row
    <3> HIDE DEF old
    <3> QED BY <2>2, <2>3 DEF Row
  <2>5. Recurring(row.cron) => Recurring(old.cron)
    BY DEF TimesGiven
  <2>6. Recurring(row.cron) => row.nextRunAt # Never
    BY <2>1, <2>3, <2>5, ScheduleAssumption DEF Armed, ArmedRow
  <2> HIDE DEF row
  <2> QED BY <2>1, <2>4, <2>5, <2>6, ArmedWritten
<1>3. ASSUME NEW r \in Request, ToggleWrite(r) PROVE Armed'
  <2> DEFINE u == toggle[r].id
             on == ~toggle[r].isActive
             row == [schedules[u] EXCEPT !.isActive = on]
  <2>1. u \in Schedule /\ job' = job
    BY <1>3, TypeParts DEF ToggleWrite, Toggle
  <2>2. CASE Exists(u)
    <3>1. schedules[u] \in Row
      BY <2>1, <2>2, ExistingRow
    <3>2. row \in Row /\ row.nextRunAt = schedules[u].nextRunAt /\ row.cron = schedules[u].cron
      <4>1. on \in BOOLEAN
        OBVIOUS
      <4> HIDE DEF on, u
      <4> QED BY <3>1, <4>1 DEF Row
    <3>3. Written(u, row, Never)
      BY <1>3, <2>2 DEF ToggleWrite
    <3>4. Recurring(row.cron) => row.nextRunAt # Never
      <4> HIDE DEF row, u
      <4> QED BY <2>1, <2>2, <3>2 DEF Armed, ArmedRow
    <3> HIDE DEF row, u
    <3> QED BY <2>1, <2>2, <3>2, <3>3, <3>4, ArmedWritten
  <2>3. CASE ~Exists(u)
    BY <1>3, <2>3, ArmedKept DEF ToggleWrite, Armed, ArmedRow, Exists, Held
  <2> QED BY <2>2, <2>3
<1>4. ASSUME NEW u \in Schedule, Remove(u) PROVE Armed'
  <2>1. schedules'[u] = Removed /\ (\A s \in Schedule : s # u => schedules'[s] = schedules[s]) /\ job' = job
    BY <1>4 DEF Remove, TypeOK
  <2>2. ASSUME NEW j \in Job, NEW d \in Held(j)' PROVE ArmedCopy(d)'
    <3>1. d \in Held(j) /\ ArmedCopy(d) /\ d.id \in Schedule
      BY <2>1, CopyTypes DEF Held, Armed
    <3>2. CASE d.id # u
      BY <2>1, <3>1, <3>2 DEF ArmedCopy, Exists
    <3>3. CASE d.id = u
      BY <2>1, <3>3, ScheduleAssumption DEF ArmedCopy, Exists
    <3> QED BY <3>2, <3>3
  <2>3. \A s \in Schedule : ArmedRow(s)'
    BY <2>1 DEF Armed, ArmedRow, Exists
  <2> QED BY <2>2, <2>3 DEF Armed
<1>5. ASSUME NEW j \in Job, NEW d \in job[j].due, Remind(j, d) PROVE Armed'
  <2>1. schedules' = schedules
    BY <1>5 DEF Remind
  <2>2. \A i \in Job : Held(i)' \subseteq Held(i)
    BY <1>5, RemindLeft DEF Held
  <2> QED BY <2>1, <2>2, ArmedKept DEF Armed, ArmedRow, Exists
<1>6. ASSUME NEW j \in Job, NEW d \in job[j].due, RemindFails(j, d) PROVE Armed'
  <2> DEFINE b == [job[j] EXCEPT !.due = @ \ {d}]
  <2>1. job[j] \in Jobs /\ job \in [Job -> Jobs]
    BY TypeParts
  <2>2. b \in Jobs /\ b.due = job[j].due \ {d} /\ job' = [job EXCEPT ![j] = Rest(b)] /\ schedules' = schedules
    BY <1>6, <2>1 DEF RemindFails, Jobs
  <2>3. Rest(b).due = job[j].due \ {d} /\ Rest(b).current = NoDue
    <3> HIDE DEF b
    <3> QED BY <2>2, RestDue DEF Rest, IdleJob, Jobs
  <2> HIDE DEF b
  <2>4. /\ job'[j].due \subseteq job[j].due /\ job'[j].current = NoDue
        /\ \A i \in Job : i # j => job'[i] = job[i]
    BY <2>1, <2>2, <2>3
  <2>5. \A i \in Job : Held(i)' \subseteq Held(i)
    BY <2>4 DEF Held
  <2> QED BY <2>2, <2>5, ArmedKept DEF Armed, ArmedRow, Exists
<1>7. ASSUME NEW j \in Job, Reschedule(j) PROVE Armed'
  BY <1>7, ArmedReschedule
<1>8. ASSUME NEW j \in Job, Tick(j) PROVE Armed'
  <2>1. schedules' = schedules
    BY <1>8 DEF Tick
  <2>2. ASSUME NEW i \in Job, NEW d \in Held(i)' PROVE ArmedCopy(d)'
    <3>1. CASE d \in Held(i)
      BY <2>1, <3>1 DEF Armed, ArmedCopy, Exists
    <3>2. CASE d \notin Held(i)
      <4>1. DueNow # {} /\ i = j
        BY <1>8, <3>2, TickGives DEF Held
      <4>2. PICK s \in DueNow : d = [id |-> s, row |-> schedules[s]]
        BY <1>8, <4>1, TickGives DEF Held
      <4>3. Exists(s) /\ d.id = s /\ d.row = schedules[s]
        BY <4>2 DEF DueNow
      <4> QED BY <2>1, <4>3 DEF ArmedCopy, Exists
    <3> QED BY <3>1, <3>2
  <2> QED BY <2>1, <2>2 DEF Armed, ArmedRow, Exists
<1>9. CASE Crash
  <2>1. schedules' = schedules /\ \A j \in Job : Held(j)' = {}
    BY <1>9 DEF Crash, Held, IdleJob
  <2> QED BY <2>1 DEF Armed, ArmedRow, Exists
<1>10. ASSUME UNCHANGED <<schedules, job>> PROVE Armed'
  BY <1>10 DEF Armed, ArmedRow, ArmedCopy, Held, Exists
<1>11. CASE Advance \/ UNCHANGED vars \/ \E r \in Request, s \in Schedule : ToggleRead(r, s)
  BY <1>10, <1>11 DEF Advance, vars, ToggleRead
<1> QED BY <1>1, <1>2, <1>3, <1>4, <1>5, <1>6, <1>7, <1>8, <1>9, <1>11 DEF Next

\* RecurringIsArmed: with a time from the start, a schedule with a cron expression
\* always has a next run, with overlapping jobs, failures and crashes too
\* (schedule-runner.service.ts:185, schedules.service.ts:27).  Not so one made
\* recurring later: it may have no time by then, and a job that copied it before
\* would switch it off.
THEOREM RecurringIsArmedIfTimed ==
  ASSUME TimesGiven
  PROVE  Spec => []RecurringIsArmed
<1>1. Init => Armed
  BY DEF Init, Armed, ArmedRow, Held, Exists, IdleJob
<1>2. TypeOK /\ TypeOK' /\ Armed /\ [Next]_vars => Armed'
  BY ArmedStep
<1>3. Armed => RecurringIsArmed
  BY DEF Armed, ArmedRow, RecurringIsArmed, Recurring
<1> QED BY <1>1, <1>2, <1>3, TypeCorrect, PTL DEF Spec

=============================================================================
