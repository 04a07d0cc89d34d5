CONSTANTS
  s1 = s1
  s2 = s2
  r1 = r1
  j1 = j1
  j2 = j2
  Never = Never
  Same = Same
  Star = Star
  Unused = Unused
  Removed = Removed
  NoToggle = NoToggle
  NoDue = NoDue
  Minute = 2
  MinutesPerHour = 2
  HoursPerDay = 2
  DaysPerWeek = 2
  DaysPerMonth = 4
  Schedule = {s1, s2}
  Bodies <- CalmBodies
  Patches <- CalmPatches
  Request = {r1}
  Job = {j1}
  MaxTime = 12
  MaxLate = 0
  MaxLag = 1
  Faulty = FALSE
SPECIFICATION Spec
INVARIANTS TypeOK AtMostOnce NeverStuck
PROPERTY CronKeepsPace
\* The clock stops at MaxTime.
CHECK_DEADLOCK FALSE
