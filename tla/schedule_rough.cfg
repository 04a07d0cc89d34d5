CONSTANTS
  s1 = s1
  s2 = s2
  r1 = r1
  j1 = j1
  j2 = j2
  Never = Never
  Same = Same
  Star = Star
  Unused = Unused
  Removed = Removed
  NoToggle = NoToggle
  NoDue = NoDue
  Minute = 2
  MinutesPerHour = 2
  HoursPerDay = 2
  DaysPerWeek = 2
  DaysPerMonth = 4
  Schedule = {s1}
  Bodies <- RoughBodies
  Patches <- RoughPatches
  Request = {r1}
  Job = {j1, j2}
  MaxTime = 10
  MaxLate = 1
  MaxLag = 3
  Faulty = TRUE
SPECIFICATION Spec
INVARIANTS AtMostTwice
PROPERTY RearmsAhead
\* The clock stops at MaxTime.
CHECK_DEADLOCK FALSE
