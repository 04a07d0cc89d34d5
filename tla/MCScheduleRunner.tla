-------------------------- MODULE MCScheduleRunner --------------------------
(* Small instances of ScheduleRunner: four minutes a day, two days a week.     *)
EXTENDS ScheduleRunner

CONSTANTS s1, s2, r1, j1, j2

NoCron == [shape |-> "none", minute |-> Star, hour |-> Star, monthday |-> Star, weekday |-> Star]
DailyCron == [NoCron EXCEPT !.shape = "fields", !.minute = 1, !.hour = 0]
WeeklyCron == [DailyCron EXCEPT !.weekday = 0]
HourlyCron == [NoCron EXCEPT !.shape = "fields", !.minute = 1]
MonthlyCron == [DailyCron EXCEPT !.monthday = 1]
MalformedCron == [NoCron EXCEPT !.shape = "malformed"]
StepCron == [NoCron EXCEPT !.shape = "step"]

Armed(cron, at) == [cron |-> cron, at |-> at, isActive |-> TRUE]

\* On their cron (minute 1 of day 0), once, and with nothing but a cron.
CalmBodies == {Armed(DailyCron, 2), Armed(WeeklyCron, 2), Armed(NoCron, 3),
               Armed(DailyCron, Never)}
CalmPatches == {[cron |-> Same, at |-> 4, isActive |-> Same],
                [cron |-> NoCron, at |-> Same, isActive |-> TRUE]}
RoughBodies == {Armed(c, 2) : c \in {HourlyCron, MonthlyCron, MalformedCron, StepCron, NoCron}}
               \union {Armed(WeeklyCron, 3)}
RoughPatches == {[cron |-> WeeklyCron, at |-> Same, isActive |-> FALSE]}
=============================================================================
