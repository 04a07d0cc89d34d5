----------------------------- MODULE Attendance -----------------------------
(***************************************************************************)
(* AttendanceService: a user checks in and out, once a day each.  create   *)
(* looks for a record of today, inserts, and then tells the owners and the *)
(* leads of the user's team, one awaited call after another.  Nothing but  *)
(* the look keeps a second record out.                                     *)
(***************************************************************************)
EXTENDS Directory

CONSTANTS MaxDay  \* bound on the days that pass

AttendanceType == {"CHECK_IN", "CHECK_OUT"}

VARIABLES
  attendance,   \* the Attendance table: [id, user, type, day, by]
  today,
  checks,       \* what each request is doing
  leadsTold,    \* notices sent: [record, to]
  rowsMade

attendanceVars == <<attendance, today, checks, leadsTold, rowsMade>>

AttendanceInit ==
  /\ attendance = {} /\ today = 0 /\ leadsTold = {} /\ rowsMade = 0
  /\ checks = [r \in Request |-> NoRequest]

Busy(r) == checks[r] # NoRequest
TodayOf(u, type, start) ==
  {a \in attendance : a.user = u /\ a.type = type /\ a.day >= start}

\* The start of the day is taken, and the day's records are looked for.
\* Mutant: only a record of this very slot's day before is looked for.
CheckRead_Yesterday(r, u, type) ==
  /\ ~Busy(r)
  /\ {a \in attendance : a.user = u /\ a.type = type /\ a.day < today} = {}
  /\ checks' = [checks EXCEPT ![r] =
       [pc |-> "insert", user |-> u, type |-> type, start |-> today, record |-> 0, todo |-> {}]]
  /\ UNCHANGED <<attendance, today, leadsTold, rowsMade>>
CheckRead(r, u, type) ==
  /\ ~Busy(r)
  /\ TodayOf(u, type, today) = {}
  /\ checks' = [checks EXCEPT ![r] =
       [pc |-> "insert", user |-> u, type |-> type, start |-> today, record |-> 0, todo |-> {}]]
  /\ UNCHANGED <<attendance, today, leadsTold, rowsMade>>

CheckInsert(r) ==
  /\ Busy(r) /\ checks[r].pc = "insert" /\ rowsMade < MaxRows
  /\ rowsMade' = rowsMade + 1
  /\ attendance' = attendance \union
       {[id |-> rowsMade', user |-> checks[r].user, type |-> checks[r].type, day |-> today, by |-> r]}
  /\ checks' = [checks EXCEPT ![r].pc = "targets", ![r].record = rowsMade']
  /\ UNCHANGED <<today, leadsTold>>

\* sendAttendanceNotification: every OWNER, and who leads in the user's team.
NotifyTargets(u) ==
  {v \in User \ {u} : \/ RoleOf[v] = "OWNER"
                      \/ TeamOf[u] # NoTeam /\ TeamOf[v] = TeamOf[u] /\ RoleOf[v] \in {"LEAD", "HEAD"}}

CheckTargets(r) ==
  /\ Busy(r) /\ checks[r].pc = "targets"
  /\ checks' = [checks EXCEPT ![r].pc = "notify", ![r].todo = NotifyTargets(checks[r].user)]
  /\ UNCHANGED <<attendance, today, leadsTold, rowsMade>>

CheckNotify(r, v) ==
  /\ Busy(r) /\ v \in checks[r].todo
  /\ leadsTold' = leadsTold \union {[record |-> checks[r].record, to |-> v]}
  /\ checks' = [checks EXCEPT ![r].todo = @ \ {v}]
  /\ UNCHANGED <<attendance, today, rowsMade>>

\* Mutant: the slot is not given back.
CheckEnd_Lingers(r) ==
  /\ Busy(r) /\ checks[r].pc = "notify" /\ checks[r].todo = {}
  /\ checks' = [checks EXCEPT ![r].pc = "done"]
  /\ UNCHANGED <<attendance, today, leadsTold, rowsMade>>
CheckEnd(r) ==
  /\ Busy(r) /\ checks[r].pc = "notify" /\ checks[r].todo = {}
  /\ checks' = [checks EXCEPT ![r] = NoRequest]
  /\ UNCHANGED <<attendance, today, leadsTold, rowsMade>>

Midnight ==
  /\ today < MaxDay /\ today' = today + 1
  /\ UNCHANGED <<attendance, checks, leadsTold, rowsMade>>

AttendanceNext ==
  \/ \E r \in Request : \/ \E u \in User, type \in AttendanceType : CheckRead(r, u, type)
                        \/ CheckInsert(r) \/ CheckTargets(r) \/ CheckEnd(r)
                        \/ \E v \in User : CheckNotify(r, v)
  \/ Midnight

AttendanceSpec == AttendanceInit /\ [][AttendanceNext]_attendanceVars

-----------------------------------------------------------------------------
AttendanceRow == [id : Nat, user : User, type : AttendanceType, day : Nat, by : Request]
Check == [pc : {"insert", "targets", "notify"}, user : User, type : AttendanceType,
          start : Nat, record : Nat, todo : SUBSET User]

\* The variables have their types (all of the module).
AttendanceTypeOK ==
  /\ attendance \in SUBSET AttendanceRow
  /\ today \in Nat /\ rowsMade \in Nat
  /\ checks \in [Request -> Check \union {NoRequest}]
  /\ leadsTold \in SUBSET [record : Nat, to : User]

\* getTodayStatus: everything since midnight; findAll: from a midnight to the next,
\* of a team if one is named.
TodayStatus(u, type) == TodayOf(u, type, today) # {}
AttendanceListed(day, team) ==
  {a \in attendance : a.day >= day /\ a.day < day + 1 /\ (team # NoTeam => TeamOf[a.user] = team)}

\* A user has several records of one type on one day only from requests that
\* were in flight together, never two of one slot; and what users read of their
\* own day is what managers read of it (attendance.service.ts:25-43, 132-140,
\* 164-173).
AttendancePerSlot ==
  /\ \A a, b \in attendance :
       a.user = b.user /\ a.type = b.type /\ a.day = b.day /\ a.by = b.by => a = b
  /\ \A u \in User, type \in AttendanceType :
       TodayStatus(u, type) <=> \E a \in AttendanceListed(today, TeamOf[u]) : a.user = u /\ a.type = type
=============================================================================
