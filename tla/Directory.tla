----------------------------- MODULE Directory -----------------------------
(* The users and teams the smaller services look at, with roles and            *)
(* memberships fixed (Identity and Teams change them), the requests in flight, *)
(* and numbers for the ids of new rows.                                        *)
EXTENDS Roles, FiniteSets

CONSTANTS
  User, NoUser,   \* NoUser: a null assignee
  RoleOf,
  Team, NoTeam,   \* NoTeam: a null teamId
  TeamOf,
  Task,           \* ids, a uuid being used once
  Request,        \* requests in flight
  NoRequest,      \* in place of what a free slot would hold
  Sample,         \* the users the larger tables range over
  MaxRows,        \* bound on the rows a table ever gets
  Absent, Gone    \* in place of a row: none with this id yet, or no longer

ASSUME DirectoryAssumption ==
  /\ RoleOf \in [User -> Role]
  /\ NoUser \notin User
  /\ NoTeam \notin Team /\ TeamOf \in [User -> Team \union {NoTeam}]
  /\ Absent # Gone /\ {Absent, Gone} \intersect User = {}
  /\ Sample \subseteq User /\ MaxRows \in Nat

\* What JwtStrategy attaches to a request of u.
RequestUser == [id : User, role : Role, team : Team \union {NoTeam}]
Viewer(u) == [id |-> u, role |-> RoleOf[u], team |-> TeamOf[u]]
=============================================================================
