------------------------------- MODULE Roles -------------------------------
(* common/constants/roles.ts and the guard that uses it.                       *)
EXTENDS Naturals

Role == {"OWNER", "TEAM_LEAD", "HEAD", "LEAD", "ACTOR"}
RoleHierarchy == [OWNER |-> 5, TEAM_LEAD |-> 4, HEAD |-> 3, LEAD |-> 2, ACTOR |-> 1]
HasHigherOrEqualRole(role, required) == RoleHierarchy[role] >= RoleHierarchy[required]
CanAccessAllTeams(role) == role \in {"OWNER", "TEAM_LEAD"}

\* RolesGuard: a listed role, or any above one.
RolesGuard(required, role) ==
  required = {} \/ \E r \in required : HasHigherOrEqualRole(role, r)
=============================================================================
