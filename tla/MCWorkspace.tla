---------------------------- MODULE MCWorkspace ----------------------------
(* Small instances of Workspace.                                               *)
EXTENDS Workspace, TLC

CONSTANTS olga, hugo, ann, t1, t2, k1, k2, r1, r2, d1, d2, x1, e1, e2, s1, s2, b1

\* An OWNER without a team, and a LEAD and an ACTOR of one; t2 has no members.
MCRoleOf == (olga :> "OWNER") @@ (hugo :> "LEAD") @@ (ann :> "ACTOR")
MCTeamOf == (olga :> NoTeam) @@ (hugo :> t1) @@ (ann :> t1)
\* One task of the lead, one of the owner in another team.
MCSeedThreads == (k1 :> [creator |-> hugo, assignee |-> NoUser, team |-> t1])
                   @@ (k2 :> [creator |-> olga, assignee |-> ann, team |-> t2])
MCAccount == {<<ann, "GITHUB">>, <<hugo, "SLACK">>}

Symmetry == Permutations({r1, r2}) \union Permutations({d1, d2})
=============================================================================
