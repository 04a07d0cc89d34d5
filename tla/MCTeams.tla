------------------------------ MODULE MCTeams ------------------------------
(* Small instances of Teams.                                                   *)
EXTENDS Teams, TLC

CONSTANTS olga, hugo, ann, t1, t2, s1, s2, r1, r2

\* As after prisma/seed.ts, an OWNER, and a HEAD and an ACTOR with it; the HEAD
\* leads the team it is in; the second team is there or still to come.
MCRoleOf == (olga :> "OWNER") @@ (hugo :> "HEAD") @@ (ann :> "ACTOR")
MCSeedLeaders == {(t1 :> hugo) @@ (t2 :> olga), (t1 :> hugo) @@ (t2 :> Absent)}
MCSeedMember == (olga :> NoTeam) @@ (hugo :> t1) @@ (ann :> t1)

Symmetry == Permutations({r1, r2}) \union Permutations({s1, s2})
=============================================================================
