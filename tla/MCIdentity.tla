---------------------------- MODULE MCIdentity ----------------------------
(* Small instances of Identity for TLC; the .cfg files pick the endpoints.  *)
EXTENDS Identity, TLC

CONSTANTS owner, alice, t1, r1, r2

Symmetry == Permutations(Request)

SessionOps == {"login", "refresh", "logout", "changePassword"}
AdmissionOps == {"signup", "login", "refresh", "approveUser", "rejectUser",
                 "deactivateUser", "activateUser"}
OneAtATimeOps == {"login", "refresh", "logout", "changePassword",
                  "signup", "approveUser", "rejectUser",
                  "deactivateUser", "activateUser"}
GrantOps == {"signup", "login", "approveUser", "rejectUser", "updateUserRole",
             "updateUserTeam", "removeTeam", "moveMember"}
=============================================================================
