---------------------------- MODULE TokenLedger ----------------------------
(***************************************************************************)
(* What the refresh-token table promises, whatever the handlers that write *)
(* it are doing: a token is granted at most once, only to an account an    *)
(* administrator has already decided on; once revoked it stays revoked;    *)
(* and a token obtained by rotation descends from an older token of the    *)
(* same account that is already revoked.  Identity implements this.        *)
(***************************************************************************)
EXTENDS Naturals

CONSTANTS User,      \* accounts
          MaxTime,   \* bound on the clock, in seconds of the model
          NoSession  \* the parent of a token granted by a login

\* A refresh token is sign({sub}) at some second, so it is named by the two.
Session == User \X (0 .. MaxTime)

VARIABLES ledger,   \* each token: "none" before it is granted, "live", "revoked"
          parent,   \* the token a rotation gave up for this one
          decided   \* the accounts that are no longer waiting for a decision

vars == <<ledger, parent, decided>>

Init == /\ ledger = [s \in Session |-> "none"]
        /\ parent = [s \in Session |-> NoSession]
        /\ decided \in SUBSET User

Decide(u) == /\ decided' = decided \union {u}
             /\ UNCHANGED <<ledger, parent>>

Grant(s, p) ==
  /\ ledger[s] = "none"
  /\ s[1] \in decided
  /\ p \in Session => /\ ledger[p] = "revoked"
                      /\ p[1] = s[1]
                      /\ p[2] < s[2]
  /\ ledger' = [ledger EXCEPT ![s] = "live"]
  /\ parent' = [parent EXCEPT ![s] = p]
  /\ UNCHANGED decided

Revoke(S) ==
  /\ \A s \in S : ledger[s] = "live"
  /\ ledger' = [s \in Session |-> IF s \in S THEN "revoked" ELSE ledger[s]]
  /\ UNCHANGED <<parent, decided>>

Next == \/ \E u \in User : Decide(u)
        \/ \E s \in Session, p \in Session \union {NoSession} : Grant(s, p)
        \/ \E S \in SUBSET Session : Revoke(S)

Spec == Init /\ [][Next]_vars
=============================================================================
