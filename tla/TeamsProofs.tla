---------------------------- MODULE TeamsProofs ----------------------------
(***************************************************************************)
(* Teams, for any users, teams, shares, requests and roles.  What a        *)
(* request learned from a read still holds at its write but for what       *)
(* happened since, and that is what the model notes in `since`: who came   *)
(* into the team or to lead it.  A share is inserted by a slot that found  *)
(* none of the pair, and no other slot adds rows of that slot's.           *)
(***************************************************************************)
EXTENDS Teams, TLAPS

MemberOps == {"addMember", "removeMember", "transferMember"}
TeamOps == {"update", "remove", "addMember", "removeMember", "transferMember", "createShare"}

\* The arguments a request of each operation has, and the steps it goes through.
WellFormed(q) ==
  /\ q.op \in TeamOps => q.team \in Team
  /\ q.op = "update" \/ q.op \in MemberOps => q.user \in User
  /\ q.op \in {"transferMember", "createShare"} => q.to \in Team
  /\ q.op \in {"updateShare", "removeShare"} => q.pc \in {"share", "write"}
  /\ q.pc = "team" => q.op \in TeamOps
  /\ q.pc \in {"user", "notify"} => q.op \in MemberOps
  /\ q.pc = "to" => q.op \in {"transferMember", "createShare"}
  /\ q.pc = "find" => q.op = "createShare"
  /\ q.pc = "share" => q.op \in {"updateShare", "removeShare"}
  /\ q.pc = "write" => q.op # "idle"

\* What a request past its team's read knows.
Learned(r) ==
  LET q == slot[r]
  IN q.pc # "team" =>
       /\ q.op \in TeamOps => leader[q.team] # Absent
       /\ q.op = "remove" => Members(q.team) \subseteq q.since
       /\ q.op \in {"removeMember", "transferMember"} /\ leader[q.team] = q.user => q.user \in q.since

NoneYet(r) ==
  Writing(r, "createShare") =>
    \A s \in shares : s.by = r /\ s.from = slot[r].team => s.to # slot[r].to

Pairs ==
  \A s1, s2 \in shares : s1.from = s2.from /\ s1.to = s2.to /\ s1.by = s2.by => s1 = s2
Standing == \A s \in shares : Exists(s.from) /\ Exists(s.to)

Knows == \A r \in Request : WellFormed(slot[r]) /\ Learned(r) /\ NoneYet(r)
IInv == TypeOK /\ Knows /\ Pairs /\ Standing

\* The step after the read of the team.
LEMMA AfterTeamSteps ==
  /\ \A op \in {"update", "remove"} : AfterTeam[op] = "write"
  /\ \A op \in {"addMember", "removeMember"} : AfterTeam[op] = "user"
  /\ \A op \in {"transferMember", "createShare"} : AfterTeam[op] = "to"
<1>1. AfterTeam.update = "write" /\ AfterTeam.remove = "write"
  BY DEF AfterTeam
<1>2. AfterTeam.addMember = "user" /\ AfterTeam.removeMember = "user"
  BY DEF AfterTeam
<1>3. AfterTeam.transferMember = "to" /\ AfterTeam.createShare = "to"
  BY DEF AfterTeam
<1> QED BY <1>1, <1>2, <1>3

LEMMA OpsAre == Ops = {"idle", "update", "remove", "transferMember", "addMember", "removeMember",
                       "createShare", "updateShare", "removeShare"}
  BY DEF Ops, OwnerOnly, OwnerOrHead

\* An idle slot.
LEMMA IdleIs == Idle \in Handle /\ WellFormed(Idle) /\ Idle.op = "idle" /\ Idle.pc = "idle"
<1>1. Idle.op = "idle" /\ Idle.pc = "idle"
  BY DEF Idle
<1>2. Idle \in Handle
  BY OpsAre DEF Idle, Handle, Kinds
<1> QED BY <1>1, <1>2 DEF WellFormed, MemberOps, TeamOps

\* What a request enters with: arguments of its operation, and nothing read yet.
LEMMA EntersWith ==
  ASSUME NEW r \in Request, NEW by \in User, Enters(r, by)
  PROVE  \E q \in Handle : Enter(r, by, q) /\ WellFormed(q) /\ q.pc \in {"team", "share"}
<1> USE DEF Handle, WellFormed, MemberOps, TeamOps, OnTeam, Idle, Kinds
<1>1. ASSUME NEW t \in Team, Enter(r, by, OnTeam("remove", t))
      PROVE  \E q \in Handle : Enter(r, by, q) /\ WellFormed(q) /\ q.pc \in {"team", "share"}
  <2> DEFINE q == OnTeam("remove", t)
  <2>1. q \in Handle /\ WellFormed(q) /\ q.pc = "team"
    BY OpsAre
  <2> HIDE DEF q
  <2> QED BY <1>1, <2>1 DEF q
<1>2. ASSUME NEW t \in Team, NEW op \in {"update", "addMember", "removeMember"}, NEW u \in User,
             Enter(r, by, [OnTeam(op, t) EXCEPT !.user = u])
      PROVE  \E q \in Handle : Enter(r, by, q) /\ WellFormed(q) /\ q.pc \in {"team", "share"}
  <2> DEFINE q == [OnTeam(op, t) EXCEPT !.user = u]
  <2>1. q \in Handle /\ WellFormed(q) /\ q.pc = "team"
    BY OpsAre
  <2> QED BY <1>2, <2>1
<1>3. ASSUME NEW t \in Team, NEW to \in Team, NEW u \in User,
             Enter(r, by, [OnTeam("transferMember", t) EXCEPT !.to = to, !.user = u])
      PROVE  \E q \in Handle : Enter(r, by, q) /\ WellFormed(q) /\ q.pc \in {"team", "share"}
  <2> DEFINE q == [OnTeam("transferMember", t) EXCEPT !.to = to, !.user = u]
  <2>1. q \in Handle /\ WellFormed(q) /\ q.pc = "team"
    BY OpsAre
  <2> QED BY <1>3, <2>1
<1>4. ASSUME NEW t \in Team, NEW to \in Team, NEW kinds \in Kinds,
             Enter(r, by, [OnTeam("createShare", t) EXCEPT !.to = to, !.kinds = kinds])
      PROVE  \E q \in Handle : Enter(r, by, q) /\ WellFormed(q) /\ q.pc \in {"team", "share"}
  <2> DEFINE q == [OnTeam("createShare", t) EXCEPT !.to = to, !.kinds = kinds]
  <2>1. q \in Handle /\ WellFormed(q) /\ q.pc = "team"
    BY OpsAre
  <2> QED BY <1>4, <2>1
<1>5. ASSUME NEW s \in Share, NEW kinds \in Kinds,
             Enter(r, by, [Idle EXCEPT !.op = "updateShare", !.pc = "share", !.share = s, !.kinds = kinds])
      PROVE  \E q \in Handle : Enter(r, by, q) /\ WellFormed(q) /\ q.pc \in {"team", "share"}
  <2> DEFINE q == [Idle EXCEPT !.op = "updateShare", !.pc = "share", !.share = s, !.kinds = kinds]
  <2>1. q \in Handle /\ WellFormed(q) /\ q.pc = "share"
    BY OpsAre
  <2> QED BY <1>5, <2>1
<1>6. ASSUME NEW s \in Share,
             Enter(r, by, [Idle EXCEPT !.op = "removeShare", !.pc = "share", !.share = s])
      PROVE  \E q \in Handle : Enter(r, by, q) /\ WellFormed(q) /\ q.pc \in {"team", "share"}
  <2> DEFINE q == [Idle EXCEPT !.op = "removeShare", !.pc = "share", !.share = s]
  <2>1. q \in Handle /\ WellFormed(q) /\ q.pc = "share"
    BY OpsAre
  <2> QED BY <1>6, <2>1
<1> QED BY <1>1, <1>2, <1>3, <1>4, <1>5, <1>6 DEF Enters

\* What Missed leaves in the slots: the one it replaces, and the ones it notes in.
LEMMA MissedSlots ==
  ASSUME TypeOK, NEW t \in Team \union {NoTeam}, NEW u \in User,
         NEW r \in Request, NEW next \in Handle, Missed(t, u, Only(r, next))
  PROVE  /\ slot' \in [Request -> Handle]
         /\ slot'[r] = next
         /\ \A q \in Request \ {r} :
              slot'[q] = IF t # NoTeam /\ slot[q].team = t /\ slot[q].pc # "team"
                         THEN [slot[q] EXCEPT !.since = slot[q].since \union {u}] ELSE slot[q]
<1>1. \A q \in Request : slot[q] \in Handle
  BY DEF TypeOK
<1>2. \A q \in Request : [slot[q] EXCEPT !.since = slot[q].since \union {u}] \in Handle
  BY <1>1 DEF Handle
<1>3. slot' = [q \in Request |->
         IF q \in {r} THEN Only(r, next)[q]
         ELSE IF t # NoTeam /\ slot[q].team = t /\ slot[q].pc # "team"
              THEN [slot[q] EXCEPT !.since = slot[q].since \union {u}] ELSE slot[q]]
  BY DEF Missed, Only
<1>4. Only(r, next)[r] = next
  BY DEF Only
<1> QED BY <1>1, <1>2, <1>3, <1>4

LEMMA MissedByAll ==
  ASSUME TypeOK, NEW t \in Team \union {NoTeam}, NEW u \in User, Missed(t, u, <<>>)
  PROVE  /\ slot' \in [Request -> Handle]
         /\ \A q \in Request :
              slot'[q] = IF t # NoTeam /\ slot[q].team = t /\ slot[q].pc # "team"
                         THEN [slot[q] EXCEPT !.since = slot[q].since \union {u}] ELSE slot[q]
<1>1. \A q \in Request : slot[q] \in Handle
  BY DEF TypeOK
<1>2. \A q \in Request : [slot[q] EXCEPT !.since = slot[q].since \union {u}] \in Handle
  BY <1>1 DEF Handle
<1>3. DOMAIN <<>> = {}
  OBVIOUS
<1>4. slot' = [q \in Request |->
         IF t # NoTeam /\ slot[q].team = t /\ slot[q].pc # "team"
         THEN [slot[q] EXCEPT !.since = slot[q].since \union {u}] ELSE slot[q]]
  BY <1>3 DEF Missed
<1> QED BY <1>1, <1>2, <1>4

\* Where a member operation puts its user.
LEMMA TargetIs ==
  ASSUME NEW q \in Handle, WellFormed(q), q.op \in MemberOps
  PROVE  /\ Target(q) \in Team \union {NoTeam}
         /\ q.op = "addMember" => Target(q) = q.team
  BY DEF Target, WellFormed, MemberOps, TeamOps

\* A read's step forward.
LEMMA GoKeepsShape ==
  ASSUME TypeOK, NEW r \in Request,
         NEW pc \in {"to", "user", "find", "write"}, Go(r, pc)
  PROVE  /\ slot' \in [Request -> Handle]
         /\ slot'[r] = [slot[r] EXCEPT !.pc = pc]
         /\ \A q \in Request \ {r} : slot'[q] = slot[q]
<1>1. slot[r] \in Handle
  BY DEF TypeOK
<1>2. [slot[r] EXCEPT !.pc = pc] \in Handle
  BY <1>1 DEF Handle
<1>3. slot' = [slot EXCEPT ![r] = [slot[r] EXCEPT !.pc = pc]]
  BY DEF Go
<1> QED BY <1>2, <1>3 DEF TypeOK

LEMMA FinishIdles ==
  ASSUME TypeOK, NEW r \in Request, Finish(r)
  PROVE  /\ slot' \in [Request -> Handle] /\ slot'[r] = Idle
         /\ \A q \in Request \ {r} : slot'[q] = slot[q]
  BY IdleIs DEF TypeOK, Finish

\* A slot keeps what it knows in a step of another that notes in it whatever it
\* missed, and inserts no share of its own.
LEMMA OthersKeep ==
  ASSUME TypeOK, NEW q \in Request, WellFormed(slot[q]), Learned(q), NoneYet(q),
         NEW noted \in SUBSET User,
         slot'[q] = slot[q] \/ slot'[q] = [slot[q] EXCEPT !.since = slot[q].since \union noted],
         \A t \in Team : leader[t] # Absent => leader'[t] # Absent,
         slot[q].op \in TeamOps /\ slot[q].pc # "team" =>
           /\ leader'[slot[q].team] # leader[slot[q].team] =>
                leader'[slot[q].team] \notin User \/ leader'[slot[q].team] \in slot'[q].since
           /\ Members(slot[q].team)' \subseteq Members(slot[q].team) \union slot'[q].since,
         \A s \in shares' : s.by = q => \E z \in shares : z.by = q /\ z.from = s.from /\ z.to = s.to
  PROVE  WellFormed(slot[q])' /\ Learned(q)' /\ NoneYet(q)'
<1>1. slot[q] \in Handle
  BY DEF TypeOK
<1>2. /\ slot'[q].op = slot[q].op /\ slot'[q].pc = slot[q].pc /\ slot'[q].team = slot[q].team
      /\ slot'[q].to = slot[q].to /\ slot'[q].user = slot[q].user
      /\ slot[q].since \subseteq slot'[q].since
  BY <1>1 DEF Handle
<1>3. WellFormed(slot[q])'
  BY <1>2 DEF WellFormed
<1>4. Learned(q)'
  <2> SUFFICES ASSUME slot[q].pc # "team" PROVE Learned(q)'
    BY <1>2 DEF Learned
  <2>1. slot[q].op \in TeamOps => slot[q].team \in Team
    BY DEF WellFormed
  <2>2. slot[q].op \in {"removeMember", "transferMember"} => slot[q].user \in User
    BY DEF WellFormed, MemberOps
  <2>3. slot[q].op \in TeamOps => leader'[slot[q].team] # Absent
    BY <2>1 DEF Learned
  <2>4. slot[q].op = "remove" => Members(slot[q].team)' \subseteq slot'[q].since
    BY <1>2 DEF Learned, TeamOps
  <2>5. slot[q].op \in {"removeMember", "transferMember"} /\ leader'[slot[q].team] = slot[q].user
          => slot[q].user \in slot'[q].since
    BY <1>2, <2>2 DEF Learned, TeamOps
  <2> QED BY <1>2, <2>3, <2>4, <2>5 DEF Learned
<1>5. NoneYet(q)'
  BY <1>2 DEF NoneYet, Writing
<1> QED BY <1>3, <1>4, <1>5

\* An idle slot knows nothing.
LEMMA IdleKnows ==
  ASSUME NEW r \in Request, slot'[r] = Idle
  PROVE  WellFormed(slot[r])' /\ Learned(r)' /\ NoneYet(r)'
<1>1. slot'[r].op = "idle" /\ slot'[r].pc = "idle"
  BY IdleIs
<1>2. WellFormed(slot[r])'
  BY <1>1 DEF WellFormed, TeamOps, MemberOps
<1>3. Learned(r)'
  BY <1>1 DEF Learned, TeamOps
<1>4. NoneYet(r)'
  BY <1>1 DEF NoneYet, Writing
<1> QED BY <1>2, <1>3, <1>4

\* The steps that only read: every slot but the reader's stays, and the reader
\* knows what it read.
LEMMA ReadStep ==
  ASSUME IInv, NEW r \in Request,
         ReadTeam(r) \/ ReadTo(r) \/ ReadUser(r) \/ FindShare(r) \/ ReadShare(r)
  PROVE  IInv'
<1>0. /\ TypeOK /\ slot[r] \in Handle /\ WellFormed(slot[r]) /\ Learned(r) /\ NoneYet(r)
      /\ Pairs /\ Standing
  BY DEF IInv, TypeOK, Knows
<1>1. UNCHANGED <<leader, member, shares, used, told, made, unsettled>>
  BY DEF ReadTeam, ReadTo, ReadUser, FindShare, ReadShare, Reading
<1>2. Pairs' /\ Standing'
  BY <1>0, <1>1 DEF Pairs, Standing, Exists
<1>3. ASSUME slot' \in [Request -> Handle],
             \A q \in Request \ {r} : slot'[q] = slot[q],
             WellFormed(slot[r])' /\ Learned(r)' /\ NoneYet(r)'
      PROVE  IInv'
  <2>1. TypeOK'
    BY <1>0, <1>1, <1>3 DEF TypeOK
  <2>2. ASSUME NEW q \in Request \ {r}
        PROVE  WellFormed(slot[q])' /\ Learned(q)' /\ NoneYet(q)'
    <3>1. WellFormed(slot[q]) /\ Learned(q) /\ NoneYet(q) /\ slot'[q] = slot[q]
      BY <1>3 DEF IInv, Knows
    <3> QED BY <1>1, <3>1 DEF WellFormed, Learned, NoneYet, Writing, Members
  <2> QED BY <1>2, <1>3, <2>1, <2>2 DEF IInv, Knows
<1>4. CASE Finish(r)
  BY <1>0, <1>3, <1>4, FinishIdles, IdleKnows
<1>5. ASSUME NEW pc \in {"to", "user", "find", "write"}, Go(r, pc),
             WellFormed([slot[r] EXCEPT !.pc = pc]),
             slot[r].pc # "team" \/ TeamAllows(r),
             pc = "write" /\ slot[r].op = "createShare" => SharesOf(slot[r].team, slot[r].to) = {}
      PROVE  IInv'
  <2>1. slot'[r] = [slot[r] EXCEPT !.pc = pc]
    BY <1>0, <1>5, GoKeepsShape
  <2>2. /\ slot'[r].op = slot[r].op /\ slot'[r].pc = pc /\ slot'[r].team = slot[r].team
        /\ slot'[r].to = slot[r].to /\ slot'[r].user = slot[r].user /\ slot'[r].since = slot[r].since
    BY <1>0, <2>1 DEF Handle
  <2>3. WellFormed(slot[r])'
    BY <1>5, <2>1
  <2>4. Learned(r)'
    <3>1. CASE slot[r].pc # "team"
      BY <1>0, <1>1, <2>2, <3>1 DEF Learned, Members
    <3>2. CASE TeamAllows(r)
      BY <1>1, <2>2, <3>2 DEF Learned, Members, TeamAllows, Exists
    <3> QED BY <1>5, <3>1, <3>2
  <2>5. NoneYet(r)'
    BY <1>1, <1>5, <2>2 DEF NoneYet, Writing, SharesOf
  <2> QED BY <1>0, <1>3, <1>5, <2>3, <2>4, <2>5, GoKeepsShape
<1>6. ASSUME NEW pc \in {"to", "user", "find", "write"}
      PROVE  LET q == [slot[r] EXCEPT !.pc = pc]
             IN q.op = slot[r].op /\ q.pc = pc /\ q.team = slot[r].team /\ q.to = slot[r].to
                /\ q.user = slot[r].user
  BY <1>0 DEF Handle
<1>7. CASE ReadTeam(r) /\ ~Finish(r)
  <2>1. TeamAllows(r) /\ Go(r, AfterTeam[slot[r].op]) /\ slot[r].pc = "team" /\ slot[r].op \in TeamOps
    BY <1>0, <1>7 DEF ReadTeam, WellFormed
  <2>2. /\ slot[r].op \in {"update", "remove"} => AfterTeam[slot[r].op] = "write"
        /\ slot[r].op \in {"addMember", "removeMember"} => AfterTeam[slot[r].op] = "user"
        /\ slot[r].op \in {"transferMember", "createShare"} => AfterTeam[slot[r].op] = "to"
    BY AfterTeamSteps
  <2>3. AfterTeam[slot[r].op] \in {"to", "user", "find", "write"}
    BY <2>1, <2>2 DEF TeamOps
  <2>4. WellFormed([slot[r] EXCEPT !.pc = AfterTeam[slot[r].op]])
    BY <1>0, <1>6, <2>1, <2>2, <2>3 DEF WellFormed, TeamOps, MemberOps
  <2> QED BY <1>5, <2>1, <2>2, <2>3, <2>4
<1>8. CASE ReadTo(r) /\ ~Finish(r)
  <2>1. CASE slot[r].op = "createShare"
    <3>1. Go(r, "find") /\ slot[r].pc = "to"
      BY <1>8, <2>1 DEF ReadTo
    <3>2. WellFormed([slot[r] EXCEPT !.pc = "find"])
      BY <1>0, <1>6, <2>1, <3>1 DEF WellFormed, TeamOps, MemberOps
    <3> QED BY <1>5, <3>1, <3>2
  <2>2. CASE slot[r].op # "createShare"
    <3>1. Go(r, "user") /\ slot[r].pc = "to"
      BY <1>8, <2>2 DEF ReadTo
    <3>2. WellFormed([slot[r] EXCEPT !.pc = "user"])
      BY <1>0, <1>6, <2>2, <3>1 DEF WellFormed, TeamOps, MemberOps
    <3> QED BY <1>5, <3>1, <3>2
  <2> QED BY <2>1, <2>2
<1>9. CASE ReadUser(r) /\ ~Finish(r)
  <2>1. Go(r, "write") /\ slot[r].pc = "user"
    BY <1>9 DEF ReadUser
  <2>2. WellFormed([slot[r] EXCEPT !.pc = "write"]) /\ slot[r].op # "createShare"
    BY <1>0, <1>6, <2>1 DEF WellFormed, TeamOps, MemberOps
  <2> QED BY <1>5, <2>1, <2>2
<1>10. CASE FindShare(r) /\ ~Finish(r)
  <2>1. Go(r, "write") /\ slot[r].pc = "find" /\ SharesOf(slot[r].team, slot[r].to) = {}
    BY <1>10 DEF FindShare
  <2>2. WellFormed([slot[r] EXCEPT !.pc = "write"])
    BY <1>0, <1>6, <2>1 DEF WellFormed, TeamOps, MemberOps
  <2> QED BY <1>5, <2>1, <2>2
<1>11. CASE ReadShare(r) /\ ~Finish(r)
  <2>1. Go(r, "write") /\ slot[r].pc = "share"
    BY <1>11 DEF ReadShare
  <2>2. WellFormed([slot[r] EXCEPT !.pc = "write"]) /\ slot[r].op # "createShare"
    BY <1>0, <1>6, <2>1 DEF WellFormed, TeamOps, MemberOps
  <2> QED BY <1>5, <2>1, <2>2
<1> QED BY <1>4, <1>7, <1>8, <1>9, <1>10, <1>11

\* The steps that enter, create a team or move somebody by the admin page.
LEMMA EnterStep ==
  ASSUME IInv, NEW r \in Request, NEW by \in User, Enters(r, by)
  PROVE  IInv'
<1>0. TypeOK /\ Knows /\ Pairs /\ Standing
  BY DEF IInv
<1>1. PICK q \in Handle : Enter(r, by, q) /\ WellFormed(q) /\ q.pc \in {"team", "share"}
  BY EntersWith
<1>2. /\ slot' = [slot EXCEPT ![r] = q]
      /\ UNCHANGED <<leader, member, shares, used, told>>
      /\ made' = made + 1
      /\ unsettled' \subseteq unsettled \union {q.user} /\ (unsettled' # unsettled => q.user # NoUser)
  BY <1>1 DEF Enter
<1>3. TypeOK'
  <2>1. unsettled' \in SUBSET User
    BY <1>0, <1>2 DEF TypeOK, Handle
  <2> QED BY <1>0, <1>2, <2>1 DEF TypeOK
<1>4. ASSUME NEW p \in Request
      PROVE  WellFormed(slot[p])' /\ Learned(p)' /\ NoneYet(p)'
  <2>1. CASE p = r
    <3>1. slot'[p] = q
      BY <1>0, <1>2, <2>1 DEF TypeOK
    <3>2. q.pc = "share" => q.op \notin TeamOps
      BY <1>1 DEF WellFormed, TeamOps
    <3> QED BY <1>1, <3>1, <3>2 DEF Learned, NoneYet, Writing, WellFormed, TeamOps
  <2>2. CASE p # r
    <3>1. slot'[p] = slot[p] /\ WellFormed(slot[p]) /\ Learned(p) /\ NoneYet(p)
      BY <1>0, <1>2, <2>2 DEF TypeOK, Knows
    <3> QED BY <1>2, <3>1 DEF WellFormed, Learned, NoneYet, Writing, Members
  <2> QED BY <2>1, <2>2
<1> QED BY <1>0, <1>2, <1>3, <1>4 DEF IInv, Knows, Pairs, Standing, Exists

LEMMA CreateStep ==
  ASSUME IInv, NEW by \in User, NEW t \in Team, Create(by, t)
  PROVE  IInv'
<1>0. TypeOK /\ Knows /\ Pairs /\ Standing /\ {Absent, Gone} \intersect User = {}
  BY TeamsAssumption DEF IInv
<1>1. /\ leader' = [leader EXCEPT ![t] = by] /\ leader[t] = Absent
      /\ UNCHANGED <<member, shares, used, slot, told, unsettled>> /\ made' = made + 1
  BY DEF Create
<1>2. TypeOK'
  BY <1>0, <1>1 DEF TypeOK
<1>3. \A x \in Team : leader'[x] = IF x = t THEN by ELSE leader[x]
  BY <1>0, <1>1 DEF TypeOK
<1>4. Standing'
  BY <1>0, <1>1, <1>3 DEF Standing, Exists, TypeOK, ShareRow
<1>5. ASSUME NEW q \in Request
      PROVE  WellFormed(slot[q])' /\ Learned(q)' /\ NoneYet(q)'
  <2>1. WellFormed(slot[q]) /\ Learned(q) /\ NoneYet(q)
    BY <1>0 DEF Knows
  <2>2. slot[q].op \in TeamOps /\ slot[q].pc # "team" => leader'[slot[q].team] = leader[slot[q].team]
    BY <1>1, <1>3, <2>1 DEF WellFormed, Learned
  <2>3. \A x \in Team : leader[x] # Absent => leader'[x] # Absent
    BY <1>0, <1>3
  <2>4. Members(slot[q].team)' = Members(slot[q].team)
    BY <1>1 DEF Members
  <2> QED BY <1>0, <1>1, <2>1, <2>2, <2>3, <2>4, OthersKeep
<1> QED BY <1>0, <1>1, <1>2, <1>4, <1>5 DEF IInv, Knows, Pairs

LEMMA AdminStep ==
  ASSUME IInv, NEW by \in User, NEW u \in User, NEW t \in Team \union {NoTeam}, AdminMove(by, u, t)
  PROVE  IInv'
<1>0. TypeOK /\ Knows /\ Pairs /\ Standing /\ NoTeam \notin Team
  BY TeamsAssumption DEF IInv
<1>1. /\ member' = [member EXCEPT ![u] = t] /\ Missed(t, u, <<>>)
      /\ UNCHANGED <<leader, shares, used, told>>
      /\ made' = made + 1 /\ unsettled' = unsettled \union {u}
  BY DEF AdminMove
<1>2. TypeOK'
  BY <1>0, <1>1, MissedByAll DEF TypeOK
<1>3. ASSUME NEW q \in Request
      PROVE  WellFormed(slot[q])' /\ Learned(q)' /\ NoneYet(q)'
  <2>1. WellFormed(slot[q]) /\ Learned(q) /\ NoneYet(q) /\ slot[q] \in Handle
    BY <1>0 DEF Knows, TypeOK
  <2>2. slot'[q] = IF t # NoTeam /\ slot[q].team = t /\ slot[q].pc # "team"
                   THEN [slot[q] EXCEPT !.since = slot[q].since \union {u}] ELSE slot[q]
    BY <1>0, <1>1, MissedByAll
  <2>3. slot'[q].team = slot[q].team
    BY <2>1, <2>2 DEF Handle
  <2>4. \A v \in User : member'[v] = IF v = u THEN t ELSE member[v]
    BY <1>0, <1>1 DEF TypeOK
  <2>5. slot[q].op \in TeamOps /\ slot[q].pc # "team" =>
          Members(slot[q].team)' \subseteq Members(slot[q].team) \union slot'[q].since
    <3>1. CASE slot[q].team = t
      <4>1. slot[q].op \in TeamOps /\ slot[q].pc # "team" => u \in slot'[q].since
        BY <1>0, <2>1, <2>2, <3>1 DEF WellFormed, Handle
      <4> QED BY <2>3, <2>4, <4>1 DEF Members
    <3>2. CASE slot[q].team # t
      BY <2>3, <2>4, <3>2 DEF Members
    <3> QED BY <3>1, <3>2
  <2>6. slot'[q] = slot[q] \/ slot'[q] = [slot[q] EXCEPT !.since = slot[q].since \union {u}]
    BY <2>2
  <2>7. {u} \in SUBSET User
    OBVIOUS
  <2>8. \A s \in shares' : s.by = q => \E z \in shares : z.by = q /\ z.from = s.from /\ z.to = s.to
    BY <1>1
  <2>9. leader' = leader
    BY <1>1
  <2> QED BY <1>0, <2>1, <2>5, <2>6, <2>7, <2>8, <2>9, OthersKeep
<1> QED BY <1>0, <1>1, <1>2, <1>3 DEF IInv, Knows, Pairs, Standing, Exists

\* The writes.  Where a write finds its rows gone it only ends the request.
LEMMA FinishStep ==
  ASSUME IInv, NEW r \in Request, Finish(r),
         UNCHANGED <<leader, member, used, made, unsettled>>, told' \in [User -> Team \union {NoTeam}],
         shares' \in SUBSET ShareRow,
         \A s \in shares' : \E z \in shares : z.by = s.by /\ z.from = s.from /\ z.to = s.to,
         Pairs'
  PROVE  IInv'
<1>0. TypeOK /\ Knows /\ Standing
  BY DEF IInv
<1>1. TypeOK'
  BY <1>0, FinishIdles DEF TypeOK
<1>2. ASSUME NEW q \in Request
      PROVE  WellFormed(slot[q])' /\ Learned(q)' /\ NoneYet(q)'
  <2>1. CASE q = r
    BY <1>0, <2>1, FinishIdles, IdleKnows
  <2>2. CASE q # r
    <3>1. slot'[q] = slot[q] /\ WellFormed(slot[q]) /\ Learned(q) /\ NoneYet(q)
      BY <1>0, <2>2, FinishIdles DEF Knows
    <3>2. Members(slot[q].team)' = Members(slot[q].team)
      BY <3>1 DEF Members
    <3> QED BY <1>0, <3>1, <3>2, OthersKeep
  <2> QED BY <2>1, <2>2
<1>3. Standing'
  BY <1>0 DEF Standing, Exists
<1> QED BY <1>1, <1>2, <1>3 DEF IInv, Knows

LEMMA UpdateStep ==
  ASSUME IInv, NEW r \in Request, WriteUpdate(r)
  PROVE  IInv'
<1>0. TypeOK /\ Knows /\ Pairs /\ Standing /\ {Absent, Gone} \intersect User = {} /\ NoTeam \notin Team
  BY TeamsAssumption DEF IInv
<1> DEFINE t == slot[r].team
           u == slot[r].user
<1>1. t \in Team /\ u \in User
  BY <1>0 DEF WriteUpdate, Writing, Knows, WellFormed, TeamOps
<1>2. UNCHANGED <<member, shares, used, told, made, unsettled>>
  BY DEF WriteUpdate
<1>3. CASE Finish(r) /\ UNCHANGED leader
  <2>1. told' \in [User -> Team \union {NoTeam}] /\ shares' \in SUBSET ShareRow /\ Pairs'
    BY <1>0, <1>2 DEF TypeOK, Pairs
  <2> QED BY <1>2, <1>3, <2>1, FinishStep
<1>4. CASE leader' = [leader EXCEPT ![t] = u] /\ Missed(t, u, Only(r, Idle)) /\ Exists(t)
  <2>1. /\ slot' \in [Request -> Handle] /\ slot'[r] = Idle
        /\ \A q \in Request \ {r} :
             slot'[q] = IF t # NoTeam /\ slot[q].team = t /\ slot[q].pc # "team"
                        THEN [slot[q] EXCEPT !.since = slot[q].since \union {u}] ELSE slot[q]
    <3>1. t \in Team \union {NoTeam}
      BY <1>1
    <3>2. Missed(t, u, Only(r, Idle))
      BY <1>4
    <3> HIDE DEF t, u
    <3> QED BY <1>0, <1>1, <3>1, <3>2, IdleIs, MissedSlots
  <2>2. \A x \in Team : leader'[x] = IF x = t THEN u ELSE leader[x]
    BY <1>0, <1>4 DEF TypeOK
  <2>3. TypeOK'
    BY <1>0, <1>1, <1>2, <1>4, <2>1 DEF TypeOK
  <2> HIDE DEF t, u
  <2>4. Standing'
    BY <1>0, <1>1, <1>2, <2>2 DEF Standing, Exists, TypeOK, ShareRow
  <2>5. ASSUME NEW q \in Request \ {r}
        PROVE  WellFormed(slot[q])' /\ Learned(q)' /\ NoneYet(q)'
    <3>1. WellFormed(slot[q]) /\ Learned(q) /\ NoneYet(q) /\ slot[q] \in Handle
      BY <1>0 DEF Knows, TypeOK
    <3>2. slot'[q] = slot[q] \/ slot'[q] = [slot[q] EXCEPT !.since = slot[q].since \union {u}]
      BY <2>1
    <3>3. slot'[q].team = slot[q].team
      BY <3>1, <3>2 DEF Handle
    <3>4. Members(slot[q].team)' = Members(slot[q].team)
      BY <1>2, <3>3 DEF Members
    <3>5. \A x \in Team : leader[x] # Absent => leader'[x] # Absent
      BY <1>0, <1>1, <2>2
    <3>6. slot[q].op \in TeamOps /\ slot[q].pc # "team" /\ leader'[slot[q].team] # leader[slot[q].team]
            => leader'[slot[q].team] \in slot'[q].since
      <4>1. CASE slot[q].team = t
        <5>1. slot[q].pc # "team" => u \in slot'[q].since
          BY <1>0, <1>1, <2>1, <3>1, <4>1 DEF Handle
        <5> QED BY <1>1, <2>2, <4>1, <5>1
      <4>2. CASE slot[q].team # t
        BY <2>2, <3>1, <4>2 DEF WellFormed
      <4> QED BY <4>1, <4>2
    <3>7. {u} \in SUBSET User
      BY <1>1
    <3>8. \A s \in shares' : s.by = q => \E z \in shares : z.by = q /\ z.from = s.from /\ z.to = s.to
      BY <1>2
    <3> QED BY <1>0, <1>2, <3>1, <3>2, <3>4, <3>5, <3>6, <3>7, <3>8, OthersKeep
  <2>6. WellFormed(slot[r])' /\ Learned(r)' /\ NoneYet(r)'
    BY <2>1, IdleKnows
  <2> QED BY <1>0, <1>2, <2>3, <2>4, <2>5, <2>6 DEF IInv, Knows, Pairs
<1> QED BY <1>3, <1>4 DEF WriteUpdate

LEMMA RemoveStep ==
  ASSUME IInv, NEW r \in Request, WriteRemove(r)
  PROVE  IInv'
<1>0. TypeOK /\ Knows /\ Pairs /\ Standing /\ {Absent, Gone} \intersect User = {}
      /\ NoTeam \notin Team /\ Absent # Gone
  BY TeamsAssumption DEF IInv
<1> DEFINE t == slot[r].team
<1>1. t \in Team
  BY <1>0 DEF WriteRemove, Writing, Knows, WellFormed, TeamOps
<1>2. UNCHANGED <<shares, used, told, made>> /\ Finish(r)
  BY DEF WriteRemove
<1>3. CASE UNCHANGED <<leader, member, unsettled>>
  <2>1. told' \in [User -> Team \union {NoTeam}] /\ shares' \in SUBSET ShareRow /\ Pairs'
    BY <1>0, <1>2 DEF TypeOK, Pairs
  <2> QED BY <1>2, <1>3, <2>1, FinishStep
<1>4. CASE /\ ~\E s \in shares : t \in {s.from, s.to}
           /\ leader' = [leader EXCEPT ![t] = Gone]
           /\ member' = [u \in User |-> IF member[u] = t THEN NoTeam ELSE member[u]]
           /\ unsettled' = unsettled \union Members(t)
  <2>1. /\ slot' \in [Request -> Handle] /\ slot'[r] = Idle
        /\ \A q \in Request \ {r} : slot'[q] = slot[q]
    BY <1>0, <1>2, FinishIdles
  <2>2. \A x \in Team : leader'[x] = IF x = t THEN Gone ELSE leader[x]
    BY <1>0, <1>4 DEF TypeOK
  <2>3. TypeOK'
    BY <1>0, <1>1, <1>2, <1>4, <2>1 DEF TypeOK, Members
  <2>4. Standing'
    BY <1>0, <1>2, <1>4, <2>2 DEF Standing, Exists, TypeOK, ShareRow
  <2>5. ASSUME NEW q \in Request \ {r}
        PROVE  WellFormed(slot[q])' /\ Learned(q)' /\ NoneYet(q)'
    <3>1. WellFormed(slot[q]) /\ Learned(q) /\ NoneYet(q) /\ slot'[q] = slot[q]
      BY <1>0, <2>1 DEF Knows
    <3>2. slot[q].op \in TeamOps => Members(slot[q].team)' \subseteq Members(slot[q].team)
      BY <1>0, <1>4, <3>1 DEF Members, WellFormed
    <3>3. \A x \in Team : leader[x] # Absent => leader'[x] # Absent
      BY <1>0, <2>2
    <3>4. slot[q].op \in TeamOps /\ leader'[slot[q].team] # leader[slot[q].team]
            => leader'[slot[q].team] \notin User
      BY <1>0, <2>2, <3>1 DEF WellFormed
    <3>5. {} \in SUBSET User
      OBVIOUS
    <3> QED BY <1>0, <1>2, <3>1, <3>2, <3>3, <3>4, <3>5, OthersKeep
  <2>6. WellFormed(slot[r])' /\ Learned(r)' /\ NoneYet(r)'
    BY <2>1, IdleKnows
  <2> QED BY <1>0, <1>2, <2>3, <2>4, <2>5, <2>6 DEF IInv, Knows, Pairs
<1> QED BY <1>3, <1>4 DEF WriteRemove

LEMMA MemberStep ==
  ASSUME IInv, NEW r \in Request, WriteMember(r)
  PROVE  IInv'
<1>0. TypeOK /\ Knows /\ Pairs /\ Standing /\ NoTeam \notin Team
  BY TeamsAssumption DEF IInv
<1> DEFINE t == Target(slot[r])
           u == slot[r].user
           next == [slot[r] EXCEPT !.pc = "notify"]
<1>1. slot[r] \in Handle /\ WellFormed(slot[r]) /\ Learned(r) /\ slot[r].op \in MemberOps /\ slot[r].pc = "write"
  BY <1>0 DEF WriteMember, Knows, TypeOK, MemberOps
<1>2. t \in Team \union {NoTeam} /\ u \in User /\ slot[r].op \in TeamOps
  BY <1>1, TargetIs DEF WellFormed, TeamOps, MemberOps
<1>3. UNCHANGED <<leader, shares, used, told, made, unsettled>>
  BY DEF WriteMember
<1>4. CASE Finish(r) /\ UNCHANGED member
  <2>1. told' \in [User -> Team \union {NoTeam}] /\ shares' \in SUBSET ShareRow /\ Pairs'
    BY <1>0, <1>3 DEF TypeOK, Pairs
  <2> QED BY <1>3, <1>4, <2>1, FinishStep
<1>5. CASE member' = [member EXCEPT ![u] = t] /\ Missed(t, u, Only(r, next))
  <2>1. /\ next \in Handle /\ next.pc = "notify" /\ next.op = slot[r].op /\ next.team = slot[r].team
        /\ next.to = slot[r].to /\ next.user = slot[r].user /\ next.since = slot[r].since
    BY <1>1 DEF Handle
  <2>2. Missed(t, u, Only(r, next))
    BY <1>5
  <2>3. member' = [member EXCEPT ![u] = t]
    BY <1>5
  <2> HIDE DEF t, u, next
  <2>4. /\ slot' \in [Request -> Handle] /\ slot'[r] = next
        /\ \A q \in Request \ {r} :
             slot'[q] = IF t # NoTeam /\ slot[q].team = t /\ slot[q].pc # "team"
                        THEN [slot[q] EXCEPT !.since = slot[q].since \union {u}] ELSE slot[q]
    BY <1>0, <1>2, <2>1, <2>2, MissedSlots
  <2>5. \A v \in User : member'[v] = IF v = u THEN t ELSE member[v]
    BY <1>0, <2>3 DEF TypeOK
  <2>6. TypeOK'
    BY <1>0, <1>2, <1>3, <2>3, <2>4 DEF TypeOK
  <2>7. ASSUME NEW q \in Request \ {r}
        PROVE  WellFormed(slot[q])' /\ Learned(q)' /\ NoneYet(q)'
    <3>1. WellFormed(slot[q]) /\ Learned(q) /\ NoneYet(q) /\ slot[q] \in Handle
      BY <1>0 DEF Knows, TypeOK
    <3>2. slot'[q] = slot[q] \/ slot'[q] = [slot[q] EXCEPT !.since = slot[q].since \union {u}]
      BY <2>4
    <3>3. slot'[q].team = slot[q].team
      BY <3>1, <3>2 DEF Handle
    <3>4. slot[q].op \in TeamOps /\ slot[q].pc # "team" =>
            Members(slot[q].team)' \subseteq Members(slot[q].team) \union slot'[q].since
      <4>1. CASE slot[q].team = t
        <5>1. slot[q].op \in TeamOps /\ slot[q].pc # "team" => u \in slot'[q].since
          BY <1>0, <2>4, <3>1, <4>1 DEF WellFormed, Handle
        <5> QED BY <2>5, <3>3, <5>1 DEF Members
      <4>2. CASE slot[q].team # t
        BY <2>5, <3>3, <4>2 DEF Members
      <4> QED BY <4>1, <4>2
    <3>7. {u} \in SUBSET User
      BY <1>2
    <3>8. \A s \in shares' : s.by = q => \E z \in shares : z.by = q /\ z.from = s.from /\ z.to = s.to
      BY <1>3
    <3> QED BY <1>0, <1>3, <3>1, <3>2, <3>4, <3>7, <3>8, OthersKeep
  <2>8. WellFormed(slot[r])' /\ Learned(r)' /\ NoneYet(r)'
    <3>1. WellFormed(slot[r])'
      BY <1>1, <2>1, <2>4 DEF WellFormed, MemberOps, TeamOps
    <3>2. Learned(r)'
      BY <1>1, <1>3, <2>1, <2>4 DEF Learned, MemberOps
    <3>3. NoneYet(r)'
      BY <2>1, <2>4 DEF NoneYet, Writing
    <3> QED BY <3>1, <3>2, <3>3
  <2> QED BY <1>0, <1>3, <2>6, <2>7, <2>8 DEF IInv, Knows, Pairs, Standing, Exists
<1> QED BY <1>4, <1>5 DEF WriteMember

LEMMA NotifyStep ==
  ASSUME IInv, NEW r \in Request, Notify(r)
  PROVE  IInv'
<1>0. TypeOK /\ Knows /\ Pairs /\ Standing
  BY DEF IInv
<1>1. slot[r] \in Handle /\ WellFormed(slot[r]) /\ slot[r].op \in MemberOps /\ slot[r].user \in User
  BY <1>0 DEF Notify, Knows, TypeOK, WellFormed, MemberOps
<1>2. Target(slot[r]) \in Team \union {NoTeam}
  BY <1>1, TargetIs
<1>3. told' = [told EXCEPT ![slot[r].user] = Target(slot[r])] /\ Finish(r)
      /\ UNCHANGED <<leader, member, shares, used, made, unsettled>>
  BY DEF Notify
<1>4. told' \in [User -> Team \union {NoTeam}] /\ shares' \in SUBSET ShareRow /\ Pairs'
  BY <1>0, <1>2, <1>3 DEF TypeOK, Pairs
<1> QED BY <1>3, <1>4, FinishStep

\* A share is inserted by a slot that found none of the pair
\* (teams.service.ts:411-440).
LEMMA ShareStep ==
  ASSUME IInv, NEW r \in Request, NEW id \in Share, WriteCreateShare(r, id)
  PROVE  IInv'
<1>0. TypeOK /\ Knows /\ Pairs /\ Standing
  BY DEF IInv
<1> DEFINE q == slot[r]
           row == [id |-> id, from |-> q.team, to |-> q.to, kinds |-> q.kinds, by |-> r]
<1>1. /\ q \in Handle /\ q.team \in Team /\ q.to \in Team /\ NoneYet(r)
      /\ Writing(r, "createShare")
  BY <1>0 DEF WriteCreateShare, Writing, Knows, TypeOK, WellFormed, TeamOps
<1>2. UNCHANGED <<leader, member, told, made, unsettled>> /\ Finish(r)
  BY DEF WriteCreateShare
<1>3. CASE UNCHANGED <<shares, used>>
  <2>1. told' \in [User -> Team \union {NoTeam}] /\ shares' \in SUBSET ShareRow /\ Pairs'
    BY <1>0, <1>2, <1>3 DEF TypeOK, Pairs
  <2> QED BY <1>2, <1>3, <2>1, FinishStep
<1>4. CASE /\ Exists(q.team) /\ Exists(q.to)
           /\ shares' = shares \union {row}
           /\ used' = used \union {id}
  <2>1. row \in ShareRow /\ row.from = q.team /\ row.to = q.to /\ row.by = r
    BY <1>1 DEF ShareRow, Handle
  <2>2. \A s \in shares : ~(s.by = r /\ s.from = q.team /\ s.to = q.to)
    BY <1>1 DEF NoneYet
  <2>3. shares' = shares \union {row} /\ Exists(row.from) /\ Exists(row.to)
    BY <1>4, <2>1
  <2> HIDE DEF row
  <2>4. Pairs'
    BY <1>0, <2>1, <2>2, <2>3 DEF Pairs
  <2>5. Standing'
    BY <1>0, <1>2, <2>3 DEF Standing, Exists
  <2>6. TypeOK'
    BY <1>0, <1>2, <1>4, <2>1, <2>3, FinishIdles DEF TypeOK
  <2>7. ASSUME NEW p \in Request \ {r}
        PROVE  WellFormed(slot[p])' /\ Learned(p)' /\ NoneYet(p)'
    <3>1. slot'[p] = slot[p] /\ WellFormed(slot[p]) /\ Learned(p) /\ NoneYet(p)
      BY <1>0, <1>2, FinishIdles DEF Knows
    <3>2. Members(slot[p].team)' = Members(slot[p].team)
      BY <1>2, <3>1 DEF Members
    <3>3. {} \in SUBSET User
      OBVIOUS
    <3>4. \A s \in shares' : s.by = p => \E z \in shares : z.by = p /\ z.from = s.from /\ z.to = s.to
      BY <2>1, <2>3
    <3> QED BY <1>0, <1>2, <3>1, <3>2, <3>3, <3>4, OthersKeep
  <2>8. WellFormed(slot[r])' /\ Learned(r)' /\ NoneYet(r)'
    BY <1>0, <1>2, FinishIdles, IdleKnows
  <2> QED BY <2>4, <2>5, <2>6, <2>7, <2>8 DEF IInv, Knows
<1> QED BY <1>3, <1>4 DEF WriteCreateShare

LEMMA ReshareStep ==
  ASSUME IInv, NEW r \in Request, WriteUpdateShare(r) \/ WriteRemoveShare(r)
  PROVE  IInv'
<1>0. TypeOK /\ Knows /\ Pairs /\ Standing /\ slot[r] \in Handle
  BY DEF IInv, TypeOK
<1>1. Finish(r) /\ UNCHANGED <<leader, member, used, told, made, unsettled>>
  BY DEF WriteUpdateShare, WriteRemoveShare
<1>2. told' \in [User -> Team \union {NoTeam}]
  BY <1>0, <1>1 DEF TypeOK
<1>3. CASE WriteRemoveShare(r)
  <2>1. shares' \subseteq shares
    BY <1>3 DEF WriteRemoveShare
  <2>2. shares' \in SUBSET ShareRow /\ Pairs'
    BY <1>0, <2>1 DEF TypeOK, Pairs
  <2> QED BY <1>1, <1>2, <2>1, <2>2, FinishStep
<1>4. CASE WriteUpdateShare(r)
  <2> DEFINE Changed(s) == IF s.id = slot[r].share THEN [s EXCEPT !.kinds = slot[r].kinds] ELSE s
  <2>1. shares' = {Changed(s) : s \in shares}
    BY <1>4 DEF WriteUpdateShare
  <2>2. \A s \in shares : /\ Changed(s) \in ShareRow /\ Changed(s).by = s.by
                          /\ Changed(s).from = s.from /\ Changed(s).to = s.to
    BY <1>0 DEF TypeOK, ShareRow, Handle
  <2> HIDE DEF Changed
  <2>3. shares' \in SUBSET ShareRow
    BY <2>1, <2>2
  <2>4. Pairs'
    BY <1>0, <2>1, <2>2 DEF Pairs
  <2>5. \A s \in shares' : \E z \in shares : z.by = s.by /\ z.from = s.from /\ z.to = s.to
    BY <2>1, <2>2
  <2> QED BY <1>1, <1>2, <2>3, <2>4, <2>5, FinishStep
<1> QED BY <1>3, <1>4

\* The inductive invariant holds throughout.
LEMMA InitEstablishes == Init => IInv
<1> SUFFICES ASSUME Init PROVE IInv
  OBVIOUS
<1>1. TypeOK
  BY TeamsAssumption, IdleIs DEF Init, TypeOK
<1>2. \A r \in Request : slot[r] = Idle
  BY DEF Init
<1>3. ASSUME NEW r \in Request
      PROVE  WellFormed(slot[r]) /\ Learned(r) /\ NoneYet(r)
  BY <1>2, IdleIs DEF Learned, NoneYet, Writing, TeamOps
<1>4. Pairs /\ Standing
  BY DEF Init, Pairs, Standing
<1> QED BY <1>1, <1>3, <1>4 DEF IInv, Knows

LEMMA StepKeeps == IInv /\ [Next]_vars => IInv'
<1> SUFFICES ASSUME IInv, [Next]_vars PROVE IInv'
  OBVIOUS
<1>1. ASSUME NEW r \in Request, Step(r) PROVE IInv'
  BY <1>1, ReadStep, UpdateStep, RemoveStep, MemberStep, NotifyStep, ShareStep, ReshareStep DEF Step
<1>2. CASE UNCHANGED vars
  BY <1>2 DEF vars, IInv, TypeOK, Knows, WellFormed, Learned, NoneYet, Writing, Members, Pairs, Standing, Exists
<1> QED BY <1>1, <1>2, EnterStep, CreateStep, AdminStep DEF Next

LEMMA Invariant == Spec => []IInv
  BY InitEstablishes, StepKeeps, PTL DEF Spec

\* Every reachable state has the declared types, for any users, teams, shares and
\* requests (all of the module).
THEOREM TypeCorrect == Spec => []TypeOK
<1>1. IInv => TypeOK
  BY DEF IInv
<1> QED BY Invariant, <1>1, PTL

\* No slot gives a pair of teams two shares, and no share outlives a team, though
\* each is written long after its reads (teams.service.ts:411-440).
THEOREM SharePerSlotAlways == Spec => []SharePerSlot
<1>1. IInv => SharePerSlot
  BY DEF IInv, Pairs, Standing, SharePerSlot, SharedFrom, GetShares
<1> QED BY Invariant, <1>1, PTL

\* A deletion throws out only users who came in after the members were counted
\* (teams.service.ts:162-193).
THEOREM DeletionSound == Spec => DeleteTakesNobody
<1> DEFINE A == \A t \in Team : Exists(t) /\ leader'[t] = Gone =>
                  \E r \in Request : Writing(r, "remove") /\ slot[r].team = t
                                     /\ Members(t) \subseteq slot[r].since
<1>1. IInv /\ [Next]_vars => [A]_vars
  <2> SUFFICES ASSUME IInv, Next, NEW t \in Team, Exists(t), leader'[t] = Gone
               PROVE  \E r \in Request : /\ Writing(r, "remove") /\ slot[r].team = t
                                         /\ Members(t) \subseteq slot[r].since
    OBVIOUS
  <2>0. TypeOK /\ Knows /\ Gone \notin User
    BY TeamsAssumption DEF IInv
  <2>1. leader'[t] # leader[t]
    BY DEF Exists
  <2>2. ASSUME NEW r \in Request, WriteUpdate(r)
        PROVE  FALSE
    <3>1. slot[r].user \in User
      BY <2>0, <2>2 DEF WriteUpdate, Writing, Knows, WellFormed
    <3> QED BY <2>0, <2>1, <2>2, <3>1 DEF WriteUpdate, TypeOK
  <2>3. ASSUME NEW by \in User, NEW x \in Team, Create(by, x)
        PROVE  FALSE
    BY <2>0, <2>1, <2>3 DEF Create, TypeOK
  <2>4. ASSUME NEW r \in Request, Step(r), ~WriteUpdate(r), ~WriteRemove(r)
        PROVE  FALSE
    BY <2>1, <2>4 DEF Step, ReadTeam, ReadTo, ReadUser, FindShare, ReadShare, Reading, WriteMember, Notify,
                      WriteCreateShare, WriteUpdateShare, WriteRemoveShare
  <2>5. ASSUME NEW r \in Request, NEW by \in User, Enters(r, by) PROVE FALSE
    BY <2>1, <2>5, EntersWith DEF Enter
  <2>6. ASSUME NEW by \in User, NEW u \in User, NEW x \in Team \union {NoTeam}, AdminMove(by, u, x)
        PROVE  FALSE
    BY <2>1, <2>6 DEF AdminMove
  <2>7. PICK r \in Request : WriteRemove(r)
    BY <2>2, <2>3, <2>4, <2>5, <2>6 DEF Next
  <2>8. Writing(r, "remove") /\ slot[r].team = t
    BY <2>0, <2>1, <2>7 DEF WriteRemove, TypeOK
  <2>9. Members(t) \subseteq slot[r].since
    BY <2>0, <2>8 DEF Knows, Learned, Writing
  <2> QED BY <2>8, <2>9
<1> QED BY Invariant, <1>1, PTL DEF Spec, DeleteTakesNobody

\* Who leads a team it is in leaves it only with the team, by the admin page, for
\* another team it is added to, or by a removal that read the team before
\* (teams.service.ts:268, 325).
THEOREM LeaderStaysAlways == Spec => LeaderStays
<1> DEFINE A == \A u \in User : member[u] # NoTeam /\ leader[member[u]] = u /\ member'[u] # member[u] =>
                  \/ made' # made \/ leader'[member[u]] = Gone
                  \/ \E r \in Request : /\ slot[r].user = u /\ slot[r].pc = "write"
                                        /\ slot[r].team # member[u] \/ u \in slot[r].since
<1>1. IInv /\ [Next]_vars => [A]_vars
  <2> SUFFICES ASSUME IInv, Next, NEW u \in User,
                      member[u] # NoTeam, leader[member[u]] = u, member'[u] # member[u]
               PROVE  \/ made' # made \/ leader'[member[u]] = Gone
                      \/ \E r \in Request : /\ slot[r].user = u /\ slot[r].pc = "write"
                                            /\ slot[r].team # member[u] \/ u \in slot[r].since
    OBVIOUS
  <2>0. TypeOK /\ Knows
    BY DEF IInv
  <2>1. ASSUME NEW r \in Request, WriteRemove(r)
        PROVE  leader'[member[u]] = Gone
    <3>1. member[u] = slot[r].team /\ leader' = [leader EXCEPT ![slot[r].team] = Gone]
      BY <2>0, <2>1 DEF WriteRemove, TypeOK
    <3> QED BY <2>0, <3>1 DEF TypeOK
  <2>2. ASSUME NEW r \in Request, WriteMember(r)
        PROVE  /\ slot[r].user = u /\ slot[r].pc = "write"
               /\ slot[r].team # member[u] \/ u \in slot[r].since
    <3>1. member' = [member EXCEPT ![slot[r].user] = Target(slot[r])] /\ slot[r].pc = "write"
          /\ slot[r].op \in MemberOps
      BY <2>2 DEF WriteMember, MemberOps
    <3>2. slot[r].user = u /\ member'[u] = Target(slot[r])
      BY <2>0, <3>1 DEF TypeOK
    <3>3. CASE slot[r].op = "addMember"
      BY <3>1, <3>2, <3>3 DEF Target
    <3>4. CASE slot[r].op \in {"removeMember", "transferMember"}
      BY <2>0, <3>1, <3>2, <3>4 DEF Knows, Learned
    <3> QED BY <3>1, <3>2, <3>3, <3>4 DEF MemberOps
  <2>3. ASSUME NEW by \in User, NEW v \in User, NEW t \in Team \union {NoTeam}, AdminMove(by, v, t)
        PROVE  made' # made
    BY <2>0, <2>3 DEF AdminMove, TypeOK
  <2>4. ASSUME NEW r \in Request, Step(r), ~WriteRemove(r), ~WriteMember(r)
        PROVE  FALSE
    BY <2>4 DEF Step, ReadTeam, ReadTo, ReadUser, FindShare, ReadShare, Reading, WriteUpdate, Notify,
                WriteCreateShare, WriteUpdateShare, WriteRemoveShare
  <2>5. ASSUME NEW r \in Request, NEW by \in User, Enters(r, by) PROVE FALSE
    BY <2>5, EntersWith DEF Enter
  <2>6. ASSUME NEW by \in User, NEW t \in Team, Create(by, t) PROVE FALSE
    BY <2>6 DEF Create
  <2>7. CASE \E by \in User, v \in User, t \in Team \union {NoTeam} : AdminMove(by, v, t)
    BY <2>3, <2>7
  <2>8. CASE \E r \in Request : Step(r)
    BY <2>1, <2>2, <2>4, <2>8
  <2> QED BY <2>5, <2>6, <2>7, <2>8 DEF Next
<1> QED BY Invariant, <1>1, PTL DEF Spec, LeaderStays

-----------------------------------------------------------------------------
(* What the last notice says.  A user no two requests were about at once has  *)
(* at most one request, and the notice that request still owes says where the *)
(* user is.                                                                   *)

Alike(p, q) == p.user = q.user /\ p.pc = q.pc /\ p.op = q.op /\ p.team = q.team /\ p.to = q.to
Owes(r, u) == slot[r].user = u /\ slot[r].pc = "notify"

Told ==
  \A u \in User \ unsettled :
    /\ \A r, q \in Request : slot[r].user = u /\ slot[q].user = u => r = q
    /\ \A r \in Request : Owes(r, u) => member[u] = Target(slot[r])
    /\ (\A r \in Request : ~Owes(r, u)) => told[u] = member[u]

\* A step of request r that leaves notices and members alone, apart from users it
\* unsettles, keeps what is told.
LEMMA ToldKept ==
  ASSUME Told, NEW r \in Request,
         unsettled \subseteq unsettled', told' = told,
         \A u \in User \ unsettled' : member'[u] = member[u],
         \A q \in Request \ {r} : Alike(slot'[q], slot[q]),
         slot'[r].user = slot[r].user \/ slot'[r].user \notin User,
         slot[r].pc # "notify" /\ slot'[r].pc # "notify"
  PROVE  Told'
<1> SUFFICES ASSUME NEW u \in User, u \notin unsettled'
             PROVE  /\ \A p, q \in Request : slot'[p].user = u /\ slot'[q].user = u => p = q
                    /\ \A p \in Request : Owes(p, u)' => member'[u] = Target(slot'[p])
                    /\ (\A p \in Request : ~Owes(p, u)') => told'[u] = member'[u]
  BY DEF Told, Owes
<1>0. u \in User \ unsettled
  OBVIOUS
<1>1. \A p \in Request : slot'[p].user = u => slot[p].user = u
  BY DEF Alike
<1>2. \A p, q \in Request : slot'[p].user = u /\ slot'[q].user = u => p = q
  BY <1>0, <1>1 DEF Told
<1>3. \A p \in Request : Owes(p, u)' => Owes(p, u) /\ Target(slot'[p]) = Target(slot[p])
  BY DEF Alike, Owes, Target
<1>4. \A p \in Request : Owes(p, u) => Owes(p, u)'
  BY DEF Alike, Owes
<1>5. \A p \in Request : Owes(p, u)' => member'[u] = Target(slot'[p])
  BY <1>0, <1>3 DEF Told
<1>6. (\A p \in Request : ~Owes(p, u)') => told'[u] = member'[u]
  BY <1>0, <1>4 DEF Told
<1> QED BY <1>2, <1>5, <1>6

\* A slot that ends names nobody.
LEMMA IdleForgets == Idle.user \notin User /\ Idle.pc # "notify"
<1>1. Idle.user = NoUser /\ Idle.pc = "idle"
  BY DEF Idle
<1> QED BY <1>1, TeamsAssumption

LEMMA ToldFinish ==
  ASSUME TypeOK, Told, NEW r \in Request, Finish(r), slot[r].pc # "notify",
         unsettled \subseteq unsettled', told' = told,
         \A u \in User \ unsettled' : member'[u] = member[u]
  PROVE  Told'
<1>1. slot'[r] = Idle /\ \A q \in Request \ {r} : slot'[q] = slot[q]
  BY FinishIdles
<1> QED BY <1>1, IdleForgets, ToldKept DEF Alike

LEMMA ToldInit == Init => Told
<1> SUFFICES ASSUME Init PROVE Told
  OBVIOUS
<1>1. \A r \in Request : slot[r] = Idle /\ Idle.user = NoUser /\ Idle.pc = "idle"
  BY DEF Init, Idle
<1> QED BY <1>1, TeamsAssumption DEF Init, Told, Owes

LEMMA ToldEnter ==
  ASSUME IInv, Told, NEW r \in Request, NEW by \in User, Enters(r, by)
  PROVE  Told'
<1>1. PICK q \in Handle : Enter(r, by, q) /\ WellFormed(q) /\ q.pc \in {"team", "share"}
  BY EntersWith
<1>2. /\ slot'[r] = q /\ \A p \in Request \ {r} : slot'[p] = slot[p]
      /\ slot[r].op = "idle" /\ UNCHANGED <<member, told>>
      /\ unsettled \subseteq unsettled'
      /\ (\E p \in Request : slot[p].user = q.user) /\ q.user # NoUser => q.user \in unsettled'
  BY <1>1 DEF Enter, IInv, TypeOK
<1>3. slot[r].pc # "notify"
  BY <1>2 DEF IInv, Knows, WellFormed, MemberOps
<1> SUFFICES ASSUME NEW u \in User, u \notin unsettled'
             PROVE  /\ \A p, z \in Request : slot'[p].user = u /\ slot'[z].user = u => p = z
                    /\ \A p \in Request : Owes(p, u)' => member'[u] = Target(slot'[p])
                    /\ (\A p \in Request : ~Owes(p, u)') => told'[u] = member'[u]
  BY DEF Told, Owes
<1>4. u \in User \ unsettled /\ u # NoUser
  BY <1>2, TeamsAssumption
<1>5. \A p, z \in Request : slot'[p].user = u /\ slot'[z].user = u => p = z
  BY <1>2, <1>4 DEF Told
<1>6. \A p \in Request : Owes(p, u)' <=> Owes(p, u)
  BY <1>1, <1>2, <1>3 DEF Owes
<1>7. \A p \in Request : Owes(p, u)' => slot'[p] = slot[p]
  BY <1>1, <1>2 DEF Owes
<1> QED BY <1>2, <1>4, <1>5, <1>6, <1>7 DEF Told

LEMMA ToldMember ==
  ASSUME IInv, Told, NEW r \in Request, WriteMember(r),
         Target(slot[r]) # NoTeam => Exists(Target(slot[r]))
  PROVE  Told'
<1>0. TypeOK /\ slot[r] \in Handle /\ WellFormed(slot[r]) /\ slot[r].op \in MemberOps /\ slot[r].pc = "write"
  BY DEF IInv, TypeOK, Knows, WriteMember, MemberOps
<1> DEFINE t == Target(slot[r])
           w == slot[r].user
           next == [slot[r] EXCEPT !.pc = "notify"]
<1>1. /\ member' = [member EXCEPT ![w] = t] /\ Missed(t, w, Only(r, next))
      /\ UNCHANGED <<told, unsettled>>
  BY DEF WriteMember
<1>2. t \in Team \union {NoTeam} /\ w \in User /\ next \in Handle /\ next.pc = "notify" /\ next.user = w
  BY <1>0, TargetIs DEF WellFormed, Handle
<1>3. Target(next) = t
  BY <1>0 DEF Target, Handle
<1> HIDE DEF t, next, w
<1>4. /\ slot'[r] = next
      /\ \A q \in Request \ {r} :
           slot'[q] = IF t # NoTeam /\ slot[q].team = t /\ slot[q].pc # "team"
                      THEN [slot[q] EXCEPT !.since = slot[q].since \union {w}] ELSE slot[q]
  BY <1>0, <1>1, <1>2, MissedSlots
<1>5. \A q \in Request \ {r} : Alike(slot'[q], slot[q])
  <2> SUFFICES ASSUME NEW q \in Request \ {r} PROVE Alike(slot'[q], slot[q])
    OBVIOUS
  <2>1. slot[q] \in Handle
    BY <1>0 DEF TypeOK
  <2> QED BY <1>4, <2>1 DEF Alike, Handle
<1>6. \A u \in User : member'[u] = IF u = w THEN t ELSE member[u]
  BY <1>0, <1>1 DEF TypeOK
<1>7. slot[r].user = w
  BY DEF w
<1> SUFFICES ASSUME NEW u \in User, u \notin unsettled
             PROVE  /\ \A p, z \in Request : slot'[p].user = u /\ slot'[z].user = u => p = z
                    /\ \A p \in Request : Owes(p, u)' => member'[u] = Target(slot'[p])
                    /\ (\A p \in Request : ~Owes(p, u)') => told'[u] = member'[u]
  BY <1>1 DEF Told, Owes
<1>8. \A p \in Request : slot'[p].user = u <=> slot[p].user = u
  BY <1>2, <1>4, <1>5, <1>7 DEF Alike
<1>9. \A p, z \in Request : slot'[p].user = u /\ slot'[z].user = u => p = z
  BY <1>8 DEF Told
<1>10. CASE u = w
  <2>1. Owes(r, u)'
    BY <1>2, <1>4, <1>10 DEF Owes
  <2>2. \A p \in Request : Owes(p, u)' => p = r
    BY <1>9, <2>1 DEF Owes
  <2> QED BY <1>3, <1>4, <1>6, <1>9, <1>10, <2>1, <2>2
<1>11. CASE u # w
  <2>1. \A p \in Request : slot'[p].user = u => p # r
    BY <1>2, <1>4, <1>11
  <2>2. \A p \in Request : Owes(p, u)' => Owes(p, u) /\ Target(slot'[p]) = Target(slot[p])
    BY <1>5, <2>1 DEF Owes, Alike, Target
  <2>3. \A p \in Request : Owes(p, u) => Owes(p, u)'
    BY <1>5, <1>7, <1>11 DEF Owes, Alike
  <2> QED BY <1>1, <1>6, <1>9, <1>11, <2>2, <2>3 DEF Told
<1> QED BY <1>10, <1>11

LEMMA ToldNotify ==
  ASSUME IInv, Told, NEW r \in Request, Notify(r)
  PROVE  Told'
<1>0. TypeOK /\ slot[r].user \in User /\ slot[r].pc = "notify"
  BY DEF IInv, Knows, WellFormed, Notify
<1>1. /\ told' = [told EXCEPT ![slot[r].user] = Target(slot[r])] /\ Finish(r)
      /\ UNCHANGED <<member, unsettled>>
  BY DEF Notify
<1>2. slot'[r] = Idle /\ (\A q \in Request \ {r} : slot'[q] = slot[q]) /\ Idle.user \notin User
  <2>1. Idle.user = NoUser
    BY DEF Idle
  <2> QED BY <1>0, <1>1, <2>1, FinishIdles, TeamsAssumption
<1>3. \A u \in User : told'[u] = IF u = slot[r].user THEN Target(slot[r]) ELSE told[u]
  BY <1>0, <1>1 DEF TypeOK
<1> SUFFICES ASSUME NEW u \in User, u \notin unsettled
             PROVE  /\ \A p, z \in Request : slot'[p].user = u /\ slot'[z].user = u => p = z
                    /\ \A p \in Request : Owes(p, u)' => member'[u] = Target(slot'[p])
                    /\ (\A p \in Request : ~Owes(p, u)') => told'[u] = member'[u]
  BY <1>1 DEF Told, Owes
<1>4. \A p \in Request : slot'[p].user = u => p # r /\ slot'[p] = slot[p]
  BY <1>2
<1>5. \A p, z \in Request : slot'[p].user = u /\ slot'[z].user = u => p = z
  BY <1>4 DEF Told
<1>6. \A p \in Request : Owes(p, u)' => member'[u] = Target(slot'[p])
  BY <1>1, <1>4 DEF Told, Owes
<1>7. CASE u = slot[r].user
  <2>1. told'[u] = member'[u]
    BY <1>0, <1>1, <1>3, <1>7 DEF Told, Owes
  <2> QED BY <1>5, <1>6, <2>1
<1>8. CASE u # slot[r].user
  <2>1. \A p \in Request : Owes(p, u) => Owes(p, u)'
    BY <1>2, <1>8 DEF Owes
  <2> QED BY <1>1, <1>3, <1>5, <1>6, <1>8, <2>1 DEF Told
<1> QED BY <1>7, <1>8

\* The steps that move nobody, or a removal that unsettles whom it moves.
LEMMA ToldReads ==
  ASSUME IInv, Told, NEW r \in Request,
         ReadTeam(r) \/ ReadTo(r) \/ ReadUser(r) \/ FindShare(r) \/ ReadShare(r)
  PROVE  Told'
<1>0. TypeOK /\ slot[r] \in Handle /\ WellFormed(slot[r]) /\ slot[r].pc # "notify"
  BY DEF IInv, TypeOK, Knows, ReadTeam, ReadTo, ReadUser, FindShare, ReadShare
<1>1. UNCHANGED <<member, told, unsettled>>
  BY DEF ReadTeam, ReadTo, ReadUser, FindShare, ReadShare, Reading
<1>2. CASE Finish(r)
  BY <1>0, <1>1, <1>2, ToldFinish
<1>3. ASSUME NEW pc \in {"to", "user", "find", "write"}, Go(r, pc)
      PROVE  Told'
  <2>1. slot'[r] = [slot[r] EXCEPT !.pc = pc] /\ \A q \in Request \ {r} : slot'[q] = slot[q]
    BY <1>0, <1>3, GoKeepsShape
  <2>2. slot'[r].user = slot[r].user /\ slot'[r].pc = pc
    BY <1>0, <2>1 DEF Handle
  <2> QED BY <1>0, <1>1, <2>1, <2>2, ToldKept DEF Alike
<1>4. CASE ReadTeam(r) /\ ~Finish(r)
  <2>1. Go(r, AfterTeam[slot[r].op]) /\ slot[r].op \in TeamOps
    BY <1>0, <1>4 DEF ReadTeam, WellFormed
  <2>2. AfterTeam[slot[r].op] \in {"to", "user", "find", "write"}
    BY <2>1, AfterTeamSteps DEF TeamOps
  <2> QED BY <1>3, <2>1, <2>2
<1>5. CASE ReadTo(r) /\ ~Finish(r)
  <2>1. Go(r, "find") \/ Go(r, "user")
    BY <1>5 DEF ReadTo
  <2> QED BY <1>3, <2>1
<1>6. CASE (ReadUser(r) \/ FindShare(r) \/ ReadShare(r)) /\ ~Finish(r)
  <2>1. Go(r, "write")
    BY <1>6 DEF ReadUser, FindShare, ReadShare
  <2> QED BY <1>3, <2>1
<1> QED BY <1>2, <1>4, <1>5, <1>6

LEMMA ToldAdmin ==
  ASSUME IInv, Told, NEW by \in User, NEW u \in User, NEW t \in Team \union {NoTeam}, AdminMove(by, u, t)
  PROVE  Told'
<1>0. TypeOK
  BY DEF IInv
<1>1. /\ member' = [member EXCEPT ![u] = t] /\ Missed(t, u, <<>>)
      /\ told' = told /\ unsettled' = unsettled \union {u}
  BY DEF AdminMove
<1>2. \A q \in Request : Alike(slot'[q], slot[q])
  <2> SUFFICES ASSUME NEW q \in Request PROVE Alike(slot'[q], slot[q])
    OBVIOUS
  <2>1. slot'[q] = slot[q] \/ slot'[q] = [slot[q] EXCEPT !.since = slot[q].since \union {u}]
    BY <1>0, <1>1, MissedByAll
  <2>2. slot[q] \in Handle
    BY <1>0 DEF TypeOK
  <2> QED BY <2>1, <2>2 DEF Alike, Handle
<1>3. \A v \in User \ unsettled' : member'[v] = member[v] /\ v \notin unsettled
  BY <1>0, <1>1 DEF TypeOK
<1> SUFFICES ASSUME NEW v \in User, v \notin unsettled'
             PROVE  /\ \A p, z \in Request : slot'[p].user = v /\ slot'[z].user = v => p = z
                    /\ \A p \in Request : Owes(p, v)' => member'[v] = Target(slot'[p])
                    /\ (\A p \in Request : ~Owes(p, v)') => told'[v] = member'[v]
  BY DEF Told, Owes
<1>4. \A p, z \in Request : slot'[p].user = v /\ slot'[z].user = v => p = z
  BY <1>2, <1>3 DEF Told, Alike
<1>5. \A p \in Request : (Owes(p, v)' <=> Owes(p, v)) /\ Target(slot'[p]) = Target(slot[p])
  BY <1>2 DEF Owes, Alike, Target
<1> QED BY <1>1, <1>3, <1>4, <1>5 DEF Told

LEMMA ToldUpdate ==
  ASSUME IInv, Told, NEW r \in Request, WriteUpdate(r)
  PROVE  Told'
<1>0. TypeOK /\ slot[r].pc # "notify" /\ slot[r].team \in Team /\ slot[r].user \in User
  BY DEF IInv, Knows, WellFormed, TeamOps, WriteUpdate, Writing
<1>1. UNCHANGED <<member, told, unsettled>>
  BY DEF WriteUpdate
<1>2. CASE Finish(r)
  BY <1>0, <1>1, <1>2, ToldFinish
<1> DEFINE t == slot[r].team
           u == slot[r].user
<1>3. CASE Missed(t, u, Only(r, Idle))
  <2>0. t \in Team \union {NoTeam} /\ u \in User /\ Missed(t, u, Only(r, Idle))
    BY <1>0, <1>3
  <2> HIDE DEF t, u
  <2>1. /\ slot'[r] = Idle
        /\ \A q \in Request \ {r} :
             slot'[q] = slot[q] \/ slot'[q] = [slot[q] EXCEPT !.since = slot[q].since \union {u}]
    BY <1>0, <2>0, IdleIs, MissedSlots
  <2>2. \A q \in Request \ {r} : Alike(slot'[q], slot[q])
    <3> SUFFICES ASSUME NEW q \in Request \ {r} PROVE Alike(slot'[q], slot[q])
      OBVIOUS
    <3>1. slot[q] \in Handle
      BY <1>0 DEF TypeOK
    <3> QED BY <2>1, <3>1 DEF Alike, Handle
  <2> QED BY <1>0, <1>1, <2>1, <2>2, ToldKept, IdleForgets
<1> QED BY <1>2, <1>3 DEF WriteUpdate

LEMMA ToldRemove ==
  ASSUME IInv, Told, NEW r \in Request, WriteRemove(r)
  PROVE  Told'
<1>0. TypeOK /\ slot[r].pc # "notify" /\ Finish(r) /\ told' = told
  BY DEF IInv, WriteRemove, Writing
<1>1. unsettled \subseteq unsettled'
  BY DEF WriteRemove
<1>2. \A u \in User \ unsettled' : member'[u] = member[u]
  BY DEF WriteRemove, Members
<1> QED BY <1>0, <1>1, <1>2, ToldFinish

LEMMA ToldStep == IInv /\ Told /\ [Next]_vars => Told'
<1> SUFFICES ASSUME IInv, Told, [Next]_vars PROVE Told'
  OBVIOUS
<1>1. ASSUME NEW r \in Request, Step(r) PROVE Told'
  <2>1. CASE ReadTeam(r) \/ ReadTo(r) \/ ReadUser(r) \/ FindShare(r) \/ ReadShare(r)
    BY <2>1, ToldReads
  <2>2. CASE WriteMember(r)
    <3>1. CASE ~(Target(slot[r]) # NoTeam => Exists(Target(slot[r])))
      <4>1. UNCHANGED <<member, told, unsettled>> /\ Finish(r) /\ slot[r].pc # "notify" /\ TypeOK
        BY <2>2, <3>1 DEF WriteMember, IInv
      <4> QED BY <4>1, ToldFinish
    <3> QED BY <2>2, <3>1, ToldMember
  <2>3. CASE (\E id \in Share : WriteCreateShare(r, id)) \/ WriteUpdateShare(r) \/ WriteRemoveShare(r)
    <3>1. UNCHANGED <<member, told, unsettled>> /\ Finish(r) /\ slot[r].pc # "notify" /\ TypeOK
      BY <2>3 DEF WriteCreateShare, WriteUpdateShare, WriteRemoveShare, Writing, IInv
    <3> QED BY <3>1, ToldFinish
  <2> QED BY <1>1, <2>1, <2>2, <2>3, ToldUpdate, ToldRemove, ToldNotify DEF Step
<1>2. ASSUME NEW by \in User, NEW t \in Team, Create(by, t) PROVE Told'
  BY <1>2 DEF Create, Told, Owes
<1>3. CASE UNCHANGED vars
  BY <1>3 DEF vars, Told, Owes
<1> QED BY <1>1, <1>2, <1>3, ToldEnter, ToldAdmin DEF Next

\* A user that is not excused, and about whom no request is at work, is where its
\* last notice said (teams.service.ts:233, 276, 349).
THEOREM LastNoticeTrueAlways == Spec => []LastNoticeTrue
<1>1. IInv /\ Told => LastNoticeTrue
  <2> SUFFICES ASSUME IInv, Told, NEW u \in User \ unsettled,
                      \A r \in Request : slot[r].op = "update" \/ slot[r].user # u
               PROVE  told[u] = member[u]
    BY DEF LastNoticeTrue
  <2>1. \A r \in Request : ~Owes(r, u)
    BY DEF IInv, Knows, WellFormed, MemberOps, Owes
  <2> QED BY <2>1 DEF Told
<1> QED BY Invariant, ToldInit, ToldStep, <1>1, PTL DEF Spec
=============================================================================
