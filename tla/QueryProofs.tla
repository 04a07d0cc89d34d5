----------------------------- MODULE QueryProofs -----------------------------
(***************************************************************************)
(* What queries show, for any users, teams, memberships and rows: lists    *)
(* agree with the checks of opened rows, retrospectives are shown to those *)
(* they are shared with, the parts of what is counted add up, and an       *)
(* address is let in by its leading bits.                                  *)
(***************************************************************************)
EXTENDS Retrospectives, Reports, NetworkWhitelist, TLAPS, FiniteSetTheorems, WellFoundedInduction

-----------------------------------------------------------------------------
(* Access.  One lemma for each kind of row, on operators of the row and the   *)
(* viewer alone.                                                              *)

\* A task is in the list that names no team exactly when it opens, and whatever a
\* narrower list or the dashboard shows opens (tasks.service.ts:108, 651,
\* dashboard.service.ts:395).
LEMMA TasksAgree ==
  ASSUME NEW v \in RequestUser, NEW t \in TaskShape, NEW asked \in Team \union {NoTeam}
  PROVE  /\ TaskListed(v, t, NoTeam) <=> TaskOpens(v, t)
         /\ TaskListed(v, t, asked) => TaskOpens(v, t)
         /\ MyTaskListed(v, t) \/ CreatedTaskListed(v, t) => TaskModifies(v, t)
         /\ RecentTaskShown(v, t, asked) => TaskOpens(v, t)
         /\ UpcomingDeadlineShown(v, t, asked) => TaskOpens(v, t)
         /\ MyTaskCounted(v, t) \/ MyActivityShown(v, t) => TaskOpens(v, t)
  BY DirectoryAssumption
     DEF RequestUser, TaskShape, TaskListed, TaskOpens, TaskModifies, MyTaskListed, CreatedTaskListed,
         RecentTaskShown, UpcomingDeadlineShown, DashboardAccess, MyTaskCounted, MyActivityShown

\* The same for schedules, in the lists that name no team (schedules.service.ts:428).
LEMMA SchedulesAgree ==
  ASSUME NEW v \in RequestUser, NEW s \in ScheduleShape
  PROVE  /\ ScheduleListed(v, s, NoTeam) <=> ScheduleOpens(v, s)
         /\ UpcomingListed(v, s) => ScheduleOpens(v, s)
         /\ MyScheduleListed(v, s) => ScheduleModifies(v, s)
         /\ \A team \in Team : TeamSchedulesListed(v, s, team) => ScheduleOpens(v, s)
  BY DirectoryAssumption
     DEF RequestUser, ScheduleShape, ScheduleListed, ScheduleOpens, ScheduleModifies, UpcomingListed,
         MyScheduleListed, TeamSchedulesListed

\* And for documents (documents.service.ts:63, 170, 260).
LEMMA DocumentsAgree ==
  ASSUME NEW v \in RequestUser, NEW team \in Team, NEW asked \in Team \union {NoTeam}
  PROVE  /\ DocumentListed(v, team, NoTeam) <=> DocumentOpens(v, team)
         /\ DocumentListed(v, team, asked) => DocumentOpens(v, team)
         /\ TagsCounted(v, team) => DocumentOpens(v, team)
  BY DirectoryAssumption DEF RequestUser, DocumentListed, DocumentOpens, TagsCounted

\* RolesGuard lets in whoever has one of the roles a route names.
LEMMA GuardAdmits ==
  ASSUME NEW roles \in SUBSET Role, NEW role \in roles
  PROVE  RolesGuard(roles, role)
<1>1. role \in {"OWNER", "TEAM_LEAD", "HEAD", "LEAD", "ACTOR"}
  BY DEF Role
<1>2. HasHigherOrEqualRole(role, role)
  BY <1>1 DEF HasHigherOrEqualRole, RoleHierarchy
<1> QED BY <1>2 DEF RolesGuard

\* Whom a service serves, its route lets in (roles.guard.ts:36).
LEMMA RoutesAgree ==
  ASSUME NEW role \in Role, NEW route \in DOMAIN Routes, role \in Routes[route].service
  PROVE  RolesGuard(Routes[route].guard, role)
<1>1. route \in {"auditFindAll", "auditFindByEntity", "auditGetStats", "dashboardTeams"}
  BY DEF Routes
<1>2. /\ Routes.auditFindAll.guard = {"OWNER", "HEAD"} /\ Routes.auditFindAll.service = {"OWNER", "HEAD"}
      /\ Routes.auditFindByEntity.guard = {"OWNER", "HEAD"}
      /\ Routes.auditFindByEntity.service = {"OWNER", "HEAD"}
  BY DEF Routes
<1>3. /\ Routes.auditGetStats.guard = {"OWNER"} /\ Routes.auditGetStats.service = {"OWNER"}
      /\ Routes.dashboardTeams.guard = {"OWNER", "HEAD"} /\ Routes.dashboardTeams.service = {"OWNER", "HEAD"}
  BY DEF Routes
<1>4. Routes[route].guard = Routes[route].service /\ Routes[route].guard \in SUBSET Role
  BY <1>1, <1>2, <1>3 DEF Role
<1> QED BY <1>4, GuardAdmits

\* The probe keeps its shape.
LEMMA AccessTypeCorrect == AccessSpec => []AccessTypeOK
<1>1. AccessInit => AccessTypeOK
  BY DEF AccessInit, AccessTypeOK, ProbeShape
<1>2. AccessTypeOK /\ [AccessNext]_<<probe, asks>> => AccessTypeOK'
  BY DEF AccessTypeOK, AccessNext, AskAgain, ProbeShape
<1> QED BY <1>1, <1>2, PTL DEF AccessSpec

\* What lists show opens and what opens is listed, for any users, roles, teams and
\* rows (tasks.service.ts:108, 651, schedules.service.ts:428-455,
\* documents.service.ts:63-71, 151, dashboard.service.ts:393, roles.guard.ts:36).
THEOREM AccessAgreesAlways == AccessSpec => []AccessAgrees
<1>1. AccessTypeOK => AccessAgrees
  <2> SUFFICES ASSUME AccessTypeOK PROVE AccessAgrees
    OBVIOUS
  <2>1. /\ probe.viewer \in RequestUser /\ probe.viewer.role \in Role
        /\ probe.task \in TaskShape /\ probe.schedule \in ScheduleShape
        /\ probe.doc \in Team /\ probe.asked \in Team \union {NoTeam}
    BY DEF AccessTypeOK, ProbeShape, RequestUser
  <2> QED BY <2>1, TasksAgree, SchedulesAgree, DocumentsAgree, RoutesAgree DEF AccessAgrees
<1> QED BY AccessTypeCorrect, <1>1, PTL

-----------------------------------------------------------------------------
(* Retrospectives.  Rows come from one createMany of share or addShare, on a  *)
(* retrospective that is there, and go with it; a removal by id only takes    *)
(* away.  Of one that was never written there are none.  What a share under   *)
(* way will leave is what others wrote since it deleted.                      *)

ShareUnderWay(r) ==
  Does(r, "shareInsert") =>
    /\ \A s \in writing[r].doomed : s.retro = writing[r].retro
    /\ \A s \in retroShares \ writing[r].doomed : s.retro = writing[r].retro => s.with \in writing[r].missed
SharesKept ==
  /\ \A x \in Retro :
       /\ retros[x] = Absent => granted[x] = {} /\ \A s \in retroShares : s.retro # x
       /\ SharedWith(x) \subseteq granted[x] \union mixed[x]
       /\ Kept(x) /\ x \notin withdrawn => granted[x] \subseteq SharedWith(x)
  /\ \A r \in Request : ShareUnderWay(r)

RetrosInv == RetrosTypeOK /\ SharesKept

\* What the types say of a request at work and of a share.
LEMMA RetroShapes ==
  ASSUME RetrosTypeOK
  PROVE  /\ \A r \in Request : writing[r] # NoRequest =>
              writing[r] \in WritingShape /\ writing[r].retro \in Retro /\ writing[r].missed \in SUBSET Reader
         /\ \A s \in retroShares : s.retro \in Retro /\ s.with \in Reader
         /\ DOMAIN retros = Retro /\ DOMAIN granted = Retro /\ DOMAIN mixed = Retro /\ DOMAIN writing = Request
         /\ \A x \in Retro : Kept(x) => retros[x] \in RetroShape
BY DEF RetrosTypeOK, WritingShape, ShareShape, Kept

\* The rows of one createMany share their retrospective with those it names.
LEMMA NewRows ==
  ASSUME RetrosTypeOK, NEW x \in Retro, NEW readers, Accepted(x, readers)
  PROVE  /\ RowsFor(x, readers) \in SUBSET ShareShape
         /\ \A s \in RowsFor(x, readers) : s.retro = x
         /\ {s.with : s \in RowsFor(x, readers)} = readers
<1>1. batches + 1 \in Nat /\ readers \subseteq Reader
  BY DEF RetrosTypeOK, Accepted
<1>2. \A s \in RowsFor(x, readers) : s.retro = x /\ s.with \in readers /\ s.batch = batches + 1
  BY DEF RowsFor
<1>3. \A w \in readers : \E s \in RowsFor(x, readers) : s.with = w
  <2> SUFFICES ASSUME NEW w \in readers PROVE \E s \in RowsFor(x, readers) : s.with = w
    OBVIOUS
  <2>1. [batch |-> batches + 1, retro |-> x, with |-> w] \in RowsFor(x, readers)
    BY DEF RowsFor
  <2> QED BY <2>1
<1>4. RowsFor(x, readers) \subseteq ShareShape
  BY <1>1 DEF RowsFor, ShareShape
<1>5. {s.with : s \in RowsFor(x, readers)} = readers
  BY <1>2, <1>3
<1> QED BY <1>2, <1>4, <1>5

\* What a write of readers makes of the other requests.
LEMMA OvertakenShapes ==
  ASSUME RetrosTypeOK, NEW r \in Request, NEW x, NEW readers \in SUBSET Reader, Overtakes(r, x, readers)
  PROVE  /\ writing' \in [Request -> WritingShape \union {NoRequest}]
         /\ writing'[r] = NoRequest
         /\ \A q \in Request \ {r} :
              \/ writing'[q] = writing[q] /\ (~Does(q, "shareInsert") \/ writing[q].retro # x)
              \/ /\ writing[q] # NoRequest /\ writing'[q] # NoRequest
                 /\ writing'[q].op = writing[q].op /\ writing'[q].retro = x /\ writing[q].retro = x
                 /\ writing'[q].doomed = writing[q].doomed
                 /\ writing'[q].missed = writing[q].missed \union readers
<1>1. ASSUME NEW w \in WritingShape
      PROVE  LET v == [w EXCEPT !.missed = w.missed \union readers]
             IN /\ v \in WritingShape
                /\ v.op = w.op /\ v.retro = w.retro /\ v.doomed = w.doomed /\ v.missed = w.missed \union readers
  BY DEF WritingShape
<1>2. writing'[r] = NoRequest
  BY DEF Overtakes
<1>3. ASSUME NEW q \in Request \ {r}, Does(q, "shareInsert"), writing[q].retro = x
      PROVE  /\ writing'[q] \in WritingShape
             /\ writing[q] # NoRequest /\ writing'[q] # NoRequest
             /\ writing'[q].op = writing[q].op /\ writing'[q].retro = x /\ writing[q].retro = x
             /\ writing'[q].doomed = writing[q].doomed
             /\ writing'[q].missed = writing[q].missed \union readers
  <2>1. writing[q] \in WritingShape /\ writing[q] # NoRequest
    BY <1>3, RetroShapes DEF Does
  <2>2. writing'[q] = [writing[q] EXCEPT !.missed = writing[q].missed \union readers]
    BY <1>3 DEF Overtakes
  <2>3. writing'[q] \in WritingShape
    BY <1>1, <2>1, <2>2
  <2>4. writing'[q] # NoRequest
    BY <2>3, RetrosAssumption
  <2> QED BY <1>1, <1>3, <2>1, <2>2, <2>3, <2>4
<1>4. ASSUME NEW q \in Request \ {r}, ~Does(q, "shareInsert") \/ writing[q].retro # x
      PROVE  writing'[q] = writing[q]
  BY <1>4 DEF Overtakes
<1>5. writing' \in [Request -> WritingShape \union {NoRequest}]
  <2>1. ASSUME NEW q \in Request PROVE writing'[q] \in WritingShape \union {NoRequest}
    BY <1>2, <1>3, <1>4 DEF RetrosTypeOK
  <2>2. DOMAIN writing' = Request /\ writing' = [q \in Request |-> writing'[q]]
    BY DEF Overtakes
  <2> QED BY <2>1, <2>2
<1> QED BY <1>2, <1>3, <1>4, <1>5

\* The cases of a step.
LEMMA RetrosCases ==
  RetrosNext =>
    \/ \E u \in User, x \in Retro, draft \in BOOLEAN, visibility \in Visibility :
         RetroCreate(u, x, draft, visibility)
    \/ \E r \in Request, u \in User, x \in Retro, op \in RetroOp : RetroRead(r, u, x, op)
    \/ \E r \in Request, draft \in BOOLEAN, visibility \in Visibility :
         RetroUpdate(r, draft, visibility) \/ RetroPublish(r)
    \/ \E r \in Request : RetroRemove(r)
    \/ \E r \in Request : RetroShareDelete(r)
    \/ \E r \in Request, readers \in Named : RetroShareInsert(r, readers) \/ RetroAddShare(r, readers)
    \/ \E r \in Request, readers \in Named : RetroRefused(r, readers)
    \/ \E r \in Request : RetroGivenUp(r)
    \/ \E r \in Request, rows \in SUBSET retroShares : RetroRemoveShare(r, rows)
BY DEF RetrosNext, Visibility

\* Every step keeps the types of the variables (all of the module).
LEMMA RetrosTypeStep == RetrosTypeOK /\ [RetrosNext]_retroVars => RetrosTypeOK'
<1> SUFFICES ASSUME RetrosTypeOK, [RetrosNext]_retroVars PROVE RetrosTypeOK'
  OBVIOUS
<1>1. ASSUME NEW u \in User, NEW x \in Retro, NEW draft \in BOOLEAN, NEW visibility \in Visibility,
             RetroCreate(u, x, draft, visibility)
      PROVE  RetrosTypeOK'
  <2>1. [author |-> u, draft |-> draft, visibility |-> visibility] \in RetroShape
    BY DEF RetroShape
  <2> QED BY <1>1, <2>1 DEF RetroCreate, history, RetrosTypeOK
<1>2. ASSUME NEW r \in Request, NEW u \in User, NEW x \in Retro, NEW op \in RetroOp, RetroRead(r, u, x, op)
      PROVE  RetrosTypeOK'
  <2>1. [op |-> op, retro |-> x, doomed |-> {}, missed |-> {}] \in WritingShape
    BY DEF WritingShape
  <2> QED BY <1>2, <2>1 DEF RetroRead, history, RetrosTypeOK
<1>3. ASSUME NEW r \in Request, NEW draft \in BOOLEAN, NEW visibility \in Visibility,
             RetroUpdate(r, draft, visibility)
      PROVE  RetrosTypeOK'
  <2>1. writing[r].retro \in Retro /\ (Kept(writing[r].retro) => retros[writing[r].retro] \in RetroShape)
    BY <1>3, RetroShapes DEF RetroUpdate, Does
  <2>2. Kept(writing[r].retro) =>
          [retros[writing[r].retro] EXCEPT !.draft = draft, !.visibility = visibility] \in RetroShape
    BY <2>1 DEF RetroShape
  <2> QED BY <1>3, <2>1, <2>2 DEF RetroUpdate, Done, history, RetrosTypeOK
<1>4. ASSUME NEW r \in Request, RetroPublish(r) PROVE RetrosTypeOK'
  <2>1. writing[r].retro \in Retro /\ (Kept(writing[r].retro) => retros[writing[r].retro] \in RetroShape)
    BY <1>4, RetroShapes DEF RetroPublish, Does
  <2>2. Kept(writing[r].retro) => [retros[writing[r].retro] EXCEPT !.draft = FALSE] \in RetroShape
    BY <2>1 DEF RetroShape
  <2> QED BY <1>4, <2>1, <2>2 DEF RetroPublish, Done, history, RetrosTypeOK
<1>5. ASSUME NEW r \in Request, RetroRemove(r) PROVE RetrosTypeOK'
  BY <1>5 DEF RetroRemove, Done, history, RetrosTypeOK
<1>6. ASSUME NEW r \in Request, RetroShareDelete(r) PROVE RetrosTypeOK'
  <2>1. writing[r] \in WritingShape /\ {s \in retroShares : s.retro = writing[r].retro} \in SUBSET ShareShape
    BY <1>6, RetroShapes DEF RetroShareDelete, Does, RetrosTypeOK
  <2> DEFINE w == [writing[r] EXCEPT !.op = "shareInsert",
                                     !.doomed = {s \in retroShares : s.retro = writing[r].retro}]
  <2>2. w \in WritingShape
    BY <2>1 DEF WritingShape
  <2>3. writing' = [writing EXCEPT ![r] = w]
    BY <1>6, RetroShapes DEF RetroShareDelete
  <2> HIDE DEF w
  <2> QED BY <1>6, <2>2, <2>3 DEF RetroShareDelete, history, RetrosTypeOK
<1>7. ASSUME NEW r \in Request, NEW readers \in Named,
             RetroShareInsert(r, readers) \/ RetroAddShare(r, readers)
      PROVE  RetrosTypeOK'
  <2> DEFINE x == writing[r].retro
  <2>1. x \in Retro /\ writing[r].missed \in SUBSET Reader /\ Accepted(x, readers)
    BY <1>7, RetroShapes DEF RetroShareInsert, RetroAddShare, Does
  <2>2. RowsFor(x, readers) \in SUBSET ShareShape /\ readers \in SUBSET Reader
    BY <2>1, NewRows DEF Accepted
  <2>3. writing' \in [Request -> WritingShape \union {NoRequest}]
    BY <1>7, <2>2, OvertakenShapes DEF RetroShareInsert, RetroAddShare
  <2> HIDE DEF x
  <2>4. CASE RetroShareInsert(r, readers)
    BY <2>1, <2>2, <2>3, <2>4 DEF RetroShareInsert, RetrosTypeOK, x
  <2>5. CASE RetroAddShare(r, readers)
    BY <2>1, <2>2, <2>3, <2>5 DEF RetroAddShare, RetrosTypeOK, x
  <2> QED BY <1>7, <2>4, <2>5
<1>8. ASSUME NEW r \in Request, (\E readers \in Named : RetroRefused(r, readers)) \/ RetroGivenUp(r)
      PROVE  RetrosTypeOK'
  BY <1>8 DEF RetroRefused, RetroGivenUp, Done, history, RetrosTypeOK
<1>9. ASSUME NEW r \in Request, NEW rows \in SUBSET retroShares, RetroRemoveShare(r, rows)
      PROVE  RetrosTypeOK'
  <2>1. {s.retro : s \in rows} \subseteq Retro
    BY RetroShapes
  <2> QED BY <1>9, <2>1 DEF RetroRemoveShare, Done, RetrosTypeOK
<1>10. CASE UNCHANGED retroVars
  BY <1>10 DEF retroVars, history, RetrosTypeOK
<1>11. CASE RetrosNext
  BY <1>1, <1>2, <1>3, <1>4, <1>5, <1>6, <1>7, <1>8, <1>9, <1>11, RetrosCases
<1> QED BY <1>10, <1>11

\* A step that leaves the shares alone, takes no row out of Absent and starts no
\* share keeps them.
LEMMA SharesUntouched ==
  ASSUME SharesKept, UNCHANGED <<retroShares, history>>,
         \A x \in Retro : (Kept(x)' => Kept(x)) /\ (retros'[x] = Absent => retros[x] = Absent),
         \A r \in Request : writing'[r] = writing[r] \/ writing'[r] = NoRequest \/ writing'[r].op # "shareInsert"
  PROVE  SharesKept'
<1>1. \A x \in Retro : SharedWith(x)' = SharedWith(x)
  BY DEF SharedWith
<1>2. \A r \in Request : Does(r, "shareInsert")' => Does(r, "shareInsert") /\ writing'[r] = writing[r]
  BY DEF Does
<1> QED BY <1>1, <1>2 DEF SharesKept, ShareUnderWay, history

\* A request that ends leaves no share behind.
LEMMA EndedRequests ==
  ASSUME RetrosTypeOK, NEW r \in Request, Done(r)
  PROVE  \A q \in Request : writing'[q] = writing[q] \/ writing'[q] = NoRequest
BY DEF Done, RetrosTypeOK

\* A write of readers to x, its new rows those of one createMany and what else is
\* left of x's shared with "left", keeps the shares when it knows whom it names.
LEMMA SharesWritten ==
  ASSUME RetrosInv, NEW r \in Request, NEW x \in Retro, NEW readers \in SUBSET Reader,
         NEW kept \in SUBSET retroShares, NEW left,
         Accepted(x, readers), Overtakes(r, x, readers), retros' = retros,
         retroShares' = kept \union RowsFor(x, readers),
         \A s \in retroShares : s.retro # x => s \in kept,
         left = {s.with : s \in {y \in kept : y.retro = x}},
         left \subseteq granted'[x] \union mixed'[x], readers \subseteq granted'[x],
         x \notin withdrawn' => granted'[x] \subseteq left \union readers,
         \A y \in Retro : y # x => /\ granted'[y] = granted[y] /\ mixed'[y] = mixed[y]
                                   /\ y \notin withdrawn' => y \notin withdrawn
  PROVE  SharesKept'
<1> DEFINE new == RowsFor(x, readers)
<1>1. (\A s \in new : s.retro = x) /\ {s.with : s \in new} = readers
  BY NewRows DEF RetrosInv
<1>2. retros[x] # Absent /\ Kept(x)
  BY DEF Accepted, Kept
<1>3. retroShares' = kept \union new
  OBVIOUS
<1> HIDE DEF new
<1>4. SharedWith(x)' = left \union readers
  BY <1>1, <1>3 DEF SharedWith
<1>5. ASSUME NEW y \in Retro, y # x
      PROVE  /\ SharedWith(y)' = SharedWith(y)
             /\ \A s \in retroShares' : s.retro = y => s \in retroShares
  BY <1>1, <1>3, <1>5 DEF SharedWith
<1>6. ASSUME NEW y \in Retro
      PROVE  /\ retros'[y] = Absent => granted'[y] = {} /\ \A s \in retroShares' : s.retro # y
             /\ SharedWith(y)' \subseteq granted'[y] \union mixed'[y]
             /\ Kept(y)' /\ y \notin withdrawn' => granted'[y] \subseteq SharedWith(y)'
  <2>1. CASE y = x
    BY <1>2, <1>4, <2>1 DEF Kept
  <2>2. CASE y # x
    BY <1>5, <2>2 DEF RetrosInv, SharesKept, Kept
  <2> QED BY <2>1, <2>2
<1>7. ASSUME NEW q \in Request, Does(q, "shareInsert")'
      PROVE  /\ \A s \in writing'[q].doomed : s.retro = writing'[q].retro
             /\ \A s \in retroShares' \ writing'[q].doomed :
                  s.retro = writing'[q].retro => s.with \in writing'[q].missed
  <2>1. q # r /\ writing'[q] # NoRequest
    BY <1>7, OvertakenShapes DEF Does, RetrosInv
  <2>2. CASE writing'[q] = writing[q] /\ (~Does(q, "shareInsert") \/ writing[q].retro # x)
    <3>1. Does(q, "shareInsert") /\ writing[q].retro # x
      BY <1>7, <2>2 DEF Does
    <3>2. \A s \in retroShares' : s.retro = writing[q].retro => s \in retroShares
      BY <1>1, <1>3, <3>1
    <3> QED BY <2>2, <3>1, <3>2 DEF RetrosInv, SharesKept, ShareUnderWay
  <2>3. CASE /\ writing[q] # NoRequest
             /\ writing'[q].op = writing[q].op /\ writing'[q].retro = x /\ writing[q].retro = x
             /\ writing'[q].doomed = writing[q].doomed
             /\ writing'[q].missed = writing[q].missed \union readers
    <3>1. Does(q, "shareInsert")
      BY <1>7, <2>3 DEF Does
    <3>2. /\ \A s \in writing[q].doomed : s.retro = x
          /\ \A s \in retroShares \ writing[q].doomed : s.retro = x => s.with \in writing[q].missed
      BY <2>3, <3>1 DEF RetrosInv, SharesKept, ShareUnderWay
    <3>3. \A s \in new : s.with \in readers
      BY <1>1
    <3> QED BY <1>3, <2>3, <3>2, <3>3
  <2> QED BY <2>1, <2>2, <2>3, OvertakenShapes DEF RetrosInv
<1>8. \A q \in Request : ShareUnderWay(q)'
  BY <1>7 DEF ShareUnderWay
<1> QED BY <1>6, <1>8 DEF SharesKept

\* A step that takes rows of shares away and starts no share keeps what the rest
\* says of requests.
LEMMA FewerShares ==
  ASSUME SharesKept, retroShares' \subseteq retroShares,
         \A r \in Request : writing'[r] = writing[r] \/ writing'[r] = NoRequest
  PROVE  \A r \in Request : ShareUnderWay(r)'
<1>1. \A r \in Request : Does(r, "shareInsert")' => Does(r, "shareInsert") /\ writing'[r] = writing[r]
  BY DEF Does
<1> QED BY <1>1 DEF SharesKept, ShareUnderWay

\* Every step keeps the shares and what was granted together
\* (retrospectives.service.ts:348-356).
LEMMA SharesStep == RetrosInv /\ [RetrosNext]_retroVars => SharesKept'
<1> SUFFICES ASSUME RetrosInv, [RetrosNext]_retroVars PROVE SharesKept'
  OBVIOUS
<1>0. /\ Absent # Gone /\ DOMAIN retros = Retro /\ DOMAIN granted = Retro /\ DOMAIN mixed = Retro
      /\ DOMAIN writing = Request /\ RetrosTypeOK
  BY DirectoryAssumption, RetroShapes DEF RetrosInv
<1>1. ASSUME NEW u \in User, NEW x \in Retro, NEW draft \in BOOLEAN, NEW visibility \in Visibility,
             RetroCreate(u, x, draft, visibility)
      PROVE  SharesKept'
  <2>1. /\ retroShares' = retroShares /\ granted' = granted /\ mixed' = mixed /\ withdrawn' = withdrawn
        /\ writing' = writing
        /\ \A y \in Retro : y # x => retros'[y] = retros[y]
        /\ retros[x] = Absent
    BY <1>0, <1>1 DEF RetroCreate, history
  <2>2. granted[x] = {} /\ \A y \in Retro : SharedWith(y)' = SharedWith(y)
    BY <2>1 DEF RetrosInv, SharesKept, SharedWith
  <2>3. retros'[x] # Absent
    <3>1. [author |-> u, draft |-> draft, visibility |-> visibility] \in RetroShape
      BY DEF RetroShape
    <3> QED BY <1>0, <1>1, <3>1, RetrosAssumption DEF RetroCreate
  <2>4. \A y \in Retro : y # x => (Kept(y)' <=> Kept(y))
    BY <2>1 DEF Kept
  <2>5. \A r \in Request : Does(r, "shareInsert")' <=> Does(r, "shareInsert")
    BY <2>1 DEF Does
  <2>6. \A r \in Request : ShareUnderWay(r)'
    BY <2>1, <2>5 DEF RetrosInv, SharesKept, ShareUnderWay
  <2> QED BY <2>1, <2>2, <2>3, <2>4, <2>6 DEF RetrosInv, SharesKept
<1>2. ASSUME NEW r \in Request, NEW u, NEW x, NEW op \in RetroOp, RetroRead(r, u, x, op) PROVE SharesKept'
  <2>1. \A q \in Request : writing'[q] = writing[q] \/ writing'[q].op # "shareInsert"
    BY <1>0, <1>2 DEF RetroRead, RetroOp
  <2> QED BY <1>2, <2>1, SharesUntouched DEF RetroRead, Kept, RetrosInv
<1>3. ASSUME NEW r \in Request, NEW draft \in BOOLEAN, NEW visibility \in Visibility,
             RetroUpdate(r, draft, visibility) \/ RetroPublish(r)
      PROVE  SharesKept'
  <2> DEFINE x == writing[r].retro
  <2>2. /\ \A y \in Retro : y # x => retros'[y] = retros[y]
        /\ ~Kept(x) => retros'[x] = retros[x]
        /\ Kept(x) => retros[x] \in RetroShape /\ retros'[x] \in RetroShape
    <3>1. x \in Retro /\ (Kept(x) => retros[x] \in RetroShape)
      BY <1>3, RetroShapes DEF RetroUpdate, RetroPublish, Does, RetrosInv
    <3>2. Kept(x) => /\ [retros[x] EXCEPT !.draft = draft, !.visibility = visibility] \in RetroShape
                     /\ [retros[x] EXCEPT !.draft = FALSE] \in RetroShape
      BY <3>1 DEF RetroShape
    <3> QED BY <1>0, <1>3, <3>1, <3>2 DEF RetroUpdate, RetroPublish
  <2>1. \A y \in Retro : (Kept(y)' => Kept(y)) /\ (retros'[y] = Absent => retros[y] = Absent)
    BY <2>2, RetrosAssumption DEF Kept
  <2>3. UNCHANGED <<retroShares, history>> /\ Done(r)
    BY <1>3 DEF RetroUpdate, RetroPublish
  <2>4. \A q \in Request : writing'[q] = writing[q] \/ writing'[q] = NoRequest
    BY <1>0, <2>3, EndedRequests
  <2> QED BY <2>1, <2>3, <2>4, SharesUntouched DEF RetrosInv
<1>4. ASSUME NEW r \in Request, RetroRemove(r) PROVE SharesKept'
  <2>1. PICK x \in Retro : /\ retros' = [retros EXCEPT ![x] = Gone]
                           /\ retroShares' = {s \in retroShares : s.retro # x}
                           /\ granted' = granted /\ mixed' = mixed /\ withdrawn' = withdrawn
    BY <1>4, RetroShapes DEF RetroRemove, Does, RetrosInv, history
  <2>2. ~Kept(x)' /\ retros'[x] # Absent /\ SharedWith(x)' = {}
    BY <1>0, <2>1 DEF Kept, SharedWith
  <2>3. ASSUME NEW y \in Retro, y # x
        PROVE  /\ Kept(y)' <=> Kept(y)
               /\ retros'[y] = retros[y]
               /\ SharedWith(y)' = SharedWith(y)
    BY <1>0, <2>1, <2>3 DEF Kept, SharedWith
  <2>4. \A q \in Request : writing'[q] = writing[q] \/ writing'[q] = NoRequest
    BY <1>0, <1>4, EndedRequests DEF RetroRemove
  <2>5. retroShares' \subseteq retroShares
    BY <2>1
  <2>6. ASSUME NEW y \in Retro
        PROVE  /\ retros'[y] = Absent => granted'[y] = {} /\ \A s \in retroShares' : s.retro # y
               /\ SharedWith(y)' \subseteq granted'[y] \union mixed'[y]
               /\ Kept(y)' /\ y \notin withdrawn' => granted'[y] \subseteq SharedWith(y)'
    BY <2>1, <2>2, <2>3, <2>5 DEF RetrosInv, SharesKept
  <2> QED BY <2>4, <2>5, <2>6, FewerShares DEF RetrosInv, SharesKept
<1>5. ASSUME NEW r \in Request, RetroShareDelete(r) PROVE SharesKept'
  <2>1. writing[r] \in WritingShape /\ UNCHANGED <<retros, retroShares, history>>
    BY <1>0, <1>5, RetroShapes DEF RetroShareDelete, Does
  <2>2. /\ writing'[r].retro = writing[r].retro
        /\ writing'[r].doomed = {s \in retroShares : s.retro = writing[r].retro}
        /\ \A q \in Request : q # r => writing'[q] = writing[q]
    BY <1>0, <1>5, <2>1 DEF RetroShareDelete, WritingShape
  <2>3. ASSUME NEW q \in Request PROVE ShareUnderWay(q)'
    <3>1. CASE q = r
      BY <2>1, <2>2, <3>1 DEF ShareUnderWay
    <3>2. CASE q # r
      BY <2>1, <2>2, <3>2 DEF Does, RetrosInv, SharesKept, ShareUnderWay
    <3> QED BY <3>1, <3>2
  <2>4. \A y \in Retro : SharedWith(y)' = SharedWith(y) /\ (Kept(y)' <=> Kept(y))
    BY <2>1 DEF SharedWith, Kept
  <2> QED BY <2>1, <2>3, <2>4 DEF RetrosInv, SharesKept, history
<1>6. ASSUME NEW r \in Request, NEW readers \in Named, RetroShareInsert(r, readers) PROVE SharesKept'
  <2>0. PICK x \in Retro : x = writing[r].retro
    BY <1>6, RetroShapes DEF RetroShareInsert, Does, RetrosInv
  <2> DEFINE kept == retroShares \ writing[r].doomed
             left == {s.with : s \in {y \in kept : y.retro = x}}
  <2>1. /\ Accepted(x, readers) /\ Overtakes(r, x, readers) /\ retros' = retros
        /\ retroShares' = kept \union RowsFor(x, readers)
        /\ granted' = [granted EXCEPT ![x] = readers]
        /\ mixed' = [mixed EXCEPT ![x] = writing[r].missed]
        /\ withdrawn' = withdrawn \ {x}
    BY <1>6, <2>0 DEF RetroShareInsert
  <2>2. readers \in SUBSET Reader /\ kept \in SUBSET retroShares
    BY <2>1 DEF Accepted
  <2>3. /\ \A s \in writing[r].doomed : s.retro = x
        /\ \A s \in kept : s.retro = x => s.with \in writing[r].missed
    BY <1>6, <2>0 DEF RetroShareInsert, RetrosInv, SharesKept, ShareUnderWay
  <2>4. left \subseteq writing[r].missed
    BY <2>3
  <2>5. \A s \in retroShares : s.retro # x => s \in kept
    BY <2>3
  <2> HIDE DEF kept
  <2>6. left = {s.with : s \in {y \in kept : y.retro = x}}
    OBVIOUS
  <2> HIDE DEF left
  <2>7. granted'[x] = readers /\ mixed'[x] = writing[r].missed
    BY <1>0, <2>1
  <2>8. \A y \in Retro : y # x => /\ granted'[y] = granted[y] /\ mixed'[y] = mixed[y]
                                  /\ y \notin withdrawn' => y \notin withdrawn
    BY <1>0, <2>1
  <2> QED BY <2>1, <2>2, <2>4, <2>5, <2>6, <2>7, <2>8, SharesWritten
<1>7. ASSUME NEW r \in Request, NEW readers \in Named, RetroAddShare(r, readers) PROVE SharesKept'
  <2>0. PICK x \in Retro : x = writing[r].retro
    BY <1>7, RetroShapes DEF RetroAddShare, Does, RetrosInv
  <2>1. /\ Accepted(x, readers) /\ Overtakes(r, x, readers) /\ retros' = retros
        /\ retroShares' = retroShares \union RowsFor(x, readers)
        /\ granted' = [granted EXCEPT ![x] = granted[x] \union readers]
        /\ mixed' = mixed /\ withdrawn' = withdrawn
    BY <1>7, <2>0 DEF RetroAddShare
  <2>2. readers \in SUBSET Reader
    BY <2>1 DEF Accepted
  <2>3. /\ SharedWith(x) \subseteq granted[x] \union mixed[x]
        /\ x \notin withdrawn => granted[x] \subseteq SharedWith(x)
    BY <2>1 DEF RetrosInv, SharesKept, Accepted
  <2>4. granted'[x] = granted[x] \union readers
    BY <1>0, <2>1
  <2>5. \A y \in Retro : y # x => /\ granted'[y] = granted[y] /\ mixed'[y] = mixed[y]
                                  /\ y \notin withdrawn' => y \notin withdrawn
    BY <1>0, <2>1
  <2>6. SharedWith(x) = {s.with : s \in {y \in retroShares : y.retro = x}}
    BY DEF SharedWith
  <2> QED BY <2>1, <2>2, <2>3, <2>4, <2>5, <2>6, SharesWritten
<1>8. ASSUME NEW r \in Request, (\E readers \in Named : RetroRefused(r, readers)) \/ RetroGivenUp(r)
      PROVE  SharesKept'
  <2>1. UNCHANGED <<retros, retroShares, history>> /\ Done(r)
    BY <1>8 DEF RetroRefused, RetroGivenUp
  <2>2. \A q \in Request : writing'[q] = writing[q] \/ writing'[q] = NoRequest
    BY <1>0, <2>1, EndedRequests
  <2> QED BY <2>1, <2>2, SharesUntouched DEF RetrosInv, Kept
<1>9. ASSUME NEW r \in Request, NEW rows \in SUBSET retroShares, RetroRemoveShare(r, rows)
      PROVE  SharesKept'
  <2>1. /\ retroShares' = retroShares \ rows /\ retros' = retros /\ granted' = granted /\ mixed' = mixed
        /\ withdrawn' = withdrawn \union {s.retro : s \in rows}
    BY <1>9 DEF RetroRemoveShare
  <2>2. \A y \in Retro : SharedWith(y)' \subseteq SharedWith(y)
    BY <2>1 DEF SharedWith
  <2>3. \A y \in Retro : y \notin withdrawn' => SharedWith(y)' = SharedWith(y)
    BY <2>1 DEF SharedWith
  <2>4. \A q \in Request : writing'[q] = writing[q] \/ writing'[q] = NoRequest
    BY <1>0, <1>9, EndedRequests DEF RetroRemoveShare
  <2>5. ASSUME NEW y \in Retro
        PROVE  /\ retros'[y] = Absent => granted'[y] = {} /\ \A s \in retroShares' : s.retro # y
               /\ SharedWith(y)' \subseteq granted'[y] \union mixed'[y]
               /\ Kept(y)' /\ y \notin withdrawn' => granted'[y] \subseteq SharedWith(y)'
    BY <2>1, <2>2, <2>3 DEF RetrosInv, SharesKept, Kept
  <2> QED BY <2>1, <2>4, <2>5, FewerShares DEF RetrosInv, SharesKept
<1>10. CASE UNCHANGED retroVars
  BY <1>10, SharesUntouched DEF retroVars, RetrosInv, Kept
<1>11. CASE RetrosNext
  BY <1>1, <1>2, <1>3, <1>4, <1>5, <1>6, <1>7, <1>8, <1>9, <1>11, RetrosCases
<1> QED BY <1>10, <1>11

\* The inductive invariant of the module holds throughout.
LEMMA RetrosInvariant == RetrosSpec => []RetrosInv
<1>1. RetrosInit => RetrosInv
  BY DEF RetrosInit, RetrosInv, RetrosTypeOK, SharesKept, ShareUnderWay, Does, SharedWith, Kept
<1>2. RetrosInv /\ [RetrosNext]_retroVars => RetrosInv'
  BY RetrosTypeStep, SharesStep DEF RetrosInv
<1> QED BY <1>1, <1>2, PTL DEF RetrosSpec

\* Retrospectives, shares and requests keep their shapes (all of the module).
THEOREM RetrosTypeCorrect == RetrosSpec => []RetrosTypeOK
<1>1. RetrosInv => RetrosTypeOK
  BY DEF RetrosInv
<1> QED BY RetrosInvariant, <1>1, PTL

\* However requests interleave and fail, whom the last share and later additions
\* named keep a retrospective but for removals by row id, and nobody else has it
\* but those named by writes that committed while that share was under way
\* (retrospectives.service.ts:348-356).
THEOREM SharesAreLatestAlways == RetrosSpec => []SharesAreLatest
<1>1. RetrosInv => SharesAreLatest
  BY DEF RetrosInv, SharesKept, SharesAreLatest
<1> QED BY RetrosInvariant, <1>1, PTL

\* A draft opens for its author, an OWNER and those whom the last share, later
\* additions or writes that overlapped that share named; the
\* lists and canAccess agree but on teamless authors' team retrospectives
\* (retrospectives.service.ts:52, 424, 480).
THEOREM RetroReadersAlways == RetrosSpec => []RetroReaders
<1>1. ASSUME RetrosInv PROVE RetroReaders
  <2> SUFFICES ASSUME NEW x \in Retro, NEW u \in User, Kept(x)
               PROVE  LET v == Viewer(u)
                      IN /\ IsDraft(x) /\ RetroOpens(v, x) =>
                              \/ u = retros[x].author \/ RoleOf[u] = "OWNER"
                              \/ {u, TeamOf[u]} \intersect (granted[x] \union mixed[x]) # {}
                         /\ SharedWithMe(v, x) \/ MyRetroListed(v, x) => RetroOpens(v, x)
                         /\ RetroListed(v, x) /\ ~IsDraft(x) => RetroOpens(v, x)
                         /\ RetroOpens(v, x) =>
                              \/ RetroListed(v, x)
                              \/ /\ retros[x].visibility = "TEAM" /\ TeamOf[u] = NoTeam
                                 /\ TeamOf[retros[x].author] = NoTeam
    BY DEF RetroReaders
  <2>1. SharedWith(x) \subseteq granted[x] \union mixed[x]
    BY <1>1 DEF RetrosInv, SharesKept
  <2> DEFINE v == Viewer(u)
  <2>2. v.id = u /\ v.role = RoleOf[u] /\ v.team = TeamOf[u]
    BY DEF Viewer
  <2> HIDE DEF v
  <2>3. SharedTo(v, x) => {u, TeamOf[u]} \intersect (granted[x] \union mixed[x]) # {}
    BY <2>1, <2>2 DEF SharedTo
  <2>4. IsDraft(x) /\ RetroOpens(v, x) =>
          \/ u = retros[x].author \/ RoleOf[u] = "OWNER"
          \/ {u, TeamOf[u]} \intersect (granted[x] \union mixed[x]) # {}
    BY <2>2, <2>3 DEF RetroOpens
  <2>5. SharedWithMe(v, x) \/ MyRetroListed(v, x) => RetroOpens(v, x)
    BY DEF SharedWithMe, MyRetroListed, RetroOpens
  <2>6. RetroListed(v, x) /\ ~IsDraft(x) => RetroOpens(v, x)
    BY DEF RetroListed, RetroOpens
  <2>7. RetroOpens(v, x) =>
          \/ RetroListed(v, x)
          \/ retros[x].visibility = "TEAM" /\ TeamOf[u] = NoTeam /\ TeamOf[retros[x].author] = NoTeam
    BY <2>2 DEF RetroListed, RetroOpens, SameTeam
  <2> QED BY <2>4, <2>5, <2>6, <2>7 DEF v
<1>2. RetrosInv => RetroReaders
  BY <1>1
<1> QED BY RetrosInvariant, <1>2, PTL
-----------------------------------------------------------------------------
(* Reports.  The days of a graph, whatever the length of a day and the        *)
(* server's time zone; and a report on tasks that did not change meanwhile.   *)

LEMMA Division ==
  ASSUME NEW a \in Int, NEW m \in Nat \ {0}
  PROVE  /\ a \div m \in Int
         /\ m * (a \div m) <= a /\ a < m * (a \div m) + m
OBVIOUS

\* Days follow one another.
LEMMA DaysInOrder ==
  ASSUME NEW a \in Int, NEW b \in Int, NEW m \in Nat \ {0}, NEW k \in Int
  PROVE  /\ a <= b => a \div m <= b \div m
         /\ (a + m * k) \div m = a \div m + k
         /\ a < b + m * k => a \div m <= b \div m + k
<1> DEFINE p == a \div m
           q == b \div m
<1>1. p \in Int /\ m * p <= a /\ a < m * p + m
  BY Division
<1>2. q \in Int /\ m * q <= b /\ b < m * q + m
  BY Division
<1> HIDE DEF p, q
<1>3. ASSUME NEW d \in Int, m * d < m PROVE d <= 0
  <2>1. ASSUME d >= 1 PROVE m * d >= m
    BY <2>1
  <2> QED BY <1>3, <2>1
<1>4. a <= b => p <= q
  <2> SUFFICES ASSUME a <= b PROVE p <= q
    OBVIOUS
  <2>1. m * (p - q) = m * p - m * q
    BY <1>1, <1>2
  <2>2. m * (p - q) < m
    BY <1>1, <1>2, <2>1
  <2> QED BY <1>1, <1>2, <1>3, <2>2
<1>5. (a + m * k) \div m = p + k
  <2> DEFINE r == (a + m * k) \div m
  <2>1. r \in Int /\ m * r <= a + m * k /\ a + m * k < m * r + m
    BY Division
  <2> HIDE DEF r
  <2>2. m * (r - p - k) = m * r - m * p - m * k /\ m * (p + k - r) = m * p + m * k - m * r
    BY <1>1, <2>1
  <2>3. m * (r - p - k) < m /\ m * (p + k - r) < m
    BY <1>1, <2>1, <2>2
  <2>4. r - p - k <= 0 /\ p + k - r <= 0
    BY <1>1, <1>3, <2>1, <2>3
  <2> QED BY <1>1, <2>1, <2>4 DEF r
<1>6. a < b + m * k => p <= q + k
  <2> SUFFICES ASSUME a < b + m * k PROVE p <= q + k
    OBVIOUS
  <2>1. m * (p - q - k) = m * p - m * q - m * k
    BY <1>1, <1>2
  <2>2. m * (p - q - k) < m
    <3> DEFINE x == m * p
               y == m * q
               z == m * k
    <3>1. x \in Int /\ y \in Int /\ z \in Int /\ x <= a /\ b < y + m
      BY <1>1, <1>2
    <3> HIDE DEF x, y, z
    <3>2. a < b + z
      BY DEF z
    <3>3. x - y - z < m
      BY <3>1, <3>2
    <3> QED BY <2>1, <3>3 DEF x, y, z
  <2> QED BY <1>1, <1>2, <1>3, <2>2
<1> QED BY <1>4, <1>5, <1>6 DEF p, q

\* The graph's days run from the day of the span's start without a gap.
LEMMA GraphDatesAre ==
  ASSUME ReportsTypeOK, NEW days \in Nat
  PROVE  /\ StartDate(days) \in Int
         /\ GraphDates(days) = UtcDay(StartDate(days)) .. (UtcDay(StartDate(days)) + days - 1)
<1>0. UnitsPerDay \in Nat \ {0} /\ Offset \in Int /\ clock \in Int /\ clock + Offset \in Int
  BY ReportsAssumption DEF ReportsTypeOK
<1>1. StartDate(days) \in Int
  <2>1. (clock + Offset) \div UnitsPerDay \in Int
    BY <1>0, Division
  <2> QED BY <1>0, <2>1 DEF StartDate
<1> DEFINE s == StartDate(days)
           d == UtcDay(s)
<1>2. d \in Int /\ s \in Int
  BY <1>0, <1>1, Division DEF UtcDay
<1>3. \A i \in Int : UtcDay(s + UnitsPerDay * i) = d + i
  BY <1>0, <1>1, DaysInOrder DEF UtcDay
<1>4. GraphDates(days) = {UtcDay(s + UnitsPerDay * i) : i \in 0 .. days - 1}
  BY DEF GraphDates
<1> HIDE DEF s, d
<1>5. GraphDates(days) = {d + i : i \in 0 .. days - 1}
  BY <1>3, <1>4
<1>6. \A x \in d .. (d + days - 1) : x - d \in 0 .. days - 1 /\ d + (x - d) = x
  BY <1>2
<1>7. \A i \in 0 .. days - 1 : d + i \in d .. (d + days - 1)
  BY <1>2
<1>8. GraphDates(days) = d .. (d + days - 1)
  BY <1>5, <1>6, <1>7
<1> QED BY <1>1, <1>8 DEF d, s

\* Of the tasks counted since the start, the graph misses only those of the last
\* two days.
LEMMA GraphMisses ==
  ASSUME ReportsTypeOK, NEW days \in Nat, NEW u, NEW t \in CompletedSince(u, StartDate(days)),
         ~(clock - work[t].completedAt < 2 * UnitsPerDay)
  PROVE  UtcDay(work[t].completedAt) \in GraphDates(days)
<1> DEFINE m == UnitsPerDay
           at == work[t].completedAt
           s == StartDate(days)
           local == (clock + Offset) \div m
<1>0. /\ m \in Nat \ {0} /\ Offset \in Int /\ clock \in Int /\ at \in Int /\ at >= s
      /\ clock + Offset \in Int /\ clock - at >= 2 * m
  BY ReportsAssumption DEF ReportsTypeOK, CompletedSince, WorkShape, Never
<1>1. s \in Int /\ GraphDates(days) = UtcDay(s) .. (UtcDay(s) + days - 1)
  BY GraphDatesAre
<1>2. local \in Int /\ clock + Offset < m * local + m
  BY <1>0, Division
<1>3. s = m * (local - days) - Offset
  BY DEF StartDate
<1> HIDE DEF m, at, s, local
<1>4. at < s + m * (days - 1)
  <2>1. m * (local - days) = m * local - m * days /\ m * (days - 1) = m * days - m
    BY <1>0, <1>2
  <2> DEFINE x == m * local
             y == m * days
  <2>2. x \in Int /\ y \in Int
    BY <1>0, <1>2
  <2>3. s = x - y - Offset /\ m * (days - 1) = y - m /\ clock + Offset < x + m
    BY <1>2, <1>3, <2>1
  <2> HIDE DEF x, y
  <2> QED BY <1>0, <2>2, <2>3
<1>5. s \div m <= at \div m /\ at \div m <= s \div m + (days - 1)
  <2> DEFINE k == days - 1
  <2>1. k \in Int /\ at < s + m * k
    BY <1>4
  <2> HIDE DEF k
  <2>2. s \div m <= at \div m
    BY <1>0, <1>1, <2>1, DaysInOrder
  <2>3. at \div m <= s \div m + k
    BY <1>0, <1>1, <2>1, DaysInOrder
  <2> QED BY <2>2, <2>3 DEF k
<1>6. at \div m \in Int /\ s \div m \in Int
  BY <1>0, <1>1, Division
<1>7. at \div m \in (s \div m) .. (s \div m + days - 1)
  BY <1>5, <1>6
<1> QED BY <1>1, <1>7 DEF UtcDay, m, at

\* A total counted since the last write counts the tasks that are there.
TotalsHold ==
  \A r \in Request : reports[r] # NoRequest =>
    /\ reports[r].asOf <= writes
    /\ reports[r].asOf = writes => reports[r].total = Cardinality(Filed(reports[r].team))
ReportsInv == ReportsTypeOK /\ TotalsHold

\* Every subset of the tasks is finite.
LEMMA TasksCount ==
  ASSUME NEW S \in SUBSET Task
  PROVE  IsFiniteSet(S) /\ Cardinality(S) \in Nat
<1>1. IsFiniteSet(Task)
  BY ReportsAssumption
<1>2. IsFiniteSet(S)
  BY <1>1, FS_Subset
<1> QED BY <1>2, FS_CardinalityType

LEMMA ReportsStep == ReportsInv /\ [ReportsNext]_reportVars => ReportsInv'
<1> SUFFICES ASSUME ReportsInv, [ReportsNext]_reportVars PROVE ReportsInv'
  OBVIOUS
<1>0. /\ ReportsTypeOK /\ TotalsHold /\ Sample \subseteq User
      /\ Absent \notin WorkShape /\ NoRequest \notin ReportShape
      /\ writes \in Nat /\ clock \in Nat
  BY ReportsAssumption, DirectoryAssumption DEF ReportsInv, ReportsTypeOK
<1>1. ASSUME NEW t \in Task, NEW row \in WorkShape \union {Absent}, WorkWrite(t, row)
      PROVE  ReportsInv'
  <2>1. /\ writes' = writes + 1 /\ work' = [work EXCEPT ![t] = row]
        /\ UNCHANGED <<clock, reports>>
    BY <1>1 DEF WorkWrite
  <2>2. ReportsTypeOK'
    BY <1>0, <2>1 DEF ReportsTypeOK
  <2>3. ASSUME NEW r \in Request, reports[r] # NoRequest
        PROVE  reports[r].asOf <= writes' /\ reports[r].asOf # writes'
    <3>1. reports[r].asOf \in Nat /\ reports[r].asOf <= writes
      BY <1>0, <2>3 DEF ReportsTypeOK, TotalsHold, ReportShape
    <3> QED BY <1>0, <2>1, <3>1
  <2> QED BY <2>1, <2>2, <2>3 DEF ReportsInv, TotalsHold
<1>2. ASSUME NEW t \in Task, work[t] # Absent
      PROVE  work[t] \in WorkShape
  BY <1>0, <1>2 DEF ReportsTypeOK
<1>3. ASSUME NEW t \in Task, NEW u \in Sample, NEW team \in Team, WorkCreate(t, u, team) PROVE ReportsInv'
  <2> DEFINE row == [assignee |-> u, team |-> team, status |-> "TODO", completedAt |-> Never]
  <2>1. row \in WorkShape
    BY <1>0 DEF WorkShape, WorkStatus
  <2> QED BY <1>1, <1>3, <2>1 DEF WorkCreate
<1>4. ASSUME NEW t \in Task, NEW dated \in BOOLEAN, WorkComplete(t, dated) PROVE ReportsInv'
  <2> DEFINE row == [work[t] EXCEPT !.status = "DONE", !.completedAt = IF dated THEN clock ELSE @]
  <2>1. row \in WorkShape
    BY <1>0, <1>2, <1>4 DEF WorkComplete, WorkShape, WorkStatus
  <2> QED BY <1>1, <1>4, <2>1 DEF WorkComplete
<1>5. ASSUME NEW t \in Task, WorkStart(t) PROVE ReportsInv'
  <2> DEFINE row == [work[t] EXCEPT !.status = "IN_PROGRESS"]
  <2>1. row \in WorkShape
    BY <1>2, <1>5 DEF WorkStart, WorkShape, WorkStatus
  <2> QED BY <1>1, <1>5, <2>1 DEF WorkStart
<1>6. ASSUME NEW t \in Task, WorkRemove(t) PROVE ReportsInv'
  BY <1>1, <1>6 DEF WorkRemove
<1>7. ASSUME UNCHANGED <<work, writes>>, clock' \in Nat, NEW r \in Request, NEW report,
             reports' = [reports EXCEPT ![r] = report],
             \/ report = NoRequest
             \/ /\ report \in ReportShape /\ report.asOf = writes
                /\ report.total = Cardinality(Filed(report.team))
      PROVE  ReportsInv'
  <2>1. ReportsTypeOK'
    BY <1>0, <1>7 DEF ReportsTypeOK
  <2>2. \A q \in Request : reports'[q] = IF q = r THEN report ELSE reports[q]
    BY <1>0, <1>7 DEF ReportsTypeOK
  <2>3. \A team : Filed(team)' = Filed(team)
    BY <1>7 DEF Filed
  <2>4. ASSUME NEW q \in Request, reports'[q] # NoRequest
        PROVE  /\ reports'[q].asOf <= writes
               /\ reports'[q].asOf = writes => reports'[q].total = Cardinality(Filed(reports'[q].team))
    BY <1>0, <1>7, <2>2, <2>4 DEF TotalsHold
  <2>5. TotalsHold'
    BY <1>7, <2>3, <2>4 DEF TotalsHold, Filed
  <2> QED BY <2>1, <2>5 DEF ReportsInv
<1>8. ASSUME NEW r \in Request, NEW team \in Team \union {NoTeam}, ReportTotal(r, team) PROVE ReportsInv'
  <2> DEFINE report == [team |-> team, total |-> Cardinality(Filed(team)), asOf |-> writes]
  <2>1. Filed(team) \in SUBSET Task
    BY DEF Filed
  <2>2. report \in ReportShape /\ report.asOf = writes /\ report.total = Cardinality(Filed(report.team))
    BY <1>0, <2>1, TasksCount DEF ReportShape
  <2>3. reports' = [reports EXCEPT ![r] = report] /\ UNCHANGED <<clock, work, writes>>
    BY <1>8 DEF ReportTotal
  <2> HIDE DEF report
  <2> QED BY <1>0, <1>7, <2>2, <2>3
<1>9. ASSUME NEW r \in Request, ReportEnd(r) PROVE ReportsInv'
  <2>1. reports' = [reports EXCEPT ![r] = NoRequest] /\ UNCHANGED <<clock, work, writes>>
    BY <1>9 DEF ReportEnd
  <2> QED BY <1>0, <1>7, <2>1
<1>10. ASSUME ReportClock \/ UNCHANGED reportVars PROVE ReportsInv'
  <2>1. clock' \in Nat /\ UNCHANGED <<work, writes, reports>>
    BY <1>0, <1>10 DEF ReportClock, reportVars
  <2>2. ReportsTypeOK'
    BY <1>0, <2>1 DEF ReportsTypeOK
  <2> QED BY <1>0, <2>1, <2>2 DEF ReportsInv, TotalsHold, Filed
<1> QED BY <1>3, <1>4, <1>5, <1>6, <1>8, <1>9, <1>10 DEF ReportsNext

LEMMA ReportsInvariant == ReportsSpec => []ReportsInv
<1>1. ReportsInit => ReportsInv
  BY DEF ReportsInit, ReportsInv, ReportsTypeOK, TotalsHold
<1> QED BY <1>1, ReportsStep, PTL DEF ReportsSpec

\* The clock, the tasks and the reports keep their types (teams.service.ts,
\* dashboard.service.ts).
THEOREM ReportsTypeCorrect == ReportsSpec => []ReportsTypeOK
<1>1. ReportsInv => ReportsTypeOK
  BY DEF ReportsInv
<1> QED BY <1>1, ReportsInvariant, PTL

\* Rounding the rate up does not lift it over 100.
LEMMA RateIsAPart ==
  ASSUME NEW done \in Nat, NEW total \in Nat, done <= total
  PROVE  CompletionRate(done, total) <= 100
<1> DEFINE half == total \div 2
           a == 100 * done + half
<1>1. CASE total > 0
  <2>1. half \in Int /\ 2 * half <= total
    BY <1>1, Division
  <2>2. a \in Int /\ a < total * 101
    BY <1>1, <2>1
  <2> DEFINE q == a \div total
  <2> HIDE DEF a
  <2>3. q \in Int /\ total * q <= a
    BY <1>1, <2>2, Division
  <2> HIDE DEF q
  <2>4. ASSUME q >= 101 PROVE total * q >= total * 101
    BY <1>1, <2>3, <2>4
  <2>5. q <= 100
    <3> DEFINE x == total * q
               y == total * 101
    <3>1. x \in Int /\ y \in Int /\ x <= a /\ a < y
      BY <2>2, <2>3
    <3> HIDE DEF x, y
    <3>2. q >= 101 => x >= y
      BY <2>4 DEF x, y
    <3> QED BY <2>2, <2>3, <3>1, <3>2
  <2> QED BY <1>1, <2>5 DEF q, a, CompletionRate
<1>2. CASE ~(total > 0)
  BY <1>2 DEF CompletionRate
<1> QED BY <1>1, <1>2

\* A member's graph, wherever the server's midnight lies, misses of what the
\* statistics count only tasks of the last two days, and a status report adds up
\* (teams.service.ts:636, 721-768, dashboard.service.ts:40, 188-206).
THEOREM ReportsAddUpAlways == ReportsSpec => []ReportsAddUp
<1>1. ASSUME ReportsInv PROVE ReportsAddUp
  <2>0. ReportsTypeOK /\ TotalsHold /\ Days \in Nat
    BY <1>1, ReportsAssumption DEF ReportsInv
  <2>1. ASSUME NEW u \in Sample
        PROVE  LET counted == MemberStats(u, Days).completedTasks
                   recent == {t \in CompletedSince(u, StartDate(Days)) :
                                clock - work[t].completedAt < 2 * UnitsPerDay}
               IN Shown(u, Days) \in counted - Cardinality(recent) .. counted
    <3> DEFINE C == CompletedSince(u, StartDate(Days))
               R == {t \in C : clock - work[t].completedAt < 2 * UnitsPerDay}
               S == UNION {DailyStats(u, Days)[date] : date \in GraphDates(Days)}
    <3>1. S = {t \in C : UtcDay(work[t].completedAt) \in GraphDates(Days)}
      BY DEF DailyStats
    <3>2. \A t \in C \ R : UtcDay(work[t].completedAt) \in GraphDates(Days)
      BY <2>0, GraphMisses
    <3>3. C \in SUBSET Task /\ R \subseteq C
      BY DEF CompletedSince
    <3>4. MemberStats(u, Days).completedTasks = Cardinality(C) /\ Shown(u, Days) = Cardinality(S)
      BY DEF MemberStats, Shown
    <3> HIDE DEF C, R, S
    <3>5. S \subseteq C /\ C \subseteq S \union R
      BY <3>1, <3>2
    <3>6. /\ {S, R, S \union R, S \intersect R, C} \subseteq SUBSET Task
      BY <3>3, <3>5
    <3>7. /\ IsFiniteSet(S) /\ IsFiniteSet(R) /\ IsFiniteSet(S \union R) /\ IsFiniteSet(C)
          /\ Cardinality(S) \in Nat /\ Cardinality(R) \in Nat /\ Cardinality(C) \in Nat
          /\ Cardinality(S \intersect R) \in Nat
      BY <3>6, TasksCount
    <3>8. Cardinality(S \union R) = Cardinality(S) + Cardinality(R) - Cardinality(S \intersect R)
      BY <3>7, FS_Union
    <3>9. Cardinality(C) <= Cardinality(S \union R) /\ Cardinality(S) <= Cardinality(C)
      BY <3>5, <3>7, FS_Subset
    <3>10. Cardinality(S) \in Cardinality(C) - Cardinality(R) .. Cardinality(C)
      BY <3>7, <3>8, <3>9
    <3> QED BY <3>4, <3>10 DEF C, R
  <2>2. ASSUME NEW r \in Request, reports[r] # NoRequest, reports[r].asOf = writes
        PROVE  LET parts == [status \in WorkStatus |-> Cardinality(InStatus(reports[r].team, status))]
               IN /\ parts["TODO"] + parts["IN_PROGRESS"] + parts["DONE"] = reports[r].total
                  /\ CompletionRate(parts["DONE"], reports[r].total) <= 100
    <3> DEFINE team == reports[r].team
               F == Filed(team)
               In(status) == InStatus(team, status)
               A == In("TODO")
               B == In("IN_PROGRESS")
               D == In("DONE")
    <3>1. reports[r].total = Cardinality(F)
      BY <2>0, <2>2 DEF TotalsHold
    <3>2. F \in SUBSET Task /\ \A t \in F : work[t].status \in WorkStatus
      BY <2>0 DEF Filed, ReportsTypeOK, WorkShape
    <3>3. /\ A = {t \in F : work[t].status = "TODO"} /\ B = {t \in F : work[t].status = "IN_PROGRESS"}
          /\ D = {t \in F : work[t].status = "DONE"}
      BY DEF InStatus
    <3>4. [status \in WorkStatus |-> Cardinality(In(status))]["TODO"] = Cardinality(A)
      BY DEF WorkStatus
    <3>5. [status \in WorkStatus |-> Cardinality(In(status))]["IN_PROGRESS"] = Cardinality(B)
      BY DEF WorkStatus
    <3>6. [status \in WorkStatus |-> Cardinality(In(status))]["DONE"] = Cardinality(D)
      BY DEF WorkStatus
    <3> HIDE DEF F, A, B, D
    <3>7. /\ A \union B \union D = F /\ A \intersect B = {} /\ (A \union B) \intersect D = {}
      BY <3>2, <3>3 DEF WorkStatus
    <3>8. {A, B, D, A \union B, F} \subseteq SUBSET Task
      BY <3>2, <3>3
    <3>9. /\ IsFiniteSet(A) /\ IsFiniteSet(B) /\ IsFiniteSet(D) /\ IsFiniteSet(A \union B)
          /\ Cardinality(A) \in Nat /\ Cardinality(B) \in Nat /\ Cardinality(D) \in Nat
          /\ Cardinality({}) = 0
      BY <3>8, TasksCount, FS_EmptySet
    <3>10. Cardinality(A \union B) = Cardinality(A) + Cardinality(B)
      BY <3>7, <3>9, FS_Union
    <3>11. Cardinality(F) = Cardinality(A) + Cardinality(B) + Cardinality(D)
      BY <3>7, <3>9, <3>10, FS_Union
    <3>12. CompletionRate(Cardinality(D), Cardinality(F)) <= 100
      BY <3>9, <3>11, RateIsAPart
    <3> QED BY <3>1, <3>4, <3>5, <3>6, <3>11, <3>12
  <2> QED BY <2>1, <2>2 DEF ReportsAddUp
<1>2. ReportsInv => ReportsAddUp
  BY <1>1
<1> QED BY <1>2, ReportsInvariant, PTL

-----------------------------------------------------------------------------
(* Network whitelist.  A mask keeps the leading bits of an address, by induction  *)
(* on its places; the numbers are doubled and halved as the code does.            *)

\* Induction: a set of numbers with 0 and the successor of each of its members is Nat.
LEMMA SetInduction ==
  ASSUME NEW S \in SUBSET Nat, 0 \in S, \A n \in S : n + 1 \in S
  PROVE  S = Nat
<1> DEFINE R == OpToRel(<, Nat)
           T == Nat \ S
<1>1. IsWellFoundedOn(R, Nat)
  BY NatLessThanWellFounded, Zenon
<1>2. ASSUME NEW n \in Nat, NEW m \in Nat, n < m PROVE <<n, m>> \in R
  BY <1>2, Zenon DEF OpToRel
<1> HIDE DEF R
<1>3. SUFFICES ASSUME T # {} PROVE FALSE
  OBVIOUS
<1>4. PICK m \in T : \A n \in T : <<n, m>> \notin R
  <2>1. T \subseteq Nat
    OBVIOUS
  <2> HIDE DEF T
  <2> QED BY <1>1, <1>3, <2>1, WFMin
<1>5. m - 1 \in Nat /\ m - 1 < m
  OBVIOUS
<1>6. m - 1 \in S
  BY <1>2, <1>4, <1>5
<1> QED BY <1>5, <1>6

\* Some function is the doubling that Pow2 chooses (`**`, network-whitelist.service.ts:212):
\* up to each n there is one, by induction, and those up to different n agree.
LEMMA PowUnfolds == Pow2 = [n \in Nat |-> IF n = 0 THEN 1 ELSE 2 * Pow2[n - 1]]
<1> DEFINE Good(g, n) == \A i \in 0 .. n : g[i] = IF i = 0 THEN 1 ELSE 2 * g[i - 1]
           S == {n \in Nat : \E g \in [0 .. n -> Nat] : Good(g, n)}
<1>1. 0 \in S
  <2>1. [i \in 0 .. 0 |-> 1] \in [0 .. 0 -> Nat] /\ Good([i \in 0 .. 0 |-> 1], 0)
    OBVIOUS
  <2> QED BY <2>1
<1>2. \A n \in S : n + 1 \in S
  <2> SUFFICES ASSUME NEW n \in S PROVE n + 1 \in S
    OBVIOUS
  <2>1. PICK g \in [0 .. n -> Nat] : Good(g, n)
    OBVIOUS
  <2> DEFINE h == [i \in 0 .. n + 1 |-> IF i = n + 1 THEN 2 * g[n] ELSE g[i]]
  <2>2. h \in [0 .. n + 1 -> Nat]
    OBVIOUS
  <2>3. Good(h, n + 1)
    <3> SUFFICES ASSUME NEW i \in 0 .. n + 1 PROVE h[i] = IF i = 0 THEN 1 ELSE 2 * h[i - 1]
      OBVIOUS
    <3>1. CASE i = n + 1
      BY <3>1
    <3>2. CASE i \in 0 .. n
      BY <2>1, <3>2
    <3> QED BY <3>1, <3>2
  <2> HIDE DEF Good, h
  <2>4. \E f \in [0 .. n + 1 -> Nat] : Good(f, n + 1)
    BY <2>2, <2>3
  <2> QED BY <2>4
<1>3. S = Nat
  <2>1. S \in SUBSET Nat
    OBVIOUS
  <2> HIDE DEF S
  <2> QED BY <1>1, <1>2, <2>1, SetInduction
<1> DEFINE G(n) == CHOOSE g \in [0 .. n -> Nat] : Good(g, n)
<1>4. ASSUME NEW n \in Nat PROVE G(n) \in [0 .. n -> Nat] /\ Good(G(n), n)
  <2>1. \E g \in [0 .. n -> Nat] : Good(g, n)
    BY <1>3
  <2> HIDE DEF Good
  <2> QED BY <2>1
<1>5. ASSUME NEW n \in Nat, NEW m \in Nat, n <= m PROVE G(n)[n] = G(m)[n]
  <2> DEFINE T == {k \in Nat : k <= n => G(n)[k] = G(m)[k]}
  <2>0. Good(G(n), n) /\ Good(G(m), m)
    BY <1>4
  <2> HIDE DEF G
  <2>1. 0 \in T
    BY <2>0, <1>5
  <2>2. \A k \in T : k + 1 \in T
    BY <2>0, <1>5
  <2>3. T = Nat
    <3>1. T \in SUBSET Nat
      OBVIOUS
    <3> HIDE DEF T
    <3> QED BY <2>1, <2>2, <3>1, SetInduction
  <2> QED BY <2>3
<1> DEFINE p == [n \in Nat |-> G(n)[n]]
<1>6. p = [n \in Nat |-> IF n = 0 THEN 1 ELSE 2 * p[n - 1]]
  <2>1. ASSUME NEW n \in Nat PROVE G(n)[n] = IF n = 0 THEN 1 ELSE 2 * p[n - 1]
    <3>1. Good(G(n), n)
      BY <1>4
    <3>2. ASSUME n # 0 PROVE n - 1 \in Nat /\ p[n - 1] = G(n)[n - 1]
      <4>1. n - 1 \in Nat /\ n - 1 <= n
        BY <3>2
      <4> HIDE DEF G
      <4> QED BY <4>1, <1>5
    <3> HIDE DEF G, p
    <3> QED BY <3>1, <3>2
  <2> DEFINE q == [n \in Nat |-> IF n = 0 THEN 1 ELSE 2 * p[n - 1]]
  <2>2. ASSUME NEW n \in Nat PROVE p[n] = q[n]
    <3>1. p[n] = G(n)[n]
      OBVIOUS
    <3> HIDE DEF G, p
    <3> QED BY <3>1, <2>1
  <2>3. p = [n \in Nat |-> p[n]] /\ q = [n \in Nat |-> q[n]]
    OBVIOUS
  <2> HIDE DEF p, q
  <2>4. p = q
    BY <2>2, <2>3
  <2> QED BY <2>4 DEF q
<1> HIDE DEF p
<1> QED BY <1>6 DEF Pow2

\* Powers of two double, and none is 0.
LEMMA Powers ==
  /\ Pow2[0] = 1
  /\ \A n \in Nat : Pow2[n] \in Nat \ {0} /\ Pow2[n + 1] = 2 * Pow2[n]
<1>1. \A n \in Nat : Pow2[n] = IF n = 0 THEN 1 ELSE 2 * Pow2[n - 1]
  <2> DEFINE q == [n \in Nat |-> IF n = 0 THEN 1 ELSE 2 * Pow2[n - 1]]
  <2>1. \A n \in Nat : q[n] = IF n = 0 THEN 1 ELSE 2 * Pow2[n - 1]
    OBVIOUS
  <2>2. Pow2 = q
    BY PowUnfolds
  <2> HIDE DEF q
  <2> QED BY <2>1, <2>2
<1>2. Pow2[0] = 1 /\ \A n \in Nat : Pow2[n + 1] = 2 * Pow2[n]
  BY <1>1
<1> DEFINE S == {n \in Nat : Pow2[n] \in Nat \ {0}}
<1>3. S = Nat
  <2>1. S \in SUBSET Nat /\ 0 \in S
    BY <1>2
  <2>2. \A n \in S : n + 1 \in S
    BY <1>2
  <2> HIDE DEF S
  <2> QED BY <2>1, <2>2, SetInduction
<1> QED BY <1>2, <1>3

\* To divide by twice as much is to divide and halve.
LEMMA Halving ==
  ASSUME NEW a \in Int, NEW m \in Nat \ {0}
  PROVE  a \div (2 * m) = (a \div m) \div 2
<1> DEFINE q == a \div m
           h == q \div 2
           r == a \div (2 * m)
<1>1. q \in Int /\ m * q <= a /\ a < m * q + m
  BY Division
<1>2. h \in Int /\ 2 * h <= q /\ q <= 2 * h + 1
  BY <1>1
<1>3. r \in Int /\ (2 * m) * r <= a /\ a < (2 * m) * r + 2 * m
  <2>1. 2 * m \in Nat \ {0}
    OBVIOUS
  <2> QED BY <2>1, Division
<1> HIDE DEF q, h, r
<1>4. ASSUME NEW d \in Int, (2 * m) * d < 2 * m PROVE d <= 0
  <2>1. ASSUME d >= 1 PROVE (2 * m) * d >= 2 * m
    BY <2>1
  <2> QED BY <1>4, <2>1
<1>5. m * q = (2 * m) * h \/ m * q = (2 * m) * h + m
  <2>1. q = 2 * h \/ q = 2 * h + 1
    BY <1>1, <1>2
  <2>2. m * (2 * h) = (2 * m) * h /\ m * (2 * h + 1) = (2 * m) * h + m
    BY <1>2
  <2> QED BY <2>1, <2>2
<1>6. /\ (2 * m) * (r - h) = (2 * m) * r - (2 * m) * h
      /\ (2 * m) * (h - r) = (2 * m) * h - (2 * m) * r
  BY <1>2, <1>3
<1>7. (2 * m) * (r - h) < 2 * m /\ (2 * m) * (h - r) < 2 * m
  <2> DEFINE x == m * q
             y == (2 * m) * h
             z == (2 * m) * r
  <2>1. x \in Int /\ y \in Int /\ z \in Int
    BY <1>1, <1>2, <1>3
  <2>2. /\ x <= a /\ a < x + m /\ z <= a /\ a < z + 2 * m
        /\ x = y \/ x = y + m
    BY <1>1, <1>3, <1>5
  <2>3. (2 * m) * (r - h) = z - y /\ (2 * m) * (h - r) = y - z
    BY <1>6
  <2> HIDE DEF x, y, z
  <2> QED BY <2>1, <2>2, <2>3
<1>8. r - h <= 0 /\ h - r <= 0
  BY <1>2, <1>3, <1>4, <1>7
<1> QED BY <1>2, <1>3, <1>8 DEF q, h, r

\* What is left of x without its i lowest bits.
Top(x, i) == x \div Pow2[i]

\* A bit is what two tops that follow one another differ in.
LEMMA TopStep ==
  ASSUME NEW x \in Int, NEW i \in Nat
  PROVE  /\ Top(x, i) \in Int
         /\ Top(x, i) = 2 * Top(x, i + 1) + Bit(x, i)
         /\ Bit(x, i) \in {0, 1}
<1>1. Pow2[i] \in Nat \ {0} /\ Pow2[i + 1] = 2 * Pow2[i]
  BY Powers
<1>2. x \div Pow2[i + 1] = (x \div Pow2[i]) \div 2
  BY <1>1, Halving
<1>3. Top(x, i) \in Int /\ Top(x, i + 1) = Top(x, i) \div 2 /\ Bit(x, i) = Top(x, i) % 2
  BY <1>1, <1>2 DEF Top, Bit
<1> QED BY <1>3

\* The top from place 0 is the number.
LEMMA TopWhole ==
  ASSUME NEW x \in Int
  PROVE  Top(x, 0) = x
BY Powers DEF Top

\* An address has no more than Width bits.
LEMMA TopOfAddress ==
  ASSUME NEW x \in Address
  PROVE  Top(x, Width) = 0
<1>1. Pow2[Width] \in Nat \ {0}
  BY WhitelistAssumption, Powers
<1>2. x \in Int /\ 0 <= x /\ x < Pow2[Width]
  BY <1>1 DEF Address
<1> QED BY <1>1, <1>2 DEF Top

\* The top of two addresses is the same from place k on exactly when their bits are.
LEMMA TopIsBits ==
  ASSUME NEW x \in Address, NEW y \in Address, NEW k \in 0 .. Width
  PROVE  Top(x, k) = Top(y, k) <=> \A i \in k .. Width - 1 : Bit(x, i) = Bit(y, i)
<1> USE WhitelistAssumption
<1>1. x \in Int /\ y \in Int
  BY Powers DEF Address
<1>2. ASSUME Top(x, k) = Top(y, k) PROVE \A i \in k .. Width - 1 : Bit(x, i) = Bit(y, i)
  <2> DEFINE S == {n \in Nat : Top(x, k + n) = Top(y, k + n)}
  <2>1. 0 \in S /\ S \in SUBSET Nat
    BY <1>2
  <2>2. ASSUME NEW n \in Nat, Top(x, k + n) = Top(y, k + n)
        PROVE  Top(x, k + n + 1) = Top(y, k + n + 1) /\ Bit(x, k + n) = Bit(y, k + n)
    <3>1. k + n \in Nat /\ k + n + 1 \in Nat
      OBVIOUS
    <3> DEFINE i == k + n
    <3>2. /\ Top(x, i) = 2 * Top(x, i + 1) + Bit(x, i) /\ Bit(x, i) \in {0, 1} /\ Top(x, i + 1) \in Int
          /\ Top(y, i) = 2 * Top(y, i + 1) + Bit(y, i) /\ Bit(y, i) \in {0, 1} /\ Top(y, i + 1) \in Int
      BY <1>1, <3>1, TopStep
    <3>3. Top(x, i) = Top(y, i)
      BY <2>2
    <3> HIDE DEF i
    <3>4. Top(x, i + 1) = Top(y, i + 1) /\ Bit(x, i) = Bit(y, i)
      BY <3>2, <3>3
    <3> QED BY <3>4 DEF i
  <2>3. \A n \in S : n + 1 \in S
    BY <2>2
  <2>4. S = Nat
    <3> HIDE DEF S
    <3> QED BY <2>1, <2>3, SetInduction
  <2>5. ASSUME NEW i \in k .. Width - 1 PROVE Bit(x, i) = Bit(y, i)
    <3>1. i - k \in Nat /\ k + (i - k) = i
      OBVIOUS
    <3>2. i - k \in S
      <4> HIDE DEF S
      <4> QED BY <2>4, <3>1
    <3> QED BY <2>2, <3>1, <3>2
  <2> QED BY <2>5
<1>3. ASSUME \A i \in k .. Width - 1 : Bit(x, i) = Bit(y, i) PROVE Top(x, k) = Top(y, k)
  <2> DEFINE S == {n \in Nat : n <= Width - k => Top(x, Width - n) = Top(y, Width - n)}
  <2>1. 0 \in S /\ S \in SUBSET Nat
    BY TopOfAddress
  <2>2. ASSUME NEW n \in S PROVE n + 1 \in S
    <3> SUFFICES ASSUME n + 1 <= Width - k
                 PROVE  Top(x, Width - (n + 1)) = Top(y, Width - (n + 1))
      OBVIOUS
    <3> DEFINE i == Width - (n + 1)
    <3>1. i \in Nat /\ i \in k .. Width - 1 /\ i + 1 = Width - n
      OBVIOUS
    <3>2. Top(x, i + 1) = Top(y, i + 1)
      BY <3>1
    <3> HIDE DEF i
    <3>3. /\ Top(x, i) = 2 * Top(x, i + 1) + Bit(x, i)
          /\ Top(y, i) = 2 * Top(y, i + 1) + Bit(y, i)
      BY <1>1, <3>1, TopStep
    <3>4. Bit(x, i) = Bit(y, i)
      BY <1>3, <3>1
    <3> QED BY <3>2, <3>3, <3>4 DEF i
  <2>3. S = Nat
    <3> HIDE DEF S
    <3> QED BY <2>1, <2>2, SetInduction
  <2>4. Width - k \in S
    <3>1. Width - k \in Nat
      OBVIOUS
    <3> HIDE DEF S
    <3> QED BY <2>3, <3>1
  <2>5. Width - (Width - k) = k
    OBVIOUS
  <2> QED BY <2>4, <2>5
<1> QED BY <1>2, <1>3

\* A mask with k places free has k zeros, then ones.
LEMMA MaskBits ==
  ASSUME NEW k \in 0 .. Width
  PROVE  /\ \A i \in 0 .. k - 1 : Bit(Pow2[Width] - Pow2[k], i) = 0
         /\ \A i \in k .. Width - 1 : Bit(Pow2[Width] - Pow2[k], i) = 1
<1> USE WhitelistAssumption
<1> DEFINE m == Pow2[Width] - Pow2[k]
           Left(i) == IF i <= k THEN Pow2[Width - i] - Pow2[k - i] ELSE Pow2[Width - i] - 1
           S == {n \in Nat : n <= Width => Top(m, n) = Left(n)}
<1>1. m \in Int
  BY Powers
<1>2. ASSUME NEW i \in 0 .. Width - 1
      PROVE  /\ i < k => Left(i) = 2 * Left(i + 1)
             /\ i >= k => Left(i) = 2 * Left(i + 1) + 1
             /\ Left(i + 1) \in Int
  <2>1. /\ Width - (i + 1) \in Nat
        /\ Pow2[Width - (i + 1)] \in Nat
        /\ Pow2[(Width - (i + 1)) + 1] = 2 * Pow2[Width - (i + 1)]
        /\ (Width - (i + 1)) + 1 = Width - i
    <3>1. Width - (i + 1) \in Nat /\ (Width - (i + 1)) + 1 = Width - i
      OBVIOUS
    <3> QED BY <3>1, Powers
  <2>2. CASE i < k
    <3>1. /\ k - (i + 1) \in Nat /\ (k - (i + 1)) + 1 = k - i
      BY <2>2
    <3>2. /\ Pow2[k - (i + 1)] \in Nat
          /\ Pow2[(k - (i + 1)) + 1] = 2 * Pow2[k - (i + 1)]
      BY <3>1, Powers
    <3> QED BY <2>1, <2>2, <3>1, <3>2
  <2>3. CASE i >= k
    <3>1. i = k => Pow2[k - i] = 1
      <4>1. k - k = 0
        OBVIOUS
      <4> QED BY <4>1, Powers
    <3> QED BY <2>1, <2>3, <3>1
  <2> QED BY <2>2, <2>3
<1>3. 0 \in S
  <2>1. Top(m, 0) = m
    BY <1>1, Powers DEF Top
  <2> HIDE DEF Top
  <2> QED BY <2>1
<1>4. ASSUME NEW i \in 0 .. Width - 1, Top(m, i) = Left(i)
      PROVE  /\ Top(m, i + 1) = Left(i + 1)
             /\ i < k => Bit(m, i) = 0
             /\ i >= k => Bit(m, i) = 1
  <2>1. Top(m, i) = 2 * Top(m, i + 1) + Bit(m, i) /\ Bit(m, i) \in {0, 1} /\ Top(m, i + 1) \in Int
    <3>1. i \in Nat /\ i + 1 \in Nat
      OBVIOUS
    <3> HIDE DEF m
    <3>2. \A j \in Nat : Top(m, j) = 2 * Top(m, j + 1) + Bit(m, j) /\ Bit(m, j) \in {0, 1} /\ Top(m, j) \in Int
      BY <1>1, TopStep
    <3> QED BY <3>1, <3>2
  <2>2. Left(i + 1) \in Int /\ (i < k \/ i >= k)
    BY <1>2
  <2>3. i < k => Left(i) = 2 * Left(i + 1)
    BY <1>2
  <2>4. i >= k => Left(i) = 2 * Left(i + 1) + 1
    BY <1>2
  <2> HIDE DEF m, Left
  <2> QED BY <1>4, <2>1, <2>2, <2>3, <2>4
<1>5. \A n \in S : n + 1 \in S
  BY <1>4
<1>6. S = Nat
  <2>1. S \in SUBSET Nat
    OBVIOUS
  <2> HIDE DEF S
  <2> QED BY <1>3, <1>5, <2>1, SetInduction
<1>7. ASSUME NEW i \in 0 .. Width - 1 PROVE Top(m, i) = Left(i)
  <2>1. i \in S /\ i <= Width
    BY <1>6
  <2> HIDE DEF m, Left
  <2> QED BY <2>1
<1> HIDE DEF m, Left
<1>8. \A i \in 0 .. Width - 1 : (i < k => Bit(m, i) = 0) /\ (i >= k => Bit(m, i) = 1)
  BY <1>4, <1>7
<1> QED BY <1>8 DEF m

\* Under the mask of a range two addresses are the same exactly when the leading bits
\* it names are (network-whitelist.service.ts:205-215).
LEMMA MaskIsPrefix ==
  ASSUME NEW x \in Address, NEW y \in Address, NEW bits \in 0 .. Width + 1
  PROVE  LET low == IF bits > Width THEN 1 ELSE Pow2[Width - bits]
         IN SameUnder(Mask(bits), x, y) <=> x \div low = y \div low
<1> USE WhitelistAssumption
<1> DEFINE k == IF bits >= Width THEN 0 ELSE Width - bits
           m == Mask(bits)
<1>1. k \in 0 .. Width
  OBVIOUS
<1>2. Pow2[k] = (IF bits > Width THEN 1 ELSE Pow2[Width - bits])
  <2>1. CASE bits >= Width
    <3>1. Width - Width = 0 /\ (bits > Width \/ bits = Width)
      BY <2>1
    <3> QED BY <2>1, <3>1, Powers
  <2>2. CASE bits < Width
    BY <2>2
  <2> QED BY <2>1, <2>2
<1>3. m = Pow2[Width] - Pow2[k]
  <2>1. CASE bits = 0
    <3>1. k = Width /\ m = 0
      BY <2>1 DEF Mask
    <3> QED BY <3>1, Powers
  <2>2. CASE bits # 0 /\ bits >= Width
    BY <2>2, Powers DEF Mask
  <2>3. CASE bits # 0 /\ bits < Width
    <3>1. k = Width - bits /\ k \in Nat
      BY <2>3
    <3>2. m = Pow2[Width] - 1 - (Pow2[k] - 1)
      BY <2>3, <3>1 DEF Mask
    <3>3. Pow2[Width] \in Nat /\ Pow2[k] \in Nat
      BY <3>1, Powers
    <3> HIDE DEF m, k
    <3> QED BY <3>2, <3>3
  <2> QED BY <2>1, <2>2, <2>3
<1> HIDE DEF k
<1>4. /\ \A i \in 0 .. k - 1 : Bit(m, i) = 0
      /\ \A i \in k .. Width - 1 : Bit(m, i) = 1
  BY <1>1, <1>3, MaskBits
<1>5. SameUnder(m, x, y) <=> \A i \in k .. Width - 1 : Bit(x, i) = Bit(y, i)
  <2>1. ASSUME NEW i \in 0 .. Width - 1 PROVE Bit(x, i) \in Int /\ Bit(y, i) \in Int
    <3>1. x \in Int /\ y \in Int /\ i \in Nat
      BY Powers DEF Address
    <3>2. Bit(x, i) \in {0, 1} /\ Bit(y, i) \in {0, 1}
      BY <3>1, TopStep
    <3> QED BY <3>2
  <2> HIDE DEF m
  <2>2. ASSUME NEW i \in 0 .. Width - 1
        PROVE  Bit(x, i) * Bit(m, i) = Bit(y, i) * Bit(m, i) <=> (i >= k => Bit(x, i) = Bit(y, i))
    <3>1. CASE i < k
      <4>1. Bit(m, i) = 0
        BY <1>1, <1>4, <3>1
      <4> QED BY <2>1, <3>1, <4>1, <1>1
    <3>2. CASE i >= k
      <4>1. Bit(m, i) = 1
        BY <1>1, <1>4, <3>2
      <4> QED BY <2>1, <3>2, <4>1
    <3> QED BY <1>1, <3>1, <3>2
  <2>3. SameUnder(m, x, y) <=> \A i \in 0 .. Width - 1 : (i >= k => Bit(x, i) = Bit(y, i))
    BY <2>2 DEF SameUnder
  <2> QED BY <1>1, <2>3
<1>6. SameUnder(m, x, y) <=> x \div Pow2[k] = y \div Pow2[k]
  BY <1>1, <1>5, TopIsBits DEF Top
<1> HIDE DEF m
<1> QED BY <1>2, <1>6 DEF m

\* The variables of the whitelist have their types.
THEOREM WhitelistTypeCorrect == WhitelistSpec => []WhitelistTypeOK
<1> DEFINE Row == [net : Address, bits : 0 .. Width + 1, enabled : BOOLEAN]
           Change == [op : {"update", "remove", "toggle"}, entry : Entry, enabled : BOOLEAN]
<1>1. WhitelistInit => WhitelistTypeOK
  BY DEF WhitelistInit, WhitelistTypeOK
<1>2. WhitelistTypeOK /\ [WhitelistNext]_whitelistVars => WhitelistTypeOK'
  <2> SUFFICES ASSUME WhitelistTypeOK, [WhitelistNext]_whitelistVars PROVE WhitelistTypeOK'
    OBVIOUS
  <2>1. entries \in [Entry -> Row \union {Absent, Gone}] /\ changes \in [Request -> Change \union {NoRequest}]
    BY DEF WhitelistTypeOK
  <2>2. ASSUME entries' \in [Entry -> Row \union {Absent, Gone}],
               changes' \in [Request -> Change \union {NoRequest}]
        PROVE  WhitelistTypeOK'
    BY <2>2 DEF WhitelistTypeOK
  <2>3. \A range \in CidrRange : range.net \in Address /\ range.bits \in 0 .. Width + 1
    BY DEF CidrRange
  <2>4. ASSUME NEW e \in Entry, Listed(e) PROVE entries[e] \in Row
    BY <2>1, <2>4 DEF Listed
  <2> HIDE DEF Row, Change
  <2>5. ASSUME NEW r \in Request, NEW op, NEW row, WhitelistWrite(r, op, row),
               Listed(changes[r].entry) => row \in Row \union {Absent, Gone}
        PROVE  WhitelistTypeOK'
    <3>1. entries' \in [Entry -> Row \union {Absent, Gone}]
      BY <2>1, <2>5 DEF WhitelistWrite
    <3>2. changes' \in [Request -> Change \union {NoRequest}]
      BY <2>1, <2>5 DEF WhitelistWrite
    <3> QED BY <2>2, <3>1, <3>2
  <2>6. ASSUME NEW r \in Request, changes[r] # NoRequest, Listed(changes[r].entry)
        PROVE  entries[changes[r].entry] \in Row /\ changes[r].enabled \in BOOLEAN
    <3>1. changes[r] \in Change
      BY <2>1, <2>6
    <3>2. changes[r].entry \in Entry /\ changes[r].enabled \in BOOLEAN
      BY <3>1 DEF Change
    <3> QED BY <2>4, <2>6, <3>2
  <2>7. ASSUME NEW e \in Entry, NEW range \in CidrRange, NEW enabled \in BOOLEAN,
               WhitelistCreate(e, range, enabled)
        PROVE  WhitelistTypeOK'
    <3>1. [net |-> range.net, bits |-> range.bits, enabled |-> enabled] \in Row
      BY <2>3 DEF Row
    <3> QED BY <2>1, <2>2, <2>7, <3>1 DEF WhitelistCreate
  <2>8. ASSUME NEW r \in Request, NEW e \in Entry, NEW op \in {"update", "toggle", "remove"},
               WhitelistFind(r, e, op)
        PROVE  WhitelistTypeOK'
    <3>1. [op |-> op, entry |-> e, enabled |-> ~entries[e].enabled] \in Change
      BY DEF Change
    <3> QED BY <2>1, <2>2, <2>8, <3>1 DEF WhitelistFind
  <2>9. ASSUME NEW r \in Request, NEW range \in CidrRange, NEW enabled \in BOOLEAN,
               WhitelistUpdate(r, range, enabled)
        PROVE  WhitelistTypeOK'
    <3> DEFINE row == [net |-> range.net, bits |-> range.bits, enabled |-> enabled]
    <3>1. WhitelistWrite(r, "update", row)
      BY <2>9 DEF WhitelistUpdate
    <3>2. row \in Row
      BY <2>3 DEF Row
    <3> HIDE DEF row
    <3> QED BY <2>5, <3>1, <3>2
  <2>10. ASSUME NEW r \in Request, WhitelistToggle(r) PROVE WhitelistTypeOK'
    <3> DEFINE old == entries[changes[r].entry]
               row == [old EXCEPT !.enabled = changes[r].enabled]
    <3>1. WhitelistWrite(r, "toggle", row) /\ changes[r] # NoRequest
      BY <2>10 DEF WhitelistToggle, WhitelistWrite
    <3>2. Listed(changes[r].entry) => row \in Row
      <4>1. old \in Row /\ changes[r].enabled \in BOOLEAN => row \in Row
        BY DEF Row
      <4> QED BY <2>6, <3>1, <4>1
    <3> HIDE DEF row
    <3> QED BY <2>5, <3>1, <3>2
  <2>11. ASSUME NEW r \in Request, WhitelistRemove(r) PROVE WhitelistTypeOK'
    BY <2>5, <2>11 DEF WhitelistRemove
  <2>12. CASE UNCHANGED whitelistVars
    BY <2>1, <2>2, <2>12 DEF whitelistVars
  <2> QED BY <2>7, <2>8, <2>9, <2>10, <2>11, <2>12 DEF WhitelistNext
<1> QED BY <1>1, <1>2, PTL DEF WhitelistSpec

\* Whatever ranges are listed, toggled and removed meanwhile, an address is let in when
\* none is enabled or when it has the leading bits of one that is, for any number of
\* bits to an address (network-whitelist.service.ts:190-215).
THEOREM AllowedByPrefixAlways == WhitelistSpec => []AllowedByPrefix
<1>1. WhitelistTypeOK => AllowedByPrefix
  <2> SUFFICES ASSUME WhitelistTypeOK, NEW ip \in Address
               PROVE  IsIpAllowed(ip) <=>
                        \/ \A e \in Entry : Listed(e) => ~entries[e].enabled
                        \/ \E e \in Entry :
                             /\ Listed(e) /\ entries[e].enabled
                             /\ LET low == IF entries[e].bits > Width THEN 1 ELSE Pow2[Width - entries[e].bits]
                                IN ip \div low = entries[e].net \div low
    BY DEF AllowedByPrefix
  <2>1. IpToLong(ip) = ip
    <3>1. ip \in Nat
      BY WhitelistAssumption, Powers DEF Address
    <3> QED BY <3>1, WhitelistAssumption DEF IpToLong
  <2>2. ASSUME NEW e \in Entry, Listed(e)
        PROVE  LET low == IF entries[e].bits > Width THEN 1 ELSE Pow2[Width - entries[e].bits]
               IN IsIpInCidr(ip, entries[e]) <=> ip \div low = entries[e].net \div low
    <3>1. entries[e].net \in Address /\ entries[e].bits \in 0 .. Width + 1
      BY <2>2 DEF WhitelistTypeOK, Listed
    <3> QED BY <2>1, <3>1, MaskIsPrefix DEF IsIpInCidr
  <2> QED BY <2>2 DEF IsIpAllowed, Enabled
<1> QED BY <1>1, WhitelistTypeCorrect, PTL
=============================================================================
