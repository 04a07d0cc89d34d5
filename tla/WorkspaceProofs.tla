--------------------------- MODULE WorkspaceProofs ---------------------------
(***************************************************************************)
(* The smaller services side by side: each behaves as by itself, so that   *)
(* its theorems hold of them together.  And those of the integrations, for *)
(* any users, tasks and requests: what GitHub made is written into its     *)
(* task, or a request under way is still to write it, or ended without;    *)
(* and what a task says, unless a user wrote it by hand, was made there.   *)
(***************************************************************************)
EXTENDS Workspace, OneRowProofs, QueryProofs, NotificationsProofs

-----------------------------------------------------------------------------
(* Issues and branches.                                                       *)

\* An issue of a task that has none by number, and was given none by hand, is still
\* to be written, or stranded.
Owed(i) ==
  \/ \E r \in Request : Waits(r, "recordIssue") /\ asking[r].num = i.num /\ asking[r].task = i.task
  \/ i.num \in stranded
Unrecorded(t) == Exists(t) /\ linked[t].issue = 0 /\ "issue" \notin linked[t].byHand
Recorded == \A i \in issues : i.task \in Task /\ Unrecorded(i.task) => Owed(i)

\* A number or branch a task has that no user put there was made for it.
Made ==
  \A t \in Task : Exists(t) =>
    /\ linked[t].issue # 0 /\ "issue" \notin linked[t].byHand => [num |-> linked[t].issue, task |-> t] \in issues
    /\ "branch" \notin linked[t].byHand => linked[t].branch \in branches \union {NoBranch}

\* What each request carries by the time it writes.
Carries(r) ==
  /\ Waits(r, "upsert") \/ Waits(r, "exchange") => asking[r].account \in Account
  /\ Waits(r, "link") => asking[r].task \in Task
  /\ Waits(r, "recordIssue") => /\ asking[r].task \in Task /\ asking[r].num # 0
                                /\ [num |-> asking[r].num, task |-> asking[r].task] \in issues
  /\ Waits(r, "findForIssue") => asking[r].task \in Task
  /\ Waits(r, "findForBranch") \/ Waits(r, "postBranch") \/ Waits(r, "recordBranch") =>
       asking[r].task \in Task /\ asking[r].branch \in Branch
  /\ Waits(r, "recordBranch") => asking[r].branch \in branches

IntegrationsInv ==
  /\ IntegrationsTypeOK /\ IsFiniteSet(issues)
  /\ \A r \in Request : Carries(r)
  /\ Recorded /\ Made

\* A request that goes on as w, all else being equal, where w carries what it must.
LEMMA AskingStep ==
  ASSUME IntegrationsInv, NEW r \in Request, ~Waits(r, "recordIssue"), NEW w \in AskingShape \union {NoRequest},
         Asks(r, w), issues \subseteq issues', branches \subseteq branches',
         w # NoRequest =>
           /\ w.op \in {"upsert", "exchange"} => w.account \in Account
           /\ w.op \in {"link", "findForIssue", "findForBranch", "postBranch", "recordBranch"} => w.task \in Task
           /\ w.op = "recordIssue" => /\ w.task \in Task /\ w.num # 0 /\ [num |-> w.num, task |-> w.task] \in issues'
           /\ w.op \in {"findForBranch", "postBranch", "recordBranch"} => w.branch \in Branch
           /\ w.op = "recordBranch" => w.branch \in branches'
  PROVE  /\ asking' \in [Request -> AskingShape \union {NoRequest}]
         /\ \A q \in Request : Carries(q)'
         /\ \A i \in issues : Owed(i) /\ stranded \subseteq stranded' => Owed(i)'
<1>1. asking \in [Request -> AskingShape \union {NoRequest}] /\ asking' = [asking EXCEPT ![r] = w]
  BY DEF IntegrationsInv, IntegrationsTypeOK, Asks
<1>2. Carries(r)'
  BY <1>1 DEF Carries, Waits
<1>3. ASSUME NEW q \in Request, q # r PROVE Carries(q)'
  <2>1. asking'[q] = asking[q] /\ Carries(q)
    BY <1>1, <1>3 DEF IntegrationsInv
  <2> QED BY <2>1 DEF Carries, Waits
<1>4. ASSUME NEW i \in issues, Owed(i), stranded \subseteq stranded' PROVE Owed(i)'
  <2>1. \A q \in Request : Waits(q, "recordIssue") => asking'[q] = asking[q]
    BY <1>1 DEF Waits
  <2> QED BY <1>4, <2>1 DEF Owed, Waits
<1> QED BY <1>1, <1>2, <1>3, <1>4

\* The steps of a request that touch neither tasks nor GitHub.
LEMMA QuietStep ==
  ASSUME IntegrationsInv, NEW r \in Request, ~Waits(r, "recordIssue"), NEW w \in AskingShape \union {NoRequest},
         Asks(r, w), Idles,
         w # NoRequest =>
           /\ w.op \in {"upsert", "exchange"} => w.account \in Account
           /\ w.op \in {"link", "findForIssue", "findForBranch", "postBranch"} => w.task \in Task
           /\ w.op \notin {"recordIssue", "recordBranch"}
           /\ w.op \in {"findForBranch", "postBranch"} => w.branch \in Branch
  PROVE  IntegrationsInv'
<1>1. /\ asking' \in [Request -> AskingShape \union {NoRequest}]
      /\ \A q \in Request : Carries(q)'
      /\ \A i \in issues : Owed(i) => Owed(i)'
  BY AskingStep DEF Idles
<1>2. Recorded' /\ Made'
  BY <1>1 DEF Idles, IntegrationsInv, Recorded, Unrecorded, Made, Exists
<1> QED BY <1>1, <1>2 DEF Idles, IntegrationsInv, IntegrationsTypeOK

\* The requests that only read or post outside, and the first steps of the others.
LEMMA EntryStep ==
  ASSUME IntegrationsInv, NEW r \in Request, NEW a \in Account,
         \/ CallbackEnter(r, a) \/ GetRepositories(r, a) \/ GetBranches(r, a) \/ GeneratePRTemplate(r, a)
         \/ SendMessage(r, a) \/ GetChannels(r, a) \/ GetTodayPRs(r, a)
         \/ GetAccessToken(r, a, Call("postIssue", NoRequest))
  PROVE  IntegrationsInv'
<1>1. asking[r] = NoRequest /\ Idles
  BY DEF CallbackEnter, GetRepositories, GetBranches, GeneratePRTemplate, SendMessage, GetChannels, GetTodayPRs,
         GetAccessToken
<1>2. CASE CallbackEnter(r, a)
  <2>1. [Call("exchange", NoRequest) EXCEPT !.account = a] \in AskingShape
        /\ [Call("exchange", NoRequest) EXCEPT !.account = a].op = "exchange"
        /\ [Call("exchange", NoRequest) EXCEPT !.account = a].account = a
    BY DEF Call, AskingShape, AskingOp, NoBranch, LinkField
  <2> QED BY <1>1, <1>2, <2>1, QuietStep DEF CallbackEnter, Waits
<1>3. CASE GetTodayPRs(r, a)
  <2>1. [Call("again", NoRequest) EXCEPT !.account = a] \in AskingShape
        /\ [Call("again", NoRequest) EXCEPT !.account = a].op = "again"
    BY DEF Call, AskingShape, AskingOp, NoBranch, LinkField
  <2> QED BY <1>1, <1>3, <2>1, QuietStep DEF GetTodayPRs, GetAccessToken, Waits
<1>4. ASSUME NEW op \in {"answer", "channels", "postIssue"}, Asks(r, Call(op, NoRequest)) PROVE IntegrationsInv'
  <2>1. Call(op, NoRequest) \in AskingShape /\ Call(op, NoRequest).op = op
    BY DEF Call, AskingShape, AskingOp, NoBranch, LinkField
  <2> QED BY <1>1, <1>4, <2>1, QuietStep DEF Waits
<1> QED BY <1>2, <1>3, <1>4 DEF GetRepositories, GetBranches, GeneratePRTemplate, SendMessage, GetChannels,
                              GetAccessToken

\* A call for a task: to open its issue, to make its branch, or to link it by hand.
LEMMA TaskEntryStep ==
  ASSUME IntegrationsInv, NEW r \in Request, NEW a, NEW t \in Task, NEW b \in Branch \union {NoBranch},
         NEW given \in SUBSET LinkField, NEW num \in HandNumber \union {0},
         \/ GetAccessToken(r, a, Call("findForIssue", t))
         \/ b \in Branch /\ GetAccessToken(r, a, [Call("findForBranch", t) EXCEPT !.branch = b])
         \/ LinkRead(r, t, given, num, b)
  PROVE  IntegrationsInv'
<1>1. asking[r] = NoRequest /\ Idles
  BY DEF GetAccessToken, LinkRead
<1>2. CASE GetAccessToken(r, a, Call("findForIssue", t))
  <2> DEFINE w == Call("findForIssue", t)
  <2>1. w \in AskingShape /\ w.op = "findForIssue" /\ w.task \in Task
    BY DEF Call, AskingShape, AskingOp, NoBranch, LinkField
  <2>2. Asks(r, w)
    BY <1>2 DEF GetAccessToken
  <2> HIDE DEF w
  <2> QED BY <1>1, <2>1, <2>2, QuietStep DEF Waits
<1>3. CASE b \in Branch /\ GetAccessToken(r, a, [Call("findForBranch", t) EXCEPT !.branch = b])
  <2> DEFINE w == [Call("findForBranch", t) EXCEPT !.branch = b]
  <2>1. w \in AskingShape /\ w.op = "findForBranch" /\ w.task \in Task /\ w.branch \in Branch
    BY <1>3 DEF Call, AskingShape, AskingOp, NoBranch, LinkField
  <2>2. Asks(r, w)
    BY <1>3 DEF GetAccessToken
  <2> HIDE DEF w
  <2> QED BY <1>1, <2>1, <2>2, QuietStep DEF Waits
<1>4. CASE LinkRead(r, t, given, num, b)
  <2> DEFINE w == [Call("link", t) EXCEPT !.given = given, !.num = num, !.branch = b]
  <2>0. num \in Nat
    BY NumberAssumption
  <2>1. w \in AskingShape /\ w.op = "link" /\ w.task \in Task
    BY <2>0 DEF Call, AskingShape, AskingOp
  <2>2. Asks(r, w)
    BY <1>4 DEF LinkRead
  <2> HIDE DEF w
  <2> QED BY <1>1, <2>1, <2>2, QuietStep DEF Waits
<1> QED BY <1>2, <1>3, <1>4

\* An answer from outside, or a look into the tables, that changes neither.
LEMMA MiddleStep ==
  ASSUME IntegrationsInv, NEW r \in Request,
         CallbackExchange(r) \/ PublicChannels(r) \/ ReadAgain(r) \/ Answered(r) \/ FindTask(r)
  PROVE  IntegrationsInv'
<1> DEFINE a == asking[r]
<1>1. Idles /\ a # NoRequest /\ a \in AskingShape /\ Carries(r)
  BY DEF CallbackExchange, PublicChannels, ReadAgain, Answered, FindTask, Waits, IntegrationsInv, IntegrationsTypeOK
<1>2. CASE CallbackExchange(r)
  <2> DEFINE w == [a EXCEPT !.op = "upsert"]
  <2>1. w \in AskingShape /\ w.op = "upsert" /\ w.account \in Account /\ Asks(r, w)
    BY <1>1, <1>2 DEF CallbackExchange, AskingShape, AskingOp, Carries
  <2>2. ~Waits(r, "recordIssue")
    BY <1>2 DEF CallbackExchange, Waits
  <2> HIDE DEF w
  <2> QED BY <1>1, <2>1, <2>2, QuietStep
<1>3. CASE FindTask(r)
  <2> DEFINE w == [a EXCEPT !.op = IF a.op = "findForIssue" THEN "postIssue" ELSE "postBranch"]
  <2>1. /\ w \in AskingShape /\ w.op \in {"postIssue", "postBranch"} /\ w.task \in Task
        /\ w.op = "postBranch" => w.branch \in Branch
    BY <1>1, <1>3 DEF FindTask, Waits, AskingShape, AskingOp, Carries
  <2>2. ~Waits(r, "recordIssue") /\ (Asks(r, w) \/ Asks(r, NoRequest))
    BY <1>3 DEF FindTask, Waits
  <2> HIDE DEF w
  <2> QED BY <1>1, <2>1, <2>2, QuietStep
<1>4. CASE PublicChannels(r) \/ ReadAgain(r) \/ Answered(r)
  <2>1. Call("answer", NoRequest) \in AskingShape /\ Call("answer", NoRequest).op = "answer"
    BY DEF Call, AskingShape, AskingOp, NoBranch, LinkField
  <2>2. ~Waits(r, "recordIssue") /\ (Asks(r, Call("answer", NoRequest)) \/ Asks(r, NoRequest))
    BY <1>4 DEF PublicChannels, ReadAgain, Answered, Waits
  <2> QED BY <1>1, <2>1, <2>2, QuietStep
<1> QED BY <1>2, <1>3, <1>4

\* An issue is made, and either its request goes on to record it or it is stranded.
LEMMA IssueStep ==
  ASSUME IntegrationsInv, NEW r \in Request, PostIssue(r) \/ PostIssueUnheard(r)
  PROVE  IntegrationsInv'
<1> DEFINE a == asking[r]
           num == Cardinality(issues) + 1
           new == [num |-> num, task |-> a.task]
           w == [a EXCEPT !.op = "recordIssue", !.num = num]
<1>1. /\ a # NoRequest /\ a \in AskingShape /\ a.op = "postIssue" /\ ~Waits(r, "recordIssue")
      /\ issues' = issues \union {new} /\ UNCHANGED <<tokens, linked, branches>> /\ stranded \subseteq stranded'
  BY DEF PostIssue, PostIssueUnheard, Waits, IntegrationsInv, IntegrationsTypeOK
<1>2. IsFiniteSet(issues') /\ num \in Nat /\ num # 0
  <2>1. IsFiniteSet(issues)
    BY DEF IntegrationsInv
  <2>2. Cardinality(issues) \in Nat
    BY <2>1, FS_CardinalityType
  <2>3. \A x : IsFiniteSet(issues \union {x})
    BY <2>1, FS_AddElement
  <2>4. \E x : issues' = issues \union {x}
    BY <1>1
  <2>5. IsFiniteSet(issues')
    BY <2>3, <2>4
  <2> QED BY <2>2, <2>5
<1>3. issues' \in SUBSET [num : Nat, task : Task \union {NoRequest}]
  BY <1>1, <1>2 DEF IntegrationsInv, IntegrationsTypeOK, AskingShape
<1>4. w \in AskingShape /\ w.op = "recordIssue" /\ w.num = num /\ w.task = a.task
  BY <1>1, <1>2 DEF AskingShape, AskingOp
<1>5. \/ a.task = NoRequest /\ Asks(r, NoRequest) /\ stranded' = stranded
      \/ a.task \in Task /\ Asks(r, w) /\ stranded' = stranded
      \/ Asks(r, NoRequest) /\ stranded' = stranded \union {num}
  BY <1>1 DEF PostIssue, PostIssueUnheard, AskingShape
<1>0. new \in issues' /\ \A i \in issues' : i \in issues \/ (i = new /\ i.num = num /\ i.task = a.task)
  BY <1>1
<1> HIDE DEF num, w, new
<1>6. /\ asking' \in [Request -> AskingShape \union {NoRequest}]
      /\ \A q \in Request : Carries(q)'
      /\ \A i \in issues : Owed(i) /\ stranded \subseteq stranded' => Owed(i)'
  <2>1. CASE Asks(r, NoRequest)
    BY <1>1, <2>1, AskingStep
  <2>2. CASE a.task \in Task /\ Asks(r, w)
    <3>1. [num |-> w.num, task |-> w.task] \in issues'
      BY <1>0, <1>4 DEF new
    <3> QED BY <1>1, <1>2, <1>4, <2>2, <3>1, AskingStep
  <2> QED BY <1>5, <2>1, <2>2
<1>7. ASSUME NEW i \in issues', i.num = num, i.task = a.task, i.task \in Task PROVE Owed(i)'
  <2>1. CASE Asks(r, w)
    BY <1>4, <1>7, <2>1, IntegrationsAssumption DEF Asks, Owed, Waits, IntegrationsInv, IntegrationsTypeOK
  <2>2. CASE stranded' = stranded \union {num}
    BY <1>7, <2>2 DEF Owed
  <2> QED BY <1>5, <1>7, <2>1, <2>2, IntegrationsAssumption
<1>8. Recorded'
  BY <1>0, <1>1, <1>6, <1>7 DEF Recorded, Unrecorded, Exists, IntegrationsInv
<1>9. Made'
  BY <1>1 DEF Made, Exists, IntegrationsInv
<1>10. stranded' \in SUBSET Nat
  BY <1>2, <1>5 DEF IntegrationsInv, IntegrationsTypeOK
<1> QED BY <1>1, <1>2, <1>3, <1>6, <1>8, <1>9, <1>10 DEF IntegrationsInv, IntegrationsTypeOK

\* A branch is made, and its request goes on to record it.
LEMMA BranchStep ==
  ASSUME IntegrationsInv, NEW r \in Request, PostBranch(r)
  PROVE  IntegrationsInv'
<1> DEFINE a == asking[r]
           w == [a EXCEPT !.op = "recordBranch"]
<1>1. /\ a # NoRequest /\ a \in AskingShape /\ a.op = "postBranch" /\ ~Waits(r, "recordIssue")
      /\ branches' = branches \union {a.branch} /\ UNCHANGED <<tokens, linked, issues, stranded>>
      /\ Asks(r, w) /\ a.branch \in Branch /\ a.task \in Task
  BY DEF PostBranch, Waits, Carries, IntegrationsInv, IntegrationsTypeOK
<1>2. w \in AskingShape /\ w.op = "recordBranch" /\ w.branch = a.branch /\ w.task = a.task
  BY <1>1 DEF AskingShape, AskingOp
<1> HIDE DEF w
<1>3. /\ asking' \in [Request -> AskingShape \union {NoRequest}]
      /\ \A q \in Request : Carries(q)'
      /\ \A i \in issues : Owed(i) => Owed(i)'
  BY <1>1, <1>2, AskingStep
<1>4. Recorded' /\ Made'
  BY <1>1, <1>3 DEF IntegrationsInv, Recorded, Unrecorded, Made, Exists
<1> QED BY <1>1, <1>3, <1>4 DEF IntegrationsInv, IntegrationsTypeOK

\* A task gets the number or the branch its request carries, if it is still there.
LEMMA WriteStep ==
  ASSUME IntegrationsInv, NEW r \in Request, RecordIssue(r) \/ RecordBranch(r) \/ LinkTaskToGithub(r)
  PROVE  IntegrationsInv'
<1> DEFINE a == asking[r]
           t == a.task
<1>1. /\ a # NoRequest /\ a \in AskingShape /\ Carries(r) /\ t \in Task /\ a.num \in Nat
      /\ asking' = [asking EXCEPT ![r] = NoRequest] /\ UNCHANGED <<tokens, issues, branches, stranded>>
  BY DEF RecordIssue, RecordBranch, LinkTaskToGithub, Waits, Asks, Carries, AskingShape, IntegrationsInv,
         IntegrationsTypeOK
<1>2. \A q \in Request : Carries(q)'
  <2>1. Carries(r)'
    BY <1>1 DEF Carries, Waits, IntegrationsInv, IntegrationsTypeOK
  <2>2. ASSUME NEW q \in Request, q # r PROVE Carries(q)'
    <3>1. asking'[q] = asking[q] /\ Carries(q)
      BY <1>1, <2>2 DEF IntegrationsInv, IntegrationsTypeOK
    <3> QED BY <1>1, <3>1 DEF Carries, Waits
  <2> QED BY <2>1, <2>2
<1>3. asking' \in [Request -> AskingShape \union {NoRequest}]
  BY <1>1 DEF IntegrationsInv, IntegrationsTypeOK
<1>4. ASSUME NEW i \in issues, Owed(i), ~Waits(r, "recordIssue") \/ i.task # t PROVE Owed(i)'
  <2>1. \A q \in Request : q # r => asking'[q] = asking[q]
    BY <1>1 DEF IntegrationsInv, IntegrationsTypeOK
  <2> QED BY <1>1, <1>4, <2>1 DEF Owed, Waits
<1>5. CASE ~Exists(t)
  <2>1. linked' = linked
    BY <1>5 DEF RecordIssue, RecordBranch, LinkTaskToGithub
  <2>2. Recorded' /\ Made'
    BY <1>1, <1>4, <1>5, <2>1 DEF IntegrationsInv, Recorded, Unrecorded, Made, Exists
  <2> QED BY <1>1, <1>2, <1>3, <2>1, <2>2 DEF IntegrationsInv, IntegrationsTypeOK
<1>6. CASE Exists(t)
  <2>1. linked[t] \in LinkShape
    BY <1>1, <1>6 DEF Exists, IntegrationsInv, IntegrationsTypeOK
  <2>2. \E row \in LinkShape :
          /\ linked' = [linked EXCEPT ![t] = row]
          /\ Waits(r, "recordIssue") => row.issue # 0
          /\ "issue" \notin row.byHand =>
               \/ row.issue = linked[t].issue /\ "issue" \notin linked[t].byHand
               \/ row.issue # 0 /\ [num |-> row.issue, task |-> t] \in issues
          /\ "branch" \notin row.byHand =>
               \/ row.branch = linked[t].branch /\ "branch" \notin linked[t].byHand
               \/ row.branch \in branches
    <3>1. CASE RecordIssue(r)
      <4> DEFINE row == [linked[t] EXCEPT !.issue = a.num, !.byHand = linked[t].byHand \ {"issue"}]
      <4>1. /\ row \in LinkShape /\ row.issue = a.num /\ row.branch = linked[t].branch
            /\ row.byHand = linked[t].byHand \ {"issue"}
        BY <1>1, <2>1 DEF LinkShape
      <4>2. linked' = [linked EXCEPT ![t] = row]
        BY <1>1, <1>6, <3>1 DEF RecordIssue, Exists, IntegrationsInv, IntegrationsTypeOK
      <4>3. a.num # 0 /\ [num |-> a.num, task |-> t] \in issues
        BY <1>1, <3>1 DEF RecordIssue, Carries
      <4> HIDE DEF row
      <4> QED BY <4>1, <4>2, <4>3
    <3>2. CASE RecordBranch(r)
      <4> DEFINE row == [linked[t] EXCEPT !.branch = a.branch, !.byHand = linked[t].byHand \ {"branch"}]
      <4>1. a.branch \in branches /\ a.branch \in Branch /\ ~Waits(r, "recordIssue")
        BY <1>1, <3>2 DEF RecordBranch, Carries, Waits
      <4>2. /\ row \in LinkShape /\ row.issue = linked[t].issue /\ row.branch = a.branch
            /\ row.byHand = linked[t].byHand \ {"branch"}
        BY <2>1, <4>1 DEF LinkShape
      <4>3. linked' = [linked EXCEPT ![t] = row]
        BY <1>1, <1>6, <3>2 DEF RecordBranch, Exists, IntegrationsInv, IntegrationsTypeOK
      <4> HIDE DEF row
      <4> QED BY <4>1, <4>2, <4>3
    <3>3. CASE LinkTaskToGithub(r)
      <4> DEFINE row == [issue  |-> IF "issue" \in a.given THEN a.num ELSE linked[t].issue,
                         branch |-> IF "branch" \in a.given THEN a.branch ELSE linked[t].branch,
                         byHand |-> linked[t].byHand \union a.given]
      <4>1. ~Waits(r, "recordIssue")
        BY <3>3 DEF LinkTaskToGithub, Waits
      <4>2. row \in LinkShape
        BY <1>1, <2>1 DEF LinkShape, AskingShape
      <4>3. /\ row.byHand = linked[t].byHand \union a.given
            /\ "issue" \notin a.given => row.issue = linked[t].issue
            /\ "branch" \notin a.given => row.branch = linked[t].branch
        OBVIOUS
      <4>4. linked' = [linked EXCEPT ![t] = row]
        BY <1>1, <1>6, <3>3 DEF LinkTaskToGithub, Exists, IntegrationsInv, IntegrationsTypeOK
      <4> HIDE DEF row
      <4> QED BY <4>1, <4>2, <4>3, <4>4
    <3> QED BY <3>1, <3>2, <3>3
  <2>3. PICK row \in LinkShape :
          /\ linked' = [linked EXCEPT ![t] = row]
          /\ Waits(r, "recordIssue") => row.issue # 0
          /\ "issue" \notin row.byHand =>
               \/ row.issue = linked[t].issue /\ "issue" \notin linked[t].byHand
               \/ row.issue # 0 /\ [num |-> row.issue, task |-> t] \in issues
          /\ "branch" \notin row.byHand =>
               \/ row.branch = linked[t].branch /\ "branch" \notin linked[t].byHand
               \/ row.branch \in branches
    BY <2>2
  <2>4. linked' \in [Task -> LinkShape \union {Gone}] /\ linked'[t] = row
        /\ \A k \in Task : k # t => linked'[k] = linked[k]
    BY <1>1, <2>3 DEF IntegrationsInv, IntegrationsTypeOK
  <2>5. Recorded'
    BY <1>1, <1>4, <1>6, <2>3, <2>4 DEF IntegrationsInv, Recorded, Unrecorded, Exists
  <2>6. Made'
    BY <1>1, <1>6, <2>3, <2>4 DEF IntegrationsInv, Made, Exists
  <2> QED BY <1>1, <1>2, <1>3, <2>4, <2>5, <2>6 DEF IntegrationsInv, IntegrationsTypeOK
<1> QED BY <1>5, <1>6

\* Tokens come and go; a request may die, and strands the issue it was to record.
LEMMA OtherStep ==
  ASSUME IntegrationsInv,
         \/ \E a \in Account : Disconnect(a)
         \/ \E r \in Request : CallbackUpsert(r) \/ AskingDies(r)
         \/ \E t \in Task : LinkedTaskRemoved(t)
  PROVE  IntegrationsInv'
<1> USE DEF IntegrationsInv, IntegrationsTypeOK
<1>1. ASSUME NEW a \in Account, Disconnect(a) PROVE IntegrationsInv'
  BY <1>1 DEF Disconnect, Carries, Waits, Recorded, Unrecorded, Owed, Made, Exists
<1>2. ASSUME NEW t \in Task, LinkedTaskRemoved(t) PROVE IntegrationsInv'
  <2>1. /\ linked' \in [Task -> LinkShape \union {Gone}] /\ UNCHANGED <<tokens, issues, branches, asking, stranded>>
        /\ \A k \in Task : Exists(k)' => Exists(k) /\ linked'[k] = linked[k]
    BY <1>2 DEF LinkedTaskRemoved, Exists
  <2>2. \A r \in Request : Carries(r)'
    BY <2>1 DEF Carries, Waits
  <2>3. Recorded' /\ Made'
    BY <2>1 DEF Recorded, Unrecorded, Owed, Waits, Made
  <2> QED BY <2>1, <2>2, <2>3
<1>3. ASSUME NEW r \in Request, CallbackUpsert(r) \/ AskingDies(r) PROVE IntegrationsInv'
  <2>1. /\ asking' = [asking EXCEPT ![r] = NoRequest] /\ asking[r] \in AskingShape
        /\ UNCHANGED <<linked, issues, branches>> /\ stranded \subseteq stranded'
        /\ Waits(r, "recordIssue") => asking[r].num \in stranded'
    BY <1>3 DEF CallbackUpsert, AskingDies, Asks, Waits
  <2>2. tokens' \subseteq Account /\ stranded' \in SUBSET Nat
    BY <1>3, <2>1 DEF CallbackUpsert, AskingDies, Carries, AskingShape
  <2>3. asking' \in [Request -> AskingShape \union {NoRequest}]
    BY <2>1
  <2>4. \A q \in Request : Carries(q)'
    <3>1. Carries(r)'
      BY <2>1 DEF Carries, Waits
    <3>2. ASSUME NEW q \in Request, q # r PROVE Carries(q)'
      <4>1. asking'[q] = asking[q] /\ Carries(q)
        BY <2>1, <3>2
      <4> QED BY <2>1, <4>1 DEF Carries, Waits
    <3> QED BY <3>1, <3>2
  <2>5. ASSUME NEW i \in issues, Owed(i) PROVE Owed(i)'
    <3>1. \A q \in Request : q # r => asking'[q] = asking[q]
      BY <2>1
    <3> QED BY <2>1, <2>5, <3>1 DEF Owed, Waits
  <2>6. Recorded' /\ Made'
    BY <2>1, <2>5 DEF Recorded, Unrecorded, Made, Exists
  <2> QED BY <2>1, <2>2, <2>3, <2>4, <2>6
<1> QED BY <1>1, <1>2, <1>3

\* The invariant of the integrations.
LEMMA IntegrationsInvariant == IntegrationsSpec => []IntegrationsInv
<1>1. IntegrationsInit => IntegrationsInv
  <2> SUFFICES ASSUME IntegrationsInit PROVE IntegrationsInv
    OBVIOUS
  <2>1. IntegrationsTypeOK
    BY DEF IntegrationsInit, IntegrationsTypeOK, LinkShape
  <2>2. (\A r \in Request : Carries(r)) /\ Recorded /\ IsFiniteSet(issues)
    BY FS_EmptySet DEF IntegrationsInit, Carries, Waits, Recorded
  <2>3. Made
    BY DEF IntegrationsInit, Made, Exists
  <2> QED BY <2>1, <2>2, <2>3 DEF IntegrationsInv
<1>2. IntegrationsInv /\ [IntegrationsNext]_integrationVars => IntegrationsInv'
  <2> SUFFICES ASSUME IntegrationsInv, [IntegrationsNext]_integrationVars PROVE IntegrationsInv'
    OBVIOUS
  <2>1. CASE UNCHANGED integrationVars
    BY <2>1 DEF integrationVars, IntegrationsInv, IntegrationsTypeOK, Carries, Waits, Recorded, Unrecorded,
                  Owed, Made, Exists
  <2>2. CASE IntegrationsNext
    <3>1. \/ \E a \in Account : Disconnect(a)
          \/ \E r \in Request, a \in Account :
               \/ CallbackEnter(r, a) \/ GetRepositories(r, a) \/ GetBranches(r, a) \/ GeneratePRTemplate(r, a)
               \/ SendMessage(r, a) \/ GetChannels(r, a) \/ GetTodayPRs(r, a)
               \/ GetAccessToken(r, a, Call("postIssue", NoRequest))
          \/ \E r \in Request, a \in Account, t \in Task :
               \/ GetAccessToken(r, a, Call("findForIssue", t))
               \/ \E b \in Branch : GetAccessToken(r, a, [Call("findForBranch", t) EXCEPT !.branch = b])
          \/ \E r \in Request, t \in Task, given \in SUBSET LinkField, num \in HandNumber \union {0},
                b \in Branch \union {NoBranch} : LinkRead(r, t, given, num, b)
          \/ \E r \in Request : \/ CallbackExchange(r) \/ PublicChannels(r) \/ ReadAgain(r) \/ Answered(r) \/ FindTask(r)
                                \/ PostIssue(r) \/ PostIssueUnheard(r) \/ PostBranch(r)
                                \/ RecordIssue(r) \/ RecordBranch(r) \/ LinkTaskToGithub(r)
                                \/ CallbackUpsert(r) \/ AskingDies(r)
          \/ \E t \in Task : LinkedTaskRemoved(t)
      BY <2>2 DEF IntegrationsNext
    <3> QED BY <3>1, EntryStep, TaskEntryStep, MiddleStep, IssueStep, BranchStep, WriteStep, OtherStep
  <2> QED BY <2>1, <2>2
<1> QED BY <1>1, <1>2, PTL DEF IntegrationsSpec

\* Tokens, links, issues, branches and requests keep their shapes (github.service.ts,
\* slack.service.ts).
THEOREM IntegrationsTypeCorrect == IntegrationsSpec => []IntegrationsTypeOK
<1>1. IntegrationsInv => IntegrationsTypeOK
  BY DEF IntegrationsInv
<1> QED BY <1>1, IntegrationsInvariant, PTL

\* Of what no user wrote by hand: a task with no issue number has none at GitHub
\* but those a request under way will write or ended without; the number it has is
\* that of an issue opened for it, and its branch one that was made
\* (github.service.ts:175-312).
THEOREM IssuesAreRecordedAlways == IntegrationsSpec => []IssuesAreRecorded
<1>1. IntegrationsInv => IssuesAreRecorded
  <2> SUFFICES ASSUME IntegrationsInv, NEW t \in Task, Exists(t)
               PROVE  LET opened == {i.num : i \in {j \in issues : j.task = t}}
                          underWay == {asking[r].num : r \in {q \in Request : Waits(q, "recordIssue")}}
                      IN /\ "issue" \notin linked[t].byHand =>
                              IF linked[t].issue = 0 THEN opened \subseteq underWay \union stranded
                              ELSE linked[t].issue \in opened
                         /\ "branch" \notin linked[t].byHand => linked[t].branch \in branches \union {NoBranch}
    BY DEF IssuesAreRecorded
  <2> DEFINE opened == {i.num : i \in {j \in issues : j.task = t}}
             underWay == {asking[r].num : r \in {q \in Request : Waits(q, "recordIssue")}}
  <2>1. ASSUME linked[t].issue = 0, "issue" \notin linked[t].byHand, NEW i \in issues, i.task = t
        PROVE  i.num \in underWay \union stranded
    <3>1. Owed(i)
      BY <2>1 DEF IntegrationsInv, Recorded, Unrecorded
    <3> QED BY <3>1 DEF Owed
  <2>2. linked[t].issue # 0 /\ "issue" \notin linked[t].byHand => linked[t].issue \in opened
    <3>1. \A n : [num |-> n, task |-> t] \in issues => n \in opened
      OBVIOUS
    <3> QED BY <3>1 DEF IntegrationsInv, Made
  <2>3. "branch" \notin linked[t].byHand => linked[t].branch \in branches \union {NoBranch}
    BY DEF IntegrationsInv, Made
  <2> QED BY <2>1, <2>2, <2>3
<1> QED BY <1>1, IntegrationsInvariant, PTL

-----------------------------------------------------------------------------
(* Side by side.  Two services may move at once, or any number of them, as long *)
(* as each keeps to its own specification: what the running server does.        *)

SideBySide ==
  /\ AccessSpec /\ AttendanceSpec /\ DocumentsSpec /\ RetrosSpec /\ WhitelistSpec
  /\ NotificationsSpec /\ ThreadsSpec /\ IntegrationsSpec /\ ReportsSpec

\* What each service keeps by itself it keeps among the others, however they take
\* turns: presences per slot, favourites, readers, lists, ranges, notices, issues and
\* totals (app.module.ts:37, with the lines of each property).
THEOREM SideBySideSound ==
  SideBySide => /\ []AttendancePerSlot /\ []FavouriteIsLastAnswer /\ []SharesAreLatest /\ []RetroReaders
                /\ []AccessAgrees /\ []AllowedByPrefix /\ []IssuesAreRecorded /\ []ReportsAddUp
                /\ []CommentIsHeard /\ []OnlineIsReached
BY AttendancePerSlotAlways, FavouriteIsLastAnswerAlways, SharesAreLatestAlways,
   RetroReadersAlways, AccessAgreesAlways, AllowedByPrefixAlways, IssuesAreRecordedAlways,
   ReportsAddUpAlways, CommentIsHeardAlways, OnlineIsReachedAlways, PTL DEF SideBySide

\* With one service open and the others at rest, each still does what its own
\* specification allows: what TLC checks is one way to run them (app.module.ts:37).
THEOREM ServicesRunApart == Spec => SideBySide
<1>1. Init => /\ AccessInit /\ AttendanceInit /\ DocumentsInit /\ RetrosInit /\ WhitelistInit
              /\ NotificationsInit /\ ThreadsInit /\ IntegrationsInit /\ ReportsInit
  BY DEF Init
<1>2. [Next]_vars => /\ [AccessNext]_<<probe, asks>> /\ [AttendanceNext]_attendanceVars
                     /\ [DocumentsNext]_documentVars /\ [RetrosNext]_retroVars
                     /\ [WhitelistNext]_whitelistVars /\ [NotificationsNext]_noticeVars
                     /\ [ThreadsNext]_threadVars /\ [IntegrationsNext]_integrationVars
                     /\ [ReportsNext]_reportVars
  <2> SUFFICES ASSUME [Next]_vars
               PROVE  /\ [AccessNext]_accessVars /\ [AttendanceNext]_attendanceVars
                      /\ [DocumentsNext]_documentVars /\ [RetrosNext]_retroVars
                      /\ [WhitelistNext]_whitelistVars /\ [NotificationsNext]_noticeVars
                      /\ [ThreadsNext]_threadVars /\ [IntegrationsNext]_integrationVars
                      /\ [ReportsNext]_reportVars
    BY DEF accessVars
  <2>1. CASE UNCHANGED vars
    BY <2>1 DEF vars
  <2>2. CASE Next
    BY <2>2 DEF Next
  <2> QED BY <2>1, <2>2
<1> QED BY <1>1, <1>2, PTL DEF Spec, SideBySide, AccessSpec, AttendanceSpec, DocumentsSpec, RetrosSpec, WhitelistSpec,
                               NotificationsSpec, ThreadsSpec, IntegrationsSpec, ReportsSpec

\* One service is open, for good.
LEMMA OpenStays == Spec => [](open \in Services)
<1>1. Init => open \in Services
  BY DEF Init
<1>2. open \in Services /\ [Next]_vars => (open \in Services)'
  BY DEF Next, vars
<1> QED BY <1>1, <1>2, PTL DEF Spec

\* The variables of every service have their types, also next to the others.
THEOREM WorkspaceTypeCorrect == Spec => []WorkspaceTypeOK
<1>1. WorkspaceTypeOK <=>
        /\ open \in Services
        /\ AccessTypeOK /\ AttendanceTypeOK /\ DocumentsTypeOK /\ RetrosTypeOK /\ WhitelistTypeOK
        /\ NotificationsTypeOK /\ ThreadsTypeOK /\ IntegrationsTypeOK /\ ReportsTypeOK
  BY DEF WorkspaceTypeOK
<1> QED BY <1>1, OpenStays, ServicesRunApart, AccessTypeCorrect, AttendanceTypeCorrect,
           DocumentsTypeCorrect, RetrosTypeCorrect, WhitelistTypeCorrect, NotificationsTypeCorrect,
           ThreadsTypeCorrect, IntegrationsTypeCorrect, ReportsTypeCorrect, PTL DEF SideBySide

\* The properties of the smaller services, where TLC checks them (app.module.ts:37,
\* with the lines of each property).
THEOREM WorkspaceSound ==
  Spec => /\ []AttendancePerSlot /\ []FavouriteIsLastAnswer /\ []SharesAreLatest /\ []RetroReaders
          /\ []AccessAgrees /\ []AllowedByPrefix /\ []IssuesAreRecorded /\ []ReportsAddUp
          /\ []CommentIsHeard /\ []OnlineIsReached
BY ServicesRunApart, SideBySideSound, PTL
=============================================================================
