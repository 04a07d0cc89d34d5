---------------------------- MODULE Integrations ----------------------------
(***************************************************************************)
(* GithubService and SlackService: the tokens users connected, and the     *)
(* requests that call the outside with one.  An issue or branch is made at *)
(* GitHub first and written into its task after; the outside call, the     *)
(* update or the process may fail in between.  What a user links by hand   *)
(* is written as given, whether GitHub has it or not.  GitHub itself is a  *)
(* set of issues and of branches; the pull requests are TaskWorkflow's.    *)
(***************************************************************************)
EXTENDS Directory

CONSTANTS
  Branch,
  HandNumber, \* the issue numbers users link by hand
  OpenTask,   \* the tasks that were not removed before
  Account     \* the <<user, provider>> that connect and disconnect

Provider == {"GITHUB", "SLACK"}

ASSUME AccountAssumption == Account \subseteq User \X Provider
ASSUME NumberAssumption == HandNumber \subseteq Nat

VARIABLES
  tokens,      \* the UserIntegration table: <<user, provider>>
  linked,      \* each task: [issue, branch, byHand], 0 and NoBranch unset, byHand
               \* (history) which of the two a user wrote last; or Gone
  issues,      \* GitHub's: [num, task], the task NoRequest when made from a git log
  branches,    \* GitHub's
  asking,      \* what each request is doing
  stranded     \* history: issues whose request ended before the update

integrationVars == <<tokens, linked, issues, branches, asking, stranded>>

NoBranch == NoRequest
LinkField == {"issue", "branch"}

IntegrationsInit ==
  /\ tokens = {} /\ issues = {} /\ branches = {} /\ stranded = {}
  /\ linked = [t \in Task |-> IF t \in OpenTask
                             THEN [issue |-> 0, branch |-> NoBranch, byHand |-> {}] ELSE Gone]
  /\ asking = [r \in Request |-> NoRequest]

Exists(t) == linked[t] # Gone
Asks(r, what) == asking' = [asking EXCEPT ![r] = what]
Waits(r, op) == asking[r] # NoRequest /\ asking[r].op = op
Call(op, t) ==
  [op |-> op, account |-> NoRequest, task |-> t, num |-> 0, branch |-> NoBranch, given |-> {}]

Idles == UNCHANGED <<tokens, linked, issues, branches, stranded>>

\* handleCallback: the code is exchanged for a token, the account asked for with
\* it, both outside, and the row upserted.
CallbackEnter(r, a) ==
  /\ asking[r] = NoRequest
  /\ Asks(r, [Call("exchange", NoRequest) EXCEPT !.account = a])
  /\ Idles
CallbackExchange(r) ==
  /\ Waits(r, "exchange")
  /\ Asks(r, [asking[r] EXCEPT !.op = "upsert"])
  /\ Idles
CallbackUpsert(r) ==
  /\ Waits(r, "upsert") /\ tokens' = tokens \union {asking[r].account}
  /\ Asks(r, NoRequest)
  /\ UNCHANGED <<linked, issues, branches, stranded>>
Disconnect(a) ==
  /\ a \in tokens /\ tokens' = tokens \ {a}
  /\ UNCHANGED <<linked, issues, branches, asking, stranded>>

\* getStatus; and getAccessToken, which every outside call of a user starts with.
Connected(a) == a \in tokens
GetAccessToken(r, a, call) ==
  /\ asking[r] = NoRequest /\ Connected(a)
  /\ Asks(r, call)
  /\ Idles

\* The calls that only read or post outside end in "answer".
GetRepositories(r, a) == a[2] = "GITHUB" /\ GetAccessToken(r, a, Call("answer", NoRequest))
GetBranches(r, a) == a[2] = "GITHUB" /\ GetAccessToken(r, a, Call("answer", NoRequest))
GeneratePRTemplate(r, a) == a[2] = "GITHUB" /\ GetAccessToken(r, a, Call("answer", NoRequest))
SendMessage(r, a) == a[2] = "SLACK" /\ GetAccessToken(r, a, Call("answer", NoRequest))
\* Two lists, of which the second may fail.
GetChannels(r, a) == a[2] = "SLACK" /\ GetAccessToken(r, a, Call("channels", NoRequest))
PublicChannels(r) ==
  /\ Waits(r, "channels")
  /\ Asks(r, Call("answer", NoRequest))
  /\ Idles
\* getTodayPRs looks for the row once more (and, with no repository named, again
\* in getRepositories), and fails if it is gone by then.
GetTodayPRs(r, a) ==
  /\ a[2] = "GITHUB"
  /\ GetAccessToken(r, a, [Call("again", NoRequest) EXCEPT !.account = a])
ReadAgain(r) ==
  /\ Waits(r, "again")
  /\ Asks(r, IF Connected(asking[r].account) THEN Call("answer", NoRequest) ELSE NoRequest)
  /\ Idles
\* Whatever the outside answers, or if it does not.
Answered(r) ==
  /\ asking[r] # NoRequest /\ asking[r].op \notin {"recordIssue", "recordBranch"}
  /\ Asks(r, NoRequest)
  /\ Idles

FindTask(r) ==
  LET a == asking[r]
      next == IF a.op = "findForIssue" THEN "postIssue" ELSE "postBranch"
  IN /\ Waits(r, "findForIssue") \/ Waits(r, "findForBranch")
     /\ Asks(r, IF Exists(a.task) THEN [a EXCEPT !.op = next] ELSE NoRequest)
     /\ Idles

\* createIssueFromTask and createIssueFromGitLog, which records nothing.
\* Mutant: a task with a branch is taken to be done.
PostIssue_Forgets(r) ==
  LET a == asking[r]
      num == Cardinality(issues) + 1
  IN /\ Waits(r, "postIssue") /\ num <= MaxRows
     /\ issues' = issues \union {[num |-> num, task |-> a.task]}
     /\ Asks(r, IF a.task = NoRequest \/ ~Exists(a.task) THEN NoRequest
                ELSE IF linked[a.task].branch # NoBranch THEN NoRequest
                ELSE [a EXCEPT !.op = "recordIssue", !.num = num])
     /\ UNCHANGED <<tokens, linked, branches, stranded>>
PostIssue(r) ==
  LET a == asking[r]
      num == Cardinality(issues) + 1
  IN /\ Waits(r, "postIssue") /\ num <= MaxRows
     /\ issues' = issues \union {[num |-> num, task |-> a.task]}
     /\ Asks(r, IF a.task = NoRequest THEN NoRequest
                ELSE [a EXCEPT !.op = "recordIssue", !.num = num])
     /\ UNCHANGED <<tokens, linked, branches, stranded>>
\* The issue is made, and the answer does not come back.
PostIssueUnheard(r) ==
  LET num == Cardinality(issues) + 1
  IN /\ Waits(r, "postIssue") /\ num <= MaxRows
     /\ issues' = issues \union {[num |-> num, task |-> asking[r].task]}
     /\ stranded' = stranded \union {num}
     /\ Asks(r, NoRequest)
     /\ UNCHANGED <<tokens, linked, branches>>
\* P2025 when the task is gone.
RecordIssue(r) ==
  LET a == asking[r]
  IN /\ Waits(r, "recordIssue")
     /\ linked' = IF Exists(a.task)
                  THEN [linked EXCEPT ![a.task].issue = a.num, ![a.task].byHand = @ \ {"issue"}]
                  ELSE linked
     /\ Asks(r, NoRequest)
     /\ UNCHANGED <<tokens, issues, branches, stranded>>

\* The ref of the base is fetched, and the new one posted, unless it is there.
PostBranch(r) ==
  LET a == asking[r]
  IN /\ Waits(r, "postBranch") /\ a.branch \notin branches
     /\ branches' = branches \union {a.branch}
     /\ Asks(r, [a EXCEPT !.op = "recordBranch"])
     /\ UNCHANGED <<tokens, linked, issues, stranded>>
RecordBranch(r) ==
  LET a == asking[r]
  IN /\ Waits(r, "recordBranch")
     /\ linked' = IF Exists(a.task)
                  THEN [linked EXCEPT ![a.task].branch = a.branch, ![a.task].byHand = @ \ {"branch"}]
                  ELSE linked
     /\ Asks(r, NoRequest)
     /\ UNCHANGED <<tokens, issues, branches, stranded>>

\* linkTaskToGithub: the task is read, and what the user gives of an issue and a
\* branch is written by id over what it has; null, which the optional fields let
\* through, is given too and leaves it unset.
LinkRead(r, t, given, num, b) ==
  /\ asking[r] = NoRequest /\ Exists(t)
  /\ ("issue" \in given \/ num = 0) /\ ("branch" \in given \/ b = NoBranch)
  /\ Asks(r, [Call("link", t) EXCEPT !.given = given, !.num = num, !.branch = b])
  /\ Idles
LinkTaskToGithub(r) ==
  LET a == asking[r]
      row == linked[a.task]
  IN /\ Waits(r, "link")
     /\ linked' = IF Exists(a.task)
                  THEN [linked EXCEPT ![a.task] =
                          [issue  |-> IF "issue" \in a.given THEN a.num ELSE row.issue,
                           branch |-> IF "branch" \in a.given THEN a.branch ELSE row.branch,
                           byHand |-> row.byHand \union a.given]]
                  ELSE linked
     /\ Asks(r, NoRequest)
     /\ UNCHANGED <<tokens, issues, branches, stranded>>

\* What getTaskGithubInfo shows of a task, with the issue when the user's token is there.
TaskGithubInfo(u, t) ==
  [issue |-> IF Connected(<<u, "GITHUB">>) THEN linked[t].issue ELSE 0, branch |-> linked[t].branch]

\* tasks.remove; and the process dies under a request.
LinkedTaskRemoved(t) ==
  /\ Exists(t) /\ linked' = [linked EXCEPT ![t] = Gone]
  /\ UNCHANGED <<tokens, issues, branches, asking, stranded>>
AskingDies(r) ==
  /\ asking[r] # NoRequest
  /\ stranded' = IF asking[r].op = "recordIssue" THEN stranded \union {asking[r].num} ELSE stranded
  /\ Asks(r, NoRequest)
  /\ UNCHANGED <<tokens, linked, issues, branches>>

IntegrationsNext ==
  \/ \E a \in Account : Disconnect(a) \/ \E r \in Request : CallbackEnter(r, a)
  \/ \E r \in Request, a \in Account :
       \/ GetRepositories(r, a) \/ GetBranches(r, a) \/ GeneratePRTemplate(r, a)
       \/ SendMessage(r, a) \/ GetChannels(r, a) \/ GetTodayPRs(r, a)
       \/ /\ a[2] = "GITHUB"
          /\ \/ GetAccessToken(r, a, Call("postIssue", NoRequest))
             \/ \E t \in Task : \/ GetAccessToken(r, a, Call("findForIssue", t))
                                \/ \E b \in Branch :
                                     GetAccessToken(r, a, [Call("findForBranch", t) EXCEPT !.branch = b])
  \/ \E r \in Request, t \in Task, given \in SUBSET LinkField, num \in HandNumber \union {0}, b \in Branch \union {NoBranch} :
       LinkRead(r, t, given, num, b)
  \/ \E r \in Request : \/ CallbackExchange(r) \/ CallbackUpsert(r) \/ PublicChannels(r) \/ ReadAgain(r) \/ Answered(r) \/ FindTask(r)
                        \/ PostIssue(r) \/ PostIssueUnheard(r) \/ RecordIssue(r) \/ PostBranch(r) \/ RecordBranch(r)
                        \/ LinkTaskToGithub(r) \/ AskingDies(r)
  \/ \E t \in Task : LinkedTaskRemoved(t)

IntegrationsSpec == IntegrationsInit /\ [][IntegrationsNext]_integrationVars

-----------------------------------------------------------------------------
AskingOp == {"exchange", "upsert", "channels", "answer", "again", "findForIssue", "findForBranch",
             "postIssue", "recordIssue", "postBranch", "recordBranch", "link"}
LinkShape == [issue : Nat, branch : Branch \union {NoBranch}, byHand : SUBSET LinkField]
AskingShape == [op : AskingOp, account : Account \union {NoRequest}, task : Task \union {NoRequest}, num : Nat,
                branch : Branch \union {NoBranch}, given : SUBSET LinkField]

\* Gone and NoRequest are no rows, no tasks and no requests.
ASSUME IntegrationsAssumption == Gone \notin LinkShape /\ NoRequest \notin Task \union AskingShape

\* The variables have their types (all of the module).
IntegrationsTypeOK ==
  /\ tokens \subseteq Account
  /\ linked \in [Task -> LinkShape \union {Gone}]
  /\ issues \in SUBSET [num : Nat, task : Task \union {NoRequest}]
  /\ branches \subseteq Branch /\ stranded \in SUBSET Nat
  /\ asking \in [Request -> AskingShape \union {NoRequest}]

\* Of what no user wrote by hand: a task with no issue number has none at GitHub
\* but those a request under way will write or ended without; the number it has is
\* that of an issue opened for it, and its branch one that was made
\* (github.service.ts:175-312).
IssuesAreRecorded ==
  \A t \in Task : Exists(t) =>
    LET opened == {i.num : i \in {j \in issues : j.task = t}}
        underWay == {asking[r].num : r \in {q \in Request : Waits(q, "recordIssue")}}
    IN /\ "issue" \notin linked[t].byHand =>
            IF linked[t].issue = 0 THEN opened \subseteq underWay \union stranded
            ELSE linked[t].issue \in opened
       /\ "branch" \notin linked[t].byHand => linked[t].branch \in branches \union {NoBranch}
=============================================================================
