---------------------------- MODULE TaskWorkflow ----------------------------
(***************************************************************************)
(* The life of a task: TasksService's create, update and remove, the       *)
(* GitHub webhook handlers that move the tasks linked to a branch, pull    *)
(* request or issue, and the hourly due-date jobs.  Each handler reads     *)
(* copies of the rows, and decides, writes, records history and notifies   *)
(* from the copies, one awaited call at a time; any of them may be in      *)
(* flight together.  GitHub's side is an environment: one pull request and *)
(* one issue, whose events may be delivered twice or out of order.         *)
(***************************************************************************)
EXTENDS Naturals, Sequences, FiniteSets, SequencesExt

CONSTANTS
  User, NoUser,   \* NoUser: a null assignee
  Owners,         \* the users whose role is OWNER
  Task,           \* ids; a uuid is never used twice
  Due,            \* the tasks whose due date the jobs find near or past
  SeedRows,       \* the rows prisma/seed.ts leaves
  Bodies,         \* the [status, assignee] a user may create a task with
  Patches,        \* the [status, assignee] a user may patch one with
  Slot,           \* handlers in flight
  MaxEvents,      \* bound on what happens at GitHub, and on that with overlaps
  MaxOverlaps,    \* bound on the handlers that start while another is in flight
  MaxDisorder,    \* bound on the deliveries repeated or overtaken
  Unused, Removed, Same, NoCopy, NoPatch

Status == {"TODO", "IN_PROGRESS", "REVIEW", "DONE", "CANCELLED"}
Closed == {"DONE", "CANCELLED"}

\* A row, with completedAt as whether it is set and the GitHub columns as one
\* link: to a branch (and issue), later with the number of its pull request.
Row == [status : Status, done : BOOLEAN, creator : User, assignee : User \union {NoUser},
        link : {"none", "branch", "number"}]
\* What handlers use of a row they read.
Copy == [id : Task, status : Status, creator : User, assignee : User \union {NoUser},
         link : {"none", "branch", "number"}]
Patch == [status : Status \union {Same}, assignee : User \union {NoUser, Same}]

PrEvent == {"opened", "merged", "closed", "reopened"}
IssueEvent == {"issue_closed", "issue_reopened"}
Event == PrEvent \union IssueEvent \union {"push"}

NoticeKind == {"assigned", "updated", "completed", "due"}
Notice == [to : User, kind : NoticeKind]

ASSUME TaskAssumption ==
  /\ Owners \subseteq User /\ NoUser \notin User
  /\ Due \subseteq Task /\ {MaxEvents, MaxOverlaps, MaxDisorder} \subseteq Nat
  /\ SeedRows \subseteq {r \in Row : r.done <=> r.status = "DONE"}
  /\ Bodies \subseteq [status : Status, assignee : User \union {NoUser}]
  /\ Patches \subseteq Patch
  /\ Same \notin Status \union User \union {NoUser} /\ Same \notin BOOLEAN
  /\ {Unused, Removed} \intersect Row = {} /\ Unused # Removed
  /\ NoCopy \notin Copy /\ NoPatch \notin Patch

VARIABLES
  tasks,        \* the Task table
  trail,        \* the status entries of TaskHistory: the last value, and whether
                \* each entry starts where the one before it ended
  slot,         \* each handler: its event or operation, copies, notices just sent
  github,       \* the pull request and the issue
  wire,         \* webhook deliveries GitHub has still to make
  events,       \* how many events there were
  overlaps,     \* history: handlers that started while another was in flight
  disorder,     \* history: deliveries repeated or overtaken
  patched,      \* history: tasks whose status a user wrote
  watched       \* history: tasks linked before GitHub's first event

vars == <<tasks, trail, slot, github, wire, events, overlaps, disorder, patched, watched>>
rows == <<tasks, trail>>
outside == <<github, wire, events>>
history == <<disorder, patched, watched>>

Exists(t) == tasks[t] \notin {Unused, Removed}
CopyOf(t, row) == [id |-> t, status |-> row.status, creator |-> row.creator,
                   assignee |-> row.assignee, link |-> row.link]
Idle == [op |-> "idle", pc |-> "idle", by |-> NoUser, todo |-> {}, copy |-> NoCopy,
         patch |-> NoPatch, told |-> {}]
Quiet == \A s \in Slot : slot[s].op = "idle"

Init ==
  /\ tasks \in [Task -> {Unused} \union SeedRows]
  /\ trail = [t \in Task |-> [to |-> IF tasks[t] = Unused THEN "TODO" ELSE tasks[t].status,
                              ok |-> TRUE]]
  /\ slot = [s \in Slot |-> Idle]
  /\ github \in [pr : {"none", "open"}, issue : {"open"}]
  /\ wire = <<>> /\ events = 0
  /\ overlaps = 0 /\ disorder = 0 /\ patched = {} /\ watched = {}

\* A handler starts in a free slot and then moves through its steps there.
Start(s, handler) ==
  /\ slot[s].op = "idle"
  /\ slot' = [slot EXCEPT ![s] = handler]
  /\ Quiet \/ (overlaps < MaxOverlaps /\ events + overlaps < MaxEvents)
  /\ overlaps' = IF Quiet THEN overlaps ELSE overlaps + 1
Move(s, handler) == slot' = [slot EXCEPT ![s] = handler] /\ UNCHANGED overlaps
End(s) == Move(s, Idle)
Moved(s, pc, told) == Move(s, [slot[s] EXCEPT !.pc = pc, !.told = told])

-----------------------------------------------------------------------------
(* TasksService.  Titles, priorities and due dates, which change only what a  *)
(* notice says, are left out.                                                *)

CanModifyTask(row, u) == u \in Owners \/ u = row.creator \/ u = row.assignee

\* createHistory: an entry of the status a copy had and the one written.
\* Mutant: the old value is not the copy's but the one written.
Entry_NewTwice(t, from, to) == [trail EXCEPT ![t] = [to |-> to, ok |-> @.ok /\ @.to = to]]
Entry(t, from, to) == [trail EXCEPT ![t] = [to |-> to, ok |-> @.ok /\ @.to = from]]

\* The check of the assignee is the foreign key's.  completedAt is not set.
Create(s, u, t, body) ==
  LET row == [status |-> body.status, done |-> FALSE, creator |-> u,
              assignee |-> body.assignee, link |-> "none"]
  IN /\ tasks[t] = Unused
     /\ tasks' = [tasks EXCEPT ![t] = row]
     /\ trail' = [trail EXCEPT ![t] = [to |-> body.status, ok |-> TRUE]]
     /\ patched' = IF body.status = "DONE" THEN patched \union {t} ELSE patched
     /\ Start(s, [Idle EXCEPT !.op = "create", !.pc = "notify", !.by = u,
                              !.copy = CopyOf(t, row)])
     /\ UNCHANGED <<outside, disorder, watched>>

CreateNotify(s) ==
  LET h == slot[s]
      a == h.copy.assignee
  IN /\ h.op = "create" /\ h.pc = "notify"
     /\ IF Exists(h.copy.id)
        THEN Moved(s, "sent", IF a \in {NoUser, h.by} THEN {} ELSE {[to |-> a, kind |-> "assigned"]})
        ELSE End(s)
     /\ UNCHANGED <<rows, outside, history>>

UpdateRead(s, u, t, patch) ==
  /\ Exists(t) /\ CanModifyTask(tasks[t], u)
  /\ Start(s, [Idle EXCEPT !.op = "update", !.pc = "write", !.by = u,
                           !.copy = CopyOf(t, tasks[t]), !.patch = patch])
  /\ UNCHANGED <<rows, outside, history>>

\* The fields given are written by id, whatever the row has become.
UpdateWrite(s) ==
  LET h == slot[s]
      t == h.copy.id
      Given(value, old) == IF value = Same THEN old ELSE value
  IN /\ h.op = "update" /\ h.pc = "write"
     /\ IF Exists(t)
        THEN /\ tasks' = [tasks EXCEPT ![t].status = Given(h.patch.status, @),
                                       ![t].assignee = Given(h.patch.assignee, @)]
             /\ patched' = IF h.patch.status = Same THEN patched ELSE patched \union {t}
             /\ Moved(s, "history", {})
        ELSE End(s) /\ UNCHANGED <<tasks, patched>>
     /\ UNCHANGED <<trail, outside, disorder, watched>>

\* What changes, seen from the copy.
StatusChange(h) == h.patch.status \notin {Same, h.copy.status}
AssigneeChange(h) == h.patch.assignee \notin {Same, h.copy.assignee}

\* sendTaskUpdateNotifications: a special notice for the new assignee and, of a
\* completion, for the creator; a general one for the others the task concerned.
\* Mutant: those told specially are told again.
UpdateNotices_Twice(h) ==
  LET old == h.copy
      changed == StatusChange(h) \/ AssigneeChange(h)
      concerned == {old.creator, old.assignee} \ {NoUser, h.by}
      assigned == IF AssigneeChange(h) THEN {h.patch.assignee} \ {NoUser, h.by} ELSE {}
      completed == IF StatusChange(h) /\ h.patch.status = "DONE" THEN {old.creator} \ {h.by} ELSE {}
  IN {[to |-> u, kind |-> "assigned"] : u \in assigned}
     \union {[to |-> u, kind |-> "completed"] : u \in completed}
     \union {[to |-> u, kind |-> "updated"] : u \in {v \in concerned : changed}}
UpdateNotices(h) ==
  LET old == h.copy
      changed == StatusChange(h) \/ AssigneeChange(h)
      concerned == {old.creator, old.assignee} \ {NoUser, h.by}
      assigned == IF AssigneeChange(h) THEN {h.patch.assignee} \ {NoUser, h.by} ELSE {}
      completed == IF StatusChange(h) /\ h.patch.status = "DONE" THEN {old.creator} \ {h.by} ELSE {}
  IN {[to |-> u, kind |-> "assigned"] : u \in assigned}
     \union {[to |-> u, kind |-> "completed"] : u \in completed}
     \union {[to |-> u, kind |-> "updated"] :
               u \in {v \in concerned \ (assigned \union completed) : changed}}

\* The entries name the copy's values; one for a removed task fails (P2003).
UpdateHistory(s) ==
  LET h == slot[s]
      t == h.copy.id
  IN /\ h.op = "update" /\ h.pc = "history"
     /\ IF ~Exists(t) /\ (StatusChange(h) \/ AssigneeChange(h))
        THEN End(s) ELSE Moved(s, "sent", UpdateNotices(h))
     /\ trail' = IF Exists(t) /\ StatusChange(h)
                 THEN Entry(t, h.copy.status, h.patch.status) ELSE trail
     /\ UNCHANGED <<tasks, outside, history>>

RemoveRead(s, u, t) ==
  /\ Exists(t) /\ CanModifyTask(tasks[t], u)
  /\ Start(s, [Idle EXCEPT !.op = "remove", !.pc = "write", !.by = u,
                           !.copy = CopyOf(t, tasks[t])])
  /\ UNCHANGED <<rows, outside, history>>

RemoveWrite(s) ==
  LET t == slot[s].copy.id
  IN /\ slot[s].op = "remove"
     /\ End(s)
     /\ tasks' = IF Exists(t) THEN [tasks EXCEPT ![t] = Removed] ELSE tasks
     /\ UNCHANGED <<trail, outside, history>>

\* GithubService.linkTaskToGithub reads the row for its existence only.
LinkTaskToGithub(t) ==
  /\ Exists(t) /\ tasks[t].link = "none"
  /\ tasks' = [tasks EXCEPT ![t].link = "branch"]
  /\ watched' = IF events = 0 THEN watched \union {t} ELSE watched
  /\ UNCHANGED <<trail, slot, outside, overlaps, disorder, patched>>

\* Mutant: the slot keeps the notices but not the operation.
Sent_Lingers(s) ==
  /\ slot[s].pc = "sent"
  /\ Move(s, [Idle EXCEPT !.pc = "done"])
  /\ UNCHANGED <<rows, outside, history>>
Sent(s) ==
  /\ slot[s].pc = "sent"
  /\ End(s)
  /\ UNCHANGED <<rows, outside, history>>

-----------------------------------------------------------------------------
(* GitHub, outside: what happens to the pull request and the issue, and the   *)
(* deliveries it makes of that.                                              *)

Emit(event) ==
  /\ events + overlaps < MaxEvents
  /\ events' = events + 1
  /\ wire' = Append(wire, event)
  /\ UNCHANGED <<rows, slot, overlaps, history>>

PullRequest(from, to, event) ==
  /\ github.pr = from /\ github' = [github EXCEPT !.pr = to] /\ Emit(event)
Issue(from, to, event) ==
  /\ github.issue \in from /\ github' = [github EXCEPT !.issue = to] /\ Emit(event)

GitHub ==
  \/ PullRequest("none", "open", "opened")
  \/ PullRequest("open", "closed", "closed")
  \/ PullRequest("closed", "open", "reopened")
  \/ PullRequest("open", "merged", "merged")
  \/ Issue({"open", "reopened"}, "closed", "issue_closed")
  \/ Issue({"closed"}, "reopened", "issue_reopened")
  \/ Emit("push") /\ UNCHANGED github

-----------------------------------------------------------------------------
(* GithubWebhookService: one delivery reads all tasks linked to its subject   *)
(* and moves them one after another, each by the copy read at the start.     *)

\* handlePullRequest, handleIssue and handlePush: the tasks an event is about.
Linked == {CopyOf(t, tasks[t]) : t \in {u \in Task : Exists(u) /\ tasks[u].link # "none"}}

\* A delivery arrives: the next, or (disorder) a later one, or one repeated.
Receive(s, i, again) ==
  /\ wire' = IF again THEN wire ELSE RemoveAt(wire, i)
  /\ Start(s, [Idle EXCEPT !.op = wire[i], !.pc = "loop", !.todo = Linked])
  /\ again \/ i # 1 => disorder < MaxDisorder
  /\ disorder' = IF again \/ i # 1 THEN disorder + 1 ELSE disorder
  /\ UNCHANGED <<rows, github, events, patched, watched>>

\* A pull request's event first notes its number on a task that has none.
Notes(h, c) == h.op \in PrEvent /\ c.link = "branch"

\* The update fails, and ends the handler, when the task is gone.
NoteNumber(s, c) ==
  LET h == slot[s]
  IN /\ h.op \in Event /\ h.pc = "loop" /\ c \in h.todo /\ Notes(h, c)
     /\ IF Exists(c.id)
        THEN /\ Move(s, [h EXCEPT !.pc = "write", !.copy = c, !.todo = @ \ {c}, !.told = {}])
             /\ tasks' = [tasks EXCEPT ![c.id].link = "number"]
        ELSE End(s) /\ UNCHANGED tasks
     /\ UNCHANGED <<trail, outside, history>>

\* What an event makes of the copy's status: the new one, and completedAt set,
\* cleared or kept; {} when it leaves such a task alone.
To(status, done) == {[status |-> status, done |-> done]}
HandlePrOpened(row) == IF row.status = "IN_PROGRESS" THEN To("REVIEW", Same) ELSE {}
\* Mutant: completedAt is forgotten.
HandlePrMerged_Undated(row) == To("DONE", Same)
\* Mutant: only of a task in review.
HandlePrMerged_Reviewed(row) == IF row.status = "REVIEW" THEN To("DONE", TRUE) ELSE {}
HandlePrMerged(row) == To("DONE", TRUE)
HandlePrClosed(row) == IF row.status = "REVIEW" THEN To("IN_PROGRESS", Same) ELSE {}
HandlePrReopened(row) == IF row.status \in {"IN_PROGRESS", "DONE"} THEN To("REVIEW", FALSE) ELSE {}
\* Mutant: a cancelled task is completed too.
HandleIssueClosed_Cancelled(row) == IF row.status # "DONE" THEN To("DONE", TRUE) ELSE {}
HandleIssueClosed(row) == IF row.status \notin Closed THEN To("DONE", TRUE) ELSE {}
HandleIssueReopened(row) == IF row.status = "DONE" THEN To("IN_PROGRESS", FALSE) ELSE {}
HandlePush(row) == IF row.status = "TODO" THEN To("IN_PROGRESS", Same) ELSE {}

Effect(event, row) ==
  CASE event = "opened" -> HandlePrOpened(row)
    [] event = "merged" -> HandlePrMerged(row)
    [] event = "closed" -> HandlePrClosed(row)
    [] event = "reopened" -> HandlePrReopened(row)
    [] event = "issue_closed" -> HandleIssueClosed(row)
    [] event = "issue_reopened" -> HandleIssueReopened(row)
    [] event = "push" -> HandlePush(row)

\* Whom it tells: the creator of a pull request opened, both of a merge.
EventNotices(event, row) ==
  CASE event = "opened" /\ row.creator # row.assignee -> {[to |-> row.creator, kind |-> "updated"]}
    [] event = "merged" -> {[to |-> u, kind |-> "completed"] : u \in {row.creator, row.assignee} \ {NoUser}}
    [] OTHER -> {}

\* The update by id; of a task gone since it fails and ends the handler.
EventWrite(s, c) ==
  LET h == slot[s]
      next == [h EXCEPT !.copy = c, !.todo = @ \ {c}, !.told = {}]
  IN /\ h.op \in Event
     /\ \/ h.pc = "write" /\ c = h.copy
        \/ h.pc = "loop" /\ c \in h.todo /\ ~Notes(h, c)
     /\ \/ /\ Effect(h.op, c) = {}
           /\ Move(s, [next EXCEPT !.pc = "loop", !.told = EventNotices(h.op, c)])
           /\ UNCHANGED tasks
        \/ \E e \in Effect(h.op, c) :
             IF Exists(c.id)
             THEN /\ tasks' = [tasks EXCEPT ![c.id].status = e.status,
                                            ![c.id].done = IF e.done = Same THEN @ ELSE e.done]
                  /\ Move(s, [next EXCEPT !.pc = "history"])
             ELSE End(s) /\ UNCHANGED tasks
     /\ UNCHANGED <<trail, outside, history>>

\* createTaskHistory, then the notices.
EventHistory(s) ==
  LET h == slot[s]
      t == h.copy.id
  IN /\ h.op \in Event /\ h.pc = "history"
     /\ IF Exists(t)
        THEN \E e \in Effect(h.op, h.copy) :
               /\ trail' = Entry(t, h.copy.status, e.status)
               /\ Moved(s, "loop", EventNotices(h.op, h.copy))
        ELSE End(s) /\ UNCHANGED trail
     /\ UNCHANGED <<tasks, outside, history>>

EndLoop(s) ==
  /\ slot[s].pc = "loop" /\ slot[s].todo = {}
  /\ End(s)
  /\ UNCHANGED <<rows, outside, history>>

-----------------------------------------------------------------------------
(* ScheduleRunnerService.checkTaskDueDates and checkOverdueTasks.             *)

\* Mutant: finished tasks too.
StartDueJob_Finished(s) ==
  /\ Start(s, [Idle EXCEPT !.op = "due", !.pc = "loop",
       !.todo = {CopyOf(t, tasks[t]) :
                   t \in {u \in Due : Exists(u) /\ tasks[u].assignee # NoUser}}])
  /\ UNCHANGED <<rows, outside, history>>
StartDueJob(s) ==
  /\ Start(s, [Idle EXCEPT !.op = "due", !.pc = "loop",
       !.todo = {CopyOf(t, tasks[t]) :
                   t \in {u \in Due : /\ Exists(u) /\ tasks[u].status \notin Closed
                                      /\ tasks[u].assignee # NoUser}}])
  /\ UNCHANGED <<rows, outside, history>>

DueNotify(s, c) ==
  /\ slot[s].op = "due" /\ c \in slot[s].todo
  /\ Move(s, [slot[s] EXCEPT !.copy = c, !.todo = @ \ {c},
                             !.told = {[to |-> c.assignee, kind |-> "due"]}])
  /\ UNCHANGED <<rows, outside, history>>

-----------------------------------------------------------------------------
Handler(s) ==
  \/ CreateNotify(s) \/ UpdateWrite(s) \/ UpdateHistory(s) \/ RemoveWrite(s) \/ Sent(s)
  \/ \E c \in slot[s].todo : NoteNumber(s, c) \/ DueNotify(s, c)
  \/ \E c \in slot[s].todo \union {slot[s].copy} : EventWrite(s, c)
  \/ EventHistory(s) \/ EndLoop(s)

Requests(s) ==
  \/ \E u \in User, t \in Task :
       \/ \E body \in Bodies : Create(s, u, t, body)
       \/ \E patch \in Patches : UpdateRead(s, u, t, patch)
       \/ RemoveRead(s, u, t)
  \/ StartDueJob(s)

Deliveries(s) == \E i \in 1 .. Len(wire), again \in BOOLEAN : Receive(s, i, again)

Next ==
  \/ \E s \in Slot : Handler(s) \/ Requests(s) \/ Deliveries(s)
  \/ \E t \in Task : LinkTaskToGithub(t)
  \/ GitHub

Spec == Init /\ [][Next]_vars

-----------------------------------------------------------------------------
Handle == [op : {"idle", "create", "update", "remove", "due"} \union Event,
           pc : {"idle", "notify", "write", "history", "sent", "loop"},
           by : User \union {NoUser}, todo : SUBSET Copy, copy : Copy \union {NoCopy},
           patch : Patches \union {NoPatch}, told : SUBSET Notice]

\* The variables have their types (all of the module).
TypeOK ==
  /\ tasks \in [Task -> Row \union {Unused, Removed}]
  /\ trail \in [Task -> [to : Status, ok : BOOLEAN]]
  /\ slot \in [Slot -> Handle]
  /\ github \in [pr : {"none", "open", "closed", "merged"}, issue : {"open", "closed", "reopened"}]
  /\ wire \in Seq(Event) /\ events \in 0 .. MaxEvents
  /\ overlaps \in 0 .. MaxOverlaps /\ disorder \in 0 .. MaxDisorder
  /\ patched \in SUBSET Task /\ watched \in SUBSET Task

\* As long as no two handlers overlap, the status history of a task is one
\* chain (each entry starts where the last one ended) and ends at its status
\* once no handler is at work; a webhook and a user writing at once may record
\* a change that never was (tasks.service.ts:292, github-webhook.service.ts:88).
TrailChains ==
  overlaps = 0 =>
    \A t \in Task : trail[t].ok /\ (Quiet /\ Exists(t) => trail[t].to = tasks[t].status)

\* As long as only GitHub completes and reopens a task, and handlers do not
\* overlap, completedAt is set exactly while the task is DONE
\* (github-webhook.service.ts:241-328).
DoneMatchesCompletion ==
  overlaps = 0 =>
    \A t \in Task \ patched : Exists(t) => (tasks[t].status = "DONE" <=> tasks[t].done)

\* With deliveries made once and in order, and handlers one at a time, a merged
\* pull request leaves every task linked from the start DONE, whatever else
\* GitHub said before, unless the issue was reopened or a user moved it.
MergedEndsDone ==
  (Quiet /\ overlaps = 0 /\ disorder = 0 /\ wire = <<>> /\ github = [pr |-> "merged", issue |-> github.issue]
     /\ github.issue # "reopened")
    => \A t \in watched \ patched : Exists(t) => tasks[t].status = "DONE"

\* However handlers interleave, one update tells nobody of the general change
\* who gets a special notice of it, and never the user who made it
\* (tasks.service.ts:344-404).
NoticesAreDistinct ==
  \A s \in Slot : slot[s].op = "update" =>
    \A n, m \in slot[s].told : /\ n.to # slot[s].by
                               /\ n.kind = "updated" /\ m.to = n.to => m = n

\* Unless handlers overlap, what a notice says of the task is so when it is sent:
\* due means unfinished, completed means DONE (schedule-runner.service.ts:66-144,
\* github-webhook.service.ts:241-268, tasks.service.ts:379-391).
NoticesAreTrue ==
  overlaps = 0 =>
    \A s \in Slot : \A n \in slot[s].told :
      /\ n.kind = "due" => tasks[slot[s].copy.id].status \notin Closed
      /\ n.kind = "completed" => tasks[slot[s].copy.id].status = "DONE"

\* A cancelled task leaves CANCELLED only by a user's update or the merge of its
\* pull request, unless handlers overlap (github-webhook.service.ts:300).
CancelledStays ==
  [][\A t \in Task :
       Exists(t) /\ tasks[t].status = "CANCELLED" /\ overlaps = 0 =>
         \/ tasks'[t] = Removed \/ tasks'[t].status = "CANCELLED"
         \/ \E s \in Slot : slot[s].op \in {"update", "merged"}]_vars

\* Every task completed counts in the statistics of its assignee, which look for
\* DONE with a completedAt (teams.service.ts:622, 652-659).
CompletedCounts ==
  \A t \in Task : Exists(t) /\ tasks[t].status = "DONE" /\ Quiet => tasks[t].done
=============================================================================
