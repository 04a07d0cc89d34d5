---------------------------- MODULE TaskThreads ----------------------------
(***************************************************************************)
(* TasksService: the comments and relations of tasks.  A handler reads the *)
(* task, decides on that copy who may go on and, for a comment, who is     *)
(* told of it, and only then writes; the task may be reassigned or removed *)
(* in between.                                                             *)
(***************************************************************************)
EXTENDS Access

CONSTANTS
  SeedThreads,  \* each task as the model finds it: a TaskShape
  RelationType

VARIABLES
  threadTasks,  \* each task: a TaskShape or Gone
  comments,     \* the TaskComment table: [id, task, user]
  relations,    \* the TaskRelation table: [id, from, to, kind]
  replies,      \* what each request is doing
  threadIds,    \* the ids of both tables
  untold        \* history: for each comment, who is yet to hear of it

threadVars == <<threadTasks, comments, relations, replies, threadIds, untold>>

ThreadsInit ==
  /\ threadTasks = SeedThreads
  /\ comments = {} /\ relations = {} /\ threadIds = 0
  /\ replies = [r \in Request |-> NoRequest]
  /\ untold = [c \in 1 .. MaxRows |-> {}]

Stands(t) == threadTasks[t] # Gone
Replies(r, what) == replies' = [replies EXCEPT ![r] = what]
At(r, op) == replies[r] # NoRequest /\ replies[r].op = op
Reply(op, t) ==
  [op |-> op, user |-> NoUser, task |-> t, other |-> t, kind |-> NoRequest, row |-> 0, todo |-> {}]

\* tasks.update, and tasks.remove with what hangs on the task (Cascade).
ThreadReassign(t, assignee) ==
  /\ Stands(t) /\ threadTasks' = [threadTasks EXCEPT ![t].assignee = assignee]
  /\ UNCHANGED <<comments, relations, replies, threadIds, untold>>
ThreadTaskRemoved(t) ==
  /\ Stands(t) /\ threadTasks' = [threadTasks EXCEPT ![t] = Gone]
  /\ comments' = {c \in comments : c.task # t}
  /\ relations' = {x \in relations : t \notin {x.from, x.to}}
  /\ UNCHANGED <<replies, threadIds, untold>>

\* The creator and the assignee of the copy read, but for the author.
CommentTargets(task, u) == {task.creator, task.assignee} \ {u, NoUser}

AddCommentRead(r, u, t) ==
  /\ replies[r] = NoRequest /\ Stands(t) /\ TaskOpens(Viewer(u), threadTasks[t])
  /\ Replies(r, [Reply("addComment", t) EXCEPT !.user = u, !.todo = CommentTargets(threadTasks[t], u)])
  /\ UNCHANGED <<threadTasks, comments, relations, threadIds, untold>>
\* P2003 when the task is gone.
AddCommentInsert(r) ==
  LET w == replies[r]
      id == threadIds + 1
  IN /\ At(r, "addComment") /\ threadIds < MaxRows
     /\ IF Stands(w.task)
        THEN /\ comments' = comments \union {[id |-> id, task |-> w.task, user |-> w.user]}
             /\ threadIds' = id
             /\ untold' = [untold EXCEPT ![id] = w.todo]
             /\ Replies(r, [w EXCEPT !.op = "tell", !.user = NoUser, !.row = id])
        ELSE Replies(r, NoRequest) /\ UNCHANGED <<comments, threadIds, untold>>
     /\ UNCHANGED <<threadTasks, relations>>
\* notifyTaskComment, one at a time; a failed one ends the request, and
\* the others are not told.
\* Mutant: whoever is told first is the only one.
TellComment_First(r, u) ==
  LET w == replies[r]
  IN /\ At(r, "tell") /\ u \in w.todo
     /\ untold' = [untold EXCEPT ![w.row] = @ \ {u}]
     /\ Replies(r, [w EXCEPT !.todo = {}])
     /\ UNCHANGED <<threadTasks, comments, relations, threadIds>>
TellComment(r, u) ==
  LET w == replies[r]
  IN /\ At(r, "tell") /\ u \in w.todo
     /\ untold' = [untold EXCEPT ![w.row] = @ \ {u}]
     /\ Replies(r, [w EXCEPT !.todo = @ \ {u}])
     /\ UNCHANGED <<threadTasks, comments, relations, threadIds>>
TellCommentFails(r) ==
  /\ At(r, "tell") /\ replies[r].todo # {}
  /\ untold' = [untold EXCEPT ![replies[r].row] = {}]
  /\ Replies(r, NoRequest)
  /\ UNCHANGED <<threadTasks, comments, relations, threadIds>>
AddCommentEnd(r) ==
  /\ At(r, "tell") /\ replies[r].todo = {}
  /\ Replies(r, NoRequest)
  /\ UNCHANGED <<threadTasks, comments, relations, threadIds, untold>>

\* The author, the task's creator or an OWNER; the task of the path plays no part.
RemoveCommentRead(r, u, c) ==
  /\ replies[r] = NoRequest
  /\ u \in {c.user, threadTasks[c.task].creator} \/ RoleOf[u] = "OWNER"
  /\ Replies(r, [Reply("removeComment", c.task) EXCEPT !.row = c.id])
  /\ UNCHANGED <<threadTasks, comments, relations, threadIds, untold>>
RemoveCommentDelete(r) ==
  /\ At(r, "removeComment")
  /\ comments' = {c \in comments : c.id # replies[r].row}
  /\ Replies(r, NoRequest)
  /\ UNCHANGED <<threadTasks, relations, threadIds, untold>>
CommentsListed(v, t) == {c \in comments : c.task = t /\ TaskOpens(v, threadTasks[t])}

\* The task and then the other one are read, before the insert; the triple is
\* unique (P2002), and both tasks must still be there (P2003).
AddRelationRead(r, u, t, other, kind) ==
  /\ replies[r] = NoRequest /\ Stands(t) /\ TaskModifies(Viewer(u), threadTasks[t])
  /\ Replies(r, [Reply("findTarget", t) EXCEPT !.other = other, !.kind = kind])
  /\ UNCHANGED <<threadTasks, comments, relations, threadIds, untold>>
AddRelationTarget(r) ==
  /\ At(r, "findTarget")
  /\ Replies(r, IF Stands(replies[r].other) THEN [replies[r] EXCEPT !.op = "addRelation"] ELSE NoRequest)
  /\ UNCHANGED <<threadTasks, comments, relations, threadIds, untold>>
AddRelationInsert(r) ==
  LET w == replies[r]
      same == {x \in relations : x.from = w.task /\ x.to = w.other /\ x.kind = w.kind}
  IN /\ At(r, "addRelation") /\ threadIds < MaxRows
     /\ IF Stands(w.task) /\ Stands(w.other) /\ same = {}
        THEN /\ relations' = relations \union
                  {[id |-> threadIds + 1, from |-> w.task, to |-> w.other, kind |-> w.kind]}
             /\ threadIds' = threadIds + 1
        ELSE UNCHANGED <<relations, threadIds>>
     /\ Replies(r, NoRequest)
     /\ UNCHANGED <<threadTasks, comments, untold>>
\* Any relation by its id, from a task the user may modify.
RemoveRelationRead(r, u, t, x) ==
  /\ replies[r] = NoRequest /\ Stands(t) /\ TaskModifies(Viewer(u), threadTasks[t])
  /\ Replies(r, [Reply("removeRelation", t) EXCEPT !.row = x.id])
  /\ UNCHANGED <<threadTasks, comments, relations, threadIds, untold>>
RemoveRelationDelete(r) ==
  /\ At(r, "removeRelation")
  /\ relations' = {x \in relations : x.id # replies[r].row}
  /\ Replies(r, NoRequest)
  /\ UNCHANGED <<threadTasks, comments, threadIds, untold>>

ThreadsNext ==
  \/ \E t \in Task : \/ \E u \in Sample \union {NoUser} : ThreadReassign(t, u)
                     \/ ThreadTaskRemoved(t)
  \/ \E r \in Request, u \in Sample, t \in Task : AddCommentRead(r, u, t)
  \/ \E r \in Request, u \in User, t \in Task :
       \/ \E other \in Task, kind \in RelationType : AddRelationRead(r, u, t, other, kind)
       \/ \E x \in relations : RemoveRelationRead(r, u, t, x)
  \/ \E r \in Request, u \in User : \/ \E c \in comments : RemoveCommentRead(r, u, c)
                                    \/ TellComment(r, u)
  \/ \E r \in Request : \/ AddCommentInsert(r) \/ TellCommentFails(r) \/ AddCommentEnd(r)
                        \/ RemoveCommentDelete(r) \/ AddRelationTarget(r) \/ AddRelationInsert(r)
                        \/ RemoveRelationDelete(r)

ThreadsSpec == ThreadsInit /\ [][ThreadsNext]_threadVars

-----------------------------------------------------------------------------
ReplyShape ==
  [op : {"addComment", "tell", "removeComment", "findTarget", "addRelation", "removeRelation"},
   user : User \union {NoUser}, task : Task, other : Task, kind : RelationType \union {NoRequest},
   row : Nat, todo : SUBSET User]

\* Gone and NoRequest are no rows and no requests.
ASSUME ThreadsAssumption ==
  SeedThreads \in [Task -> TaskShape] /\ Gone \notin TaskShape /\ NoRequest \notin ReplyShape

\* The variables have their types (all of the module).
ThreadsTypeOK ==
  /\ threadTasks \in [Task -> TaskShape \union {Gone}]
  /\ comments \in SUBSET [id : Nat, task : Task, user : User]
  /\ relations \in SUBSET [id : Nat, from : Task, to : Task, kind : RelationType]
  /\ replies \in [Request -> ReplyShape \union {NoRequest}]
  /\ threadIds \in Nat
  /\ untold \in [1 .. MaxRows -> SUBSET User]

\* When the request of a comment has ended without an error, everyone the task
\* belonged to when it was read has been told, the author apart, though the task
\* was reassigned or removed before the insert or between two notices; and
\* comments and relations go with their tasks (tasks.service.ts:499-552,
\* schema.prisma:193-209).
CommentIsHeard ==
  /\ \A id \in 1 .. threadIds :
       untold[id] # {} => \E r \in Request : At(r, "tell") /\ replies[r].row = id
  /\ \A c \in comments : Stands(c.task)
  /\ \A x \in relations : Stands(x.from) /\ Stands(x.to)
=============================================================================
