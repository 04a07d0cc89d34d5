------------------------ MODULE NotificationsProofs ------------------------
(***************************************************************************)
(* Telling users, for any users, sockets, tasks and requests.  The         *)
(* gateway's map and the rooms agree: a socket enters and leaves both in   *)
(* one step, and the last to leave takes the user's entry along, so that   *)
(* no entry is ever empty.  And whoever is to hear of a comment is told by *)
(* a request that still runs, or was told.                                 *)
(***************************************************************************)
EXTENDS Notifications, TaskThreads, TLAPS

\* A user is in the map with the sockets in the user's room, or has none there.
Mirrors ==
  /\ \A u \in User : SocketsOf(u) = InRoom(u)
  /\ \A u \in DOMAIN userSockets : userSockets[u] # {}

NoticesInv == NotificationsTypeOK /\ Mirrors

\* Every step keeps the types of the variables (all of the module).
LEMMA NoticesTypeStep == NotificationsTypeOK /\ [NotificationsNext]_noticeVars => NotificationsTypeOK'
<1> SUFFICES ASSUME NotificationsTypeOK, [NotificationsNext]_noticeVars
             PROVE  NotificationsTypeOK'
  OBVIOUS
<1> USE DEF NotificationsTypeOK
<1> DEFINE Handled == [op : {"push", "markAsRead", "remove"}, id : Nat, users : SUBSET User]
<1>1. ASSUME NEW s \in Socket, NEW u \in User, HandleConnection(s, u) PROVE NotificationsTypeOK'
  BY <1>1 DEF HandleConnection, WithSockets, SocketsOf
<1>2. ASSUME NEW s \in Socket, HandleConnectionRefused(s) PROVE NotificationsTypeOK'
  BY <1>2 DEF HandleConnectionRefused
<1>3. ASSUME NEW s \in Socket, HandleDisconnect(s) PROVE NotificationsTypeOK'
  <2>1. rooms[s] \in User /\ rooms' \in [Socket -> User \union {Absent, Gone}]
    BY <1>3 DEF HandleDisconnect
  <2>2. CASE userSockets' = [v \in DOMAIN userSockets \ {rooms[s]} |-> userSockets[v]]
    BY <1>3, <2>1, <2>2 DEF HandleDisconnect
  <2>3. CASE userSockets' = WithSockets(rooms[s], SocketsOf(rooms[s]) \ {s})
    BY <1>3, <2>1, <2>3 DEF HandleDisconnect, WithSockets, SocketsOf
  <2> QED BY <1>3, <2>2, <2>3 DEF HandleDisconnect
<1>4. ASSUME NEW r \in Request, NEW users \in SUBSET Sample \ {{}}, NEW realtime \in BOOLEAN,
             NoticesCreate(r, users, realtime)
      PROVE  NotificationsTypeOK'
  <2>1. users \in SUBSET User /\ noticeIds + 1 \in Nat
    BY DirectoryAssumption
  <2>2. [op |-> "push", id |-> noticeIds + 1, users |-> users] \in Handled
    BY <2>1
  <2>3. \A u \in users : [id |-> noticeIds + 1, user |-> u, read |-> FALSE] \in [id : Nat, user : User, read : BOOLEAN]
    BY <2>1
  <2>4. handling' \in [Request -> Handled \union {NoRequest}]
    BY <1>4, <2>2 DEF NoticesCreate, Handles
  <2> QED BY <1>4, <2>1, <2>3, <2>4 DEF NoticesCreate
<1>5. ASSUME NEW r \in Request, NEW u \in User, NEW id \in 1 .. noticeIds,
             NEW op \in {"markAsRead", "remove"}, NoticeFind(r, u, id, op)
      PROVE  NotificationsTypeOK'
  <2>1. [op |-> op, id |-> id, users |-> {u}] \in Handled
    OBVIOUS
  <2> QED BY <1>5, <2>1 DEF NoticeFind, Handles
<1>6. ASSUME NEW r \in Request, SendToUsers(r) PROVE NotificationsTypeOK'
  BY <1>6 DEF SendToUsers, Handles
<1>7. ASSUME NEW r \in Request, NoticeWrite(r) PROVE NotificationsTypeOK'
  <2> DEFINE h == handling[r]
             rows == {n \in notices : n.id = h.id /\ n.user \in h.users}
             read == {[n EXCEPT !.read = TRUE] : n \in rows}
  <2>1. \A n \in rows : [n EXCEPT !.read = TRUE] \in [id : Nat, user : User, read : BOOLEAN]
    OBVIOUS
  <2>2. read \subseteq [id : Nat, user : User, read : BOOLEAN]
    BY <2>1
  <2>3. notices' = (notices \ rows) \union (IF h.op = "markAsRead" THEN read ELSE {})
    BY <1>7 DEF NoticeWrite
  <2> HIDE DEF rows, read
  <2>4. notices' \in SUBSET [id : Nat, user : User, read : BOOLEAN]
    BY <2>2, <2>3
  <2> QED BY <1>7, <2>4 DEF NoticeWrite, Handles
<1>8. ASSUME NEW u \in User, MarkAllAsRead(u) \/ RemoveAll(u) PROVE NotificationsTypeOK'
  <2>1. \A n \in notices : [n EXCEPT !.read = TRUE] \in [id : Nat, user : User, read : BOOLEAN]
    OBVIOUS
  <2> QED BY <1>8, <2>1 DEF MarkAllAsRead, RemoveAll
<1>9. CASE NotificationsCrash
  BY <1>9 DEF NotificationsCrash
<1>10. CASE UNCHANGED noticeVars
  BY <1>10 DEF noticeVars
<1>11. CASE NotificationsNext
  <2>1. \/ \E s \in Socket : \/ \E u \in User : HandleConnection(s, u)
                             \/ HandleConnectionRefused(s) \/ HandleDisconnect(s)
        \/ \E r \in Request, users \in SUBSET Sample \ {{}}, realtime \in BOOLEAN :
             NoticesCreate(r, users, realtime)
        \/ \E r \in Request, u \in User, id \in 1 .. noticeIds, op \in {"markAsRead", "remove"} :
             NoticeFind(r, u, id, op)
        \/ \E r \in Request : SendToUsers(r) \/ NoticeWrite(r)
        \/ (\E u \in User : MarkAllAsRead(u) \/ RemoveAll(u)) \/ NotificationsCrash
    BY <1>11 DEF NotificationsNext
  <2> HIDE DEF NotificationsTypeOK
  <2> QED BY <2>1, <1>1, <1>2, <1>3, <1>4, <1>5, <1>6, <1>7, <1>8, <1>9
<1> QED BY <1>10, <1>11

\* A socket joins its user's room and the user's entry.
LEMMA ConnectionMirrors ==
  ASSUME NoticesInv, NEW s \in Socket, NEW u \in User, HandleConnection(s, u)
  PROVE  Mirrors'
<1>1. /\ rooms[s] = Absent /\ rooms' = [rooms EXCEPT ![s] = u] /\ u # Absent
      /\ userSockets' = WithSockets(u, SocketsOf(u) \union {s})
  BY DirectoryAssumption DEF HandleConnection
<1>2. \A v \in User : InRoom(v)' = IF v = u THEN InRoom(v) \union {s} ELSE InRoom(v)
  BY <1>1, DirectoryAssumption DEF InRoom, NoticesInv, NotificationsTypeOK
<1>3. \A v \in User : SocketsOf(v)' = IF v = u THEN SocketsOf(v) \union {s} ELSE SocketsOf(v)
  BY <1>1 DEF SocketsOf, WithSockets
<1>4. \A v \in DOMAIN userSockets' : userSockets'[v] # {}
  BY <1>1 DEF WithSockets, NoticesInv, Mirrors
<1> QED BY <1>2, <1>3, <1>4 DEF NoticesInv, Mirrors

\* It leaves both, and the last one takes the entry along.
LEMMA DisconnectMirrors ==
  ASSUME NoticesInv, NEW s \in Socket, HandleDisconnect(s)
  PROVE  Mirrors'
<1> DEFINE u == rooms[s]
<1>1. u \in User /\ rooms' = [rooms EXCEPT ![s] = Gone] /\ SocketsOf(u) = InRoom(u) /\ s \in InRoom(u)
  BY DEF HandleDisconnect, NoticesInv, NotificationsTypeOK, Mirrors, InRoom
<1>2. \A v \in User : InRoom(v)' = InRoom(v) \ {s}
  BY <1>1, DirectoryAssumption DEF InRoom, NoticesInv, NotificationsTypeOK
<1>3. \A v \in User \ {u} : s \notin InRoom(v) /\ SocketsOf(v) = InRoom(v)
  BY DEF InRoom, NoticesInv, Mirrors
<1> HIDE DEF u
<1>4. CASE SocketsOf(u) = {s}
  <2>1. userSockets' = [v \in DOMAIN userSockets \ {u} |-> userSockets[v]]
    BY <1>4 DEF HandleDisconnect, u
  <2>2. \A v \in User : SocketsOf(v)' = IF v = u THEN {} ELSE SocketsOf(v)
    BY <2>1 DEF SocketsOf
  <2>3. \A v \in DOMAIN userSockets' : userSockets'[v] # {}
    BY <2>1 DEF NoticesInv, Mirrors
  <2>4. \A v \in User : v = u => InRoom(v)' = {}
    BY <1>1, <1>2, <1>4
  <2>5. \A v \in User : SocketsOf(v)' = InRoom(v)'
    BY <1>2, <1>3, <2>2, <2>4
  <2> QED BY <2>3, <2>5 DEF Mirrors
<1>5. CASE SocketsOf(u) # {s}
  <2>1. userSockets' = WithSockets(u, SocketsOf(u) \ {s})
    BY <1>5 DEF HandleDisconnect, u
  <2>2. \A v \in User : SocketsOf(v)' = IF v = u THEN SocketsOf(v) \ {s} ELSE SocketsOf(v)
    BY <2>1 DEF SocketsOf, WithSockets
  <2>3. \A v \in DOMAIN userSockets' : userSockets'[v] # {}
    BY <1>1, <1>5, <2>1 DEF WithSockets, NoticesInv, Mirrors
  <2>4. \A v \in User \ {u} : SocketsOf(v)' = InRoom(v)'
    BY <1>2, <1>3, <2>2
  <2>5. \A v \in User : v = u => SocketsOf(v)' = InRoom(v)'
    BY <1>1, <1>2, <2>2
  <2>6. \A v \in User : SocketsOf(v)' = InRoom(v)'
    BY <2>4, <2>5
  <2> QED BY <2>3, <2>6 DEF Mirrors
<1> QED BY <1>4, <1>5

\* Whatever else happens leaves the rooms and the map alone, or empties both.
LEMMA OthersMirror ==
  ASSUME NoticesInv, [NotificationsNext]_noticeVars,
         \A s \in Socket : ~HandleDisconnect(s) /\ \A u \in User : ~HandleConnection(s, u)
  PROVE  Mirrors'
<1>1. CASE UNCHANGED <<rooms, userSockets>>
  BY <1>1 DEF NoticesInv, Mirrors, SocketsOf, InRoom
<1>2. ASSUME NEW s \in Socket, HandleConnectionRefused(s) PROVE Mirrors'
  <2>1. \A v \in User : InRoom(v)' = InRoom(v)
    BY <1>2, DirectoryAssumption DEF HandleConnectionRefused, InRoom, NoticesInv, NotificationsTypeOK
  <2> QED BY <1>2, <2>1 DEF HandleConnectionRefused, NoticesInv, Mirrors, SocketsOf
<1>3. CASE NotificationsCrash
  <2>1. \A v \in User : InRoom(v)' = {}
    BY <1>3, DirectoryAssumption DEF NotificationsCrash, InRoom
  <2>2. DOMAIN userSockets' = {}
    BY <1>3 DEF NotificationsCrash
  <2> QED BY <2>1, <2>2 DEF Mirrors, SocketsOf
<1>4. (\E s \in Socket : HandleConnectionRefused(s)) \/ NotificationsCrash \/ UNCHANGED <<rooms, userSockets>>
  BY DEF NotificationsNext, NoticesCreate, NoticeFind, SendToUsers, NoticeWrite, MarkAllAsRead, RemoveAll,
         noticeVars
<1> QED BY <1>1, <1>2, <1>3, <1>4

\* The invariant holds: rooms and map agree whatever comes, also after a restart.
LEMMA NoticesInvariant == NotificationsSpec => []NoticesInv
<1>1. NotificationsInit => NoticesInv
  BY DirectoryAssumption DEF NotificationsInit, NoticesInv, NotificationsTypeOK, Mirrors, SocketsOf, InRoom
<1>2. NoticesInv /\ [NotificationsNext]_noticeVars => NoticesInv'
  <2> SUFFICES ASSUME NoticesInv, [NotificationsNext]_noticeVars PROVE NoticesInv'
    OBVIOUS
  <2>1. NotificationsTypeOK'
    BY NoticesTypeStep DEF NoticesInv
  <2>2. Mirrors'
    BY ConnectionMirrors, DisconnectMirrors, OthersMirror
  <2> QED BY <2>1, <2>2 DEF NoticesInv
<1> QED BY <1>1, <1>2, PTL DEF NotificationsSpec

\* Rows, rooms, the map and requests keep their shapes (notifications.service.ts,
\* notifications.gateway.ts).
THEOREM NotificationsTypeCorrect == NotificationsSpec => []NotificationsTypeOK
<1>1. NoticesInv => NotificationsTypeOK
  BY DEF NoticesInv
<1> QED BY <1>1, NoticesInvariant, PTL

\* Whatever the order of connections and disconnections, isUserOnline and
\* getOnlineUserCount tell who would be reached (notifications.gateway.ts:52,
\* 71-76, 110-117).
THEOREM OnlineIsReachedAlways == NotificationsSpec => []OnlineIsReached
<1>1. ASSUME NoticesInv PROVE OnlineIsReached
  <2>1. \A u \in User : Receivers({u}) = InRoom(u)
    BY DEF Receivers
  <2>2. \A u \in User : SocketsOf(u) = Receivers({u}) /\ (IsUserOnline(u) <=> Receivers({u}) # {})
    BY <1>1, <2>1 DEF NoticesInv, Mirrors, SocketsOf, IsUserOnline
  <2>3. DOMAIN userSockets = {u \in User : Receivers({u}) # {}}
    BY <1>1, <2>2 DEF NoticesInv, NotificationsTypeOK, Mirrors, SocketsOf
  <2> QED BY <2>2, <2>3 DEF OnlineIsReached
<1>2. NoticesInv => OnlineIsReached
  BY <1>1
<1> QED BY <1>2, NoticesInvariant, PTL

-----------------------------------------------------------------------------
(* TaskThreads                                                                *)

\* Whoever is yet to hear of a comment is among those its request goes on to
\* tell, and no comment or relation outlives its tasks.
Heard ==
  \A id \in 1 .. MaxRows :
    untold[id] # {} => \E r \in Request : /\ At(r, "tell") /\ replies[r].row = id
                                          /\ untold[id] \subseteq replies[r].todo
Standing ==
  /\ \A c \in comments : Stands(c.task)
  /\ \A x \in relations : Stands(x.from) /\ Stands(x.to)

\* What an insert finds: an id of its own, the author of a comment, the kind
\* of a relation.
Ready ==
  /\ threadIds <= MaxRows
  /\ \A r \in Request :
       /\ At(r, "addComment") => replies[r].user \in User
       /\ At(r, "findTarget") \/ At(r, "addRelation") => replies[r].kind \in RelationType

ThreadsInv == ThreadsTypeOK /\ Ready /\ Heard /\ Standing

\* The author apart, those a comment is for are users.
LEMMA TargetsAreUsers ==
  ASSUME NEW task \in TaskShape, NEW u
  PROVE  CommentTargets(task, u) \in SUBSET User
  BY DEF CommentTargets, TaskShape

\* Every step keeps the types of the variables and what an insert needs.
LEMMA ThreadsTypeStep ==
  ASSUME ThreadsTypeOK, Ready, [ThreadsNext]_threadVars
  PROVE  ThreadsTypeOK' /\ Ready'
<1> DEFINE Goal == ThreadsTypeOK' /\ Ready'
<1> USE DEF ThreadsTypeOK, Ready, At
<1>0. MaxRows \in Nat /\ Sample \subseteq User
  BY DirectoryAssumption
<1>1. ASSUME NEW t \in Task, NEW u \in Sample \union {NoUser}, ThreadReassign(t, u) PROVE Goal
  <2>1. threadTasks[t] \in TaskShape
    BY <1>1 DEF ThreadReassign, Stands
  <2>2. [threadTasks[t] EXCEPT !.assignee = u] \in TaskShape
    BY <1>0, <2>1 DEF TaskShape
  <2>3. threadTasks' \in [Task -> TaskShape \union {Gone}]
    BY <1>1, <2>2 DEF ThreadReassign
  <2> QED BY <1>1, <2>3 DEF ThreadReassign
<1>2. ASSUME NEW t \in Task, ThreadTaskRemoved(t) PROVE Goal
  BY <1>2 DEF ThreadTaskRemoved
<1>3. ASSUME NEW r \in Request, NEW u \in Sample, NEW t \in Task, AddCommentRead(r, u, t) PROVE Goal
  <2> DEFINE w == [Reply("addComment", t) EXCEPT !.user = u, !.todo = CommentTargets(threadTasks[t], u)]
  <2>1. threadTasks[t] \in TaskShape
    BY <1>3 DEF AddCommentRead, Stands
  <2>2. w \in ReplyShape /\ w.op = "addComment" /\ w.user \in User
    BY <1>0, <2>1, TargetsAreUsers DEF Reply, ReplyShape
  <2>3. replies' = [replies EXCEPT ![r] = w] /\ UNCHANGED <<threadTasks, comments, relations, threadIds, untold>>
    BY <1>3 DEF AddCommentRead, Replies
  <2> HIDE DEF w
  <2> QED BY <2>2, <2>3
<1>4. ASSUME NEW r \in Request, AddCommentInsert(r) PROVE Goal
  <2> DEFINE w == replies[r]
  <2>1. /\ w \in ReplyShape /\ w.todo \in SUBSET User /\ w.task \in Task /\ w.user \in User
        /\ threadIds + 1 \in Nat \intersect 1 .. MaxRows
    BY <1>0, <1>4 DEF AddCommentInsert, ReplyShape
  <2>2. CASE ~Stands(w.task)
    BY <1>4, <2>2 DEF AddCommentInsert, Replies
  <2>3. CASE Stands(w.task)
    <3> DEFINE v == [w EXCEPT !.op = "tell", !.user = NoUser, !.row = threadIds + 1]
    <3>1. /\ comments' = comments \union {[id |-> threadIds + 1, task |-> w.task, user |-> w.user]}
          /\ threadIds' = threadIds + 1
          /\ untold' = [untold EXCEPT ![threadIds + 1] = w.todo]
          /\ replies' = [replies EXCEPT ![r] = v]
          /\ UNCHANGED <<threadTasks, relations>>
      BY <1>4, <2>3 DEF AddCommentInsert, Replies
    <3>2. v \in ReplyShape /\ v.op = "tell"
      <4>1. v \in ReplyShape
        BY <2>1 DEF ReplyShape
      <4>2. v.op = "tell"
        BY <2>1 DEF ReplyShape
      <4> QED BY <4>1, <4>2
    <3> HIDE DEF v
    <3>3. replies' \in [Request -> ReplyShape \union {NoRequest}] /\ Ready'
      BY <2>1, <3>1, <3>2
    <3>4. untold' \in [1 .. MaxRows -> SUBSET User]
      BY <2>1, <3>1
    <3> QED BY <2>1, <3>1, <3>3, <3>4
  <2> QED BY <2>2, <2>3
<1>5. ASSUME NEW r \in Request, NEW u \in User, TellComment(r, u) PROVE Goal
  <2> DEFINE w == [replies[r] EXCEPT !.todo = @ \ {u}]
  <2>1. w \in ReplyShape /\ w.op = "tell"
    BY <1>5 DEF TellComment, ReplyShape
  <2>2. replies' = [replies EXCEPT ![r] = w]
    BY <1>5 DEF TellComment, Replies
  <2> HIDE DEF w
  <2>3. untold' \in [1 .. MaxRows -> SUBSET User]
    BY <1>5 DEF TellComment
  <2> QED BY <1>5, <2>1, <2>2, <2>3 DEF TellComment
<1>6. ASSUME NEW r \in Request, TellCommentFails(r) PROVE Goal
  BY <1>6 DEF TellCommentFails, Replies
<1>7. ASSUME NEW r \in Request, AddCommentEnd(r) \/ RemoveCommentDelete(r) \/ RemoveRelationDelete(r) PROVE Goal
  BY <1>7 DEF AddCommentEnd, RemoveCommentDelete, RemoveRelationDelete, Replies
<1>8. ASSUME NEW r \in Request, NEW u \in User, NEW c \in comments, RemoveCommentRead(r, u, c) PROVE Goal
  <2> DEFINE w == [Reply("removeComment", c.task) EXCEPT !.row = c.id]
  <2>1. w \in ReplyShape /\ w.op = "removeComment"
    BY DEF Reply, ReplyShape
  <2>2. replies' = [replies EXCEPT ![r] = w] /\ UNCHANGED <<threadTasks, comments, relations, threadIds, untold>>
    BY <1>8 DEF RemoveCommentRead, Replies
  <2> HIDE DEF w
  <2> QED BY <2>1, <2>2
<1>9. ASSUME NEW r \in Request, NEW u \in User, NEW t \in Task, NEW other \in Task, NEW kind \in RelationType,
             AddRelationRead(r, u, t, other, kind)
      PROVE  Goal
  <2> DEFINE w == [Reply("findTarget", t) EXCEPT !.other = other, !.kind = kind]
  <2>1. w \in ReplyShape /\ w.op = "findTarget" /\ w.kind \in RelationType
    BY DEF Reply, ReplyShape
  <2>2. replies' = [replies EXCEPT ![r] = w] /\ UNCHANGED <<threadTasks, comments, relations, threadIds, untold>>
    BY <1>9 DEF AddRelationRead, Replies
  <2> HIDE DEF w
  <2> QED BY <2>1, <2>2
<1>10. ASSUME NEW r \in Request, NEW u \in User, NEW t \in Task, NEW x \in relations,
              RemoveRelationRead(r, u, t, x)
       PROVE  Goal
  <2> DEFINE w == [Reply("removeRelation", t) EXCEPT !.row = x.id]
  <2>1. w \in ReplyShape /\ w.op = "removeRelation"
    BY DEF Reply, ReplyShape
  <2>2. replies' = [replies EXCEPT ![r] = w] /\ UNCHANGED <<threadTasks, comments, relations, threadIds, untold>>
    BY <1>10 DEF RemoveRelationRead, Replies
  <2> HIDE DEF w
  <2> QED BY <2>1, <2>2
<1>11. ASSUME NEW r \in Request, AddRelationTarget(r) PROVE Goal
  <2> DEFINE w == [replies[r] EXCEPT !.op = "addRelation"]
  <2>0. replies[r] \in ReplyShape /\ replies[r].kind \in RelationType
    BY <1>11 DEF AddRelationTarget
  <2>1. w \in ReplyShape /\ w.op = "addRelation" /\ w.kind \in RelationType
    BY <2>0 DEF ReplyShape
  <2>2. replies' = [replies EXCEPT ![r] = w] \/ replies' = [replies EXCEPT ![r] = NoRequest]
    BY <1>11 DEF AddRelationTarget, Replies
  <2> HIDE DEF w
  <2> QED BY <1>11, <2>1, <2>2 DEF AddRelationTarget
<1>12. ASSUME NEW r \in Request, AddRelationInsert(r) PROVE Goal
  <2> DEFINE w == replies[r]
             same == {x \in relations : x.from = w.task /\ x.to = w.other /\ x.kind = w.kind}
  <2>1. /\ w.task \in Task /\ w.other \in Task /\ w.kind \in RelationType /\ threadIds + 1 \in 1 .. MaxRows
        /\ replies' = [replies EXCEPT ![r] = NoRequest] /\ UNCHANGED <<threadTasks, comments, untold>>
    BY <1>0, <1>12 DEF AddRelationInsert, ReplyShape, Replies
  <2>2. \/ UNCHANGED <<relations, threadIds>>
        \/ /\ relations' = relations \union {[id |-> threadIds + 1, from |-> w.task, to |-> w.other, kind |-> w.kind]}
           /\ threadIds' = threadIds + 1
    BY <1>12 DEF AddRelationInsert
  <2> HIDE DEF w
  <2> QED BY <2>1, <2>2
<1>13. CASE UNCHANGED threadVars
  BY <1>13 DEF threadVars
<1>14. CASE ThreadsNext
  <2> HIDE DEF ThreadsTypeOK, Ready, At
  <2>1. ASSUME NEW r \in Request,
               \/ AddCommentInsert(r) \/ TellCommentFails(r) \/ AddCommentEnd(r) \/ RemoveCommentDelete(r)
               \/ AddRelationTarget(r) \/ AddRelationInsert(r) \/ RemoveRelationDelete(r)
        PROVE  Goal
    BY <2>1, <1>4, <1>6, <1>7, <1>11, <1>12
  <2>2. ASSUME NEW r \in Request, NEW u \in User, NEW t \in Task,
               \/ \E other \in Task, kind \in RelationType : AddRelationRead(r, u, t, other, kind)
               \/ \E x \in relations : RemoveRelationRead(r, u, t, x)
        PROVE  Goal
    BY <2>2, <1>9, <1>10
  <2>3. ASSUME NEW r \in Request, NEW u \in User,
               (\E c \in comments : RemoveCommentRead(r, u, c)) \/ TellComment(r, u)
        PROVE  Goal
    BY <2>3, <1>5, <1>8
  <2> QED BY <1>14, <2>1, <2>2, <2>3, <1>1, <1>2, <1>3 DEF ThreadsNext
<1> QED BY <1>13, <1>14

\* A step that starts no comment's telling and takes no one from it keeps Heard.
LEMMA HeardKept ==
  ASSUME Heard, untold' = untold,
         \A r \in Request : At(r, "tell") => replies'[r] = replies[r] \/ replies[r].todo = {}
  PROVE  Heard'
<1> SUFFICES ASSUME NEW id \in 1 .. MaxRows, untold[id] # {}
             PROVE  \E r \in Request : /\ At(r, "tell")' /\ replies'[r].row = id
                                       /\ untold[id] \subseteq replies'[r].todo
  BY DEF Heard
<1>1. PICK r \in Request : At(r, "tell") /\ replies[r].row = id /\ untold[id] \subseteq replies[r].todo
  BY DEF Heard
<1> QED BY <1>1 DEF At

\* A comment is told of by the request that made it, to the last of its targets.
LEMMA HeardStep ==
  ASSUME ThreadsInv, [ThreadsNext]_threadVars
  PROVE  Heard'
<1> USE DEF ThreadsInv
<1>0. replies \in [Request -> ReplyShape \union {NoRequest}] /\ untold \in [1 .. MaxRows -> SUBSET User]
      /\ MaxRows \in Nat /\ threadIds \in Nat
  BY DirectoryAssumption DEF ThreadsTypeOK
<1>1. ASSUME NEW r \in Request, AddCommentInsert(r) PROVE Heard'
  <2> DEFINE w == replies[r]
             v == [w EXCEPT !.op = "tell", !.user = NoUser, !.row = threadIds + 1]
  <2>1. At(r, "addComment") /\ ~At(r, "tell") /\ w \in ReplyShape /\ threadIds + 1 \in Nat \intersect 1 .. MaxRows
    BY <1>0, <1>1 DEF AddCommentInsert, At
  <2>2. CASE ~Stands(w.task)
    <3>1. untold' = untold /\ replies' = [replies EXCEPT ![r] = NoRequest]
      BY <1>1, <2>2 DEF AddCommentInsert, Replies
    <3> QED BY <1>0, <2>1, <3>1, HeardKept
  <2>3. CASE Stands(w.task)
    <3>1. untold' = [untold EXCEPT ![threadIds + 1] = w.todo] /\ replies' = [replies EXCEPT ![r] = v]
      BY <1>1, <2>3 DEF AddCommentInsert, Replies
    <3>2. v \in ReplyShape /\ v.op = "tell" /\ v.row = threadIds + 1 /\ v.todo = w.todo /\ v # NoRequest
      <4>1. v \in ReplyShape
        BY <2>1 DEF ReplyShape
      <4>2. v.op = "tell" /\ v.row = threadIds + 1 /\ v.todo = w.todo
        BY <2>1 DEF ReplyShape
      <4> QED BY <4>1, <4>2, ThreadsAssumption
    <3> HIDE DEF v, w
    <3>3. At(r, "tell")' /\ replies'[r].row = threadIds + 1 /\ replies'[r].todo = w.todo
      BY <1>0, <3>1, <3>2 DEF At
    <3>4. \A q \in Request : At(q, "tell") => At(q, "tell")' /\ replies'[q] = replies[q]
      BY <1>0, <2>1, <3>1 DEF At
    <3>5. untold'[threadIds + 1] = w.todo /\ \A id \in 1 .. MaxRows : id # threadIds + 1 => untold'[id] = untold[id]
      BY <1>0, <2>1, <3>1
    <3> QED BY <3>3, <3>4, <3>5 DEF Heard
  <2> QED BY <2>2, <2>3
<1>2. ASSUME NEW r \in Request, NEW u \in User, TellComment(r, u) PROVE Heard'
  <2> DEFINE w == replies[r]
             v == [w EXCEPT !.todo = @ \ {u}]
  <2>1. /\ w \in ReplyShape /\ untold' = [untold EXCEPT ![w.row] = @ \ {u}]
        /\ replies' = [replies EXCEPT ![r] = v]
    BY <1>0, <1>2 DEF TellComment, Replies, At
  <2>2. v \in ReplyShape /\ v.op = w.op /\ v.row = w.row /\ v.todo = w.todo \ {u} /\ v # NoRequest
    <3>1. v.op = w.op /\ v.row = w.row /\ v.todo = w.todo \ {u}
      BY <2>1 DEF ReplyShape
    <3>2. v \in ReplyShape
      BY <2>1 DEF ReplyShape
    <3> QED BY <3>1, <3>2, ThreadsAssumption
  <2> HIDE DEF v, w
  <2>3. \A q \in Request : At(q, "tell") => /\ At(q, "tell")' /\ replies'[q].row = replies[q].row
                                            /\ replies'[q].todo = IF q = r THEN replies[q].todo \ {u} ELSE replies[q].todo
    BY <1>0, <2>1, <2>2 DEF At, w
  <2>4. \A id \in 1 .. MaxRows : untold'[id] = IF id = w.row THEN untold[id] \ {u} ELSE untold[id]
    BY <1>0, <2>1
  <2>5. ASSUME NEW id \in 1 .. MaxRows, untold'[id] # {}
        PROVE  \E q \in Request : At(q, "tell")' /\ replies'[q].row = id /\ untold'[id] \subseteq replies'[q].todo
    <3>1. PICK q \in Request : At(q, "tell") /\ replies[q].row = id /\ untold[id] \subseteq replies[q].todo
      BY <2>4, <2>5 DEF Heard
    <3>2. q = r => id = w.row
      BY <3>1 DEF w
    <3>3. untold'[id] \subseteq replies'[q].todo
      BY <2>3, <2>4, <3>1, <3>2
    <3> QED BY <2>3, <3>1, <3>3
  <2> QED BY <2>5 DEF Heard
<1>3. ASSUME NEW r \in Request, TellCommentFails(r) PROVE Heard'
  <2>1. /\ untold' = [untold EXCEPT ![replies[r].row] = {}] /\ replies' = [replies EXCEPT ![r] = NoRequest]
    BY <1>3 DEF TellCommentFails, Replies
  <2>2. ASSUME NEW id \in 1 .. MaxRows, untold'[id] # {}
        PROVE  \E q \in Request : At(q, "tell")' /\ replies'[q].row = id /\ untold'[id] \subseteq replies'[q].todo
    <3>1. id # replies[r].row /\ untold'[id] = untold[id]
      BY <1>0, <2>1, <2>2
    <3>2. PICK q \in Request : At(q, "tell") /\ replies[q].row = id /\ untold[id] \subseteq replies[q].todo
      BY <2>2, <3>1 DEF Heard
    <3>3. q # r /\ replies'[q] = replies[q]
      BY <1>0, <2>1, <3>1, <3>2
    <3> QED BY <3>1, <3>2, <3>3 DEF At
  <2> QED BY <2>2 DEF Heard
<1>4. ASSUME NEW r \in Request, replies[r] = NoRequest \/ (~At(r, "tell") \/ replies[r].todo = {}),
             NEW w, replies' = [replies EXCEPT ![r] = w], untold' = untold
      PROVE  Heard'
  <2>1. \A q \in Request : At(q, "tell") => replies'[q] = replies[q] \/ replies[q].todo = {}
    BY <1>0, <1>4 DEF At
  <2> QED BY <1>4, <2>1, HeardKept
<1>5. ASSUME NEW t \in Task, NEW u, ThreadReassign(t, u) \/ ThreadTaskRemoved(t) PROVE Heard'
  BY <1>5, HeardKept DEF ThreadReassign, ThreadTaskRemoved
<1>6. ASSUME NEW r \in Request, NEW u, NEW t, NEW other, NEW kind, NEW x, NEW c,
             \/ AddCommentRead(r, u, t) \/ RemoveCommentRead(r, u, c)
             \/ AddRelationRead(r, u, t, other, kind) \/ RemoveRelationRead(r, u, t, x)
      PROVE  Heard'
  <2>1. /\ replies[r] = NoRequest /\ untold' = untold
        /\ \E w : replies' = [replies EXCEPT ![r] = w]
    BY <1>6 DEF AddCommentRead, RemoveCommentRead, AddRelationRead, RemoveRelationRead, Replies
  <2> QED BY <2>1, <1>4
<1>7. ASSUME NEW r \in Request,
             \/ AddCommentEnd(r) \/ RemoveCommentDelete(r) \/ AddRelationTarget(r) \/ AddRelationInsert(r)
             \/ RemoveRelationDelete(r)
      PROVE  Heard'
  <2>1. /\ ~At(r, "tell") \/ replies[r].todo = {}
        /\ untold' = untold
        /\ \E w : replies' = [replies EXCEPT ![r] = w]
    BY <1>7 DEF AddCommentEnd, RemoveCommentDelete, AddRelationTarget, AddRelationInsert, RemoveRelationDelete,
                Replies, At
  <2> QED BY <2>1, <1>4
<1>8. CASE UNCHANGED threadVars
  BY <1>8, HeardKept DEF threadVars
<1>9. CASE ThreadsNext
  <2> HIDE DEF ThreadsInv
  <2> QED BY <1>9, <1>1, <1>2, <1>3, <1>5, <1>6, <1>7 DEF ThreadsNext
<1> QED BY <1>8, <1>9

\* A removed task takes its comments and relations along, and nothing is
\* inserted for one.
LEMMA StandingStep ==
  ASSUME ThreadsInv, [ThreadsNext]_threadVars
  PROVE  Standing'
<1>0. threadTasks \in [Task -> TaskShape \union {Gone}] /\ replies \in [Request -> ReplyShape \union {NoRequest}]
      /\ comments \in SUBSET [id : Nat, task : Task, user : User]
      /\ relations \in SUBSET [id : Nat, from : Task, to : Task, kind : RelationType]
  BY DEF ThreadsInv, ThreadsTypeOK
<1>1. ASSUME NEW t \in Task, NEW u \in Sample \union {NoUser}, ThreadReassign(t, u) PROVE Standing'
  <2>1. threadTasks[t] \in TaskShape
    BY <1>0, <1>1 DEF ThreadReassign, Stands
  <2>2. [threadTasks[t] EXCEPT !.assignee = u] # Gone
    BY <2>1, DirectoryAssumption, ThreadsAssumption DEF TaskShape
  <2>3. \A k \in Task : Stands(k) => Stands(k)'
    BY <1>0, <1>1, <2>2 DEF ThreadReassign, Stands
  <2> QED BY <1>0, <1>1, <2>3 DEF ThreadReassign, ThreadsInv, Standing
<1>2. ASSUME NEW t \in Task, ThreadTaskRemoved(t) PROVE Standing'
  <2>1. \A k \in Task : Stands(k) /\ k # t => Stands(k)'
    BY <1>0, <1>2 DEF ThreadTaskRemoved, Stands
  <2> QED BY <1>0, <1>2, <2>1 DEF ThreadTaskRemoved, ThreadsInv, Standing
<1>3. ASSUME UNCHANGED threadTasks,
             \A c \in comments' : c \in comments \/ (c.task \in Task /\ Stands(c.task)),
             \A x \in relations' : x \in relations \/ (Stands(x.from) /\ Stands(x.to))
      PROVE  Standing'
  BY <1>3 DEF ThreadsInv, Standing, Stands
<1>4. ASSUME NEW r \in Request, AddCommentInsert(r) PROVE Standing'
  BY <1>3, <1>4, <1>0 DEF AddCommentInsert, At, ReplyShape
<1>5. ASSUME NEW r \in Request, AddRelationInsert(r) PROVE Standing'
  BY <1>3, <1>5 DEF AddRelationInsert
<1>6. ASSUME NEW r \in Request, RemoveCommentDelete(r) \/ RemoveRelationDelete(r) PROVE Standing'
  BY <1>3, <1>6 DEF RemoveCommentDelete, RemoveRelationDelete
<1>7. CASE UNCHANGED <<threadTasks, comments, relations>>
  BY <1>3, <1>7
<1>8. \/ \E t \in Task : (\E u \in Sample \union {NoUser} : ThreadReassign(t, u)) \/ ThreadTaskRemoved(t)
      \/ \E r \in Request : AddCommentInsert(r) \/ AddRelationInsert(r) \/ RemoveCommentDelete(r) \/ RemoveRelationDelete(r)
      \/ UNCHANGED <<threadTasks, comments, relations>>
  BY DEF ThreadsNext, threadVars, AddCommentRead, TellComment, TellCommentFails, AddCommentEnd, RemoveCommentRead,
         AddRelationRead, AddRelationTarget, RemoveRelationRead
<1> QED BY <1>1, <1>2, <1>4, <1>5, <1>6, <1>7, <1>8

\* The invariant of the comments and relations.
LEMMA ThreadsInvariant == ThreadsSpec => []ThreadsInv
<1>1. ThreadsInit => ThreadsInv
  <2> SUFFICES ASSUME ThreadsInit PROVE ThreadsInv
    OBVIOUS
  <2>1. ThreadsTypeOK
    BY ThreadsAssumption DEF ThreadsInit, ThreadsTypeOK
  <2>2. Ready /\ Heard /\ Standing
    BY DirectoryAssumption DEF ThreadsInit, Ready, At, Heard, Standing
  <2> QED BY <2>1, <2>2 DEF ThreadsInv
<1>2. ThreadsInv /\ [ThreadsNext]_threadVars => ThreadsInv'
  <2> SUFFICES ASSUME ThreadsInv, [ThreadsNext]_threadVars PROVE ThreadsInv'
    OBVIOUS
  <2>1. ThreadsTypeOK' /\ Ready'
    BY ThreadsTypeStep DEF ThreadsInv
  <2> QED BY <2>1, HeardStep, StandingStep DEF ThreadsInv
<1> QED BY <1>1, <1>2, PTL DEF ThreadsSpec

\* Tasks, comments, relations and requests keep their shapes (tasks.service.ts).
THEOREM ThreadsTypeCorrect == ThreadsSpec => []ThreadsTypeOK
<1>1. ThreadsInv => ThreadsTypeOK
  BY DEF ThreadsInv
<1> QED BY <1>1, ThreadsInvariant, PTL

\* When the request of a comment has ended without an error, everyone the task
\* belonged to when it was read has been told, the author apart; comments and
\* relations go with their tasks (tasks.service.ts:499-552, schema.prisma:193-209).
THEOREM CommentIsHeardAlways == ThreadsSpec => []CommentIsHeard
<1>1. ThreadsInv => CommentIsHeard
  <2> SUFFICES ASSUME ThreadsInv PROVE CommentIsHeard
    OBVIOUS
  <2>1. 1 .. threadIds \subseteq 1 .. MaxRows
    BY DirectoryAssumption DEF ThreadsInv, ThreadsTypeOK, Ready
  <2> QED BY <2>1 DEF ThreadsInv, Heard, Standing, CommentIsHeard
<1> QED BY <1>1, ThreadsInvariant, PTL
=============================================================================
