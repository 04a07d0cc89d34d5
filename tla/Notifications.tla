--------------------------- MODULE Notifications ---------------------------
(***************************************************************************)
(* NotificationsService and its gateway.  A notice is stored and then      *)
(* pushed to the sockets in its user's room; the gateway keeps, next to    *)
(* socket.io's rooms, a map of its own from users to their sockets.        *)
(***************************************************************************)
EXTENDS Directory

CONSTANTS Socket  \* ids, each used for one connection

VARIABLES
  notices,      \* the Notification table: [id, user, read]
  noticeIds,
  handling,     \* what each request is doing
  rooms,        \* each socket: the user of the room it joined, Absent or Gone
  userSockets   \* the gateway's map, with a set for each user in its domain

noticeVars == <<notices, noticeIds, handling, rooms, userSockets>>

NotificationsInit ==
  /\ notices = {} /\ noticeIds = 0
  /\ handling = [r \in Request |-> NoRequest]
  /\ rooms = [s \in Socket |-> Absent]
  /\ userSockets = [u \in {} |-> {}]

InRoom(u) == {s \in Socket : rooms[s] = u}
SocketsOf(u) == IF u \in DOMAIN userSockets THEN userSockets[u] ELSE {}
WithSockets(u, sockets) ==
  [v \in DOMAIN userSockets \union {u} |-> IF v = u THEN sockets ELSE userSockets[v]]

\* A token that verifies; handleConnection awaits nothing.
HandleConnection(s, u) ==
  /\ rooms[s] = Absent
  /\ rooms' = [rooms EXCEPT ![s] = u]
  /\ userSockets' = WithSockets(u, SocketsOf(u) \union {s})
  /\ UNCHANGED <<notices, noticeIds, handling>>
\* No token, or one that does not: disconnected before a user is set.
HandleConnectionRefused(s) ==
  /\ rooms[s] = Absent /\ rooms' = [rooms EXCEPT ![s] = Gone]
  /\ UNCHANGED <<notices, noticeIds, handling, userSockets>>

\* socket.io has left the room by then; the last socket takes the entry along.
\* Mutant: any socket does.
HandleDisconnect_First(s) ==
  LET u == rooms[s]
  IN /\ u \notin {Absent, Gone}
     /\ rooms' = [rooms EXCEPT ![s] = Gone]
     /\ userSockets' = [v \in DOMAIN userSockets \ {u} |-> userSockets[v]]
     /\ UNCHANGED <<notices, noticeIds, handling>>
HandleDisconnect(s) ==
  LET u == rooms[s]
  IN /\ u \notin {Absent, Gone}
     /\ rooms' = [rooms EXCEPT ![s] = Gone]
     /\ userSockets' = IF SocketsOf(u) = {s}
                       THEN [v \in DOMAIN userSockets \ {u} |-> userSockets[v]]
                       ELSE WithSockets(u, SocketsOf(u) \ {s})
     /\ UNCHANGED <<notices, noticeIds, handling>>

IsUserOnline(u) == u \in DOMAIN userSockets /\ userSockets[u] # {}

Handles(r, what) == handling' = [handling EXCEPT ![r] = what]
OwnNotice(id, u) == {n \in notices : n.id = id /\ n.user = u}

\* create and createMany: the rows, and then the pushes in one go.  The other
\* services' notices all come through create.
NoticesCreate(r, users, realtime) ==
  LET first == noticeIds + 1
      rows == {[id |-> first, user |-> u, read |-> FALSE] : u \in users}
  IN /\ handling[r] = NoRequest /\ noticeIds < MaxRows
     /\ noticeIds' = first
     /\ notices' = notices \union rows
     /\ Handles(r, IF realtime THEN [op |-> "push", id |-> first, users |-> users] ELSE NoRequest)
     /\ UNCHANGED <<rooms, userSockets>>
\* Whatever sockets are in the rooms by then get it.
Receivers(users) == UNION {InRoom(u) : u \in users}
SendToUsers(r) ==
  /\ handling[r] # NoRequest /\ handling[r].op = "push"
  /\ Handles(r, NoRequest)
  /\ UNCHANGED <<notices, noticeIds, rooms, userSockets>>

\* findFirst by id and user, then by id; P2025 when the row is gone.
NoticeFind(r, u, id, op) ==
  /\ handling[r] = NoRequest /\ OwnNotice(id, u) # {}
  /\ Handles(r, [op |-> op, id |-> id, users |-> {u}])
  /\ UNCHANGED <<notices, noticeIds, rooms, userSockets>>
NoticeWrite(r) ==
  LET h == handling[r]
      rows == {n \in notices : n.id = h.id /\ n.user \in h.users}
      read == {[n EXCEPT !.read = TRUE] : n \in rows}
  IN /\ h # NoRequest /\ h.op \in {"markAsRead", "remove"}
     /\ notices' = (notices \ rows) \union (IF h.op = "markAsRead" THEN read ELSE {})
     /\ Handles(r, NoRequest)
     /\ UNCHANGED <<noticeIds, rooms, userSockets>>

MarkAllAsRead(u) ==
  /\ notices' = {IF n.user = u THEN [n EXCEPT !.read = TRUE] ELSE n : n \in notices}
  /\ UNCHANGED <<noticeIds, handling, rooms, userSockets>>
RemoveAll(u) ==
  /\ notices' = {n \in notices : n.user # u}
  /\ UNCHANGED <<noticeIds, handling, rooms, userSockets>>

\* The process dies: sockets, rooms and the map with it.
NotificationsCrash ==
  /\ handling' = [r \in Request |-> NoRequest]
  /\ rooms' = [s \in Socket |-> IF rooms[s] = Absent THEN Absent ELSE Gone]
  /\ userSockets' = [u \in {} |-> {}]
  /\ UNCHANGED <<notices, noticeIds>>

NotificationsNext ==
  \/ \E s \in Socket : \/ \E u \in User : HandleConnection(s, u)
                       \/ HandleConnectionRefused(s) \/ HandleDisconnect(s)
  \/ \E r \in Request : \/ \E users \in SUBSET Sample \ {{}}, realtime \in BOOLEAN :
                             NoticesCreate(r, users, realtime)
                        \/ \E u \in User, id \in 1 .. noticeIds, op \in {"markAsRead", "remove"} :
                             NoticeFind(r, u, id, op)
                        \/ SendToUsers(r) \/ NoticeWrite(r)
  \/ \E u \in User : MarkAllAsRead(u) \/ RemoveAll(u)
  \/ NotificationsCrash

NotificationsSpec == NotificationsInit /\ [][NotificationsNext]_noticeVars

-----------------------------------------------------------------------------
\* The variables have their types (all of the module).
NotificationsTypeOK ==
  /\ notices \in SUBSET [id : Nat, user : User, read : BOOLEAN] /\ noticeIds \in Nat
  /\ handling \in [Request -> [op : {"push", "markAsRead", "remove"}, id : Nat, users : SUBSET User]
                                \union {NoRequest}]
  /\ rooms \in [Socket -> User \union {Absent, Gone}]
  /\ DOMAIN userSockets \subseteq User /\ \A u \in DOMAIN userSockets : userSockets[u] \subseteq Socket

\* Whatever the order of connections and disconnections of a user's clients, the
\* gateway's map has the sockets in the user's room, so that isUserOnline and
\* getOnlineUserCount tell who would be reached (notifications.gateway.ts:52,
\* 71-76, 110-117).
OnlineIsReached ==
  /\ \A u \in User : SocketsOf(u) = Receivers({u}) /\ (IsUserOnline(u) <=> Receivers({u}) # {})
  /\ Cardinality(DOMAIN userSockets) = Cardinality({u \in User : Receivers({u}) # {}})
=============================================================================
