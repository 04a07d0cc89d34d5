------------------------- MODULE TaskWorkflowProofs -------------------------
(***************************************************************************)
(* TaskWorkflow, for any users, tasks, patches, handlers and events.  As   *)
(* long as no handler started beside another, at most one is at work, and  *)
(* what it read of a task still holds when it comes to write: `Knows` says *)
(* what that is at each of its steps.  As long as deliveries are made once *)
(* and in order too, a merge is the last word on its pull request.         *)
(***************************************************************************)
EXTENDS TaskWorkflow, SequenceTheorems, TLAPS

\* What a handler of each operation holds, and the steps it goes through.
Shape(h) ==
  /\ h.op = "idle" => h = Idle
  /\ h.op = "create" => h.pc \in {"notify", "sent"} /\ h.copy \in Copy
  /\ h.op = "update" => /\ h.pc \in {"write", "history", "sent"} /\ h.copy \in Copy /\ h.patch \in Patches
                        /\ h.told = {} \/ h.told = UpdateNotices(h)
  /\ h.op = "remove" => h.pc = "write" /\ h.copy \in Copy
  /\ h.op = "due" => h.pc = "loop" /\ \A c \in h.todo : c.assignee # NoUser
  /\ h.op \in Event => h.pc \in {"loop", "write", "history"} /\ (h.pc # "loop" => h.copy \in Copy)
  /\ h.op \notin Event \union {"due"} => h.todo = {}
  /\ h.told # {} => h.copy \in Copy

Agrees(c) == Exists(c.id) /\ tasks[c.id].status = c.status
\* The status an update or an event gives the task of its copy.
Given(h) == IF h.patch.status = Same THEN h.copy.status ELSE h.patch.status

\* What the handler in a slot knows when it is alone.
Knows(s) ==
  LET h == slot[s]
  IN /\ \A c \in h.todo : Agrees(c) /\ (h.op = "due" => c.status \notin Closed)
     /\ \A c, d \in h.todo : c.id = d.id => c = d
     /\ h.pc = "write" => Agrees(h.copy)
     /\ h.pc \in {"write", "history"} => \A c \in h.todo : c.id # h.copy.id
     /\ h.pc = "history" =>
          /\ Exists(h.copy.id) /\ trail[h.copy.id].to = h.copy.status
          /\ h.op = "update" => tasks[h.copy.id].status = Given(h)
          /\ h.op \in Event => \A e \in Effect(h.op, h.copy) : tasks[h.copy.id].status = e.status
     /\ \A n \in h.told : /\ n.kind = "due" => tasks[h.copy.id].status \notin Closed
                          /\ n.kind = "completed" => tasks[h.copy.id].status = "DONE"

\* The tasks whose last change of status is not yet in the history.
Recording(t) == \E s \in Slot : slot[s].pc = "history" /\ slot[s].copy.id = t

Alone == \A s, q \in Slot : slot[s].op # "idle" /\ slot[q].op # "idle" => s = q
TrailRuns ==
  \A t \in Task : trail[t].ok /\ (Exists(t) /\ ~Recording(t) => trail[t].to = tasks[t].status)
Dated == \A t \in Task \ patched : Exists(t) => (tasks[t].status = "DONE" <=> tasks[t].done)

IInv ==
  /\ TypeOK
  /\ \A s \in Slot : Shape(slot[s])
  /\ overlaps = 0 => Alone /\ (\A s \in Slot : Knows(s)) /\ TrailRuns /\ Dated

-----------------------------------------------------------------------------
(* Rows, handlers and effects.                                               *)

LEMMA RowIs ==
  /\ \A row \in Row : row \notin {Unused, Removed}
  /\ TypeOK => \A t \in Task : Exists(t) => tasks[t] \in Row
  BY TaskAssumption DEF TypeOK, Exists

LEMMA IdleIs ==
  /\ Idle \in Handle /\ Shape(Idle) /\ Idle.op = "idle" /\ Idle.pc = "idle"
  /\ Idle.todo = {} /\ Idle.told = {}
<1>1. Idle.op = "idle" /\ Idle.pc = "idle" /\ Idle.todo = {} /\ Idle.told = {}
  BY DEF Idle
<1>2. Idle \in Handle
  BY DEF Idle, Handle
<1>3. "idle" \notin Event
  BY DEF Event, PrEvent, IssueEvent
<1> QED BY <1>1, <1>2, <1>3 DEF Shape

LEMMA CopyIs ==
  ASSUME NEW t \in Task, NEW row \in Row
  PROVE  CopyOf(t, row) \in Copy /\ CopyOf(t, row).id = t /\ CopyOf(t, row).status = row.status
  BY DEF CopyOf, Copy, Row

\* What an event makes of a copy: one thing at most, with completedAt set with
\* DONE, cleared with the others, and kept only between two that are not DONE.
LEMMA EffectIs ==
  ASSUME NEW event \in Event, NEW c \in Copy, NEW e \in Effect(event, c)
  PROVE  /\ e.status \in Status /\ e.done \in {TRUE, FALSE, Same}
         /\ e.done = TRUE => e.status = "DONE"
         /\ e.done = FALSE => e.status # "DONE"
         /\ e.done = Same => e.status # "DONE" /\ c.status # "DONE"
         /\ c.status = "CANCELLED" => event = "merged"
         /\ event = "merged" => e.status = "DONE"
         /\ \A f \in Effect(event, c) : f = e
<1>0. Same # TRUE /\ Same # FALSE
  BY TaskAssumption
<1> DEFINE Is(status, done) == Effect(event, c) = To(status, done) \/ Effect(event, c) = {}
<1>1. ASSUME NEW status \in Status, NEW done, Is(status, done)
      PROVE  e.status = status /\ e.done = done /\ \A f \in Effect(event, c) : f = e
  BY <1>1 DEF To
<1> HIDE DEF Is
<1>2. CASE event = "opened"
  <2>1. Effect(event, c) = HandlePrOpened(c)
    BY <1>2 DEF Effect
  <2>2. Is("REVIEW", Same) /\ "REVIEW" \in Status
    BY <2>1 DEF Is, HandlePrOpened, Status
  <2>3. e.status = "REVIEW" /\ e.done = Same /\ \A f \in Effect(event, c) : f = e
    BY <1>1, <2>2
  <2>4. c.status # "CANCELLED" \/ event = "merged"
    BY <1>2, <2>1 DEF HandlePrOpened, Closed
  <2> QED BY <1>0, <1>2, <2>1, <2>2, <2>3, <2>4 DEF HandlePrOpened
<1>3. CASE event = "merged"
  <2>1. Effect(event, c) = HandlePrMerged(c)
    BY <1>3 DEF Effect
  <2>2. Is("DONE", TRUE) /\ "DONE" \in Status
    BY <2>1 DEF Is, HandlePrMerged, Status
  <2>3. e.status = "DONE" /\ e.done = TRUE /\ \A f \in Effect(event, c) : f = e
    BY <1>1, <2>2
  <2>4. c.status # "CANCELLED" \/ event = "merged"
    BY <1>3, <2>1 DEF HandlePrMerged, Closed
  <2> QED BY <1>0, <1>3, <2>1, <2>2, <2>3, <2>4 DEF HandlePrMerged
<1>4. CASE event = "closed"
  <2>1. Effect(event, c) = HandlePrClosed(c)
    BY <1>4 DEF Effect
  <2>2. Is("IN_PROGRESS", Same) /\ "IN_PROGRESS" \in Status
    BY <2>1 DEF Is, HandlePrClosed, Status
  <2>3. e.status = "IN_PROGRESS" /\ e.done = Same /\ \A f \in Effect(event, c) : f = e
    BY <1>1, <2>2
  <2>4. c.status # "CANCELLED" \/ event = "merged"
    BY <1>4, <2>1 DEF HandlePrClosed, Closed
  <2> QED BY <1>0, <1>4, <2>1, <2>2, <2>3, <2>4 DEF HandlePrClosed
<1>5. CASE event = "reopened"
  <2>1. Effect(event, c) = HandlePrReopened(c)
    BY <1>5 DEF Effect
  <2>2. Is("REVIEW", FALSE) /\ "REVIEW" \in Status
    BY <2>1 DEF Is, HandlePrReopened, Status
  <2>3. e.status = "REVIEW" /\ e.done = FALSE /\ \A f \in Effect(event, c) : f = e
    BY <1>1, <2>2
  <2>4. c.status # "CANCELLED" \/ event = "merged"
    BY <1>5, <2>1 DEF HandlePrReopened, Closed
  <2> QED BY <1>0, <1>5, <2>1, <2>2, <2>3, <2>4 DEF HandlePrReopened
<1>6. CASE event = "issue_closed"
  <2>1. Effect(event, c) = HandleIssueClosed(c)
    BY <1>6 DEF Effect
  <2>2. Is("DONE", TRUE) /\ "DONE" \in Status
    BY <2>1 DEF Is, HandleIssueClosed, Status
  <2>3. e.status = "DONE" /\ e.done = TRUE /\ \A f \in Effect(event, c) : f = e
    BY <1>1, <2>2
  <2>4. c.status # "CANCELLED" \/ event = "merged"
    BY <1>6, <2>1 DEF HandleIssueClosed, Closed
  <2> QED BY <1>0, <1>6, <2>1, <2>2, <2>3, <2>4 DEF HandleIssueClosed
<1>7. CASE event = "issue_reopened"
  <2>1. Effect(event, c) = HandleIssueReopened(c)
    BY <1>7 DEF Effect
  <2>2. Is("IN_PROGRESS", FALSE) /\ "IN_PROGRESS" \in Status
    BY <2>1 DEF Is, HandleIssueReopened, Status
  <2>3. e.status = "IN_PROGRESS" /\ e.done = FALSE /\ \A f \in Effect(event, c) : f = e
    BY <1>1, <2>2
  <2>4. c.status # "CANCELLED" \/ event = "merged"
    BY <1>7, <2>1 DEF HandleIssueReopened, Closed
  <2> QED BY <1>0, <1>7, <2>1, <2>2, <2>3, <2>4 DEF HandleIssueReopened
<1>8. CASE event = "push"
  <2>1. Effect(event, c) = HandlePush(c)
    BY <1>8 DEF Effect
  <2>2. Is("IN_PROGRESS", Same) /\ "IN_PROGRESS" \in Status
    BY <2>1 DEF Is, HandlePush, Status
  <2>3. e.status = "IN_PROGRESS" /\ e.done = Same /\ \A f \in Effect(event, c) : f = e
    BY <1>1, <2>2
  <2>4. c.status # "CANCELLED" \/ event = "merged"
    BY <1>8, <2>1 DEF HandlePush, Closed
  <2> QED BY <1>0, <1>8, <2>1, <2>2, <2>3, <2>4 DEF HandlePush
<1> QED BY <1>2, <1>3, <1>4, <1>5, <1>6, <1>7, <1>8 DEF Event, PrEvent, IssueEvent

\* The notices of an event are of the kinds declared, and tell of a completion
\* only for a merge; none is about a due date.
LEMMA EventNoticesAre ==
  ASSUME NEW event \in Event, NEW c \in Copy
  PROVE  /\ EventNotices(event, c) \in SUBSET Notice
         /\ \A n \in EventNotices(event, c) : n.kind # "due" /\ (n.kind = "completed" => event = "merged")
<1>1. CASE event = "merged"
  BY <1>1 DEF EventNotices, Notice, NoticeKind, Copy
<1>2. CASE event # "merged"
  BY <1>2 DEF EventNotices, Notice, NoticeKind, Copy
<1> QED BY <1>1, <1>2

\* So are those of an update; it tells of a completion when it makes one.
LEMMA UpdateNoticesAre ==
  ASSUME NEW h \in Handle, h.copy \in Copy, h.patch \in Patches
  PROVE  /\ UpdateNotices(h) \in SUBSET Notice
         /\ \A n \in UpdateNotices(h) : /\ n.kind # "due"
                                        /\ n.kind = "completed" => StatusChange(h) /\ h.patch.status = "DONE"
<1>1. h.patch \in Patch /\ h.patch.assignee \in User \union {NoUser, Same}
  BY TaskAssumption DEF Patch
<1> QED BY <1>1 DEF UpdateNotices, Notice, NoticeKind, Copy, AssigneeChange

LEMMA MergeMoves == ASSUME NEW c \in Copy PROVE Effect("merged", c) # {}
<1>1. Effect("merged", c) = HandlePrMerged(c)
  BY DEF Effect
<1> QED BY <1>1 DEF HandlePrMerged, To

-----------------------------------------------------------------------------
(* A step of one handler, a start of one, and the others.                    *)

\* Where no handler started beside another, the others are idle.
LEMMA OthersIdle ==
  ASSUME IInv, overlaps = 0, NEW s \in Slot, slot[s].op # "idle", NEW h \in Handle, Move(s, h)
  PROVE  /\ slot'[s] = h
         /\ \A q \in Slot \ {s} : slot'[q] = Idle
         /\ \A t \in Task : Recording(t)' <=> h.pc = "history" /\ h.copy.id = t
         /\ \A t \in Task : Recording(t) <=> slot[s].pc = "history" /\ slot[s].copy.id = t
<1>1. /\ slot'[s] = h
      /\ \A q \in Slot \ {s} : slot'[q] = slot[q] /\ slot[q].op = "idle" /\ slot[q] = Idle
  BY DEF IInv, TypeOK, Alone, Shape, Move
<1>2. Idle.pc # "history"
  BY IdleIs
<1> QED BY <1>1, <1>2 DEF Recording

\* An idle slot knows nothing that could turn wrong.
LEMMA IdleKnows ==
  ASSUME NEW s \in Slot, slot'[s] = Idle
  PROVE  Knows(s)'
<1>1. /\ slot'[s].todo = {} /\ slot'[s].told = {} /\ slot'[s].pc = "idle"
  BY IdleIs
<1> QED BY <1>1 DEF Knows

LEMMA MoveStep ==
  ASSUME IInv, NEW s \in Slot, slot[s].op # "idle", NEW h \in Handle, Shape(h), Move(s, h),
         UNCHANGED <<outside, disorder, watched>>,
         tasks' \in [Task -> Row \union {Unused, Removed}],
         trail' \in [Task -> [to : Status, ok : BOOLEAN]],
         patched' \in SUBSET Task,
         overlaps = 0 => Knows(s)' /\ TrailRuns' /\ Dated'
  PROVE  IInv'
<1>0. TypeOK /\ overlaps' = overlaps
  BY DEF IInv, Move
<1>1. slot' \in [Slot -> Handle] /\ slot'[s] = h /\ \A q \in Slot \ {s} : slot'[q] = slot[q]
  BY <1>0 DEF TypeOK, Move
<1>2. TypeOK'
  BY <1>0, <1>1 DEF TypeOK, outside
<1>3. \A q \in Slot : Shape(slot'[q])
  BY <1>1 DEF IInv
<1>4. ASSUME overlaps = 0
      PROVE  Alone' /\ \A q \in Slot : Knows(q)'
  <2>1. \A q \in Slot \ {s} : slot'[q] = Idle
    BY <1>4, OthersIdle
  <2>2. Alone'
    BY <2>1, IdleIs DEF Alone
  <2> QED BY <1>4, <2>1, <2>2, IdleKnows
<1> QED BY <1>0, <1>2, <1>3, <1>4 DEF IInv

\* A handler that ends where it has nothing left to record.
LEMMA EndStep ==
  ASSUME IInv, NEW s \in Slot, slot[s].op # "idle", End(s),
         UNCHANGED <<rows, outside, history>>, overlaps = 0 => slot[s].pc # "history"
  PROVE  IInv'
<1>1. UNCHANGED <<tasks, trail, outside, disorder, patched, watched>> /\ TypeOK /\ Move(s, Idle)
  BY DEF IInv, rows, history, End
<1>2. ASSUME overlaps = 0
      PROVE  Knows(s)' /\ TrailRuns' /\ Dated'
  <2>1. /\ slot'[s] = Idle
        /\ \A t \in Task : ~Recording(t)' /\ ~Recording(t)
    BY <1>1, <1>2, IdleIs, OthersIdle
  <2>2. TrailRuns /\ Dated
    BY <1>2 DEF IInv
  <2> QED BY <1>1, <2>1, <2>2, IdleKnows DEF TrailRuns, Dated, Exists
<1> QED BY <1>1, <1>2, IdleIs, MoveStep DEF TypeOK

\* A handler starts; what it copied is as it is read.
LEMMA StartStep ==
  ASSUME IInv, NEW s \in Slot, NEW h \in Handle, Shape(h), Start(s, h), h.pc # "history",
         h.told = {}, TypeOK',
         \A t \in Task : Exists(t)' =>
           \/ Exists(t) /\ tasks'[t] = tasks[t] /\ trail'[t] = trail[t]
           \/ /\ trail'[t].to = tasks'[t].status /\ ~tasks'[t].done
              /\ t \in patched' \/ tasks'[t].status # "DONE",
         \A t \in Task : trail'[t] = trail[t] \/ trail'[t].ok,
         patched \subseteq patched',
         \A c \in h.todo : Exists(c.id)' /\ tasks'[c.id].status = c.status /\ (h.op = "due" => c.status \notin Closed),
         \A c, d \in h.todo : c.id = d.id => c = d,
         h.pc = "write" => Exists(h.copy.id)' /\ tasks'[h.copy.id].status = h.copy.status /\ h.todo = {}
  PROVE  IInv'
<1>0. TypeOK /\ slot[s].op = "idle"
  BY DEF IInv, Start
<1>1. slot'[s] = h /\ \A q \in Slot \ {s} : slot'[q] = slot[q]
  BY <1>0 DEF TypeOK, Start
<1>2. \A q \in Slot : Shape(slot'[q])
  BY <1>1 DEF IInv
<1>3. ASSUME overlaps' = 0
      PROVE  Alone' /\ (\A q \in Slot : Knows(q)') /\ TrailRuns' /\ Dated'
  <2>1. Quiet /\ overlaps = 0
    BY <1>0, <1>3 DEF Start, TypeOK
  <2>2. \A q \in Slot \ {s} : slot'[q] = Idle
    BY <1>1, <2>1 DEF Quiet, IInv, Shape
  <2>3. Alone'
    BY <2>2, IdleIs DEF Alone
  <2>4. Knows(s)'
    BY <1>1 DEF Knows, Agrees
  <2>5. \A t \in Task : ~Recording(t)
    BY <2>1, IdleIs DEF Recording, Quiet, IInv, Shape
  <2>6. TrailRuns /\ Dated
    BY <2>1 DEF IInv
  <2>7. TrailRuns'
    BY <2>5, <2>6 DEF TrailRuns
  <2>8. Dated'
    <3> SUFFICES ASSUME NEW t \in Task, t \notin patched', Exists(t)'
                 PROVE  tasks'[t].status = "DONE" <=> tasks'[t].done
      BY DEF Dated
    <3>1. CASE Exists(t) /\ tasks'[t] = tasks[t]
      BY <2>6, <3>1 DEF Dated
    <3>2. CASE ~tasks'[t].done /\ (t \in patched' \/ tasks'[t].status # "DONE")
      BY <3>2
    <3> QED BY <3>1, <3>2
  <2> QED BY <2>2, <2>3, <2>4, <2>7, <2>8, IdleKnows
<1> QED BY <1>2, <1>3 DEF IInv

-----------------------------------------------------------------------------
(* The starts.                                                               *)

LEMMA EventOps ==
  /\ {"idle", "create", "update", "remove", "due"} \intersect Event = {}
  /\ "opened" \in Event /\ "merged" \in Event /\ "push" \in Event
  /\ PrEvent \subseteq Event
  BY DEF Event, PrEvent, IssueEvent

LEMMA StartTypes ==
  ASSUME TypeOK, NEW s \in Slot, NEW h \in Handle, Start(s, h)
  PROVE  slot' \in [Slot -> Handle] /\ overlaps' \in 0 .. MaxOverlaps
  BY TaskAssumption DEF TypeOK, Start

LEMMA CreateStep ==
  ASSUME IInv, NEW s \in Slot, NEW u \in User, NEW t \in Task, NEW body \in Bodies, Create(s, u, t, body)
  PROVE  IInv'
<1> DEFINE row == [status |-> body.status, done |-> FALSE, creator |-> u,
                   assignee |-> body.assignee, link |-> "none"]
           h == [Idle EXCEPT !.op = "create", !.pc = "notify", !.by = u, !.copy = CopyOf(t, row)]
<1>0. TypeOK
  BY DEF IInv
<1>1. row \in Row /\ row.status = body.status /\ ~row.done /\ CopyOf(t, row) \in Copy
  BY TaskAssumption, CopyIs DEF Row
<1>2. /\ h \in Handle /\ h.op = "create" /\ h.pc = "notify" /\ h.todo = {} /\ h.told = {}
      /\ h.copy = CopyOf(t, row)
  BY <1>1, IdleIs DEF Handle
<1> HIDE DEF h
<1>3. Shape(h)
  BY <1>1, <1>2, EventOps DEF Shape
<1>4. /\ tasks' = [tasks EXCEPT ![t] = row] /\ tasks[t] = Unused
      /\ trail' = [trail EXCEPT ![t] = [to |-> body.status, ok |-> TRUE]]
      /\ patched' = IF body.status = "DONE" THEN patched \union {t} ELSE patched
      /\ Start(s, h) /\ UNCHANGED <<outside, disorder, watched>>
  BY DEF Create, h
<1> HIDE DEF row
<1>5. [to |-> body.status, ok |-> TRUE] \in [to : Status, ok : BOOLEAN]
  BY TaskAssumption
<1>6. TypeOK'
  BY <1>0, <1>1, <1>2, <1>4, <1>5, StartTypes DEF TypeOK, outside
<1>7. \A x \in Task : Exists(x)' =>
        \/ Exists(x) /\ tasks'[x] = tasks[x] /\ trail'[x] = trail[x]
        \/ /\ trail'[x].to = tasks'[x].status /\ ~tasks'[x].done
           /\ x \in patched' \/ tasks'[x].status # "DONE"
  <2> SUFFICES ASSUME NEW x \in Task, Exists(x)'
               PROVE  \/ Exists(x) /\ tasks'[x] = tasks[x] /\ trail'[x] = trail[x]
                      \/ /\ trail'[x].to = tasks'[x].status /\ ~tasks'[x].done
                         /\ x \in patched' \/ tasks'[x].status # "DONE"
    OBVIOUS
  <2>1. CASE x = t
    <3>1. tasks'[x] = row /\ trail'[x].to = body.status
      BY <1>0, <1>4, <2>1 DEF TypeOK
    <3> QED BY <1>1, <1>4, <2>1, <3>1
  <2>2. CASE x # t
    <3>1. tasks'[x] = tasks[x] /\ trail'[x] = trail[x]
      BY <1>0, <1>4, <2>2 DEF TypeOK
    <3> QED BY <3>1 DEF Exists
  <2> QED BY <2>1, <2>2
<1>8. \A x \in Task : trail'[x] = trail[x] \/ trail'[x].ok
  BY <1>0, <1>4 DEF TypeOK
<1>9. patched \subseteq patched'
  BY <1>4
<1> QED BY <1>2, <1>3, <1>4, <1>6, <1>7, <1>8, <1>9, StartStep

\* The starts that only read.
LEMMA ReadStart ==
  ASSUME IInv, NEW s \in Slot, NEW h \in Handle, Shape(h), Start(s, h), h.pc # "history", h.told = {},
         UNCHANGED <<rows, github, events, patched, watched>>,
         wire' \in Seq(Event), disorder' \in 0 .. MaxDisorder,
         \A c \in h.todo : Agrees(c) /\ (h.op = "due" => c.status \notin Closed),
         \A c, d \in h.todo : c.id = d.id => c = d,
         h.pc = "write" => Agrees(h.copy) /\ h.todo = {}
  PROVE  IInv'
<1>1. UNCHANGED <<tasks, trail, github, events, patched, watched>>
  BY DEF rows
<1>2. TypeOK'
  BY <1>1, StartTypes DEF IInv, TypeOK
<1>3. \A x \in Task : Exists(x)' => Exists(x) /\ tasks'[x] = tasks[x] /\ trail'[x] = trail[x]
  BY <1>1 DEF Exists
<1>4. \A c : Agrees(c) => Exists(c.id)' /\ tasks'[c.id].status = c.status
  BY <1>1 DEF Agrees, Exists
<1>5. patched \subseteq patched' /\ \A x \in Task : trail'[x] = trail[x] \/ trail'[x].ok
  BY <1>1
<1> QED BY <1>2, <1>3, <1>4, <1>5, StartStep

\* Copies of the tasks there are, one of each.
LEMMA CopiesAgree ==
  ASSUME TypeOK, NEW T \in SUBSET Task, \A t \in T : Exists(t)
  PROVE  LET todo == {CopyOf(t, tasks[t]) : t \in T}
         IN /\ todo \in SUBSET Copy
            /\ \A c \in todo : Agrees(c) /\ c.id \in T
            /\ \A c, d \in todo : c.id = d.id => c = d
<1>1. \A t \in T : /\ CopyOf(t, tasks[t]) \in Copy /\ CopyOf(t, tasks[t]).id = t
                   /\ CopyOf(t, tasks[t]).status = tasks[t].status
  BY RowIs, CopyIs
<1> QED BY <1>1 DEF Agrees

LEMMA UserReadStep ==
  ASSUME IInv, NEW s \in Slot, NEW u \in User, NEW t \in Task,
         (\E patch \in Patches : UpdateRead(s, u, t, patch)) \/ RemoveRead(s, u, t)
  PROVE  IInv'
<1>0. /\ TypeOK /\ Exists(t) /\ wire \in Seq(Event) /\ disorder \in 0 .. MaxDisorder
  BY DEF IInv, TypeOK, UpdateRead, RemoveRead
<1> DEFINE c == CopyOf(t, tasks[t])
<1>1. c \in Copy /\ Agrees(c)
  BY <1>0, RowIs, CopyIs DEF Agrees
<1> HIDE DEF c
<1>2. ASSUME NEW patch \in Patches, UpdateRead(s, u, t, patch) PROVE IInv'
  <2> DEFINE h == [Idle EXCEPT !.op = "update", !.pc = "write", !.by = u, !.copy = c, !.patch = patch]
  <2>1. /\ h \in Handle /\ h.op = "update" /\ h.pc = "write" /\ h.todo = {} /\ h.told = {}
        /\ h.copy = c /\ h.patch = patch
    BY <1>1, IdleIs DEF Handle
  <2>2. Start(s, h) /\ UNCHANGED <<rows, outside, history>>
    BY <1>2 DEF UpdateRead, c
  <2> HIDE DEF h
  <2>3. Shape(h)
    BY <1>1, <2>1, EventOps DEF Shape
  <2> QED BY <1>0, <1>1, <2>1, <2>2, <2>3, ReadStart DEF outside, history
<1>3. ASSUME RemoveRead(s, u, t) PROVE IInv'
  <2> DEFINE h == [Idle EXCEPT !.op = "remove", !.pc = "write", !.by = u, !.copy = c]
  <2>1. /\ h \in Handle /\ h.op = "remove" /\ h.pc = "write" /\ h.todo = {} /\ h.told = {}
        /\ h.copy = c
    BY <1>1, IdleIs DEF Handle
  <2>2. Start(s, h) /\ UNCHANGED <<rows, outside, history>>
    BY <1>3 DEF RemoveRead, c
  <2> HIDE DEF h
  <2>3. Shape(h)
    BY <1>1, <2>1, EventOps DEF Shape
  <2> QED BY <1>0, <1>1, <2>1, <2>2, <2>3, ReadStart DEF outside, history
<1> QED BY <1>2, <1>3

LEMMA DueStart ==
  ASSUME IInv, NEW s \in Slot, StartDueJob(s)
  PROVE  IInv'
<1> DEFINE T == {u \in Due : Exists(u) /\ tasks[u].status \notin Closed /\ tasks[u].assignee # NoUser}
           todo == {CopyOf(t, tasks[t]) : t \in T}
           h == [Idle EXCEPT !.op = "due", !.pc = "loop", !.todo = todo]
<1>0. TypeOK /\ wire \in Seq(Event) /\ disorder \in 0 .. MaxDisorder
  BY DEF IInv, TypeOK
<1>1. T \in SUBSET Task /\ \A t \in T : Exists(t)
  BY TaskAssumption
<1>2. /\ todo \in SUBSET Copy
      /\ \A c \in todo : Agrees(c) /\ c.id \in T
      /\ \A c, d \in todo : c.id = d.id => c = d
  BY <1>0, <1>1, CopiesAgree
<1>3. \A c \in todo : c.status \notin Closed /\ c.assignee # NoUser
  BY <1>2 DEF Agrees, CopyOf
<1>4. Start(s, h) /\ UNCHANGED <<rows, outside, history>>
  BY DEF StartDueJob
<1> HIDE DEF T, todo
<1>5. h \in Handle /\ h.op = "due" /\ h.pc = "loop" /\ h.todo = todo /\ h.told = {}
  BY <1>2, IdleIs DEF Handle
<1> HIDE DEF h
<1>6. Shape(h)
  BY <1>3, <1>5, EventOps DEF Shape
<1> QED BY <1>0, <1>2, <1>3, <1>4, <1>5, <1>6, ReadStart DEF outside, history

LEMMA ReceiveStep ==
  ASSUME IInv, NEW s \in Slot, NEW i \in 1 .. Len(wire), NEW again \in BOOLEAN, Receive(s, i, again)
  PROVE  IInv'
<1> DEFINE h == [Idle EXCEPT !.op = wire[i], !.pc = "loop", !.todo = Linked]
<1>0. TypeOK /\ wire \in Seq(Event) /\ wire[i] \in Event
  BY DEF IInv, TypeOK
<1>1. /\ Linked \in SUBSET Copy
      /\ \A c \in Linked : Agrees(c)
      /\ \A c, d \in Linked : c.id = d.id => c = d
  <2> DEFINE T == {u \in Task : Exists(u) /\ tasks[u].link # "none"}
  <2>1. T \in SUBSET Task /\ \A t \in T : Exists(t)
    OBVIOUS
  <2>2. Linked = {CopyOf(t, tasks[t]) : t \in T}
    BY DEF Linked
  <2> HIDE DEF T
  <2> QED BY <1>0, <2>1, <2>2, CopiesAgree
<1>2. RemoveAt(wire, i) \in Seq(Event)
  BY <1>0, SubSeqProperties, ConcatProperties DEF RemoveAt
<1>3. wire' \in Seq(Event) /\ Start(s, h) /\ UNCHANGED <<rows, github, events, patched, watched>>
  BY <1>0, <1>2 DEF Receive
<1>4. disorder' \in 0 .. MaxDisorder
  BY <1>0, TaskAssumption DEF Receive, TypeOK
<1>5. /\ h \in Handle /\ h.op = wire[i] /\ h.pc = "loop" /\ h.todo = Linked /\ h.told = {}
  BY <1>0, <1>1, IdleIs DEF Handle
<1> HIDE DEF h
<1>6. Shape(h) /\ h.op # "due"
  BY <1>0, <1>5, EventOps DEF Shape
<1> QED BY <1>1, <1>3, <1>4, <1>5, <1>6, ReadStart

-----------------------------------------------------------------------------
(* The steps of TasksService.                                                *)

\* Only a task's link changes.
LEMMA LinkKeeps ==
  ASSUME TypeOK, NEW t \in Task, Exists(t), NEW link \in {"branch", "number"},
         tasks' = [tasks EXCEPT ![t].link = link], trail' = trail
  PROVE  /\ tasks' \in [Task -> Row \union {Unused, Removed}]
         /\ \A x \in Task : Exists(x)' <=> Exists(x)
         /\ \A x \in Task : Exists(x) => tasks'[x].status = tasks[x].status /\ tasks'[x].done = tasks[x].done
<1>1. tasks[t] \in Row
  BY RowIs
<1>2. [tasks[t] EXCEPT !.link = link] \in Row
  BY <1>1 DEF Row
<1>3. \A x \in Task : tasks'[x] = IF x = t THEN [tasks[t] EXCEPT !.link = link] ELSE tasks[x]
  BY DEF TypeOK
<1>4. tasks' \in [Task -> Row \union {Unused, Removed}]
  BY <1>2 DEF TypeOK
<1>5. \A x \in Task : Exists(x)' <=> Exists(x)
  BY <1>2, <1>3, RowIs DEF Exists
<1>6. [tasks[t] EXCEPT !.link = link].status = tasks[t].status /\ [tasks[t] EXCEPT !.link = link].done = tasks[t].done
  BY <1>1 DEF Row
<1> QED BY <1>3, <1>4, <1>5, <1>6

LEMMA CreateNotifyStep ==
  ASSUME IInv, NEW s \in Slot, CreateNotify(s)
  PROVE  IInv'
<1> DEFINE h == slot[s]
           a == h.copy.assignee
           told == IF a \in {NoUser, h.by} THEN {} ELSE {[to |-> a, kind |-> "assigned"]}
           n == [h EXCEPT !.pc = "sent", !.told = told]
<1>0. TypeOK /\ h \in Handle /\ Shape(h) /\ h.op = "create" /\ h.pc = "notify" /\ h.copy \in Copy
  BY DEF IInv, TypeOK, CreateNotify, Shape
<1>1. UNCHANGED <<rows, outside, history>> /\ (End(s) \/ Move(s, n))
  BY DEF CreateNotify, Moved
<1>2. told \in SUBSET Notice /\ \A x \in told : x.kind = "assigned"
  BY <1>0 DEF Copy, Notice, NoticeKind
<1> HIDE DEF told
<1>3. /\ n \in Handle /\ n.pc = "sent" /\ n.op = "create" /\ n.copy = h.copy /\ n.todo = h.todo /\ n.told = told
  BY <1>0, <1>2 DEF Handle
<1> HIDE DEF n
<1>4. Shape(n)
  BY <1>0, <1>3, EventOps DEF Shape
<1>5. CASE End(s)
  BY <1>0, <1>1, <1>5, EndStep
<1>6. CASE Move(s, n)
  <2>1. UNCHANGED <<tasks, trail, outside, disorder, patched, watched>>
    BY <1>1 DEF rows, history
  <2>2. ASSUME overlaps = 0
        PROVE  Knows(s)' /\ TrailRuns' /\ Dated'
    <3>1. /\ slot'[s] = n /\ \A t \in Task : ~Recording(t)' /\ ~Recording(t)
      BY <1>0, <1>3, <1>6, <2>2, OthersIdle
    <3>2. Knows(s) /\ TrailRuns /\ Dated
      BY <2>2 DEF IInv
    <3>3. Knows(s)'
      BY <1>0, <1>2, <1>3, <2>1, <3>1, <3>2 DEF Knows, Agrees, Exists
    <3> QED BY <2>1, <3>1, <3>2, <3>3 DEF TrailRuns, Dated, Exists
  <2> QED BY <1>0, <1>3, <1>4, <1>6, <2>1, <2>2, MoveStep DEF TypeOK
<1> QED BY <1>1, <1>5, <1>6

\* An update goes on to its history knowing that the task has what it wrote.
LEMMA UpdateWriteStep ==
  ASSUME IInv, NEW s \in Slot, UpdateWrite(s)
  PROVE  IInv'
<1> DEFINE h == slot[s]
           t == h.copy.id
           n == [h EXCEPT !.pc = "history", !.told = {}]
           status == IF h.patch.status = Same THEN tasks[t].status ELSE h.patch.status
           assignee == IF h.patch.assignee = Same THEN tasks[t].assignee ELSE h.patch.assignee
           row == [[tasks[t] EXCEPT !.status = status] EXCEPT !.assignee = assignee]
<1>0. /\ TypeOK /\ h \in Handle /\ Shape(h) /\ h.op = "update" /\ h.pc = "write" /\ h.copy \in Copy
      /\ t \in Task /\ h.patch \in Patch /\ h.patch \in Patches
  BY TaskAssumption DEF IInv, TypeOK, UpdateWrite, Shape, Copy
<1>1. UNCHANGED <<trail, outside, disorder, watched>>
  BY DEF UpdateWrite
<1>2. CASE ~Exists(t)
  <2>1. End(s) /\ UNCHANGED <<tasks, patched>>
    BY <1>2 DEF UpdateWrite
  <2> QED BY <1>0, <1>1, <2>1, EndStep DEF rows, history
<1>3. CASE Exists(t)
  <2>1. /\ tasks' = [tasks EXCEPT ![t] = row] /\ Move(s, n)
        /\ patched' = IF h.patch.status = Same THEN patched ELSE patched \union {t}
    BY <1>3 DEF UpdateWrite, Moved
  <2>2. tasks[t] \in Row
    BY <1>0, <1>3, RowIs
  <2>3. /\ row \in Row /\ row.status = status /\ row.done = tasks[t].done
    BY <1>0, <2>2 DEF Row, Patch
  <2>4. /\ n \in Handle /\ n.pc = "history" /\ n.op = "update" /\ n.copy = h.copy /\ n.todo = h.todo
        /\ n.told = {} /\ n.patch = h.patch
    BY <1>0 DEF Handle
  <2> HIDE DEF n, row
  <2>5. Shape(n)
    BY <1>0, <2>4, EventOps DEF Shape
  <2>6. tasks' \in [Task -> Row \union {Unused, Removed}] /\ patched' \in SUBSET Task
    BY <1>0, <2>1, <2>3 DEF TypeOK
  <2>7. \A x \in Task : tasks'[x] = IF x = t THEN row ELSE tasks[x]
    BY <1>0, <2>1 DEF TypeOK
  <2>8. ASSUME overlaps = 0
        PROVE  Knows(s)' /\ TrailRuns' /\ Dated'
    <3>1. /\ slot'[s] = n
          /\ \A x \in Task : (Recording(x)' <=> x = t) /\ ~Recording(x)
      BY <1>0, <2>1, <2>4, <2>8, OthersIdle
    <3>2. Knows(s) /\ TrailRuns /\ Dated
      BY <2>8 DEF IInv
    <3>3. Agrees(h.copy) /\ h.todo = {} /\ trail[t].to = h.copy.status
      BY <1>0, <1>3, <3>1, <3>2, EventOps DEF Knows, Shape, Agrees, TrailRuns
    <3>4. tasks'[t] \notin {Unused, Removed} /\ tasks'[t].status = Given(n)
      <4>1. tasks'[t] \notin {Unused, Removed}
        BY <1>0, <2>3, <2>7, RowIs
      <4> QED BY <1>0, <2>3, <2>4, <2>7, <3>3, <4>1 DEF Given, Agrees
    <3>5. Knows(s)'
      BY <1>0, <1>1, <2>4, <3>1, <3>3, <3>4, EventOps DEF Knows, Exists, Given
    <3>6. TrailRuns'
      BY <1>1, <2>7, <3>1, <3>2 DEF TrailRuns, Exists
    <3>7. Dated'
      <4> SUFFICES ASSUME NEW x \in Task, x \notin patched', Exists(x)'
                   PROVE  tasks'[x].status = "DONE" <=> tasks'[x].done
        BY DEF Dated
      <4>1. tasks'[x].status = tasks[x].status /\ tasks'[x].done = tasks[x].done /\ x \notin patched /\ Exists(x)
        BY <1>3, <2>1, <2>3, <2>7 DEF Exists
      <4> QED BY <3>2, <4>1 DEF Dated
    <3> QED BY <3>5, <3>6, <3>7
  <2> QED BY <1>0, <1>1, <2>1, <2>4, <2>5, <2>6, <2>8, MoveStep DEF TypeOK
<1> QED BY <1>2, <1>3

\* The history entry of an update starts where the last one ended.
LEMMA UpdateHistoryStep ==
  ASSUME IInv, NEW s \in Slot, UpdateHistory(s)
  PROVE  IInv'
<1> DEFINE h == slot[s]
           t == h.copy.id
           n == [h EXCEPT !.pc = "sent", !.told = UpdateNotices(h)]
<1>0. /\ TypeOK /\ h \in Handle /\ Shape(h) /\ h.op = "update" /\ h.pc = "history" /\ h.copy \in Copy
      /\ t \in Task /\ h.copy.status \in Status /\ h.patch \in Patch /\ h.patch \in Patches
  BY TaskAssumption DEF IInv, TypeOK, UpdateHistory, Shape, Copy
<1>1. UNCHANGED <<tasks, outside, disorder, patched, watched>>
  BY DEF UpdateHistory, history
<1>2. trail' = IF Exists(t) /\ StatusChange(h) THEN Entry(t, h.copy.status, h.patch.status) ELSE trail
  BY DEF UpdateHistory
<1>3. /\ trail' \in [Task -> [to : Status, ok : BOOLEAN]]
      /\ \A x \in Task : x # t \/ ~(Exists(t) /\ StatusChange(h)) => trail'[x] = trail[x]
      /\ Exists(t) /\ StatusChange(h) => trail'[t].to = h.patch.status
                                         /\ (trail[t].ok /\ trail[t].to = h.copy.status => trail'[t].ok)
  <2>1. CASE ~(Exists(t) /\ StatusChange(h))
    BY <1>0, <1>2, <2>1 DEF TypeOK
  <2>2. CASE Exists(t) /\ StatusChange(h)
    <3>1. h.patch.status \in Status
      BY <1>0, <2>2 DEF Patch, StatusChange
    <3>2. trail' = [trail EXCEPT ![t] = [to |-> h.patch.status, ok |-> trail[t].ok /\ trail[t].to = h.copy.status]]
      BY <1>2, <2>2 DEF Entry
    <3>3. trail'[t] = [to |-> h.patch.status, ok |-> trail[t].ok /\ trail[t].to = h.copy.status]
      BY <1>0, <3>2 DEF TypeOK
    <3>4. \A x \in Task \ {t} : trail'[x] = trail[x]
      BY <1>0, <3>2 DEF TypeOK
    <3>5. trail' \in [Task -> [to : Status, ok : BOOLEAN]]
      BY <1>0, <3>1, <3>2 DEF TypeOK
    <3>6. trail'[t].to = h.patch.status
      BY <3>3
    <3>7. ASSUME trail[t].ok, trail[t].to = h.copy.status
          PROVE  trail'[t].ok
      <4>1. (trail[t].ok /\ trail[t].to = h.copy.status) = TRUE
        BY <3>7
      <4>2. trail'[t] = [to |-> h.patch.status, ok |-> TRUE]
        BY <3>3, <4>1
      <4> QED BY <4>2
    <3> HIDE DEF h, t
    <3> QED BY <2>2, <3>4, <3>5, <3>6, <3>7
  <2> QED BY <2>1, <2>2
<1>4. UpdateNotices(h) \in SUBSET Notice
  BY <1>0, UpdateNoticesAre
<1>5. /\ n \in Handle /\ n.pc = "sent" /\ n.op = "update" /\ n.copy = h.copy /\ n.todo = h.todo
      /\ n.told = UpdateNotices(h) /\ n.patch = h.patch /\ n.by = h.by
  BY <1>0, <1>4 DEF Handle
<1>6. (End(s) /\ ~Exists(t) /\ (StatusChange(h) \/ AssigneeChange(h))) \/ Move(s, n)
  BY DEF UpdateHistory, Moved
<1> HIDE DEF n
<1>7. UpdateNotices(n) = UpdateNotices(h)
  BY <1>5 DEF UpdateNotices, StatusChange, AssigneeChange
<1>8. Shape(n)
  BY <1>0, <1>5, <1>7, EventOps DEF Shape
<1>9. ASSUME overlaps = 0
      PROVE  /\ Agrees(h.copy) \/ tasks[t].status = Given(h)
             /\ Exists(t) /\ trail[t].to = h.copy.status /\ tasks[t].status = Given(h) /\ h.todo = {}
             /\ TrailRuns /\ Dated
  BY <1>0, <1>9, EventOps DEF IInv, Knows, Shape
<1>10. CASE Move(s, n)
  <2>1. ASSUME overlaps = 0
        PROVE  Knows(s)' /\ TrailRuns' /\ Dated'
    <3>1. /\ slot'[s] = n
          /\ \A x \in Task : ~Recording(x)' /\ (Recording(x) <=> x = t)
      BY <1>0, <1>5, <1>10, <2>1, OthersIdle
    <3>2. \A m \in n.told : m.kind # "due" /\ (m.kind = "completed" => tasks[t].status = "DONE")
      <4>1. \A m \in n.told : m.kind # "due" /\ (m.kind = "completed" => StatusChange(h) /\ h.patch.status = "DONE")
        BY <1>0, <1>5, UpdateNoticesAre
      <4>2. StatusChange(h) => tasks[t].status = h.patch.status
        BY <1>9, <2>1 DEF StatusChange, Given
      <4> QED BY <4>1, <4>2
    <3>3. Knows(s)'
      BY <1>1, <1>5, <1>9, <2>1, <3>1, <3>2 DEF Knows
    <3>4. TrailRuns'
      <4> SUFFICES ASSUME NEW x \in Task
                   PROVE  trail'[x].ok /\ (Exists(x)' => trail'[x].to = tasks'[x].status)
        BY DEF TrailRuns
      <4>1. CASE x # t
        BY <1>1, <1>3, <1>9, <2>1, <3>1, <4>1 DEF TrailRuns, Exists
      <4>2. CASE x = t /\ StatusChange(h)
        <5>1. Given(h) = h.patch.status
          BY <4>2 DEF StatusChange, Given
        <5> QED BY <1>1, <1>3, <1>9, <2>1, <4>2, <5>1 DEF TrailRuns
      <4>3. CASE x = t /\ ~StatusChange(h)
        <5>1. Given(h) = h.copy.status
          BY <4>3 DEF StatusChange, Given
        <5> QED BY <1>1, <1>3, <1>9, <2>1, <4>3, <5>1 DEF TrailRuns
      <4> QED BY <4>1, <4>2, <4>3
    <3> QED BY <1>1, <1>9, <2>1, <3>3, <3>4 DEF Dated, Exists
  <2> QED BY <1>0, <1>1, <1>3, <1>5, <1>8, <1>10, <2>1, MoveStep DEF TypeOK
<1>11. CASE End(s) /\ (~Exists(t) /\ (StatusChange(h) \/ AssigneeChange(h)))
  <2>1. overlaps # 0
    BY <1>9, <1>11
  <2> QED BY <1>0, <1>1, <1>3, <1>11, <2>1, IdleIs, MoveStep DEF TypeOK, End
<1> QED BY <1>6, <1>10, <1>11

LEMMA RemoveWriteStep ==
  ASSUME IInv, NEW s \in Slot, RemoveWrite(s)
  PROVE  IInv'
<1> DEFINE t == slot[s].copy.id
<1>0. TypeOK /\ slot[s].op # "idle" /\ slot[s].pc # "history" /\ t \in Task /\ Move(s, Idle)
  BY DEF IInv, TypeOK, RemoveWrite, Shape, Copy, End
<1>1. /\ tasks' = IF Exists(t) THEN [tasks EXCEPT ![t] = Removed] ELSE tasks
      /\ UNCHANGED <<trail, outside, disorder, patched, watched>>
  BY DEF RemoveWrite, history
<1> HIDE DEF t
<1>2. /\ tasks' \in [Task -> Row \union {Unused, Removed}]
      /\ \A x \in Task : tasks'[x] = tasks[x] \/ tasks'[x] = Removed
  BY <1>0, <1>1 DEF TypeOK
<1>3. ASSUME overlaps = 0
      PROVE  Knows(s)' /\ TrailRuns' /\ Dated'
  <2>1. slot'[s] = Idle /\ \A x \in Task : ~Recording(x)
    BY <1>0, <1>3, IdleIs, OthersIdle
  <2>2. TrailRuns /\ Dated
    BY <1>3 DEF IInv
  <2>3. \A x \in Task : Exists(x)' => Exists(x) /\ tasks'[x] = tasks[x]
    BY <1>2 DEF Exists
  <2> QED BY <1>1, <2>1, <2>2, <2>3, IdleKnows DEF TrailRuns, Dated
<1> QED BY <1>0, <1>1, <1>2, <1>3, IdleIs, MoveStep DEF TypeOK

LEMMA EndingStep ==
  ASSUME IInv, NEW s \in Slot, Sent(s) \/ EndLoop(s)
  PROVE  IInv'
<1>1. /\ End(s) /\ UNCHANGED <<rows, outside, history>> /\ slot[s].pc \in {"sent", "loop"}
  BY DEF Sent, EndLoop
<1>2. slot[s].op # "idle"
  BY <1>1, IdleIs DEF IInv, Shape
<1> QED BY <1>1, <1>2, EndStep

-----------------------------------------------------------------------------
(* The steps of the webhook and of the due-date job.                         *)

LEMMA DueNotifyStep ==
  ASSUME IInv, NEW s \in Slot, NEW c \in slot[s].todo, DueNotify(s, c)
  PROVE  IInv'
<1> DEFINE h == slot[s]
           told == {[to |-> c.assignee, kind |-> "due"]}
           n == [h EXCEPT !.copy = c, !.todo = h.todo \ {c}, !.told = told]
<1>0. TypeOK /\ h \in Handle /\ Shape(h) /\ h.op = "due" /\ h.pc = "loop"
      /\ c \in Copy /\ c.assignee \in User
  BY DEF IInv, TypeOK, DueNotify, Shape, Handle, Copy
<1>1. Move(s, n) /\ UNCHANGED <<tasks, trail, outside, disorder, patched, watched>>
  BY DEF DueNotify, rows, history
<1>2. told \in SUBSET Notice /\ \A m \in told : m.kind = "due"
  BY <1>0 DEF Notice, NoticeKind
<1> HIDE DEF told
<1>3. /\ n \in Handle /\ n.pc = "loop" /\ n.op = "due" /\ n.copy = c /\ n.todo = h.todo \ {c}
      /\ n.told = told
  BY <1>0, <1>2 DEF Handle
<1> HIDE DEF n
<1>4. Shape(n)
  BY <1>0, <1>3, EventOps DEF Shape
<1>5. ASSUME overlaps = 0
      PROVE  Knows(s)' /\ TrailRuns' /\ Dated'
  <2>1. slot'[s] = n /\ \A x \in Task : ~Recording(x)' /\ ~Recording(x)
    BY <1>0, <1>1, <1>3, <1>5, OthersIdle
  <2>2. Knows(s) /\ TrailRuns /\ Dated
    BY <1>5 DEF IInv
  <2>3. tasks[c.id].status \notin Closed
    BY <1>0, <2>2 DEF Knows, Agrees
  <2>4. Knows(s)'
    BY <1>0, <1>1, <1>2, <1>3, <2>1, <2>2, <2>3 DEF Knows, Agrees, Exists
  <2> QED BY <1>1, <2>1, <2>2, <2>4 DEF TrailRuns, Dated, Exists
<1> QED BY <1>0, <1>1, <1>3, <1>4, <1>5, MoveStep DEF TypeOK

LEMMA NoteNumberStep ==
  ASSUME IInv, NEW s \in Slot, NEW c \in slot[s].todo, NoteNumber(s, c)
  PROVE  IInv'
<1> DEFINE h == slot[s]
           n == [h EXCEPT !.pc = "write", !.copy = c, !.todo = h.todo \ {c}, !.told = {}]
<1>0. /\ TypeOK /\ h \in Handle /\ Shape(h) /\ h.op \in Event /\ h.pc = "loop" /\ c \in Copy /\ c.id \in Task
  BY DEF IInv, TypeOK, NoteNumber, Handle, Copy
<1>1. UNCHANGED <<trail, outside, disorder, patched, watched>> /\ h.op # "idle"
  BY <1>0, EventOps DEF NoteNumber, history
<1>2. CASE ~Exists(c.id)
  BY <1>0, <1>1, <1>2, EndStep DEF NoteNumber, rows, history
<1>3. CASE Exists(c.id)
  <2>1. Move(s, n) /\ tasks' = [tasks EXCEPT ![c.id].link = "number"]
    BY <1>3 DEF NoteNumber
  <2>2. /\ n \in Handle /\ n.pc = "write" /\ n.op = h.op /\ n.copy = c /\ n.todo = h.todo \ {c} /\ n.told = {}
    BY <1>0 DEF Handle
  <2> HIDE DEF n
  <2>3. Shape(n)
    BY <1>0, <2>2, EventOps DEF Shape
  <2>4. /\ tasks' \in [Task -> Row \union {Unused, Removed}]
        /\ \A x \in Task : Exists(x)' <=> Exists(x)
        /\ \A x \in Task : Exists(x) => tasks'[x].status = tasks[x].status /\ tasks'[x].done = tasks[x].done
    BY <1>0, <1>1, <1>3, <2>1, LinkKeeps
  <2>5. ASSUME overlaps = 0
        PROVE  Knows(s)' /\ TrailRuns' /\ Dated'
    <3>1. slot'[s] = n /\ \A x \in Task : ~Recording(x)' /\ ~Recording(x)
      BY <1>0, <1>1, <2>1, <2>2, <2>5, OthersIdle
    <3>2. Knows(s) /\ TrailRuns /\ Dated
      BY <2>5 DEF IInv
    <3>3. \A d \in h.todo : /\ d.id \in Task /\ Exists(d.id) /\ tasks'[d.id].status = d.status
                            /\ d.id = c.id => d = c
      BY <1>0, <2>4, <3>2 DEF Knows, Agrees, Handle, Copy
    <3>4. \A d \in h.todo : tasks'[d.id] \notin {Unused, Removed}
      BY <2>4, <3>3 DEF Exists
    <3>5. Knows(s)'
      BY <1>0, <1>1, <2>2, <3>1, <3>2, <3>3, <3>4, EventOps DEF Knows, Agrees, Exists
    <3> QED BY <1>1, <2>4, <3>1, <3>2, <3>5 DEF TrailRuns, Dated
  <2> QED BY <1>0, <1>1, <2>1, <2>2, <2>3, <2>4, <2>5, MoveStep DEF TypeOK
<1> QED BY <1>2, <1>3

LEMMA EventWriteStep ==
  ASSUME IInv, NEW s \in Slot, NEW c \in slot[s].todo \union {slot[s].copy}, EventWrite(s, c)
  PROVE  IInv'
<1> DEFINE h == slot[s]
           next == [h EXCEPT !.copy = c, !.todo = h.todo \ {c}, !.told = {}]
<1>0. /\ TypeOK /\ h \in Handle /\ Shape(h) /\ h.op \in Event /\ h.op \notin {"idle", "due", "update"}
      /\ c \in Copy /\ c.id \in Task /\ h.pc \in {"loop", "write"} /\ (h.pc = "loop" => c \in h.todo)
      /\ (h.pc = "write" => c = h.copy)
  BY EventOps DEF IInv, TypeOK, EventWrite, Handle, Copy, Shape
<1>1. UNCHANGED <<trail, outside, disorder, patched, watched>>
  BY DEF EventWrite, history
<1>2. ASSUME overlaps = 0
      PROVE  /\ Agrees(c) /\ \A d \in h.todo \ {c} : Agrees(d) /\ d.id # c.id
             /\ \A d, f \in h.todo : d.id = f.id => d = f
             /\ TrailRuns /\ Dated
  BY <1>0, <1>2 DEF IInv, Knows
<1>3. CASE Effect(h.op, c) = {}
  <2> DEFINE told == EventNotices(h.op, c)
             n == [next EXCEPT !.pc = "loop", !.told = told]
  <2>1. h.op # "merged" /\ tasks' = tasks /\ Move(s, n)
    BY <1>0, <1>3, MergeMoves DEF EventWrite
  <2>2. told \in SUBSET Notice /\ \A m \in told : m.kind \notin {"due", "completed"}
    BY <1>0, <2>1, EventNoticesAre
  <2> HIDE DEF told
  <2>3. /\ n \in Handle /\ n.pc = "loop" /\ n.op = h.op /\ n.copy = c /\ n.todo = h.todo \ {c} /\ n.told = told
    BY <1>0, <2>2 DEF Handle
  <2> HIDE DEF n
  <2>4. Shape(n)
    BY <1>0, <2>3, EventOps DEF Shape
  <2>5. ASSUME overlaps = 0
        PROVE  Knows(s)' /\ TrailRuns' /\ Dated'
    <3>1. slot'[s] = n /\ \A x \in Task : ~Recording(x)' /\ ~Recording(x)
      BY <1>0, <2>1, <2>3, <2>5, OthersIdle
    <3>2. Knows(s)'
      BY <1>0, <1>1, <1>2, <2>1, <2>2, <2>3, <2>5, <3>1 DEF Knows, Agrees, Exists
    <3> QED BY <1>1, <1>2, <2>1, <2>5, <3>1, <3>2 DEF TrailRuns, Dated, Exists
  <2> QED BY <1>0, <1>1, <2>1, <2>3, <2>4, <2>5, MoveStep DEF TypeOK
<1>4. ASSUME NEW e \in Effect(h.op, c), Exists(c.id),
             tasks' = [tasks EXCEPT ![c.id].status = e.status,
                                    ![c.id].done = IF e.done = Same THEN @ ELSE e.done],
             Move(s, [next EXCEPT !.pc = "history"])
      PROVE  IInv'
  <2> DEFINE n == [next EXCEPT !.pc = "history"]
             done == IF e.done = Same THEN tasks[c.id].done ELSE e.done
             row == [[tasks[c.id] EXCEPT !.status = e.status] EXCEPT !.done = done]
  <2>1. /\ n \in Handle /\ n.pc = "history" /\ n.op = h.op /\ n.copy = c /\ n.todo = h.todo \ {c} /\ n.told = {}
    BY <1>0 DEF Handle
  <2>2. Move(s, n)
    BY <1>4
  <2> HIDE DEF n
  <2>3. Shape(n)
    BY <1>0, <2>1, EventOps DEF Shape
  <2>4. /\ e.status \in Status /\ e.done \in {TRUE, FALSE, Same}
        /\ e.done = TRUE => e.status = "DONE"
        /\ e.done = FALSE => e.status # "DONE"
        /\ e.done = Same => e.status # "DONE" /\ c.status # "DONE"
        /\ \A f \in Effect(h.op, c) : f = e
    BY <1>0, <1>4, EffectIs
  <2>5. tasks[c.id] \in Row /\ tasks[c.id].done \in BOOLEAN
    BY <1>0, <1>4, RowIs DEF Row
  <2>6. done \in BOOLEAN
    BY <2>4, <2>5
  <2>7. tasks' = [tasks EXCEPT ![c.id] = row]
    BY <1>0, <1>4 DEF TypeOK
  <2> HIDE DEF done
  <2>8. row \in Row /\ row.status = e.status /\ row.done = done
    BY <2>4, <2>5, <2>6 DEF Row
  <2> HIDE DEF row
  <2>9. /\ tasks' \in [Task -> Row \union {Unused, Removed}]
        /\ \A x \in Task : tasks'[x] = IF x = c.id THEN row ELSE tasks[x]
    BY <1>0, <2>7, <2>8 DEF TypeOK
  <2>10. \A x \in Task : tasks'[x] \notin {Unused, Removed} <=> Exists(x)
    BY <1>4, <2>8, <2>9, RowIs DEF Exists
  <2>11. ASSUME overlaps = 0
         PROVE  Knows(s)' /\ TrailRuns' /\ Dated'
    <3>1. slot'[s] = n /\ \A x \in Task : (Recording(x)' <=> x = c.id) /\ ~Recording(x)
      BY <1>0, <2>1, <2>2, <2>11, OthersIdle
    <3>2. \A d \in h.todo \ {c} : d.id \in Task /\ Exists(d.id) /\ tasks'[d.id].status = d.status /\ d.id # c.id
      BY <1>0, <1>2, <2>9, <2>11 DEF Agrees, Handle, Copy
    <3>3. trail[c.id].to = c.status
      BY <1>0, <1>2, <1>4, <2>11, <3>1 DEF TrailRuns, Agrees
    <3>4. Knows(s)'
      BY <1>0, <1>1, <1>2, <1>4, <2>1, <2>4, <2>8, <2>9, <2>10, <2>11, <3>1, <3>2, <3>3 DEF Knows, Agrees, Exists
    <3>5. TrailRuns'
      BY <1>1, <1>2, <2>9, <2>11, <3>1 DEF TrailRuns, Exists
    <3>6. Dated'
      <4> SUFFICES ASSUME NEW x \in Task, x \notin patched, Exists(x)'
                   PROVE  tasks'[x].status = "DONE" <=> tasks'[x].done
        BY <1>1 DEF Dated
      <4>1. CASE x # c.id
        <5>1. tasks'[x] = tasks[x] /\ Exists(x)
          BY <2>9, <2>10, <4>1 DEF Exists
        <5> QED BY <1>2, <2>11, <5>1 DEF Dated
      <4>2. CASE x = c.id
        <5>1. tasks[x].status # "DONE" <=> ~tasks[x].done
          BY <1>2, <1>4, <2>11, <4>2 DEF Dated
        <5>2. e.status = "DONE" <=> done
          <6>1. CASE e.done = Same
            BY <1>2, <2>4, <2>11, <4>2, <5>1, <6>1 DEF done, Agrees
          <6>2. CASE e.done = TRUE /\ e.done # Same
            BY <2>4, <6>2 DEF done
          <6>3. CASE e.done = FALSE /\ e.done # Same
            BY <2>4, <6>3 DEF done
          <6> QED BY <2>4, <6>1, <6>2, <6>3
        <5>3. tasks'[x].status = e.status /\ tasks'[x].done = done
          BY <2>8, <2>9, <4>2
        <5> QED BY <5>2, <5>3
      <4> QED BY <4>1, <4>2
    <3> QED BY <3>4, <3>5, <3>6
  <2> QED BY <1>0, <1>1, <2>1, <2>2, <2>3, <2>9, <2>11, MoveStep DEF TypeOK
<1>5. CASE End(s) /\ UNCHANGED tasks
  BY <1>0, <1>1, <1>5, EndStep DEF rows, history
<1> QED BY <1>3, <1>4, <1>5 DEF EventWrite

\* The history entry of an event's change starts where the last one ended.
LEMMA EventHistoryStep ==
  ASSUME IInv, NEW s \in Slot, EventHistory(s)
  PROVE  IInv'
<1> DEFINE h == slot[s]
           t == h.copy.id
           told == EventNotices(h.op, h.copy)
           n == [h EXCEPT !.pc = "loop", !.told = told]
<1>0. /\ TypeOK /\ h \in Handle /\ Shape(h) /\ h.op \in Event /\ h.op \notin {"idle", "due", "update"}
      /\ h.pc = "history" /\ h.copy \in Copy /\ t \in Task
  BY EventOps DEF IInv, TypeOK, EventHistory, Handle, Copy, Shape
<1>1. UNCHANGED <<tasks, outside, disorder, patched, watched>>
  BY DEF EventHistory, history
<1>2. ASSUME overlaps = 0
      PROVE  /\ Exists(t) /\ trail[t].to = h.copy.status
             /\ \A e \in Effect(h.op, h.copy) : tasks[t].status = e.status
             /\ TrailRuns /\ Dated
  BY <1>0, <1>2 DEF IInv, Knows
<1>3. CASE ~Exists(t)
  <2>1. Move(s, Idle) /\ trail' = trail /\ overlaps # 0
    BY <1>2, <1>3 DEF EventHistory, End
  <2> QED BY <1>0, <1>1, <2>1, IdleIs, MoveStep DEF TypeOK
<1>4. ASSUME Exists(t), NEW e \in Effect(h.op, h.copy), trail' = Entry(t, h.copy.status, e.status),
             Moved(s, "loop", told)
      PROVE  IInv'
  <2>1. e.status \in Status /\ (h.op = "merged" => e.status = "DONE")
    BY <1>0, <1>4, EffectIs
  <2>2. told \in SUBSET Notice /\ \A m \in told : m.kind # "due" /\ (m.kind = "completed" => h.op = "merged")
    BY <1>0, EventNoticesAre
  <2>3. Move(s, n)
    BY <1>4 DEF Moved
  <2> HIDE DEF told
  <2>4. /\ n \in Handle /\ n.pc = "loop" /\ n.op = h.op /\ n.copy = h.copy /\ n.todo = h.todo /\ n.told = told
    BY <1>0, <2>2 DEF Handle
  <2> HIDE DEF n
  <2>5. Shape(n)
    BY <1>0, <2>4, EventOps DEF Shape
  <2> DEFINE entry == [to |-> e.status, ok |-> trail[t].ok /\ trail[t].to = h.copy.status]
  <2>6. trail' = [trail EXCEPT ![t] = entry]
    BY <1>4 DEF Entry
  <2>7. entry.to = e.status /\ entry \in [to : Status, ok : BOOLEAN]
    BY <2>1
  <2>8. trail[t].ok /\ trail[t].to = h.copy.status => entry.ok
    <3> SUFFICES ASSUME trail[t].ok, trail[t].to = h.copy.status
                 PROVE  entry.ok
      OBVIOUS
    <3>1. (trail[t].ok /\ trail[t].to = h.copy.status) = TRUE
      OBVIOUS
    <3>2. entry = [to |-> e.status, ok |-> TRUE]
      BY <3>1
    <3> QED BY <3>2
  <2> HIDE DEF entry
  <2>9. /\ trail' \in [Task -> [to : Status, ok : BOOLEAN]]
        /\ \A x \in Task : trail'[x] = IF x = t THEN entry ELSE trail[x]
    BY <1>0, <2>6, <2>7 DEF TypeOK
  <2>10. ASSUME overlaps = 0
         PROVE  Knows(s)' /\ TrailRuns' /\ Dated'
    <3>1. slot'[s] = n /\ \A x \in Task : ~Recording(x)' /\ (Recording(x) <=> x = t)
      BY <1>0, <2>3, <2>4, <2>10, OthersIdle
    <3>2. Knows(s) /\ TrailRuns /\ Dated /\ tasks[t].status = e.status /\ trail[t].to = h.copy.status
      BY <1>2, <1>4, <2>10 DEF IInv
    <3>3. \A m \in n.told : m.kind # "due" /\ (m.kind = "completed" => tasks[t].status = "DONE")
      BY <2>1, <2>2, <2>4, <3>2
    <3>4. Knows(s)'
      BY <1>0, <1>1, <2>4, <3>1, <3>2, <3>3 DEF Knows, Agrees, Exists
    <3>5. TrailRuns'
      BY <1>1, <2>7, <2>8, <2>9, <3>1, <3>2 DEF TrailRuns, Exists
    <3> QED BY <1>1, <3>2, <3>4, <3>5 DEF Dated, Exists
  <2> QED BY <1>0, <1>1, <2>3, <2>4, <2>5, <2>9, <2>10, MoveStep DEF TypeOK
<1>5. Exists(t) => \E e \in Effect(h.op, h.copy) : trail' = Entry(t, h.copy.status, e.status) /\ Moved(s, "loop", told)
  BY DEF EventHistory
<1> QED BY <1>3, <1>4, <1>5

-----------------------------------------------------------------------------
(* The steps in which no handler moves.                                      *)

\* The handlers stay where they are and what they know stays so.
LEMMA StillStep ==
  ASSUME IInv, TypeOK', UNCHANGED <<trail, slot, overlaps, patched>>,
         \A x \in Task :
           \/ tasks'[x] = tasks[x]
           \/ /\ Exists(x) /\ tasks'[x] \notin {Unused, Removed}
              /\ tasks'[x].status = tasks[x].status /\ tasks'[x].done = tasks[x].done
  PROVE  IInv'
<1>0. \A x \in Task : /\ tasks'[x] \notin {Unused, Removed} <=> Exists(x)
                      /\ tasks'[x].status = tasks[x].status /\ tasks'[x].done = tasks[x].done
  BY DEF Exists
<1>1. \A s \in Slot : Shape(slot'[s])
  BY DEF IInv
<1>2. ASSUME overlaps = 0
      PROVE  Alone' /\ (\A s \in Slot : Knows(s)') /\ TrailRuns' /\ Dated'
  <2>1. Alone /\ (\A s \in Slot : Knows(s)) /\ TrailRuns /\ Dated
    BY <1>2 DEF IInv
  <2>2. Alone'
    BY <2>1 DEF Alone
  <2>3. TrailRuns' /\ Dated'
    BY <1>0, <2>1 DEF TrailRuns, Dated, Recording, Exists
  <2>4. ASSUME NEW s \in Slot PROVE Knows(s)'
    <3> DEFINE h == slot[s]
    <3>1. h \in Handle /\ Shape(h) /\ \A c \in h.todo : c.id \in Task
      BY DEF IInv, TypeOK, Handle, Copy
    <3>2. h.copy \in Copy => h.copy.id \in Task
      BY DEF Copy
    <3>3. h.pc \in {"write", "history"} => h.copy \in Copy
      <4>1. h.op = "idle" => h.pc = "idle"
        BY <3>1, IdleIs DEF Shape
      <4> QED BY <3>1, <4>1, EventOps DEF Shape, Handle
    <3>4. h.told # {} => h.copy \in Copy
      BY <3>1 DEF Shape
    <3>5. Knows(s) /\ slot'[s] = h
      BY <2>1
    <3>6. \A c \in h.todo : Agrees(c)' /\ (h.op = "due" => c.status \notin Closed)
      BY <1>0, <3>1, <3>5 DEF Knows, Agrees, Exists
    <3>7. h.pc = "write" => tasks'[h.copy.id] \notin {Unused, Removed} /\ tasks'[h.copy.id].status = h.copy.status
      BY <1>0, <3>2, <3>3, <3>5 DEF Knows, Agrees
    <3>8. h.pc \in {"write", "history"} \/ h.told # {} => tasks'[h.copy.id].status = tasks[h.copy.id].status
      BY <1>0, <3>2, <3>3, <3>4
    <3>9. h.pc = "history" => tasks'[h.copy.id] \notin {Unused, Removed}
      BY <1>0, <3>2, <3>3, <3>5 DEF Knows
    <3>10. /\ \A c, d \in h.todo : c.id = d.id => c = d
           /\ h.pc \in {"write", "history"} => \A c \in h.todo : c.id # h.copy.id
      BY <3>5 DEF Knows
    <3>11. h.pc = "history" => /\ trail'[h.copy.id].to = h.copy.status
                               /\ h.op = "update" => tasks'[h.copy.id].status = Given(h)
                               /\ h.op \in Event => \A e \in Effect(h.op, h.copy) : tasks'[h.copy.id].status = e.status
      BY <3>5, <3>8 DEF Knows
    <3>12. \A n \in h.told : /\ n.kind = "due" => tasks'[h.copy.id].status \notin Closed
                             /\ n.kind = "completed" => tasks'[h.copy.id].status = "DONE"
      BY <3>5, <3>8 DEF Knows
    <3> HIDE DEF h
    <3> QED BY <3>5, <3>6, <3>7, <3>9, <3>10, <3>11, <3>12 DEF Knows, Agrees, Exists
  <2> QED BY <2>2, <2>3, <2>4
<1> QED BY <1>1, <1>2 DEF IInv

LEMMA LinkStep ==
  ASSUME IInv, NEW t \in Task, LinkTaskToGithub(t)
  PROVE  IInv'
<1>0. /\ TypeOK /\ Exists(t) /\ tasks' = [tasks EXCEPT ![t].link = "branch"]
      /\ UNCHANGED <<trail, slot, outside, overlaps, disorder, patched>>
      /\ watched' = IF events = 0 THEN watched \union {t} ELSE watched
  BY DEF IInv, LinkTaskToGithub
<1>1. /\ tasks' \in [Task -> Row \union {Unused, Removed}]
      /\ \A x \in Task : Exists(x)' <=> Exists(x)
      /\ \A x \in Task : Exists(x) => tasks'[x].status = tasks[x].status /\ tasks'[x].done = tasks[x].done
  BY <1>0, LinkKeeps
<1>2. TypeOK'
  BY <1>0, <1>1 DEF TypeOK, outside
<1>3. \A x \in Task : x # t => tasks'[x] = tasks[x]
  BY <1>0 DEF TypeOK
<1>4. tasks'[t] \notin {Unused, Removed}
  BY <1>0, <1>1 DEF Exists
<1> QED BY <1>0, <1>1, <1>2, <1>3, <1>4, StillStep

LEMMA GitHubStep == ASSUME IInv, GitHub PROVE IInv'
<1> USE DEF GitHub, PullRequest, Issue
<1>0. TypeOK
  BY DEF IInv
<1>1. ASSUME NEW event \in Event, Emit(event)
      PROVE  /\ UNCHANGED <<tasks, trail, slot, overlaps, disorder, patched, watched>>
             /\ wire' \in Seq(Event) /\ events' \in 0 .. MaxEvents
  BY <1>0, <1>1, TaskAssumption DEF TypeOK, Emit, rows, history
<1>2. \E event \in Event : Emit(event)
  BY DEF Event, PrEvent, IssueEvent
<1>3. github' \in [pr : {"none", "open", "closed", "merged"}, issue : {"open", "closed", "reopened"}]
  BY <1>0 DEF TypeOK
<1>4. UNCHANGED <<tasks, trail, slot, overlaps, disorder, patched, watched>> /\ TypeOK'
  BY <1>0, <1>1, <1>2, <1>3 DEF TypeOK
<1> QED BY <1>4, StillStep

LEMMA StutterStep == ASSUME IInv, UNCHANGED vars PROVE IInv'
<1>1. TypeOK'
  BY DEF IInv, vars, TypeOK
<1> QED BY <1>1, StillStep DEF vars

-----------------------------------------------------------------------------
(* The invariant.                                                            *)

LEMMA InitIInv == Init => IInv
<1> SUFFICES ASSUME Init PROVE IInv
  OBVIOUS
<1>1. tasks \in [Task -> Row \union {Unused, Removed}] /\ \A t \in Task : tasks[t] = Unused \/ tasks[t] \in SeedRows
  BY TaskAssumption DEF Init
<1>2. \A t \in Task : Exists(t) => tasks[t] \in Row /\ (tasks[t].done <=> tasks[t].status = "DONE")
  BY <1>1, TaskAssumption DEF Exists
<1>3. /\ trail \in [Task -> [to : Status, ok : BOOLEAN]]
      /\ \A t \in Task : trail[t].ok /\ (Exists(t) => trail[t].to = tasks[t].status)
  <2> DEFINE to(t) == IF tasks[t] = Unused THEN "TODO" ELSE tasks[t].status
  <2>1. \A t \in Task : to(t) \in Status /\ (Exists(t) => to(t) = tasks[t].status)
    BY <1>1, TaskAssumption DEF Status, Row, Exists
  <2>2. trail = [t \in Task |-> [to |-> to(t), ok |-> TRUE]]
    BY DEF Init
  <2> HIDE DEF to
  <2> QED BY <2>1, <2>2
<1>4. \A s \in Slot : slot[s] = Idle
  BY DEF Init
<1>5. TypeOK
  BY <1>1, <1>3, IdleIs, TaskAssumption, EmptySeq DEF Init, TypeOK
<1>6. TrailRuns /\ Dated /\ Alone
  BY <1>2, <1>3, <1>4, IdleIs DEF TrailRuns, Dated, Alone
<1>7. \A s \in Slot : Knows(s) /\ Shape(slot[s])
  BY <1>4, IdleIs DEF Knows
<1> QED BY <1>5, <1>6, <1>7 DEF IInv

LEMMA HandlerStep == ASSUME IInv, NEW s \in Slot, Handler(s) PROVE IInv'
<1>1. CASE CreateNotify(s) BY <1>1, CreateNotifyStep
<1>2. CASE UpdateWrite(s) BY <1>2, UpdateWriteStep
<1>3. CASE UpdateHistory(s) BY <1>3, UpdateHistoryStep
<1>4. CASE RemoveWrite(s) BY <1>4, RemoveWriteStep
<1>5. CASE Sent(s) \/ EndLoop(s) BY <1>5, EndingStep
<1>6. CASE \E c \in slot[s].todo : NoteNumber(s, c) BY <1>6, NoteNumberStep
<1>7. CASE \E c \in slot[s].todo : DueNotify(s, c) BY <1>7, DueNotifyStep
<1>8. CASE \E c \in slot[s].todo \union {slot[s].copy} : EventWrite(s, c) BY <1>8, EventWriteStep
<1>9. CASE EventHistory(s) BY <1>9, EventHistoryStep
<1> QED BY <1>1, <1>2, <1>3, <1>4, <1>5, <1>6, <1>7, <1>8, <1>9 DEF Handler

LEMMA NextIInv == IInv /\ [Next]_vars => IInv'
<1> SUFFICES ASSUME IInv, [Next]_vars PROVE IInv'
  OBVIOUS
<1>1. ASSUME NEW s \in Slot, Handler(s) PROVE IInv'
  BY <1>1, HandlerStep
<1>2. ASSUME NEW s \in Slot, Requests(s) PROVE IInv'
  <2>1. CASE \E u \in User, t \in Task : \E body \in Bodies : Create(s, u, t, body)
    BY <2>1, CreateStep
  <2>2. CASE \E u \in User, t \in Task : (\E patch \in Patches : UpdateRead(s, u, t, patch)) \/ RemoveRead(s, u, t)
    BY <2>2, UserReadStep
  <2>3. CASE StartDueJob(s)
    BY <2>3, DueStart
  <2> QED BY <1>2, <2>1, <2>2, <2>3 DEF Requests
<1>3. ASSUME NEW s \in Slot, Deliveries(s) PROVE IInv'
  BY <1>3, ReceiveStep DEF Deliveries
<1>4. ASSUME NEW t \in Task, LinkTaskToGithub(t) PROVE IInv'
  BY <1>4, LinkStep
<1>5. CASE GitHub BY <1>5, GitHubStep
<1>6. CASE UNCHANGED vars BY <1>6, StutterStep
<1> QED BY <1>1, <1>2, <1>3, <1>4, <1>5, <1>6 DEF Next

\* The invariant holds: with it, what a lone handler read still holds.
THEOREM Invariant == Spec => []IInv
  BY InitIInv, NextIInv, PTL DEF Spec

\* The rows, the history, the handlers and the deliveries keep their types
\* (tasks.service.ts, github-webhook.service.ts).
THEOREM TypeCorrect == Spec => []TypeOK
<1>1. IInv => TypeOK
  BY DEF IInv
<1> QED BY <1>1, Invariant, PTL

-----------------------------------------------------------------------------
(* The properties.                                                           *)

\* As long as no two handlers overlap, the status history of a task is one
\* chain that ends at its status once no handler is at work
\* (tasks.service.ts:263-338, github-webhook.service.ts:330-345).
THEOREM TrailChainsAlways == Spec => []TrailChains
<1>1. ASSUME IInv, overlaps = 0, NEW t \in Task
      PROVE  trail[t].ok /\ (Quiet /\ Exists(t) => trail[t].to = tasks[t].status)
  <2>1. Quiet => ~Recording(t)
    BY <1>1, IdleIs DEF Quiet, IInv, Shape, Recording
  <2> QED BY <1>1, <2>1 DEF IInv, TrailRuns
<1>2. IInv => TrailChains
  BY <1>1 DEF TrailChains
<1> QED BY <1>2, Invariant, PTL

\* As long as only GitHub completes and reopens a task, and handlers do not
\* overlap, completedAt is set exactly while the task is DONE
\* (github-webhook.service.ts:241-328).
THEOREM DoneMatchesCompletionAlways == Spec => []DoneMatchesCompletion
<1>1. IInv => DoneMatchesCompletion
  BY DEF IInv, Dated, DoneMatchesCompletion
<1> QED BY <1>1, Invariant, PTL

\* However handlers interleave, one update tells nobody of the general change
\* who gets a special notice of it, and never the user who made it
\* (tasks.service.ts:344-404).
THEOREM NoticesAreDistinctAlways == Spec => []NoticesAreDistinct
<1>1. ASSUME NEW h \in Handle, NEW n \in UpdateNotices(h), NEW m \in UpdateNotices(h)
      PROVE  n.to # h.by /\ (n.kind = "updated" /\ m.to = n.to => m = n)
  BY DEF UpdateNotices
<1>2. ASSUME IInv, NEW s \in Slot, slot[s].op = "update", NEW n \in slot[s].told, NEW m \in slot[s].told
      PROVE  n.to # slot[s].by /\ (n.kind = "updated" /\ m.to = n.to => m = n)
  <2>1. slot[s] \in Handle /\ slot[s].told = UpdateNotices(slot[s])
    BY <1>2 DEF IInv, TypeOK, Shape
  <2> QED BY <1>1, <1>2, <2>1
<1>3. IInv => NoticesAreDistinct
  BY <1>2 DEF NoticesAreDistinct
<1> QED BY <1>3, Invariant, PTL

\* Unless handlers overlap, what a notice says of the task is so when it is
\* sent (schedule-runner.service.ts:66-144, github-webhook.service.ts:241-268,
\* tasks.service.ts:379-391).
THEOREM NoticesAreTrueAlways == Spec => []NoticesAreTrue
<1>1. IInv => NoticesAreTrue
  BY DEF IInv, Knows, NoticesAreTrue
<1> QED BY <1>1, Invariant, PTL

\* A lone event other than a merge moves no cancelled task, and a job none.
LEMMA CancelledKept ==
  ASSUME IInv, overlaps = 0, NEW s \in Slot, NEW c \in slot[s].todo \union {slot[s].copy},
         EventWrite(s, c), slot[s].op # "merged", NEW t \in Task, tasks[t].status = "CANCELLED", Exists(t)
  PROVE  tasks'[t].status = "CANCELLED"
<1>1. /\ slot[s].op \in Event /\ c \in Copy /\ c.id \in Task /\ Agrees(c) /\ TypeOK
      /\ Effect(slot[s].op, c) = {} => tasks' = tasks
      /\ \A x \in Task \ {c.id} : tasks'[x] = tasks[x]
  <2>1. slot[s].op \in Event /\ c \in Copy /\ c.id \in Task
    BY EventOps DEF IInv, TypeOK, EventWrite, Handle, Copy, Shape
  <2>2. Agrees(c)
    BY EventOps DEF IInv, EventWrite, Knows, Shape
  <2>3. TypeOK
    BY DEF IInv
  <2>4. CASE Effect(slot[s].op, c) = {}
    BY <2>1, <2>2, <2>3, <2>4 DEF EventWrite
  <2>5. ASSUME NEW e \in Effect(slot[s].op, c),
               tasks' = tasks \/ tasks' = [tasks EXCEPT ![c.id].status = e.status,
                                                        ![c.id].done = IF e.done = Same THEN @ ELSE e.done]
        PROVE  \A x \in Task \ {c.id} : tasks'[x] = tasks[x]
    BY <2>3, <2>5 DEF TypeOK
  <2>6. CASE Effect(slot[s].op, c) # {}
    BY <2>1, <2>2, <2>3, <2>5, <2>6 DEF EventWrite
  <2> QED BY <2>4, <2>6
<1>2. CASE t = c.id
  <2>1. c.status = "CANCELLED"
    BY <1>1, <1>2 DEF Agrees
  <2>2. Effect(slot[s].op, c) = {}
    BY <1>1, <2>1, EffectIs
  <2> QED BY <1>1, <2>2
<1>3. CASE t # c.id
  BY <1>1, <1>3 DEF TypeOK
<1> QED BY <1>2, <1>3

\* A cancelled task leaves CANCELLED only by a user's update or the merge of its
\* pull request, unless handlers overlap (github-webhook.service.ts:300).
THEOREM CancelledStaysAlways == Spec => CancelledStays
<1> DEFINE Kept(t) == \/ tasks'[t] = Removed \/ tasks'[t].status = "CANCELLED"
                      \/ \E s \in Slot : slot[s].op \in {"update", "merged"}
           Held == \A t \in Task : Exists(t) /\ tasks[t].status = "CANCELLED" /\ overlaps = 0 => Kept(t)
<1>1. ASSUME IInv, Next PROVE Held
  <2> SUFFICES ASSUME NEW t \in Task, Exists(t), tasks[t].status = "CANCELLED", overlaps = 0
               PROVE  Kept(t)
    OBVIOUS
  <2>0. TypeOK
    BY <1>1 DEF IInv
  <2>1. ASSUME NEW s \in Slot, Handler(s) PROVE Kept(t)
    <3>1. CASE CreateNotify(s) \/ UpdateHistory(s) \/ Sent(s) \/ EndLoop(s) \/ EventHistory(s)
      BY <3>1 DEF CreateNotify, UpdateHistory, Sent, EndLoop, EventHistory, rows
    <3>2. CASE UpdateWrite(s)
      BY <3>2 DEF UpdateWrite
    <3>3. CASE RemoveWrite(s)
      BY <2>0, <3>3 DEF RemoveWrite, TypeOK
    <3>4. CASE \E c \in slot[s].todo : DueNotify(s, c)
      BY <3>4 DEF DueNotify, rows
    <3>5. CASE \E c \in slot[s].todo : NoteNumber(s, c)
      <4>1. PICK c \in slot[s].todo : NoteNumber(s, c)
        BY <3>5
      <4>2. c.id \in Task /\ trail' = trail
        BY <2>0, <4>1 DEF TypeOK, Handle, Copy, NoteNumber
      <4>3. tasks' = tasks \/ (Exists(c.id) /\ tasks' = [tasks EXCEPT ![c.id].link = "number"])
        BY <4>1 DEF NoteNumber
      <4> QED BY <2>0, <4>2, <4>3, LinkKeeps
    <3>6. CASE \E c \in slot[s].todo \union {slot[s].copy} : EventWrite(s, c)
      BY <1>1, <3>6, CancelledKept
    <3> QED BY <2>1, <3>1, <3>2, <3>3, <3>4, <3>5, <3>6 DEF Handler
  <2>2. ASSUME NEW s \in Slot, Requests(s) PROVE Kept(t)
    <3>1. CASE \E u \in User, x \in Task : \E body \in Bodies : Create(s, u, x, body)
      BY <2>0, <3>1 DEF Create, TypeOK, Exists
    <3>2. CASE StartDueJob(s) \/ \E u \in User, x \in Task :
                                   (\E patch \in Patches : UpdateRead(s, u, x, patch)) \/ RemoveRead(s, u, x)
      BY <3>2 DEF StartDueJob, UpdateRead, RemoveRead, rows
    <3> QED BY <2>2, <3>1, <3>2 DEF Requests
  <2>3. ASSUME NEW s \in Slot, Deliveries(s) PROVE Kept(t)
    BY <2>3 DEF Deliveries, Receive, rows
  <2>4. ASSUME NEW x \in Task, LinkTaskToGithub(x) PROVE Kept(t)
    <3>1. Exists(x) /\ tasks' = [tasks EXCEPT ![x].link = "branch"] /\ trail' = trail
      BY <2>4 DEF LinkTaskToGithub
    <3> QED BY <2>0, <3>1, LinkKeeps
  <2>5. CASE GitHub
    BY <2>5 DEF GitHub, PullRequest, Issue, Emit, rows
  <2> QED BY <1>1, <2>1, <2>2, <2>3, <2>4, <2>5 DEF Next
<1>2. ASSUME UNCHANGED vars PROVE Held
  BY <1>2 DEF vars
<1>3. IInv /\ [Next]_vars => [\A t \in Task :
       Exists(t) /\ tasks[t].status = "CANCELLED" /\ overlaps = 0 =>
         \/ tasks'[t] = Removed \/ tasks'[t].status = "CANCELLED"
         \/ \E s \in Slot : slot[s].op \in {"update", "merged"}]_vars
  BY <1>1, <1>2
<1> QED BY <1>3, Invariant, PTL DEF Spec, CancelledStays
-----------------------------------------------------------------------------
(* What a merge makes of the tasks linked before it.  While deliveries are     *)
(* made once and in order, a merge is the last of its pull request's events,   *)
(* and of two issue events the later one says how the issue is.                *)

OnWire(event) == \E i \in 1 .. Len(wire) : wire[i] = event

\* A subject's events that another one, Final, supersedes, unless the subject
\* has not come to that.
Superseded(k) == IF k = "pr" THEN PrEvent \ {"merged"} ELSE {"issue_reopened"}
Final(k) == IF k = "pr" THEN "merged" ELSE "issue_closed"
StillOpen(k) == IF k = "pr" THEN github.pr # "merged" ELSE github.issue = "reopened"
Behind(k) ==
  StillOpen(k) \/ /\ \A i \in 1 .. Len(wire) : wire[i] \in Superseded(k) =>
                       \E j \in (i + 1) .. Len(wire) : wire[j] = Final(k)
                  /\ \A s \in Slot : slot[s].op \in Superseded(k) => OnWire(Final(k))
InOrder == Behind("pr") /\ Behind("issue")

\* An event that a task is still to be moved by.
DueIn(h, event, t) ==
  h.op = event /\ ((\E c \in h.todo : c.id = t) \/ (h.pc = "write" /\ h.copy.id = t))
Coming(event, t) == OnWire(event) \/ \E s \in Slot : DueIn(slot[s], event, t)

\* The merge is to come, or what came after it left the task DONE, or will.
Settled(t) ==
  \/ Coming("merged", t)
  \/ /\ tasks[t].status # "CANCELLED"
     /\ \/ tasks[t].status = "DONE"
        \/ github.issue = "reopened"
        \/ Coming("issue_closed", t)
Merging == github.pr = "merged" => \A t \in watched \ patched : Exists(t) => Settled(t)

\* Nothing is merged before GitHub's first event, and a link stays.
Watching == /\ events = 0 => github.pr # "merged"
            /\ \A t \in watched : tasks[t] # Unused /\ (Exists(t) => tasks[t].link # "none")

MergeInv == Watching /\ (overlaps = 0 /\ disorder = 0 => InOrder /\ Merging)

LEMMA SubjectsAre ==
  ASSUME NEW k \in {"pr", "issue"}
  PROVE  /\ Superseded(k) \subseteq Event /\ Final(k) \in Event /\ Final(k) \notin Superseded(k)
         /\ "idle" \notin Superseded(k)
BY DEF Superseded, Final, Event, PrEvent, IssueEvent

\* What else there is to know of an event's effect.
LEMMA EffectMoves ==
  ASSUME NEW event \in Event, NEW c \in Copy
  PROVE  /\ \A e \in Effect(event, c) : /\ e.status # "CANCELLED"
                                        /\ event \in {"merged", "issue_closed"} => e.status = "DONE"
                                        /\ event = "push" => c.status # "DONE"
         /\ event = "issue_closed" /\ Effect(event, c) = {} => c.status \in Closed
<1>1. CASE event \in {"opened", "closed", "reopened"}
  BY <1>1 DEF Effect, HandlePrOpened, HandlePrClosed, HandlePrReopened, To
<1>2. CASE event = "merged"
  BY <1>2 DEF Effect, HandlePrMerged, To
<1>3. CASE event = "issue_closed"
  <2>1. Effect(event, c) = IF c.status \notin Closed THEN To("DONE", TRUE) ELSE {}
    BY <1>3 DEF Effect, HandleIssueClosed
  <2>2. To("DONE", TRUE) # {} /\ \A e \in To("DONE", TRUE) : e.status = "DONE"
    BY DEF To
  <2>3. \A e \in Effect(event, c) : e.status = "DONE"
    BY <2>1, <2>2
  <2>4. Effect(event, c) = {} => c.status \in Closed
    BY <2>1, <2>2
  <2> QED BY <1>3, <2>3, <2>4
<1>4. CASE event = "issue_reopened"
  <2>1. Effect(event, c) = HandleIssueReopened(c)
    BY <1>4 DEF Effect
  <2> QED BY <1>4, <2>1 DEF HandleIssueReopened, To
<1>5. CASE event = "push"
  <2>1. Effect(event, c) = HandlePush(c)
    BY <1>5 DEF Effect
  <2> QED BY <1>5, <2>1 DEF HandlePush, To
<1> QED BY <1>1, <1>2, <1>3, <1>4, <1>5 DEF Event, PrEvent, IssueEvent

\* The first delivery leaves the wire.
LEMMA FirstTaken ==
  ASSUME NEW w \in Seq(Event), Len(w) >= 1
  PROVE  /\ Len(RemoveAt(w, 1)) = Len(w) - 1
         /\ \A i \in 1 .. (Len(w) - 1) : RemoveAt(w, 1)[i] = w[i + 1]
<1> DEFINE a == SubSeq(w, 1, 0)
           b == SubSeq(w, 2, Len(w))
<1>1. RemoveAt(w, 1) = a \o b
  BY DEF RemoveAt
<1>2. a \in Seq(Event) /\ Len(a) = 0
  BY SubSeqProperties
<1>3. b \in Seq(Event) /\ Len(b) = Len(w) - 1 /\ \A i \in 1 .. (Len(w) - 1) : b[i] = w[i + 1]
  <2> DEFINE n == Len(w)
  <2>1. n \in Nat /\ n >= 1 /\ 2 \in Int /\ n \in Int /\ \A i \in 2 .. n : w[i] \in Event
    OBVIOUS
  <2> HIDE DEF n
  <2>2. /\ SubSeq(w, 2, n) \in Seq(Event)
        /\ Len(SubSeq(w, 2, n)) = IF 2 <= n THEN n - 2 + 1 ELSE 0
        /\ \A i \in 1 .. (n - 2 + 1) : SubSeq(w, 2, n)[i] = w[2 + i - 1]
    BY <2>1, SubSeqProperties
  <2>3. \A i \in 1 .. (n - 1) : i \in 1 .. (n - 2 + 1) /\ 2 + i - 1 = i + 1
    BY <2>1
  <2>4. \A i \in 1 .. (n - 1) : SubSeq(w, 2, n)[i] = w[i + 1]
    BY <2>2, <2>3
  <2> QED BY <2>1, <2>2, <2>4 DEF n
<1> HIDE DEF a, b
<1> QED BY <1>1, <1>2, <1>3, ConcatProperties

\* Steps that neither take nor make a delivery.
LEMMA BehindKept ==
  ASSUME UNCHANGED <<wire, github>>, NEW k \in {"pr", "issue"}, Behind(k),
         \A q \in Slot : slot'[q].op = slot[q].op \/ slot'[q].op \notin Event
  PROVE  Behind(k)'
BY SubjectsAre DEF Behind, StillOpen, OnWire, Superseded, Final

LEMMA Steady ==
  ASSUME InOrder, Merging, UNCHANGED <<wire, github>>,
         \A q \in Slot : slot'[q].op = slot[q].op \/ slot'[q].op \notin Event,
         github.pr = "merged" =>
           \A t \in watched' \ patched' : Exists(t)' =>
             /\ t \in watched \ patched /\ Exists(t)
             /\ \/ /\ tasks'[t].status = tasks[t].status
                   /\ \A q \in Slot, event \in Event :
                        DueIn(slot[q], event, t) => DueIn(slot'[q], event, t)
                \/ Settled(t)'
  PROVE  InOrder' /\ Merging'
<1>1. InOrder'
  BY BehindKept DEF InOrder
<1>2. ASSUME NEW t, NEW event \in Event, Coming(event, t),
             \A q \in Slot : DueIn(slot[q], event, t) => DueIn(slot'[q], event, t)
      PROVE  Coming(event, t)'
  <2>1. \A q \in Slot : DueIn(slot[q], event, t)' <=> DueIn(slot'[q], event, t)
    BY DEF DueIn
  <2> QED BY <1>2, <2>1 DEF Coming, OnWire
<1>3. "merged" \in Event /\ "issue_closed" \in Event
  BY DEF Event, PrEvent, IssueEvent
<1>4. ASSUME NEW t, Settled(t), tasks'[t].status = tasks[t].status,
             \A q \in Slot, event \in Event : DueIn(slot[q], event, t) => DueIn(slot'[q], event, t)
      PROVE  Settled(t)'
  BY <1>2, <1>3, <1>4 DEF Settled
<1> QED BY <1>1, <1>4 DEF Merging

\* A step in a slot that handles no event, before or after.
LEMMA OtherHandler ==
  ASSUME TypeOK, InOrder, Merging, UNCHANGED <<wire, github>>, NEW s \in Slot, NEW h,
         slot' = [slot EXCEPT ![s] = h], slot[s].op \notin Event, h.op \notin Event,
         \A t \in watched' \ patched' : Exists(t)' =>
           t \in watched \ patched /\ Exists(t) /\ tasks'[t].status = tasks[t].status
  PROVE  InOrder' /\ Merging'
<1>1. slot'[s] = h /\ \A q \in Slot \ {s} : slot'[q] = slot[q]
  BY DEF TypeOK
<1>2. \A q \in Slot : slot'[q].op = slot[q].op \/ slot'[q].op \notin Event
  BY <1>1
<1>3. \A q \in Slot, event \in Event, t \in Task : DueIn(slot[q], event, t) => DueIn(slot'[q], event, t)
  BY <1>1 DEF DueIn
<1>4. watched \subseteq Task
  BY DEF TypeOK
<1> QED BY <1>2, <1>3, <1>4, Steady

\* A step of an event's handler that moves no task: it goes on, or is over.
LEMMA EventHandler ==
  ASSUME TypeOK, InOrder, Merging, UNCHANGED <<wire, github, watched, patched>>, NEW s \in Slot, NEW h,
         slot' = [slot EXCEPT ![s] = h], h.op = slot[s].op \/ h.op \notin Event, NEW T \in SUBSET Task,
         \A t \in Task \ T : /\ tasks'[t].status = tasks[t].status /\ (Exists(t)' => Exists(t))
                             /\ \A event \in Event : DueIn(slot[s], event, t) => DueIn(h, event, t),
         github.pr = "merged" =>
           \A t \in T \intersect (watched \ patched) : Exists(t)' => Exists(t) /\ Settled(t)'
  PROVE  InOrder' /\ Merging'
<1>1. slot'[s] = h /\ \A q \in Slot \ {s} : slot'[q] = slot[q]
  BY DEF TypeOK
<1>2. \A q \in Slot : slot'[q].op = slot[q].op \/ slot'[q].op \notin Event
  BY <1>1
<1>3. \A q \in Slot, event \in Event, t \in Task \ T : DueIn(slot[q], event, t) => DueIn(slot'[q], event, t)
  BY <1>1
<1>4. watched \subseteq Task
  BY DEF TypeOK
<1> QED BY <1>2, <1>3, <1>4, Steady

LEMMA OwnSteps ==
  ASSUME IInv, InOrder, Merging, NEW s \in Slot,
         \/ CreateNotify(s) \/ UpdateWrite(s) \/ UpdateHistory(s) \/ RemoveWrite(s) \/ Sent(s)
         \/ \E c \in slot[s].todo : DueNotify(s, c)
         \/ EndLoop(s) /\ slot[s].op \notin Event
  PROVE  InOrder' /\ Merging'
<1>0. TypeOK /\ Idle.op \notin Event /\ slot[s] \in Handle /\ Shape(slot[s])
  BY IdleIs, EventOps DEF IInv, TypeOK
<1>1. CASE \/ CreateNotify(s) \/ UpdateHistory(s) \/ Sent(s) \/ \E c \in slot[s].todo : DueNotify(s, c)
           \/ EndLoop(s) /\ slot[s].op \notin Event
  <2>1. UNCHANGED <<tasks, wire, github, watched, patched>>
    BY <1>1 DEF CreateNotify, UpdateHistory, Sent, EndLoop, DueNotify, rows, outside, history
  <2>2. slot[s].op \notin Event
    BY <1>0, <1>1, EventOps DEF CreateNotify, UpdateHistory, Sent, DueNotify, Shape
  <2>3. PICK h : slot' = [slot EXCEPT ![s] = h] /\ h.op \notin Event
    <3>1. CASE End(s)
      BY <1>0, <3>1 DEF End, Move
    <3>2. ASSUME NEW pc, NEW told, Moved(s, pc, told) PROVE \E h : slot' = [slot EXCEPT ![s] = h] /\ h.op \notin Event
      <4> DEFINE n == [slot[s] EXCEPT !.pc = pc, !.told = told]
      <4>1. n.op = slot[s].op /\ slot' = [slot EXCEPT ![s] = n]
        BY <1>0, <3>2 DEF Moved, Move, Handle
      <4> HIDE DEF n
      <4> QED BY <2>2, <4>1
    <3>3. ASSUME NEW c, DueNotify(s, c) PROVE \E h : slot' = [slot EXCEPT ![s] = h] /\ h.op \notin Event
      <4> DEFINE told == {[to |-> c.assignee, kind |-> "due"]}
                 n == [slot[s] EXCEPT !.copy = c, !.todo = slot[s].todo \ {c}, !.told = told]
      <4>1. slot' = [slot EXCEPT ![s] = n]
        BY <3>3 DEF DueNotify, Move
      <4> HIDE DEF told
      <4>2. n.op = slot[s].op
        BY <1>0 DEF Handle
      <4> HIDE DEF n
      <4> QED BY <2>2, <4>1, <4>2
    <3> QED BY <1>1, <3>1, <3>2, <3>3 DEF CreateNotify, UpdateHistory, Sent, EndLoop
  <2> QED BY <1>0, <2>1, <2>2, <2>3, OtherHandler DEF Exists
<1>2. CASE UpdateWrite(s)
  <2> DEFINE h == slot[s]
             t == h.copy.id
             n == [h EXCEPT !.pc = "history", !.told = {}]
             status == IF h.patch.status = Same THEN tasks[t].status ELSE h.patch.status
             assignee == IF h.patch.assignee = Same THEN tasks[t].assignee ELSE h.patch.assignee
             row == [[tasks[t] EXCEPT !.status = status] EXCEPT !.assignee = assignee]
  <2>1. /\ h.op = "update" /\ h.op \notin Event /\ t \in Task /\ n.op = h.op
        /\ UNCHANGED <<wire, github, watched>>
    BY <1>0, <1>2, EventOps DEF UpdateWrite, Shape, Copy, Handle, outside
  <2>2. CASE ~Exists(t)
    <3>1. slot' = [slot EXCEPT ![s] = Idle] /\ UNCHANGED <<tasks, patched>>
      BY <1>2, <2>2 DEF UpdateWrite, End, Move
    <3> QED BY <1>0, <2>1, <3>1, OtherHandler DEF Exists
  <2>3. CASE Exists(t)
    <3>1. /\ tasks' = [tasks EXCEPT ![t] = row] /\ slot' = [slot EXCEPT ![s] = n]
          /\ patched' = IF h.patch.status = Same THEN patched ELSE patched \union {t}
      BY <1>2, <2>3 DEF UpdateWrite, Moved, Move
    <3>2. tasks[t] \in Row
      BY <1>0, <2>1, <2>3, RowIs
    <3>3. row.status = status
      <4> HIDE DEF status, assignee
      <4> QED BY <3>2 DEF Row
    <3> HIDE DEF row, n
    <3>4. \A x \in Task : tasks'[x] = IF x = t THEN row ELSE tasks[x]
      BY <1>0, <2>1, <3>1 DEF TypeOK
    <3>5. ASSUME NEW x \in watched' \ patched', Exists(x)'
          PROVE  x \in watched \ patched /\ Exists(x) /\ tasks'[x].status = tasks[x].status
      <4>1. x \in Task /\ x \in watched \ patched
        BY <1>0, <2>1, <3>1 DEF TypeOK
      <4>2. CASE x = t
        BY <2>3, <3>1, <3>3, <3>4, <4>1, <4>2
      <4>3. CASE x # t
        BY <3>4, <3>5, <4>1, <4>3 DEF Exists
      <4> QED BY <4>1, <4>2, <4>3
    <3> HIDE DEF h, t
    <3> QED BY <1>0, <2>1, <3>1, <3>5, OtherHandler DEF h
  <2> QED BY <2>2, <2>3
<1>3. CASE RemoveWrite(s)
  <2> DEFINE t == slot[s].copy.id
  <2>1. /\ slot[s].op \notin Event /\ t \in Task /\ slot' = [slot EXCEPT ![s] = Idle]
        /\ tasks' = IF Exists(t) THEN [tasks EXCEPT ![t] = Removed] ELSE tasks
        /\ UNCHANGED <<wire, github, watched, patched>>
    BY <1>0, <1>3, EventOps DEF RemoveWrite, End, Move, Shape, Copy, outside, history
  <2> HIDE DEF t
  <2>2. ASSUME NEW x \in watched, Exists(x)' PROVE Exists(x) /\ tasks'[x] = tasks[x]
    <3>1. x \in Task
      BY <1>0 DEF TypeOK
    <3>2. tasks'[x] = tasks[x] \/ tasks'[x] = Removed
      BY <1>0, <2>1, <3>1 DEF TypeOK
    <3> QED BY <2>2, <3>2 DEF Exists
  <2> QED BY <1>0, <2>1, <2>2, OtherHandler
<1> QED BY <1>1, <1>2, <1>3

\* Users' requests and the due-date job start.
LEMMA OtherStarts ==
  ASSUME IInv, Watching, InOrder, Merging, NEW s \in Slot, Requests(s)
  PROVE  InOrder' /\ Merging'
<1>0. TypeOK /\ Idle.op \notin Event
  BY IdleIs, EventOps DEF IInv
<1>1. ASSUME NEW h, Start(s, h), h.op \notin Event, UNCHANGED <<wire, github, watched>>,
             patched \subseteq patched',
             \A t \in watched' : Exists(t)' => Exists(t) /\ tasks'[t].status = tasks[t].status
      PROVE  InOrder' /\ Merging'
  <2>1. slot[s].op \notin Event /\ slot' = [slot EXCEPT ![s] = h]
    BY <1>1, EventOps DEF Start
  <2> QED BY <1>0, <1>1, <2>1, OtherHandler
<1>2. ASSUME NEW u \in User, NEW t \in Task, NEW body \in Bodies, Create(s, u, t, body)
      PROVE  InOrder' /\ Merging'
  <2> DEFINE row == [status |-> body.status, done |-> FALSE, creator |-> u,
                     assignee |-> body.assignee, link |-> "none"]
             copy == CopyOf(t, row)
             h == [Idle EXCEPT !.op = "create", !.pc = "notify", !.by = u, !.copy = copy]
  <2>1. /\ tasks' = [tasks EXCEPT ![t] = row] /\ tasks[t] = Unused /\ Start(s, h)
        /\ UNCHANGED <<wire, github, watched>> /\ patched \subseteq patched'
    BY <1>2 DEF Create, outside
  <2> HIDE DEF row, copy
  <2>2. h.op = "create" /\ h.op \notin Event
    BY EventOps DEF Idle
  <2>3. \A x \in watched : tasks'[x] = tasks[x]
    BY <1>0, <2>1 DEF TypeOK, Watching
  <2> HIDE DEF h
  <2> QED BY <1>1, <2>1, <2>2, <2>3 DEF Exists
<1>3. ASSUME NEW u \in User, NEW t \in Task, NEW patch \in Patches, UpdateRead(s, u, t, patch)
      PROVE  InOrder' /\ Merging'
  <2> DEFINE copy == CopyOf(t, tasks[t])
             h == [Idle EXCEPT !.op = "update", !.pc = "write", !.by = u, !.copy = copy, !.patch = patch]
  <2>1. Start(s, h) /\ UNCHANGED <<tasks, wire, github, watched, patched>>
    BY <1>3 DEF UpdateRead, rows, outside, history
  <2> HIDE DEF copy
  <2>2. h.op = "update" /\ h.op \notin Event
    BY EventOps DEF Idle
  <2> HIDE DEF h
  <2> QED BY <1>1, <2>1, <2>2 DEF Exists
<1>4. ASSUME NEW u \in User, NEW t \in Task, RemoveRead(s, u, t)
      PROVE  InOrder' /\ Merging'
  <2> DEFINE copy == CopyOf(t, tasks[t])
             h == [Idle EXCEPT !.op = "remove", !.pc = "write", !.by = u, !.copy = copy]
  <2>1. Start(s, h) /\ UNCHANGED <<tasks, wire, github, watched, patched>>
    BY <1>4 DEF RemoveRead, rows, outside, history
  <2> HIDE DEF copy
  <2>2. h.op = "remove" /\ h.op \notin Event
    BY EventOps DEF Idle
  <2> HIDE DEF h
  <2> QED BY <1>1, <2>1, <2>2 DEF Exists
<1>5. ASSUME StartDueJob(s) PROVE InOrder' /\ Merging'
  <2> DEFINE todo == {CopyOf(t, tasks[t]) :
                        t \in {u \in Due : Exists(u) /\ tasks[u].status \notin Closed
                                           /\ tasks[u].assignee # NoUser}}
             h == [Idle EXCEPT !.op = "due", !.pc = "loop", !.todo = todo]
  <2>1. Start(s, h) /\ UNCHANGED <<tasks, wire, github, watched, patched>>
    BY <1>5 DEF StartDueJob, rows, outside, history
  <2> HIDE DEF todo
  <2>2. h.op = "due" /\ h.op \notin Event
    BY EventOps DEF Idle
  <2> HIDE DEF h
  <2> QED BY <1>1, <2>1, <2>2 DEF Exists
<1> QED BY <1>2, <1>3, <1>4, <1>5 DEF Requests

\* An event's handler other than the one a task waits for: it waits on the wire.
LEMMA StillOnWire ==
  ASSUME Alone, NEW s \in Slot, slot[s].op # "idle", NEW event \in Event, slot[s].op # event,
         NEW t, Coming(event, t)
  PROVE  OnWire(event)
<1>1. ASSUME NEW q \in Slot, DueIn(slot[q], event, t) PROVE FALSE
  <2>1. slot[q].op = event /\ event # "idle"
    BY <1>1, EventOps DEF DueIn
  <2> QED BY <2>1 DEF Alone
<1> QED BY <1>1 DEF Coming

\* An event on a task whose merge is still to come leaves it so, and one after
\* the merge keeps it DONE, or on its way there.
LEMMA WrittenSettled ==
  ASSUME IInv, overlaps = 0, InOrder, github.pr = "merged", UNCHANGED <<wire, github>>,
         NEW s \in Slot, NEW c \in slot[s].todo \union {slot[s].copy}, EventWrite(s, c), Settled(c.id),
         NEW t, t = c.id,
         \/ Effect(slot[s].op, c) = {} /\ tasks' = tasks
         \/ \E e \in Effect(slot[s].op, c) : tasks'[t].status = e.status
  PROVE  Settled(t)'
<1> DEFINE event == slot[s].op
<1>0. /\ event \in Event /\ event # "idle" /\ c \in Copy /\ Agrees(c) /\ Alone
      /\ "merged" \in Event /\ "issue_closed" \in Event
  <2>1. event \in Event /\ c \in Copy /\ Alone
    BY EventOps DEF IInv, TypeOK, EventWrite, Handle, Shape
  <2>2. Agrees(c)
    BY EventOps DEF IInv, EventWrite, Knows, Shape
  <2> QED BY <2>1, <2>2, EventOps DEF Event, IssueEvent
<1>1. \A x \in Event : OnWire(x) => Coming(x, t)'
  BY DEF OnWire, Coming
<1>2. CASE OnWire("merged")
  BY <1>0, <1>1, <1>2 DEF Settled
<1>3. CASE ~OnWire("merged")
  <2>1. CASE event = "merged"
    <3>1. Effect(event, c) # {}
      BY <1>0, <2>1, MergeMoves
    <3>2. tasks'[t].status = "DONE"
      BY <1>0, <2>1, <3>1, EffectMoves
    <3> QED BY <3>2 DEF Settled
  <2>2. CASE event # "merged"
    <3>1. ~Coming("merged", c.id)
      BY <1>0, <1>3, <2>2, StillOnWire
    <3>2. /\ c.status # "CANCELLED"
          /\ c.status = "DONE" \/ github.issue = "reopened" \/ Coming("issue_closed", t)
      BY <1>0, <3>1 DEF Settled, Agrees
    <3>3. event \notin PrEvent
      BY <1>0, <1>3, <2>2 DEF InOrder, Behind, StillOpen, Superseded, Final
    <3>4. event # "issue_closed" /\ Coming("issue_closed", t) => Coming("issue_closed", t)'
      BY <1>0, <1>1, StillOnWire
    <3>5. CASE Effect(event, c) = {} /\ tasks' = tasks
      <4>1. tasks'[t].status = c.status
        BY <1>0, <3>5 DEF Agrees
      <4>2. event = "issue_closed" => c.status = "DONE"
        BY <1>0, <3>2, <3>5, EffectMoves DEF Closed
      <4> QED BY <3>2, <3>4, <4>1, <4>2 DEF Settled
    <3>6. ASSUME NEW e \in Effect(event, c), tasks'[t].status = e.status PROVE Settled(t)'
      <4>1. /\ e.status # "CANCELLED" /\ (event = "issue_closed" => e.status = "DONE")
            /\ event = "push" => c.status # "DONE"
        BY <1>0, EffectMoves
      <4>2. CASE event = "issue_closed"
        BY <3>6, <4>1, <4>2 DEF Settled
      <4>3. CASE event = "push"
        BY <3>2, <3>4, <3>6, <4>1, <4>3 DEF Settled
      <4>4. CASE event = "issue_reopened"
        <5>1. github.issue = "reopened" \/ OnWire("issue_closed")
          BY <4>4 DEF InOrder, Behind, StillOpen, Superseded, Final
        <5> QED BY <1>0, <1>1, <3>6, <4>1, <5>1 DEF Settled
      <4> QED BY <1>0, <3>3, <4>2, <4>3, <4>4 DEF Event, IssueEvent
    <3> QED BY <3>5, <3>6
  <2> QED BY <2>1, <2>2
<1> QED BY <1>2, <1>3

LEMMA EventSteps ==
  ASSUME IInv, overlaps = 0, InOrder, Merging, NEW s \in Slot,
         \/ \E c \in slot[s].todo : NoteNumber(s, c)
         \/ \E c \in slot[s].todo \union {slot[s].copy} : EventWrite(s, c)
         \/ EventHistory(s)
         \/ EndLoop(s) /\ slot[s].op \in Event
  PROVE  InOrder' /\ Merging'
<1> DEFINE h == slot[s]
<1>0. /\ TypeOK /\ Idle.op \notin Event /\ h \in Handle /\ Shape(h) /\ Knows(s) /\ Dated
      /\ {} \in SUBSET Task
  BY IdleIs, EventOps DEF IInv, TypeOK
<1>1. ASSUME NEW c \in h.todo, NoteNumber(s, c) PROVE InOrder' /\ Merging'
  <2> DEFINE n == [h EXCEPT !.pc = "write", !.copy = c, !.todo = h.todo \ {c}, !.told = {}]
  <2>1. /\ c.id \in Task /\ Exists(c.id) /\ h.pc = "loop"
        /\ UNCHANGED <<trail, wire, github, watched, patched>>
    BY <1>0, <1>1 DEF Knows, Agrees, NoteNumber, Handle, Copy, outside, history
  <2>2. slot' = [slot EXCEPT ![s] = n] /\ tasks' = [tasks EXCEPT ![c.id].link = "number"]
    BY <1>1, <2>1 DEF NoteNumber, Move
  <2>3. n.pc = "write" /\ n.op = h.op /\ n.copy = c /\ n.todo = h.todo \ {c}
    BY <1>0 DEF Handle
  <2> HIDE DEF n
  <2>4. \A t, event : DueIn(h, event, t) => DueIn(n, event, t)
    BY <2>1, <2>3 DEF DueIn
  <2>5. \A t \in Task : (Exists(t)' => Exists(t)) /\ (Exists(t) => tasks'[t].status = tasks[t].status)
    BY <1>0, <2>1, <2>2, LinkKeeps
  <2>6. \A t \in Task : tasks'[t].status = tasks[t].status
    BY <1>0, <2>1, <2>2, <2>5 DEF TypeOK
  <2>7. \A t \in Task \ {} : /\ tasks'[t].status = tasks[t].status /\ (Exists(t)' => Exists(t))
                            /\ \A event \in Event : DueIn(h, event, t) => DueIn(n, event, t)
    BY <2>4, <2>5, <2>6
  <2>8. github.pr = "merged" => \A t \in {} \intersect (watched \ patched) : Exists(t)' => Exists(t) /\ Settled(t)'
    OBVIOUS
  <2>9. n.op = h.op \/ n.op \notin Event
    BY <2>3
  <2> HIDE DEF h
  <2> QED BY <1>0, <2>1, <2>2, <2>7, <2>8, <2>9, EventHandler DEF h
<1>2. ASSUME EventHistory(s) PROVE InOrder' /\ Merging'
  <2>1. /\ Exists(h.copy.id) /\ h.pc = "history"
        /\ UNCHANGED <<tasks, wire, github, watched, patched>>
    BY <1>0, <1>2 DEF Knows, EventHistory, outside, history
  <2> DEFINE told == EventNotices(h.op, h.copy)
             n == [h EXCEPT !.pc = "loop", !.told = told]
  <2>2. slot' = [slot EXCEPT ![s] = n]
    BY <1>2, <2>1 DEF EventHistory, Moved, Move
  <2> HIDE DEF told
  <2>3. n.pc = "loop" /\ n.op = h.op /\ n.todo = h.todo
    BY <1>0 DEF Handle
  <2> HIDE DEF n
  <2>4. \A t, event : DueIn(h, event, t) => DueIn(n, event, t)
    BY <2>1, <2>3 DEF DueIn
  <2> HIDE DEF h
  <2> QED BY <1>0, <2>1, <2>2, <2>3, <2>4, EventHandler DEF Exists, h
<1>3. ASSUME EndLoop(s) PROVE InOrder' /\ Merging'
  <2>1. /\ slot' = [slot EXCEPT ![s] = Idle] /\ h.pc = "loop" /\ h.todo = {}
        /\ UNCHANGED <<tasks, wire, github, watched, patched>>
    BY <1>3 DEF EndLoop, End, Move, rows, outside, history
  <2>2. \A t, event : ~DueIn(h, event, t)
    BY <2>1 DEF DueIn
  <2> HIDE DEF h
  <2> QED BY <1>0, <2>1, <2>2, EventHandler DEF Exists, h
<1>4. ASSUME NEW c \in h.todo \union {h.copy}, EventWrite(s, c) PROVE InOrder' /\ Merging'
  <2>1. UNCHANGED <<wire, github, watched, patched>>
    BY <1>4 DEF EventWrite, outside, history
  <2>2. /\ c \in Copy /\ c.id \in Task /\ Exists(c.id) /\ h.op \in Event
        /\ (h.pc = "write" /\ c = h.copy) \/ (h.pc = "loop" /\ c \in h.todo)
    <3>1. h.op \in Event /\ c \in Copy /\ ((h.pc = "write" /\ c = h.copy) \/ (h.pc = "loop" /\ c \in h.todo))
      <4>1. h.op \in Event => (h.pc # "loop" => h.copy \in Copy)
        BY <1>0 DEF Shape
      <4>2. h.todo \subseteq Copy
        BY <1>0 DEF Handle
      <4>3. h.op \in Event /\ ((h.pc = "write" /\ c = h.copy) \/ (h.pc = "loop" /\ c \in h.todo))
        BY <1>4 DEF EventWrite
      <4> HIDE DEF h
      <4>4. h.pc = "write" => h.pc # "loop"
        OBVIOUS
      <4> QED BY <4>1, <4>2, <4>3, <4>4
    <3> QED BY <1>0, <3>1 DEF Knows, Agrees, Copy
  <2>3. PICK n : /\ slot' = [slot EXCEPT ![s] = n] /\ n.op = h.op /\ n.todo = h.todo \ {c}
                 /\ \/ Effect(h.op, c) = {} /\ tasks' = tasks
                    \/ \E e \in Effect(h.op, c) :
                         tasks' = [tasks EXCEPT ![c.id].status = e.status,
                                                ![c.id].done = IF e.done = Same THEN @ ELSE e.done]
    <3> DEFINE next == [h EXCEPT !.copy = c, !.todo = h.todo \ {c}, !.told = {}]
               told == EventNotices(h.op, c)
               a == [next EXCEPT !.pc = "loop", !.told = told]
               b == [next EXCEPT !.pc = "history"]
    <3>1. \/ Effect(h.op, c) = {} /\ tasks' = tasks /\ slot' = [slot EXCEPT ![s] = a]
          \/ /\ slot' = [slot EXCEPT ![s] = b]
             /\ \E e \in Effect(h.op, c) :
                  tasks' = [tasks EXCEPT ![c.id].status = e.status,
                                         ![c.id].done = IF e.done = Same THEN @ ELSE e.done]
      BY <1>4, <2>2 DEF EventWrite, Move
    <3> HIDE DEF told
    <3>2. a.op = h.op /\ a.todo = h.todo \ {c} /\ b.op = h.op /\ b.todo = h.todo \ {c}
      BY <1>0 DEF Handle
    <3> HIDE DEF a, b
    <3> QED BY <3>1, <3>2
  <2>4. \A t \in Task \ {c.id} : tasks'[t] = tasks[t]
    BY <1>0, <2>2, <2>3 DEF TypeOK
  <2>5. \/ Effect(h.op, c) = {} /\ tasks' = tasks
        \/ \E e \in Effect(h.op, c) : tasks'[c.id].status = e.status
    <3>1. tasks[c.id] \in Row
      BY <1>0, <2>2, RowIs
    <3>2. ASSUME NEW e, tasks' = [tasks EXCEPT ![c.id].status = e.status,
                                               ![c.id].done = IF e.done = Same THEN @ ELSE e.done]
          PROVE  tasks'[c.id].status = e.status
      <4> DEFINE done == IF e.done = Same THEN tasks[c.id].done ELSE e.done
                 row == [[tasks[c.id] EXCEPT !.status = e.status] EXCEPT !.done = done]
      <4>1. tasks'[c.id] = row
        BY <1>0, <2>2, <3>2 DEF TypeOK
      <4> HIDE DEF done
      <4> QED BY <3>1, <4>1 DEF Row
    <3> QED BY <2>3, <3>2
  <2>6. \A t \in Task \ {c.id} : \A event \in Event : DueIn(h, event, t) => DueIn(n, event, t)
    BY <2>2, <2>3 DEF DueIn
  <2>7. ASSUME github.pr = "merged", NEW t \in {c.id} \intersect (watched \ patched)
        PROVE  Settled(t)'
    BY <1>4, <2>1, <2>2, <2>5, <2>7, WrittenSettled DEF Merging
  <2> HIDE DEF h
  <2>8. {c.id} \in SUBSET Task
    BY <2>2
  <2>9. \A t \in Task \ {c.id} : /\ tasks'[t].status = tasks[t].status /\ (Exists(t)' => Exists(t))
                                /\ \A event \in Event : DueIn(h, event, t) => DueIn(n, event, t)
    BY <2>4, <2>6 DEF Exists
  <2>10. github.pr = "merged" =>
           \A t \in {c.id} \intersect (watched \ patched) : Exists(t)' => Exists(t) /\ Settled(t)'
    BY <2>2, <2>7
  <2>11. n.op = h.op \/ n.op \notin Event
    BY <2>3
  <2>12. slot' = [slot EXCEPT ![s] = n]
    BY <2>3
  <2> QED BY <1>0, <2>1, <2>8, <2>9, <2>10, <2>11, <2>12, EventHandler DEF h
<1> QED BY <1>1, <1>2, <1>3, <1>4

\* The first delivery: what followed it on the wire still does, and the tasks
\* that waited for it are among those its handler has to move.
LEMMA NextDelivery ==
  ASSUME IInv, Watching, InOrder, Merging, Quiet, NEW s \in Slot, Len(wire) >= 1, Receive(s, 1, FALSE)
  PROVE  InOrder' /\ Merging'
<1> DEFINE h == [Idle EXCEPT !.op = wire[1], !.pc = "loop", !.todo = Linked]
           n == Len(wire)
<1>0. TypeOK /\ wire \in Seq(Event) /\ wire[1] \in Event /\ n \in Nat /\ n >= 1
  BY DEF IInv, TypeOK
<1>1. /\ slot' = [slot EXCEPT ![s] = h] /\ wire' = RemoveAt(wire, 1)
      /\ UNCHANGED <<tasks, github, watched, patched>>
  BY DEF Receive, Start, rows
<1>2. h.op = wire[1] /\ h.pc = "loop" /\ h.todo = Linked
  BY DEF Idle
<1>3. Len(wire') = n - 1 /\ \A i \in 1 .. (n - 1) : wire'[i] = wire[i + 1]
  BY <1>0, <1>1, FirstTaken
<1> HIDE DEF h
<1>4. slot'[s].op = wire[1] /\ \A q \in Slot \ {s} : slot'[q].op = "idle"
  BY <1>0, <1>1, <1>2 DEF TypeOK, Quiet
<1>5. ASSUME NEW event, NEW j \in 2 .. n, wire[j] = event PROVE OnWire(event)'
  <2>1. j - 1 \in 1 .. (n - 1) /\ (j - 1) + 1 = j
    BY <1>0
  <2>2. wire'[j - 1] = event /\ j - 1 \in 1 .. Len(wire')
    BY <1>0, <1>3, <1>5, <2>1
  <2> QED BY <2>2 DEF OnWire
<1>6. ASSUME NEW k \in {"pr", "issue"}, Behind(k) PROVE Behind(k)'
  <2>1. StillOpen(k)' = StillOpen(k)
    BY <1>1 DEF StillOpen
  <2>2. CASE StillOpen(k)
    BY <2>1, <2>2 DEF Behind
  <2>3. CASE ~StillOpen(k)
    <3>1. \A i \in 1 .. n : wire[i] \in Superseded(k) => \E j \in (i + 1) .. n : wire[j] = Final(k)
      BY <1>6, <2>3 DEF Behind
    <3>2. ASSUME NEW i \in 1 .. (n - 1), wire'[i] \in Superseded(k)
          PROVE  \E j \in (i + 1) .. (n - 1) : wire'[j] = Final(k)
      <4>1. i + 1 \in 1 .. n /\ wire[i + 1] \in Superseded(k)
        BY <1>0, <1>3, <3>2
      <4>2. PICK j \in ((i + 1) + 1) .. n : wire[j] = Final(k)
        BY <3>1, <4>1
      <4>3. j - 1 \in (i + 1) .. (n - 1) /\ j - 1 \in 1 .. (n - 1) /\ (j - 1) + 1 = j
        BY <1>0, <4>2
      <4> QED BY <1>3, <4>2, <4>3
    <3>3. ASSUME wire[1] \in Superseded(k) PROVE OnWire(Final(k))'
      <4>1. PICK j \in (1 + 1) .. n : wire[j] = Final(k)
        BY <1>0, <3>1, <3>3
      <4> QED BY <1>5, <4>1
    <3>4. \A q \in Slot : slot'[q].op \in Superseded(k) => OnWire(Final(k))'
      BY <1>4, <3>3, SubjectsAre
    <3>5. Superseded(k)' = Superseded(k) /\ Final(k)' = Final(k)
      BY DEF Superseded, Final
    <3> QED BY <1>0, <1>3, <3>2, <3>4, <3>5 DEF Behind
  <2> QED BY <2>2, <2>3
<1>7. ASSUME NEW t \in watched, Exists(t), NEW event \in Event, Coming(event, t) PROVE Coming(event, t)'
  <2>1. PICK j \in 1 .. n : wire[j] = event
    BY <1>7, EventOps DEF Coming, OnWire, DueIn, Quiet
  <2>2. CASE j = 1
    <3>1. t \in Task /\ tasks[t] \in Row /\ tasks[t].link # "none"
      BY <1>0, <1>7, RowIs DEF TypeOK, Watching
    <3>2. CopyOf(t, tasks[t]) \in Linked /\ CopyOf(t, tasks[t]).id = t
      BY <1>7, <3>1, CopyIs DEF Linked
    <3>3. DueIn(slot'[s], event, t)
      BY <1>0, <1>1, <1>2, <2>1, <2>2, <3>2 DEF DueIn, TypeOK
    <3>4. DueIn(slot[s], event, t)'
      BY <3>3 DEF DueIn
    <3> QED BY <3>4 DEF Coming
  <2>3. CASE j # 1
    BY <1>5, <2>1, <2>3 DEF Coming
  <2> QED BY <2>2, <2>3
<1>8. "merged" \in Event /\ "issue_closed" \in Event
  BY DEF Event, PrEvent, IssueEvent
<1>9. ASSUME NEW t \in watched, Exists(t), Settled(t) PROVE Settled(t)'
  BY <1>1, <1>7, <1>8, <1>9 DEF Settled
<1>10. InOrder'
  BY <1>6 DEF InOrder
<1>11. Merging'
  BY <1>1, <1>9 DEF Merging, Exists
<1> QED BY <1>10, <1>11

\* What happens at GitHub is told last: a merge after all that came before it,
\* and after it nothing more of the pull request.
LEMMA GitHubOrder ==
  ASSUME IInv, InOrder, Merging, GitHub
  PROVE  InOrder' /\ Merging'
<1> DEFINE n == Len(wire)
<1>0. TypeOK /\ wire \in Seq(Event) /\ n \in Nat
  BY DEF IInv, TypeOK
<1>1. PICK event \in Event :
        /\ wire' = Append(wire, event) /\ UNCHANGED <<tasks, slot, watched, patched>>
        /\ \/ event \in PrEvent /\ event # "merged" /\ github.pr # "merged" /\ github'.pr # "merged" /\ github'.issue = github.issue
           \/ event = "merged" /\ github'.pr = "merged" /\ github'.issue = github.issue
           \/ event = "issue_closed" /\ github'.issue = "closed" /\ github'.pr = github.pr
           \/ event = "issue_reopened" /\ github'.issue = "reopened" /\ github'.pr = github.pr
           \/ event = "push" /\ github' = github
  <2>1. ASSUME NEW event \in Event, Emit(event)
        PROVE  wire' = Append(wire, event) /\ UNCHANGED <<tasks, slot, watched, patched>>
    BY <2>1 DEF Emit, rows, history
  <2>2. github \in [pr : {"none", "open", "closed", "merged"}, issue : {"open", "closed", "reopened"}]
    BY <1>0 DEF TypeOK
  <2>3. \A from, to, event : PullRequest(from, to, event) =>
          github.pr = from /\ github'.pr = to /\ github'.issue = github.issue /\ Emit(event)
    BY <2>2 DEF PullRequest
  <2>4. \A from, to, event : Issue(from, to, event) =>
          github'.issue = to /\ github'.pr = github.pr /\ Emit(event)
    BY <2>2 DEF Issue
  <2>5. /\ {"opened", "merged", "closed", "reopened"} = PrEvent
        /\ PrEvent \subseteq Event /\ {"issue_closed", "issue_reopened", "push"} \subseteq Event
    BY DEF Event, PrEvent, IssueEvent
  <2>6. CASE PullRequest("none", "open", "opened")
    BY <2>1, <2>3, <2>5, <2>6
  <2>7. CASE PullRequest("open", "closed", "closed")
    BY <2>1, <2>3, <2>5, <2>7
  <2>8. CASE PullRequest("closed", "open", "reopened")
    BY <2>1, <2>3, <2>5, <2>8
  <2>9. CASE PullRequest("open", "merged", "merged")
    BY <2>1, <2>3, <2>5, <2>9
  <2>10. CASE Issue({"open", "reopened"}, "closed", "issue_closed")
    BY <2>1, <2>4, <2>5, <2>10
  <2>11. CASE Issue({"closed"}, "reopened", "issue_reopened")
    BY <2>1, <2>4, <2>5, <2>11
  <2>12. CASE Emit("push") /\ UNCHANGED github
    BY <2>1, <2>5, <2>12
  <2> QED BY <2>6, <2>7, <2>8, <2>9, <2>10, <2>11, <2>12 DEF GitHub
<1>2. Len(wire') = n + 1 /\ wire'[n + 1] = event /\ \A i \in 1 .. n : wire'[i] = wire[i]
  BY <1>0, <1>1
<1>3. OnWire(event)' /\ \A x : OnWire(x) => OnWire(x)'
  BY <1>0, <1>2 DEF OnWire
<1>4. \A x, t : Coming(x, t) => Coming(x, t)'
  BY <1>1, <1>3 DEF Coming, DueIn
<1>5. ASSUME NEW k \in {"pr", "issue"}, Behind(k) PROVE Behind(k)'
  <2>0. Superseded(k)' = Superseded(k) /\ Final(k)' = Final(k)
    BY DEF Superseded, Final
  <2>1. CASE StillOpen(k)'
    BY <2>1 DEF Behind
  <2>2. CASE event = Final(k)
    <3>1. ASSUME NEW i \in 1 .. (n + 1), wire'[i] \in Superseded(k)
          PROVE  \E j \in (i + 1) .. (n + 1) : wire'[j] = Final(k)
      <4>1. i # n + 1
        BY <1>2, <2>2, <3>1, SubjectsAre
      <4>2. n + 1 \in (i + 1) .. (n + 1)
        BY <1>0, <4>1
      <4> QED BY <1>2, <2>2, <4>2
    <3> QED BY <1>2, <1>3, <2>0, <2>2, <3>1 DEF Behind
  <2>3. CASE ~StillOpen(k) /\ event \notin Superseded(k)
    <3>1. \A i \in 1 .. n : wire[i] \in Superseded(k) => \E j \in (i + 1) .. n : wire[j] = Final(k)
      BY <1>5, <2>3 DEF Behind
    <3>2. ASSUME NEW i \in 1 .. (n + 1), wire'[i] \in Superseded(k)
          PROVE  \E j \in (i + 1) .. (n + 1) : wire'[j] = Final(k)
      <4>1. i \in 1 .. n /\ wire[i] \in Superseded(k)
        BY <1>0, <1>2, <2>3, <3>2
      <4>2. PICK j \in (i + 1) .. n : wire[j] = Final(k)
        BY <3>1, <4>1
      <4>3. j \in (i + 1) .. (n + 1) /\ j \in 1 .. n
        BY <1>0, <4>2
      <4> QED BY <1>2, <4>2, <4>3
    <3>3. \A q \in Slot : slot'[q].op \in Superseded(k) => OnWire(Final(k))'
      BY <1>1, <1>3, <1>5, <2>3 DEF Behind
    <3> QED BY <1>2, <2>0, <3>2, <3>3 DEF Behind
  <2>4. StillOpen(k)' \/ event = Final(k) \/ (~StillOpen(k) /\ event \notin Superseded(k))
    BY <1>1 DEF StillOpen, Final, Superseded, PrEvent
  <2> QED BY <2>1, <2>2, <2>3, <2>4
<1>6. InOrder'
  BY <1>5 DEF InOrder
<1>7. ASSUME NEW t, Settled(t) PROVE Settled(t)'
  <2>1. Coming(event, t)' /\ tasks'[t].status = tasks[t].status
    BY <1>1, <1>3 DEF Coming
  <2>2. github.issue = "reopened" => github'.issue = "reopened" \/ event = "issue_closed"
    BY <1>1
  <2> QED BY <1>4, <1>7, <2>1, <2>2 DEF Settled
<1>8. github'.pr = "merged" => github.pr = "merged" \/ OnWire("merged")'
  BY <1>1, <1>3
<1>9. Merging'
  <2> SUFFICES ASSUME github'.pr = "merged", NEW t \in watched \ patched, Exists(t) PROVE Settled(t)'
    BY <1>1 DEF Merging, Exists
  <2> QED BY <1>7, <1>8 DEF Merging, Settled, Coming
<1> QED BY <1>6, <1>9

\* A link, once made, stays: the other steps write other columns.
LEMMA LinksStay ==
  ASSUME IInv, [Next]_vars, NEW t \in Task
  PROVE  /\ tasks[t] # Unused => tasks'[t] # Unused
         /\ tasks[t] # Unused /\ Exists(t)' => Exists(t) /\ (tasks[t].link # "none" => tasks'[t].link # "none")
<1> DEFINE Kept == /\ tasks[t] # Unused => tasks'[t] # Unused
                   /\ tasks[t] # Unused /\ Exists(t)' =>
                        Exists(t) /\ (tasks[t].link # "none" => tasks'[t].link # "none")
<1>0. TypeOK /\ Removed # Unused
  BY TaskAssumption DEF IInv
<1>1. ASSUME tasks'[t] = tasks[t] PROVE Kept
  BY <1>1 DEF Exists
<1>2. ASSUME tasks'[t] = Removed PROVE Kept
  BY <1>0, <1>2 DEF Exists
<1>3. ASSUME Exists(t), NEW row \in Row, tasks'[t] = row, row.link = tasks[t].link \/ row.link # "none"
      PROVE  Kept
  BY <1>3, RowIs DEF Exists
<1>4. ASSUME NEW x \in Task, Exists(x), NEW link \in {"branch", "number"}, tasks' = [tasks EXCEPT ![x].link = link]
      PROVE  Kept
  <2>1. CASE x = t
    <3>1. tasks[t] \in Row /\ tasks'[t] = [tasks[t] EXCEPT !.link = link]
      BY <1>0, <1>4, <2>1, RowIs DEF TypeOK
    <3> DEFINE row == [tasks[t] EXCEPT !.link = link]
    <3>2. row \in Row /\ row.link = link
      BY <3>1 DEF Row
    <3> HIDE DEF row
    <3> QED BY <1>3, <1>4, <2>1, <3>1, <3>2 DEF row
  <2>2. CASE x # t
    BY <1>0, <1>1, <1>4, <2>2 DEF TypeOK
  <2> QED BY <2>1, <2>2
<1> HIDE DEF Kept
<1>5. ASSUME NEW s \in Slot, Handler(s) PROVE Kept
  <2>0. slot[s] \in Handle /\ Shape(slot[s])
    BY DEF IInv, TypeOK
  <2>1. CASE CreateNotify(s) \/ UpdateHistory(s) \/ Sent(s) \/ EventHistory(s) \/ EndLoop(s) \/ \E c \in slot[s].todo : DueNotify(s, c)
    BY <1>1, <2>1 DEF CreateNotify, UpdateHistory, Sent, EventHistory, EndLoop, DueNotify, rows
  <2>2. CASE UpdateWrite(s)
    <3> DEFINE h == slot[s]
               x == h.copy.id
               status == IF h.patch.status = Same THEN tasks[x].status ELSE h.patch.status
               assignee == IF h.patch.assignee = Same THEN tasks[x].assignee ELSE h.patch.assignee
               row == [[tasks[x] EXCEPT !.status = status] EXCEPT !.assignee = assignee]
    <3>1. x \in Task /\ h.patch \in Patch
      BY <2>0, <2>2, TaskAssumption DEF UpdateWrite, Shape, Copy
    <3>2. tasks' = tasks \/ (Exists(x) /\ tasks' = [tasks EXCEPT ![x] = row])
      BY <2>2 DEF UpdateWrite
    <3>3. CASE tasks' = tasks \/ x # t
      BY <1>0, <1>1, <3>2, <3>3 DEF TypeOK
    <3>4. CASE Exists(x) /\ tasks' = [tasks EXCEPT ![x] = row] /\ x = t
      <4>1. tasks[x] \in Row
        BY <1>0, <3>1, <3>4, RowIs
      <4>2. row \in Row /\ row.link = tasks[x].link
        BY <3>1, <4>1 DEF Row, Patch
      <4> HIDE DEF row
      <4>3. tasks'[t] = row
        BY <1>0, <3>4 DEF TypeOK
      <4> QED BY <1>3, <3>4, <4>2, <4>3
    <3> QED BY <3>2, <3>3, <3>4
  <2>3. CASE RemoveWrite(s)
    <3>1. tasks'[t] = tasks[t] \/ tasks'[t] = Removed
      BY <1>0, <2>3 DEF RemoveWrite, TypeOK
    <3> QED BY <1>1, <1>2, <3>1
  <2>4. ASSUME NEW c \in slot[s].todo, NoteNumber(s, c) PROVE Kept
    <3>1. c.id \in Task
      BY <2>0 DEF Handle, Copy
    <3>2. tasks' = tasks \/ (Exists(c.id) /\ tasks' = [tasks EXCEPT ![c.id].link = "number"])
      BY <2>4 DEF NoteNumber
    <3> QED BY <1>1, <1>4, <3>1, <3>2
  <2>5. ASSUME NEW c \in slot[s].todo \union {slot[s].copy}, EventWrite(s, c) PROVE Kept
    <3>1. slot[s].op \in Event /\ c \in Copy /\ c.id \in Task
      BY <2>0, <2>5, EventOps DEF EventWrite, Handle, Copy, Shape
    <3>2. \/ tasks' = tasks
          \/ \E e \in Effect(slot[s].op, c) :
               /\ Exists(c.id)
               /\ tasks' = [tasks EXCEPT ![c.id].status = e.status,
                                         ![c.id].done = IF e.done = Same THEN @ ELSE e.done]
      BY <2>5 DEF EventWrite
    <3>3. ASSUME NEW e \in Effect(slot[s].op, c), Exists(c.id),
                 tasks' = [tasks EXCEPT ![c.id].status = e.status,
                                        ![c.id].done = IF e.done = Same THEN @ ELSE e.done]
          PROVE  Kept
      <4> DEFINE done == IF e.done = Same THEN tasks[c.id].done ELSE e.done
                 row == [[tasks[c.id] EXCEPT !.status = e.status] EXCEPT !.done = done]
      <4>1. tasks[c.id] \in Row
        BY <1>0, <3>1, <3>3, RowIs
      <4>2. e.status \in Status /\ e.done \in {TRUE, FALSE, Same}
        BY <3>1, EffectIs
      <4>3. done \in BOOLEAN
        BY <4>1, <4>2 DEF Row
      <4>4. tasks' = [tasks EXCEPT ![c.id] = row]
        BY <1>0, <3>1, <3>3 DEF TypeOK
      <4> HIDE DEF done
      <4>5. row \in Row /\ row.link = tasks[c.id].link
        BY <4>1, <4>2, <4>3 DEF Row
      <4> HIDE DEF row
      <4>6. CASE c.id = t
        BY <1>0, <1>3, <3>3, <4>4, <4>5, <4>6 DEF TypeOK
      <4>7. CASE c.id # t
        BY <1>0, <1>1, <4>4, <4>7 DEF TypeOK
      <4> QED BY <4>6, <4>7
    <3> QED BY <1>1, <3>2, <3>3
  <2> QED BY <1>5, <2>1, <2>2, <2>3, <2>4, <2>5 DEF Handler
<1>6. ASSUME NEW s \in Slot, Requests(s) PROVE Kept
  <2>1. ASSUME NEW u \in User, NEW x \in Task, NEW body \in Bodies, Create(s, u, x, body) PROVE Kept
    <3>1. tasks[t] = Unused \/ tasks'[t] = tasks[t]
      BY <1>0, <2>1 DEF Create, TypeOK
    <3> QED BY <1>1, <3>1 DEF Kept
  <2>2. CASE StartDueJob(s) \/ \E u \in User, x \in Task :
                                 (\E patch \in Patches : UpdateRead(s, u, x, patch)) \/ RemoveRead(s, u, x)
    BY <1>1, <2>2 DEF StartDueJob, UpdateRead, RemoveRead, rows
  <2> QED BY <1>6, <2>1, <2>2 DEF Requests
<1>7. ASSUME NEW s \in Slot, Deliveries(s) PROVE Kept
  BY <1>1, <1>7 DEF Deliveries, Receive, rows
<1>8. ASSUME NEW x \in Task, LinkTaskToGithub(x) PROVE Kept
  BY <1>4, <1>8 DEF LinkTaskToGithub
<1>9. ASSUME GitHub PROVE Kept
  <2>1. tasks' = tasks
    BY <1>9 DEF GitHub, PullRequest, Issue, Emit, rows
  <2> QED BY <1>1, <2>1
<1>10. ASSUME UNCHANGED vars PROVE Kept
  <2>1. tasks' = tasks
    BY <1>10 DEF vars
  <2> QED BY <1>1, <2>1
<1>11. Kept
  BY <1>5, <1>6, <1>7, <1>8, <1>9, <1>10 DEF Next
<1> QED BY <1>11 DEF Kept

LEMMA WatchingStep ==
  ASSUME IInv, Watching, [Next]_vars
  PROVE  Watching'
<1>0. TypeOK /\ events \in Nat
  BY DEF IInv, TypeOK
<1>1. ASSUME NEW t \in watched
      PROVE  tasks'[t] # Unused /\ (Exists(t)' => tasks'[t].link # "none")
  <2>1. t \in Task /\ tasks[t] # Unused /\ (Exists(t) => tasks[t].link # "none")
    BY <1>0 DEF TypeOK, Watching
  <2> QED BY <2>1, LinksStay
<1>2. \/ watched' = watched /\ (UNCHANGED <<events, github>> \/ events' = events + 1)
      \/ \E t \in Task : LinkTaskToGithub(t)
  <2>1. ASSUME NEW s \in Slot, Handler(s) PROVE UNCHANGED <<watched, events, github>>
    BY <2>1 DEF Handler, CreateNotify, UpdateWrite, UpdateHistory, RemoveWrite, Sent, NoteNumber, DueNotify,
                EventWrite, EventHistory, EndLoop, outside, history
  <2>2. ASSUME NEW s \in Slot, Requests(s) PROVE UNCHANGED <<watched, events, github>>
    BY <2>2 DEF Requests, Create, UpdateRead, RemoveRead, StartDueJob, outside, history
  <2>3. ASSUME NEW s \in Slot, Deliveries(s) PROVE UNCHANGED <<watched, events, github>>
    BY <2>3 DEF Deliveries, Receive
  <2>4. CASE GitHub
    BY <2>4 DEF GitHub, PullRequest, Issue, Emit, history
  <2>5. CASE UNCHANGED vars
    BY <2>5 DEF vars
  <2> QED BY <2>1, <2>2, <2>3, <2>4, <2>5 DEF Next
<1>3. CASE watched' = watched /\ (UNCHANGED <<events, github>> \/ events' = events + 1)
  BY <1>0, <1>1, <1>3 DEF Watching, Exists
<1>4. ASSUME NEW x \in Task, LinkTaskToGithub(x) PROVE Watching'
  <2>1. /\ Exists(x) /\ tasks' = [tasks EXCEPT ![x].link = "branch"]
        /\ UNCHANGED <<trail, events, github>> /\ watched' \subseteq watched \union {x}
    BY <1>4 DEF LinkTaskToGithub, outside
  <2>2. Exists(x)' /\ tasks[x] \in Row
    BY <1>0, <2>1, LinkKeeps, RowIs
  <2>3. tasks'[x].link = "branch"
    BY <1>0, <2>1, <2>2 DEF TypeOK, Row
  <2>4. \A t \in watched' : tasks'[t] # Unused /\ (Exists(t)' => tasks'[t].link # "none")
    BY <1>1, <2>1, <2>2, <2>3 DEF Exists
  <2> QED BY <2>1, <2>4 DEF Watching, Exists
<1> QED BY <1>2, <1>3, <1>4

\* A link made before GitHub's first event is made before the merge.
LEMMA LinkOrder ==
  ASSUME IInv, Watching, InOrder, Merging, NEW x \in Task, LinkTaskToGithub(x)
  PROVE  InOrder' /\ Merging'
<1>0. TypeOK /\ watched \subseteq Task
  BY DEF IInv, TypeOK
<1>1. /\ Exists(x) /\ tasks' = [tasks EXCEPT ![x].link = "branch"]
      /\ UNCHANGED <<trail, slot, wire, github, patched>>
      /\ github.pr = "merged" => watched' = watched
  BY DEF LinkTaskToGithub, outside, Watching
<1>2. /\ \A t \in Task : Exists(t)' <=> Exists(t)
      /\ \A t \in Task : Exists(t) => tasks'[t].status = tasks[t].status
  BY <1>0, <1>1, LinkKeeps
<1>3. \A q \in Slot, event \in Event, t \in Task : DueIn(slot[q], event, t) => DueIn(slot'[q], event, t)
  BY <1>1
<1>4. \A q \in Slot : slot'[q].op = slot[q].op \/ slot'[q].op \notin Event
  BY <1>1
<1>5. github.pr = "merged" =>
        \A t \in watched' \ patched' : Exists(t)' =>
          /\ t \in watched \ patched /\ Exists(t)
          /\ \/ /\ tasks'[t].status = tasks[t].status
                /\ \A q \in Slot, event \in Event :
                     DueIn(slot[q], event, t) => DueIn(slot'[q], event, t)
             \/ Settled(t)'
  BY <1>0, <1>1, <1>2, <1>3
<1> QED BY <1>1, <1>4, <1>5, Steady

LEMMA MergeStep ==
  ASSUME IInv, MergeInv, [Next]_vars
  PROVE  MergeInv'
<1>1. Watching'
  BY WatchingStep DEF MergeInv
<1>2. ASSUME overlaps' = 0, disorder' = 0
      PROVE  InOrder' /\ Merging'
  <2>0. overlaps \in Nat /\ disorder \in Nat /\ overlaps + 1 # 0 /\ disorder + 1 # 0
    BY DEF IInv, TypeOK
  <2>1. ASSUME overlaps = 0, disorder = 0 PROVE Watching /\ InOrder /\ Merging
    BY <2>1 DEF MergeInv
  <2>2. ASSUME NEW s \in Slot, Handler(s) PROVE InOrder' /\ Merging'
    <3>1. overlaps = 0 /\ disorder = 0
      BY <1>2, <2>2 DEF Handler, CreateNotify, UpdateWrite, UpdateHistory, RemoveWrite, Sent, NoteNumber,
                        DueNotify, EventWrite, EventHistory, EndLoop, history, End, Moved, Move
    <3>2. CASE \/ CreateNotify(s) \/ UpdateWrite(s) \/ UpdateHistory(s) \/ RemoveWrite(s) \/ Sent(s)
               \/ \E c \in slot[s].todo : DueNotify(s, c)
               \/ EndLoop(s) /\ slot[s].op \notin Event
      BY <2>1, <3>1, <3>2, OwnSteps
    <3>3. CASE \/ \E c \in slot[s].todo : NoteNumber(s, c)
               \/ \E c \in slot[s].todo \union {slot[s].copy} : EventWrite(s, c)
               \/ EventHistory(s)
               \/ EndLoop(s) /\ slot[s].op \in Event
      BY <2>1, <3>1, <3>3, EventSteps
    <3> QED BY <2>2, <3>2, <3>3 DEF Handler
  <2>3. ASSUME NEW s \in Slot, Requests(s) PROVE InOrder' /\ Merging'
    <3>1. overlaps = 0 /\ disorder = 0
      BY <1>2, <2>0, <2>3 DEF Requests, Create, UpdateRead, RemoveRead, StartDueJob, Start, history
    <3> QED BY <2>1, <2>3, <3>1, OtherStarts
  <2>4. ASSUME NEW s \in Slot, NEW i \in 1 .. Len(wire), NEW again \in BOOLEAN, Receive(s, i, again)
        PROVE  InOrder' /\ Merging'
    <3>1. overlaps = 0 /\ Quiet
      BY <1>2, <2>0, <2>4 DEF Receive, Start
    <3>2. disorder = 0 /\ i = 1 /\ again = FALSE
      BY <1>2, <2>0, <2>4 DEF Receive
    <3>3. Receive(s, 1, FALSE)
      BY <2>4, <3>2
    <3>4. Len(wire) >= 1
      BY <3>2 DEF IInv, TypeOK
    <3> QED BY <2>1, <3>1, <3>2, <3>3, <3>4, NextDelivery
  <2>5. ASSUME NEW x \in Task, LinkTaskToGithub(x) PROVE InOrder' /\ Merging'
    <3>1. overlaps = 0 /\ disorder = 0
      BY <1>2, <2>5 DEF LinkTaskToGithub
    <3> QED BY <2>1, <2>5, <3>1, LinkOrder
  <2>6. CASE GitHub
    <3>1. overlaps = 0 /\ disorder = 0
      BY <1>2, <2>6 DEF GitHub, PullRequest, Issue, Emit, history
    <3> QED BY <2>1, <2>6, <3>1, GitHubOrder
  <2>7. CASE UNCHANGED vars
    <3>1. overlaps = 0 /\ disorder = 0
      BY <1>2, <2>7 DEF vars
    <3>2. InOrder /\ Merging
      BY <2>1, <3>1
    <3>3. UNCHANGED <<tasks, slot, github, wire, patched, watched>>
      BY <2>7 DEF vars
    <3>4. InOrder' <=> InOrder
      BY <3>3 DEF InOrder, Behind, StillOpen, OnWire, Superseded, Final
    <3>5. Merging' <=> Merging
      BY <3>3 DEF Merging, Settled, Coming, OnWire, DueIn, Exists
    <3> QED BY <3>2, <3>4, <3>5
  <2> QED BY <2>2, <2>3, <2>4, <2>5, <2>6, <2>7 DEF Next, Deliveries
<1> QED BY <1>1, <1>2 DEF MergeInv

LEMMA InitMerge == Init => MergeInv
<1> SUFFICES ASSUME Init PROVE MergeInv
  OBVIOUS
<1>1. wire = <<>> /\ watched = {} /\ github.pr # "merged" /\ \A s \in Slot : slot[s] = Idle
  BY DEF Init
<1>2. \A k \in {"pr", "issue"} : Behind(k)
  BY <1>1, IdleIs, SubjectsAre DEF Behind
<1> QED BY <1>1, <1>2 DEF MergeInv, Watching, InOrder, Merging

\* Once all is delivered, in order and to one handler at a time, a merge has
\* left every task linked from the start DONE, unless the issue was reopened
\* or a user moved the task (github-webhook.service.ts:189-328).
THEOREM MergedEndsDoneAlways == Spec => []MergedEndsDone
<1>1. IInv /\ MergeInv /\ [Next]_vars => MergeInv'
  BY MergeStep
<1>2. IInv /\ MergeInv => MergedEndsDone
  <2> SUFFICES ASSUME IInv, MergeInv, Quiet, overlaps = 0, disorder = 0, wire = <<>>,
                      github = [pr |-> "merged", issue |-> github.issue], github.issue # "reopened",
                      NEW t \in watched \ patched, Exists(t)
               PROVE  tasks[t].status = "DONE"
    BY DEF MergedEndsDone
  <2>1. Merging /\ github.pr = "merged"
    BY DEF MergeInv
  <2>2. \A event \in Event : ~Coming(event, t)
    BY EventOps DEF Coming, OnWire, DueIn, Quiet
  <2>3. "merged" \in Event /\ "issue_closed" \in Event
    BY DEF Event, PrEvent, IssueEvent
  <2> QED BY <2>1, <2>2, <2>3 DEF Merging, Settled
<1> QED BY <1>1, <1>2, InitMerge, Invariant, PTL DEF Spec

-----------------------------------------------------------------------------
(* What is left of CompletedCounts: only a user completes a task undated.     *)

Counts(t) == Exists(t) /\ tasks[t].status = "DONE" => tasks[t].done
\* A user may create a task DONE, or patch one to it.
UsersComplete == \E asked \in Bodies \union Patches : asked.status = "DONE"

\* A delivery dates what it makes DONE, also when it moves a task from a copy that
\* is no longer true.
LEMMA EventCounts ==
  ASSUME IInv, NEW s \in Slot, NEW c \in slot[s].todo \union {slot[s].copy}, EventWrite(s, c),
         NEW t \in Task, Counts(t)
  PROVE  Counts(t)'
<1>1. TypeOK /\ slot[s].op \in Event /\ c \in Copy /\ c.id \in Task
  BY EventOps DEF IInv, TypeOK, EventWrite, Handle, Copy, Shape
<1>2. CASE Effect(slot[s].op, c) = {} \/ tasks' = tasks
  BY <1>2 DEF EventWrite, Counts, Exists
<1>3. ASSUME NEW e \in Effect(slot[s].op, c), Exists(c.id),
             tasks' = [tasks EXCEPT ![c.id].status = e.status, ![c.id].done = IF e.done = Same THEN @ ELSE e.done]
      PROVE  Counts(t)'
  <2>1. CASE t # c.id
    BY <1>1, <1>3, <2>1 DEF Counts, Exists, TypeOK
  <2>2. CASE t = c.id
    <3>1. tasks[t] \in Row
      BY <1>1, <1>3, <2>2, RowIs
    <3>2. /\ tasks'[t].status = e.status
          /\ tasks'[t].done = IF e.done = Same THEN tasks[t].done ELSE e.done
      BY <1>1, <1>3, <2>2, <3>1 DEF TypeOK, Row
    <3>3. /\ e.done \in {TRUE, FALSE, Same} /\ (e.done = FALSE => e.status # "DONE")
          /\ (e.done = Same => e.status # "DONE")
      BY <1>1, EffectIs
    <3>4. Same # TRUE /\ Same # FALSE
      BY TaskAssumption
    <3>5. e.status # "DONE" \/ e.done = TRUE
      BY <3>3
    <3> QED BY <3>2, <3>4, <3>5 DEF Counts
  <2> QED BY <2>1, <2>2
<1> QED BY <1>2, <1>3 DEF EventWrite

\* However handlers overlap, a task that counts goes on to, unless a user makes it DONE.
LEMMA CountsKept ==
  ASSUME IInv, [Next]_vars, NEW t \in Task, Counts(t)
  PROVE  Counts(t)' \/ (t \in patched' /\ UsersComplete)
<1> DEFINE Fine == Counts(t)' \/ (t \in patched' /\ UsersComplete)
<1>0. TypeOK
  BY DEF IInv
<1>1. ASSUME tasks' = tasks PROVE Fine
  BY <1>1 DEF Counts, Exists
<1>2. ASSUME tasks'[t] \in {Unused, Removed} PROVE Fine
  BY <1>2 DEF Counts, Exists
<1>3. ASSUME NEW x \in Task, NEW link, Exists(x), tasks' = [tasks EXCEPT ![x].link = link] PROVE Fine
  <2>1. tasks[x] \in Row
    BY <1>0, <1>3, RowIs
  <2>2. [tasks[x] EXCEPT !.link = link].status = tasks[x].status /\ [tasks[x] EXCEPT !.link = link].done = tasks[x].done
    BY <2>1 DEF Row
  <2>3. tasks'[t] = IF t = x THEN [tasks[x] EXCEPT !.link = link] ELSE tasks[t]
    BY <1>0, <1>3 DEF TypeOK
  <2> QED BY <1>3, <2>2, <2>3 DEF Counts, Exists
<1>4. ASSUME NEW s \in Slot, UpdateWrite(s) PROVE Fine
  <2> DEFINE h == slot[s]
             x == h.copy.id
             status == IF h.patch.status = Same THEN tasks[x].status ELSE h.patch.status
             assignee == IF h.patch.assignee = Same THEN tasks[x].assignee ELSE h.patch.assignee
  <2>1. CASE ~Exists(x)
    BY <1>1, <1>4, <2>1 DEF UpdateWrite
  <2>2. CASE Exists(x)
    <3>1. /\ tasks' = [tasks EXCEPT ![x].status = status, ![x].assignee = assignee]
          /\ h.patch.status # Same => x \in patched'
      BY <1>4, <2>2 DEF UpdateWrite
    <3>2. h \in Handle /\ Shape(h) /\ h.op = "update" /\ h.pc = "write"
      BY <1>4 DEF IInv, TypeOK, UpdateWrite
    <3>3. h.copy \in Copy /\ h.patch \in Patches
      BY <3>2 DEF Shape, Handle
    <3>4. x \in Task /\ tasks[x] \in Row
      BY <1>0, <2>2, <3>3, RowIs DEF Copy
    <3>5. tasks'[x].status = status /\ tasks'[x].done = tasks[x].done
      BY <1>0, <3>1, <3>4 DEF TypeOK, Row
    <3>6. CASE t # x
      BY <1>0, <3>1, <3>4, <3>6 DEF Counts, Exists, TypeOK
    <3>7. CASE t = x
      <4>1. CASE h.patch.status = Same
        BY <2>2, <3>5, <3>7, <4>1 DEF Counts
      <4>2. CASE h.patch.status = "DONE"
        <5>1. Same # "DONE"
          BY TaskAssumption DEF Status
        <5> QED BY <3>1, <3>3, <3>7, <4>2, <5>1 DEF UsersComplete
      <4>3. CASE h.patch.status \notin {Same, "DONE"}
        BY <3>5, <3>7, <4>3 DEF Counts
      <4> QED BY <4>1, <4>2, <4>3
    <3> QED BY <3>6, <3>7
  <2> QED BY <2>1, <2>2
<1>5. ASSUME NEW s \in Slot, NEW u \in User, NEW x \in Task, NEW body \in Bodies, Create(s, u, x, body) PROVE Fine
  <2> DEFINE row == [status |-> body.status, done |-> FALSE, creator |-> u, assignee |-> body.assignee, link |-> "none"]
  <2>1. tasks' = [tasks EXCEPT ![x] = row] /\ (body.status = "DONE" => x \in patched')
    BY <1>5 DEF Create
  <2>2. row.status = body.status
    OBVIOUS
  <2> HIDE DEF row
  <2>3. CASE t # x
    BY <1>0, <2>1, <2>3 DEF Counts, Exists, TypeOK
  <2>4. CASE t = x
    BY <1>0, <2>1, <2>2, <2>4 DEF Counts, UsersComplete, TypeOK
  <2> QED BY <2>3, <2>4
<1> HIDE DEF Fine
<1>6. ASSUME NEW s \in Slot, Handler(s) PROVE Fine
  <2>1. CASE CreateNotify(s) \/ UpdateHistory(s) \/ Sent(s) \/ EndLoop(s) \/ EventHistory(s)
    BY <1>1, <2>1 DEF CreateNotify, UpdateHistory, Sent, EndLoop, EventHistory, rows
  <2>2. CASE RemoveWrite(s)
    <3>1. tasks' = tasks \/ tasks'[t] = tasks[t] \/ tasks'[t] = Removed
      BY <1>0, <2>2 DEF RemoveWrite, TypeOK
    <3>2. ASSUME tasks'[t] = tasks[t] PROVE Fine
      BY <3>2 DEF Fine, Counts, Exists
    <3> QED BY <1>1, <1>2, <3>1, <3>2
  <2>3. CASE \E c \in slot[s].todo : DueNotify(s, c)
    BY <1>1, <2>3 DEF DueNotify, rows
  <2>4. CASE \E c \in slot[s].todo : NoteNumber(s, c)
    <3>1. PICK c \in slot[s].todo : NoteNumber(s, c)
      BY <2>4
    <3>2. c.id \in Task
      BY <1>0, <3>1 DEF TypeOK, Handle, Copy
    <3>3. tasks' = tasks \/ (Exists(c.id) /\ tasks' = [tasks EXCEPT ![c.id].link = "number"])
      BY <3>1 DEF NoteNumber
    <3> QED BY <1>1, <1>3, <3>2, <3>3
  <2>5. CASE \E c \in slot[s].todo \union {slot[s].copy} : EventWrite(s, c)
    BY <2>5, EventCounts DEF Fine
  <2> QED BY <1>4, <1>6, <2>1, <2>2, <2>3, <2>4, <2>5 DEF Handler
<1>7. ASSUME NEW s \in Slot, Requests(s) PROVE Fine
  <2>1. CASE StartDueJob(s) \/ \E u \in User, x \in Task :
                                 (\E patch \in Patches : UpdateRead(s, u, x, patch)) \/ RemoveRead(s, u, x)
    BY <1>1, <2>1 DEF StartDueJob, UpdateRead, RemoveRead, rows
  <2> QED BY <1>5, <1>7, <2>1 DEF Requests
<1>8. ASSUME NEW s \in Slot, Deliveries(s) PROVE Fine
  BY <1>1, <1>8 DEF Deliveries, Receive, rows
<1>9. ASSUME NEW x \in Task, LinkTaskToGithub(x) PROVE Fine
  <2>1. Exists(x) /\ tasks' = [tasks EXCEPT ![x].link = "branch"]
    BY <1>9 DEF LinkTaskToGithub
  <2> QED BY <1>3, <2>1
<1>10. CASE GitHub
  <2>1. tasks' = tasks
    BY <1>10 DEF GitHub, PullRequest, Issue, Emit, rows
  <2> QED BY <1>1, <2>1 DEF Fine
<1>11. CASE UNCHANGED vars
  <2>1. tasks' = tasks
    BY <1>11 DEF vars
  <2> QED BY <1>1, <2>1 DEF Fine
<1> QED BY <1>6, <1>7, <1>8, <1>9, <1>10, <1>11 DEF Next, Fine

LEMMA PatchedGrows == ASSUME [Next]_vars PROVE patched \subseteq patched'
<1>1. ASSUME NEW s \in Slot, Handler(s) PROVE patched \subseteq patched'
  BY <1>1 DEF Handler, CreateNotify, UpdateWrite, UpdateHistory, RemoveWrite, Sent, NoteNumber, DueNotify, EventWrite,
              EventHistory, EndLoop, history
<1>2. ASSUME NEW s \in Slot, Requests(s) \/ Deliveries(s) PROVE patched \subseteq patched'
  BY <1>2 DEF Requests, Deliveries, Create, UpdateRead, RemoveRead, StartDueJob, Receive, history
<1>3. CASE GitHub \/ UNCHANGED vars \/ \E t \in Task : LinkTaskToGithub(t)
  BY <1>3 DEF GitHub, PullRequest, Issue, Emit, LinkTaskToGithub, history, vars
<1> QED BY <1>1, <1>2, <1>3 DEF Next

LEMMA InitCounts ==
  ASSUME Init
  PROVE  \A t \in Task : Counts(t)
BY TaskAssumption DEF Init, Counts, Exists

\* Whose status no user ever wrote is never DONE without completedAt, however many
\* deliveries overlap, are repeated or overtake one another
\* (github-webhook.service.ts:241-328).
THEOREM GithubCompletionsCount == Spec => [](\A t \in Task \ patched : Counts(t))
<1>1. Init => \A t \in Task \ patched : Counts(t)
  BY InitCounts
<1>2. IInv /\ (\A t \in Task \ patched : Counts(t)) /\ [Next]_vars => (\A t \in Task \ patched : Counts(t))'
  <2> SUFFICES ASSUME IInv, \A t \in Task \ patched : Counts(t), [Next]_vars, NEW t \in Task, t \notin patched'
               PROVE  Counts(t)'
    OBVIOUS
  <2>1. patched \subseteq patched'
    BY PatchedGrows
  <2> QED BY <2>1, CountsKept
<1> QED BY <1>1, <1>2, Invariant, PTL DEF Spec

\* So CompletedCounts fails through users alone: where none sets a task DONE by hand,
\* every task completed counts in the statistics, with all overlaps
\* (teams.service.ts:622, tasks.service.ts:297).
THEOREM CompletedCountsByGithub ==
  ASSUME ~UsersComplete
  PROVE  Spec => []CompletedCounts
<1>1. Init => \A t \in Task : Counts(t)
  BY InitCounts
<1>2. IInv /\ (\A t \in Task : Counts(t)) /\ [Next]_vars => (\A t \in Task : Counts(t))'
  <2> SUFFICES ASSUME IInv, \A t \in Task : Counts(t), [Next]_vars, NEW t \in Task PROVE Counts(t)'
    OBVIOUS
  <2> QED BY CountsKept
<1>3. (\A t \in Task : Counts(t)) => CompletedCounts
  BY DEF Counts, CompletedCounts
<1> QED BY <1>1, <1>2, <1>3, Invariant, PTL DEF Spec

=============================================================================
