---------------------------- MODULE OneRowProofs ----------------------------
(***************************************************************************)
(* Two services that look for a row before they insert one, for any users, *)
(* documents, requests, days and rows: attendance keeps one record of a    *)
(* slot, user, type and day, and a favourite is what the last toggle that  *)
(* succeeded answered.                                                     *)
(***************************************************************************)
EXTENDS Attendance, Documents, TLAPS

-----------------------------------------------------------------------------
(* Attendance.  A slot about to insert found no record of its user and type  *)
(* at or after the start it took, and nothing but that slot adds rows of its *)
(* own, so the row it inserts today is the first.                            *)

Inserting(r) == checks[r] # NoRequest /\ checks[r].pc = "insert"

NotBefore ==
  /\ \A a \in attendance : a.day <= today
  /\ \A r \in Request : Inserting(r) =>
       /\ checks[r].start <= today
       /\ \A a \in attendance :
            a.by = r /\ a.user = checks[r].user /\ a.type = checks[r].type => a.day < checks[r].start

OneEach ==
  \A a, b \in attendance :
    a.user = b.user /\ a.type = b.type /\ a.day = b.day /\ a.by = b.by => a = b

AttendanceInv == AttendanceTypeOK /\ NotBefore /\ OneEach

\* Every step keeps the types of the variables (all of the module).
LEMMA AttendanceTypeStep == AttendanceTypeOK /\ [AttendanceNext]_attendanceVars => AttendanceTypeOK'
<1> SUFFICES ASSUME AttendanceTypeOK, [AttendanceNext]_attendanceVars
             PROVE  AttendanceTypeOK'
  OBVIOUS
<1> USE DEF AttendanceTypeOK
<1>1. ASSUME NEW r \in Request, NEW u \in User, NEW type \in AttendanceType, CheckRead(r, u, type)
      PROVE  AttendanceTypeOK'
  <2>1. [pc |-> "insert", user |-> u, type |-> type, start |-> today, record |-> 0, todo |-> {}] \in Check
    BY DEF Check
  <2> QED BY <1>1, <2>1 DEF CheckRead
<1>2. ASSUME NEW r \in Request, CheckInsert(r)
      PROVE  AttendanceTypeOK'
  <2>1. checks[r] \in Check /\ rowsMade' \in Nat
    BY <1>2 DEF CheckInsert, Busy
  <2>2. [[checks[r] EXCEPT !.pc = "targets"] EXCEPT !.record = rowsMade'] \in Check
    BY <2>1 DEF Check
  <2>3. [id |-> rowsMade', user |-> checks[r].user, type |-> checks[r].type, day |-> today, by |-> r]
          \in AttendanceRow
    BY <2>1 DEF Check, AttendanceRow
  <2>4. checks' = [checks EXCEPT ![r] = [[checks[r] EXCEPT !.pc = "targets"] EXCEPT !.record = rowsMade']]
    BY <1>2 DEF CheckInsert
  <2> QED BY <1>2, <2>1, <2>2, <2>3, <2>4 DEF CheckInsert
<1>3. ASSUME NEW r \in Request, CheckTargets(r)
      PROVE  AttendanceTypeOK'
  <2>1. checks[r] \in Check
    BY <1>3 DEF CheckTargets, Busy
  <2>2. [[checks[r] EXCEPT !.pc = "notify"] EXCEPT !.todo = NotifyTargets(checks[r].user)] \in Check
    BY <2>1 DEF Check, NotifyTargets
  <2>3. checks' = [checks EXCEPT ![r] =
                     [[checks[r] EXCEPT !.pc = "notify"] EXCEPT !.todo = NotifyTargets(checks[r].user)]]
    BY <1>3 DEF CheckTargets
  <2> QED BY <1>3, <2>2, <2>3 DEF CheckTargets
<1>4. ASSUME NEW r \in Request, NEW v \in User, CheckNotify(r, v)
      PROVE  AttendanceTypeOK'
  <2>1. checks[r] \in Check
    BY <1>4 DEF CheckNotify, Busy
  <2>2. [checks[r] EXCEPT !.todo = checks[r].todo \ {v}] \in Check
    BY <2>1 DEF Check
  <2>3. [record |-> checks[r].record, to |-> v] \in [record : Nat, to : User]
    BY <2>1 DEF Check
  <2>4. checks' = [checks EXCEPT ![r] = [checks[r] EXCEPT !.todo = checks[r].todo \ {v}]]
    BY <1>4 DEF CheckNotify
  <2> QED BY <1>4, <2>2, <2>3, <2>4 DEF CheckNotify
<1>5. ASSUME NEW r \in Request, CheckEnd(r)
      PROVE  AttendanceTypeOK'
  BY <1>5 DEF CheckEnd
<1>6. CASE Midnight
  BY <1>6 DEF Midnight
<1>7. CASE UNCHANGED attendanceVars
  BY <1>7 DEF attendanceVars
<1> QED BY <1>1, <1>2, <1>3, <1>4, <1>5, <1>6, <1>7 DEF AttendanceNext

\* Every step keeps what a slot about to insert knows (attendance.service.ts:25).
LEMMA NotBeforeStep ==
  AttendanceTypeOK /\ NotBefore /\ [AttendanceNext]_attendanceVars => NotBefore'
<1> SUFFICES ASSUME AttendanceTypeOK, NotBefore, [AttendanceNext]_attendanceVars
             PROVE  NotBefore'
  OBVIOUS
<1> USE DEF NotBefore, Inserting
<1>0. /\ today \in Nat
      /\ \A a \in attendance : a \in AttendanceRow /\ a.day \in Nat
      /\ \A r \in Request : checks[r] # NoRequest => checks[r] \in Check /\ checks[r].start \in Nat
      /\ DOMAIN checks = Request
  BY DEF AttendanceTypeOK, AttendanceRow, Check
<1>1. ASSUME NEW r \in Request, NEW u \in User, NEW type \in AttendanceType, CheckRead(r, u, type)
      PROVE  NotBefore'
  <2>1. \A a \in attendance : a.user = u /\ a.type = type => a.day < today
    BY <1>0, <1>1 DEF CheckRead, TodayOf
  <2>2. \A q \in Request : q # r => checks'[q] = checks[q]
    BY <1>0, <1>1 DEF CheckRead
  <2>3. checks'[r] = [pc |-> "insert", user |-> u, type |-> type, start |-> today,
                      record |-> 0, todo |-> {}]
    BY <1>0, <1>1 DEF CheckRead
  <2> QED BY <1>0, <1>1, <2>1, <2>2, <2>3 DEF CheckRead
<1>2. ASSUME NEW r \in Request, CheckInsert(r)
      PROVE  NotBefore'
  <2>1. \A q \in Request : q # r => checks'[q] = checks[q]
    BY <1>0, <1>2 DEF CheckInsert
  <2>2. checks'[r].pc = "targets"
    BY <1>0, <1>2 DEF CheckInsert, Busy, Check
  <2>3. \A a \in attendance' : a \in attendance \/ (a.by = r /\ a.day = today)
    BY <1>2 DEF CheckInsert
  <2>4. today' = today
    BY <1>2 DEF CheckInsert
  <2> QED BY <1>0, <2>1, <2>2, <2>3, <2>4
<1>3. ASSUME NEW r \in Request, CheckTargets(r) \/ CheckEnd(r) \/ \E v \in User : CheckNotify(r, v)
      PROVE  NotBefore'
  <2>1. attendance' = attendance /\ today' = today
    BY <1>3 DEF CheckTargets, CheckEnd, CheckNotify
  <2>2. \A q \in Request : q # r => checks'[q] = checks[q]
    BY <1>0, <1>3 DEF CheckTargets, CheckEnd, CheckNotify
  <2>3. CASE CheckTargets(r)
    <3>1. checks'[r].pc = "notify"
      BY <1>0, <2>3 DEF CheckTargets, Busy, Check
    <3> QED BY <2>1, <2>2, <3>1
  <2>4. CASE CheckEnd(r)
    BY <1>0, <2>1, <2>2, <2>4 DEF CheckEnd
  <2>5. ASSUME NEW v \in User, CheckNotify(r, v)
        PROVE  NotBefore'
    <3>1. /\ checks'[r].pc = checks[r].pc /\ checks'[r].start = checks[r].start
          /\ checks'[r].user = checks[r].user /\ checks'[r].type = checks[r].type
          /\ checks[r] # NoRequest
      BY <1>0, <2>5 DEF CheckNotify, Busy, Check
    <3> QED BY <2>1, <2>2, <3>1
  <2> QED BY <1>3, <2>3, <2>4, <2>5
<1>4. CASE Midnight
  BY <1>0, <1>4 DEF Midnight
<1>5. CASE UNCHANGED attendanceVars
  BY <1>5 DEF attendanceVars
<1> QED BY <1>1, <1>2, <1>3, <1>4, <1>5 DEF AttendanceNext

\* Only an insert adds rows, and the one it adds is its slot's first of the day.
LEMMA OneEachStep ==
  AttendanceTypeOK /\ NotBefore /\ OneEach /\ [AttendanceNext]_attendanceVars => OneEach'
<1> SUFFICES ASSUME AttendanceTypeOK, NotBefore, OneEach, [AttendanceNext]_attendanceVars
             PROVE  OneEach'
  OBVIOUS
<1>1. ASSUME NEW r \in Request, CheckInsert(r)
      PROVE  OneEach'
  <2> DEFINE new == [id |-> rowsMade', user |-> checks[r].user, type |-> checks[r].type,
                     day |-> today, by |-> r]
  <2>1. checks[r] \in Check /\ today \in Nat /\ \A a \in attendance : a.day \in Nat
    BY <1>1 DEF AttendanceTypeOK, CheckInsert, Busy, AttendanceRow
  <2>2. \A a \in attendance : ~(a.user = new.user /\ a.type = new.type /\ a.day = new.day /\ a.by = new.by)
    BY <1>1, <2>1 DEF NotBefore, Inserting, CheckInsert, Busy, Check
  <2>3. attendance' = attendance \union {new}
    BY <1>1 DEF CheckInsert
  <2> HIDE DEF new
  <2> QED BY <2>2, <2>3 DEF OneEach
<1>2. CASE attendance' = attendance
  BY <1>2 DEF OneEach
<1>3. (\E r \in Request : CheckInsert(r)) \/ attendance' = attendance
  BY DEF AttendanceNext, attendanceVars, CheckRead, CheckTargets, CheckNotify, CheckEnd, Midnight
<1> QED BY <1>1, <1>2, <1>3

\* The inductive invariant of the module holds throughout.
LEMMA AttendanceInvariant == AttendanceSpec => []AttendanceInv
<1>1. AttendanceInit => AttendanceInv
  BY DEF AttendanceInit, AttendanceInv, AttendanceTypeOK, NotBefore, OneEach, Inserting
<1>2. AttendanceInv /\ [AttendanceNext]_attendanceVars => AttendanceInv'
  BY AttendanceTypeStep, NotBeforeStep, OneEachStep DEF AttendanceInv
<1> QED BY <1>1, <1>2, PTL DEF AttendanceSpec

\* Every reachable state has the declared types, for any users, requests and days
\* (all of the module).
THEOREM AttendanceTypeCorrect == AttendanceSpec => []AttendanceTypeOK
<1>1. AttendanceInv => AttendanceTypeOK
  BY DEF AttendanceInv
<1> QED BY AttendanceInvariant, <1>1, PTL

\* A slot never gives a user two records of one type on one day, and today's own
\* status agrees with the list of managers (attendance.service.ts:25-43, 132-140,
\* 164-173).
THEOREM AttendancePerSlotAlways == AttendanceSpec => []AttendancePerSlot
<1>1. AttendanceInv => AttendancePerSlot
  <2> SUFFICES ASSUME AttendanceInv PROVE AttendancePerSlot
    OBVIOUS
  <2>1. \A a, b \in attendance :
          a.user = b.user /\ a.type = b.type /\ a.day = b.day /\ a.by = b.by => a = b
    BY DEF AttendanceInv, OneEach
  <2>2. \A a \in attendance : a.day \in Nat /\ a.day <= today /\ today \in Nat
    BY DEF AttendanceInv, AttendanceTypeOK, AttendanceRow, NotBefore
  <2>3. ASSUME NEW u \in User, NEW type \in AttendanceType
        PROVE  TodayStatus(u, type) <=>
                 \E a \in AttendanceListed(today, TeamOf[u]) : a.user = u /\ a.type = type
    BY <2>2 DEF TodayStatus, TodayOf, AttendanceListed
  <2> QED BY <2>1, <2>3 DEF AttendancePerSlot
<1> QED BY AttendanceInvariant, <1>1, PTL

-----------------------------------------------------------------------------
(* Documents.  The id a toggle found names, for as long as it names a row,   *)
(* the row of that toggle's own pair: ids are never used twice.              *)

Ids ==
  /\ \A f \in favourites : There(f.doc) /\ f.id <= favouriteIds
  /\ \A f, g \in favourites : f.id = g.id => f = g

Found ==
  \A r \in Request : edits[r] # NoRequest /\ edits[r].op = "delete" =>
    /\ edits[r].found <= favouriteIds
    /\ \A f \in favourites : f.id = edits[r].found => f.doc = edits[r].doc /\ f.user = edits[r].user

Fresh == \A d \in Document, u \in User : documents[d] = Absent => ~lastAnswer[<<d, u>>]

DocumentsInv == DocumentsTypeOK /\ Ids /\ Found /\ Fresh /\ FavouriteIsLastAnswer

\* What the types say of a request at work and of a favourite.
LEMMA EditShapes ==
  ASSUME DocumentsTypeOK
  PROVE  /\ \A r \in Request : edits[r] # NoRequest =>
              /\ edits[r] \in Edit /\ edits[r].doc \in Document /\ edits[r].user \in User
              /\ edits[r].found \in Nat
         /\ \A f \in favourites : f.id \in Nat /\ f.doc \in Document /\ f.user \in User
         /\ DOMAIN edits = Request /\ DOMAIN documents = Document
         /\ favouriteIds \in Nat
         /\ lastAnswer \in [Document \X User -> BOOLEAN]
  BY DEF DocumentsTypeOK, Edit

\* Every step keeps the types of the variables (all of the module).
LEMMA DocumentsTypeStep == DocumentsTypeOK /\ [DocumentsNext]_documentVars => DocumentsTypeOK'
<1> SUFFICES ASSUME DocumentsTypeOK, [DocumentsNext]_documentVars
             PROVE  DocumentsTypeOK'
  OBVIOUS
<1> USE DEF DocumentsTypeOK, Proceeds
<1>1. ASSUME NEW u \in User, NEW d \in Document, NEW t \in Team, DocumentCreate(u, d, t)
      PROVE  DocumentsTypeOK'
  BY <1>1 DEF DocumentCreate
<1>2. ASSUME NEW u \in User, NEW d \in Document, NEW r \in Request,
             NEW op \in {"update", "remove", "toggleFavorite"}, DocumentFindOne(r, u, d, op)
      PROVE  DocumentsTypeOK'
  <2>1. [op |-> op, user |-> u, doc |-> d, found |-> 0] \in Edit
    BY DEF Edit
  <2> QED BY <1>2, <2>1 DEF DocumentFindOne
<1>3. ASSUME NEW t \in Team, DocumentTeamDeleted(t)
      PROVE  DocumentsTypeOK'
  BY <1>3 DEF DocumentTeamDeleted
<1>4. ASSUME NEW r \in Request, DocumentUpdate(r) \/ DocumentRemove(r)
      PROVE  DocumentsTypeOK'
  BY <1>4, EditShapes DEF DocumentUpdate, DocumentRemove
<1>5. ASSUME NEW r \in Request, ToggleFind(r)
      PROVE  DocumentsTypeOK'
  <2>1. edits[r] \in Edit
    BY <1>5 DEF ToggleFind
  <2>2. [edits[r] EXCEPT !.op = "insert"] \in Edit
    BY <2>1 DEF Edit
  <2>3. ASSUME NEW f \in FavouritesOf(edits[r].doc, edits[r].user)
        PROVE  [edits[r] EXCEPT !.op = "delete", !.found = f.id] \in Edit
    BY <2>1 DEF Edit, FavouritesOf
  <2> QED BY <1>5, <2>2, <2>3 DEF ToggleFind
<1>6. ASSUME NEW r \in Request, ToggleDelete(r)
      PROVE  DocumentsTypeOK'
  BY <1>6, EditShapes DEF ToggleDelete
<1>7. ASSUME NEW r \in Request, ToggleInsert(r)
      PROVE  DocumentsTypeOK'
  <2>1. [id |-> favouriteIds + 1, doc |-> edits[r].doc, user |-> edits[r].user]
          \in [id : Nat, doc : Document, user : User]
    BY <1>7, EditShapes DEF ToggleInsert
  <2> QED BY <1>7, <2>1, EditShapes DEF ToggleInsert
<1>8. CASE UNCHANGED documentVars
  BY <1>8 DEF documentVars
<1> QED BY <1>1, <1>2, <1>3, <1>4, <1>5, <1>6, <1>7, <1>8 DEF DocumentsNext

\* Every step keeps the ids, the answers and the rows together
\* (documents.service.ts:231-257).
LEMMA AnswerStep == DocumentsInv /\ [DocumentsNext]_documentVars => (Ids /\ Found /\ Fresh /\ FavouriteIsLastAnswer)'
<1> SUFFICES ASSUME DocumentsInv, [DocumentsNext]_documentVars
             PROVE  (Ids /\ Found /\ Fresh /\ FavouriteIsLastAnswer)'
  OBVIOUS
<1>0. /\ DocumentsTypeOK /\ Ids /\ Found /\ Fresh /\ FavouriteIsLastAnswer
      /\ Absent # Gone
  BY DirectoryAssumption DEF DocumentsInv
<1> USE DEF Ids, Found, Fresh, FavouriteIsLastAnswer, There, FavouritesOf, Proceeds
<1>1. ASSUME NEW u \in User, NEW d \in Document, NEW t \in Team, DocumentCreate(u, d, t)
      PROVE  (Ids /\ Found /\ Fresh /\ FavouriteIsLastAnswer)'
  <2>1. \A f \in favourites : f.doc # d
    BY <1>0, <1>1 DEF DocumentCreate
  <2>2. \A e \in Document : e # d => documents'[e] = documents[e]
    BY <1>0, <1>1, EditShapes DEF DocumentCreate
  <2>3. \A v \in User : ~lastAnswer[<<d, v>>]
    BY <1>0, <1>1 DEF DocumentCreate
  <2>4. UNCHANGED <<favourites, edits, lastAnswer, favouriteIds>>
    BY <1>1 DEF DocumentCreate
  <2>5. Ids'
    BY <1>0, <2>1, <2>2, <2>4, EditShapes
  <2>6. Found'
    BY <1>0, <2>4
  <2>7. Fresh'
    BY <1>0, <2>2, <2>3, <2>4
  <2>8. FavouriteIsLastAnswer'
    BY <1>0, <2>1, <2>2, <2>3, <2>4
  <2> QED BY <2>5, <2>6, <2>7, <2>8
<1>2. ASSUME NEW u \in User, NEW d \in Document, NEW r \in Request,
             NEW op \in {"update", "remove", "toggleFavorite"}, DocumentFindOne(r, u, d, op)
      PROVE  (Ids /\ Found /\ Fresh /\ FavouriteIsLastAnswer)'
  <2>1. UNCHANGED <<documents, favourites, lastAnswer, favouriteIds>>
    BY <1>2 DEF DocumentFindOne
  <2>2. Found'
    BY <1>0, <1>2, <2>1, EditShapes DEF DocumentFindOne
  <2> QED BY <1>0, <2>1, <2>2
<1>3. ASSUME NEW Its \in SUBSET Document,
             documents' = [d \in Document |-> IF d \in Its THEN Gone ELSE documents[d]],
             favourites' = {f \in favourites : f.doc \notin Its},
             UNCHANGED <<lastAnswer, favouriteIds>>,
             \A q \in Request : edits'[q] = edits[q] \/ edits'[q] = NoRequest
      PROVE  (Ids /\ Found /\ Fresh /\ FavouriteIsLastAnswer)'
  <2>1. Ids'
    BY <1>0, <1>3, EditShapes
  <2>2. Found'
    BY <1>0, <1>3
  <2>3. Fresh'
    BY <1>0, <1>3
  <2>4. FavouriteIsLastAnswer'
    BY <1>0, <1>3
  <2> QED BY <2>1, <2>2, <2>3, <2>4
<1>4. ASSUME NEW t \in Team, DocumentTeamDeleted(t)
      PROVE  (Ids /\ Found /\ Fresh /\ FavouriteIsLastAnswer)'
  <2> DEFINE its == {d \in Document : There(d) /\ documents[d].team = t}
  <2>1. its \in SUBSET Document
    OBVIOUS
  <2>2. /\ documents' = [d \in Document |-> IF d \in its THEN Gone ELSE documents[d]]
        /\ favourites' = {f \in favourites : f.doc \notin its}
        /\ UNCHANGED <<lastAnswer, favouriteIds>> /\ edits' = edits
    BY <1>4 DEF DocumentTeamDeleted
  <2> HIDE DEF its
  <2> QED BY <1>3, <2>1, <2>2
<1>5. ASSUME NEW r \in Request, DocumentRemove(r)
      PROVE  (Ids /\ Found /\ Fresh /\ FavouriteIsLastAnswer)'
  <2> DEFINE its == {edits[r].doc}
  <2>1. its \in SUBSET Document
    BY <1>0, <1>5, EditShapes DEF DocumentRemove
  <2>2. documents' = [d \in Document |-> IF d \in its THEN Gone ELSE documents[d]]
    BY <1>0, <1>5, <2>1, EditShapes DEF DocumentRemove, DocumentsTypeOK
  <2>3. /\ favourites' = {f \in favourites : f.doc \notin its}
        /\ UNCHANGED <<lastAnswer, favouriteIds>>
        /\ \A q \in Request : edits'[q] = edits[q] \/ edits'[q] = NoRequest
    BY <1>0, <1>5, EditShapes DEF DocumentRemove
  <2> HIDE DEF its
  <2> QED BY <1>3, <2>1, <2>2, <2>3
<1>6. ASSUME NEW r \in Request, DocumentUpdate(r)
      PROVE  (Ids /\ Found /\ Fresh /\ FavouriteIsLastAnswer)'
  <2>1. UNCHANGED <<documents, favourites, lastAnswer, favouriteIds>>
    BY <1>6 DEF DocumentUpdate
  <2>2. Found'
    BY <1>0, <1>6, <2>1, EditShapes DEF DocumentUpdate
  <2> QED BY <1>0, <2>1, <2>2
<1>7. ASSUME NEW r \in Request, ToggleFind(r)
      PROVE  (Ids /\ Found /\ Fresh /\ FavouriteIsLastAnswer)'
  <2>1. UNCHANGED <<documents, favourites, lastAnswer, favouriteIds>>
    BY <1>7 DEF ToggleFind
  <2>2. \A q \in Request : q # r => edits'[q] = edits[q]
    BY <1>0, <1>7, EditShapes DEF ToggleFind
  <2>3. edits[r] \in Edit
    BY <1>0, <1>7, EditShapes DEF ToggleFind
  <2>4. CASE edits' = [edits EXCEPT ![r] = [edits[r] EXCEPT !.op = "insert"]]
    <3>1. edits'[r].op = "insert"
      BY <1>0, <2>3, <2>4, EditShapes DEF Edit
    <3> QED BY <1>0, <2>1, <2>2, <3>1
  <2>5. ASSUME NEW f \in FavouritesOf(edits[r].doc, edits[r].user),
               edits' = [edits EXCEPT ![r] = [edits[r] EXCEPT !.op = "delete", !.found = f.id]]
        PROVE  (Ids /\ Found /\ Fresh /\ FavouriteIsLastAnswer)'
    <3>1. edits'[r].found = f.id /\ edits'[r].doc = f.doc /\ edits'[r].user = f.user
      BY <1>0, <2>3, <2>5, EditShapes DEF Edit
    <3>2. Found'
      BY <1>0, <2>1, <2>2, <2>5, <3>1
    <3> QED BY <1>0, <2>1, <3>2
  <2> QED BY <1>7, <2>4, <2>5 DEF ToggleFind
<1>8. ASSUME NEW r \in Request, ToggleDelete(r)
      PROVE  (Ids /\ Found /\ Fresh /\ FavouriteIsLastAnswer)'
  <2> DEFINE e == edits[r]
             row == {f \in favourites : f.id = e.found}
  <2>1. e \in Edit /\ e.op = "delete" /\ e.doc \in Document /\ e.user \in User
    BY <1>0, <1>8, EditShapes DEF ToggleDelete
  <2>2. \A f \in row : f \in favourites /\ f.doc = e.doc /\ f.user = e.user
    BY <1>0, <1>8 DEF ToggleDelete
  <2>3. favourites' = favourites \ row /\ documents' = documents /\ favouriteIds' = favouriteIds
    BY <1>8 DEF ToggleDelete
  <2>4. lastAnswer' = IF row = {} THEN lastAnswer ELSE [lastAnswer EXCEPT ![<<e.doc, e.user>>] = FALSE]
    BY <1>8 DEF ToggleDelete
  <2>5. \A q \in Request : edits'[q] = edits[q] \/ edits'[q] = NoRequest
    BY <1>0, <1>8, EditShapes DEF ToggleDelete
  <2> HIDE DEF row, e
  <2>6. Ids'
    BY <1>0, <2>3, EditShapes
  <2>7. Found'
    BY <1>0, <2>3, <2>5
  <2>8. CASE row = {}
    <3>1. favourites' = favourites /\ lastAnswer' = lastAnswer
      BY <2>3, <2>4, <2>8
    <3> QED BY <1>0, <2>3, <2>6, <2>7, <3>1
  <2>9. CASE row # {}
    <3>1. \A d \in Document, u \in User :
            lastAnswer'[<<d, u>>] = IF d = e.doc /\ u = e.user THEN FALSE ELSE lastAnswer[<<d, u>>]
      BY <1>0, <2>1, <2>4, <2>9, EditShapes
    <3>2. Fresh'
      BY <1>0, <2>3, <3>1
    <3>3. PICK f \in row : f \in favourites /\ f.doc = e.doc /\ f.user = e.user
      BY <2>2, <2>9
    <3>4. There(e.doc)
      BY <1>0, <3>3
    <3>5. \A g \in favourites : g.doc = e.doc /\ g.user = e.user => g = f
      <4>1. \A g, h \in FavouritesOf(e.doc, e.user) : g = h
        BY <1>0, <2>1, <3>4
      <4> QED BY <3>3, <4>1
    <3>6. ASSUME NEW d \in Document, NEW u \in User, There(d)'
          PROVE  /\ lastAnswer'[<<d, u>>] <=> FavouritesOf(d, u)' # {}
                 /\ \A g, h \in FavouritesOf(d, u)' : g = h
      <4>1. There(d)
        BY <2>3, <3>6
      <4>2. CASE d = e.doc /\ u = e.user
        BY <2>3, <3>1, <3>3, <3>5, <4>2
      <4>3. CASE ~(d = e.doc /\ u = e.user)
        <5>1. FavouritesOf(d, u)' = FavouritesOf(d, u)
          BY <2>2, <2>3, <4>3
        <5>2. /\ lastAnswer[<<d, u>>] <=> FavouritesOf(d, u) # {}
              /\ \A g, h \in FavouritesOf(d, u) : g = h
          BY <1>0, <4>1
        <5>3. lastAnswer'[<<d, u>>] = lastAnswer[<<d, u>>]
          BY <3>1, <4>3
        <5> HIDE DEF FavouritesOf
        <5> QED BY <5>1, <5>2, <5>3
      <4> QED BY <4>2, <4>3
    <3> QED BY <2>6, <2>7, <3>2, <3>6
  <2> QED BY <2>8, <2>9
<1>9. ASSUME NEW r \in Request, ToggleInsert(r)
      PROVE  (Ids /\ Found /\ Fresh /\ FavouriteIsLastAnswer)'
  <2> DEFINE e == edits[r]
             new == [id |-> favouriteIds + 1, doc |-> e.doc, user |-> e.user]
  <2>1. e \in Edit /\ e.doc \in Document /\ e.user \in User
    BY <1>0, <1>9, EditShapes DEF ToggleInsert
  <2>2. documents' = documents /\ \A q \in Request : edits'[q] = edits[q] \/ edits'[q] = NoRequest
    BY <1>0, <1>9, EditShapes DEF ToggleInsert
  <2>3. CASE UNCHANGED <<favourites, favouriteIds, lastAnswer>>
    BY <1>0, <2>2, <2>3
  <2>4. CASE /\ There(e.doc) /\ FavouritesOf(e.doc, e.user) = {}
             /\ favourites' = favourites \union {new}
             /\ favouriteIds' = favouriteIds + 1
             /\ lastAnswer' = [lastAnswer EXCEPT ![<<e.doc, e.user>>] = TRUE]
    <3>1. /\ new.id = favouriteIds + 1 /\ new.doc = e.doc /\ new.user = e.user
          /\ \A f \in favourites : f.id \in Nat /\ f.id <= favouriteIds
          /\ favouriteIds \in Nat
      BY <1>0, EditShapes
    <3>2. \A d \in Document, u \in User :
            lastAnswer'[<<d, u>>] = IF d = e.doc /\ u = e.user THEN TRUE ELSE lastAnswer[<<d, u>>]
      BY <1>0, <2>1, <2>4, EditShapes
    <3>3. \A q \in Request : edits[q] # NoRequest => edits[q].found \in Nat
      BY <1>0, EditShapes
    <3> HIDE DEF e, new
    <3>4. Ids'
      BY <1>0, <2>2, <2>4, <3>1
    <3>5. Found'
      BY <1>0, <2>2, <2>4, <3>1, <3>3
    <3>6. Fresh'
      BY <1>0, <2>2, <2>4, <3>2
    <3>7. ASSUME NEW d \in Document, NEW u \in User, There(d)'
          PROVE  /\ lastAnswer'[<<d, u>>] <=> FavouritesOf(d, u)' # {}
                 /\ \A g, h \in FavouritesOf(d, u)' : g = h
      <4>1. There(d)
        BY <2>2, <3>7
      <4>2. CASE d = e.doc /\ u = e.user
        BY <2>4, <3>1, <3>2, <4>2
      <4>3. CASE ~(d = e.doc /\ u = e.user)
        <5>1. FavouritesOf(d, u)' = FavouritesOf(d, u)
          BY <2>4, <3>1, <4>3
        <5>2. /\ lastAnswer[<<d, u>>] <=> FavouritesOf(d, u) # {}
              /\ \A g, h \in FavouritesOf(d, u) : g = h
          BY <1>0, <4>1
        <5>3. lastAnswer'[<<d, u>>] = lastAnswer[<<d, u>>]
          BY <3>2, <4>3
        <5> HIDE DEF FavouritesOf
        <5> QED BY <5>1, <5>2, <5>3
      <4> QED BY <4>2, <4>3
    <3> QED BY <3>4, <3>5, <3>6, <3>7
  <2> QED BY <1>9, <2>3, <2>4 DEF ToggleInsert
<1>10. CASE UNCHANGED documentVars
  BY <1>0, <1>10 DEF documentVars
<1> QED BY <1>1, <1>2, <1>4, <1>5, <1>6, <1>7, <1>8, <1>9, <1>10 DEF DocumentsNext

\* The inductive invariant of the module holds throughout.
LEMMA DocumentsInvariant == DocumentsSpec => []DocumentsInv
<1>1. DocumentsInit => DocumentsInv
  BY DEF DocumentsInit, DocumentsInv, DocumentsTypeOK, Ids, Found, Fresh, FavouriteIsLastAnswer, There, FavouritesOf
<1>2. DocumentsInv /\ [DocumentsNext]_documentVars => DocumentsInv'
  BY DocumentsTypeStep, AnswerStep DEF DocumentsInv
<1> QED BY <1>1, <1>2, PTL DEF DocumentsSpec

\* Every reachable state has the declared types, for any documents, users and
\* requests (all of the module).
THEOREM DocumentsTypeCorrect == DocumentsSpec => []DocumentsTypeOK
<1>1. DocumentsInv => DocumentsTypeOK
  BY DEF DocumentsInv
<1> QED BY DocumentsInvariant, <1>1, PTL

\* However toggles interleave, a favourite is what the last one that succeeded
\* answered, in a single row (documents.service.ts:234).
THEOREM FavouriteIsLastAnswerAlways == DocumentsSpec => []FavouriteIsLastAnswer
<1>1. DocumentsInv => FavouriteIsLastAnswer
  BY DEF DocumentsInv
<1> QED BY DocumentsInvariant, <1>1, PTL
=============================================================================
