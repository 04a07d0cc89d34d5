--------------------------- MODULE Retrospectives ---------------------------
(***************************************************************************)
(* RetrospectivesService: the author writes, publishes and shares a        *)
(* retrospective with users and teams.  share deletes the rows it finds    *)
(* and inserts new ones in one transaction, at the database's default      *)
(* isolation, READ COMMITTED, and locks nothing but the rows it deletes:   *)
(* what another request commits meanwhile stays.  addShare adds some,      *)
(* removeShare deletes one row by its id, whatever retrospective it        *)
(* belongs to.  RetrospectiveShare has no unique constraint, so            *)
(* skipDuplicates skips nothing; a row is known by the statement that      *)
(* inserted it.                                                            *)
(***************************************************************************)
EXTENDS Access

CONSTANTS
  Retro,         \* ids, a uuid being used once
  MaxNamed,      \* bound on the ids a request names
  Unknown        \* an id a request names that is no user's and no team's

Visibility == {"PRIVATE", "TEAM", "ALL"}
RetroShape == [author : User, draft : BOOLEAN, visibility : Visibility]

VARIABLES
  retros,        \* each id: [author, draft, visibility], Absent or Gone
  retroShares,   \* the RetrospectiveShare table: [batch, retro, with]
  writing,       \* what each request is doing
  batches,       \* the createMany statements so far
  granted,       \* history: whom the last share, and additions since, named
  mixed,         \* history: whom writes that committed under that share named
  withdrawn      \* history: a share row of it was removed by id

history == <<granted, mixed, withdrawn>>
retroVars == <<retros, retroShares, writing, batches, history>>

Reader == User \union Team
ShareShape == [batch : Nat, retro : Retro, with : Reader]
RetroOp == {"update", "publish", "remove", "share", "addShare", "removeShare"}
\* doomed: the rows a share has deleted, for itself until it commits; missed
\* (history): whom writes named that committed since.
WritingShape == [op : RetroOp \union {"shareInsert"}, retro : Retro,
                 doomed : SUBSET ShareShape, missed : SUBSET Reader]
\* Absent and Gone are no rows, NoRequest no request.
ASSUME RetrosAssumption == {Absent, Gone} \intersect RetroShape = {} /\ NoRequest \notin WritingShape

\* What a request names: at most MaxNamed ids.
Named == {readers \in SUBSET (Reader \union {Unknown}) : Cardinality(readers) <= MaxNamed}

RetrosInit ==
  /\ retros = [x \in Retro |-> Absent] /\ retroShares = {} /\ batches = 0
  /\ writing = [r \in Request |-> NoRequest]
  /\ granted = [x \in Retro |-> {}] /\ mixed = [x \in Retro |-> {}] /\ withdrawn = {}

Kept(x) == retros[x] \notin {Absent, Gone}
SharedWith(x) == {s.with : s \in {y \in retroShares : y.retro = x}}

RetroCreate(u, x, draft, visibility) ==
  /\ retros[x] = Absent
  /\ retros' = [retros EXCEPT ![x] = [author |-> u, draft |-> draft, visibility |-> visibility]]
  /\ UNCHANGED <<retroShares, writing, batches, history>>

\* The read every write starts with: only the author goes on, or for remove an
\* OWNER too.
RetroRead(r, u, x, op) ==
  /\ writing[r] = NoRequest /\ Kept(x)
  /\ retros[x].author = u \/ (op = "remove" /\ RoleOf[u] = "OWNER")
  /\ writing' = [writing EXCEPT ![r] = [op |-> op, retro |-> x, doomed |-> {}, missed |-> {}]]
  /\ UNCHANGED <<retros, retroShares, batches, history>>

Does(r, op) == writing[r] # NoRequest /\ writing[r].op = op
Done(r) == writing' = [writing EXCEPT ![r] = NoRequest]

\* update and publish; P2025 when the row is gone.
RetroUpdate(r, draft, visibility) ==
  LET x == writing[r].retro
  IN /\ Does(r, "update")
     /\ retros' = IF Kept(x) THEN [retros EXCEPT ![x].draft = draft, ![x].visibility = visibility]
                  ELSE retros
     /\ Done(r)
     /\ UNCHANGED <<retroShares, batches, history>>
RetroPublish(r) ==
  LET x == writing[r].retro
  IN /\ Does(r, "publish")
     /\ retros' = IF Kept(x) THEN [retros EXCEPT ![x].draft = FALSE] ELSE retros
     /\ Done(r)
     /\ UNCHANGED <<retroShares, batches, history>>
RetroRemove(r) ==
  LET x == writing[r].retro
  IN /\ Does(r, "remove")
     /\ retros' = [retros EXCEPT ![x] = Gone]
     /\ retroShares' = {s \in retroShares : s.retro # x}
     /\ Done(r)
     /\ UNCHANGED <<batches, history>>

\* createMany: a row for each id named; all or none (P2003).
Accepted(x, readers) == Kept(x) /\ readers \subseteq Reader
RowsFor(x, readers) == [batch : {batches + 1}, retro : {x}, with : readers]

\* deleteMany: the rows of x that are committed now.  Another transaction sees
\* them until this one commits; if it deletes them too it waits, and passes over
\* them then.  Which of two goes first shows in nothing but their order.
\* Mutant: the two queries are no transaction.
RetroShareDelete_Commits(r) ==
  LET x == writing[r].retro
  IN /\ Does(r, "share")
     /\ writing' = [writing EXCEPT ![r].op = "shareInsert"]
     /\ retroShares' = {s \in retroShares : s.retro # x}
     /\ UNCHANGED <<retros, batches, history>>
RetroShareDelete(r) ==
  LET x == writing[r].retro
  IN /\ Does(r, "share")
     /\ writing' = [writing EXCEPT ![r].op = "shareInsert", ![r].doomed = {s \in retroShares : s.retro = x}]
     /\ UNCHANGED <<retros, retroShares, batches, history>>

\* Request r ends, and with it a write of readers to x that shares under way miss.
Overtakes(r, x, readers) ==
  writing' = [q \in Request |->
                IF q = r THEN NoRequest
                ELSE IF Does(q, "shareInsert") /\ writing[q].retro = x
                     THEN [writing[q] EXCEPT !.missed = @ \union readers]
                ELSE writing[q]]

\* createMany and the commit; when it fails the deletion is undone.
RetroShareInsert(r, readers) ==
  LET x == writing[r].retro
  IN /\ Does(r, "shareInsert") /\ batches < MaxRows
     /\ Accepted(x, readers)
     /\ retroShares' = (retroShares \ writing[r].doomed) \union RowsFor(x, readers)
     /\ batches' = batches + 1
     /\ granted' = [granted EXCEPT ![x] = readers]
     /\ mixed' = [mixed EXCEPT ![x] = writing[r].missed]
     /\ withdrawn' = withdrawn \ {x}
     /\ Overtakes(r, x, readers)
     /\ UNCHANGED retros

RetroAddShare(r, readers) ==
  LET x == writing[r].retro
  IN /\ Does(r, "addShare") /\ batches < MaxRows
     /\ Accepted(x, readers)
     /\ retroShares' = retroShares \union RowsFor(x, readers)
     /\ batches' = batches + 1
     /\ granted' = [granted EXCEPT ![x] = @ \union readers]
     /\ Overtakes(r, x, readers)
     /\ UNCHANGED <<retros, mixed, withdrawn>>

\* Either createMany is refused; or, with any request, the process dies or the
\* database gives it up for a deadlock.
RetroRefused(r, readers) ==
  /\ Does(r, "shareInsert") \/ Does(r, "addShare")
  /\ ~Accepted(writing[r].retro, readers)
  /\ Done(r)
  /\ UNCHANGED <<retros, retroShares, batches, history>>
RetroGivenUp(r) ==
  /\ writing[r] # NoRequest /\ Done(r)
  /\ UNCHANGED <<retros, retroShares, batches, history>>

\* P2025 when there is no such row, or not any more.
RetroRemoveShare(r, rows) ==
  /\ Does(r, "removeShare")
  /\ retroShares' = retroShares \ rows
  /\ withdrawn' = withdrawn \union {s.retro : s \in rows}
  /\ Done(r)
  /\ UNCHANGED <<retros, batches, granted, mixed>>

RetrosNext ==
  \/ \E u \in User, x \in Retro :
       \/ \E draft \in BOOLEAN, visibility \in Visibility : RetroCreate(u, x, draft, visibility)
       \/ \E r \in Request, op \in RetroOp : RetroRead(r, u, x, op)
  \/ \E r \in Request :
       \/ \E draft \in BOOLEAN, visibility \in Visibility : RetroUpdate(r, draft, visibility)
       \/ RetroPublish(r) \/ RetroRemove(r) \/ RetroShareDelete(r) \/ RetroGivenUp(r)
       \/ \E readers \in Named :
            RetroShareInsert(r, readers) \/ RetroAddShare(r, readers) \/ RetroRefused(r, readers)
       \/ \E s \in retroShares : RetroRemoveShare(r, {s})
       \/ RetroRemoveShare(r, {})

RetrosSpec == RetrosInit /\ [][RetrosNext]_retroVars

-----------------------------------------------------------------------------
(* What each query shows of retrospective x.                                  *)
IsDraft(x) == retros[x].draft
SameTeam(v, x) == TeamOf[retros[x].author] = v.team
SharedTo(v, x) == v.id \in SharedWith(x) \/ (v.team # NoTeam /\ v.team \in SharedWith(x))

\* canAccess: null is the same team as null here.
\* Mutant: a draft's visibility counts.
RetroOpens_DraftsToo(v, x) ==
  \/ retros[x].author = v.id \/ v.role = "OWNER"
  \/ retros[x].visibility = "ALL"
  \/ retros[x].visibility = "TEAM" /\ SameTeam(v, x)
  \/ SharedTo(v, x)
RetroOpens(v, x) ==
  \/ retros[x].author = v.id \/ v.role = "OWNER"
  \/ retros[x].visibility = "ALL" /\ ~IsDraft(x)
  \/ retros[x].visibility = "TEAM" /\ ~IsDraft(x) /\ SameTeam(v, x)
  \/ SharedTo(v, x)

\* The list filters on visibility whether the row is a draft or not.
RetroListed(v, x) ==
  \/ retros[x].author = v.id \/ v.role = "OWNER"
  \/ retros[x].visibility = "ALL"
  \/ v.team # NoTeam /\ retros[x].visibility = "TEAM" /\ SameTeam(v, x)
  \/ SharedTo(v, x)
MyRetroListed(v, x) == retros[x].author = v.id
SharedWithMe(v, x) == SharedTo(v, x) /\ retros[x].author # v.id /\ ~IsDraft(x)

\* The variables have their types (all of the module).
RetrosTypeOK ==
  /\ retros \in [Retro -> RetroShape \union {Absent, Gone}]
  /\ retroShares \in SUBSET ShareShape
  /\ writing \in [Request -> WritingShape \union {NoRequest}]
  /\ batches \in Nat
  /\ granted \in [Retro -> SUBSET Reader] /\ mixed \in [Retro -> SUBSET Reader]
  /\ withdrawn \in SUBSET Retro

\* Those whom the last share and later additions named keep it, whatever other
\* share overlaps or fails, but for removals by row id; and only those whom
\* writes named that committed while that share was under way may read it
\* besides: a share that runs alone leaves the list it was given
\* (retrospectives.service.ts:348-356).
SharesAreLatest ==
  \A x \in Retro : Kept(x) =>
    /\ x \notin withdrawn => granted[x] \subseteq SharedWith(x)
    /\ SharedWith(x) \subseteq granted[x] \union mixed[x]

\* Only the author, an OWNER and those whom the last share, additions since or
\* writes that overlapped it named open a draft.  What the list of shared ones
\* shows opens; a published one of the list opens, and what opens is in the list,
\* but for one of a teamless author that a teamless user opens
\* (retrospectives.service.ts:52, 424, 480).
RetroReaders ==
  \A x \in Retro, u \in User : Kept(x) =>
    LET v == Viewer(u)
    IN /\ IsDraft(x) /\ RetroOpens(v, x) =>
            \/ u = retros[x].author \/ RoleOf[u] = "OWNER"
            \/ {u, TeamOf[u]} \intersect (granted[x] \union mixed[x]) # {}
       /\ SharedWithMe(v, x) \/ MyRetroListed(v, x) => RetroOpens(v, x)
       /\ RetroListed(v, x) /\ ~IsDraft(x) => RetroOpens(v, x)
       /\ RetroOpens(v, x) =>
            \/ RetroListed(v, x)
            \/ retros[x].visibility = "TEAM" /\ TeamOf[u] = NoTeam /\ TeamOf[retros[x].author] = NoTeam
=============================================================================
